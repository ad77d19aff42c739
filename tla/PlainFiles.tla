----------------------------- MODULE PlainFiles ------------------------------
(***************************************************************************)
(* plat_file where the machine's own handle serves as the pointer:         *)
(*   "host", "atari"  C streams; file_dos.c is file_atari.c line for line  *)
(*   "amiga"          AmigaDOS file handles                                *)
(*   "mac"            File Manager reference numbers                       *)
(*                                                                         *)
(* The systems and C libraries are external; a call of theirs may fail.    *)
(* A stream keeps what is written and passes it on when it likes, at the   *)
(* latest when it is moved or closed: `firm` is what the system has.       *)
(*                                                                         *)
(* Callers pass the pointers open gave them and closed no more than once,  *)
(* and do not open, empty or delete a file they are writing.               *)
(***************************************************************************)
EXTENDS Integers, Sequences

CONSTANTS
  Targets,
  Pointers,   (* as many files as can be open                              *)
  Names, Bytes, MaxSize, MaxOut, Offsets      (* as in Files               *)

VARIABLES
  target,
  open,       (* open files: pointer -> [name, pos, mode, old, firm]       *)
  disk, status, got, told, asked          (* as in Files                   *)

vars == <<target, open, disk, status, got, told, asked>>

Streams == {"host", "atari"}
Quirks ==
  CASE target = "host"  -> {"ends", "beyond", "drifts", "tears"}
    [] target = "atari" -> {"ends", "beyond", "drifts", "tears", "short"}
    [] target = "amiga" -> {"lax", "drifts", "unsought", "empties"}
    [] target = "mac"   -> {"lax", "clamps", "creates"}

Opened == [p \in DOMAIN open |-> [name |-> open[p].name, pos |-> open[p].pos,
                                  mode |-> open[p].mode, old |-> open[p].old]]
F == INSTANCE Files WITH quirks <- Quirks, opened <- Opened, Ptrs <- Pointers

Init ==
  /\ target \in Targets /\ open = <<>>
  /\ disk \in [Names -> {<<>>}] \cup {<<>>}
  /\ status = "none" /\ got = <<>> /\ told = 0 /\ asked = 0

Answers(s, n, a) ==
  status' = s /\ got' = <<>> /\ told' = n /\ asked' = a /\ UNCHANGED target
OK(n) == Answers("OK", n, 0)
Fails == Answers("ERR", 0, 0)
Nothing == UNCHANGED <<open, disk>>

Size(f) == Len(disk[f.name])
OpenBy(name) == {p \in DOMAIN open : open[p].name = name}
NotOpen(name) == OpenBy(name) = {}
NotWritten(name) == \A p \in OpenBy(name) : open[p].mode = "read"

------------------------------------------------------------------------------
(* Open.                                                                   *)

(* The system opens the file; from here on it is as long as disk' says.    *)
SystemOpens(name, pos, mode) ==
  \E p \in Pointers \ DOMAIN open :
    /\ open' = F!Put(open, p,
         [name |-> name, pos |-> pos, mode |-> mode,
          old |-> IF target \in Streams /\ mode = "append" THEN Len(disk'[name]) ELSE 0,
          firm |-> IF target \in Streams /\ mode # "read" THEN disk'[name] ELSE <<>>])
    /\ OK(p)

(* fopen, Open, FSOpen, which gives a file that is open already to nobody  *)
(* else.                                                                   *)
OpenRead(name) ==
  /\ NotWritten(name) /\ name \in DOMAIN disk
  /\ target = "mac" => NotOpen(name)
  /\ SystemOpens(name, 0, "read") /\ UNCHANGED disk

(* "wb", MODE_NEWFILE, or Create, FSOpen and SetEOF.                       *)
OpenWrite(name) ==
  /\ NotOpen(name)
  /\ disk' = F!Put(disk, name, <<>>) /\ SystemOpens(name, 0, "write")

(* "ab", whose first place is the library's choice.                        *)
OpenAppendStream(name) ==
  /\ target \in Streams /\ NotOpen(name)
  /\ disk' = IF name \in DOMAIN disk THEN disk ELSE F!Put(disk, name, <<>>)
  /\ \E pos \in {0, Len(disk'[name])} : SystemOpens(name, pos, "append")

(* MODE_READWRITE - or, that failing for whatever reason, MODE_NEWFILE -   *)
(* and a Seek to the end nobody looks at.                                  *)
OpenAppendAmiga(name) ==
  /\ target = "amiga" /\ NotOpen(name)
  /\ disk' \in {IF name \in DOMAIN disk THEN disk ELSE F!Put(disk, name, <<>>),
                F!Put(disk, name, <<>>)}
  /\ \E pos \in {0, Len(disk'[name])} : SystemOpens(name, pos, "append")

(* Create, which may find the file there, FSOpen and SetFPos.              *)
OpenAppendMac(name) ==
  /\ target = "mac" /\ NotOpen(name)
  /\ disk' = IF name \in DOMAIN disk THEN disk ELSE F!Put(disk, name, <<>>)
  /\ SystemOpens(name, Len(disk'[name]), "append")

OpenRefused == Fails /\ Nothing

(* Create has made the file when FSOpen, SetEOF or SetFPos fails.          *)
MacCreates(name) ==
  /\ target = "mac" /\ name \notin DOMAIN disk
  /\ disk' = F!Put(disk, name, <<>>) /\ Fails /\ UNCHANGED open

------------------------------------------------------------------------------
(* Read.                                                                   *)

Reads(p, cap, n) ==
  LET f == open[p]
  IN  /\ open' = [open EXCEPT ![p].pos = f.pos + n]
      /\ got' = SubSeq(disk[f.name], f.pos + 1, f.pos + n)
      /\ status' = "OK" /\ told' = n /\ asked' = cap /\ UNCHANGED <<target, disk>>

ReadFails(p, n) ==
  Fails /\ open' = [open EXCEPT ![p].pos = open[p].pos + n] /\ UNCHANGED disk

(* Read and FSRead fail, or give what there is.                            *)
ReadHandle(p, cap) ==
  /\ target \notin Streams
  /\ Reads(p, cap, F!Rest(open[p], cap)) \/ ReadFails(p, 0)

(* A variant of ReadHost that does not ask ferror.                         *)
ReadHostTrusting(p, cap) ==
  /\ target = "host" /\ \E n \in 0..F!Rest(open[p], cap) : Reads(p, cap, n)

(* fread, which may stop early: then host asks ferror.  A stream opened to *)
(* be written gives nothing, and an error; the error stays, so that later  *)
(* reads that come to the end fail as well.                                *)
ReadHost(p, cap) ==
  /\ target = "host"
  /\ \/ (open[p].mode = "read" \/ cap = 0) /\ Reads(p, cap, F!Rest(open[p], cap))
     \/ /\ cap > 0
        /\ \E n \in 0..F!Rest(open[p], cap) :
             /\ n < cap /\ (open[p].mode = "read" \/ n = 0)
             /\ ReadFails(p, n)

(* The same; atari asks feof, and only if nothing came.  feof remembers an *)
(* earlier read that met the end.                                          *)
ReadAtari(p, cap) ==
  /\ target = "atari"
  /\ IF open[p].mode # "read" THEN ReadFails(p, 0)
     ELSE \/ \E n \in 1..F!Rest(open[p], cap) : Reads(p, cap, n)
          \/ ReadFails(p, 0)
          \/ F!Rest(open[p], cap) = 0 /\ open[p].pos >= Size(open[p]) /\ Reads(p, cap, 0)

------------------------------------------------------------------------------
(* Write.                                                                  *)

(* n bytes of data come to stand at `at`, after whatever is in between.    *)
Written(f, at, data, n) ==
  {F!Overwrite(disk[f.name] \o gap, at, SubSeq(data, 1, n)) : gap \in F!Gaps(disk[f.name], at)}

(* Write and FSWrite take n bytes; any handle may be written.              *)
WriteHandle(p, data) ==
  LET f == open[p]
  IN  /\ target \notin Streams
      /\ \E n \in 0..Len(data) :
           /\ f.pos + n <= MaxSize
           /\ \E s \in Written(f, f.pos, data, n) : disk' = [disk EXCEPT ![f.name] = s]
           /\ open' = [open EXCEPT ![p].pos = f.pos + n]
           /\ IF n = Len(data) THEN Answers("OK", 0, n) ELSE Fails

(* What is on the disk when the system got only a part of `file` over      *)
(* `firm`: the stream passes bytes on in their order.                      *)
Partly(file, firm) ==
  {SubSeq(file, 1, n) \o SubSeq(firm, n + 1, Len(firm)) : n \in 0..Len(file)}

(* A variant of Place that writes where the stream is.                     *)
PlaceAnywhere(f) == f.pos

(* Where the next byte goes: to the end, on a stream opened to append.     *)
Place(f) == IF f.mode = "append" THEN Size(f) ELSE f.pos

(* fwrite takes all, and the system has got some of it.                    *)
WriteStream(p, data) ==
  LET f == open[p]
      at == Place(f)
  IN  /\ target \in Streams
      /\ \/ data = <<>> /\ OK(0) /\ Nothing
         \/ f.mode = "read" /\ data # <<>> /\ Fails /\ Nothing
         \/ /\ f.mode # "read" /\ data # <<>> /\ at + Len(data) <= MaxSize
            /\ \E s \in Written(f, at, data, Len(data)) : \E firm \in Partly(s, f.firm) :
                 /\ disk' = [disk EXCEPT ![f.name] = s]
                 /\ open' = [open EXCEPT ![p].pos = at + Len(data), ![p].firm = firm]
            /\ Answers("OK", 0, Len(data))

(* The system refuses: some of what was kept, or is now written, is lost,  *)
(* and where the stream is then nobody knows.                              *)
WriteLost(p, data) ==
  LET f == open[p]
      at == Place(f)
  IN  /\ target \in Streams /\ f.mode # "read" /\ data # <<>> /\ at + Len(data) <= MaxSize
      /\ \E s \in Written(f, at, data, Len(data)) : \E firm \in Partly(s, f.firm) :
           /\ disk' = [disk EXCEPT ![f.name] = firm]
           /\ \E pos \in 0..Len(firm) :
                open' = [open EXCEPT ![p].pos = pos, ![p].firm = firm]
      /\ Fails

(* fflush, on the way of a seek or a close: all of it gets to the system,  *)
(* or a part.                                                              *)
Flushed(p) == open[p].mode # "read" => open[p].firm = disk[open[p].name]
Flushes(p, pos) ==
  open' = [open EXCEPT ![p].pos = pos,
             ![p].firm = IF open[p].mode = "read" THEN @ ELSE disk[open[p].name]]
FlushFails(p) ==
  LET f == open[p]
  IN  /\ target \in Streams /\ ~ Flushed(p)
      /\ \E firm \in Partly(disk[f.name], f.firm) :
           /\ disk' = [disk EXCEPT ![f.name] = firm]
           /\ open' = [open EXCEPT ![p].pos = F!AtMost(f.pos, Len(firm)), ![p].firm = firm]
      /\ Fails

------------------------------------------------------------------------------
(* Seek, tell and size.                                                    *)

(* fseek goes beyond the end too; Seek does not; SetFPos goes to the end   *)
(* instead and fails.                                                      *)
Seek(p, offset, whence) ==
  LET f == open[p]
      to == F!Target(f, offset, whence)
  IN  \/ /\ to >= 0 /\ (to <= Size(f) \/ (target \in Streams /\ to <= MaxSize))
         /\ Flushes(p, to) /\ Answers("OK", 0, to) /\ UNCHANGED disk
      \/ /\ target = "mac" /\ to > Size(f)
         /\ open' = [open EXCEPT ![p].pos = Size(f)] /\ Fails /\ UNCHANGED disk
      \/ Fails /\ Nothing
      \/ FlushFails(p)

Tell(p) ==
  /\ OK(open[p].pos) \/ Fails
  /\ Nothing

(* A variant of SizeBySeeking that stays at the end.                       *)
SizeStaying(p) ==
  /\ target # "mac"
  /\ Flushes(p, Size(open[p])) /\ OK(Size(open[p])) /\ UNCHANGED disk

(* To the end and back, by way of fseek and ftell, or of Seek.             *)
SizeBySeeking(p) ==
  /\ target # "mac"
  /\ \/ Flushes(p, open[p].pos) /\ OK(Size(open[p])) /\ UNCHANGED disk
     \/ Flushes(p, Size(open[p])) /\ Fails /\ UNCHANGED disk
     \/ Fails /\ Nothing
     \/ FlushFails(p)

(* GetEOF.                                                                 *)
SizeAsked(p) ==
  /\ target = "mac"
  /\ OK(Size(open[p])) \/ Fails
  /\ Nothing

------------------------------------------------------------------------------
(* fclose, which may fail and is not asked; Close; FSClose.                *)
Close(p) ==
  LET f == open[p]
  IN  /\ open' = F!Drop(open, p)
      /\ \/ UNCHANGED disk
         \/ /\ target \in Streams /\ ~ Flushed(p)
            /\ \E s \in Partly(disk[f.name], f.firm) : disk' = [disk EXCEPT ![f.name] = s]
      /\ UNCHANGED <<target, status, got, told, asked>>

(* remove, DeleteFile, FSDelete.                                           *)
Delete(name) ==
  /\ NotOpen(name) /\ UNCHANGED open
  /\ \/ name \in DOMAIN disk /\ disk' = F!Drop(disk, name) /\ OK(0)
     \/ Fails /\ UNCHANGED disk

(* fopen, Lock or FSOpen; the second fails on a file that is written, the  *)
(* third on any that is open.                                              *)
Exists(name) ==
  /\ \/ /\ name \in DOMAIN disk
        /\ target = "amiga" => NotWritten(name)
        /\ target = "mac" => NotOpen(name)
        /\ OK(1)
     \/ OK(0)
  /\ Nothing

Next ==
  \/ \E name \in Names :
       \/ OpenRefused \/ OpenRead(name) \/ OpenWrite(name)
       \/ OpenAppendStream(name) \/ OpenAppendAmiga(name) \/ OpenAppendMac(name)
       \/ MacCreates(name) \/ Delete(name) \/ Exists(name)
  \/ \E p \in DOMAIN open :
       \/ \E cap \in 0..MaxOut : ReadHandle(p, cap) \/ ReadHost(p, cap) \/ ReadAtari(p, cap)
       \/ \E data \in F!SeqsUpTo(Bytes, MaxOut) :
            WriteHandle(p, data) \/ WriteStream(p, data) \/ WriteLost(p, data)
       \/ \E offset \in Offsets, whence \in F!Whences : Seek(p, offset, whence)
       \/ Tell(p) \/ SizeBySeeking(p) \/ SizeAsked(p) \/ Close(p)

Spec == Init /\ [][Next]_vars

------------------------------------------------------------------------------
(* Properties.                                                             *)

(* Type invariant of the open files and the disk.                          *)
TypeOK ==
  /\ target \in Targets /\ DOMAIN open \subseteq Pointers
  /\ \A p \in DOMAIN open :
       open[p] \in [name : Names, pos : 0..MaxSize, mode : F!Modes,
                    old : 0..MaxSize, firm : F!SeqsUpTo(Bytes, MaxSize)]
  /\ DOMAIN disk \subseteq Names
  /\ \A name \in DOMAIN disk : disk[name] \in F!SeqsUpTo(Bytes, MaxSize)
  /\ status \in {"none", "OK", "ERR"}
  /\ got \in F!SeqsUpTo(Bytes, MaxOut) /\ told \in 0..MaxSize \cup Pointers
  /\ asked \in 0..(MaxSize + MaxOut)

(* Every target keeps plat_file's promises, its own quirks allowed for.    *)
ImplementsFiles == F!Spec
==============================================================================
