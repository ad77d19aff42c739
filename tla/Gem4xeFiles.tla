----------------------------- MODULE Gem4xeFiles -----------------------------
(***************************************************************************)
(* backends/atari/file_gem4xe.c: plat_file over GEMDOS.  GEMDOS answers an *)
(* open with a small number that may be 0, so a plat_file pointer is a     *)
(* slot of a table of MAXOPEN that remembers the number.                   *)
(*                                                                         *)
(* GEMDOS is external: its open handles, the disk, and what its calls do.  *)
(* A call of it may fail (no handle left, a full disk, a device error),    *)
(* and then does nothing, except that Fwrite may have written the start.   *)
(*                                                                         *)
(* Callers pass the pointers open gave them and closed no more than once,  *)
(* and do not open, empty or delete a file they are writing.               *)
(***************************************************************************)
EXTENDS Integers, Sequences

CONSTANTS
  MAXOPEN,    (* slots in the table                                        *)
  Handles,    (* numbers GEMDOS answers Fopen and Fcreate with             *)
  Names, Bytes, MaxSize, MaxOut, Offsets

ASSUME SlotsAssumption ==
  MAXOPEN \in Nat \ {0} /\ MaxSize \in Nat /\ MaxOut \in Nat /\ Offsets \subseteq Int

VARIABLES
  slot,       (* g_slot: used, and the handle                              *)
  gemdos,     (* GEMDOS's open handles: handle -> [name, pos, mode]        *)
  disk, status, got, told, asked          (* as in Files                   *)

vars == <<slot, gemdos, disk, status, got, told, asked>>

Slots == 1..MAXOPEN
Used == {i \in DOMAIN slot : slot[i].used}

Opened ==
  [i \in Used |-> LET f == gemdos[slot[i].h]
                  IN  [name |-> f.name, pos |-> f.pos, mode |-> f.mode, old |-> 0]]
Quirks == {"drifts", "unsought", "empties", "spends"}
F == INSTANCE Files WITH opened <- Opened, Ptrs <- Slots, quirks <- Quirks

Put(f, x, v) == F!Put(f, x, v)
Drop(f, x) == F!Drop(f, x)

Init ==
  /\ slot = [i \in Slots |-> [used |-> FALSE, h |-> 0]]
  /\ gemdos = <<>>
  /\ disk \in [Names -> {<<>>}] \cup {<<>>}
  /\ status = "none" /\ got = <<>> /\ told = 0 /\ asked = 0

Returns(s, n, a) == status' = s /\ got' = <<>> /\ told' = n /\ asked' = a
OK(n) == Returns("OK", n, 0)
Fails == Returns("ERR", 0, 0)

(* What of the callers' discipline a call on `name` needs.                 *)
NotOpen(name) == \A h \in DOMAIN gemdos : gemdos[h].name # name
NotWritten(name) ==
  \A h \in DOMAIN gemdos : gemdos[h].name = name => gemdos[h].mode = "read"

------------------------------------------------------------------------------
(* GEMDOS.                                                                 *)

NewHandles == Handles \ DOMAIN gemdos
File(name, pos, mode) == [name |-> name, pos |-> pos, mode |-> mode]

(* The position Fseek answers, negative for one outside the file.          *)
SeekTo(f, offset, whence) ==
  LET size == Len(disk[f.name])
      to == offset + CASE whence = "SET" -> 0 [] whence = "CUR" -> f.pos
                       [] whence = "END" -> size
  IN  IF to \in 0..size THEN to ELSE -1

MovedTo(h, pos) == [gemdos EXCEPT ![h].pos = pos]

------------------------------------------------------------------------------
(* The slot table.                                                         *)

(* A variant of FirstFree that looks one past the table.                   *)
FirstFreeOver ==
  {i \in 1..(MAXOPEN + 1) : i \notin Used /\ \A j \in 1..(i - 1) : j \in Used}

FirstFree == {i \in Slots : i \notin Used /\ \A j \in 1..(i - 1) : j \in Used}

(* A variant of slot_new that leaves the handle open when no slot is free. *)
slot_new_leaky(h, file) ==
  \/ \E i \in FirstFree :
       /\ slot' = Put(slot, i, [used |-> TRUE, h |-> h])
       /\ gemdos' = Put(gemdos, h, file)
       /\ OK(i)
  \/ /\ FirstFree = {}
     /\ Fails /\ gemdos' = Put(gemdos, h, file) /\ UNCHANGED slot

(* slot_new, once GEMDOS has opened `file` as h: a slot, or Fclose(h).     *)
slot_new(h, file) ==
  \/ \E i \in FirstFree :
       /\ slot' = Put(slot, i, [used |-> TRUE, h |-> h])
       /\ gemdos' = Put(gemdos, h, file)
       /\ OK(i)
  \/ /\ FirstFree = {}
     /\ Fails /\ UNCHANGED <<slot, gemdos>>

slot_h(i) == slot[i].h

------------------------------------------------------------------------------
(* plat_file_open, by mode.                                                *)

OpenRead(name) ==
  /\ NotWritten(name)
  /\ name \in DOMAIN disk
  /\ \E h \in NewHandles : slot_new(h, File(name, 0, "read"))
  /\ UNCHANGED disk

(* Fcreate creates the file or empties it.                                 *)
OpenWrite(name) ==
  /\ NotOpen(name)
  /\ disk' = Put(disk, name, <<>>)
  /\ \E h \in NewHandles : slot_new(h, File(name, 0, "write"))

(* Fopen and Fseek to the end, whose result nobody looks at; or, Fopen     *)
(* having failed for whatever reason, Fcreate.                             *)
OpenAppend(name) ==
  /\ NotOpen(name)
  /\ \/ /\ name \in DOMAIN disk
        /\ \E h \in NewHandles, pos \in {0, Len(disk[name])} :
             slot_new(h, File(name, pos, "append"))
        /\ UNCHANGED disk
     \/ /\ disk' = Put(disk, name, <<>>)
        /\ \E h \in NewHandles : slot_new(h, File(name, 0, "append"))

(* No such file, no handle left, or a mode or pointer open rejects.        *)
OpenRefused == Fails /\ UNCHANGED <<slot, gemdos, disk>>

------------------------------------------------------------------------------
(* Calls on an open file.                                                  *)

Read(i, cap) ==
  LET h == slot_h(i)
      f == gemdos[h]
      n == F!AtMost(cap, Len(disk[f.name]) - f.pos)
  IN  \/ /\ gemdos' = MovedTo(h, f.pos + n)
         /\ got' = SubSeq(disk[f.name], f.pos + 1, f.pos + n)
         /\ status' = "OK" /\ told' = n /\ asked' = cap
         /\ UNCHANGED <<slot, disk>>
      \/ Fails /\ UNCHANGED <<slot, gemdos, disk>>

(* Fwrite takes n bytes, fewer than there are if the disk fills up, none   *)
(* of a file opened to be read.                                            *)
Write(i, data) ==
  LET h == slot_h(i)
      f == gemdos[h]
  IN  /\ slot' = slot
      /\ \/ data = <<>> /\ OK(0) /\ UNCHANGED <<gemdos, disk>>
         \/ data # <<>> /\ Fails /\ UNCHANGED <<gemdos, disk>>
         \/ \E n \in 1..Len(data) :
              /\ f.mode # "read" /\ f.pos + n <= MaxSize
              /\ disk' = Put(disk, f.name,
                             F!Overwrite(disk[f.name], f.pos, SubSeq(data, 1, n)))
              /\ gemdos' = MovedTo(h, f.pos + n)
              /\ IF n = Len(data) THEN Returns("OK", 0, n) ELSE Fails

Seek(i, offset, whence) ==
  LET h == slot_h(i)
      to == SeekTo(gemdos[h], offset, whence)
  IN  /\ \/ /\ to >= 0 /\ gemdos' = MovedTo(h, to)
            /\ Returns("OK", 0, F!Target(Opened[i], offset, whence))
         \/ Fails /\ UNCHANGED gemdos
      /\ UNCHANGED <<slot, disk>>

Tell(i) ==
  LET at == SeekTo(gemdos[slot_h(i)], 0, "CUR")
  IN  /\ \/ at >= 0 /\ OK(at)
         \/ Fails
      /\ UNCHANGED <<slot, gemdos, disk>>

(* A variant of SeekBack that stays at the end.                            *)
StayAtEnd(h, cur, end) == MovedTo(h, end)

(* The file once plat_file_size has been to the end and returned.          *)
SeekBack(h, cur, end) == MovedTo(h, SeekTo([gemdos[h] EXCEPT !.pos = end], cur, "SET"))

(* Three Fseeks: where am I, how long, and back.  The third may fail when  *)
(* the second has already moved the file.                                  *)
Size(i) ==
  LET h == slot_h(i)
      cur == SeekTo(gemdos[h], 0, "CUR")
      end == SeekTo(gemdos[h], 0, "END")
  IN  /\ \/ gemdos' = SeekBack(h, cur, end)
            /\ OK(end)
         \/ Fails /\ UNCHANGED gemdos
         \/ Fails /\ gemdos' = MovedTo(h, end)
      /\ UNCHANGED <<slot, disk>>

(* Fclose, and the slot is free whatever Fclose answered.                  *)
Close(i) ==
  /\ gemdos' = Drop(gemdos, slot_h(i))
  /\ slot' = [slot EXCEPT ![i].used = FALSE]
  /\ UNCHANGED <<disk, status, got, told, asked>>

------------------------------------------------------------------------------
(* Calls on a name.                                                        *)

Delete(name) ==
  /\ NotOpen(name)
  /\ \/ name \in DOMAIN disk /\ disk' = Drop(disk, name) /\ OK(0)
     \/ Fails /\ UNCHANGED disk
  /\ UNCHANGED <<slot, gemdos>>

(* A file exists if Fopen opens it, which takes a handle for a moment.     *)
Exists(name) ==
  /\ NotWritten(name)
  /\ \/ name \in DOMAIN disk /\ NewHandles # {} /\ OK(1)
     \/ OK(0)
  /\ UNCHANGED <<slot, gemdos, disk>>

Next ==
  \/ \E name \in Names : \/ OpenRead(name) \/ OpenWrite(name) \/ OpenAppend(name)
                         \/ OpenRefused \/ Delete(name) \/ Exists(name)
  \/ \E i \in Used :
       \/ \E cap \in 0..MaxOut : Read(i, cap)
       \/ \E data \in F!SeqsUpTo(Bytes, MaxOut) : Write(i, data)
       \/ \E offset \in Offsets, whence \in F!Whences : Seek(i, offset, whence)
       \/ Tell(i) \/ Size(i) \/ Close(i)

Spec == Init /\ [][Next]_vars

------------------------------------------------------------------------------
(* Properties.                                                             *)

Status == {"none", "OK", "ERR"}
OpenFile == [name : Names, pos : 0..MaxSize, mode : F!Modes]

(* Type invariant of the slot table, GEMDOS's handles and the disk.        *)
TypeOK ==
  /\ slot \in [Slots -> [used : BOOLEAN, h : Handles \cup {0}]]
  /\ DOMAIN gemdos \subseteq Handles
  /\ \A h \in DOMAIN gemdos : gemdos[h] \in OpenFile
  /\ DOMAIN disk \subseteq Names
  /\ \A name \in DOMAIN disk : disk[name] \in F!SeqsUpTo(Bytes, MaxSize)
  /\ status \in Status /\ got \in F!SeqsUpTo(Bytes, MaxOut) /\ told \in Nat /\ asked \in Nat

(* The handles GEMDOS holds open for the program are those of the used     *)
(* slots, each of one slot: a failed open, a close or a probe for          *)
(* existence leaves no handle behind, and no pointer reaches the handle of *)
(* another.                                                                *)
SlotsHoldHandles ==
  /\ DOMAIN gemdos = {slot[i].h : i \in Used}
  /\ \A i, j \in Used : slot[i].h = slot[j].h => i = j

(* Each pointer is an open file with a name and a place of its own, to     *)
(* which the calls through it do what plat_file promises, other open files *)
(* being left where they are.                                              *)
ImplementsFiles == F!Spec

(* Running out of slots is "like any other open failure": an open that     *)
(* answers WP_ERR leaves every file that was there as it was.              *)
FailedOpenKeepsFiles ==
  [][(\E name \in Names : OpenRead(name) \/ OpenWrite(name) \/ OpenAppend(name))
       /\ status' = "ERR"
     => \A name \in DOMAIN disk : name \in DOMAIN disk' /\ disk'[name] = disk[name]]_vars
==============================================================================
