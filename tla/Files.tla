------------------------------- MODULE Files ---------------------------------
(***************************************************************************)
(* What plat_file promises its callers, include/platform.h 34-67: a disk   *)
(* of named files, and open files that each have a name and a place of     *)
(* their own.  Nothing here knows of handles, slots, buffers, or how many  *)
(* system calls an operation takes.  Gem4xeFiles and PlainFiles are shown  *)
(* to implement it.                                                        *)
(*                                                                         *)
(* platform.h leaves much open, and the backends answer it differently.    *)
(* `quirks` is the set of answers a backend gives:                         *)
(*   "ends"     writes of a file opened to append go to its end, whatever  *)
(*              place it is said to be at                                  *)
(*   "lax"      a file opened to read can be written                       *)
(*   "beyond"   a file can be moved beyond its end                         *)
(*   "clamps"   a seek beyond the end fails and moves to the end           *)
(*   "drifts"   a failed plat_file_size may leave the file at its end      *)
(*   "unsought" an append may start at the beginning of the file           *)
(*   "empties"  an append that cannot open the file may empty it           *)
(*   "creates"  a failed open to write or append may create the file       *)
(*   "spends"   a failed open to write may empty the file, when as many    *)
(*              are open as there can be                                   *)
(*   "short"    a read may stop before out_cap and before the end          *)
(*   "tears"    of what was written since the open, and answered WP_OK,    *)
(*              some may be missing after the close, or after a failure    *)
(***************************************************************************)
EXTENDS Integers, Sequences

CONSTANTS
  Names,      (* native paths                                              *)
  Bytes,
  MaxSize,    (* bytes a file can hold before the disk is full             *)
  MaxOut,     (* the largest out_cap, and the longest write                *)
  Offsets,    (* offsets of a seek                                         *)
  Ptrs        (* the values a plat_file pointer may have                   *)

VARIABLES
  quirks,
  disk,       (* the existing files: name -> bytes                         *)
  opened,     (* the open files: pointer -> [name, pos, mode, old]; `old`  *)
              (* is how many bytes it had when opened, if "ends" applies   *)
  status,     (* of the last call                                          *)
  got,        (* bytes the last call read                                  *)
  told,       (* number or pointer it stored through its out parameter     *)
  asked       (* if it was OK: a read's out_cap, the place a seek was to   *)
              (* go to, the length of a write                              *)

vars == <<quirks, disk, opened, status, got, told, asked>>

Modes == {"read", "write", "append"}
Whences == {"SET", "CUR", "END"}
May(quirk) == quirk \in quirks

Put(f, x, v) == [y \in DOMAIN f \cup {x} |-> IF y = x THEN v ELSE f[y]]
Drop(f, x) == [y \in DOMAIN f \ {x} |-> f[y]]
SeqsUpTo(S, n) == UNION {[1..m -> S] : m \in 0..n}
AtMost(a, b) == IF a < b THEN a ELSE b
AtLeast(a, b) == IF a < b THEN b ELSE a
Gaps(s, at) == [1..AtLeast(0, at - Len(s)) -> Bytes]
Overwrite(s, at, data) ==
  SubSeq(s, 1, at) \o data \o SubSeq(s, at + Len(data) + 1, Len(s))

(* Where a seek of f goes, and what a read of it finds.                    *)
Target(f, offset, whence) ==
  offset + CASE whence = "SET" -> 0 [] whence = "CUR" -> f.pos
             [] whence = "END" -> Len(disk[f.name])
Rest(f, cap) == AtMost(cap, AtLeast(0, Len(disk[f.name]) - f.pos))

Init ==
  /\ \E some \in SUBSET Names : disk = [name \in some |-> <<>>]
  /\ opened = <<>> /\ status = "none" /\ got = <<>> /\ told = 0 /\ asked = 0

Says(s, n) == status' = s /\ got' = <<>> /\ told' = n /\ UNCHANGED quirks
Done(n) == Says("OK", n) /\ asked' = 0
Fails == Says("ERR", 0) /\ asked' = 0
MovesTo(p, pos) == opened' = [opened EXCEPT ![p].pos = pos]

(* A failure of a file that is being written: something of what was        *)
(* written is missing, nothing of what an append found.                    *)
Tears(p) ==
  LET f == opened[p]
  IN  /\ May("tears") /\ f.mode # "read"
      /\ \E s \in SeqsUpTo(Bytes, MaxSize) :
           /\ Len(s) >= f.old /\ SubSeq(s, 1, f.old) = SubSeq(disk[f.name], 1, f.old)
           /\ disk' = [disk EXCEPT ![f.name] = s]

(* A new pointer, to `name` at `pos`.                                      *)
Opens(name, pos, mode) ==
  \E p \in Ptrs \ DOMAIN opened :
    /\ Done(p)
    /\ opened' = Put(opened, p, [name |-> name, pos |-> pos, mode |-> mode,
         old |-> IF May("ends") /\ mode = "append" THEN Len(disk'[name]) ELSE 0])

OpenRead(name) == name \in DOMAIN disk /\ UNCHANGED disk /\ Opens(name, 0, "read")

OpenWrite(name) == disk' = Put(disk, name, <<>>) /\ Opens(name, 0, "write")

(* Nothing of an existing file goes, and writing starts at its end.        *)
OpenAppend(name) ==
  \/ /\ name \in DOMAIN disk /\ UNCHANGED disk
     /\ \E pos \in {0, Len(disk[name])} :
          /\ pos = Len(disk[name]) \/ May("unsought") \/ May("ends")
          /\ Opens(name, pos, "append")
  \/ /\ name \notin DOMAIN disk \/ May("empties")
     /\ disk' = Put(disk, name, <<>>) /\ Opens(name, 0, "append")

OpenFails(name, mode) ==
  /\ Fails /\ UNCHANGED opened
  /\ \/ UNCHANGED disk
     \/ /\ mode # "read" /\ name \notin DOMAIN disk /\ May("creates")
        /\ disk' = Put(disk, name, <<>>)
     \/ /\ mode # "read" /\ Ptrs = DOMAIN opened /\ May("spends")
        /\ disk' = Put(disk, name, <<>>)

Open(name, mode) ==
  \/ mode = "read" /\ OpenRead(name)
  \/ mode = "write" /\ OpenWrite(name)
  \/ mode = "append" /\ OpenAppend(name)
  \/ OpenFails(name, mode)

(* The next bytes, as many as there are; fewer than asked only at the end. *)
Read(p, cap) ==
  LET f == opened[p]
  IN  /\ UNCHANGED disk
      /\ \/ \E n \in 0..Rest(f, cap) :
              /\ n = Rest(f, cap) \/ (May("short") /\ n > 0)
              /\ status' = "OK" /\ told' = n /\ asked' = cap /\ UNCHANGED quirks
              /\ got' = SubSeq(disk[f.name], f.pos + 1, f.pos + n)
              /\ MovesTo(p, f.pos + n)
         \/ Fails /\ \E n \in 0..Rest(f, cap) :
              (n = 0 \/ May("tears")) /\ MovesTo(p, f.pos + n)

(* OK when every byte is in the file; ERR when only the first n are.       *)
Write(p, data) ==
  LET f == opened[p]
      at == IF f.mode = "append" /\ May("ends") THEN Len(disk[f.name]) ELSE f.pos
      Ends(n) == IF n = Len(data) THEN Says("OK", 0) /\ asked' = n ELSE Fails
  IN  \/ Ends(0) /\ UNCHANGED <<disk, opened>>
      \/ \E n \in 1..Len(data), gap \in Gaps(disk[f.name], at) :
           /\ Ends(n) /\ (f.mode # "read" \/ May("lax"))
           /\ disk' = [disk EXCEPT ![f.name] = Overwrite(@ \o gap, at, SubSeq(data, 1, n))]
           /\ MovesTo(p, at + n)
      \/ /\ Fails /\ Tears(p)
         /\ \E pos \in 0..Len(disk'[f.name]) : MovesTo(p, pos)

(* To the place asked for, or nowhere.                                     *)
Seek(p, offset, whence) ==
  LET f == opened[p]
      to == Target(f, offset, whence)
      size == Len(disk[f.name])
  IN  \/ /\ to >= 0 /\ (to <= size \/ May("beyond"))
         /\ Says("OK", 0) /\ asked' = to /\ UNCHANGED disk /\ MovesTo(p, to)
      \/ Fails /\ UNCHANGED <<disk, opened>>
      \/ May("clamps") /\ to > size /\ Fails /\ MovesTo(p, size) /\ UNCHANGED disk
      \/ Fails /\ Tears(p) /\ MovesTo(p, AtMost(f.pos, Len(disk'[f.name])))

Tell(p) ==
  /\ \/ Done(opened[p].pos)
     \/ Fails
  /\ UNCHANGED <<disk, opened>>

(* The size, without moving.                                               *)
Size(p) ==
  LET f == opened[p]
      size == Len(disk[f.name])
  IN  \/ Done(size) /\ UNCHANGED <<disk, opened>>
      \/ Fails /\ UNCHANGED <<disk, opened>>
      \/ Fails /\ May("drifts") /\ MovesTo(p, size) /\ UNCHANGED disk
      \/ Fails /\ Tears(p) /\ MovesTo(p, AtMost(f.pos, Len(disk'[f.name])))

Close(p) ==
  /\ UNCHANGED <<quirks, status, got, told, asked>>
  /\ UNCHANGED disk \/ Tears(p)
  /\ opened' = Drop(opened, p)

Delete(name) ==
  /\ \/ Done(0) /\ name \in DOMAIN disk /\ disk' = Drop(disk, name)
     \/ Fails /\ UNCHANGED disk
  /\ UNCHANGED opened

(* TRUE only of a file that exists; FALSE may also mean it cannot be       *)
(* opened now.                                                             *)
Exists(name) ==
  /\ \E n \in IF name \in DOMAIN disk THEN {0, 1} ELSE {0} : Done(n)
  /\ UNCHANGED <<disk, opened>>

Next ==
  \/ \E name \in Names : \/ \E mode \in Modes : Open(name, mode)
                         \/ Delete(name) \/ Exists(name)
  \/ \E p \in DOMAIN opened :
       \/ \E cap \in 0..MaxOut : Read(p, cap)
       \/ \E data \in SeqsUpTo(Bytes, MaxOut) : Write(p, data)
       \/ \E offset \in Offsets, whence \in Whences : Seek(p, offset, whence)
       \/ Tell(p) \/ Size(p) \/ Close(p)

Spec == Init /\ [][Next]_vars
==============================================================================
