------------------------------ MODULE Transport ------------------------------
(***************************************************************************)
(* What the transport seam of include/platform.h promises the offload      *)
(* client about one open link, whichever backend moves the bytes: a read   *)
(* delivers a nonempty prefix of what has come in and was not delivered    *)
(* yet, or times out, or fails; a write puts its bytes on the line one     *)
(* after the other and answers WP_OK only when all of them are.            *)
(*                                                                         *)
(* MayLose is what a read of this backend that times out may take off the  *)
(* line all the same.  platform.h gives no such allowance ("WP_TIMEOUT if  *)
(* none arrived in time"): the contract is MayLose = 0.                    *)
(***************************************************************************)
EXTENDS Integers, Sequences

CONSTANTS
  MaxCap,     (* the largest out_cap of a read                             *)
  MaxLen      (* the longest write                                         *)

VARIABLES
  MayLose,    (* bytes a timed-out read may lose                           *)
  coming,     (* number of the next byte the peer puts on the line         *)
  waiting,    (* bytes that have come in and no call has delivered         *)
  got,        (* bytes delivered to the caller, in order                   *)
  call,       (* "idle", "read" or "write"                                 *)
  room,       (* out_cap of the read going on                              *)
  left,       (* bytes of the write going on that are not on the line yet  *)
  status      (* what the last call returned                               *)

vars == <<coming, waiting, got, call, room, left, status>>

Init ==
  /\ coming = 1 /\ waiting = <<>> /\ got = <<>>
  /\ call = "idle" /\ room = 0 /\ left = 0 /\ status = "none"

(* A byte arrives; a line may also drop it, when nobody makes room.        *)
Arrive ==
  /\ coming' = coming + 1
  /\ waiting' \in {waiting, Append(waiting, coming)}
  /\ UNCHANGED <<got, call, room, left, status>>

StartRead(cap) ==
  /\ call = "idle"
  /\ call' = "read" /\ room' = cap
  /\ UNCHANGED <<coming, waiting, got, left, status>>

Deliver(n) ==
  /\ got' = got \o SubSeq(waiting, 1, n)
  /\ waiting' = SubSeq(waiting, n + 1, Len(waiting))
Forget(n) ==
  /\ waiting' = SubSeq(waiting, n + 1, Len(waiting))
  /\ UNCHANGED got

EndRead ==
  /\ call = "read"
  /\ call' = "idle" /\ room' = 0
  /\ \/ /\ status' = "OK"
        /\ \E n \in 1 .. room : n <= Len(waiting) /\ Deliver(n)
     \/ /\ status' = "TIMEOUT"
        /\ \E n \in 0 .. MayLose : n <= Len(waiting) /\ Forget(n)
     \/ status' = "ERR" /\ Forget(0)
  /\ UNCHANGED <<coming, left>>

StartWrite(n) ==
  /\ call = "idle"
  /\ call' = "write" /\ left' = n
  /\ UNCHANGED <<coming, waiting, got, room, status>>

(* Only a running write puts bytes on the line.                            *)
Send ==
  /\ call = "write"
  /\ left' \in 0 .. left - 1
  /\ UNCHANGED <<coming, waiting, got, call, room, status>>

EndWrite ==
  /\ call = "write"
  /\ call' = "idle" /\ left' = 0
  /\ status' \in {"OK", "TIMEOUT", "ERR"}
  /\ status' = "OK" => left = 0
  /\ UNCHANGED <<coming, waiting, got, room>>

(* A read into no room, or a write of nothing, has nothing to wait for;    *)
(* opening and closing leave the line alone.                               *)
Trivial ==
  /\ call = "idle"
  /\ status' \in {"none", "OK", "ERR", "NOMEM", "UNSUPPORTED"}
  /\ UNCHANGED <<coming, waiting, got, call, room, left>>

Next ==
  \/ Arrive
  \/ \E cap \in 0 .. MaxCap : StartRead(cap)
  \/ EndRead
  \/ \E n \in 1 .. MaxLen : StartWrite(n)
  \/ Send \/ EndWrite
  \/ Trivial

Spec == Init /\ [][Next]_vars
==============================================================================
