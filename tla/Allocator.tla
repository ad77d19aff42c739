------------------------------ MODULE Allocator ------------------------------
(***************************************************************************)
(* What the memory seam of include/platform.h promises the engine,         *)
(* whichever backend sits behind it: mem_alloc, mem_realloc and mem_free   *)
(* as operations on the set of allocations the caller holds.  How a        *)
(* backend finds the bytes is not visible here; Gem4xeHeap is shown to     *)
(* implement this module.                                                  *)
(***************************************************************************)
EXTENDS Integers

CONSTANTS
  Pointers,   (* positive addresses a successful call may return: no NULL  *)
  Requests    (* byte counts the engine asks for; 0 is legal               *)

VARIABLE
  live        (* [pointer held by the engine -> bytes it asked for]        *)

(***************************************************************************)
(* The bytes an allocation occupies.  platform.h lets mem_alloc(0) return  *)
(* a distinct pointer; such an allocation still owns the byte it points    *)
(* at, which is what makes it distinct.                                    *)
(***************************************************************************)
Bytes(n) == IF n = 0 THEN 1 ELSE n
Apart(p, m, q, n) == p + Bytes(m) <= q \/ q + Bytes(n) <= p

Hold(p, n, held) ==
  [q \in DOMAIN held \cup {p} |-> IF q = p THEN n ELSE held[q]]
Drop(p, held) == [q \in DOMAIN held \ {p} |-> held[q]]

(* A fresh allocation overlaps nothing the engine already holds.           *)
Fresh(p, n) == \A q \in DOMAIN live : Apart(p, n, q, live[q])

Init == live = [q \in {} |-> 0]

(* mem_alloc: a fresh allocation, or NULL and nothing happens.             *)
Alloc(n) ==
  \/ UNCHANGED live
  \/ \E p \in Pointers : Fresh(p, n) /\ live' = Hold(p, n, live)

(* mem_free of a pointer the engine holds.                                 *)
Free(p) == p \in DOMAIN live /\ live' = Drop(p, live)

(***************************************************************************)
(* mem_realloc of a held pointer: free when the new size is 0, otherwise   *)
(* resized where it is, or moved to bytes that are fresh while the old     *)
(* ones are still held (they are copied from), or NULL with the old        *)
(* allocation untouched.                                                   *)
(***************************************************************************)
Realloc(p, n) ==
  /\ p \in DOMAIN live
  /\ \/ n = 0 /\ live' = Drop(p, live)
     \/ /\ n # 0
        /\ \/ UNCHANGED live
           \/ live' = Hold(p, n, live)
           \/ \E q \in Pointers : /\ Fresh(q, n)
                                  /\ live' = Hold(q, n, Drop(p, live))

Next ==
  \/ \E n \in Requests : Alloc(n)
  \/ \E p \in DOMAIN live : Free(p)
  \/ \E p \in DOMAIN live, n \in Requests : Realloc(p, n)

Spec == Init /\ [][Next]_live

(***************************************************************************)
(* Two allocations never share a byte.  Resizing in place is what could    *)
(* break it: Hold(p, n, live) promises nothing about the neighbours, so    *)
(* an implementation has to bring the disjointness with it.                *)
(***************************************************************************)
Disjoint ==
  \A p, q \in DOMAIN live : p # q => Apart(p, live[p], q, live[q])
==============================================================================
