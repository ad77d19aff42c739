------------------------------ MODULE MCHeapList -----------------------------
(***************************************************************************)
(* HeapList for TLC.  Clients are interchangeable: nothing compares them   *)
(* but for equality.                                                       *)
(***************************************************************************)
EXTENDS HeapList, TLC

ClientSymmetry == Permutations(Clients)
==============================================================================
