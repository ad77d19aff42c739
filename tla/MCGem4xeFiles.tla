---------------------------- MODULE MCGem4xeFiles ----------------------------
(* Model values for Gem4xeFiles: file names and byte values are alike.     *)
EXTENDS Gem4xeFiles, TLC

SomeOffsets == -1..1
DataSymmetry == Permutations(Names) \cup Permutations(Bytes)
==============================================================================
