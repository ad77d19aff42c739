------------------------------ MODULE MCDesktop ------------------------------
(* The character cells of the Atari's low or medium and high resolution,   *)
(* and one of an odd height.                                               *)
EXTENDS Desktop

SomeCells == {[w |-> 8, h |-> 8], [w |-> 8, h |-> 16], [w |-> 6, h |-> 7]}
==============================================================================
