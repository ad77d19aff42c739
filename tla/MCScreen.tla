------------------------------ MODULE MCScreen -------------------------------
(* The screens, texts, fonts, colours and pictures that a small program    *)
(* could meet.                                                             *)
EXTENDS Screen, TLC

CONSTANTS s1, s2

(* No call prefers one slot to another.                                    *)
SlotSymmetry == Permutations(Slots)

(* The Atari's medium and high resolution, and one that reports nothing;   *)
(* an interlaced NTSC screen of the Amiga.                                 *)
SomeDevices ==
  [t \in Targets |->
    CASE t = "atari" -> {[umx |-> 169, umy |-> 372, sys |-> 8],
                         [umx |-> 372, umy |-> 372, sys |-> 16],
                         [umx |-> 0, umy |-> 0, sys |-> 0]}
      [] t = "amiga" -> {[rx |-> 44, ry |-> 52]}
      [] OTHER -> {[any |-> 0]}]

(* No text; and more bytes than the buffer takes, of which two make a      *)
(* Latin-1 character and one makes none.                                   *)
SomeSamples == << <<>>, <<65, 194, 160, 193, 66>> >>

SomeRequests == {[size |-> 240, style |-> {}], [size |-> 480, style |-> {"bold", "strike"}]}
SomeColours == [c \in {"red", "yellow"} |-> IF c = "red" THEN 255 ELSE 510]

SomeImages ==
  {m \in [id : {0, 1}, w : {0, 1, 4, 5}, h : {1, 2}, count : {0, 2, 4}, dw : {0, 3}, dh : {2}] :
     (m.dw > 0 /\ m.w > 0) \/ (m.id = 0 /\ m.h = 1)}

SomePaints == {<<192, 192, 192>>, <<255, 80, 80>>}
SomeColumns == {-1, 0, 2, 3}
SomeRows == {-1, 0, 1, 2}
==============================================================================
