----------------------------- MODULE MCDeadline ------------------------------
(***************************************************************************)
(* Deadline for TLC.  A second has 12 milliseconds of some two moments,    *)
(* and a word wraps at 256, so a counter that multiplies first fails after *)
(* 21 units and one that divides first holds for some 20 seconds.  The     *)
(* rates keep the proportion of the targets': a tick of several            *)
(* milliseconds, a millisecond, or a step of several of them, as on DOS    *)
(* (timer_dos.c:11-13) and as GetTickCount64 takes on win32.  The clocks   *)
(* of host and win32 count milliseconds in 64 bits and are cut to a word,  *)
(* which is what dividing first comes to at that rate.                     *)
(***************************************************************************)
EXTENDS Deadline

Rates ==
  [atari |-> 4, dos |-> 12, gem4xe |-> 12, host |-> 12, win32 |-> 12,
   amiga |-> 2, mac |-> 5]

Steps ==
  [atari |-> 1, dos |-> 5, gem4xe |-> 1, host |-> 1, win32 |-> 3,
   amiga |-> 1, mac |-> 1]

(* The Mac's tick is no whole number of milliseconds.  Nor is its second a *)
(* real one: timer_mac.c:5-6 says 60.15 ticks and the code divides by 60,  *)
(* so its milliseconds, and the moments here, are a little shorter.        *)
Spans ==
  [atari |-> 6, dos |-> 10, gem4xe |-> 2, host |-> 2, win32 |-> 6,
   amiga |-> 12, mac |-> 5]

Seconds == [t \in Targets |-> IF t = "mac" THEN 25 ELSE 24]

(* As long as the arithmetic of each target holds.                         *)
WhileItHolds ==
  [t \in Targets |->
     CHOOSE r \in 0 .. WORD : Holds(t, r) /\ ~ Holds(t, r + 1)]

(* As long as a u32 of milliseconds holds, on every target.                *)
UntilWordRunsOut ==
  [t \in Targets |->
     CHOOSE r \in 0 .. WORD :
       /\ ((r * MS) \div Rate[t]) <= WORD - 1 - MS
       /\ (((r + 1) * MS) \div Rate[t]) > WORD - 1 - MS]
==============================================================================
