------------------------------- MODULE Dialog --------------------------------
(***************************************************************************)
(* What plat_dialog_* promises, include/platform.h 182-219: the user is    *)
(* asked one thing at a time, and the answer is the user's.                *)
(*                                                                         *)
(* `quirks` is where the backends differ:                                  *)
(*   picks   an option is chosen outright, not marked and then confirmed   *)
(*   deaf    nobody is asked: a choice is the default, a message is OK     *)
(*   crowds  options may not be shown for want of room, and may be chosen  *)
(*           all the same                                                  *)
(***************************************************************************)
EXTENDS Integers

CONSTANTS
  MAX_OPTIONS   (* more need not be offered                                *)

VARIABLES
  quirks,
  op,           (* "none", "choice" or a kind of message                   *)
  count,        (* options of the choice                                   *)
  shown,        (* those the user can see                                  *)
  mark,         (* the one shown as selected, or to be shown so            *)
  status,
  answer,       (* "CHOSEN" or "CANCELLED", or what a message's reply is   *)
  index         (* the option that was chosen                              *)

vars == <<quirks, op, count, shown, mark, status, answer, index>>

Kinds == {"OK", "OKCANCEL", "YESNO"}
Replies(kind) ==
  CASE kind = "OK" -> {"OK"}
    [] kind = "OKCANCEL" -> {"OK", "CANCEL"}
    [] kind = "YESNO" -> {"YES", "NO"}

Clamped(default, n) == IF default < n THEN default ELSE 0

Init ==
  /\ op = "none" /\ count = 0 /\ shown = {} /\ mark = 0
  /\ status = "none" /\ answer = "none" /\ index = 0

Asks(o) ==
  /\ op = "none" /\ op' = o
  /\ status' = "none" /\ answer' = "none" /\ index' = 0 /\ UNCHANGED quirks

Returns(s, a) ==
  /\ op' = "none" /\ count' = 0 /\ shown' = {} /\ mark' = 0
  /\ status' = s /\ answer' = a /\ UNCHANGED quirks
Chooses(i) == Returns("OK", "CHOSEN") /\ index' = i

AskChoice(n, default) ==
  /\ Asks("choice") /\ count' = n /\ mark' = Clamped(default, n)
  /\ shown' \in SUBSET (0 .. n - 1)
  /\ shown' = 0 .. n - 1 \/ "crowds" \in quirks

AskMessage(kind) == Asks(kind) /\ UNCHANGED <<count, shown, mark>>

(* WP_RANGE: nothing to choose from, or too much.                          *)
Refuse(n) ==
  /\ op = "none"
  /\ \/ (n = 0 \/ n > MAX_OPTIONS) /\ Returns("RANGE", "none")
     \/ Returns("ERR", "none")
  /\ index' = 0

(* The user moves the mark, and then means it; or chooses outright.        *)
Mark ==
  /\ op = "choice" /\ mark' \in shown
  /\ UNCHANGED <<quirks, op, count, shown, status, answer, index>>
Confirm == op = "choice" /\ Chooses(mark)
Pick(i) ==
  /\ op = "choice" /\ "picks" \in quirks
  /\ i \in shown \/ "crowds" \in quirks
  /\ Chooses(i)
Cancel ==
  /\ op = "choice" /\ Returns("OK", "CANCELLED")
  /\ index' \in 0 .. MAX_OPTIONS + 1      (* and means nothing             *)
Reply == op \in Kinds /\ \E r \in Replies(op) : Returns("OK", r) /\ index' = 0

Unasked ==
  /\ op = "none" /\ "deaf" \in quirks
  /\ \E n, default \in 0 .. MAX_OPTIONS + 1 :
       \/ n > 0 /\ Chooses(Clamped(default, n))
       \/ Returns("OK", "OK") /\ index' = 0

Next ==
  \/ \E n \in 0 .. MAX_OPTIONS + 1 :
       Refuse(n) \/ \E default \in 0 .. MAX_OPTIONS + 1 : AskChoice(n, default)
  \/ \E kind \in Kinds : AskMessage(kind)
  \/ \E i \in 0 .. count - 1 : Pick(i)
  \/ Mark \/ Confirm \/ Cancel \/ Reply \/ Unasked

Spec == Init /\ [][Next]_vars
==============================================================================
