------------------------------- MODULE Desktop --------------------------------
(***************************************************************************)
(* What a program shares with its desktop: the clipboard (Clipboards), and *)
(* the user's attention (Dialogs).  Neither keeps any state the other one  *)
(* looks at, so a behaviour is one of the first or one of the second,      *)
(* whose variables alone change.                                           *)
(***************************************************************************)
EXTENDS Integers, Sequences

CONSTANTS
  Boards, Chars, Unmapped, Fallback, NoText, MaxText, BUFFER, MaxMoves,
  Targets, MAX_OPTIONS, Titles, Labels, TitleRoom, LabelRoom, Cells, COLS

ASSUME ClipboardAssumption ==
  /\ Chars # {} /\ NoText \notin Seq(Chars \cup {Fallback})
  /\ MaxText \in Nat /\ BUFFER \in Nat /\ MaxMoves \in Nat

ASSUME DialogAssumption ==
  /\ MAX_OPTIONS \in Nat /\ Titles \subseteq Nat /\ Labels \subseteq Nat
  /\ TitleRoom \in Nat \ {0} /\ LabelRoom \in Nat \ {0}
  /\ Cells \subseteq [w : Nat \ {0}, h : Nat \ {0}]

VARIABLES
  service,    (* "clipboard" or "dialogs"                                  *)
  board, step, said,  (* target, pc and status of Clipboards               *)
  scrap, aes, clip, op, text, room, dir, buf, held, saw, trouble, got, moves,
  target, cell, tree, pc, count, default, shown, struck, status, answer, index

C == INSTANCE Clipboards WITH
  Targets <- Boards, target <- board, pc <- step, status <- said
D == INSTANCE Dialogs

clipVars == <<board, step, said, scrap, aes, clip, op, text, room, dir, buf,
              held, saw, trouble, got, moves>>
dialogVars == <<target, cell, tree, pc, count, default, shown, struck, status,
                answer, index>>
vars == <<service, clipVars, dialogVars>>

Init ==
  /\ C!Init /\ D!Init
  /\ \/ service = "clipboard"
        /\ target = (CHOOSE t \in Targets : TRUE) /\ cell = (CHOOSE c \in Cells : TRUE)
     \/ service = "dialogs" /\ board = (CHOOSE t \in Boards : TRUE)

Next ==
  /\ UNCHANGED service
  /\ \/ service = "clipboard" /\ C!Next /\ UNCHANGED dialogVars
     \/ service = "dialogs" /\ D!Next /\ UNCHANGED clipVars

Spec == Init /\ [][Next]_vars

------------------------------------------------------------------------------
(* Every variable has its type: those of Clipboards and of Dialogs.        *)
TypeOK == C!TypeOK /\ D!TypeOK

(* A call on the clipboard that has returned holds nothing.                *)
NothingHeld == C!NothingHeld

(* "A failed write never leaves the AES pointing at a scrap that is not    *)
(* there" (clipboard_gem4xe.c).                                            *)
RegistersLast == C!RegistersLast

(* Whatever stood in the static array before, the AES finds a whole tree   *)
(* of this dialog there.                                                   *)
TreeIsTheDialog == D!TreeIsTheDialog

(* No two objects of a dialog overlap, and each is inside the box.         *)
ObjectsApart == D!ObjectsApart

(* platform.h 69-77 and 182-219: every answer of the clipboard was right   *)
(* at some moment of its call, and every answer of a dialog is the user's. *)
KeepsPromises == C!KeepsPromise /\ D!KeepsPromise
==============================================================================
