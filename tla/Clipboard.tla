------------------------------- MODULE Clipboard -------------------------------
(***************************************************************************)
(* What plat_clipboard_* promises, include/platform.h 69-77: one text that *)
(* every program on the machine can replace at any moment, also while a    *)
(* call on it is going on.  A call is right if its answer was right at     *)
(* some moment between its start and its end.                              *)
(*                                                                         *)
(* `backend` is where the backends differ:                                 *)
(*   native  the text is kept in the machine's own charset                 *)
(*   buffer  bytes of a text that fit in the backend's buffer              *)
(*   tears   a write or a read that stops halfway may answer WP_OK         *)
(*   falls   a get that cannot open the text may give an older one instead *)
(*   blind   has_text may answer FALSE although there is a text            *)
(***************************************************************************)
EXTENDS Integers, Sequences

CONSTANTS
  Texts,      (* the texts there are: sequences of characters              *)
  NoText,     (* what the clipboard holds when it holds no text            *)
  Unmapped,   (* characters the native charset does not have               *)
  Fallback,   (* the character written in their place                      *)
  MaxRoom     (* the largest out_cap                                       *)

VARIABLES
  backend,    (* [native, buffer, tears, falls, blind]                     *)
  content,    (* what the clipboard holds                                  *)
  op,         (* "none", "set", "get" or "has"                             *)
  text, room, (* the text of a set, the out_cap of a get                   *)
  saw,        (* what the clipboard has held since the call began          *)
  trouble,    (* a system call the call needed has failed                  *)
  status, got (* the answer of the last call, and the text of a get        *)

vars == <<backend, content, op, text, room, saw, trouble, status, got>>

Kept(t, n) == SubSeq(t, 1, IF n < Len(t) THEN n ELSE Len(t))
Mapped(t) == [i \in DOMAIN t |-> IF t[i] \in Unmapped THEN Fallback ELSE t[i]]

(* The text as it is kept, and as a get with room for n finds it.          *)
Stored(t) == IF backend.native THEN Kept(Mapped(t), backend.buffer) ELSE t
Found(t, n) == Kept(Stored(t), n)

Init ==
  /\ content = NoText /\ op = "none" /\ text = <<>> /\ room = 0
  /\ saw = {} /\ trouble = FALSE /\ status = "none" /\ got = <<>>

(* Another program, or a set on its way, puts something in its place: that *)
(* set may be a call that does no more than a part of what it should.      *)
Change ==
  /\ content' # content
  /\ saw' = IF op = "none" THEN {} ELSE saw \cup {content'}
  /\ trouble' = trouble \/ (op = "set" /\ trouble')
  /\ UNCHANGED <<backend, op, text, room, status, got>>

Start(o, t, n) ==
  /\ op = "none" /\ op' = o /\ text' = t /\ room' = n
  /\ saw' = {content} /\ trouble' = FALSE /\ status' = "none" /\ got' = <<>>
  /\ UNCHANGED <<backend, content>>

GoesWrong ==
  /\ op # "none" /\ trouble' = TRUE
  /\ UNCHANGED <<backend, content, op, text, room, saw, status, got>>

Ends ==
  /\ op' = "none" /\ text' = <<>> /\ room' = 0 /\ saw' = {}
  /\ trouble' \in {trouble, TRUE} /\ UNCHANGED backend

(* WP_OK: the clipboard has held the text.  Otherwise it holds anything.   *)
EndSet ==
  /\ op = "set" /\ Ends /\ got' = <<>>
  /\ \/ /\ status' = "OK"
        /\ Stored(text) \in saw \cup {content'} \/ (backend.tears /\ trouble')
     \/ status' \in {"ERR", "NOMEM"} /\ trouble'
     \/ status' = "RANGE" /\ Len(text) > backend.buffer /\ UNCHANGED content

(* WP_OK: what fits of a text the clipboard has held.  WP_ERR: it has held *)
(* none, or a system call failed.                                          *)
EndGet ==
  /\ op = "get" /\ Ends /\ UNCHANGED content
  /\ \/ /\ status' = "OK"
        /\ \E t \in saw \ {NoText} :
             \/ got' = Found(t, room)
             \/ /\ backend.tears /\ trouble'
                /\ \E n \in 0..room : got' = Kept(Found(t, room), n)
             \/ backend.falls /\ trouble' /\ Len(got') <= room
     \/ status' = "ERR" /\ got' = <<>> /\ (trouble' \/ NoText \in saw)
     \/ /\ status' = "RANGE" /\ got' = <<>>
        /\ \E t \in saw \ {NoText} : Len(t) >= room

EndHas ==
  /\ op = "has" /\ Ends /\ UNCHANGED content /\ got' = <<>>
  /\ \/ status' = "TRUE" /\ saw # {NoText}
     \/ status' = "FALSE" /\ (trouble' \/ NoText \in saw \/ backend.blind)

Next ==
  \/ Change \/ GoesWrong \/ EndSet \/ EndGet \/ EndHas
  \/ \E t \in Texts : Start("set", t, 0)
  \/ \E n \in 0..MaxRoom : Start("get", <<>>, n)
  \/ Start("has", <<>>, 0)

Spec == Init /\ [][Next]_vars
==============================================================================
