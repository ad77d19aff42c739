------------------------------- MODULE Dialogs -------------------------------
(***************************************************************************)
(* plat_dialog_choice and plat_dialog_message of four targets:             *)
(*   "atari"  a tree of AES objects in one static array, built anew for    *)
(*            every dialog, over which the AES lets the user click         *)
(*   "dos"    a row of the screen, and keys                                *)
(*   "mac"    a popup menu                                                 *)
(*   "host"   no user at all                                               *)
(* Only DOS and host have messages.                                        *)
(*                                                                         *)
(* The AES, the Menu Manager, the keyboard and the user are external.  The *)
(* text of titles and labels is abstracted to its length; all labels of a  *)
(* choice are equally long.                                                *)
(***************************************************************************)
EXTENDS Integers, FiniteSets, FiniteSetsExt

CONSTANTS
  Targets,
  MAX_OPTIONS,        (* WP_DIALOG_MAX_OPTIONS, and 9 of dialog_dos.c       *)
  Titles, Labels,     (* lengths of titles and labels                      *)
  TitleRoom, LabelRoom,   (* sizes of the buffers titles and labels go to  *)
  Cells,              (* [w, h] of a character, as graf_handle may say     *)
  COLS                (* DOS_SCREEN_COLS                                   *)

VARIABLES
  target,
  cell,     (* atari: the character cell of the screen                     *)
  tree,     (* atari: g_dialog_tree                                        *)
  pc,       (* "idle", "form", "struck", "row", "popup" or a kind          *)
  count, default, (* option_count and default_index of the choice          *)
  shown,    (* dos: the options on the row                                 *)
  struck,   (* atari: the object form_do answered                          *)
  status, answer, index   (* as in Dialog                                *)

callVars == <<pc, count, default, shown, struck>>
vars == <<target, cell, tree, callVars, status, answer, index>>

Objects == 0 .. MAX_OPTIONS + 3
Root == 0
Title == 1
first_option == 2
Clamped(d, n) == IF d < n THEN d ELSE 0
TooMany(n) == n = 0 \/ n > MAX_OPTIONS

------------------------------------------------------------------------------
(* build_dialog_tree.                                                      *)

Obj(next, flags, selected, x, y, w, h) ==
  [next |-> next, head |-> -1, tail |-> -1, flags |-> flags, selected |-> selected,
   x |-> x, y |-> y, w |-> w, h |-> h]

(* memset.                                                                 *)
Wiped == [o \in Objects |->
  [next |-> 0, head |-> 0, tail |-> 0, flags |-> {}, selected |-> FALSE,
   x |-> 0, y |-> 0, w |-> 0, h |-> 0]]

(* copy_bounded: what a buffer of `room` bytes keeps.                      *)
Kept(len, room) == IF len < room - 1 THEN len ELSE room - 1

(* A variant of ContentWidth with the floor it had once.                   *)
ContentWidthOf16(title, label) ==
  cell.w * Max({Kept(title, TitleRoom) + 4, Kept(label, LabelRoom) + 6, 16})

ContentWidth(title, label) ==
  cell.w * Max({Kept(title, TitleRoom) + 4, Kept(label, LabelRoom) + 6, 22})

OptionY(i) == 2 * (cell.h \div 2) + cell.h + i * (cell.h + 2)

(* The objects of a dialog of n options with number d selected.            *)
Part(o, n, d, w) ==
  LET ok == first_option + n
      cancel == ok + 1
      y == OptionY(n) + cell.h \div 2
  IN  CASE o = Root ->
             [Obj(-1, {}, FALSE, 0, 0, w, y + cell.h + cell.h \div 2)
                EXCEPT !.head = Title, !.tail = cancel]
        [] o = Title ->
             Obj(first_option, {}, FALSE, cell.w, cell.h \div 2, w - 2 * cell.w, cell.h)
        [] o \in first_option .. ok - 1 ->
             Obj(o + 1, {"SELECTABLE", "RBUTTON"}, o - first_option = d,
                 2 * cell.w, OptionY(o - first_option), w - 4 * cell.w, cell.h)
        [] o = ok ->
             Obj(cancel, {"SELECTABLE", "DEFAULT", "EXIT"}, FALSE,
                 2 * cell.w, y, 8 * cell.w, cell.h)
        [] OTHER ->    (* cancel *)
             Obj(Root, {"SELECTABLE", "EXIT", "LASTOB"}, FALSE,
                 w - 10 * cell.w, y, 8 * cell.w, cell.h)

(* A variant of Built without the memset.                                  *)
BuiltOver(n, d, w) ==
  [o \in Objects |-> IF o <= first_option + n + 1 THEN Part(o, n, d, w) ELSE tree[o]]
Built(n, d, w) ==
  [o \in Objects |-> IF o <= first_option + n + 1 THEN Part(o, n, d, w) ELSE Wiped[o]]

------------------------------------------------------------------------------
(* Answers.                                                                *)

Return(s, a, i) ==
  /\ pc' = "idle" /\ count' = 0 /\ default' = 0 /\ shown' = {} /\ struck' = Root
  /\ status' = s /\ answer' = a /\ index' = i /\ UNCHANGED <<target, cell>>

Wait(label, n, d) ==
  /\ pc' = label /\ count' = n /\ default' = d
  /\ status' = "none" /\ answer' = "none" /\ index' = 0 /\ UNCHANGED <<target, cell, struck>>

(* WP_RANGE, or NewMenu has no memory.                                     *)
Refuse(n) ==
  /\ pc = "idle"
  /\ \/ target \in {"atari", "dos"} /\ TooMany(n) /\ Return("RANGE", "none", 0)
     \/ target = "host" /\ n = 0 /\ Return("RANGE", "none", 0)
     \/ target = "mac" /\ Return("ERR", "none", 0)
  /\ UNCHANGED tree

------------------------------------------------------------------------------
(* Atari.                                                                  *)

Accepts(n) == ~ TooMany(n)

AtariAsk(n, d, title, label) ==
  /\ target = "atari" /\ pc = "idle" /\ Accepts(n)
  /\ tree' = Built(n, Clamped(d, n), ContentWidth(title, label))
  /\ Wait("form", n, d) /\ UNCHANGED shown

(* What the AES takes for the tree: the objects up to the first LASTOB, of *)
(* which the children of the root are those their links lead to.           *)
Extent ==
  LET last == {o \in DOMAIN tree : "LASTOB" \in tree[o].flags}
  IN  IF last = {} THEN Objects ELSE 0 .. Min(last)
Walk ==
  LET to[n \in Nat] == IF n = 0 THEN tree[Root].head
                       ELSE IF to[n - 1] \in DOMAIN tree \ {Root} THEN tree[to[n - 1]].next
                       ELSE to[n - 1]
  IN  [n \in 1 .. Cardinality(Objects) |-> to[n - 1]]
Children == {Walk[n] : n \in DOMAIN Walk} \cap (Extent \ {Root})
Has(flag) == {o \in Children : flag \in tree[o].flags}

(* form_do: a radio button deselects the others.                           *)
UserClicks(o) ==
  /\ pc = "form" /\ o \in Has("RBUTTON")
  /\ tree' = [p \in DOMAIN tree |->
                IF p \in Has("RBUTTON") THEN [tree[p] EXCEPT !.selected = p = o] ELSE tree[p]]
  /\ UNCHANGED <<target, cell, callVars, status, answer, index>>

(* form_do returns: a click on an EXIT button, or Return for the DEFAULT.  *)
UserStrikes(o) ==
  /\ pc = "form" /\ o \in Has("EXIT")
  /\ tree' = [tree EXCEPT ![o].selected = TRUE]
  /\ pc' = "struck" /\ struck' = o
  /\ UNCHANGED <<target, cell, count, default, shown, status, answer, index>>

(* A variant of Selected that begins one object too late.                  *)
SelectedAfter == {i \in 0 .. count - 1 : tree[first_option + i + 1].selected}
Selected == {i \in 0 .. count - 1 : tree[first_option + i].selected}

AtariAnswer ==
  /\ pc = "struck"
  /\ tree' = [tree EXCEPT ![struck].selected = FALSE]
  /\ IF struck = first_option + count + 1
     THEN Return("OK", "CANCELLED", Clamped(default, count))
     ELSE Return("OK", "CHOSEN", IF Selected = {} THEN Clamped(default, count) ELSE Min(Selected))

------------------------------------------------------------------------------
(* DOS.                                                                    *)

Column(i, title, label) == title + 2 + i * (label + 3)

DosAsk(n, d, title, label) ==
  /\ target = "dos" /\ pc = "idle" /\ ~ TooMany(n)
  /\ shown' = {i \in 0 .. n - 1 : Column(i, title, label) < COLS - 4}
  /\ Wait("row", n, d) /\ UNCHANGED tree

(* dialog_read_key: a digit or Escape; other keys are read and forgotten.  *)
DosDigit(i) ==
  /\ pc = "row" /\ i < count /\ Return("OK", "CHOSEN", i) /\ UNCHANGED tree
DosEscape ==
  /\ pc = "row" /\ Return("OK", "CANCELLED", 0) /\ UNCHANGED tree

DosMessage(kind) ==
  /\ target = "dos" /\ pc = "idle"
  /\ Wait(kind, 0, 0) /\ UNCHANGED <<tree, shown>>

Meaning(kind, key) ==
  CASE kind = "OKCANCEL" /\ key = "Enter" -> "OK"
    [] kind = "OKCANCEL" /\ key = "Esc" -> "CANCEL"
    [] kind = "YESNO" /\ key = "Y" -> "YES"
    [] kind = "YESNO" /\ key \in {"N", "Esc"} -> "NO"
    [] kind = "OK" /\ key \in {"Enter", "Esc"} -> "OK"
    [] OTHER -> "none"
DosKey(key) ==
  /\ target = "dos" /\ Meaning(pc, key) # "none"
  /\ Return("OK", Meaning(pc, key), 0) /\ UNCHANGED tree

------------------------------------------------------------------------------
(* Mac and host.                                                           *)

(* The menu has as many items as there are options.                        *)
MacAsk(n, d) ==
  /\ target = "mac" /\ pc = "idle"
  /\ Wait("popup", n, d) /\ UNCHANGED <<tree, shown>>

(* PopUpMenuSelect: the item's number, counted from 1, or 0.               *)
MacAnswer(item) ==
  /\ pc = "popup" /\ item <= count
  /\ UNCHANGED tree
  /\ IF item = 0 THEN Return("OK", "CANCELLED", 0) ELSE Return("OK", "CHOSEN", item - 1)

HostChoice(n, d) ==
  /\ target = "host" /\ n > 0
  /\ Return("OK", "CHOSEN", Clamped(d, n)) /\ UNCHANGED tree
HostMessage ==
  /\ target = "host" /\ Return("OK", "OK", 0) /\ UNCHANGED tree

------------------------------------------------------------------------------
Counts == 0 .. MAX_OPTIONS + 1

Init ==
  /\ target \in Targets /\ cell \in Cells /\ tree = Wiped
  /\ pc = "idle" /\ count = 0 /\ default = 0 /\ shown = {} /\ struck = Root
  /\ status = "none" /\ answer = "none" /\ index = 0

Next ==
  \/ \E n \in Counts :
       \/ Refuse(n)
       \/ \E d \in Counts :
            \/ \E title \in Titles, label \in Labels :
                 AtariAsk(n, d, title, label) \/ DosAsk(n, d, title, label)
            \/ MacAsk(n, d) \/ HostChoice(n, d)
  \/ \E o \in Objects : UserClicks(o) \/ UserStrikes(o)
  \/ AtariAnswer
  \/ \E i \in 0 .. 8 : DosDigit(i)
  \/ DosEscape
  \/ \E kind \in {"OK", "OKCANCEL", "YESNO"} : DosMessage(kind)
  \/ \E key \in {"Enter", "Esc", "Y", "N"} : DosKey(key)
  \/ \E item \in Counts : MacAnswer(item)
  \/ HostMessage

Spec == Init /\ [][Next]_vars

------------------------------------------------------------------------------
(* Properties.                                                             *)

(* Every variable has its type; the tree stays in its array.               *)
TypeOK ==
  /\ target \in Targets /\ cell \in Cells
  /\ DOMAIN tree = Objects
  /\ \A o \in Objects : tree[o].next \in Objects \cup {-1} /\ tree[o].selected \in BOOLEAN
  /\ pc \in {"idle", "form", "struck", "row", "popup", "OK", "OKCANCEL", "YESNO"}
  /\ count \in Counts /\ default \in Counts /\ shown \subseteq 0 .. count - 1
  /\ struck \in Objects
  /\ status \in {"none", "OK", "ERR", "RANGE"}
  /\ answer \in {"none", "CHOSEN", "CANCELLED", "OK", "CANCEL", "YES", "NO"}
  /\ index \in Counts

(* Whatever dialog stood in the array before, and whatever the user        *)
(* clicks, the AES finds this dialog there: links that lead through every  *)
(* object once and back to the root, a single LASTOB, on the last of them, *)
(* nothing to edit (form_do is told so) and one radio button selected.     *)
TreeIsTheDialog ==
  pc = "form" =>
    LET cancel == first_option + count + 1
    IN  /\ \A n \in 1 .. cancel : Walk[n] = n
        /\ tree[cancel].next = Root /\ tree[Root].tail = cancel /\ tree[Root].next = -1
        /\ {o \in Objects : "LASTOB" \in tree[o].flags} = {cancel}
        /\ \A o \in Objects : "EDITABLE" \notin tree[o].flags
        /\ Cardinality({o \in Objects : tree[o].selected}) = 1

(* Whatever the lengths of title and labels and the character cell, no two *)
(* objects overlap and each is inside the box: the 22 characters the width *)
(* is never below are enough for both buttons.                             *)
ObjectsApart ==
  pc = "form" =>
    \A o \in Children :
      /\ tree[o].x >= 0 /\ tree[o].y >= 0 /\ tree[o].w > 0
      /\ tree[o].x + tree[o].w <= tree[Root].w /\ tree[o].y + tree[o].h <= tree[Root].h
      /\ \A p \in Children \ {o} :
           \/ tree[o].x + tree[o].w <= tree[p].x \/ tree[p].x + tree[p].w <= tree[o].x
           \/ tree[o].y + tree[o].h <= tree[p].y \/ tree[p].y + tree[p].h <= tree[o].y

(* Each backend's differences; what the user was asked; the options in his *)
(* sight; and the one marked.                                              *)
Quirks ==
  CASE target = "atari" -> {}
    [] target = "dos" -> {"picks", "crowds"}
    [] target = "mac" -> {"picks"}
    [] target = "host" -> {"deaf"}
Asked ==
  CASE pc = "idle" -> "none" [] pc \in {"form", "struck", "row", "popup"} -> "choice"
    [] OTHER -> pc
Seen == IF target = "dos" THEN shown ELSE 0 .. count - 1
Marked ==
  IF pc \in {"form", "struck"}
  THEN CHOOSE i \in 0 .. count - 1 : tree[first_option + i].selected
  ELSE Clamped(default, count)

(* The answer is the option that was selected when the user struck OK, or  *)
(* the one whose item or digit the user chose, and so one of the caller's; *)
(* a dialog that cannot be shown is refused.                               *)
Seam == INSTANCE Dialog WITH
  quirks <- Quirks, op <- Asked, shown <- Seen, mark <- Marked
KeepsPromise == Seam!Spec
==============================================================================
