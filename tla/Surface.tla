------------------------------- MODULE Surface -------------------------------
(***************************************************************************)
(* What platform.h 90-147 promises of fonts and of drawing, whichever      *)
(* backend is linked in.  A font opened stays the face it was opened as;   *)
(* what is measured and drawn depends on the font and the text alone, not  *)
(* on other fonts or calls in between; a call leaves alone what belongs to *)
(* the program: the port it draws into by itself, and what it has selected *)
(* in its window to do so.  The ways in which a backend differs are its    *)
(* quirks:                                                                 *)
(*   "fails"         measuring or drawing may fail with right arguments    *)
(*   "leaves face"   drawing text leaves the window with its face,         *)
(*   "leaves pen"    ... with its pen,                                     *)
(*   "leaves ground" ... with the background and the mode of text,         *)
(*   "leaves place"  ... and with the pen where the text was               *)
(*   "fills pen"     filling leaves the window with its pen,               *)
(*   "fills black"   ... with a black pen,                                 *)
(*   "fills fill"    ... and with its colour, solid, for areas             *)
(*   "takes window"  drawing and filling make the window the current port  *)
(*   "takes port"    the next measurement makes a port of its own current  *)
(*   "guesses"       the screen has not been asked, and the ratio may be   *)
(*                   another one once it has                               *)
(*   "truncates"     pixels turned into twips may be fewer when they come  *)
(*                   back                                                  *)
(*   "blind"         nothing is ever drawn                                 *)
(***************************************************************************)
EXTENDS Integers

CONSTANTS Slots, Texts, Colours, Ports, Pixels, NoFont

(* What plat_font_metrics_get measures: the height of a line.              *)
Lines == 0

VARIABLES
  quirks,   (* of the backend, as things stand                             *)
  faces,    (* the faces that a font may be opened as now                  *)
  drawn,    (* [Texts -> the characters that are drawn of it]              *)
  pen,      (* the pen nearest to a colour, for text and for filling       *)
  advance,  (* the twips of a face's text, and of its Lines                *)
  scale,    (* what the widths depend on besides                           *)
  font,     (* [Slots -> the face of an open font, or NoFont]              *)
  port,     (* the port that the program draws into by itself              *)
  look,     (* [Ports -> what it finds selected there]                     *)
  laid,     (* the distance it holds in twips, if any: its pixels and at   *)
            (* which scale they were turned into twips                     *)
  done      (* what the last call answered, or left on which port          *)

Fresh == [face |-> NoFont, pen |-> "own", ground |-> "own", place |-> "own", fill |-> "own"]
Error == [call |-> "error"]
Ink(on, f, text, p) == [call |-> "ink", on |-> on, face |-> f, text |-> text, pen |-> p]

Init ==
  /\ font = [s \in Slots |-> NoFont] /\ done = [call |-> "none"]
  /\ port = "window" /\ look = [p \in Ports |-> Fresh] /\ laid = {}

Open(s) ==
  /\ font[s] = NoFont /\ UNCHANGED <<port, look, laid>>
  /\ \/ done' = [call |-> "open"] /\ \E f \in faces : font' = [font EXCEPT ![s] = f]
     \/ UNCHANGED font /\ done' = Error

Close(s) ==
  /\ font[s] # NoFont /\ font' = [font EXCEPT ![s] = NoFont]
  /\ done' = [call |-> "close"] /\ UNCHANGED <<port, look, laid>>

Measure(s, t) ==
  /\ font[s] # NoFont /\ UNCHANGED <<laid, look, font>>
  /\ \/ done'.call = "measure" /\ done' = [call |-> "measure", width |-> advance[font[s]][t]]
     \/ "fails" \in quirks /\ done' = Error
  /\ port' \in {port} \cup {"metrics" : q \in quirks \cap {"takes port"}}

(* Drawing leaves the port and its look alone, or the window with another  *)
(* look: what it had, but for the quirks.                                  *)
Drawing(l) ==
  /\ UNCHANGED <<font, laid>>
  /\ look' \in {look, [look EXCEPT !["window"] = l]}
  /\ port' \in {port} \cup {"window" : q \in quirks \cap {"takes window"}}

Written(f, p) ==
  LET l == look["window"]
  IN  [face |-> IF "leaves face" \in quirks THEN f ELSE l.face,
       pen |-> IF "leaves pen" \in quirks THEN p ELSE l.pen,
       ground |-> IF "leaves ground" \in quirks THEN "paper" ELSE l.ground,
       place |-> IF "leaves place" \in quirks THEN "text" ELSE l.place,
       fill |-> l.fill]
Draw(s, t, c) ==
  /\ font[s] # NoFont
  /\ \/ done'.call = "ink" /\ done' = Ink("window", font[s], drawn[t], pen.text[c])
     \/ UNCHANGED done /\ ("blind" \in quirks \/ drawn[t] = <<>>)
     \/ "fails" \in quirks /\ done' = Error
  /\ Drawing(Written(font[s], pen.text[c]))

Painted(p) ==
  LET l == look["window"]
  IN  [face |-> l.face,
       pen |-> IF "fills pen" \in quirks THEN p
               ELSE IF "fills black" \in quirks THEN "black" ELSE l.pen,
       ground |-> l.ground, place |-> l.place,
       fill |-> IF "fills fill" \in quirks THEN p ELSE l.fill]
Fill(c) ==
  /\ \/ done' = Ink("window", NoFont, <<>>, pen.fill[c])
     \/ "blind" \in quirks /\ UNCHANGED done
     \/ "fails" \in quirks /\ done' = Error
  /\ Drawing(Painted(pen.fill[c]))

(* A number of pixels is turned into twips, and these into pixels again,   *)
(* which are as many if the scale is still the same.                       *)
PxToTwips(px) ==
  /\ laid' = {[px |-> px, at |-> scale']}
  /\ UNCHANGED <<font, port, look, done>>

TwipsToPx ==
  /\ done'.call = "convert"
  /\ \E d \in laid :
       /\ done' = [call |-> "convert", px |-> d.px, back |-> done'.back]
       /\ d.at = scale' => done'.back \in IF "truncates" \in quirks THEN 0..d.px ELSE {d.px}
  /\ UNCHANGED <<font, port, look, laid>>

(* The program makes a port current, to draw there by itself, and selects  *)
(* what it draws with.                                                     *)
Itself ==
  /\ \E p \in Ports : port' = p /\ look' = [look EXCEPT ![p] = Fresh]
  /\ UNCHANGED <<font, laid, done>>

Next ==
  \/ \E s \in Slots, t \in Texts, c \in Colours : Draw(s, t, c)
  \/ \E s \in Slots : Open(s) \/ Close(s)
  \/ \E s \in Slots, t \in Texts \cup {Lines} : Measure(s, t)
  \/ \E c \in Colours : Fill(c)
  \/ \E px \in Pixels : PxToTwips(px)
  \/ TwipsToPx
  \/ Itself

(* The widths of a font that is open stay what they are, and a distance    *)
(* comes back at the scale it went, unless that was a guess.               *)
Scaled ==
  /\ (\E s \in Slots : font[s] # NoFont) => scale' = scale
  /\ (laid # {} /\ "guesses" \notin quirks) => scale' = scale

vars == <<font, port, look, laid, done>>
Spec == Init /\ [][Next]_vars /\ [][Scaled]_scale
==============================================================================
