------------------------------- MODULE Screen --------------------------------
(***************************************************************************)
(* What a program shows, and the texts it shows: the bytes of a text       *)
(* (Encodings), fonts and drawing (Canvas), pictures (Pictures), and the   *)
(* DOS screen (TextScreen).  None of them looks at what another keeps, so  *)
(* a behaviour is one of one of them, whose variables alone change.        *)
(***************************************************************************)
EXTENDS Integers, Sequences

CONSTANTS
  Bytes, MaxBytes, Caps,
  Targets, Devices, Slots, Requests, Samples, Brightness, Pixels, BUFFER, NoFont,
  Painters, Depths, Images, WORD,
  COLS, ROWS, Paints, Columns, Rows, Widths, Heights, MaxCalls

VARIABLES
  service,    (* "texts", "canvas", "pictures" or "dos"                    *)
  text, at, converted,
  target, device, ready, asked, ratio, font, look, port, held, window, laid, done,
  painter, colors, pc, image, pens, owed, registers, screen, status,
              (* painter and owed: target and held of Pictures             *)
  vmem, calls, last

(* A screen has two colours or more, and a word two equal halves.          *)
ASSUME PicturesAssumption ==
  /\ Painters \subseteq {"atari", "amiga", "mac"}
  /\ WORD \in Nat \ {0} /\ WORD % 2 = 0
  /\ Depths \subseteq Nat \ {0, 1}
  /\ Images \subseteq [id : Nat, w : Nat, h : Nat, count : Nat, dw : Nat, dh : Nat]

(* A font has a point or more, and distances are counted from the left.    *)
(* No screen of an Atari has a dot to the twip, or 480 lines to the inch.  *)
ASSUME FontsAssumption ==
  /\ \A q \in Requests : q.size \in Nat /\ q.size >= 20
  /\ Pixels \subseteq Nat
  /\ "atari" \in Targets => \A d \in Devices["atari"] :
       /\ d.umx \in Nat /\ d.umy \in Nat /\ d.sys \in Nat
       /\ d.umx # 0 => 25400 \div d.umx < 1440
       /\ d.umy # 0 => 25400 \div d.umy < 480
  /\ "amiga" \in Targets => \A d \in Devices["amiga"] : d.rx \in Nat /\ d.ry \in Nat

(* Texts are of bytes, and buffers have a size.                            *)
ASSUME TextsAssumption == Bytes \subseteq 0..255 /\ MaxBytes \in Nat /\ Caps \subseteq Nat

(* A DOS screen has cells, and a colour three parts of a byte.             *)
ASSUME DosAssumption ==
  /\ COLS \in Nat \ {0} /\ ROWS \in Nat \ {0} /\ BUFFER \in Nat \ {0} /\ MaxCalls \in Nat
  /\ \A t \in DOMAIN Samples : Samples[t] \in Seq(0..255)
  /\ Paints \subseteq (0..255) \X (0..255) \X (0..255)
  /\ Columns \subseteq Int /\ Rows \subseteq Int /\ Widths \subseteq Int /\ Heights \subseteq Int

E == INSTANCE Encodings
C == INSTANCE Canvas
P == INSTANCE Pictures WITH Targets <- Painters, target <- painter, held <- owed
T == INSTANCE TextScreen

textVars == <<text, at, converted>>
canvasVars == <<target, device, ready, asked, ratio, font, look, port, held, window, laid, done>>
pictureVars == <<painter, colors, pc, image, pens, owed, registers, screen, status>>
dosVars == <<vmem, calls, last>>
vars == <<service, textVars, canvasVars, pictureVars, dosVars>>

Init ==
  /\ service \in {"texts", "canvas", "pictures", "dos"}
  /\ service # "texts" => text = <<>>
  /\ service # "canvas" =>
       /\ target = CHOOSE t \in Targets : TRUE
       /\ device = CHOOSE d \in Devices[target] : TRUE
  /\ service # "pictures" =>
       /\ painter = CHOOSE t \in Painters : TRUE
       /\ image = CHOOSE m \in Images : TRUE
  /\ E!Init /\ C!Init /\ T!Init
  /\ P!Init /\ (service # "pictures" => \A d \in Depths : colors <= d)

Next ==
  /\ UNCHANGED service
  /\ \/ service = "texts" /\ E!Next /\ UNCHANGED <<canvasVars, pictureVars, dosVars>>
     \/ service = "canvas" /\ C!Next /\ UNCHANGED <<textVars, pictureVars, dosVars>>
     \/ service = "pictures" /\ P!Next /\ UNCHANGED <<textVars, canvasVars, dosVars>>
     \/ service = "dos" /\ T!Next /\ UNCHANGED <<textVars, canvasVars, pictureVars>>

Spec == Init /\ [][Next]_vars

------------------------------------------------------------------------------
(* Every variable has its type.                                            *)
TypeOK ==
  CASE service = "texts" -> E!TypeOK
    [] service = "canvas" -> C!TypeOK
    [] service = "pictures" -> P!TypeOK
    [] service = "dos" -> T!TypeOK

(* utf8.h: exactly the well-formed sequences decode, and encode back; what *)
(* the conversions make is well formed, and comes back if it can.          *)
DecodesWellFormed == service = "texts" => E!DecodesWellFormed

(* utf8.h 28-37: the cursor is never stuck, and on a well-formed text it   *)
(* rests between two characters and steps back where it came from.         *)
CursorComesHome == service = "texts" => E!CursorComesHome

(* A drawing call that has returned holds no device context, brush, pen or *)
(* scratch memory, whichever of its allocations has failed.                *)
NothingHeld == C!NothingHeld /\ P!NothingHeld

(* metrics_atari.c 296-309 and 414-453: a line's parts make up the font's  *)
(* cell, and the cell is shaped like text on this screen.                  *)
LinesFitTheCell == service = "canvas" => C!LinesFitTheCell

(* platform.h:144-161: a picture has the size asked for (its own on the    *)
(* Atari), each pixel of it its colour, and the text keeps its own.        *)
PictureShown == service = "pictures" => P!PictureShown

(* Text and rectangles on the DOS screen change the cells they cover, the  *)
(* text only what stands there, and no others.                             *)
TextStaysInPlace == T!TextStaysInPlace

(* platform.h 90-123: fonts keep their faces, what is measured and drawn   *)
(* depends on the font and the text alone, and the program's port and what *)
(* it has selected there are left alone, but for this backend's quirks.    *)
KeepsPromise == C!KeepsPromise

(* metrics_amiga_internal.h 10-17: with the same ratio both ways, what was *)
(* measured is as wide when it is drawn.                                   *)
PixelsSurvive == C!PixelsSurvive
==============================================================================
