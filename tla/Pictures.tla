------------------------------ MODULE Pictures -------------------------------
(***************************************************************************)
(* plat_draw_image of the backends with a bitmapped screen: the Atari      *)
(* turns the packed nibbles into interleaved bit planes and reprograms the *)
(* colour registers it reserves, the Amiga into an array of the pens it    *)
(* obtains, the Mac into a dithered bitmap.  A call is a sequence of       *)
(* steps, since each allocation in it may fail.                            *)
(*                                                                         *)
(* WORD stands for the 16 pixels of a word, half of it for a byte.         *)
(***************************************************************************)
EXTENDS Integers, Sequences

CONSTANTS
  Targets,    (* backends among atari, amiga and mac                       *)
  Depths,     (* the numbers of colours of an Atari screen                 *)
  Images,     (* the pictures: [id, w, h, count, dw, dh]                   *)
  WORD

VARIABLES
  target, colors,
  pc,         (* "idle", or the step a call is at                          *)
  image,      (* the picture of the last call                              *)
  pens,       (* pen_map or pen_for: the pens of the first palette entries *)
  held,       (* the pens and blocks of memory that the call holds         *)
  registers,  (* the Atari's: [0..colors - 1 -> the colour shown]          *)
  screen,     (* what was last copied to the screen, from its corner       *)
  status      (* what the last call answered                               *)

setup == <<target, colors>>
vars == <<setup, pc, image, pens, held, registers, screen, status>>

Nothing == [pens |-> 0, blocks |-> 0]

Init ==
  /\ target \in Targets
  /\ colors \in IF target = "atari" THEN Depths ELSE {2}
  /\ pc = "idle" /\ image \in Images /\ pens = <<>> /\ held = Nothing
  /\ registers = [r \in 0..(colors - 1) |-> <<"text", r>>]
  /\ screen = <<>> /\ status = "none"

------------------------------------------------------------------------------
(* The caller's data.  Any image will do: the nibbles run through 0 to 3   *)
(* in both directions, some of them at or above the palette's count.       *)
Nibble(m, x, y) == (x + 2 * y + m.id) % 4
Colour(m, i) == <<m.id, i>>
Luminance(i) == (i * 85) % 256

RowBytes(m) == (m.w + 1) \div 2
Packed(m) ==
  [k \in 0..(RowBytes(m) * m.h - 1) |->
     LET x == 2 * (k % RowBytes(m))
         y == k \div RowBytes(m)
     IN  16 * Nibble(m, x, y) + (IF x + 1 < m.w THEN Nibble(m, x + 1, y) ELSE 0)]

(* A mistake: a row of an odd width shares its last byte with the next.    *)
EntryTight(m, count, x, y) ==
  LET at == y * m.w + x
      byte == Packed(m)[at \div 2]
      nibble == IF at % 2 = 0 THEN byte \div 16 ELSE byte % 16
  IN  IF nibble >= count THEN 0 ELSE nibble

(* The entry of the palette that a pixel names, the first for one too high.*)
EntryAt(m, count, x, y) ==
  LET byte == Packed(m)[y * RowBytes(m) + x \div 2]
      nibble == IF x % 2 = 0 THEN byte \div 16 ELSE byte % 16
  IN  IF nibble >= count THEN 0 ELSE nibble

------------------------------------------------------------------------------
(* As many as the colours need, 8 at most.                                 *)
Planes == CHOOSE n \in 0..8 : (n = 8 \/ 2 ^ n >= colors) /\ \A k \in 0..(n - 1) : 2 ^ k < colors

Start(m) ==
  /\ pc = "idle" /\ image' = m /\ pens' = <<>>
  /\ IF /\ m.dw > 0 /\ m.dh > 0 /\ m.w > 0 /\ m.h > 0 /\ m.count \in 1..16
        /\ ~ (target = "atari" /\ Planes < 2)
     THEN pc' = "pens" /\ status' = "none"
     ELSE pc' = "idle" /\ status' = "ERR"
  /\ UNCHANGED <<setup, held, registers, screen>>

(* Pens 0 and 1 are those of the text.                                     *)
Clipped == IF image.count > colors - 2 THEN colors - 2 ELSE image.count
AtariPens ==
  /\ target = "atari" /\ pc = "pens" /\ pc' = "array"
  /\ pens' = [i \in 1..Clipped |-> i + 1]
  /\ registers' = [r \in DOMAIN registers |->
       IF r - 2 \in 0..(Clipped - 1) THEN Colour(image, r - 2) ELSE registers[r]]
  /\ UNCHANGED <<setup, image, held, screen, status>>

(* A mistake: the pens obtained before the one that failed are kept.       *)
AmigaPenKept ==
  /\ target = "amiga" /\ pc = "pens" /\ Len(pens) < image.count
  /\ \/ /\ pens' = Append(pens, Colour(image, Len(pens)))
        /\ held' = [held EXCEPT !.pens = @ + 1]
        /\ pc' = IF Len(pens') = image.count THEN "array" ELSE pc
        /\ UNCHANGED <<setup, image, status>>
     \/ pc' = "idle" /\ status' = "ERR" /\ UNCHANGED <<setup, image, pens, held>>
  /\ UNCHANGED <<registers, screen>>

(* ObtainBestPen for one palette entry after the other; all of them are    *)
(* released when one cannot be had.                                        *)
AmigaPen ==
  /\ target = "amiga" /\ pc = "pens" /\ Len(pens) < image.count
  /\ \/ /\ pens' = Append(pens, Colour(image, Len(pens)))
        /\ held' = [held EXCEPT !.pens = @ + 1]
        /\ pc' = IF Len(pens') = image.count THEN "array" ELSE pc
        /\ UNCHANGED <<setup, image, status>>
     \/ /\ pc' = "idle" /\ status' = "ERR"
        /\ held' = [held EXCEPT !.pens = @ - Len(pens)]
        /\ UNCHANGED <<setup, image, pens>>
  /\ UNCHANGED <<registers, screen>>

MacPens ==
  /\ target = "mac" /\ pc = "pens" /\ pc' = "array"
  /\ UNCHANGED <<setup, image, pens, held, registers, screen, status>>

ReleasePens == held' = [held EXCEPT !.pens = @ - Len(pens)]

(* The scratch buffer; without it nothing is drawn.                        *)
Array ==
  /\ pc = "array"
  /\ \/ /\ held' = [held EXCEPT !.blocks = @ + 1] /\ UNCHANGED status
        /\ pc' = IF target = "amiga" THEN "bitmap" ELSE "copy"
     \/ /\ pc' = "idle" /\ status' = "NOMEM"
        /\ IF target = "amiga" THEN ReleasePens ELSE UNCHANGED held
  /\ UNCHANGED <<setup, image, pens, registers, screen>>

AmigaBitMap ==
  /\ pc = "bitmap"
  /\ \/ /\ held' = [held EXCEPT !.blocks = @ + 1] /\ UNCHANGED status
        /\ pc' = "copy"
     \/ /\ pc' = "idle" /\ status' = "NOMEM"
        /\ held' = [pens |-> held.pens - Len(pens), blocks |-> held.blocks - 1]
  /\ UNCHANGED <<setup, image, pens, registers, screen>>

------------------------------------------------------------------------------
(* Words of planes, a set of bits each: the words of one group of pixels   *)
(* follow one another, and the highest bit is the leftmost pixel.          *)
WdWidth == (image.w + WORD - 1) \div WORD
BitOf(pen, plane) == (pen \div 2 ^ plane) % 2 = 1
PlaneBuffer ==
  LET row == WdWidth * Planes
      PenAt(x, y) == pens[EntryAt(image, Len(pens), x, y) + 1]
  IN  [k \in 0..(row * image.h - 1) |->
         LET y == k \div row
             group == (k % row) \div Planes
             plane == k % Planes
         IN  {WORD - 1 - (x % WORD) : x \in
                {x \in 0..(image.w - 1) : x \div WORD = group /\ BitOf(PenAt(x, y), plane)}}]

(* vro_cpyfm copies the source as it is, whatever the size asked for: a    *)
(* pixel gets the pen whose bits the planes hold.                          *)
Copied(buffer) ==
  [p \in (0..(image.w - 1)) \X (0..(image.h - 1)) |->
     CHOOSE pen \in 0..(2 ^ Planes - 1) :
       \A plane \in 0..(Planes - 1) :
         BitOf(pen, plane) <=>
           WORD - 1 - (p[1] % WORD) \in
             buffer[(p[2] * WdWidth + p[1] \div WORD) * Planes + plane]]

AtariCopy ==
  /\ target = "atari" /\ pc = "copy"
  /\ screen' = Copied(PlaneBuffer)
  /\ pc' = "idle" /\ status' = "OK" /\ held' = [held EXCEPT !.blocks = @ - 1]
  /\ UNCHANGED <<setup, image, pens, registers>>

(* Sampled to the size asked for, a row of pens after the other.           *)
PenArray ==
  [k \in 0..(image.dw * image.dh - 1) |->
     LET x == k % image.dw
         y == k \div image.dw
     IN  pens[EntryAt(image, image.count, (x * image.w) \div image.dw,
                      (y * image.h) \div image.dh) + 1]]

AmigaCopy ==
  /\ target = "amiga" /\ pc = "copy"
  /\ \/ /\ status' = "OK"
        /\ screen' = [p \in (0..(image.dw - 1)) \X (0..(image.dh - 1)) |->
                        PenArray[p[2] * image.dw + p[1]]]
     \/ status' = "ERR" /\ UNCHANGED screen
  /\ pc' = "idle"
  /\ held' = [pens |-> held.pens - Len(pens), blocks |-> held.blocks - 2]
  /\ UNCHANGED <<setup, image, pens, registers>>

(* g_mac_bayer4x4, and the scaling that keeps white white.                 *)
Bayer == << <<0, 8, 2, 10>>, <<12, 4, 14, 6>>, <<3, 11, 1, 9>>, <<15, 7, 13, 5>> >>
Black(lum, x, y) == lum <= Bayer[(y % 4) + 1][(x % 4) + 1] * 16 + 8

(* Bytes of bits, a set each: a row is a whole number of words, and the    *)
(* highest bit is the leftmost pixel.                                      *)
BYTE == WORD \div 2
BitRow == ((image.w + WORD - 1) \div WORD) * 2
Dithered ==
  [k \in 0..(BitRow * image.h - 1) |->
     LET y == k \div BitRow
     IN  {x % BYTE : x \in
            {x \in 0..(image.w - 1) : /\ x \div BYTE = k % BitRow
                                      /\ Black(Luminance(EntryAt(image, image.count, x, y)), x, y)}}]

(* CopyBits stretches the bitmap to the size asked for.                    *)
MacCopy ==
  /\ target = "mac" /\ pc = "copy"
  /\ screen' = [p \in (0..(image.dw - 1)) \X (0..(image.dh - 1)) |->
       LET x == (p[1] * image.w) \div image.dw
           y == (p[2] * image.h) \div image.dh
       IN  x % BYTE \in Dithered[y * BitRow + x \div BYTE]]
  /\ pc' = "idle" /\ status' = "OK" /\ held' = [held EXCEPT !.blocks = @ - 1]
  /\ UNCHANGED <<setup, image, pens, registers>>

Next ==
  \/ \E m \in Images : Start(m)
  \/ AtariPens \/ AmigaPen \/ MacPens
  \/ Array \/ AmigaBitMap
  \/ AtariCopy \/ AmigaCopy \/ MacCopy

Spec == Init /\ [][Next]_vars

------------------------------------------------------------------------------
TypeOK ==
  /\ target \in Targets /\ colors \in Depths \cup {2} /\ image \in Images
  /\ pc \in {"idle", "pens", "array", "bitmap", "copy"}
  /\ held \in [pens : 0..16, blocks : 0..2] /\ Len(pens) <= 16
  /\ DOMAIN registers = 0..(colors - 1)
  /\ status \in {"none", "OK", "ERR", "NOMEM"}

(* A call that has returned holds neither pens nor memory, whichever of    *)
(* its allocations has failed.                                             *)
NothingHeld == pc = "idle" => held = Nothing

(* The size of what a call shows: platform.h:144-145 says scaled to        *)
(* exactly w x h, and so it is but for the Atari, whose vro_cpyfm with     *)
(* S_ONLY never scales (draw_atari.c:242-251): there it is the picture's   *)
(* own size, whatever was asked for.                                       *)
Unscaled == target = "atari"
Wide == IF Unscaled THEN image.w ELSE image.dw
High == IF Unscaled THEN image.h ELSE image.dh

(* platform.h:144-161: a call that answered OK has drawn a rectangle of    *)
(* that size and no more, and each pixel of it shows the palette's colour  *)
(* of the nearest pixel of the picture (the first colour, if the palette   *)
(* or the screen has too few), on the Mac the dot that the dither gives    *)
(* it: white stays white and black stays black.  And no picture ever       *)
(* recolours the text: registers 0 and 1 stay as they are.                 *)
PictureShown ==
  /\ pc = "idle" /\ status = "OK" =>
       /\ DOMAIN screen = (0..(Wide - 1)) \X (0..(High - 1))
       /\ \A p \in DOMAIN screen :
            LET x == (p[1] * image.w) \div Wide
                y == (p[2] * image.h) \div High
                shown == IF target = "atari" THEN Clipped ELSE image.count
                entry == IF Nibble(image, x, y) < shown THEN Nibble(image, x, y) ELSE 0
            IN  CASE target = "atari" -> registers[screen[p]] = Colour(image, entry)
                  [] target = "amiga" -> screen[p] = Colour(image, entry)
                  [] target = "mac" ->
                       /\ screen[p] = Black(Luminance(entry), x, y)
                       /\ Luminance(entry) = 255 => ~ screen[p]
                       /\ Luminance(entry) = 0 => screen[p]
  /\ target = "atari" =>
       registers[0] = <<"text", 0>> /\ registers[1] = <<"text", 1>>
==============================================================================
