----------------------------- MODULE AtariFonts ------------------------------
(***************************************************************************)
(* The numbers of backends/atari/metrics_atari.c: pixels to twips and      *)
(* back, and the choice of a character cell for a size on one screen.      *)
(* A device is what v_opnvwk and graf_handle report: the size of a pixel   *)
(* in microns (umx, umy), the height of the AES's cell (sys), and colors.  *)
(***************************************************************************)
EXTENDS Integers, FiniteSets

Assumed == 96                      (* ATARI_ASSUMED_DPI                    *)
Dpi(um) == IF um > 0 /\ 25400 \div um > 0 THEN 25400 \div um ELSE Assumed
Microns(um) == IF um > 0 /\ 25400 \div um > 0 THEN um ELSE 25400 \div Assumed

(* A mistake: the plain division that the comment at 290-300 warns of.     *)
ScaleTruncated(v, num, den) == (v * num) \div den

(* Rounded to the nearest, a coordinate and its negation alike.            *)
ScaleRound(v, num, den) ==
  IF v >= 0 THEN (v * num + den \div 2) \div den
  ELSE - (((- v) * num + den \div 2) \div den)

ToTwips(px, dpi) == ScaleRound(px, 1440, dpi)
ToPixels(twips, dpi) == ScaleRound(twips, dpi, 1440)

------------------------------------------------------------------------------
(* The VDI: the cell that each point size selects, on every screen the     *)
(* same, with the distances from its baseline.  The table is the one a     *)
(* comment of pick_point_size gives for EmuTOS.                            *)
VstPoint(pt) ==
  CASE pt < 9 -> [w |-> 6, h |-> 6, ascent |-> 4, descent |-> 1]
    [] pt = 9 -> [w |-> 8, h |-> 8, ascent |-> 6, descent |-> 1]
    [] pt \in 10..15 -> [w |-> 8, h |-> 16, ascent |-> 11, descent |-> 2]
    [] pt \in 16..17 -> [w |-> 12, h |-> 12, ascent |-> 9, descent |-> 2]
    [] pt \in 18..19 -> [w |-> 16, h |-> 16, ascent |-> 13, descent |-> 3]
    [] OTHER -> [w |-> 16, h |-> 32, ascent |-> 23, descent |-> 5]

MaxFontSizes == 24                 (* ATARI_MAX_FONT_SIZES                 *)

(* The lowest point size of each cell, of the first that the sweep meets.  *)
FontTable ==
  LET Starts == {pt \in 1..48 :
        /\ VstPoint(pt).w > 0 /\ VstPoint(pt).h > 0
        /\ pt = 1 \/ VstPoint(pt) # VstPoint(pt - 1)}
  IN  {pt \in Starts : Cardinality({p \in Starts : p < pt}) < MaxFontSizes}

(* "Height between 1.6x and 3.0x the width", in microns.                   *)
TextShaped(cell, device) ==
  LET w == cell.w * Microns(device.umx)
      h == cell.h * Microns(device.umy)
  IN  h * 10 >= w * 16 /\ h * 10 <= w * 30

(* The height in pixels that a size should have: that of the AES's cell    *)
(* for 12 points, or the physical one if the AES reports none.             *)
TargetHeight(size, device) ==
  LET px == IF device.sys > 0 THEN (device.sys * size) \div 240
            ELSE ((size * 635) \div 36) \div Microns(device.umy)
  IN  IF px < 1 THEN 1 ELSE px

(* How far from it the cell of a point size is, and the cell nearest to    *)
(* it, the first of those as near.                                         *)
Delta(pt, size, device) ==
  LET d == VstPoint(pt).h - TargetHeight(size, device)
  IN  IF d < 0 THEN - d ELSE d
NearestOf(pts, size, device) ==
  CHOOSE pt \in pts : \A p \in pts :
    \/ Delta(pt, size, device) < Delta(p, size, device)
    \/ Delta(pt, size, device) = Delta(p, size, device) /\ pt <= p

(* A mistake: the cell nearest in height, whatever its shape.              *)
PickAnyPointSize(size, device) == NearestOf(FontTable, size, device)

(* Those shaped like text come first, if there are any.                    *)
PickPointSize(size, device) ==
  LET Shaped == {pt \in FontTable : TextShaped(VstPoint(pt), device)}
  IN  NearestOf(IF Shaped = {} THEN FontTable ELSE Shaped, size, device)

(* plat_font_metrics_get: what the cell has left over is leading.          *)
Ascent(cell, dpi) == ToTwips(cell.ascent, dpi)
Descent(cell, dpi) == ToTwips(cell.descent, dpi)
Leading(cell, dpi) ==
  LET gap == cell.h - (cell.ascent + cell.descent)
  IN  IF gap > 0 THEN ToTwips(gap, dpi) ELSE 0
LineHeight(cell, dpi) == Ascent(cell, dpi) + Descent(cell, dpi) + Leading(cell, dpi)
==============================================================================
