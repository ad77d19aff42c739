----------------------------- MODULE TextScreen ------------------------------
(***************************************************************************)
(* The DOS backend's screen: draw_dos.c and metrics_dos.c.  There is one   *)
(* screen of COLS by ROWS cells in video memory, a character and an        *)
(* attribute each, row after row; a program draws on it by cells, over     *)
(* what it has drawn before.                                               *)
(***************************************************************************)
EXTENDS Utf8

CONSTANTS
  COLS, ROWS,      (* DOS_SCREEN_COLS, DOS_SCREEN_ROWS                     *)
  BUFFER,          (* the bytes of plat_draw_text's buffer, 256            *)
  Samples,         (* the texts: a sequence of sequences of bytes          *)
  Paints,          (* the colours: <<r, g, b>>                             *)
  Columns, Rows, Widths, Heights,   (* where a program draws, and how much *)
  MaxCalls         (* bound on the calls of a program                      *)

VARIABLES
  vmem,            (* [0..the last cell -> [ch, attr]]                     *)
  calls, last      (* the calls so far, and the last of them               *)

vars == <<vmem, calls, last>>

Blank == [ch |-> 32, attr |-> 7]

Init ==
  /\ vmem = [o \in 0..(COLS * ROWS - 1) |-> Blank]
  /\ calls = 0 /\ last = [call |-> "none"]

(* The nearest of the palette's 16 colours, the first of two as near.      *)
Palette ==
  << <<0, 0, 0>>, <<0, 0, 170>>, <<0, 170, 0>>, <<0, 170, 170>>,
     <<170, 0, 0>>, <<170, 0, 170>>, <<170, 85, 0>>, <<170, 170, 170>>,
     <<85, 85, 85>>, <<85, 85, 255>>, <<85, 255, 85>>, <<85, 255, 255>>,
     <<255, 85, 85>>, <<255, 85, 255>>, <<255, 255, 85>>, <<255, 255, 255>> >>
Distance(a, b) ==
  (a[1] - b[1]) * (a[1] - b[1]) + (a[2] - b[2]) * (a[2] - b[2]) + (a[3] - b[3]) * (a[3] - b[3])
DosColor(rgb) ==
  Min({i \in 0..15 : \A j \in 0..15 :
         Distance(rgb, Palette[i + 1]) <= Distance(rgb, Palette[j + 1])})

Intense(fg, bold) == IF bold THEN (fg % 8) + 8 ELSE fg

(* A mistake: only what lies outside the video memory is ignored.          *)
OnSomeRow(col, row) == row * COLS + col \in 0..(COLS * ROWS - 1)

(* dos_put_cell and dos_get_cell_attr ignore what is off the screen.       *)
OnScreen(col, row) == col \in 0..(COLS - 1) /\ row \in 0..(ROWS - 1)
Offset(col, row) == row * COLS + col
CellAttr(col, row) == IF OnScreen(col, row) THEN vmem[Offset(col, row)].attr ELSE 0

(* The cells that are put, those off the screen left out: a function from  *)
(* <<column, row>> to what is written there.                               *)
Put(cells) ==
  LET At(o) == {c \in DOMAIN cells : OnScreen(c[1], c[2]) /\ Offset(c[1], c[2]) = o}
  IN  vmem' = [o \in DOMAIN vmem |->
                 IF At(o) = {} THEN vmem[o] ELSE cells[CHOOSE c \in At(o) : TRUE]]

(* "ASCII passes through unchanged, and every other codepoint becomes a    *)
(* single '?'"; the background of the cells stays.                         *)
DrawText(x, y, t, paint, bold) ==
  LET native == ToBytes(\h7F, Samples[t], BUFFER)
      fg == Intense(DosColor(paint), bold)
  IN  /\ Put([c \in {<<x + i - 1, y>> : i \in 1..Len(native)} |->
                [ch |-> native[c[1] - x + 1],
                 attr |-> CellAttr(c[1], c[2]) - (CellAttr(c[1], c[2]) % 16) + (fg % 16)]])
      /\ last' = [call |-> "text", x |-> x, y |-> y, t |-> t]

FillRect(x, y, w, h, paint) ==
  /\ Put([c \in {<<col, row>> : col \in x..(x + w - 1), row \in y..(y + h - 1)} |->
            [ch |-> 32, attr |-> DosColor(paint) * 16]])
  /\ last' = [call |-> "fill", x |-> x, y |-> y, w |-> w, h |-> h]

Next ==
  /\ calls < MaxCalls /\ calls' = calls + 1
  /\ \E x \in Columns, y \in Rows, paint \in Paints :
       \/ \E t \in DOMAIN Samples, bold \in BOOLEAN : DrawText(x, y, t, paint, bold)
       \/ \E w \in Widths, h \in Heights : FillRect(x, y, w, h, paint)

Spec == Init /\ [][Next]_vars

------------------------------------------------------------------------------
(* plat_measure_text: 144 twips a cell, one cell a code point.             *)
MeasuredCells(t) == CpCount(Samples[t])

TypeOK ==
  /\ vmem \in [0..(COLS * ROWS - 1) -> [ch : 0..\h7F, attr : 0..255]]
  /\ calls \in 0..MaxCalls

(* A text appears where it is drawn, a character a cell: it never goes on  *)
(* in another row, nor does what is off the screen appear anywhere on it;  *)
(* the background it is drawn on stays, so that it can be read on a bar    *)
(* filled before; and text that is well formed and no longer than the      *)
(* buffer takes the cells that it was measured to take.  A rectangle fills *)
(* its own cells, and no others.                                           *)
TextStaysInPlace ==
  [][LET Changed == {o \in DOMAIN vmem : vmem'[o] # vmem[o]}
         Col(o) == o % COLS
         Row(o) == o \div COLS
     IN  /\ last'.call = "text" =>
              LET shown == Clusters(Samples[last'.t])
                  Covered(o) == /\ Row(o) = last'.y
                                /\ Col(o) \in last'.x..(last'.x + Min({BUFFER, Len(shown)}) - 1)
              IN  /\ \A o \in Changed : Covered(o)
                  /\ \A o \in DOMAIN vmem : Covered(o) =>
                       LET cp == shown[Col(o) - last'.x + 1]
                       IN  /\ vmem'[o].ch = IF cp \in 0..\h7F THEN cp ELSE Fallback
                           /\ vmem'[o].attr \div 16 = vmem[o].attr \div 16
                  /\ Validate(Samples[last'.t]) = Len(Samples[last'.t]) =>
                       Len(shown) = MeasuredCells(last'.t)
         /\ last'.call = "fill" =>
              LET Covered(o) == /\ Col(o) \in last'.x..(last'.x + last'.w - 1)
                                /\ Row(o) \in last'.y..(last'.y + last'.h - 1)
              IN  /\ \A o \in Changed : Covered(o)
                  /\ \A o \in DOMAIN vmem :
                       Covered(o) => vmem'[o].ch = 32 /\ vmem'[o].attr % 16 = 0]_<<vmem, calls, last>>
==============================================================================
