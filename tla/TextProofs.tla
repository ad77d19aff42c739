----------------------------- MODULE TextProofs ------------------------------
(***************************************************************************)
(* Why the conversions of metrics_atari.c round: for every resolution a    *)
(* screen may have below that of a twip, and every distance, a pixel comes *)
(* back from twips as itself; and on every coarser one the three parts of  *)
(* a line, rounded one by one, are together the height of the cell.  And   *)
(* why the cell that is chosen for a font is one of the VDI's, shaped like *)
(* text if any is.                                                         *)
(*                                                                         *)
(* Then why utf8.c decodes what the Unicode standard calls well formed and *)
(* nothing else, for every text of every length, why its cursor comes to   *)
(* rest between characters, and what the conversions keep.  The scans are  *)
(* functions of an offset that are defined by recursion; what holds of     *)
(* them is proved by induction over the offsets, stated of sets.           *)
(***************************************************************************)
EXTENDS Utf8, AtariFonts, FiniteSetTheorems, SequenceTheorems, WellFoundedInduction, TLAPS

(* What division leaves: the quotient is the whole number below.           *)
LEMMA Quotient ==
  ASSUME NEW a \in Int, NEW d \in Nat \ {0}
  PROVE  /\ a \div d \in Int
         /\ (a \div d) * d <= a
         /\ a < (a \div d) * d + d
  BY SMT

(* A quotient is known by where its product lies.                          *)
LEMMA QuotientIs ==
  ASSUME NEW a \in Int, NEW d \in Nat \ {0}, NEW q \in Int, q * d <= a, a < q * d + d
  PROVE  a \div d = q
  BY SMT

(* Half of a divisor, as scale_round adds it.                              *)
LEMMA Half ==
  ASSUME NEW d \in Nat
  PROVE  /\ d \div 2 \in Nat
         /\ 2 * (d \div 2) <= d
         /\ d <= 2 * (d \div 2) + 1
  BY SMT

(* scale_round is never off by more than half of what it divides by.       *)
LEMMA WithinHalf ==
  ASSUME NEW v \in Nat, NEW num \in Nat, NEW den \in Nat \ {0}
  PROVE  /\ ScaleRound(v, num, den) \in Nat
         /\ 2 * (ScaleRound(v, num, den) * den) <= 2 * (v * num) + den
         /\ 2 * (v * num) <= 2 * (ScaleRound(v, num, den) * den) + den
  <1> DEFINE p == v * num
             h == den \div 2
             q == (p + h) \div den
             m == q * den
  <1>1. p \in Nat /\ h \in Nat /\ 2 * h <= den /\ den <= 2 * h + 1
    BY Half, SMT
  <1>2. q \in Int /\ m <= p + h /\ p + h < m + den
    <2> HIDE DEF p, h
    <2> QED BY <1>1, Quotient
  <1>3. m \in Int
    BY <1>2, SMT
  <1>4. q >= 0
    <2> HIDE DEF p, h, q
    <2>1. SUFFICES ASSUME q <= -1 PROVE FALSE
      BY <1>2
    <2>2. q * den <= - den
      BY <1>2, <2>1, SMT
    <2> QED BY <1>1, <1>2, <2>2
  <1>5. ScaleRound(v, num, den) = q
    BY DEF ScaleRound
  <1> HIDE DEF p, h, q, m
  <1>6. 2 * m <= 2 * p + den /\ 2 * p <= 2 * m + den
    BY <1>1, <1>2, <1>3
  <1> QED BY <1>2, <1>4, <1>5, <1>6 DEF p, m

(* Whatever is less than half of the divisor away is what it answers.      *)
LEMMA NearestIs ==
  ASSUME NEW v \in Nat, NEW num \in Nat, NEW den \in Nat \ {0}, NEW r \in Int,
         2 * (v * num) < 2 * (r * den) + den, 2 * (r * den) < 2 * (v * num) + den
  PROVE  ScaleRound(v, num, den) = r
  <1> DEFINE p == v * num
             h == den \div 2
             m == r * den
  <1>1. p \in Nat /\ m \in Int /\ h \in Nat /\ 2 * h <= den /\ den <= 2 * h + 1
    BY Half, SMT
  <1>2. 2 * p < 2 * m + den /\ 2 * m < 2 * p + den
    OBVIOUS
  <1>3. m <= p + h /\ p + h < m + den
    <2> HIDE DEF p, h, m
    <2> QED BY <1>1, <1>2
  <1>4. (p + h) \div den = r
    <2> HIDE DEF p, h
    <2> QED BY <1>1, <1>3, QuotientIs DEF m
  <1> QED BY <1>4 DEF ScaleRound

(* A coordinate and its negation are rounded alike.                        *)
LEMMA RoundsAlike ==
  ASSUME NEW v \in Int, v < 0, NEW num \in Nat, NEW den \in Nat \ {0}
  PROVE  ScaleRound(v, num, den) = - ScaleRound(- v, num, den)
  BY SMT DEF ScaleRound

(* The same of a distance in pixels, measured in twips.                    *)
LEMMA TwipsWithinHalf ==
  ASSUME NEW n \in Nat, NEW dpi \in Nat \ {0}
  PROVE  /\ ToTwips(n, dpi) \in Nat
         /\ 2 * (ToTwips(n, dpi) * dpi) <= 2 * (n * 1440) + dpi
         /\ 2 * (n * 1440) <= 2 * (ToTwips(n, dpi) * dpi) + dpi
  <1>1. \A num \in Nat :
          /\ ScaleRound(n, num, dpi) \in Nat
          /\ 2 * (ScaleRound(n, num, dpi) * dpi) <= 2 * (n * num) + dpi
          /\ 2 * (n * num) <= 2 * (ScaleRound(n, num, dpi) * dpi) + dpi
    BY WithinHalf
  <1>2. 1440 \in Nat
    OBVIOUS
  <1> QED BY <1>1, <1>2 DEF ToTwips

(* A number of pixels comes back from twips.                               *)
LEMMA CountComesBack ==
  ASSUME NEW n \in Nat, NEW dpi \in Nat \ {0}, dpi < 1440
  PROVE  ToTwips(n, dpi) \in Nat /\ ToPixels(ToTwips(n, dpi), dpi) = n
  <1> DEFINE t == ToTwips(n, dpi)
  <1>1. /\ t \in Nat
        /\ 2 * (t * dpi) <= 2 * (n * 1440) + dpi
        /\ 2 * (n * 1440) <= 2 * (t * dpi) + dpi
    BY TwipsWithinHalf
  <1> HIDE DEF t
  <1>2. t * dpi \in Nat
    BY <1>1, SMT
  <1>3. 2 * (t * dpi) < 2 * (n * 1440) + 1440 /\ 2 * (n * 1440) < 2 * (t * dpi) + 1440
    BY <1>1, <1>2
  <1>4. ScaleRound(t, dpi, 1440) = n
    BY <1>1, <1>3, NearestIs
  <1> QED BY <1>1, <1>4 DEF t, ToPixels

(* pixels_to_twips and twips_to_pixels undo one another: what the layout   *)
(* has measured is drawn where it was measured, left of or above the       *)
(* origin as well.                                                         *)
THEOREM PixelsComeBack ==
  ASSUME NEW px \in Int, NEW dpi \in 1..1439
  PROVE  ToPixels(ToTwips(px, dpi), dpi) = px
  <1>0. dpi \in Nat \ {0} /\ dpi < 1440 /\ 1440 \in Nat \ {0}
    OBVIOUS
  <1>1. ASSUME NEW n \in Nat
        PROVE  ToTwips(n, dpi) \in Nat /\ ToPixels(ToTwips(n, dpi), dpi) = n
    BY <1>0, CountComesBack
  <1>2. CASE px >= 0
    BY <1>1, <1>2
  <1>3. CASE px < 0
    <2> DEFINE t == ToTwips(- px, dpi)
    <2>1. - px \in Nat /\ t \in Nat /\ ToPixels(t, dpi) = - px
      BY <1>1, <1>3
    <2>2. ToTwips(px, dpi) = - t
      BY <1>3, RoundsAlike DEF ToTwips
    <2>3. t # 0
      <3>1. ScaleRound(0, dpi, 1440) = 0
        BY NearestIs
      <3> QED BY <2>1, <3>1, <1>3 DEF ToPixels
    <2>4. ToPixels(- t, dpi) = - ToPixels(t, dpi)
      <3> HIDE DEF t
      <3>1. - t \in Int /\ - t < 0 /\ - (- t) = t
        BY <2>1, <2>3
      <3> QED BY <3>1, RoundsAlike DEF ToPixels
    <2> QED BY <2>1, <2>2, <2>4
  <1> QED BY <1>2, <1>3

(* plat_font_metrics_get: the ascent, the descent and the leading of a     *)
(* line, each rounded on its own, add up to a distance that is drawn as    *)
(* exactly the rows of its cell, so that lines neither overlap nor drift.  *)
THEOREM LineIsTheCell ==
  ASSUME NEW dpi \in 1..479, NEW cell,
         cell.ascent \in Nat, cell.descent \in Nat, cell.h \in Nat,
         cell.ascent + cell.descent <= cell.h
  PROVE  ToPixels(LineHeight(cell, dpi), dpi) = cell.h
  <1> DEFINE gap == cell.h - (cell.ascent + cell.descent)
             a == Ascent(cell, dpi)
             d == Descent(cell, dpi)
             l == Leading(cell, dpi)
             s == a + d + l
  <1>0. dpi \in Nat \ {0} /\ dpi < 480 /\ 1440 \in Nat \ {0} /\ gap \in Nat
    OBVIOUS
  <1>1. /\ a \in Nat
        /\ 2 * (a * dpi) <= 2 * (cell.ascent * 1440) + dpi
        /\ 2 * (cell.ascent * 1440) <= 2 * (a * dpi) + dpi
    BY <1>0, TwipsWithinHalf DEF Ascent
  <1>2. /\ d \in Nat
        /\ 2 * (d * dpi) <= 2 * (cell.descent * 1440) + dpi
        /\ 2 * (cell.descent * 1440) <= 2 * (d * dpi) + dpi
    BY <1>0, TwipsWithinHalf DEF Descent
  <1>3. /\ l \in Nat
        /\ 2 * (l * dpi) <= 2 * (gap * 1440) + dpi
        /\ 2 * (gap * 1440) <= 2 * (l * dpi) + dpi
    <2>1. CASE gap > 0
      <3>1. l = ToTwips(gap, dpi)
        BY <2>1 DEF Leading
      <3> HIDE DEF l, gap
      <3> QED BY <1>0, <3>1, TwipsWithinHalf
    <2>2. CASE gap = 0
      <3>1. l = 0
        BY <2>2 DEF Leading
      <3> HIDE DEF l, gap
      <3> QED BY <1>0, <2>2, <3>1
    <2> QED BY <1>0, <2>1, <2>2
  <1>4. cell.h = cell.ascent + cell.descent + gap
    OBVIOUS
  <1>5. LineHeight(cell, dpi) = s
    BY DEF LineHeight
  <1> HIDE DEF a, d, l, gap
  <1>6. s \in Nat /\ s * dpi = a * dpi + d * dpi + l * dpi
    BY <1>0, <1>1, <1>2, <1>3, SMT
  <1>7. a * dpi \in Nat /\ d * dpi \in Nat /\ l * dpi \in Nat
    BY <1>0, <1>1, <1>2, <1>3, SMT
  <1> HIDE DEF s
  <1>8. /\ 2 * (s * dpi) < 2 * (cell.h * 1440) + 1440
        /\ 2 * (cell.h * 1440) < 2 * (s * dpi) + 1440
    BY <1>0, <1>1, <1>2, <1>3, <1>4, <1>6, <1>7
  <1>9. ScaleRound(s, dpi, 1440) = cell.h
    BY <1>0, <1>6, <1>8, NearestIs
  <1> QED BY <1>5, <1>9 DEF ToPixels

------------------------------------------------------------------------------
(* The six cells of the VDI.                                               *)
LEMMA Cells ==
  ASSUME NEW pt \in Int
  PROVE  /\ pt < 9 => VstPoint(pt) = [w |-> 6, h |-> 6, ascent |-> 4, descent |-> 1]
         /\ pt = 9 => VstPoint(pt) = [w |-> 8, h |-> 8, ascent |-> 6, descent |-> 1]
         /\ pt \in 10..15 => VstPoint(pt) = [w |-> 8, h |-> 16, ascent |-> 11, descent |-> 2]
         /\ pt \in 16..17 => VstPoint(pt) = [w |-> 12, h |-> 12, ascent |-> 9, descent |-> 2]
         /\ pt \in 18..19 => VstPoint(pt) = [w |-> 16, h |-> 16, ascent |-> 13, descent |-> 3]
         /\ pt >= 20 => VstPoint(pt) = [w |-> 16, h |-> 32, ascent |-> 23, descent |-> 5]
  BY DEF VstPoint

(* Each has its own lowest point size.                                     *)
Smallest == {1, 9, 10, 16, 18, 20}
SmallestOf(pt) ==
  IF pt < 9 THEN 1 ELSE IF pt = 9 THEN 9 ELSE IF pt < 16 THEN 10
  ELSE IF pt < 18 THEN 16 ELSE IF pt < 20 THEN 18 ELSE 20

LEMMA SameCell ==
  ASSUME NEW pt \in 1..48
  PROVE  /\ SmallestOf(pt) \in Smallest /\ SmallestOf(pt) <= pt
         /\ VstPoint(pt) = VstPoint(SmallestOf(pt))
  <1> DEFINE q == SmallestOf(pt)
  <1>1. q \in Smallest /\ q <= pt /\ q \in Int /\ pt \in Int
    BY DEF SmallestOf, Smallest
  <1>2. CASE pt < 9
    BY <1>1, <1>2, Cells DEF SmallestOf
  <1>3. CASE pt = 9
    BY <1>1, <1>3, Cells DEF SmallestOf
  <1>4. CASE pt \in 10..15
    BY <1>1, <1>4, Cells DEF SmallestOf
  <1>5. CASE pt \in 16..17
    BY <1>1, <1>5, Cells DEF SmallestOf
  <1>6. CASE pt \in 18..19
    BY <1>1, <1>6, Cells DEF SmallestOf
  <1>7. CASE pt >= 20
    BY <1>1, <1>7, Cells DEF SmallestOf
  <1> QED BY <1>1, <1>2, <1>3, <1>4, <1>5, <1>6, <1>7

(* A cell has a size, and room for what stands above and below the line.   *)
LEMMA CellTyped ==
  ASSUME NEW pt \in Int
  PROVE  /\ VstPoint(pt).w \in Nat \ {0} /\ VstPoint(pt).h \in Nat \ {0}
         /\ VstPoint(pt).ascent \in Nat /\ VstPoint(pt).descent \in Nat
         /\ VstPoint(pt).ascent + VstPoint(pt).descent <= VstPoint(pt).h
  <1>1. CASE pt < 9
    BY <1>1, Cells
  <1>2. CASE pt = 9
    BY <1>2, Cells
  <1>3. CASE pt \in 10..15
    BY <1>3, Cells
  <1>4. CASE pt \in 16..17
    BY <1>4, Cells
  <1>5. CASE pt \in 18..19
    BY <1>5, Cells
  <1>6. CASE pt >= 20
    BY <1>6, Cells
  <1> QED BY <1>1, <1>2, <1>3, <1>4, <1>5, <1>6

(* The sweep starts a new entry where the cell changes.                    *)
LEMMA CellChanges ==
  ASSUME NEW pt \in 1..48
  PROVE  (pt = 1 \/ VstPoint(pt) # VstPoint(pt - 1)) <=> pt \in Smallest
  <1>1. CASE pt \in Smallest \ {1}
    <2>1. pt = 9 => VstPoint(pt).w = 8 /\ VstPoint(pt - 1).w = 6
      BY Cells
    <2>2. pt = 10 => VstPoint(pt).h = 16 /\ VstPoint(pt - 1).h = 8
      BY Cells
    <2>3. pt = 16 => VstPoint(pt).h = 12 /\ VstPoint(pt - 1).h = 16
      BY Cells
    <2>4. pt = 18 => VstPoint(pt).h = 16 /\ VstPoint(pt - 1).h = 12
      BY Cells
    <2>5. pt = 20 => VstPoint(pt).h = 32 /\ VstPoint(pt - 1).h = 16
      BY Cells
    <2> QED BY <1>1, <2>1, <2>2, <2>3, <2>4, <2>5 DEF Smallest
  <1>2. CASE pt \notin Smallest
    <2>1. pt \in 1..48 /\ pt - 1 \in 1..48 /\ SmallestOf(pt) = SmallestOf(pt - 1)
      BY <1>2 DEF Smallest, SmallestOf
    <2>2. VstPoint(pt) = VstPoint(pt - 1)
      BY <2>1, SameCell
    <2> QED BY <1>2, <2>2 DEF Smallest
  <1> QED BY <1>1, <1>2 DEF Smallest

(* They are fewer than the table has room for.                             *)
LEMMA FewSmallest ==
  IsFiniteSet(Smallest) /\ Cardinality(Smallest) \in Nat /\ Cardinality(Smallest) < MaxFontSizes
  <1>1. IsFiniteSet(1..20) /\ Cardinality(1..20) = 20
    <2>1. 1 \in Int /\ 20 \in Int
      OBVIOUS
    <2>2. Cardinality(1..20) = IF 1 > 20 THEN 0 ELSE 20 - 1 + 1
      BY <2>1, FS_Interval, Zenon
    <2>3. IsFiniteSet(1..20)
      BY <2>1, FS_Interval, Zenon
    <2> QED BY <2>2, <2>3
  <1>2. Smallest \subseteq 1..20
    BY DEF Smallest
  <1>3. IsFiniteSet(Smallest) /\ Cardinality(Smallest) <= Cardinality(1..20)
    <2> DEFINE few == 1..20
    <2>1. IsFiniteSet(few) /\ Smallest \in SUBSET few
      BY <1>1, <1>2
    <2> HIDE DEF few
    <2>2. IsFiniteSet(Smallest) /\ Cardinality(Smallest) <= Cardinality(few)
      BY <2>1, FS_Subset, Zenon
    <2> QED BY <2>2 DEF few
  <1>4. Cardinality(Smallest) \in Nat
    BY <1>3, FS_CardinalityType, Zenon
  <1> QED BY <1>1, <1>3, <1>4 DEF MaxFontSizes

(* metrics_atari.c 160-183: the table has one entry for each cell.         *)
LEMMA TheTable == FontTable = Smallest
  <1> DEFINE Starts == {pt \in 1..48 :
               /\ VstPoint(pt).w > 0 /\ VstPoint(pt).h > 0
               /\ pt = 1 \/ VstPoint(pt) # VstPoint(pt - 1)}
  <1>1. Starts = Smallest
    <2>1. ASSUME NEW pt \in 1..48
          PROVE  pt \in Starts <=> pt \in Smallest
      BY CellTyped, CellChanges
    <2>2. Smallest \subseteq 1..48 /\ Starts \subseteq 1..48
      BY DEF Smallest
    <2> HIDE DEF Starts
    <2> QED BY <2>1, <2>2
  <1> HIDE DEF Starts
  <1>2. FontTable = {pt \in Starts : Cardinality({p \in Starts : p < pt}) < MaxFontSizes}
    BY DEF FontTable, Starts
  <1>3. ASSUME NEW pt \in Starts
        PROVE  Cardinality({p \in Starts : p < pt}) < MaxFontSizes
    <2> DEFINE below == {p \in Starts : p < pt}
    <2>1. below \subseteq Smallest
      BY <1>1
    <2> HIDE DEF below
    <2>2. Cardinality(below) <= Cardinality(Smallest) /\ Cardinality(below) \in Nat
      BY <2>1, FewSmallest, FS_Subset, FS_CardinalityType
    <2>3. Cardinality(below) < MaxFontSizes
      BY <2>2, FewSmallest DEF MaxFontSizes
    <2> QED BY <2>3 DEF below
  <1> QED BY <1>1, <1>2, <1>3

------------------------------------------------------------------------------
(* What v_opnvwk and graf_handle may report.                               *)
IsDevice(d) == d.umx \in Nat /\ d.umy \in Nat /\ d.sys \in Nat

(* A pixel has a size, reported or assumed.                                *)
LEMMA MicronsTyped ==
  ASSUME NEW um \in Nat
  PROVE  Microns(um) \in Nat \ {0}
  BY DEF Microns, Assumed

(* The height in pixels that a size should have is a number,               *)
LEMMA TargetTyped ==
  ASSUME NEW d, IsDevice(d), NEW size \in Nat
  PROVE  TargetHeight(size, d) \in Int
  <1> DEFINE m == Microns(d.umy)
             px == IF d.sys > 0 THEN (d.sys * size) \div 240 ELSE ((size * 635) \div 36) \div m
  <1>1. m \in Nat \ {0} /\ d.sys * size \in Nat /\ size * 635 \in Nat
    BY MicronsTyped DEF IsDevice
  <1>2. (size * 635) \div 36 \in Nat
    BY <1>1
  <1> HIDE DEF m
  <1>3. px \in Int
    BY <1>1, <1>2
  <1> QED BY <1>3 DEF TargetHeight, m

(* and so is how far from it a cell is.                                    *)
LEMMA DeltaTyped ==
  ASSUME NEW d, IsDevice(d), NEW size \in Nat, NEW pt \in Int
  PROVE  Delta(pt, size, d) \in Int
  <1>1. TargetHeight(size, d) \in Int /\ VstPoint(pt).h \in Int
    BY TargetTyped, CellTyped
  <1> QED BY <1>1 DEF Delta

(* What NearestOf chooses: the nearest of some point sizes.                *)
IsNearest(pt, pts, size, d) == \A p \in pts :
  \/ Delta(pt, size, d) < Delta(p, size, d)
  \/ Delta(pt, size, d) = Delta(p, size, d) /\ pt <= p

(* If every choice from some point sizes has a nearest, so has every one   *)
(* from these and another.                                                 *)
LEMMA OneMoreSize ==
  ASSUME NEW d, IsDevice(d), NEW size \in Nat, NEW S \in SUBSET Int, NEW x \in Int,
         \A T \in SUBSET S : T # {} => \E pt \in T : IsNearest(pt, T, size, d),
         NEW T \in SUBSET (S \cup {x}), T # {}
  PROVE  \E pt \in T : IsNearest(pt, T, size, d)
  <1> DEFINE D(p) == Delta(p, size, d)
  <1>1. \A p \in Int : D(p) \in Int
    BY DeltaTyped
  <1> HIDE DEF D
  <1>2. CASE x \notin T
    BY <1>2
  <1>3. CASE T = {x}
    <2>1. IsNearest(x, T, size, d)
      BY <1>1, <1>3 DEF IsNearest, D
    <2> QED BY <1>3, <2>1
  <1>4. CASE x \in T /\ T # {x}
    <2>1. PICK y \in T \ {x} : IsNearest(y, T \ {x}, size, d)
      BY <1>4
    <2>2. \A p \in T \ {x} : D(y) < D(p) \/ (D(y) = D(p) /\ y <= p)
      BY <2>1 DEF IsNearest, D
    <2>3. D(x) \in Int /\ D(y) \in Int /\ y \in Int /\ \A p \in T : D(p) \in Int /\ p \in Int
      BY <1>1, <2>1
    <2>4. CASE D(x) < D(y) \/ (D(x) = D(y) /\ x <= y)
      <3>1. \A p \in T : D(x) < D(p) \/ (D(x) = D(p) /\ x <= p)
        BY <2>2, <2>3, <2>4
      <3> QED BY <1>4, <3>1 DEF IsNearest, D
    <2>5. CASE ~ (D(x) < D(y) \/ (D(x) = D(y) /\ x <= y))
      <3>1. \A p \in T : D(y) < D(p) \/ (D(y) = D(p) /\ y <= p)
        BY <2>2, <2>3, <2>5
      <3> QED BY <2>1, <3>1 DEF IsNearest, D
    <2> QED BY <2>4, <2>5
  <1> QED BY <1>2, <1>3, <1>4

(* One of the cells is the nearest, whichever of them come into question.  *)
LEMMA NearestExists ==
  ASSUME NEW d, IsDevice(d), NEW size \in Nat, NEW T \in SUBSET Smallest, T # {}
  PROVE  NearestOf(T, size, d) \in T
  <1> DEFINE Good(S) == \A U \in SUBSET S : U # {} => \E pt \in U : IsNearest(pt, U, size, d)
  <1>1. Good({})
    OBVIOUS
  <1>2. ASSUME NEW S \in SUBSET Int, NEW x \in Int, Good(S)
        PROVE  Good(S \cup {x})
    BY <1>2, OneMoreSize
  <1>3. \A S \in SUBSET Int, x \in Int : Good(S) => Good(S \cup {x})
    BY <1>2
  <1> HIDE DEF Good
  <1>4. Good({1})
    <2>1. Good({} \cup {1})
      BY <1>1, <1>3
    <2> QED BY <2>1
  <1>5. Good({1, 9})
    <2>1. Good({1} \cup {9}) /\ {1} \cup {9} = {1, 9}
      BY <1>3, <1>4
    <2> QED BY <2>1
  <1>6. Good({1, 9, 10})
    <2>1. Good({1, 9} \cup {10}) /\ {1, 9} \cup {10} = {1, 9, 10}
      BY <1>3, <1>5
    <2> QED BY <2>1
  <1>7. Good({1, 9, 10, 16})
    <2>1. Good({1, 9, 10} \cup {16}) /\ {1, 9, 10} \cup {16} = {1, 9, 10, 16}
      BY <1>3, <1>6
    <2> QED BY <2>1
  <1>8. Good({1, 9, 10, 16, 18})
    <2>1. Good({1, 9, 10, 16} \cup {18}) /\ {1, 9, 10, 16} \cup {18} = {1, 9, 10, 16, 18}
      BY <1>3, <1>7
    <2> QED BY <2>1
  <1>9. Good(Smallest)
    <2>1. Good({1, 9, 10, 16, 18} \cup {20}) /\ {1, 9, 10, 16, 18} \cup {20} = Smallest
      BY <1>3, <1>8 DEF Smallest
    <2> QED BY <2>1
  <1>10. \E pt \in T : IsNearest(pt, T, size, d)
    BY <1>9 DEF Good
  <1> QED BY <1>10 DEF NearestOf, IsNearest

(* pick_point_size: the cell of a font is one of the table, and shaped     *)
(* like text on the screen unless none of the VDI's cells is.              *)
THEOREM PickedFits ==
  ASSUME NEW d, IsDevice(d), NEW size \in Nat
  PROVE  /\ PickPointSize(size, d) \in 1..48
         /\ \/ TextShaped(VstPoint(PickPointSize(size, d)), d)
            \/ \A pt \in 1..48 : ~ TextShaped(VstPoint(pt), d)
  <1> DEFINE Shaped == {pt \in FontTable : TextShaped(VstPoint(pt), d)}
             From == IF Shaped = {} THEN FontTable ELSE Shaped
             pick == NearestOf(From, size, d)
  <1>1. FontTable = Smallest /\ Smallest # {} /\ Smallest \subseteq 1..48
    BY TheTable DEF Smallest
  <1>2. Shaped \subseteq Smallest /\ From \subseteq Smallest /\ From # {}
    BY <1>1
  <1>3. PickPointSize(size, d) = pick
    BY DEF PickPointSize
  <1>4. pick \in From
    <2> HIDE DEF From
    <2> QED BY <1>2, NearestExists
  <1>5. CASE Shaped = {}
    <2>1. ASSUME NEW pt \in 1..48
          PROVE  ~ TextShaped(VstPoint(pt), d)
      BY <1>1, <1>5, SameCell
    <2> HIDE DEF pick
    <2> QED BY <1>1, <1>2, <1>3, <1>4, <2>1
  <1>6. CASE Shaped # {}
    <2>1. pick \in Shaped
      BY <1>4, <1>6
    <2> HIDE DEF pick
    <2> QED BY <1>1, <1>2, <1>3, <2>1
  <1> QED BY <1>5, <1>6

------------------------------------------------------------------------------
(* There is no endless way down among the natural numbers.                 *)
LEMMA LessIsWellFounded == IsWellFoundedOn({ss \in Nat \X Nat : ss[1] < ss[2]}, Nat)
  BY NatLessThanWellFounded DEF OpToRel

(* The least-number principle, of a set.                                   *)
LEMMA Least ==
  ASSUME NEW T \in SUBSET Nat, T # {}
  PROVE  \E x \in T : \A y \in T : x <= y
  <1> DEFINE R == {ss \in Nat \X Nat : ss[1] < ss[2]}
  <1>1. IsWellFoundedOn(R, Nat)
    BY LessIsWellFounded
  <1> HIDE DEF R
  <1>2. PICK x \in T : \A y \in T : ~ (<<y, x>> \in R)
    BY <1>1, WFMin
  <1>3. ASSUME NEW y \in T
        PROVE  x <= y
    <2>1. x \in Nat /\ y \in Nat /\ ~ (<<y, x>> \in R)
      BY <1>2
    <2>2. ~ (y < x)
      BY <2>1 DEF R
    <2> QED BY <2>1, <2>2
  <1> QED BY <1>3

(* What 0 has, and each number hands on to the next, all numbers have.     *)
LEMMA Induction ==
  ASSUME NEW S, 0 \in S, \A k \in Nat : k \in S => k + 1 \in S
  PROVE  Nat \subseteq S
  <1> DEFINE T == Nat \ S
  <1>1. SUFFICES ASSUME T # {} PROVE FALSE
    OBVIOUS
  <1>2. PICK x \in T : \A y \in T : x <= y
    BY <1>1, Least
  <1>3. x \in Nat /\ x # 0 /\ x \notin S
    BY <1>2
  <1>4. x - 1 \in Nat /\ x - 1 \notin T
    BY <1>2, <1>3
  <1>5. (x - 1) + 1 \in S
    BY <1>4
  <1> QED BY <1>3, <1>5

(* What each offset has if all later ones do, all of them have.            *)
LEMMA Downward ==
  ASSUME NEW n \in Nat, NEW S, \A o \in 0..n : (o + 1)..n \subseteq S => o \in S
  PROVE  0..n \subseteq S
  <1> DEFINE T == {k \in Nat : k <= n => (n - k)..n \subseteq S}
  <1>1. 0 \in T
    <2>1. (n + 1)..n \subseteq S /\ n \in 0..n
      OBVIOUS
    <2>2. n \in S
      BY <2>1
    <2>3. (n - 0)..n \subseteq {n}
      OBVIOUS
    <2> QED BY <2>2, <2>3
  <1>2. ASSUME NEW k \in Nat, k \in T
        PROVE  k + 1 \in T
    <2>1. SUFFICES ASSUME k + 1 <= n PROVE (n - (k + 1))..n \subseteq S
      OBVIOUS
    <2> DEFINE o == n - (k + 1)
    <2>2. o \in 0..n /\ o + 1 = n - k /\ k <= n
      BY <2>1
    <2>3. (o + 1)..n \subseteq S
      BY <1>2, <2>2
    <2>4. o \in S
      BY <2>2, <2>3
    <2>5. \A i \in o..n : i = o \/ i \in (o + 1)..n
      BY <2>2
    <2> HIDE DEF o
    <2>6. o..n \subseteq S
      BY <2>3, <2>4, <2>5
    <2> QED BY <2>6 DEF o
  <1>3. Nat \subseteq T
    <2> HIDE DEF T
    <2> QED BY <1>1, <1>2, Induction
  <1>4. n \in T
    BY <1>3
  <1> QED BY <1>4

(* G gives each value of a function on 0..n from the later ones, in V.     *)
Typed(n, V, G) == \A o \in 0..n, f \in [0..n -> V] : G[<<o, f>>] \in V
FromLater(n, V, G) ==
  \A o \in 0..n, f \in [0..n -> V], g \in [0..n -> V] :
    (\A i \in (o + 1)..n : f[i] = g[i]) => G[<<o, f>>] = G[<<o, g>>]
Given(n, V, G, f) == f \in [0..n -> V] /\ \A o \in 0..n : f[o] = G[<<o, f>>]

(* A function each of whose values is given by the later ones exists: the  *)
(* scans of utf8.c that go on from an offset to the next are such          *)
(* functions.                                                              *)
LEMMA Recursion ==
  ASSUME NEW n \in Nat, NEW V, V # {}, NEW G, Typed(n, V, G), FromLater(n, V, G)
  PROVE  \E f : Given(n, V, G, f)
  <1> USE DEF Typed, FromLater, Given
  <1> DEFINE Upto(k, f) == \A o \in 0..n : n - k <= o => f[o] = G[<<o, f>>]
             T == {k \in Nat : k <= n + 1 => \E f \in [0..n -> V] : Upto(k - 1, f)}
  <1>1. 0 \in T
    <2>1. PICK v \in V : TRUE
      OBVIOUS
    <2>2. [o \in 0..n |-> v] \in [0..n -> V] /\ \A f : Upto(0 - 1, f)
      OBVIOUS
    <2> QED BY <2>2
  <1>2. ASSUME NEW k \in Nat, k \in T
        PROVE  k + 1 \in T
    <2>1. SUFFICES ASSUME k + 1 <= n + 1 PROVE \E f \in [0..n -> V] : Upto(k, f)
      OBVIOUS
    <2>2. PICK f \in [0..n -> V] : Upto(k - 1, f)
      BY <1>2, <2>1
    <2> DEFINE o == n - k
               g == [f EXCEPT ![o] = G[<<o, f>>]]
    <2>3. o \in 0..n
      BY <2>1
    <2>4. g \in [0..n -> V] /\ g[o] = G[<<o, f>>] /\ \A i \in 0..n : i # o => g[i] = f[i]
      BY <2>3
    <2>5. ASSUME NEW i \in 0..n, n - k <= i
          PROVE  g[i] = G[<<i, g>>]
      <3>1. \A j \in (i + 1)..n : j \in 0..n /\ j # o /\ f[j] = g[j]
        BY <2>4, <2>5
      <3> HIDE DEF g
      <3>2. G[<<i, f>>] = G[<<i, g>>]
        BY <2>4, <3>1
      <3>3. CASE i = o
        BY <2>4, <3>2, <3>3
      <3>4. CASE i # o
        <4>1. n - (k - 1) <= i
          BY <2>3, <2>5, <3>4
        <4> QED BY <2>2, <2>4, <3>2, <3>4, <4>1
      <3> QED BY <3>3, <3>4
    <2> HIDE DEF g
    <2> QED BY <2>4, <2>5
  <1>3. Nat \subseteq T
    <2> HIDE DEF T
    <2> QED BY <1>1, <1>2, Induction
  <1>4. PICK f \in [0..n -> V] : Upto((n + 1) - 1, f)
    <2>1. n + 1 \in T
      <3> HIDE DEF T
      <3> QED BY <1>3
    <2> QED BY <2>1
  <1> QED BY <1>4

(* The larger and the smaller of two numbers.                              *)
LEMMA Larger ==
  ASSUME NEW a \in Int, NEW b \in Int
  PROVE  /\ Max({a, b}) = IF a >= b THEN a ELSE b
         /\ Min({a, b}) = IF a <= b THEN a ELSE b
  BY DEF Max, Min

(* What is left of a text that is cut to a buffer.                         *)
LEMMA CutTyped ==
  ASSUME NEW S, NEW s \in Seq(S), NEW n \in Nat
  PROVE  /\ Cut(s, n) \in Seq(S)
         /\ Len(Cut(s, n)) = IF n <= Len(s) THEN n ELSE Len(s)
         /\ \A i \in 1..Len(Cut(s, n)) : Cut(s, n)[i] = s[i]
         /\ n >= Len(s) => Cut(s, n) = s
  <1> DEFINE m == Min({n, Len(s)})
  <1>1. Len(s) \in Nat
    BY LenProperties
  <1>2. m \in 0..Len(s) /\ m = IF n <= Len(s) THEN n ELSE Len(s)
    <2> DEFINE len == Len(s)
    <2> HIDE DEF len
    <2>1. len \in Nat /\ len \in Int /\ n \in Int
      BY <1>1 DEF len
    <2>2. Min({n, len}) = IF n <= len THEN n ELSE len
      BY <2>1, Larger, Zenon
    <2> QED BY <2>1, <2>2 DEF len
  <1>3. Cut(s, n) = SubSeq(s, 1, m)
    BY DEF Cut
  <1> HIDE DEF m
  <1>4. /\ SubSeq(s, 1, m) \in Seq(S) /\ Len(SubSeq(s, 1, m)) = m
        /\ \A i \in 1..m : SubSeq(s, 1, m)[i] = s[i]
    BY <1>1, <1>2
  <1>5. SubSeq(s, 1, Len(s)) = s
    BY <1>1
  <1>6. Cut(s, n) \in Seq(S) /\ Len(Cut(s, n)) = m /\ \A i \in 1..m : Cut(s, n)[i] = s[i]
    BY <1>3, <1>4, Zenon
  <1>7. n >= Len(s) => m = Len(s)
    BY <1>1, <1>2
  <1> QED BY <1>1, <1>2, <1>3, <1>5, <1>6, <1>7

(* The text from an offset on.                                             *)
Rest(s, o) == SubSeq(s, o + 1, Len(s))

(* It has the bytes that follow.                                           *)
LEMMA RestTyped ==
  ASSUME NEW S, NEW s \in Seq(S), NEW o \in 0..Len(s)
  PROVE  /\ Rest(s, o) \in Seq(S) /\ Len(Rest(s, o)) = Len(s) - o
         /\ \A i \in 1..(Len(s) - o) : Rest(s, o)[i] = s[o + i]
  <1>1. Len(s) \in Nat
    BY LenProperties
  <1> QED BY <1>1 DEF Rest

(* Code points, and -1 for a byte that makes none.                         *)
Symbols == Int

(* utf8_decode never takes more bytes than there are.                      *)
LEMMA DecodeTyped ==
  ASSUME NEW S, NEW s \in Seq(S)
  PROVE  Decode(s).used \in 0..Len(s) /\ Decode(s).cp \in Symbols
  <1>1. Len(s) \in Nat
    BY LenProperties
  <1> DEFINE n == IF s = <<>> THEN 0 ELSE SeqLen(s[1])
             cp == Spelt(s, n)
             good == /\ n \in 1..Len(s)
                     /\ \A i \in 2..n : IsContinuation(s[i])
                     /\ cp >= MinCp[n]
                     /\ IsScalar(cp)
  <1>2. Decode(s) = IF good THEN [used |-> n, cp |-> cp] ELSE [used |-> 0, cp |-> -1]
    BY DEF Decode
  <1>3. good => n \in 1..Len(s) /\ cp \in Symbols
    BY SMT DEF IsScalar, Symbols
  <1>4. -1 \in Symbols
    BY SMT DEF Symbols
  <1> HIDE DEF good, n, cp
  <1> QED BY <1>1, <1>2, <1>3, <1>4

(* Where the conversions go on after the character at an offset.           *)
After(s, o) == o + Max({1, Decode(Rest(s, o)).used})

(* A conversion always goes on, and never beyond the end.                  *)
LEMMA AfterFits ==
  ASSUME NEW S, NEW s \in Seq(S), NEW o \in 0..(Len(s) - 1)
  PROVE  After(s, o) \in (o + 1)..Len(s)
  <1> DEFINE u == Decode(Rest(s, o)).used
  <1>1. Len(s) \in Nat
    BY LenProperties
  <1>2. u \in 0..(Len(s) - o)
    BY <1>1, RestTyped, DecodeTyped
  <1> HIDE DEF u
  <1>3. Max({1, u}) = IF 1 >= u THEN 1 ELSE u
    BY <1>1, <1>2, Larger
  <1>4. o + Max({1, u}) \in (o + 1)..Len(s)
    BY <1>1, <1>2, <1>3
  <1> QED BY <1>4 DEF u, After

(* The characters of a text from an offset on.                             *)
ClustersFrom(s) ==
  CHOOSE from : from = [o \in 0..Len(s) |->
    IF o = Len(s) THEN <<>> ELSE <<Decode(Rest(s, o)).cp>> \o from[After(s, o)]]

(* Clusters starts with the first of them.                                 *)
LEMMA ClustersIs == \A s : Clusters(s) = ClustersFrom(s)[0]
  BY DEF Clusters, ClustersFrom, Rest, After

(* They are a function of the offset,                                      *)
LEMMA ClustersExists ==
  ASSUME NEW S, NEW s \in Seq(S)
  PROVE  ClustersFrom(s) = [o \in 0..Len(s) |->
           IF o = Len(s) THEN <<>> ELSE <<Decode(Rest(s, o)).cp>> \o ClustersFrom(s)[After(s, o)]]
  <1> DEFINE n == Len(s)
             V == Seq(Symbols)
             F(o, f) == IF o = n THEN <<>> ELSE <<Decode(Rest(s, o)).cp>> \o f[After(s, o)]
             G == [p \in (0..n) \X [0..n -> V] |-> F(p[1], p[2])]
  <1>1. n \in Nat
    BY LenProperties
  <1>2. V # {}
    <2>1. <<>> \in Seq(Symbols)
      OBVIOUS
    <2> QED BY <2>1
  <1>3. ASSUME NEW o \in 0..n, NEW f \in [0..n -> V]
        PROVE  G[<<o, f>>] = F(o, f) /\ F(o, f) \in V
    <2>1. CASE o = n
      BY <2>1
    <2>2. CASE o # n
      <3>1. After(s, o) \in 0..n /\ Decode(Rest(s, o)).cp \in Symbols
        BY <1>1, <2>2, AfterFits, RestTyped, DecodeTyped
      <3> DEFINE c == Decode(Rest(s, o)).cp
                 g == f[After(s, o)]
      <3>2. c \in Symbols /\ g \in Seq(Symbols)
        BY <3>1
      <3> HIDE DEF c, g
      <3>3. <<c>> \o g \in Seq(Symbols)
        BY <3>2
      <3> QED BY <2>2, <3>3 DEF c, g
    <2> QED BY <2>1, <2>2
  <1>4. ASSUME NEW o \in 0..n, NEW f \in [0..n -> V], NEW g \in [0..n -> V],
               \A i \in (o + 1)..n : f[i] = g[i]
        PROVE  G[<<o, f>>] = G[<<o, g>>]
    <2>1. F(o, f) = F(o, g)
      <3>1. CASE o = n
        BY <3>1
      <3>2. CASE o # n
        <4>1. After(s, o) \in (o + 1)..n
          BY <1>1, <3>2, AfterFits
        <4> QED BY <1>4, <4>1
      <3> QED BY <3>1, <3>2
    <2> QED BY <1>3, <2>1
  <1> HIDE DEF V
  <1>5. PICK f \in [0..n -> V] : \A o \in 0..n : f[o] = G[<<o, f>>]
    <2>1. Typed(n, V, G)
      BY <1>3 DEF Typed
    <2>2. FromLater(n, V, G)
      BY <1>4 DEF FromLater
    <2> HIDE DEF n, G, F
    <2>3. PICK f : Given(n, V, G, f)
      BY <1>1, <1>2, <2>1, <2>2, Recursion
    <2> QED BY <2>3 DEF Given
  <1>6. f = [o \in 0..n |-> F(o, f)]
    <2>1. \A o \in 0..n : f[o] = F(o, f)
      BY <1>3, <1>5
    <2> HIDE DEF F
    <2> QED BY <2>1
  <1> DEFINE P(g) == g = [o \in 0..n |-> F(o, g)]
  <1>7. ClustersFrom(s) = CHOOSE g : P(g)
    BY DEF ClustersFrom
  <1>8. P(f)
    BY <1>6
  <1> HIDE DEF P
  <1>9. P(CHOOSE g : P(g))
    BY <1>8, Zenon
  <1>10. P(ClustersFrom(s))
    BY <1>7, <1>9
  <1> QED BY <1>10 DEF P

(* which takes one character and goes on after it,                         *)
LEMMA ClustersSteps ==
  ASSUME NEW S, NEW s \in Seq(S)
  PROVE  /\ ClustersFrom(s)[Len(s)] = <<>>
         /\ \A o \in 0..(Len(s) - 1) :
              ClustersFrom(s)[o] = <<Decode(Rest(s, o)).cp>> \o ClustersFrom(s)[After(s, o)]
  <1> DEFINE F(o) == IF o = Len(s) THEN <<>>
                     ELSE <<Decode(Rest(s, o)).cp>> \o ClustersFrom(s)[After(s, o)]
  <1>1. Len(s) \in Nat
    BY LenProperties
  <1>2. ClustersFrom(s) = [o \in 0..Len(s) |-> F(o)]
    BY ClustersExists
  <1>3. \A o \in 0..Len(s) : ClustersFrom(s)[o] = F(o)
    <2> HIDE DEF F
    <2> QED BY <1>2
  <1>4. F(Len(s)) = <<>>
    OBVIOUS
  <1>5. \A o \in 0..(Len(s) - 1) : F(o) = <<Decode(Rest(s, o)).cp>> \o ClustersFrom(s)[After(s, o)]
    BY <1>1
  <1> HIDE DEF F
  <1>6. Len(s) \in 0..Len(s) /\ \A o \in 0..(Len(s) - 1) : o \in 0..Len(s)
    BY <1>1
  <1> QED BY <1>3, <1>4, <1>5, <1>6

(* and finds no more characters than bytes.                                *)
LEMMA ClustersTypedFrom ==
  ASSUME NEW S, NEW s \in Seq(S)
  PROVE  \A o \in 0..Len(s) : /\ ClustersFrom(s)[o] \in Seq(Symbols)
                              /\ Len(ClustersFrom(s)[o]) <= Len(s) - o
  <1> DEFINE n == Len(s)
             T == {o \in 0..n : /\ ClustersFrom(s)[o] \in Seq(Symbols)
                                /\ Len(ClustersFrom(s)[o]) <= n - o}
  <1>1. n \in Nat
    BY LenProperties
  <1>2. ASSUME NEW o \in 0..n, (o + 1)..n \subseteq T
        PROVE  o \in T
    <2>1. CASE o = n
      <3>1. ClustersFrom(s)[o] = <<>>
        BY <2>1, ClustersSteps
      <3>2. <<>> \in Seq(Symbols) /\ Len(<<>>) = 0
        OBVIOUS
      <3> HIDE DEF n
      <3>3. 0 <= n - o
        BY <1>1, <2>1
      <3> QED BY <3>1, <3>2, <3>3
    <2>2. CASE o # n
      <3> DEFINE c == Decode(Rest(s, o)).cp
                 a == After(s, o)
                 g == ClustersFrom(s)[a]
      <3>1. o \in 0..(n - 1)
        BY <1>1, <2>2
      <3>2. c \in Symbols
        BY RestTyped, DecodeTyped
      <3>3. a \in (o + 1)..n
        BY <3>1, AfterFits
      <3>4. g \in Seq(Symbols) /\ Len(g) <= n - a
        BY <1>2, <3>3
      <3>5. ClustersFrom(s)[o] = <<c>> \o g
        BY <3>1, ClustersSteps
      <3> HIDE DEF c, a, g, n
      <3>6. <<c>> \o g \in Seq(Symbols) /\ Len(<<c>> \o g) = 1 + Len(g)
        BY <3>2, <3>4
      <3>7. Len(g) \in Nat
        BY <3>4, LenProperties
      <3>8. 1 + Len(g) <= n - o
        BY <1>1, <3>3, <3>4, <3>7
      <3> QED BY <3>5, <3>6, <3>8
    <2> QED BY <2>1, <2>2
  <1>3. 0..n \subseteq T
    <2> HIDE DEF T, n
    <2> QED BY <1>1, <1>2, Downward
  <1> QED BY <1>3

(* A text has as many characters as bytes at most.                         *)
LEMMA ClustersTyped ==
  ASSUME NEW S, NEW s \in Seq(S)
  PROVE  /\ Clusters(s) \in Seq(Symbols) /\ Len(Clusters(s)) \in 0..Len(s)
  <1>1. Len(s) \in Nat /\ 0 \in 0..Len(s)
    BY LenProperties
  <1>2. Clusters(s) \in Seq(Symbols) /\ Len(Clusters(s)) <= Len(s) - 0
    BY <1>1, ClustersTypedFrom, ClustersIs
  <1>3. Len(Clusters(s)) \in Nat
    BY <1>2, LenProperties
  <1> QED BY <1>1, <1>2, <1>3

(* What plat_utf8_to_native makes of it.                                   *)
LEMMA BytesTyped ==
  ASSUME NEW S, NEW s \in Seq(S), NEW limit \in Nat, limit >= Fallback, NEW cap \in Nat
  PROVE  LET cps == Clusters(s)
             native == ToBytes(limit, s, cap)
         IN  /\ native \in Seq(0..limit)
             /\ Len(native) = IF cap <= Len(cps) THEN cap ELSE Len(cps)
             /\ \A i \in 1..Len(native) :
                  native[i] = IF cps[i] \in 0..limit THEN cps[i] ELSE Fallback
  <1> DEFINE cps == Clusters(s)
             cut == Cut(cps, cap)
             native == [i \in 1..Len(cut) |-> IF cut[i] \in 0..limit THEN cut[i] ELSE Fallback]
  <1>1. cps \in Seq(Symbols)
    BY ClustersTyped
  <1>2. /\ cut \in Seq(Symbols) /\ Len(cut) = IF cap <= Len(cps) THEN cap ELSE Len(cps)
        /\ \A i \in 1..Len(cut) : cut[i] = cps[i]
    <2> HIDE DEF cps
    <2> QED BY <1>1, CutTyped
  <1>3. Len(cut) \in Nat
    BY <1>2, LenProperties
  <1>4. ToBytes(limit, s, cap) = native
    BY DEF ToBytes
  <1>5. Fallback \in 0..limit
    BY DEF Fallback
  <1> HIDE DEF cut, cps
  <1>6. native \in Seq(0..limit) /\ Len(native) = Len(cut)
    BY <1>3, <1>5
  <1>7. \A i \in 1..Len(cut) : native[i] = IF cps[i] \in 0..limit THEN cps[i] ELSE Fallback
    BY <1>2
  <1> HIDE DEF native
  <1>8. /\ native \in Seq(0..limit)
        /\ Len(native) = IF cap <= Len(cps) THEN cap ELSE Len(cps)
        /\ \A i \in 1..Len(native) : native[i] = IF cps[i] \in 0..limit THEN cps[i] ELSE Fallback
    BY <1>2, <1>6, <1>7
  <1> QED BY <1>4, <1>8 DEF cps

(* utf8_next always goes on, never beyond the end, and by a whole sequence *)
(* if there is one.                                                        *)
LEMMA NextFits ==
  ASSUME NEW S, NEW s \in Seq(S), NEW o \in 0..(Len(s) - 1)
  PROVE  /\ NextOffset(s, o) \in (o + 1)..Len(s)
         /\ LET n == SeqLen(s[o + 1])
            IN  n \in 1..(Len(s) - o) => NextOffset(s, o) = o + n
  <1> DEFINE n == SeqLen(s[o + 1])
             len == Len(s)
  <1>1. len \in Nat
    BY LenProperties
  <1>2. n \in 0..4
    BY DEF SeqLen
  <1>3. NextOffset(s, o) = Min({len, o + Max({1, n})})
    BY <1>1 DEF NextOffset
  <1> HIDE DEF n, len
  <1>4. Max({1, n}) = IF 1 >= n THEN 1 ELSE n
    BY <1>2, Larger
  <1> DEFINE m == Max({1, n})
  <1>5. m \in 1..4 /\ (n \in 1..4 => m = n)
    BY <1>2, <1>4
  <1> HIDE DEF m
  <1>6. o \in 0..(len - 1)
    BY DEF len
  <1>7. Min({len, o + m}) = IF len <= o + m THEN len ELSE o + m
    <2>1. len \in Int /\ o + m \in Int
      BY <1>1, <1>5, <1>6
    <2> QED BY <2>1, Larger, Zenon
  <1>8. Min({len, o + m}) \in (o + 1)..len
    BY <1>1, <1>5, <1>6, <1>7
  <1>9. n \in 1..(len - o) => Min({len, o + m}) = o + n
    BY <1>1, <1>2, <1>5, <1>6, <1>7
  <1> QED BY <1>3, <1>8, <1>9 DEF m, n, len

(* The characters that utf8_cp_count counts from an offset on.             *)
CountFrom(s) ==
  CHOOSE after : after = [o \in 0..Len(s) |->
    IF o = Len(s) THEN 0 ELSE 1 + after[NextOffset(s, o)]]

(* CpCount starts with the first of them.                                  *)
LEMMA CountIs == \A s : CpCount(s) = CountFrom(s)[0]
  BY DEF CpCount, CountFrom

(* They are a function of the offset,                                      *)
LEMMA CountExists ==
  ASSUME NEW S, NEW s \in Seq(S)
  PROVE  CountFrom(s) = [o \in 0..Len(s) |->
           IF o = Len(s) THEN 0 ELSE 1 + CountFrom(s)[NextOffset(s, o)]]
  <1> DEFINE n == Len(s)
             F(o, f) == IF o = n THEN 0 ELSE 1 + f[NextOffset(s, o)]
             G == [p \in (0..n) \X [0..n -> Nat] |-> F(p[1], p[2])]
  <1>1. n \in Nat /\ Nat # {}
    BY LenProperties
  <1>2. \A o \in 0..n : o # n => NextOffset(s, o) \in (o + 1)..n
    BY <1>1, NextFits
  <1>3. ASSUME NEW o \in 0..n, NEW f \in [0..n -> Nat]
        PROVE  G[<<o, f>>] = F(o, f) /\ F(o, f) \in Nat
    BY <1>1, <1>2
  <1>4. ASSUME NEW o \in 0..n, NEW f \in [0..n -> Nat], NEW g \in [0..n -> Nat],
               \A i \in (o + 1)..n : f[i] = g[i]
        PROVE  G[<<o, f>>] = G[<<o, g>>]
    <2>1. F(o, f) = F(o, g)
      BY <1>2, <1>4
    <2> QED BY <1>3, <2>1
  <1>5. PICK f \in [0..n -> Nat] : \A o \in 0..n : f[o] = G[<<o, f>>]
    <2>1. Typed(n, Nat, G)
      BY <1>3 DEF Typed
    <2>2. FromLater(n, Nat, G)
      BY <1>4 DEF FromLater
    <2> HIDE DEF n, G, F
    <2>3. PICK f : Given(n, Nat, G, f)
      BY <1>1, <2>1, <2>2, Recursion
    <2> QED BY <2>3 DEF Given
  <1>6. f = [o \in 0..n |-> F(o, f)]
    <2>1. \A o \in 0..n : f[o] = F(o, f)
      BY <1>3, <1>5
    <2> HIDE DEF F
    <2> QED BY <2>1
  <1> DEFINE P(g) == g = [o \in 0..n |-> F(o, g)]
  <1>7. CountFrom(s) = CHOOSE g : P(g)
    BY DEF CountFrom
  <1>8. P(f)
    BY <1>6
  <1> HIDE DEF P
  <1>9. P(CHOOSE g : P(g))
    BY <1>8, Zenon
  <1>10. P(CountFrom(s))
    BY <1>7, <1>9
  <1> QED BY <1>10 DEF P

(* which counts one and goes on with the next.                             *)
LEMMA CountSteps ==
  ASSUME NEW S, NEW s \in Seq(S)
  PROVE  /\ CountFrom(s)[Len(s)] = 0
         /\ \A o \in 0..(Len(s) - 1) : CountFrom(s)[o] = 1 + CountFrom(s)[NextOffset(s, o)]
  <1> DEFINE F(o) == IF o = Len(s) THEN 0 ELSE 1 + CountFrom(s)[NextOffset(s, o)]
  <1>1. Len(s) \in Nat
    BY LenProperties
  <1>2. CountFrom(s) = [o \in 0..Len(s) |-> F(o)]
    BY CountExists
  <1>3. \A o \in 0..Len(s) : CountFrom(s)[o] = F(o)
    <2> HIDE DEF F
    <2> QED BY <1>2
  <1>4. F(Len(s)) = 0
    OBVIOUS
  <1>5. \A o \in 0..(Len(s) - 1) : F(o) = 1 + CountFrom(s)[NextOffset(s, o)]
    BY <1>1
  <1> HIDE DEF F
  <1>6. Len(s) \in 0..Len(s) /\ \A o \in 0..(Len(s) - 1) : o \in 0..Len(s)
    BY <1>1
  <1> QED BY <1>3, <1>4, <1>5, <1>6

(* The offset that utf8_validate answers when it has come to one.          *)
ValidFrom(s) ==
  CHOOSE from : from = [o \in 0..Len(s) |->
    IF Decode(Rest(s, o)).used = 0 THEN o ELSE from[o + Decode(Rest(s, o)).used]]

(* Validate starts at the start.                                           *)
LEMMA ValidIs == \A s : Validate(s) = ValidFrom(s)[0]
  BY DEF Validate, ValidFrom, Rest

(* Its ends are a function of the offset.                                  *)
LEMMA ValidExists ==
  ASSUME NEW S, NEW s \in Seq(S)
  PROVE  ValidFrom(s) = [o \in 0..Len(s) |->
           IF Decode(Rest(s, o)).used = 0 THEN o
           ELSE ValidFrom(s)[o + Decode(Rest(s, o)).used]]
  <1> DEFINE n == Len(s)
             V == 0..n
             U(o) == Decode(Rest(s, o)).used
             F(o, f) == IF U(o) = 0 THEN o ELSE f[o + U(o)]
             G == [p \in (0..n) \X [0..n -> V] |-> F(p[1], p[2])]
  <1>1. n \in Nat
    BY LenProperties
  <1>2. V # {}
    BY <1>1
  <1>3. \A o \in 0..n : U(o) # 0 => o + U(o) \in (o + 1)..n
    <2>1. ASSUME NEW o \in 0..n
          PROVE  U(o) \in 0..(n - o)
      BY RestTyped, DecodeTyped
    <2>2. \A i \in 0..n : \A u \in 0..(n - i) : u # 0 => i + u \in (i + 1)..n
      <3> HIDE DEF n
      <3> QED BY <1>1
    <2> QED BY <2>1, <2>2
  <1> HIDE DEF U
  <1>4. ASSUME NEW o \in 0..n, NEW f \in [0..n -> V]
        PROVE  G[<<o, f>>] = F(o, f) /\ F(o, f) \in V
    BY <1>1, <1>3
  <1>5. ASSUME NEW o \in 0..n, NEW f \in [0..n -> V], NEW g \in [0..n -> V],
               \A i \in (o + 1)..n : f[i] = g[i]
        PROVE  G[<<o, f>>] = G[<<o, g>>]
    <2>1. F(o, f) = F(o, g)
      BY <1>3, <1>5
    <2> QED BY <1>4, <2>1
  <1> HIDE DEF V
  <1>6. PICK f \in [0..n -> V] : \A o \in 0..n : f[o] = G[<<o, f>>]
    <2>1. Typed(n, V, G)
      BY <1>4 DEF Typed
    <2>2. FromLater(n, V, G)
      BY <1>5 DEF FromLater
    <2> HIDE DEF n, G, F
    <2>3. PICK f : Given(n, V, G, f)
      BY <1>1, <1>2, <2>1, <2>2, Recursion
    <2> QED BY <2>3 DEF Given
  <1>7. f = [o \in 0..n |-> F(o, f)]
    <2>1. \A o \in 0..n : f[o] = F(o, f)
      BY <1>4, <1>6
    <2> HIDE DEF F
    <2> QED BY <2>1
  <1> DEFINE P(g) == g = [o \in 0..n |-> F(o, g)]
  <1>8. ValidFrom(s) = CHOOSE g : P(g)
    BY DEF ValidFrom, U
  <1>9. P(f)
    BY <1>7
  <1> HIDE DEF P
  <1>10. P(CHOOSE g : P(g))
    BY <1>9, Zenon
  <1>11. P(ValidFrom(s))
    BY <1>8, <1>10
  <1> QED BY <1>11 DEF P, U

(* What is well formed from an offset on is counted by utf8_next as it is  *)
(* decoded.                                                                *)
LEMMA DecodeUsed ==
  ASSUME NEW S, NEW s \in Seq(S), Decode(s).used # 0
  PROVE  /\ Len(s) # 0 /\ s # <<>> /\ Decode(s).used = SeqLen(s[1])
         /\ Decode(s).used \in 1..Len(s) /\ Decode(s).used \in 1..4
  <1>1. Len(s) \in Nat
    BY LenProperties
  <1> DEFINE n == IF s = <<>> THEN 0 ELSE SeqLen(s[1])
             cp == Spelt(s, n)
             good == /\ n \in 1..Len(s)
                     /\ \A i \in 2..n : IsContinuation(s[i])
                     /\ cp >= MinCp[n]
                     /\ IsScalar(cp)
  <1>2. Decode(s) = IF good THEN [used |-> n, cp |-> cp] ELSE [used |-> 0, cp |-> -1]
    BY DEF Decode
  <1>3. good => n \in 1..Len(s)
    OBVIOUS
  <1>4. s # <<>> => n \in 0..4 /\ n = SeqLen(s[1])
    BY DEF SeqLen
  <1>5. s = <<>> => n = 0
    OBVIOUS
  <1> HIDE DEF good, n, cp
  <1>6. good /\ Decode(s).used = n
    BY <1>2
  <1>7. s # <<>>
    BY <1>3, <1>5, <1>6
  <1> QED BY <1>1, <1>3, <1>4, <1>6, <1>7

(* A text that is valid has as many characters as utf8_cp_count says.      *)
LEMMA CountedAsDecoded ==
  ASSUME NEW S, NEW s \in Seq(S), Validate(s) = Len(s)
  PROVE  Len(Clusters(s)) = CpCount(s)
  <1> DEFINE n == Len(s)
             T == {o \in 0..n : ValidFrom(s)[o] = n =>
                                  Len(ClustersFrom(s)[o]) = CountFrom(s)[o]}
  <1>1. n \in Nat
    BY LenProperties
  <1>2. ASSUME NEW o \in 0..n, (o + 1)..n \subseteq T
        PROVE  o \in T
    <2>1. CASE o = n
      BY <2>1, ClustersSteps, CountSteps
    <2>2. CASE o # n
      <3> DEFINE u == Decode(Rest(s, o)).used
                 v == ValidFrom(s)[o]
      <3>0. o \in 0..(n - 1)
        BY <1>1, <2>2
      <3>1. SUFFICES ASSUME v = n
                     PROVE  Len(ClustersFrom(s)[o]) = CountFrom(s)[o]
        OBVIOUS
      <3>2. v = IF u = 0 THEN o ELSE ValidFrom(s)[o + u]
        BY ValidExists
      <3>3. u # 0 /\ ValidFrom(s)[o + u] = n
        BY <2>2, <3>1, <3>2
      <3>4. u = SeqLen(s[o + 1]) /\ u \in 1..(n - o)
        <4>1. /\ Rest(s, o) \in Seq(S) /\ Len(Rest(s, o)) = n - o
              /\ (1 \in 1..(n - o) => Rest(s, o)[1] = s[o + 1])
          BY <1>1, RestTyped
        <4>2. u = SeqLen(Rest(s, o)[1]) /\ u \in 1..Len(Rest(s, o))
          BY <3>3, <4>1, DecodeUsed
        <4> HIDE DEF u, n
        <4> QED BY <1>1, <3>0, <4>1, <4>2
      <3>5. NextOffset(s, o) = o + u
        BY <3>0, <3>4, NextFits
      <3>6. After(s, o) = o + u
        <4>1. Max({1, u}) = u
          <5> HIDE DEF u
          <5> QED BY <1>1, <3>4, Larger
        <4> QED BY <4>1 DEF After
      <3>7. o + u \in (o + 1)..n
        <4> HIDE DEF u, n
        <4> QED BY <1>1, <3>4
      <3>8. Len(ClustersFrom(s)[o + u]) = CountFrom(s)[o + u]
        BY <1>2, <3>3, <3>7
      <3> DEFINE c == Decode(Rest(s, o)).cp
                 g == ClustersFrom(s)[o + u]
      <3>9. ClustersFrom(s)[o] = <<c>> \o g /\ CountFrom(s)[o] = 1 + CountFrom(s)[o + u]
        BY <3>0, <3>5, <3>6, ClustersSteps, CountSteps
      <3>10. g \in Seq(Symbols) /\ c \in Symbols
        <4>1. o + u \in 0..n
          BY <3>7
        <4>2. g \in Seq(Symbols)
          BY <4>1, ClustersTypedFrom
        <4> QED BY <4>2, RestTyped, DecodeTyped
      <3> HIDE DEF u, c, g
      <3>11. Len(<<c>> \o g) = 1 + Len(g)
        BY <3>10
      <3> QED BY <3>8, <3>9, <3>11 DEF g
    <2> QED BY <2>1, <2>2
  <1>3. 0..n \subseteq T
    <2> HIDE DEF T, n
    <2> QED BY <1>1, <1>2, Downward
  <1>4. 0 \in T
    BY <1>1, <1>3
  <1> QED BY <1>4, ClustersIs, CountIs, ValidIs

------------------------------------------------------------------------------

(* The bytes that go on with a character are 80 to BF.                     *)
LEMMA Trails == ASSUME NEW b \in Byte PROVE IsContinuation(b) <=> b \in \h80..\hBF
  BY DEF Byte, IsContinuation

(* The length that the first byte of a sequence announces.                 *)
LEMMA Leads ==
  ASSUME NEW b \in Byte
  PROVE  /\ b < \h80 => SeqLen(b) = 1
         /\ b \in \h80..\hBF => SeqLen(b) = 0
         /\ b \in \hC0..\hDF => SeqLen(b) = 2
         /\ b \in \hE0..\hEF => SeqLen(b) = 3
         /\ b \in \hF0..\hF7 => SeqLen(b) = 4
         /\ b \in \hF8..\hFF => SeqLen(b) = 0
  <1>1. b \in 0..255
    BY DEF Byte
  <1>2. CASE b < \h80
    BY <1>1, <1>2 DEF SeqLen
  <1>3. CASE b \in \h80..\hBF
    <2>1. b \div 32 \in {4, 5} /\ b \div 16 \in 8..11 /\ b \div 8 \in 16..23
      BY <1>1, <1>3
    <2> QED BY <1>3, <2>1 DEF SeqLen
  <1>4. CASE b \in \hC0..\hDF
    BY <1>1, <1>4 DEF SeqLen
  <1>5. CASE b \in \hE0..\hEF
    BY <1>1, <1>5 DEF SeqLen
  <1>6. CASE b \in \hF0..\hF7
    BY <1>1, <1>6 DEF SeqLen
  <1>7. CASE b \in \hF8..\hFF
    BY <1>1, <1>7 DEF SeqLen
  <1> QED BY <1>1, <1>2, <1>3, <1>4, <1>5, <1>6, <1>7

(* A character of n bytes, of which a is the first.                        *)
Trail == \h80..\hBF
Shape(n, a, b, c, d) ==
  \/ n = 1 /\ a <= \h7F
  \/ n = 2 /\ a \in \hC2..\hDF /\ b \in Trail
  \/ /\ n = 3 /\ c \in Trail
     /\ \/ a = \hE0 /\ b \in \hA0..\hBF
        \/ a \in \hE1..\hEF \ {\hED} /\ b \in Trail
        \/ a = \hED /\ b \in \h80..\h9F
  \/ /\ n = 4 /\ c \in Trail /\ d \in Trail
     /\ \/ a = \hF0 /\ b \in \h90..\hBF
        \/ a \in \hF1..\hF3 /\ b \in Trail
        \/ a = \hF4 /\ b \in \h80..\h8F

(* IsChar in these words,                                                  *)
LEMMA CharShape == \A s : IsChar(s) <=> Shape(Len(s), s[1], s[2], s[3], s[4])
  BY DEF IsChar, Shape, Trail

(* and what it says of the bytes by themselves.                            *)
LEMMA Shapes ==
  ASSUME NEW n, NEW a, NEW b, NEW c, NEW d, Shape(n, a, b, c, d), n \in 1..4 => a \in Byte
  PROVE  /\ a \in Byte
         /\ \/ n = 1 /\ a < \h80
            \/ n = 2 /\ a \in \hC0..\hDF /\ b \in Trail
            \/ n = 3 /\ a \in \hE0..\hEF /\ b \in Trail /\ c \in Trail
            \/ n = 4 /\ a \in \hF0..\hF7 /\ b \in Trail /\ c \in Trail /\ d \in Trail
  BY SMT DEF Shape, Trail, Byte

(* The bytes of one character say where it starts and where it ends.       *)
LEMMA CharBytes ==
  ASSUME NEW s \in Seq(Byte), IsChar(s)
  PROVE  /\ Len(s) \in 1..4 /\ SeqLen(s[1]) = Len(s) /\ ~ IsContinuation(s[1])
         /\ \A i \in 2..Len(s) : IsContinuation(s[i])
  <1> DEFINE a == s[1]
             b == s[2]
             c == s[3]
             d == s[4]
             n == Len(s)
  <1>1. Shape(n, a, b, c, d)
    BY CharShape
  <1>2. n \in 1..4 => a \in Byte
    OBVIOUS
  <1> HIDE DEF a, b, c, d, n
  <1>3. /\ a \in Byte
        /\ \/ n = 1 /\ a < \h80
           \/ n = 2 /\ a \in \hC0..\hDF /\ b \in Trail
           \/ n = 3 /\ a \in \hE0..\hEF /\ b \in Trail /\ c \in Trail
           \/ n = 4 /\ a \in \hF0..\hF7 /\ b \in Trail /\ c \in Trail /\ d \in Trail
    BY <1>1, <1>2, Shapes
  <1>4. SeqLen(a) = n
    BY <1>3, Leads
  <1>5. ~ IsContinuation(a)
    <2>1. a \notin Trail
      BY <1>3 DEF Byte, Trail
    <2> QED BY <1>3, <2>1, Trails DEF Trail
  <1>6. n \in 1..4 /\ \A i \in 2..n : s[i] \in Trail
    <2>1. \A i \in 2..4 : s[i] = IF i = 2 THEN b ELSE IF i = 3 THEN c ELSE d
      BY DEF b, c, d
    <2>2. n \in 1..4
      BY <1>3
    <2>3. \A i \in 2..n : (IF i = 2 THEN b ELSE IF i = 3 THEN c ELSE d) \in Trail
      BY <1>3
    <2>4. \A i \in 2..n : i \in 2..4
      BY <2>2
    <2> QED BY <2>1, <2>2, <2>3, <2>4, Zenon
  <1>7. \A x \in Trail : IsContinuation(x)
    <2>1. \A x \in Trail : x \in Byte
      BY DEF Byte, Trail
    <2> QED BY <2>1, Trails DEF Trail
  <1>8. /\ n \in 1..4 /\ SeqLen(a) = n /\ ~ IsContinuation(a)
        /\ \A i \in 2..n : IsContinuation(s[i])
    BY <1>4, <1>5, <1>6, <1>7, Zenon
  <1> QED BY <1>8 DEF a, n

(* The least code point of each length.                                    *)
LEMMA MinCps == MinCp[1] = 0 /\ MinCp[2] = \h80 /\ MinCp[3] = \h800 /\ MinCp[4] = 16 * \h1000
  BY SMT DEF MinCp

(* The scalar values of Unicode: no surrogates, and an end.                *)
LEMMA Scalars ==
  ASSUME NEW cp \in Int
  PROVE  IsScalar(cp) <=> /\ 0 <= cp /\ cp <= 272 * \h1000 - 1
                          /\ cp < \hD800 \/ cp > \hDFFF
  <1>1. LastCp = 272 * \h1000 - 1 /\ LastCp \in Int
    BY SMT DEF LastCp
  <1>2. IsScalar(cp) <=> cp \in 0..LastCp /\ cp \notin \hD800..\hDFFF
    BY SMT DEF IsScalar
  <1>3. IsScalar(cp) <=> 0 <= cp /\ cp <= LastCp /\ (cp < \hD800 \/ cp > \hDFFF)
    <2>1. LastCp \in Int
      BY <1>1
    <2> QED BY <1>2, <2>1, SMT
  <1> QED BY <1>1, <1>3, SMT

(* utf8_encode, one length after the other.                                *)
LEMMA EncodeIs ==
  ASSUME NEW cp \in Int, IsScalar(cp)
  PROVE  /\ cp < \h80 => Encode(cp) = <<cp>>
         /\ cp >= \h80 /\ cp < \h800 =>
              Encode(cp) = <<\hC0 + (cp \div 64), \h80 + ((cp \div 1) % 64)>>
         /\ cp >= \h800 /\ cp < 16 * \h1000 =>
              Encode(cp) = <<\hE0 + (cp \div \h1000), \h80 + ((cp \div 64) % 64),
                             \h80 + ((cp \div 1) % 64)>>
         /\ cp >= 16 * \h1000 =>
              Encode(cp) = <<\hF0 + (cp \div (64 * \h1000)), \h80 + ((cp \div \h1000) % 64),
                             \h80 + ((cp \div 64) % 64), \h80 + ((cp \div 1) % 64)>>
  <1> DEFINE p == \h80 + ((cp \div 1) % 64)
             q == \h80 + ((cp \div 64) % 64)
             r == \h80 + ((cp \div \h1000) % 64)
             x == \hC0 + (cp \div 64)
             y == \hE0 + (cp \div \h1000)
             z == \hF0 + (cp \div (64 * \h1000))
  <1>1. Encode(cp) = IF ~ IsScalar(cp) THEN <<>>
                     ELSE IF cp < MinCp[2] THEN <<cp>>
                     ELSE IF cp < MinCp[3] THEN <<x, p>>
                     ELSE IF cp < MinCp[4] THEN <<y, q, p>>
                     ELSE <<z, r, q, p>>
    BY DEF Encode
  <1> HIDE DEF p, q, r, x, y, z
  <1>2. /\ cp < \h80 => Encode(cp) = <<cp>>
        /\ cp >= \h80 /\ cp < \h800 => Encode(cp) = <<x, p>>
        /\ cp >= \h800 /\ cp < 16 * \h1000 => Encode(cp) = <<y, q, p>>
        /\ cp >= 16 * \h1000 => Encode(cp) = <<z, r, q, p>>
    BY <1>1, MinCps, SMT
  <1> QED BY <1>2 DEF p, q, r, x, y, z

(* The bits of the bytes of a character, which make its code point.        *)
Lead2 == \hC0..\hDF
Lead3 == \hE0..\hEF
Lead4 == \hF0..\hF7
Bits2(a, b) == (a % 32) * 64 + (b % 64)
Bits3(a, b, c) == ((a % 16) * 64 + (b % 64)) * 64 + (c % 64)
Bits4(a, b, c, d) == (((a % 8) * 64 + (b % 64)) * 64 + (c % 64)) * 64 + (d % 64)

(* What is taken is a character, and is encoded as it was.                 *)
Right(cp, n, t) ==
  /\ cp \in Int /\ (cp >= MinCp[n] /\ IsScalar(cp) <=> IsChar(t))
  /\ cp >= MinCp[n] /\ IsScalar(cp) => Encode(cp) = t

(* It is so for two bytes,                                                 *)
LEMMA RightTwo ==
  ASSUME NEW a \in Lead2, NEW b \in Trail
  PROVE  Right(Bits2(a, b), 2, <<a, b>>)
  <1> DEFINE cp == Bits2(a, b)
             t == <<a, b>>
             x == t[3]
             y == t[4]
  <1>1. a \in \hC0..\hDF /\ b \in \h80..\hBF
    BY DEF Lead2, Trail
  <1>2. cp = (a % 32) * 64 + (b % 64)
    BY DEF Bits2
  <1>3. Len(t) = 2 /\ t[1] = a /\ t[2] = b
    OBVIOUS
  <1> HIDE DEF cp, t
  <1>4. IsChar(t) <=> Shape(2, a, b, x, y)
    BY <1>3, CharShape
  <1> HIDE DEF x, y
  <1>5. Shape(2, a, b, x, y) <=> a \in \hC2..\hDF
    BY <1>1, SMT DEF Shape, Trail
  <1>6. a % 32 = a - \hC0 /\ b % 64 = b - \h80
    BY <1>1
  <1>7. cp = (a - \hC0) * 64 + (b - \h80)
    BY <1>2, <1>6
  <1>8. cp \in Int /\ cp >= 0 /\ cp < \h800 /\ (cp >= \h80 <=> a \in \hC2..\hDF)
    BY <1>1, <1>7, SMT
  <1>9. \hC0 + (cp \div 64) = a /\ \h80 + ((cp \div 1) % 64) = b
    BY <1>1, <1>7, SMT
  <1>10. IsScalar(cp)
    BY <1>8, Scalars, SMT
  <1>11. cp >= \h80 => Encode(cp) = <<a, b>>
    BY <1>8, <1>9, <1>10, EncodeIs
  <1>12. Right(cp, 2, t)
    <2>1. cp >= MinCp[2] <=> cp >= \h80
      BY MinCps
    <2>2. t = <<a, b>>
      BY DEF t
    <2> QED BY <1>4, <1>5, <1>8, <1>10, <1>11, <2>1, <2>2 DEF Right
  <1> QED BY <1>12 DEF cp, t

(* for three,                                                              *)
LEMMA RightThree ==
  ASSUME NEW a \in Lead3, NEW b \in Trail, NEW c \in Trail
  PROVE  Right(Bits3(a, b, c), 3, <<a, b, c>>)
  <1> DEFINE cp == Bits3(a, b, c)
             t == <<a, b, c>>
             x == t[4]
             Good == \/ a = \hE0 /\ b \in \hA0..\hBF
                     \/ a \in \hE1..\hEF \ {\hED}
                     \/ a = \hED /\ b \in \h80..\h9F
  <1>1. a \in \hE0..\hEF /\ b \in \h80..\hBF /\ c \in \h80..\hBF
    BY DEF Lead3, Trail
  <1>2. cp = ((a % 16) * 64 + (b % 64)) * 64 + (c % 64)
    BY DEF Bits3
  <1>3. Len(t) = 3 /\ t[1] = a /\ t[2] = b /\ t[3] = c
    OBVIOUS
  <1> HIDE DEF cp, t
  <1>4. IsChar(t) <=> Shape(3, a, b, c, x)
    BY <1>3, CharShape
  <1> HIDE DEF x
  <1>5. Shape(3, a, b, c, x) <=> Good
    BY <1>1, SMT DEF Shape, Trail
  <1>6. a % 16 = a - \hE0 /\ b % 64 = b - \h80 /\ c % 64 = c - \h80
    BY <1>1
  <1>7. cp = (a - \hE0) * 4096 + (b - \h80) * 64 + (c - \h80)
    <2>1. ((a - \hE0) * 64 + (b - \h80)) * 64 + (c - \h80)
            = (a - \hE0) * 4096 + (b - \h80) * 64 + (c - \h80)
      BY <1>1, SMT
    <2> QED BY <1>2, <1>6, <2>1
  <1>8. cp \in Int
    BY <1>1, <1>7, SMT
  <1>9. cp >= 0 /\ cp <= \hFFFF
    BY <1>1, <1>7, <1>8, SMT
  <1>10. cp \div \h1000 = a - \hE0
    BY <1>1, <1>7, SMT
  <1>11. cp \div 64 = (a - \hE0) * 64 + (b - \h80)
    BY <1>1, <1>7, SMT
  <1>12. (cp \div 64) % 64 = b - \h80
    BY <1>1, <1>11, SMT
  <1>13. (cp \div 1) % 64 = c - \h80
    BY <1>1, <1>7, SMT
  <1>14. cp >= \hD800 /\ cp <= \hDFFF <=> a = \hED /\ b \in \hA0..\hBF
    BY <1>1, <1>7, SMT
  <1>15. cp >= \h800 <=> ~ (a = \hE0 /\ b \in \h80..\h9F)
    BY <1>1, <1>7, SMT
  <1>16. IsScalar(cp) <=> ~ (cp >= \hD800 /\ cp <= \hDFFF)
    BY <1>8, <1>9, Scalars, SMT
  <1>17. cp >= \h800 /\ IsScalar(cp) <=> Good
    BY <1>1, <1>14, <1>15, <1>16, SMT
  <1>18. cp >= \h800 /\ IsScalar(cp) => Encode(cp) = <<a, b, c>>
    <2>1. \hE0 + (cp \div \h1000) = a /\ \h80 + ((cp \div 64) % 64) = b
          /\ \h80 + ((cp \div 1) % 64) = c
      BY <1>1, <1>10, <1>12, <1>13, SMT
    <2>2. cp < 16 * \h1000
      BY <1>8, <1>9, SMT
    <2>3. cp >= \h800 /\ IsScalar(cp) =>
            Encode(cp) = <<\hE0 + (cp \div \h1000), \h80 + ((cp \div 64) % 64),
                           \h80 + ((cp \div 1) % 64)>>
      BY <1>8, <2>2, EncodeIs
    <2> QED BY <2>1, <2>3
  <1>19. Right(cp, 3, t)
    <2>1. cp >= MinCp[3] <=> cp >= \h800
      BY MinCps
    <2>2. t = <<a, b, c>>
      BY DEF t
    <2> HIDE DEF Good
    <2> QED BY <1>4, <1>5, <1>8, <1>17, <1>18, <2>1, <2>2 DEF Right
  <1> QED BY <1>19 DEF cp, t

(* and for four.                                                           *)
LEMMA RightFour ==
  ASSUME NEW a \in Lead4, NEW b \in Trail, NEW c \in Trail, NEW d \in Trail
  PROVE  Right(Bits4(a, b, c, d), 4, <<a, b, c, d>>)
  <1> DEFINE cp == Bits4(a, b, c, d)
             t == <<a, b, c, d>>
             Good == \/ a = \hF0 /\ b \in \h90..\hBF
                     \/ a \in \hF1..\hF3
                     \/ a = \hF4 /\ b \in \h80..\h8F
             p == a % 8
             q == b % 64
             r == c % 64
             u == d % 64
  <1>1. a \in \hF0..\hF7 /\ b \in \h80..\hBF /\ c \in \h80..\hBF /\ d \in \h80..\hBF
    BY DEF Lead4, Trail
  <1>2. cp = ((p * 64 + q) * 64 + r) * 64 + u
    BY DEF Bits4
  <1>3. Len(t) = 4 /\ t[1] = a /\ t[2] = b /\ t[3] = c /\ t[4] = d
    OBVIOUS
  <1> HIDE DEF cp, t
  <1>4. IsChar(t) <=> Shape(4, a, b, c, d)
    BY <1>3, CharShape
  <1>5. Shape(4, a, b, c, d) <=> Good
    BY <1>1, SMT DEF Shape, Trail
  <1>6. p = a - \hF0 /\ q = b - \h80 /\ r = c - \h80 /\ u = d - \h80
    BY <1>1
  <1> HIDE DEF p, q, r, u
  <1>7. cp = (((a - \hF0) * 64 + (b - \h80)) * 64 + (c - \h80)) * 64 + (d - \h80)
    BY <1>1, <1>2, <1>6, SMT
  <1>8. cp \in Int /\ cp >= 0
    BY <1>1, <1>7, SMT
  <1>9. cp \div (64 * \h1000) = a - \hF0
    BY <1>1, <1>7, SMT
  <1>10. cp \div \h1000 = (a - \hF0) * 64 + (b - \h80)
    BY <1>1, <1>7, SMT
  <1>11. cp \div 64 = ((a - \hF0) * 64 + (b - \h80)) * 64 + (c - \h80)
    BY <1>1, <1>7, SMT
  <1>12. (cp \div \h1000) % 64 = b - \h80
    BY <1>1, <1>10, SMT
  <1>13. (cp \div 64) % 64 = c - \h80
    BY <1>1, <1>11, SMT
  <1>14. (cp \div 1) % 64 = d - \h80
    BY <1>1, <1>7, SMT
  <1>15. cp >= 16 * \h1000 <=> ~ (a = \hF0 /\ b \in \h80..\h8F)
    BY <1>1, <1>7, SMT
  <1>16. cp <= 272 * \h1000 - 1 <=> a \in \hF0..\hF3 \/ (a = \hF4 /\ b \in \h80..\h8F)
    BY <1>1, <1>7, SMT
  <1>17. cp >= 16 * \h1000 => (IsScalar(cp) <=> cp <= 272 * \h1000 - 1)
    BY <1>8, Scalars, SMT
  <1>18. cp >= 16 * \h1000 /\ IsScalar(cp) <=> Good
    BY <1>1, <1>15, <1>16, <1>17, SMT
  <1>19. cp >= 16 * \h1000 /\ IsScalar(cp) => Encode(cp) = <<a, b, c, d>>
    <2>1. \hF0 + (cp \div (64 * \h1000)) = a /\ \h80 + ((cp \div \h1000) % 64) = b
          /\ \h80 + ((cp \div 64) % 64) = c /\ \h80 + ((cp \div 1) % 64) = d
      BY <1>1, <1>9, <1>12, <1>13, <1>14, SMT
    <2>2. cp >= 16 * \h1000 /\ IsScalar(cp) =>
            Encode(cp) = <<\hF0 + (cp \div (64 * \h1000)), \h80 + ((cp \div \h1000) % 64),
                           \h80 + ((cp \div 64) % 64), \h80 + ((cp \div 1) % 64)>>
      BY <1>8, EncodeIs
    <2> QED BY <2>1, <2>2
  <1>20. Right(cp, 4, t)
    <2>1. cp >= MinCp[4] <=> cp >= 16 * \h1000
      BY MinCps
    <2>2. t = <<a, b, c, d>>
      BY DEF t
    <2> HIDE DEF Good
    <2> QED BY <1>4, <1>5, <1>8, <1>18, <1>19, <2>1, <2>2 DEF Right
  <1> QED BY <1>20 DEF cp, t

(* A sequence of bytes of the right shape spells a code point that is      *)
(* encoded so, and one that is taken if the bytes are a character.         *)
LEMMA SpeltIs ==
  ASSUME NEW s \in Seq(Byte), NEW n \in 1..4, n <= Len(s), n = SeqLen(s[1]),
         \A i \in 2..n : s[i] \in Trail
  PROVE  Right(Spelt(s, n), n, Cut(s, n))
  <1> DEFINE a == s[1]
             b == s[2]
             c == s[3]
             d == s[4]
             cp == Spelt(s, n)
             t == Cut(s, n)
  <1>1. a \in Byte /\ Len(s) \in Nat
    OBVIOUS
  <1>2. /\ n = 1 => a \in 0..\h7F
        /\ n = 2 => a \in Lead2
        /\ n = 3 => a \in Lead3
        /\ n = 4 => a \in Lead4
    <2> DEFINE l == SeqLen(a)
    <2>1. n = l
      BY DEF a
    <2>2. a \in 0..255
      BY <1>1 DEF Byte
    <2>3. /\ a < \h80 => l = 1
          /\ a \in \h80..\hBF => l = 0
          /\ a \in \hC0..\hDF => l = 2
          /\ a \in \hE0..\hEF => l = 3
          /\ a \in \hF0..\hF7 => l = 4
          /\ a \in \hF8..\hFF => l = 0
      BY <1>1, Leads, Zenon
    <2> HIDE DEF l, a
    <2> QED BY <2>1, <2>2, <2>3 DEF Lead2, Lead3, Lead4
  <1>3. t \in Seq(Byte) /\ Len(t) = n /\ \A i \in 1..n : t[i] = s[i]
    BY <1>1, CutTyped
  <1>4. CASE n = 1
    <2>1. a \in 0..\h7F
      BY <1>2, <1>4
    <2>2. cp = a % \h80
      BY <1>4 DEF Spelt, LeadBits
    <2>3. cp = a
      <3> HIDE DEF cp, a
      <3> QED BY <2>1, <2>2
    <2>4. t = <<a>>
      <3> HIDE DEF t
      <3> QED BY <1>3, <1>4
    <2>5. t[1] = a /\ Len(t) = 1
      BY <1>3, <1>4
    <2> HIDE DEF a, cp, t
    <2>6. cp \in Int /\ IsScalar(cp)
      BY <2>1, <2>3, Scalars, SMT
    <2>7. cp >= MinCp[1] /\ cp < \h80
      BY <2>1, <2>3, MinCps
    <2>8. Encode(cp) = t
      BY <2>3, <2>4, <2>6, <2>7, EncodeIs
    <2>9. IsChar(t)
      BY <2>1, <2>5, CharShape DEF Shape
    <2>10. Right(cp, 1, t)
      BY <2>6, <2>7, <2>8, <2>9 DEF Right
    <2> QED BY <1>4, <2>10 DEF cp, t
  <1>5. CASE n = 2
    <2>1. a \in Lead2 /\ b \in Trail
      BY <1>2, <1>5
    <2>2. cp = Bits2(a, b)
      BY <1>5 DEF Spelt, LeadBits, Bits2
    <2>3. t = <<a, b>>
      <3> HIDE DEF t
      <3> QED BY <1>3, <1>5
    <2> HIDE DEF a, b, cp, t
    <2>4. Right(cp, 2, t)
      BY <2>1, <2>2, <2>3, RightTwo
    <2> QED BY <1>5, <2>4 DEF cp, t
  <1>6. CASE n = 3
    <2>1. a \in Lead3 /\ b \in Trail /\ c \in Trail
      BY <1>2, <1>6
    <2>2. cp = Bits3(a, b, c)
      BY <1>6 DEF Spelt, LeadBits, Bits3
    <2>3. t = <<a, b, c>>
      <3> HIDE DEF t
      <3> QED BY <1>3, <1>6
    <2> HIDE DEF a, b, c, cp, t
    <2>4. Right(cp, 3, t)
      BY <2>1, <2>2, <2>3, RightThree
    <2> QED BY <1>6, <2>4 DEF cp, t
  <1>7. CASE n = 4
    <2>1. a \in Lead4 /\ b \in Trail /\ c \in Trail /\ d \in Trail
      BY <1>2, <1>7
    <2>2. cp = Bits4(a, b, c, d)
      BY <1>7 DEF Spelt, LeadBits, Bits4
    <2>3. t = <<a, b, c, d>>
      <3> HIDE DEF t
      <3> QED BY <1>3, <1>7
    <2> HIDE DEF a, b, c, d, cp, t
    <2>4. Right(cp, 4, t)
      BY <2>1, <2>2, <2>3, RightFour
    <2> QED BY <1>7, <2>4 DEF cp, t
  <1> QED BY <1>4, <1>5, <1>6, <1>7

(* utf8_decode takes a character where one starts and nothing elsewhere,   *)
(* and utf8_encode makes the same bytes of it again.                       *)
LEMMA DecodedIsChar ==
  ASSUME NEW s \in Seq(Byte), Decode(s).used # 0
  PROVE  LET n == Decode(s).used
         IN  /\ n \in 1..Len(s) /\ IsChar(Cut(s, n))
             /\ Encode(Decode(s).cp) = Cut(s, n)
  <1> DEFINE n == IF s = <<>> THEN 0 ELSE SeqLen(s[1])
             cp == Spelt(s, n)
             good == /\ n \in 1..Len(s)
                     /\ \A i \in 2..n : IsContinuation(s[i])
                     /\ cp >= MinCp[n]
                     /\ IsScalar(cp)
  <1>1. Decode(s) = IF good THEN [used |-> n, cp |-> cp] ELSE [used |-> 0, cp |-> -1]
    BY DEF Decode
  <1>2. Len(s) \in Nat /\ \A i \in 1..Len(s) : s[i] \in Byte
    OBVIOUS
  <1>3. n \in 1..Len(s) => n \in 1..4 /\ n = SeqLen(s[1])
    BY DEF SeqLen
  <1>4. good /\ Decode(s).used = n /\ Decode(s).cp = cp
    <2> HIDE DEF n, cp, good
    <2> QED BY <1>1
  <1>5. \A i \in 2..n : s[i] \in Trail
    <2>1. n \in 1..Len(s) /\ \A i \in 2..n : IsContinuation(s[i])
      BY <1>4
    <2> HIDE DEF n
    <2>2. \A i \in 2..n : i \in 1..Len(s)
      BY <1>2, <2>1
    <2> QED BY <1>2, <2>1, <2>2, Trails DEF Trail
  <1>6. /\ n \in 1..Len(s) /\ n \in 1..4 /\ n = SeqLen(s[1]) /\ n <= Len(s)
        /\ cp >= MinCp[n] /\ IsScalar(cp)
    <2>1. n \in 1..Len(s) /\ cp >= MinCp[n] /\ IsScalar(cp)
      BY <1>4
    <2> HIDE DEF n, cp
    <2> QED BY <1>2, <1>3, <2>1
  <1> HIDE DEF n, good
  <1>7. Right(cp, n, Cut(s, n))
    BY <1>5, <1>6, SpeltIs
  <1> HIDE DEF cp
  <1> QED BY <1>4, <1>6, <1>7 DEF Right

(* And it takes every character that starts a text.                        *)
LEMMA CharIsDecoded ==
  ASSUME NEW s \in Seq(Byte), NEW m \in 1..Len(s), IsChar(Cut(s, m))
  PROVE  Decode(s).used = m
  <1> DEFINE n == IF s = <<>> THEN 0 ELSE SeqLen(s[1])
             cp == Spelt(s, n)
             t == Cut(s, m)
             good == /\ n \in 1..Len(s)
                     /\ \A i \in 2..n : IsContinuation(s[i])
                     /\ cp >= MinCp[n]
                     /\ IsScalar(cp)
  <1>1. Decode(s) = IF good THEN [used |-> n, cp |-> cp] ELSE [used |-> 0, cp |-> -1]
    BY DEF Decode
  <1>2. Len(s) \in Nat /\ m \in Nat /\ m <= Len(s) /\ s # <<>>
    OBVIOUS
  <1>3. t \in Seq(Byte) /\ Len(t) = m /\ \A i \in 1..m : t[i] = s[i]
    BY <1>2, CutTyped
  <1>4. /\ m \in 1..4 /\ SeqLen(t[1]) = m
        /\ \A i \in 2..m : IsContinuation(t[i])
    <2> HIDE DEF t
    <2>1. IsChar(t)
      BY DEF t
    <2> QED BY <1>3, <2>1, CharBytes
  <1>5. n = m
    <2>1. t[1] = s[1]
      BY <1>3
    <2> QED BY <1>2, <1>4, <2>1
  <1> HIDE DEF n, t
  <1>6. \A i \in 2..m : s[i] \in Trail /\ IsContinuation(s[i])
    <2>1. \A i \in 2..m : i \in 1..Len(s) /\ t[i] = s[i]
      BY <1>2, <1>3
    <2>2. \A i \in 1..Len(s) : s[i] \in Byte
      OBVIOUS
    <2> QED BY <1>4, <2>1, <2>2, Trails DEF Trail
  <1>7. Right(Spelt(s, m), m, t)
    <2>1. m = SeqLen(s[1])
      BY <1>3, <1>4
    <2> QED BY <1>2, <1>4, <1>6, <2>1, SpeltIs DEF t
  <1>8. cp >= MinCp[n] /\ IsScalar(cp)
    <2>1. IsChar(t)
      BY DEF t
    <2> QED BY <1>5, <1>7, <2>1 DEF Right
  <1>9. good
    BY <1>2, <1>5, <1>6, <1>8
  <1> HIDE DEF good, cp
  <1> QED BY <1>1, <1>5, <1>9

------------------------------------------------------------------------------

(* A set of numbers below a bound that has any has a largest.              *)
LEMMA MaxOf ==
  ASSUME NEW n \in Nat, NEW T \in SUBSET (0..n), T # {}
  PROVE  Max(T) \in T /\ \A y \in T : Max(T) >= y
  <1> DEFINE M == {n - y : y \in T}
  <1>1. M \in SUBSET Nat /\ M # {}
    <2>1. PICK y \in T : TRUE
      OBVIOUS
    <2>2. n - y \in M
      OBVIOUS
    <2>3. M \in SUBSET Nat
      OBVIOUS
    <2> QED BY <2>2, <2>3
  <1>2. PICK x \in M : \A y \in M : x <= y
    <2> HIDE DEF M
    <2> QED BY <1>1, Least
  <1>3. PICK z \in T : x = n - z
    BY <1>2
  <1>4. \A y \in T : z >= y
    <2>1. \A y \in T : x <= n - y
      BY <1>2
    <2> HIDE DEF M
    <2> QED BY <1>3, <2>1
  <1> DEFINE P(v) == v \in T /\ \A y \in T : v >= y
  <1>5. Max(T) = CHOOSE v \in T : \A y \in T : v >= y
    BY DEF Max
  <1>6. (\E v \in T : \A y \in T : v >= y)
    BY <1>4
  <1> HIDE DEF M
  <1> QED BY <1>5, <1>6, Zenon

(* A part of a text, found from either side.                               *)
LEMMA PartIs ==
  ASSUME NEW S, NEW s \in Seq(S), NEW o \in 0..Len(s), NEW n \in 0..(Len(s) - o)
  PROVE  LET t == SubSeq(s, o + 1, o + n)
         IN  /\ Cut(Rest(s, o), n) = t /\ t \in Seq(S) /\ Len(t) = n
             /\ \A i \in 1..n : t[i] = s[o + i]
  <1> DEFINE t == SubSeq(s, o + 1, o + n)
             r == Rest(s, o)
             c == Cut(r, n)
  <1>1. Len(s) \in Nat /\ o \in Nat /\ n \in Nat
    OBVIOUS
  <1>2. t \in Seq(S) /\ Len(t) = n /\ \A i \in 1..n : t[i] = s[o + i]
    BY <1>1
  <1>3. r \in Seq(S) /\ Len(r) = Len(s) - o /\ \A i \in 1..(Len(s) - o) : r[i] = s[o + i]
    BY RestTyped
  <1> HIDE DEF t, r
  <1>4. c \in Seq(S) /\ Len(c) = n /\ \A i \in 1..n : c[i] = r[i]
    <2>1. n <= Len(r)
      BY <1>1, <1>3
    <2> QED BY <1>1, <1>3, <2>1, CutTyped
  <1> HIDE DEF c
  <1>5. \A i \in 1..n : c[i] = t[i]
    <2>1. \A i \in 1..n : i \in 1..(Len(s) - o)
      BY <1>1
    <2> QED BY <1>2, <1>3, <1>4, <2>1
  <1>6. c = t
    BY <1>1, <1>2, <1>4, <1>5, SeqEqual
  <1> QED BY <1>2, <1>6 DEF t, c, r

(* A character of n bytes starts at offset o of s.                         *)
CharAt(s, o, n) == n \in 1..(Len(s) - o) /\ IsChar(SubSeq(s, o + 1, o + n))

(* Its first byte announces its length, and the others go on with it.      *)
LEMMA CharAtBytes ==
  ASSUME NEW s \in Seq(Byte), NEW o \in 0..Len(s), NEW n, CharAt(s, o, n)
  PROVE  /\ n \in 1..4 /\ n \in 1..(Len(s) - o) /\ SeqLen(s[o + 1]) = n
         /\ ~ IsContinuation(s[o + 1])
         /\ \A i \in 2..n : IsContinuation(s[o + i])
  <1> DEFINE t == SubSeq(s, o + 1, o + n)
  <1>1. n \in 1..(Len(s) - o) /\ IsChar(t) /\ n \in 0..(Len(s) - o) /\ Len(s) \in Nat
    BY DEF CharAt
  <1>2. t \in Seq(Byte) /\ Len(t) = n /\ \A i \in 1..n : t[i] = s[o + i]
    BY <1>1, PartIs
  <1> HIDE DEF t
  <1>3. /\ n \in 1..4 /\ SeqLen(t[1]) = n /\ ~ IsContinuation(t[1])
        /\ \A i \in 2..n : IsContinuation(t[i])
    BY <1>1, <1>2, CharBytes
  <1>4. t[1] = s[o + 1] /\ \A i \in 2..n : t[i] = s[o + i]
    BY <1>2, <1>3
  <1> QED BY <1>1, <1>3, <1>4

(* utf8_decode finds it, and nothing else.                                 *)
LEMMA DecodeAt ==
  ASSUME NEW s \in Seq(Byte), NEW o \in 0..Len(s)
  PROVE  LET d == Decode(Rest(s, o))
         IN  /\ d.used # 0 => /\ CharAt(s, o, d.used)
                              /\ Encode(d.cp) = SubSeq(s, o + 1, o + d.used)
             /\ \A n : CharAt(s, o, n) => d.used = n
  <1> DEFINE r == Rest(s, o)
             d == Decode(r)
  <1>1. r \in Seq(Byte) /\ Len(r) = Len(s) - o /\ Len(s) \in Nat
    BY RestTyped
  <1>2. ASSUME d.used # 0
        PROVE  CharAt(s, o, d.used) /\ Encode(d.cp) = SubSeq(s, o + 1, o + d.used)
    <2> DEFINE n == d.used
    <2> HIDE DEF r
    <2>1. n \in 1..Len(r) /\ IsChar(Cut(r, n)) /\ Encode(d.cp) = Cut(r, n)
      BY <1>1, <1>2, DecodedIsChar
    <2> HIDE DEF d, n
    <2>2. n \in 1..(Len(s) - o) /\ n \in 0..(Len(s) - o)
      BY <1>1, <2>1
    <2>3. Cut(r, n) = SubSeq(s, o + 1, o + n)
      BY <2>2, PartIs DEF r
    <2>4. CharAt(s, o, n) /\ Encode(d.cp) = SubSeq(s, o + 1, o + n)
      BY <2>1, <2>2, <2>3 DEF CharAt
    <2> QED BY <2>4 DEF n
  <1>3. ASSUME NEW n, CharAt(s, o, n)
        PROVE  d.used = n
    <2>1. n \in 1..(Len(s) - o) /\ n \in 0..(Len(s) - o) /\ IsChar(SubSeq(s, o + 1, o + n))
      BY <1>1, <1>3 DEF CharAt
    <2>2. IsChar(Cut(r, n))
      BY <2>1, PartIs
    <2> HIDE DEF r
    <2>3. n \in 1..Len(r)
      BY <1>1, <2>1
    <2> QED BY <1>1, <2>2, <2>3, CharIsDecoded
  <1> QED BY <1>2, <1>3

(* The cursor steps over a character, and back.                            *)
LEMMA CharAtNext ==
  ASSUME NEW s \in Seq(Byte), NEW o \in 0..Len(s), NEW n, CharAt(s, o, n)
  PROVE  /\ o \in 0..(Len(s) - 1) /\ NextOffset(s, o) = o + n /\ After(s, o) = o + n
         /\ o + n \in (o + 1)..Len(s) /\ Decode(Rest(s, o)).used = n
  <1>1. /\ n \in 1..4 /\ n \in 1..(Len(s) - o) /\ SeqLen(s[o + 1]) = n /\ Len(s) \in Nat
    BY CharAtBytes
  <1>2. o \in 0..(Len(s) - 1) /\ o + n \in (o + 1)..Len(s)
    BY <1>1
  <1>3. NextOffset(s, o) = o + n
    BY <1>1, <1>2, NextFits
  <1>4. Decode(Rest(s, o)).used = n
    BY DecodeAt
  <1>5. Max({1, n}) = n
    BY <1>1, Larger
  <1> QED BY <1>2, <1>3, <1>4, <1>5 DEF After

(* The offsets where a step back may come to rest.                         *)
Starts(s, o) ==
  {start \in {0} \cup (o - 4)..(o - 1) :
     /\ start >= 0
     /\ \/ start = 0 \/ o - start = 4
        \/ ~ IsContinuation(s[start + 1])}

(* utf8_prev goes back, to the last of them.                               *)
LEMMA PrevFits ==
  ASSUME NEW s, NEW o \in Nat \ {0}
  PROVE  /\ PrevOffset(s, o) \in Starts(s, o) /\ PrevOffset(s, o) \in 0..(o - 1)
         /\ \A y \in Starts(s, o) : PrevOffset(s, o) >= y
  <1>1. PrevOffset(s, o) = Max(Starts(s, o))
    BY DEF PrevOffset, Starts
  <1>2. Starts(s, o) \in SUBSET (0..(o - 1)) /\ 0 \in Starts(s, o) /\ o - 1 \in Nat
    BY DEF Starts
  <1> QED BY <1>1, <1>2, MaxOf

(* A step back from behind a character is to where it starts.              *)
LEMMA CharAtPrev ==
  ASSUME NEW s \in Seq(Byte), NEW o \in 0..Len(s), NEW n, CharAt(s, o, n)
  PROVE  PrevOffset(s, o + n) = o
  <1>1. /\ n \in 1..4 /\ n \in 1..(Len(s) - o) /\ Len(s) \in Nat
        /\ ~ IsContinuation(s[o + 1])
        /\ \A i \in 2..n : IsContinuation(s[o + i])
    BY CharAtBytes
  <1> DEFINE e == o + n
             p == PrevOffset(s, e)
  <1>2. e \in Nat \ {0} /\ o \in Nat
    BY <1>1
  <1>3. p \in Starts(s, e) /\ p \in 0..(e - 1) /\ \A y \in Starts(s, e) : p >= y
    BY <1>2, PrevFits
  <1>4. o \in Starts(s, e)
    BY <1>1, <1>2 DEF Starts
  <1> HIDE DEF p
  <1>5. p >= o /\ p \in Nat /\ p < o + n
    BY <1>2, <1>3, <1>4
  <1>6. ASSUME p # o
        PROVE  FALSE
    <2>1. p + 1 - o \in 2..n /\ o + (p + 1 - o) = p + 1
      BY <1>1, <1>2, <1>5, <1>6
    <2>2. IsContinuation(s[p + 1])
      BY <1>1, <2>1
    <2>3. p # 0 /\ e - p # 4
      BY <1>1, <1>2, <1>5, <1>6
    <2> QED BY <1>3, <2>2, <2>3 DEF Starts
  <1> QED BY <1>6 DEF p

(* ... or from the earlier ones.                                           *)
FromEarlier(n, V, G) ==
  \A o \in 0..n, f \in [0..n -> V], g \in [0..n -> V] :
    (\A i \in 0..(o - 1) : f[i] = g[i]) => G[<<o, f>>] = G[<<o, g>>]

(* A function each of whose values is given by the earlier ones exists.    *)
LEMMA RecursionUp ==
  ASSUME NEW n \in Nat, NEW V, V # {}, NEW G, Typed(n, V, G), FromEarlier(n, V, G)
  PROVE  \E f : Given(n, V, G, f)
  <1> DEFINE Mirror(f) == [i \in 0..n |-> f[n - i]]
             H == [p \in (0..n) \X [0..n -> V] |-> G[<<n - p[1], Mirror(p[2])>>]]
  <1>1. \A f \in [0..n -> V] : /\ Mirror(f) \in [0..n -> V]
                               /\ \A i \in 0..n : Mirror(f)[i] = f[n - i]
    OBVIOUS
  <1>2. \A o \in 0..n : n - o \in 0..n /\ n - (n - o) = o
    OBVIOUS
  <1>3. \A o \in 0..n, f \in [0..n -> V] : H[<<o, f>>] = G[<<n - o, Mirror(f)>>]
    OBVIOUS
  <1> HIDE DEF H, Mirror
  <1>4. Typed(n, V, H)
    BY <1>1, <1>2, <1>3 DEF Typed
  <1>5. FromLater(n, V, H)
    <2>1. ASSUME NEW o \in 0..n, NEW f \in [0..n -> V], NEW g \in [0..n -> V],
                 \A i \in (o + 1)..n : f[i] = g[i]
          PROVE  H[<<o, f>>] = H[<<o, g>>]
      <3>1. \A i \in 0..(n - o - 1) : Mirror(f)[i] = Mirror(g)[i]
        <4>1. \A i \in 0..(n - o - 1) : i \in 0..n /\ n - i \in (o + 1)..n
          OBVIOUS
        <4> QED BY <1>1, <2>1, <4>1
      <3>2. G[<<n - o, Mirror(f)>>] = G[<<n - o, Mirror(g)>>]
        BY <1>1, <1>2, <3>1 DEF FromEarlier
      <3> QED BY <1>3, <3>2
    <2> QED BY <2>1 DEF FromLater
  <1>6. PICK f : Given(n, V, H, f)
    BY <1>4, <1>5, Recursion
  <1>7. f \in [0..n -> V] /\ \A o \in 0..n : f[o] = G[<<n - o, Mirror(f)>>]
    BY <1>3, <1>6 DEF Given
  <1>8. Given(n, V, G, Mirror(f))
    <2>1. ASSUME NEW o \in 0..n
          PROVE  Mirror(f)[o] = G[<<o, Mirror(f)>>]
      <3>1. Mirror(f)[o] = f[n - o] /\ n - o \in 0..n /\ n - (n - o) = o
        BY <1>1, <1>2, <1>7
      <3> QED BY <1>7, <3>1
    <2> QED BY <1>1, <1>7, <2>1 DEF Given
  <1> QED BY <1>8

(* What each offset has if all earlier ones do, all of them have.          *)
LEMMA Upward ==
  ASSUME NEW n \in Nat, NEW S, \A o \in 0..n : 0..(o - 1) \subseteq S => o \in S
  PROVE  0..n \subseteq S
  <1> DEFINE T == {k \in 0..n : k \notin S}
  <1>1. SUFFICES ASSUME T # {} PROVE FALSE
    OBVIOUS
  <1>2. PICK x \in T : \A y \in T : x <= y
    <2>1. T \in SUBSET Nat
      OBVIOUS
    <2> HIDE DEF T
    <2> QED BY <1>1, <2>1, Least
  <1>3. 0..(x - 1) \subseteq S
    BY <1>2
  <1> QED BY <1>3

(* The offsets at which a character starts, or the last one ends.          *)
OnSteps(s, on, o) ==
  o = 0 \/ \E n \in 1..4 : n <= o /\ on[o - n] /\ IsChar(SubSeq(s, o - n + 1, o))
On(s) == CHOOSE on : on = [o \in 0..Len(s) |-> OnSteps(s, on, o)]

(* Boundaries in these words,                                              *)
LEMMA BoundariesAre == \A s : Boundaries(s) = {o \in 0..Len(s) : On(s)[o]}
  BY DEF Boundaries, On, OnSteps

(* which define a function,                                                *)
LEMMA OnExists ==
  ASSUME NEW S, NEW s \in Seq(S)
  PROVE  On(s) = [o \in 0..Len(s) |-> OnSteps(s, On(s), o)]
  <1> DEFINE n == Len(s)
             V == BOOLEAN
             G == [p \in (0..n) \X [0..n -> V] |-> OnSteps(s, p[2], p[1])]
  <1>1. n \in Nat /\ V # {}
    BY LenProperties
  <1>2. ASSUME NEW o \in 0..n, NEW f \in [0..n -> V]
        PROVE  G[<<o, f>>] = OnSteps(s, f, o) /\ OnSteps(s, f, o) \in V
    <2>1. OnSteps(s, f, o) \in BOOLEAN
      BY DEF OnSteps
    <2>2. G[<<o, f>>] = OnSteps(s, f, o)
      OBVIOUS
    <2> QED BY <2>1, <2>2
  <1>3. ASSUME NEW o \in 0..n, NEW f \in [0..n -> V], NEW g \in [0..n -> V],
               \A i \in 0..(o - 1) : f[i] = g[i]
        PROVE  G[<<o, f>>] = G[<<o, g>>]
    <2>1. \A k \in 1..4 : k <= o => o - k \in 0..(o - 1)
      BY <1>1
    <2>2. OnSteps(s, f, o) = OnSteps(s, g, o)
      BY <1>3, <2>1 DEF OnSteps
    <2> QED BY <1>2, <2>2
  <1>4. Typed(n, V, G)
    BY <1>2 DEF Typed
  <1>5. FromEarlier(n, V, G)
    BY <1>3 DEF FromEarlier
  <1>6. PICK f : Given(n, V, G, f)
    <2> HIDE DEF n, V, G
    <2> QED BY <1>1, <1>4, <1>5, RecursionUp
  <1>7. f = [o \in 0..n |-> OnSteps(s, f, o)]
    <2>1. f \in [0..n -> V] /\ \A o \in 0..n : f[o] = OnSteps(s, f, o)
      BY <1>2, <1>6 DEF Given
    <2> HIDE DEF V, n
    <2> QED BY <2>1
  <1> DEFINE P(g) == g = [o \in 0..n |-> OnSteps(s, g, o)]
  <1>8. On(s) = CHOOSE g : P(g)
    BY DEF On
  <1>9. P(f)
    BY <1>7
  <1> HIDE DEF P
  <1>10. P(CHOOSE g : P(g))
    BY <1>9, Zenon
  <1>11. P(On(s))
    BY <1>8, <1>10
  <1> QED BY <1>11 DEF P

(* so that an offset is a boundary if a character ends there that starts   *)
(* at one.                                                                 *)
LEMMA BoundarySteps ==
  ASSUME NEW S, NEW s \in Seq(S)
  PROVE  /\ Boundaries(s) \subseteq 0..Len(s)
         /\ \A o \in 0..Len(s) : o \in Boundaries(s) <=>
              \/ o = 0
              \/ \E n \in 1..4 : /\ n <= o /\ o - n \in Boundaries(s)
                                 /\ IsChar(SubSeq(s, o - n + 1, o))
  <1>1. Boundaries(s) = {o \in 0..Len(s) : On(s)[o]} /\ Len(s) \in Nat
    BY BoundariesAre
  <1>2. \A o \in 0..Len(s) : On(s)[o] = OnSteps(s, On(s), o)
    BY OnExists, Zenon
  <1>3. \A o \in 0..Len(s) : o \in Boundaries(s) <=> OnSteps(s, On(s), o)
    BY <1>1, <1>2
  <1>4. \A o \in 0..Len(s) : \A n \in 1..4 : n <= o =>
          (o - n \in 0..Len(s) /\ (On(s)[o - n] <=> o - n \in Boundaries(s)))
    BY <1>1
  <1> QED BY <1>1, <1>3, <1>4 DEF OnSteps

(* A character goes from one boundary to the next.                         *)
LEMMA BoundaryChars ==
  ASSUME NEW s \in Seq(Byte)
  PROVE  /\ 0 \in Boundaries(s) /\ Boundaries(s) \subseteq 0..Len(s)
         /\ \A o \in Boundaries(s) : \A n : CharAt(s, o, n) => o + n \in Boundaries(s)
         /\ \A p \in Boundaries(s) \ {0} :
              \E o \in Boundaries(s) : \E n : CharAt(s, o, n) /\ p = o + n
  <1>1. Len(s) \in Nat /\ 0 \in 0..Len(s) /\ Boundaries(s) \subseteq 0..Len(s)
    BY BoundarySteps
  <1>2. \A o \in 0..Len(s) : o \in Boundaries(s) <=>
              \/ o = 0
              \/ \E n \in 1..4 : /\ n <= o /\ o - n \in Boundaries(s)
                                 /\ IsChar(SubSeq(s, o - n + 1, o))
    BY BoundarySteps
  <1>3. 0 \in Boundaries(s)
    BY <1>1, <1>2
  <1>4. ASSUME NEW o \in Boundaries(s), NEW n, CharAt(s, o, n)
        PROVE  o + n \in Boundaries(s)
    <2>1. o \in 0..Len(s) /\ o \in Nat
      BY <1>1
    <2>2. n \in 1..4 /\ n \in 1..(Len(s) - o)
      BY <1>4, <2>1, CharAtBytes
    <2>3. IsChar(SubSeq(s, o + 1, o + n))
      BY <1>4 DEF CharAt
    <2> DEFINE p == o + n
    <2>4. p \in 0..Len(s) /\ n <= p /\ p - n = o /\ o + n = p
      BY <1>1, <2>1, <2>2
    <2> HIDE DEF p
    <2>5. IsChar(SubSeq(s, p - n + 1, p)) /\ p - n \in Boundaries(s)
      BY <2>3, <2>4
    <2>6. p \in Boundaries(s)
      BY <1>2, <2>2, <2>4, <2>5
    <2> QED BY <2>6 DEF p
  <1>5. ASSUME NEW p \in Boundaries(s) \ {0}
        PROVE  \E o \in Boundaries(s) : \E n : CharAt(s, o, n) /\ p = o + n
    <2>1. p \in 0..Len(s) /\ p # 0
      BY <1>1
    <2>2. PICK n \in 1..4 : /\ n <= p /\ p - n \in Boundaries(s)
                            /\ IsChar(SubSeq(s, p - n + 1, p))
      BY <1>2, <2>1
    <2> DEFINE o == p - n
    <2>3. p = o + n /\ n \in 1..(Len(s) - o)
      BY <1>1, <2>1, <2>2
    <2>4. o \in Boundaries(s) /\ IsChar(SubSeq(s, o + 1, p))
      BY <2>2
    <2> HIDE DEF o
    <2>5. CharAt(s, o, n)
      BY <2>3, <2>4 DEF CharAt
    <2> QED BY <2>3, <2>4, <2>5
  <1> QED BY <1>1, <1>3, <1>4, <1>5

(* Between two boundaries are whole characters.                            *)
LEMMA NextBoundary ==
  ASSUME NEW s \in Seq(Byte), NEW o \in Boundaries(s), NEW p \in Boundaries(s), o < p
  PROVE  \E n : CharAt(s, o, n) /\ o + n <= p
  <1> DEFINE B == Boundaries(s)
             T == {k \in 0..Len(s) : k \in B =>
                     \A b \in B : b < k => \E n : CharAt(s, b, n) /\ b + n <= k}
  <1>1. /\ Len(s) \in Nat /\ B \subseteq 0..Len(s)
        /\ \A k \in B \ {0} : \E b \in B : \E n : CharAt(s, b, n) /\ k = b + n
    BY BoundaryChars
  <1> HIDE DEF B
  <1>2. ASSUME NEW k \in 0..Len(s), 0..(k - 1) \subseteq T
        PROVE  k \in T
    <2>1. SUFFICES ASSUME k \in B, NEW b \in B, b < k
                   PROVE  \E n : CharAt(s, b, n) /\ b + n <= k
      OBVIOUS
    <2>2. b \in 0..Len(s)
      BY <1>1
    <2>0. PICK q \in B : \E n : CharAt(s, q, n) /\ k = q + n
      BY <1>1, <2>1, <2>2
    <2>3. PICK n : CharAt(s, q, n) /\ k = q + n
      BY <2>0
    <2>4. q \in 0..Len(s) /\ q \in Int /\ b \in Int
      BY <1>1, <2>2
    <2>5. /\ n \in 1..4 /\ SeqLen(s[q + 1]) = n
          /\ \A i \in 2..n : IsContinuation(s[q + i])
      BY <2>3, <2>4, CharAtBytes
    <2>6. CASE b = q
      BY <2>3, <2>6
    <2>7. CASE b < q
      <3>1. q \in 0..(k - 1)
        BY <2>3, <2>4, <2>5
      <3>2. \E m : CharAt(s, b, m) /\ b + m <= q
        BY <1>2, <2>7, <3>1
      <3>3. PICK m : CharAt(s, b, m) /\ b + m <= q
        BY <3>2
      <3>4. m \in 1..4
        BY <2>2, <3>3, CharAtBytes
      <3>5. b + m <= k
        BY <2>3, <2>4, <2>5, <3>3, <3>4
      <3> QED BY <3>3, <3>5
    <2>8. CASE b > q
      <3>1. b \in 0..(k - 1)
        BY <2>1, <2>2
      <3>2. PICK m : CharAt(s, q, m) /\ q + m <= b
        BY <1>2, <2>8, <3>1
      <3>3. m \in 1..4 /\ SeqLen(s[q + 1]) = m
        BY <2>4, <3>2, CharAtBytes
      <3>4. m = n /\ FALSE
        BY <2>1, <2>3, <2>4, <2>5, <3>2, <3>3
      <3> QED BY <3>4
    <2> QED BY <2>4, <2>6, <2>7, <2>8
  <1>3. 0..Len(s) \subseteq T
    <2> HIDE DEF T
    <2> QED BY <1>1, <1>2, Upward
  <1>4. p \in 0..Len(s) /\ p \in B /\ o \in B
    BY <1>1 DEF B
  <1>5. p \in T
    <2> HIDE DEF T
    <2> QED BY <1>3, <1>4
  <1> QED BY <1>4, <1>5

(* utf8_validate goes through a text to its end if it is well formed.      *)
LEMMA ValidSteps ==
  ASSUME NEW S, NEW s \in Seq(S)
  PROVE  \A o \in 0..Len(s) :
           ValidFrom(s)[o] = IF Decode(Rest(s, o)).used = 0 THEN o
                             ELSE ValidFrom(s)[o + Decode(Rest(s, o)).used]
  BY ValidExists

(* utf8_validate goes through a text to its end if, and only if, it is     *)
(* well formed.                                                            *)
LEMMA ValidIsWellFormed ==
  ASSUME NEW s \in Seq(Byte)
  PROVE  WellFormed(s) <=> Validate(s) = Len(s)
  <1> DEFINE B == Boundaries(s)
             len == Len(s)
             T == {o \in 0..len : o \in B => (len \in B <=> ValidFrom(s)[o] = len)}
  <1>1. /\ len \in Nat /\ B \subseteq 0..len /\ 0 \in B
        /\ \A o \in B : \A n : CharAt(s, o, n) => o + n \in B
    BY BoundaryChars
  <1>2. ASSUME NEW o \in 0..len, (o + 1)..len \subseteq T
        PROVE  o \in T
    <2>1. SUFFICES ASSUME o \in B
                   PROVE  len \in B <=> ValidFrom(s)[o] = len
      OBVIOUS
    <2> DEFINE u == Decode(Rest(s, o)).used
               v == ValidFrom(s)[o]
    <2>2. v = IF u = 0 THEN o ELSE ValidFrom(s)[o + u]
      BY ValidSteps
    <2>3. u # 0 => CharAt(s, o, u)
      BY DecodeAt
    <2>4. \A n : CharAt(s, o, n) => u = n /\ u # 0 /\ o + n \in (o + 1)..len
      <3>1. \A n : CharAt(s, o, n) => u = n
        BY DecodeAt
      <3>2. \A n : CharAt(s, o, n) => n \in 1..(len - o)
        BY DEF CharAt
      <3> HIDE DEF u, len
      <3> QED BY <1>1, <3>1, <3>2
    <2> HIDE DEF u, v
    <2>5. CASE u = 0
      <3>1. v = o
        BY <2>2, <2>5
      <3>2. len \in B => ~ (o < len)
        BY <2>1, <2>4, <2>5, NextBoundary
      <3>3. len \in B <=> o = len
        <4> HIDE DEF B, len
        <4> QED BY <1>1, <2>1, <3>2
      <3> QED BY <3>1, <3>3 DEF v
    <2>6. CASE u # 0
      <3>1. CharAt(s, o, u)
        BY <2>3, <2>6
      <3>2. o + u \in B /\ o + u \in (o + 1)..len
        BY <1>1, <2>1, <2>4, <3>1
      <3>3. len \in B <=> ValidFrom(s)[o + u] = len
        BY <1>2, <3>2
      <3> QED BY <2>2, <2>6, <3>3 DEF v
    <2> QED BY <2>5, <2>6
  <1>3. 0..len \subseteq T
    <2> HIDE DEF T, len
    <2> QED BY <1>1, <1>2, Downward
  <1>4. 0 \in T
    <2> HIDE DEF T
    <2> QED BY <1>1, <1>3
  <1> QED BY <1>1, <1>4, ValidIs DEF WellFormed

------------------------------------------------------------------------------

(* utf8_cp_count counts the characters of a well-formed text.              *)
LEMMA CountIsBoundaries ==
  ASSUME NEW s \in Seq(Byte), WellFormed(s)
  PROVE  CpCount(s) = Cardinality(Boundaries(s)) - 1
  <1> DEFINE B == Boundaries(s)
             len == Len(s)
             Later(o) == {b \in B : b > o}
             T == {o \in 0..len : o \in B => CountFrom(s)[o] = Cardinality(Later(o))}
  <1>1. /\ len \in Nat /\ B \subseteq 0..len /\ 0 \in B /\ len \in B
        /\ \A o \in B : \A n : CharAt(s, o, n) => o + n \in B
    BY BoundaryChars DEF WellFormed
  <1>2. \A o : IsFiniteSet(Later(o))
    <2>1. IsFiniteSet(0..len)
      BY <1>1, FS_Interval
    <2>2. \A o : Later(o) \subseteq 0..len
      BY <1>1
    <2> QED BY <2>1, <2>2, FS_Subset
  <1>3. ASSUME NEW o \in 0..len, (o + 1)..len \subseteq T
        PROVE  o \in T
    <2>1. SUFFICES ASSUME o \in B
                   PROVE  CountFrom(s)[o] = Cardinality(Later(o))
      OBVIOUS
    <2>2. CASE o = len
      <3>1. Later(o) = {}
        BY <1>1, <2>2
      <3>2. CountFrom(s)[o] = 0
        BY <2>2, CountSteps
      <3> HIDE DEF Later
      <3> QED BY <3>1, <3>2, FS_EmptySet
    <2>3. CASE o # len
      <3>1. o < len
        BY <1>1, <2>3
      <3>2. PICK n : CharAt(s, o, n) /\ o + n <= len
        BY <1>1, <2>1, <3>1, NextBoundary
      <3> DEFINE p == o + n
      <3>3. /\ p \in B /\ p \in (o + 1)..len /\ NextOffset(s, o) = p /\ o \in 0..(len - 1)
        BY <1>1, <2>1, <3>2, CharAtNext
      <3>4. \A b \in B : b > o => b >= p
        <4>1. ASSUME NEW b \in B, b > o
              PROVE  b >= p
          <5>1. PICK m : CharAt(s, o, m) /\ o + m <= b
            <6>1. o < b
              BY <1>1, <4>1
            <6> QED BY <2>1, <6>1, NextBoundary
          <5>2. m = n
            BY <3>2, <5>1, DecodeAt
          <5>3. p <= b
            BY <5>1, <5>2
          <5> HIDE DEF p
          <5> QED BY <1>1, <3>3, <5>3
        <4> QED BY <4>1
      <3> HIDE DEF p
      <3>5. Later(o) = Later(p) \cup {p} /\ p \notin Later(p)
        BY <1>1, <3>3, <3>4
      <3>6. Cardinality(Later(o)) = Cardinality(Later(p)) + 1
        <4>1. IsFiniteSet(Later(p))
          BY <1>2
        <4> HIDE DEF Later
        <4> QED BY <3>5, <4>1, FS_AddElement
      <3>7. CountFrom(s)[p] = Cardinality(Later(p))
        BY <1>3, <3>3
      <3>8. CountFrom(s)[o] = 1 + CountFrom(s)[p]
        BY <3>3, CountSteps
      <3>9. Cardinality(Later(p)) \in Nat
        <4>1. IsFiniteSet(Later(p))
          BY <1>2
        <4> HIDE DEF Later
        <4> QED BY <4>1, FS_CardinalityType
      <3> HIDE DEF Later
      <3> QED BY <3>6, <3>7, <3>8, <3>9
    <2> QED BY <2>2, <2>3
  <1>4. 0..len \subseteq T
    <2> HIDE DEF T, len
    <2> QED BY <1>1, <1>3, Downward
  <1>5. CountFrom(s)[0] = Cardinality(Later(0))
    <2>1. 0 \in T
      <3> HIDE DEF T
      <3> QED BY <1>1, <1>4
    <2> QED BY <1>1, <2>1
  <1>6. B = Later(0) \cup {0} /\ 0 \notin Later(0)
    BY <1>1
  <1>7. Cardinality(B) = Cardinality(Later(0)) + 1 /\ Cardinality(Later(0)) \in Nat
    <2>1. IsFiniteSet(Later(0))
      BY <1>2
    <2> HIDE DEF Later, B
    <2> QED BY <1>6, <2>1, FS_AddElement, FS_CardinalityType
  <1> HIDE DEF Later, B
  <1>8. CpCount(s) = Cardinality(B) - 1
    BY <1>5, <1>7, CountIs
  <1> QED BY <1>8 DEF B

------------------------------------------------------------------------------
(* What plat_native_to_utf8 of the Amiga writes from a character on.       *)
AllFrom(n) ==
  CHOOSE from : from = [i \in 0..Len(n) |->
    IF i = Len(n) THEN <<>> ELSE Encode(n[i + 1]) \o from[i + 1]]

(* EncodeAll starts with the first of them.                                *)
LEMMA AllIs == \A n : EncodeAll(n) = AllFrom(n)[0]
  BY DEF EncodeAll, AllFrom

(* A character of Latin-1 makes one of UTF-8, of two bytes at most.        *)
LEMMA Encoded ==
  ASSUME NEW cp \in 0..255
  PROVE  Encode(cp) \in Seq(Byte) /\ Len(Encode(cp)) \in 1..2 /\ IsChar(Encode(cp))
  <1>1. cp \in Int /\ IsScalar(cp)
    BY Scalars, SMT
  <1> DEFINE a == \hC0 + (cp \div 64)
             b == \h80 + ((cp \div 1) % 64)
             t == Encode(cp)
  <1>2. /\ cp < \h80 => t = <<cp>>
        /\ cp >= \h80 => t = <<a, b>>
    <2>1. cp < \h800
      OBVIOUS
    <2> QED BY <1>1, <2>1, EncodeIs
  <1>3. cp >= \h80 => a \in \hC2..\hC3
    OBVIOUS
  <1>4. b \in \h80..\hBF
    OBVIOUS
  <1> HIDE DEF a, b, t
  <1>5. CASE cp < \h80
    <2>1. t = <<cp>>
      BY <1>2, <1>5
    <2>2. t \in Seq(Byte) /\ Len(t) = 1 /\ t[1] <= \h7F
      BY <1>5, <2>1 DEF Byte
    <2>3. IsChar(t)
      BY <2>2 DEF IsChar
    <2> QED BY <2>2, <2>3 DEF t
  <1>6. CASE cp >= \h80
    <2>1. t = <<a, b>>
      BY <1>2, <1>6
    <2>2. a \in Byte /\ b \in Byte /\ a \in \hC2..\hDF
      BY <1>3, <1>4, <1>6 DEF Byte
    <2>3. t \in Seq(Byte) /\ Len(t) = 2 /\ t[1] \in \hC2..\hDF /\ t[2] \in \h80..\hBF
      BY <1>4, <2>1, <2>2
    <2>4. IsChar(t)
      BY <2>3 DEF IsChar
    <2> QED BY <2>3, <2>4 DEF t
  <1> QED BY <1>5, <1>6

(* The characters of an 8-bit set.                                         *)
Narrow == 0..255

(* What is written is a function of the offset, and made of bytes.         *)
LEMMA AllExists ==
  ASSUME NEW n \in Seq(Narrow)
  PROVE  /\ AllFrom(n)[Len(n)] = <<>>
         /\ \A i \in 0..Len(n) : AllFrom(n)[i] \in Seq(Byte)
         /\ \A i \in 0..(Len(n) - 1) : AllFrom(n)[i] = Encode(n[i + 1]) \o AllFrom(n)[i + 1]
  <1> DEFINE len == Len(n)
             V == Seq(Byte)
             F(o, f) == IF o = len THEN <<>> ELSE Encode(n[o + 1]) \o f[o + 1]
             G == [p \in (0..len) \X [0..len -> V] |-> F(p[1], p[2])]
  <1>1. len \in Nat /\ V # {} /\ \A i \in 0..len : i # len => n[i + 1] \in Narrow
    <2>1. len \in Nat
      OBVIOUS
    <2>2. <<>> \in V
      OBVIOUS
    <2>3. \A i \in 1..len : n[i] \in Narrow
      OBVIOUS
    <2> HIDE DEF len, V
    <2>4. \A i \in 0..len : i # len => i + 1 \in 1..len
      BY <2>1
    <2> QED BY <2>1, <2>2, <2>3, <2>4, Zenon
  <1>2. ASSUME NEW o \in 0..len, NEW f \in [0..len -> V]
        PROVE  G[<<o, f>>] = F(o, f) /\ F(o, f) \in V
    <2>1. CASE o = len
      BY <2>1
    <2>2. CASE o # len
      <3>1. Encode(n[o + 1]) \in V
        BY <1>1, <2>2, Encoded DEF Narrow
      <3>2. o + 1 \in 0..len
        BY <1>1, <2>2
      <3>3. f[o + 1] \in V
        BY <3>2
      <3> DEFINE x == Encode(n[o + 1])
                 y == f[o + 1]
      <3>4. F(o, f) = x \o y
        BY <2>2
      <3> HIDE DEF x, y
      <3>5. x \o y \in Seq(Byte)
        BY <3>1, <3>3 DEF x, y
      <3>6. F(o, f) \in V
        BY <3>4, <3>5
      <3> HIDE DEF F
      <3> QED BY <3>6
    <2> QED BY <2>1, <2>2
  <1>3. ASSUME NEW o \in 0..len, NEW f \in [0..len -> V], NEW g \in [0..len -> V],
               \A i \in (o + 1)..len : f[i] = g[i]
        PROVE  G[<<o, f>>] = G[<<o, g>>]
    <2>1. o # len => o + 1 \in (o + 1)..len
      BY <1>1
    <2>2. F(o, f) = F(o, g)
      BY <1>3, <2>1
    <2> HIDE DEF F, G
    <2> QED BY <1>2, <2>2
  <1> HIDE DEF G
  <1>4. Typed(len, V, G)
    <2> HIDE DEF F
    <2> QED BY <1>2 DEF Typed
  <1>5. FromLater(len, V, G)
    BY <1>3 DEF FromLater
  <1>6. PICK f : Given(len, V, G, f)
    <2> HIDE DEF len, V
    <2> QED BY <1>1, <1>4, <1>5, Recursion
  <1> DEFINE P(g) == g = [o \in 0..len |-> IF o = len THEN <<>> ELSE Encode(n[o + 1]) \o g[o + 1]]
  <1>7. f \in [0..len -> V] /\ \A o \in 0..len : f[o] = F(o, f)
    <2> HIDE DEF F
    <2> QED BY <1>2, <1>6 DEF Given
  <1>8. P(f)
    <2> HIDE DEF V, len
    <2> QED BY <1>7
  <1>9. AllFrom(n) = CHOOSE g : P(g)
    BY DEF AllFrom
  <1> HIDE DEF P
  <1>10. P(AllFrom(n))
    BY <1>8, <1>9, Zenon
  <1> DEFINE A == AllFrom(n)
  <1>11. A = [o \in 0..len |-> F(o, A)]
    BY <1>10 DEF P
  <1> HIDE DEF A
  <1>12. \A o \in 0..len : A[o] = F(o, A)
    <2> HIDE DEF F
    <2> QED BY <1>11
  <1>13. A[len] = <<>> /\ \A i \in 0..(len - 1) : A[i] = Encode(n[i + 1]) \o A[i + 1]
    <2>1. len \in 0..len /\ \A i \in 0..(len - 1) : i \in 0..len /\ i # len
      BY <1>1
    <2>2. F(len, A) = <<>>
      OBVIOUS
    <2>3. \A i : i # len => F(i, A) = Encode(n[i + 1]) \o A[i + 1]
      OBVIOUS
    <2> HIDE DEF F, len
    <2> QED BY <1>12, <2>1, <2>2, <2>3
  <1> DEFINE T == {i \in 0..len : A[i] \in V}
  <1>14. ASSUME NEW i \in 0..len, (i + 1)..len \subseteq T
         PROVE  i \in T
    <2> HIDE DEF F
    <2>1. CASE i = len
      <3>1. A[i] = <<>> /\ <<>> \in Seq(Byte)
        BY <1>13, <2>1
      <3> QED BY <3>1
    <2>2. CASE i # len
      <3>1. i \in 0..(len - 1) /\ i + 1 \in (i + 1)..len
        BY <1>1, <2>2
      <3> DEFINE x == Encode(n[i + 1])
                 y == A[i + 1]
      <3>2. x \in Seq(Byte)
        BY <1>1, <2>2, Encoded DEF Narrow
      <3>3. y \in Seq(Byte)
        BY <1>14, <3>1
      <3>4. A[i] = x \o y
        BY <1>13, <3>1
      <3> HIDE DEF x, y
      <3>5. A[i] \in Seq(Byte)
        BY <3>2, <3>3, <3>4
      <3> QED BY <3>5
    <2> QED BY <2>1, <2>2
  <1>15. 0..len \subseteq T
    <2> HIDE DEF T, len
    <2> QED BY <1>1, <1>14, Downward
  <1> QED BY <1>13, <1>15 DEF A

(* One character more in front.                                            *)
LEMMA AllCons ==
  ASSUME NEW c \in Narrow, NEW g \in Seq(Narrow)
  PROVE  EncodeAll(<<c>> \o g) = Encode(c) \o EncodeAll(g)
  <1> DEFINE n == <<c>> \o g
             len == Len(g)
             T == {i \in 0..len : AllFrom(n)[i + 1] = AllFrom(g)[i]}
  <1>1. len \in Nat /\ n \in Seq(Narrow) /\ Len(n) = len + 1 /\ n[1] = c
        /\ \A i \in 1..len : n[i + 1] = g[i]
    OBVIOUS
  <1> HIDE DEF n
  <1>2. ASSUME NEW i \in 0..len, (i + 1)..len \subseteq T
        PROVE  i \in T
    <2>1. CASE i = len
      <3>1. AllFrom(n)[i + 1] = <<>> /\ AllFrom(g)[i] = <<>>
        BY <1>1, <2>1, AllExists
      <3> QED BY <3>1
    <2>2. CASE i # len
      <3>1. /\ i \in 0..(len - 1) /\ i + 1 \in (i + 1)..len
            /\ i + 1 \in 0..(Len(n) - 1) /\ i + 1 \in 1..len
        BY <1>1, <2>2
      <3>2. AllFrom(g)[i] = Encode(g[i + 1]) \o AllFrom(g)[i + 1]
        BY <3>1, AllExists
      <3>3. AllFrom(n)[i + 1] = Encode(n[i + 1 + 1]) \o AllFrom(n)[i + 1 + 1]
        BY <1>1, <3>1, AllExists
      <3>4. n[i + 1 + 1] = g[i + 1] /\ AllFrom(n)[i + 1 + 1] = AllFrom(g)[i + 1]
        BY <1>1, <1>2, <3>1
      <3> HIDE DEF len
      <3> QED BY <3>2, <3>3, <3>4
    <2> QED BY <2>1, <2>2
  <1>3. 0..len \subseteq T
    <2> HIDE DEF T, len
    <2> QED BY <1>1, <1>2, Downward
  <1>4. AllFrom(n)[1] = AllFrom(g)[0]
    <2>1. 0 \in T
      <3> HIDE DEF T
      <3> QED BY <1>1, <1>3
    <2> QED BY <2>1
  <1>5. AllFrom(n)[0] = Encode(n[1]) \o AllFrom(n)[1]
    <2>1. 0 \in 0..(Len(n) - 1) /\ 0 + 1 = 1
      BY <1>1
    <2>2. AllFrom(n)[0] = Encode(n[0 + 1]) \o AllFrom(n)[0 + 1]
      BY <1>1, <2>1, AllExists
    <2> QED BY <2>1, <2>2
  <1> QED BY <1>1, <1>4, <1>5, AllIs DEF n

(* No character makes no bytes.                                            *)
LEMMA NoneIsEncoded == EncodeAll(<<>>) = <<>>
  <1>1. <<>> \in Seq(Narrow) /\ Len(<<>>) = 0
    OBVIOUS
  <1>2. AllFrom(<<>>)[Len(<<>>)] = <<>>
    BY <1>1, AllExists
  <1> QED BY <1>1, <1>2, AllIs

(* A character before a well-formed text makes a well-formed text.         *)
LEMMA CharBefore ==
  ASSUME NEW c \in Seq(Byte), IsChar(c), NEW t \in Seq(Byte), WellFormed(t)
  PROVE  WellFormed(c \o t)
  <1> DEFINE s == c \o t
             m == Len(c)
             len == Len(t)
             T == {o \in 0..len : o \in Boundaries(t) => m + o \in Boundaries(s)}
  <1>1. /\ m \in 1..4 /\ len \in Nat /\ s \in Seq(Byte) /\ Len(s) = m + len
        /\ \A i \in 1..m : s[i] = c[i]
        /\ \A i \in 1..len : s[m + i] = t[i]
    BY CharBytes
  <1>2. CharAt(s, 0, m)
    <2>1. SubSeq(s, 0 + 1, 0 + m) = c
      <3> DEFINE u == SubSeq(s, 0 + 1, 0 + m)
      <3> HIDE DEF s
      <3>1. 0 \in 0..Len(s) /\ m \in 0..(Len(s) - 0)
        BY <1>1
      <3>2. u \in Seq(Byte) /\ Len(u) = m /\ \A i \in 1..m : u[i] = s[0 + i]
        BY <1>1, <3>1, PartIs
      <3> HIDE DEF u
      <3>3. \A i \in 1..m : u[i] = c[i]
        BY <1>1, <3>2
      <3>4. u = c
        BY <3>2, <3>3, SeqEqual
      <3> QED BY <3>4 DEF u
    <2>2. m \in 1..(Len(s) - 0)
      BY <1>1
    <2> QED BY <2>1, <2>2 DEF CharAt
  <1>3. ASSUME NEW o \in 0..len, NEW n, CharAt(t, o, n)
        PROVE  CharAt(s, m + o, n)
    <2>1. n \in 1..(len - o) /\ n \in 0..(len - o) /\ IsChar(SubSeq(t, o + 1, o + n))
      BY <1>1, <1>3 DEF CharAt
    <2> DEFINE u == SubSeq(t, o + 1, o + n)
               v == SubSeq(s, m + o + 1, m + o + n)
    <2>2. u \in Seq(Byte) /\ Len(u) = n /\ \A i \in 1..n : u[i] = t[o + i]
      BY <2>1, PartIs
    <2>3. m + o \in 0..Len(s) /\ n \in 0..(Len(s) - (m + o)) /\ n \in 1..(Len(s) - (m + o))
      BY <1>1, <2>1
    <2>4. v \in Seq(Byte) /\ Len(v) = n /\ \A i \in 1..n : v[i] = s[m + o + i]
      <3> HIDE DEF s, m
      <3> QED BY <1>1, <2>3, PartIs
    <2> HIDE DEF u, v, s
    <2>5. \A i \in 1..n : u[i] = v[i]
      <3>1. \A i \in 1..n : o + i \in 1..len /\ m + o + i = m + (o + i)
        BY <1>1, <2>1
      <3> QED BY <1>1, <2>2, <2>4, <3>1
    <2>6. u = v
      BY <2>2, <2>4, <2>5, SeqEqual
    <2> QED BY <2>1, <2>3, <2>6 DEF CharAt, u, v
  <1> HIDE DEF s
  <1>4. ASSUME NEW p \in 0..len, 0..(p - 1) \subseteq T
        PROVE  p \in T
    <2>1. SUFFICES ASSUME p \in Boundaries(t) PROVE m + p \in Boundaries(s)
      OBVIOUS
    <2>2. CASE p = 0
      <3>1. 0 + m \in Boundaries(s)
        BY <1>1, <1>2, BoundaryChars
      <3> QED BY <1>1, <2>2, <3>1
    <2>3. CASE p # 0
      <3>0. PICK o \in Boundaries(t) : \E n : CharAt(t, o, n) /\ p = o + n
        BY <2>1, <2>3, BoundaryChars
      <3>1. PICK n : CharAt(t, o, n) /\ p = o + n
        BY <3>0
      <3>2. o \in 0..len
        BY BoundaryChars
      <3>3. n \in 1..(len - o)
        BY <3>1 DEF CharAt
      <3>4. o \in 0..(p - 1) /\ m + p = (m + o) + n
        BY <1>1, <3>1, <3>2, <3>3
      <3>5. m + o \in Boundaries(s)
        BY <1>4, <3>4
      <3>6. CharAt(s, m + o, n)
        BY <1>3, <3>1, <3>2
      <3>7. (m + o) + n \in Boundaries(s)
        BY <1>1, <3>5, <3>6, BoundaryChars
      <3> QED BY <3>4, <3>7
    <2> QED BY <2>2, <2>3
  <1>5. 0..len \subseteq T
    <2> HIDE DEF T, len
    <2> QED BY <1>1, <1>4, Upward
  <1>6. m + len \in Boundaries(s)
    <2>1. len \in T
      <3> HIDE DEF T
      <3> QED BY <1>1, <1>5
    <2> QED BY <2>1 DEF WellFormed
  <1> QED BY <1>1, <1>6 DEF WellFormed, s

(* What is encoded is well formed.                                         *)
LEMMA AllWellFormed ==
  ASSUME NEW n \in Seq(Narrow)
  PROVE  EncodeAll(n) \in Seq(Byte) /\ WellFormed(EncodeAll(n))
  <1> DEFINE A == AllFrom(n)
             len == Len(n)
             T == {i \in 0..len : WellFormed(A[i])}
  <1>1. len \in Nat /\ \A i \in 0..len : A[i] \in Seq(Byte)
    <2>1. len \in Nat
      OBVIOUS
    <2> QED BY <2>1, AllExists
  <1>2. A[len] = <<>> /\ \A i \in 0..(len - 1) : A[i] = Encode(n[i + 1]) \o A[i + 1]
    BY AllExists
  <1> HIDE DEF A
  <1>3. ASSUME NEW i \in 0..len, (i + 1)..len \subseteq T
        PROVE  i \in T
    <2>1. CASE i = len
      <3>1. <<>> \in Seq(Byte) /\ Len(<<>>) = 0
        OBVIOUS
      <3>2. WellFormed(<<>>)
        BY <3>1, BoundaryChars DEF WellFormed
      <3> QED BY <1>2, <2>1, <3>2
    <2>2. CASE i # len
      <3>1. i \in 0..(len - 1) /\ i + 1 \in (i + 1)..len /\ i + 1 \in 1..len /\ i + 1 \in 0..len
        BY <1>1, <2>2
      <3>2. n[i + 1] \in 0..255
        <4>1. \A k \in 1..len : n[k] \in Narrow
          OBVIOUS
        <4> HIDE DEF len
        <4> QED BY <3>1, <4>1 DEF Narrow
      <3>3. Encode(n[i + 1]) \in Seq(Byte) /\ IsChar(Encode(n[i + 1]))
        BY <3>2, Encoded
      <3>4. A[i + 1] \in Seq(Byte) /\ WellFormed(A[i + 1])
        BY <1>1, <1>3, <3>1
      <3>5. WellFormed(Encode(n[i + 1]) \o A[i + 1])
        BY <3>3, <3>4, CharBefore
      <3> QED BY <1>2, <3>1, <3>5
    <2> QED BY <2>1, <2>2
  <1>4. 0..len \subseteq T
    <2> HIDE DEF T, len
    <2> QED BY <1>1, <1>3, Downward
  <1>5. 0 \in T /\ 0 \in 0..len
    <2> HIDE DEF T
    <2> QED BY <1>1, <1>4
  <1> QED BY <1>1, <1>5, AllIs DEF A

(* ASCII is well formed, and is encoded as it is.                          *)
Ascii == 0..\h7F

(* A sequence over a set is one over a larger set.                         *)
LEMMA Widen ==
  ASSUME NEW S, NEW W, S \subseteq W, NEW s \in Seq(S)
  PROVE  s \in Seq(W) /\ Len(s) \in Nat /\ \A i \in 1..Len(s) : s[i] \in S
  OBVIOUS

(* A text of ASCII is well formed,                                         *)
LEMMA AsciiWellFormed ==
  ASSUME NEW s \in Seq(Ascii)
  PROVE  s \in Seq(Byte) /\ WellFormed(s)
  <1> DEFINE len == Len(s)
             T == {o \in 0..len : o \in Boundaries(s)}
  <1>1. len \in Nat /\ s \in Seq(Byte) /\ \A i \in 1..len : s[i] \in Ascii
    <2>1. Ascii \subseteq Byte
      BY DEF Ascii, Byte
    <2> QED BY <2>1, Widen
  <1>2. 0 \in Boundaries(s)
    BY <1>1, BoundaryChars
  <1>3. ASSUME NEW o \in 0..(len - 1)
        PROVE  CharAt(s, o, 1)
    <2> DEFINE u == SubSeq(s, o + 1, o + 1)
    <2>1. o \in 0..len /\ 1 \in 0..(len - o) /\ 1 \in 1..(len - o) /\ o + 1 \in 1..len
      BY <1>1
    <2>2. Len(u) = 1 /\ u[1] = s[o + 1]
      BY <1>1, <2>1, PartIs
    <2> HIDE DEF u
    <2>3. u[1] <= \h7F
      <3>1. u[1] \in Ascii
        BY <1>1, <2>1, <2>2
      <3>2. \A x \in Ascii : x <= \h7F
        BY DEF Ascii
      <3> QED BY <3>1, <3>2
    <2>4. IsChar(u)
      BY <2>2, <2>3 DEF IsChar
    <2> QED BY <2>1, <2>4 DEF u, CharAt
  <1>4. ASSUME NEW p \in 0..len, 0..(p - 1) \subseteq T
        PROVE  p \in T
    <2>1. CASE p = 0
      BY <1>2, <2>1
    <2>2. CASE p # 0
      <3> DEFINE o == p - 1
      <3>1. o \in 0..(len - 1) /\ o \in 0..(p - 1) /\ o + 1 = p
        BY <1>1, <2>2
      <3> HIDE DEF o
      <3>2. o \in Boundaries(s) /\ CharAt(s, o, 1)
        BY <1>3, <1>4, <3>1
      <3>3. o + 1 \in Boundaries(s)
        BY <1>1, <3>2, BoundaryChars
      <3> QED BY <3>1, <3>3
    <2> QED BY <2>1, <2>2
  <1>5. 0..len \subseteq T
    <2> HIDE DEF T, len
    <2> QED BY <1>1, <1>4, Upward
  <1>6. len \in Boundaries(s)
    <2>1. len \in T
      <3> HIDE DEF T
      <3> QED BY <1>1, <1>5
    <2> QED BY <2>1
  <1> QED BY <1>1, <1>6 DEF WellFormed

(* (a part of a text and what follows it are the rest of it)               *)
LEMMA RestSteps ==
  ASSUME NEW S, NEW s \in Seq(S), NEW o \in 0..Len(s), NEW n \in 0..(Len(s) - o)
  PROVE  SubSeq(s, o + 1, o + n) \o Rest(s, o + n) = Rest(s, o)
  <1> DEFINE t == SubSeq(s, o + 1, o + n)
             r == Rest(s, o)
             q == Rest(s, o + n)
             len == Len(s)
  <1>1. len \in Nat /\ o \in 0..len /\ o + n \in 0..len /\ n \in 0..(len - o)
    OBVIOUS
  <1>2. t \in Seq(S) /\ Len(t) = n /\ \A i \in 1..n : t[i] = s[o + i]
    BY PartIs
  <1>3. r \in Seq(S) /\ Len(r) = len - o /\ \A i \in 1..(len - o) : r[i] = s[o + i]
    BY RestTyped
  <1>4. q \in Seq(S) /\ Len(q) = len - (o + n) /\ \A i \in 1..(len - (o + n)) : q[i] = s[o + n + i]
    BY <1>1, RestTyped
  <1> HIDE DEF t, r, q, len
  <1> DEFINE m == len - (o + n)
  <1>0. m \in Nat /\ n \in Nat /\ n + m = len - o
    BY <1>1
  <1>5. t \o q \in Seq(S) /\ Len(t \o q) = n + m
    <2>1. t \in Seq(S) /\ Len(t) = n /\ q \in Seq(S) /\ Len(q) = m
      BY <1>2, <1>4
    <2> HIDE DEF m
    <2> QED BY <2>1
  <1>6. \A i \in 1..(len - o) : (t \o q)[i] = s[o + i]
    <2>1. ASSUME NEW i \in 1..(len - o)
          PROVE  (t \o q)[i] = s[o + i]
      <3>1. CASE i <= n
        <4>1. (t \o q)[i] = t[i] /\ i \in 1..n
          BY <1>1, <1>2, <1>4, <3>1
        <4> QED BY <1>2, <4>1
      <3>2. CASE i > n
        <4> DEFINE k == i - n
        <4>1. k \in 1..m /\ o + n + k = o + i
          BY <1>1, <3>2
        <4>2. t \in Seq(S) /\ Len(t) = n /\ q \in Seq(S) /\ Len(q) = m
          BY <1>2, <1>4
        <4>3. (t \o q)[i] = q[k]
          <5> HIDE DEF m
          <5>1. i \in 1..(n + m) /\ i > n
            BY <1>0, <3>2
          <5> QED BY <1>0, <4>2, <5>1
        <4> HIDE DEF k
        <4> QED BY <1>4, <4>1, <4>3
      <3>3. i <= n \/ i > n
        <4>1. i \in Int /\ n \in Int
          BY <1>0, <1>1
        <4> QED BY <4>1
      <3> QED BY <3>1, <3>2, <3>3, Zenon
    <2> QED BY <2>1
  <1> DEFINE u == t \o q
  <1>7. u \in Seq(S) /\ Len(u) = Len(r) /\ \A i \in 1..Len(r) : u[i] = r[i]
    BY <1>0, <1>3, <1>5, <1>6
  <1> HIDE DEF u
  <1>8. u = r
    BY <1>3, <1>7, SeqEqual
  <1> QED BY <1>8 DEF u, t, r, q

(* and the bytes of its characters are the characters.                     *)
LEMMA AsciiEncoded ==
  ASSUME NEW n \in Seq(Ascii)
  PROVE  n \in Seq(Narrow) /\ EncodeAll(n) = n
  <1> DEFINE A == AllFrom(n)
             len == Len(n)
             T == {i \in 0..len : A[i] = Rest(n, i)}
  <1>1. len \in Nat /\ n \in Seq(Narrow) /\ \A i \in 1..len : n[i] \in Ascii
    <2>1. Ascii \subseteq Narrow
      BY DEF Ascii, Narrow
    <2> QED BY <2>1, Widen
  <1>2. A[len] = <<>> /\ \A i \in 0..(len - 1) : A[i] = Encode(n[i + 1]) \o A[i + 1]
    BY <1>1, AllExists
  <1> HIDE DEF A
  <1>3. ASSUME NEW i \in 0..len, (i + 1)..len \subseteq T
        PROVE  i \in T
    <2>1. CASE i = len
      <3>1. Rest(n, i) = <<>>
        BY <1>1, <2>1 DEF Rest
      <3> QED BY <1>2, <2>1, <3>1
    <2>2. CASE i # len
      <3>1. i \in 0..(len - 1) /\ i + 1 \in (i + 1)..len /\ i + 1 \in 1..len
            /\ i \in 0..len /\ 1 \in 0..(len - i)
        BY <1>1, <2>2
      <3> DEFINE c == n[i + 1]
      <3>2. c \in Ascii
        BY <1>1, <3>1
      <3>3. SubSeq(n, i + 1, i + 1) = <<c>>
        <4>1. SubSeq(n, i + 1, i + 1) \in Seq(Ascii)
          BY <3>1, PartIs
        <4>2. Len(SubSeq(n, i + 1, i + 1)) = 1 /\ SubSeq(n, i + 1, i + 1)[1] = c
          BY <3>1, PartIs
        <4> DEFINE u == SubSeq(n, i + 1, i + 1)
        <4> HIDE DEF u, c
        <4>3. u \in Seq(Ascii) /\ Len(u) = 1 /\ u[1] = c
          BY <4>1, <4>2 DEF u
        <4>4. <<c>> \in Seq(Ascii) /\ Len(<<c>>) = 1 /\ <<c>>[1] = c
          BY <3>2
        <4>5. u = <<c>>
          BY <4>3, <4>4, SeqEqual
        <4> QED BY <4>5 DEF u
      <3>4. Encode(c) = <<c>>
        <4> HIDE DEF c
        <4>1. c \in Int /\ c < \h80 /\ IsScalar(c)
          BY <3>2, Scalars, SMT DEF Ascii
        <4> QED BY <4>1, EncodeIs
      <3>5. A[i + 1] = Rest(n, i + 1)
        BY <1>3, <3>1
      <3>6. SubSeq(n, i + 1, i + 1) \o Rest(n, i + 1) = Rest(n, i)
        BY <3>1, RestSteps
      <3> QED BY <1>2, <3>1, <3>3, <3>4, <3>5, <3>6
    <2> QED BY <2>1, <2>2
  <1>4. 0..len \subseteq T
    <2> HIDE DEF T, len
    <2> QED BY <1>1, <1>3, Downward
  <1>5. 0 \in T
    <2> HIDE DEF T
    <2> QED BY <1>1, <1>4
  <1>6. Rest(n, 0) = n
    BY <1>1 DEF Rest
  <1> QED BY <1>1, <1>5, <1>6, AllIs DEF A

(* A well-formed text whose characters are all in a set of 256 or fewer    *)
(* comes back from them as it was.                                         *)
LEMMA EncodesBack ==
  ASSUME NEW s \in Seq(Byte), WellFormed(s), Clusters(s) \in Seq(Narrow)
  PROVE  EncodeAll(Clusters(s)) = s
  <1> DEFINE B == Boundaries(s)
             C == ClustersFrom(s)
             len == Len(s)
             T == {o \in 0..len : o \in B /\ C[o] \in Seq(Narrow) => EncodeAll(C[o]) = Rest(s, o)}
  <1>1. /\ len \in Nat /\ B \subseteq 0..len /\ 0 \in B /\ len \in B
        /\ \A o \in B : \A n : CharAt(s, o, n) => o + n \in B
    BY BoundaryChars DEF WellFormed
  <1>2. ASSUME NEW o \in 0..len, (o + 1)..len \subseteq T
        PROVE  o \in T
    <2>1. SUFFICES ASSUME o \in B, C[o] \in Seq(Narrow)
                   PROVE  EncodeAll(C[o]) = Rest(s, o)
      OBVIOUS
    <2>2. CASE o = len
      <3>1. C[o] = <<>>
        BY <2>2, ClustersSteps
      <3>2. Rest(s, o) = <<>>
        BY <1>1, <2>2 DEF Rest
      <3> HIDE DEF C
      <3> QED BY <3>1, <3>2, NoneIsEncoded
    <2>3. CASE o # len
      <3>1. o < len
        BY <1>1, <2>3
      <3>2. PICK n : CharAt(s, o, n) /\ o + n <= len
        BY <1>1, <2>1, <3>1, NextBoundary
      <3> DEFINE p == o + n
                 c == Decode(Rest(s, o)).cp
      <3>3. p \in B /\ p \in (o + 1)..len /\ After(s, o) = p /\ o \in 0..(len - 1)
        BY <1>1, <2>1, <3>2, CharAtNext
      <3>4. Decode(Rest(s, o)).used = n /\ n # 0
        <4>1. n \in 1..4
          BY <3>2, CharAtBytes
        <4> QED BY <3>2, <4>1, CharAtNext
      <3>5. Encode(c) = SubSeq(s, o + 1, p)
        BY <3>4, DecodeAt
      <3>6. C[o] = <<c>> \o C[p]
        BY <3>3, ClustersSteps
      <3>7. c \in Symbols /\ C[p] \in Seq(Symbols)
        <4>1. p \in 0..Len(s)
          BY <1>1, <3>3
        <4> QED BY <4>1, RestTyped, DecodeTyped, ClustersTypedFrom
      <3> HIDE DEF p, c, C
      <3>8. c \in Narrow /\ C[p] \in Seq(Narrow)
        <4> DEFINE g == C[p]
                   h == <<c>> \o g
        <4>1. h \in Seq(Narrow) /\ g \in Seq(Symbols) /\ c \in Symbols
          BY <2>1, <3>6, <3>7
        <4> HIDE DEF g
        <4>2. /\ Len(g) \in Nat /\ Len(h) = Len(g) + 1
              /\ h[1] = c /\ \A i \in 1..Len(g) : h[i + 1] = g[i]
          BY <4>1
        <4> HIDE DEF h
        <4>3. \A i \in 1..Len(h) : h[i] \in Narrow
          BY <4>1
        <4>4. c \in Narrow /\ \A i \in 1..Len(g) : g[i] \in Narrow
          BY <4>2, <4>3
        <4>5. g \in Seq(Narrow)
          BY <4>1, <4>4, SeqDef
        <4> QED BY <4>4, <4>5 DEF g
      <3>9. EncodeAll(C[p]) = Rest(s, p)
        BY <1>2, <3>3, <3>8
      <3>10. EncodeAll(C[o]) = Encode(c) \o EncodeAll(C[p])
        BY <3>6, <3>8, AllCons
      <3>11. SubSeq(s, o + 1, p) \o Rest(s, p) = Rest(s, o)
        <4>1. n \in 0..(Len(s) - o)
          BY <3>2 DEF CharAt
        <4> QED BY <4>1, RestSteps DEF p
      <3> QED BY <3>5, <3>9, <3>10, <3>11
    <2> QED BY <2>2, <2>3
  <1>3. 0..len \subseteq T
    <2> HIDE DEF T, len
    <2> QED BY <1>1, <1>2, Downward
  <1>4. EncodeAll(C[0]) = Rest(s, 0)
    <2>1. 0 \in T
      <3> HIDE DEF T
      <3> QED BY <1>1, <1>3
    <2>2. C[0] \in Seq(Narrow)
      BY ClustersIs
    <2> QED BY <1>1, <2>1, <2>2
  <1>5. Rest(s, 0) = s
    BY <1>1 DEF Rest
  <1> QED BY <1>4, <1>5, ClustersIs

(* A text whose characters the native set has, each of them.               *)
LEMMA AllMapped ==
  ASSUME NEW s \in Seq(Byte), NEW limit \in Nat, NEW cap \in Nat,
         cap >= Len(Clusters(s)), Unmapped(limit, s, cap) = 0
  PROVE  Clusters(s) \in Seq(0..limit) /\ ToBytes(limit, s, cap) = Clusters(s)
  <1> DEFINE cps == Clusters(s)
             Bad == {i \in DOMAIN cps : cps[i] \notin 0..limit}
  <1>1. cps \in Seq(Symbols) /\ Len(cps) \in Nat
    BY ClustersTyped
  <1>2. Cut(cps, cap) = cps
    <2> HIDE DEF cps
    <2>1. cap >= Len(cps)
      BY DEF cps
    <2> QED BY <1>1, <2>1, CutTyped
  <1>3. Cardinality(Bad) = 0
    <2> HIDE DEF cps
    <2> QED BY <1>2 DEF Unmapped, cps
  <1>4. IsFiniteSet(Bad)
    <2>1. DOMAIN cps = 1..Len(cps) /\ Bad \subseteq DOMAIN cps
      BY <1>1
    <2>2. IsFiniteSet(1..Len(cps))
      BY <1>1, FS_Interval
    <2> HIDE DEF Bad, cps
    <2> QED BY <2>1, <2>2, FS_Subset
  <1>5. Bad = {}
    <2> HIDE DEF Bad
    <2> QED BY <1>3, <1>4, FS_EmptySet
  <1>6. DOMAIN cps = 1..Len(cps) /\ \A i \in 1..Len(cps) : cps[i] \in 0..limit
    BY <1>1, <1>5
  <1>7. ToBytes(limit, s, cap) =
          [i \in 1..Len(cps) |-> IF cps[i] \in 0..limit THEN cps[i] ELSE Fallback]
    BY <1>2 DEF ToBytes
  <1> HIDE DEF cps, Bad
  <1>8. cps \in Seq(0..limit)
    BY <1>1, <1>6, SeqDef
  <1>9. cps = [i \in 1..Len(cps) |-> cps[i]]
    BY <1>8
  <1>10. ToBytes(limit, s, cap) = cps
    BY <1>6, <1>7, <1>9
  <1> QED BY <1>8, <1>10 DEF cps

(* What comes back from each native set is well formed and fits.           *)
LEMMA FromAsciiFits ==
  ASSUME NEW n \in Seq(Narrow), NEW cap \in Nat
  PROVE  /\ FromAscii(n, cap) \in Seq(Ascii) /\ Len(FromAscii(n, cap)) <= cap
         /\ n \in Seq(Ascii) /\ cap >= Len(n) => FromAscii(n, cap) = n
  <1> DEFINE t == [i \in 1..Len(n) |-> IF n[i] <= \h7F THEN n[i] ELSE Fallback]
  <1>1. Len(n) \in Nat /\ \A i \in 1..Len(n) : n[i] \in 0..255
    BY Widen DEF Narrow
  <1>2. Fallback \in Ascii
    BY DEF Fallback, Ascii
  <1>3. ASSUME NEW i \in 1..Len(n)
        PROVE  (IF n[i] <= \h7F THEN n[i] ELSE Fallback) \in Ascii
    <2>1. n[i] \in 0..255
      BY <1>1
    <2>2. \A x \in 0..255 : x <= \h7F => x \in Ascii
      BY DEF Ascii
    <2> QED BY <1>2, <2>1, <2>2, Zenon
  <1>4. t \in Seq(Ascii) /\ Len(t) = Len(n)
    BY <1>1, <1>3
  <1>5. FromAscii(n, cap) = Cut(t, cap)
    BY DEF FromAscii
  <1>6. ASSUME n \in Seq(Ascii)
        PROVE  t = n
    <2>1. \A i \in 1..Len(n) : n[i] \in Ascii
      BY <1>6, Widen
    <2>2. \A x \in Ascii : x <= \h7F
      BY DEF Ascii
    <2>3. t = [i \in 1..Len(n) |-> n[i]]
      BY <2>1, <2>2
    <2>4. n = [i \in 1..Len(n) |-> n[i]]
      OBVIOUS
    <2> HIDE DEF t
    <2> QED BY <2>3, <2>4
  <1> HIDE DEF t
  <1>7. Cut(t, cap) \in Seq(Ascii) /\ (cap >= Len(t) => Cut(t, cap) = t)
    BY <1>4, CutTyped
  <1>8. Len(Cut(t, cap)) <= cap
    <2>1. Len(Cut(t, cap)) = IF cap <= Len(t) THEN cap ELSE Len(t)
      BY <1>4, CutTyped
    <2> QED BY <1>1, <1>4, <2>1
  <1> QED BY <1>4, <1>5, <1>6, <1>7, <1>8

(* The Amiga stops before a character that does not fit.                   *)
LEMMA FromLatin1Fits ==
  ASSUME NEW n \in Seq(Narrow), NEW cap \in Nat
  PROVE  /\ FromLatin1(n, cap) \in Seq(Byte) /\ Len(FromLatin1(n, cap)) <= cap
         /\ WellFormed(FromLatin1(n, cap))
         /\ Len(EncodeAll(n)) <= cap => FromLatin1(n, cap) = EncodeAll(n)
  <1> DEFINE len == Len(n)
             J == {j \in 0..len : Len(EncodeAll(Cut(n, j))) <= cap}
             k == Max(J)
  <1>1. len \in Nat
    OBVIOUS
  <1>2. \A j \in 0..len : Cut(n, j) \in Seq(Narrow)
    BY CutTyped
  <1>3. Cut(n, 0) = <<>> /\ Cut(n, len) = n
    <2>1. Cut(n, 0) \in Seq(Narrow) /\ Len(Cut(n, 0)) = 0
      <3>1. 0 <= Len(n) /\ 0 \in Nat
        BY <1>1
      <3> QED BY <3>1, CutTyped
    <2>2. Cut(n, len) = n
      BY <1>1, CutTyped
    <2> QED BY <2>1, <2>2
  <1>4. 0 \in J
    <2>1. EncodeAll(Cut(n, 0)) = <<>> /\ Len(<<>>) = 0
      BY <1>3, NoneIsEncoded
    <2> QED BY <1>1, <2>1
  <1>5. k \in J /\ \A j \in J : k >= j
    <2>1. J \in SUBSET (0..len) /\ J # {}
      BY <1>4
    <2> HIDE DEF J, len
    <2> QED BY <1>1, <2>1, MaxOf
  <1>6. FromLatin1(n, cap) = EncodeAll(Cut(n, k))
    BY DEF FromLatin1
  <1> HIDE DEF k
  <1>7. k \in 0..len /\ Len(EncodeAll(Cut(n, k))) <= cap
    BY <1>5
  <1>8. EncodeAll(Cut(n, k)) \in Seq(Byte) /\ WellFormed(EncodeAll(Cut(n, k)))
    BY <1>2, <1>7, AllWellFormed
  <1>9. ASSUME Len(EncodeAll(n)) <= cap
        PROVE  Cut(n, k) = n
    <2>1. len \in J
      BY <1>1, <1>3, <1>9
    <2>2. k >= len
      BY <1>5, <2>1
    <2>3. k = len
      BY <1>1, <1>7, <2>2
    <2> QED BY <1>3, <2>3
  <1> QED BY <1>6, <1>7, <1>8, <1>9

(* Windows gives all or nothing:                                           *)
LEMMA WholeOrNoneFits ==
  ASSUME NEW S, NEW s \in Seq(S), NEW cap \in Nat
  PROVE  /\ WholeOrNone(s, cap) \in Seq(S) /\ Len(WholeOrNone(s, cap)) <= cap
         /\ WholeOrNone(s, cap) \in {s, <<>>}
         /\ Len(s) <= cap => WholeOrNone(s, cap) = s
  <1>1. <<>> \in Seq(S) /\ Len(<<>>) = 0
    OBVIOUS
  <1> QED BY <1>1 DEF WholeOrNone

(* a well-formed text,                                                     *)
LEMMA FromAnsiFits ==
  ASSUME NEW n \in Seq(Narrow), NEW cap \in Nat
  PROVE  /\ FromAnsi(n, cap) \in Seq(Byte) /\ Len(FromAnsi(n, cap)) <= cap
         /\ WellFormed(FromAnsi(n, cap))
         /\ Len(EncodeAll(n)) <= cap => FromAnsi(n, cap) = EncodeAll(n)
  <1> DEFINE e == EncodeAll(n)
             w == WholeOrNone(e, cap)
  <1>1. e \in Seq(Byte) /\ WellFormed(e)
    BY AllWellFormed
  <1> HIDE DEF e
  <1>2. w \in Seq(Byte) /\ Len(w) <= cap /\ w \in {e, <<>>} /\ (Len(e) <= cap => w = e)
    BY <1>1, WholeOrNoneFits
  <1>3. WellFormed(<<>>)
    <2>1. <<>> \in Seq(Ascii)
      OBVIOUS
    <2> QED BY <2>1, AsciiWellFormed
  <1> HIDE DEF w
  <1>4. w \in Seq(Byte) /\ Len(w) <= cap /\ WellFormed(w) /\ (Len(e) <= cap => w = e)
    BY <1>1, <1>2, <1>3
  <1> QED BY <1>4 DEF FromAnsi, w, e

(* or a native one.                                                        *)
LEMMA ToAnsiFits ==
  ASSUME NEW s \in Seq(Byte), NEW cap \in Nat
  PROVE  /\ ToAnsi(s, cap) \in Seq(Narrow) /\ Len(ToAnsi(s, cap)) <= cap
         /\ cap >= Len(s) => ToAnsi(s, cap) = ToBytes(\hFF, s, cap)
  <1> DEFINE cps == Clusters(s)
             b == ToBytes(\hFF, s, Len(s))
  <1>1. Len(s) \in Nat /\ \hFF \in Nat /\ \hFF >= Fallback
    BY DEF Fallback
  <1>2. cps \in Seq(Symbols) /\ Len(cps) \in 0..Len(s)
    BY ClustersTyped
  <1>3. b \in Seq(Narrow) /\ Len(b) = IF Len(s) <= Len(cps) THEN Len(s) ELSE Len(cps)
    <2> DEFINE len == Len(s)
               limit == \hFF
    <2>1. len \in Nat /\ limit \in Nat /\ limit >= Fallback
      BY <1>1
    <2> HIDE DEF len, limit, cps
    <2>2. /\ ToBytes(limit, s, len) \in Seq(0..limit)
          /\ Len(ToBytes(limit, s, len)) = IF len <= Len(cps) THEN len ELSE Len(cps)
      BY <2>1, BytesTyped DEF cps
    <2> QED BY <2>2 DEF len, limit, Narrow
  <1>4. ToAnsi(s, cap) = WholeOrNone(b, cap)
    BY DEF ToAnsi
  <1>5. cap >= Len(s) => b = ToBytes(\hFF, s, cap)
    <2>1. SUFFICES ASSUME cap >= Len(s) PROVE b = ToBytes(\hFF, s, cap)
      OBVIOUS
    <2>2. cap >= Len(cps) /\ Len(s) >= Len(cps)
      BY <1>1, <1>2, <2>1
    <2>3. Cut(cps, Len(s)) = cps /\ Cut(cps, cap) = cps
      <3> HIDE DEF cps
      <3> QED BY <1>1, <1>2, <2>2, CutTyped
    <2> HIDE DEF cps
    <2> QED BY <2>3 DEF ToBytes, cps
  <1> HIDE DEF b, cps
  <1>6. Len(b) <= Len(s)
    BY <1>1, <1>2, <1>3
  <1>7. Len(b) \in Nat
    BY <1>3
  <1>8. cap >= Len(s) => Len(b) <= cap
    BY <1>1, <1>6, <1>7
  <1> QED BY <1>3, <1>4, <1>5, <1>8, WholeOrNoneFits
==============================================================================
