----------------------------- MODULE ScreenProofs ------------------------------
(***************************************************************************)
(* Theorems about Screen, for every set of targets, screens, fonts, texts  *)
(* and pictures: whatever allocation fails, nothing is kept; a picture     *)
(* that is drawn shows its colours; a line of text is as high as its cell, *)
(* which is shaped like text; texts decode as the standard says; text on   *)
(* the DOS screen stays in its row; and the canvas of every backend is the *)
(* surface that platform.h promises, but for the backend's quirks.         *)
(***************************************************************************)
EXTENDS Screen, TextProofs, FiniteSetTheorems, SequenceTheorems, TLAPS

(* What the constants are: a program has finitely many fonts, and none of  *)
(* them is NoFont.                                                         *)
Plausible ==
  /\ IsFiniteSet(Slots)
  /\ \A size, style, owned : NoFont # [size |-> size, style |-> style, owned |-> owned]

(* What the backend should hold of each resource: the canvas.              *)
Opens(f) == {s \in Slots : f[s] # NoFont}
Owns(f) == {s \in Opens(f) : f[s].owned}
Due(f, w) ==
  [r \in C!Resources |->
     CASE r = "memory" -> Cardinality(Opens(f)) + IF w THEN 1 ELSE 0
       [] r = "face" -> Cardinality(Owns(f))
       [] OTHER -> 0]

CInv ==
  /\ DOMAIN font = Slots
  /\ \A s \in Slots : font[s] # NoFont => font[s].owned \in BOOLEAN
  /\ window \in BOOLEAN
  /\ held = Due(font, window)

(* One more element, and one less.                                         *)
LEMMA OneMore ==
  ASSUME NEW S, NEW x, IsFiniteSet(S), x \notin S
  PROVE  /\ IsFiniteSet(S \cup {x}) /\ Cardinality(S \cup {x}) = Cardinality(S) + 1
         /\ Cardinality(S) \in Nat
  BY FS_AddElement, FS_CardinalityType

(* The same with one taken away.                                           *)
LEMMA OneLess ==
  ASSUME NEW S, NEW x, IsFiniteSet(S), x \in S
  PROVE  Cardinality(S \ {x}) = Cardinality(S) - 1 /\ Cardinality(S) \in Nat
  BY FS_RemoveElement, FS_CardinalityType

(* The sets that are counted are finite.                                   *)
LEMMA Counted ==
  ASSUME Plausible, NEW f
  PROVE  /\ IsFiniteSet(Opens(f)) /\ IsFiniteSet(Owns(f))
         /\ Cardinality(Opens(f)) \in Nat /\ Cardinality(Owns(f)) \in Nat
  <1>1. Opens(f) \subseteq Slots /\ Owns(f) \subseteq Slots
    BY DEF Opens, Owns
  <1> QED BY <1>1, FS_Subset, FS_CardinalityType DEF Plausible

(* A call that gives back what it takes.                                   *)
LEMMA GivesBack ==
  ASSUME Plausible, CInv, NEW rs, held' = C!Kept(rs, rs), UNCHANGED <<font, window>>
  PROVE  CInv'
  <1>1. \A r \in C!Resources : held[r] \in Nat
    BY Counted DEF CInv, Due
  <1>2. held' = [r \in C!Resources |-> held[r]]
    BY <1>1 DEF C!Kept
  <1>3. held' = held
    BY <1>2 DEF CInv, Due
  <1> QED BY <1>3 DEF CInv

(* A call that has nothing to do with resources.                           *)
LEMMA LeavesAlone ==
  ASSUME CInv, UNCHANGED <<held, font, window>>
  PROVE  CInv'
  BY DEF CInv

(* A font is opened: what is kept is its memory, and its face if it is its *)
(* own.                                                                    *)
OpensWith(s, f, taken, given) ==
  /\ font[s] = NoFont /\ UNCHANGED window
  /\ f # NoFont /\ f.owned \in BOOLEAN /\ font' = [font EXCEPT ![s] = f]
  /\ "memory" \in taken \ given /\ "face" \notin given
  /\ "face" \in taken <=> f.owned
  /\ \A r \in C!Resources \ {"memory", "face"} : r \in taken <=> r \in given
  /\ held' = C!Kept(taken, given)

(* Opening a font so keeps what it should.                                 *)
LEMMA FontOpens ==
  ASSUME Plausible, CInv, NEW s \in Slots, NEW f, NEW taken, NEW given,
         OpensWith(s, f, taken, given)
  PROVE  CInv'
  <1> USE DEF OpensWith
  <1>1. /\ DOMAIN font' = Slots /\ font'[s] = f
        /\ \A t \in Slots \ {s} : font'[t] = font[t]
    BY DEF CInv
  <1>2. Opens(font') = Opens(font) \cup {s} /\ s \notin Opens(font)
    BY <1>1 DEF Opens
  <1>3. Owns(font') = IF f.owned THEN Owns(font) \cup {s} ELSE Owns(font)
    BY <1>1, <1>2 DEF Owns, Opens
  <1>4. s \notin Owns(font)
    BY <1>2 DEF Owns
  <1>5. /\ Cardinality(Opens(font)) \in Nat /\ Cardinality(Owns(font)) \in Nat
        /\ Cardinality(Opens(font')) = Cardinality(Opens(font)) + 1
    BY <1>2, OneMore, Counted
  <1>6. Cardinality(Owns(font')) = Cardinality(Owns(font)) + IF f.owned THEN 1 ELSE 0
    BY <1>3, <1>4, <1>5, OneMore, Counted
  <1>7. \A r \in C!Resources :
          held[r] = CASE r = "memory" -> Cardinality(Opens(font)) + (IF window THEN 1 ELSE 0)
                      [] r = "face" -> Cardinality(Owns(font))
                      [] OTHER -> 0
    BY DEF CInv, Due
  <1>8. \A r \in C!Resources :
          held'[r] = held[r]
                       + (IF r \in taken THEN 1 ELSE 0)
                       - (IF r \in given THEN 1 ELSE 0)
    BY DEF C!Kept
  <1>9. "memory" \in C!Resources /\ "face" \in C!Resources /\ window \in BOOLEAN
    BY DEF C!Resources, CInv
  <1>10. /\ held'["memory"] = held["memory"] + 1 - 0
        /\ held["memory"] = Cardinality(Opens(font)) + (IF window THEN 1 ELSE 0)
    BY <1>7, <1>8, <1>9
  <1>11. /\ held'["face"] = held["face"] + (IF f.owned THEN 1 ELSE 0) - 0
        /\ held["face"] = Cardinality(Owns(font))
    BY <1>7, <1>8, <1>9
  <1>12. \A r \in C!Resources \ {"memory", "face"} : held'[r] = 0
    BY <1>7, <1>8
  <1>13. held' = [r \in C!Resources |-> held'[r]]
    BY DEF C!Kept
  <1>14. f.owned \in BOOLEAN /\ window' = window
    OBVIOUS
  <1> HIDE DEF OpensWith
  <1>15. held'["memory"] = Cardinality(Opens(font')) + (IF window THEN 1 ELSE 0)
    BY <1>5, <1>9, <1>10
  <1>16. held'["face"] = Cardinality(Owns(font'))
    BY <1>5, <1>6, <1>11, <1>14
  <1>17. held' = Due(font', window)
    BY <1>15, <1>16, <1>12, <1>13 DEF Due
  <1>18. \A t \in Slots : font'[t] # NoFont => font'[t].owned \in BOOLEAN
    BY <1>1, <1>14 DEF CInv
  <1> QED BY <1>1, <1>17, <1>18, <1>9, <1>14 DEF CInv

(* A font is closed.                                                       *)
LEMMA FontCloses ==
  ASSUME Plausible, CInv, NEW s \in Slots, C!Close(s)
  PROVE  CInv'
  <1> USE DEF C!Close
  <1> DEFINE owned == font[s].owned
  <1>0. owned \in BOOLEAN
    BY DEF CInv
  <1>1. /\ DOMAIN font' = Slots /\ font'[s] = NoFont
        /\ \A t \in Slots \ {s} : font'[t] = font[t]
    BY DEF CInv
  <1>2. Opens(font') = Opens(font) \ {s} /\ s \in Opens(font)
    BY <1>1 DEF Opens
  <1>3. Owns(font') = Owns(font) \ {s} /\ (s \in Owns(font) <=> owned)
    BY <1>1, <1>2 DEF Owns, Opens
  <1>4. /\ Cardinality(Opens(font)) \in Nat /\ Cardinality(Owns(font)) \in Nat
        /\ Cardinality(Opens(font')) = Cardinality(Opens(font)) - 1
    BY <1>2, OneLess, Counted
  <1>5. Cardinality(Owns(font')) = Cardinality(Owns(font)) - IF owned THEN 1 ELSE 0
    <2>1. CASE owned
      BY <1>3, <2>1, OneLess, Counted
    <2>2. CASE ~ owned
      <3>1. Owns(font') = Owns(font)
        BY <1>3, <2>2
      <3> QED BY <1>4, <2>2, <3>1
    <2> QED BY <2>1, <2>2
  <1>6. \A r \in C!Resources :
          held[r] = CASE r = "memory" -> Cardinality(Opens(font)) + (IF window THEN 1 ELSE 0)
                      [] r = "face" -> Cardinality(Owns(font))
                      [] OTHER -> 0
    BY DEF CInv, Due
  <1>7. held' = [r \in C!Resources |->
                   held[r] - IF r \in {"memory"} \cup (IF owned THEN {"face"} ELSE {}) THEN 1 ELSE 0]
    BY DEF C!Giving
  <1> HIDE DEF owned, C!Close
  <1>8. window' = window
    BY DEF C!Close
  <1>9. held'["memory"] = Cardinality(Opens(font')) + (IF window THEN 1 ELSE 0)
    BY <1>4, <1>6, <1>7 DEF C!Resources, CInv
  <1>10. held'["face"] = Cardinality(Owns(font'))
    BY <1>0, <1>4, <1>5, <1>6, <1>7 DEF C!Resources
  <1>11. \A r \in C!Resources \ {"memory", "face"} : held'[r] = 0
    BY <1>6, <1>7 DEF C!Resources
  <1>12. held' = [r \in C!Resources |-> held'[r]]
    BY <1>7
  <1>13. held' = Due(font', window)
    BY <1>9, <1>10, <1>11, <1>12 DEF Due
  <1>14. \A t \in Slots : font'[t] # NoFont => font'[t].owned \in BOOLEAN
    BY <1>1 DEF CInv
  <1> QED BY <1>1, <1>8, <1>13, <1>14 DEF CInv

(* A window is created, or destroyed.                                      *)
LEMMA WindowKeeps ==
  ASSUME Plausible, CInv, C!Window
  PROVE  CInv'
  <1>1. font' = font
    BY DEF C!Window
  <1>2. Cardinality(Opens(font)) \in Nat
    BY Counted
  <1>3. CASE UNCHANGED <<window, held>>
    BY <1>1, <1>3 DEF CInv
  <1>4. CASE ~ window /\ window' = TRUE /\ held' = C!Taking({"memory"})
    <2>1. /\ held["memory"] = Cardinality(Opens(font))
          /\ \A r \in C!Resources \ {"memory"} : held[r] = Due(font, window')[r] /\ held[r] \in Nat
      BY <1>2, <1>4, Counted DEF CInv, Due, C!Resources
    <2>5. \A r \in C!Resources : held'[r] = held[r] + IF r \in {"memory"} THEN 1 ELSE 0
      BY <1>4 DEF C!Taking
    <2>6. held'["memory"] = Due(font, window')["memory"]
      BY <1>2, <1>4, <2>1, <2>5 DEF C!Resources, Due
    <2>7. \A r \in C!Resources \ {"memory"} : held'[r] = Due(font, window')[r]
      BY <2>1, <2>5
    <2>2. \A r \in C!Resources : held'[r] = Due(font, window')[r]
      BY <2>6, <2>7
    <2>3. held' = Due(font, window')
      BY <1>4, <2>2 DEF C!Taking, Due
    <2> QED BY <1>1, <1>4, <2>3 DEF CInv
  <1>5. CASE window /\ window' = FALSE /\ held' = C!Giving({"memory"})
    <2>1. /\ held["memory"] = Cardinality(Opens(font)) + 1
          /\ \A r \in C!Resources \ {"memory"} : held[r] = Due(font, window')[r] /\ held[r] \in Nat
      BY <1>2, <1>5, Counted DEF CInv, Due, C!Resources
    <2>5. \A r \in C!Resources : held'[r] = held[r] - IF r \in {"memory"} THEN 1 ELSE 0
      BY <1>5 DEF C!Giving
    <2>6. held'["memory"] = Due(font, window')["memory"]
      BY <1>2, <1>5, <2>1, <2>5 DEF C!Resources, Due
    <2>7. \A r \in C!Resources \ {"memory"} : held'[r] = Due(font, window')[r]
      BY <2>1, <2>5
    <2>2. \A r \in C!Resources : held'[r] = Due(font, window')[r]
      BY <2>6, <2>7
    <2>3. held' = Due(font, window')
      BY <1>5, <2>2 DEF C!Giving, Due
    <2> QED BY <1>1, <1>5, <2>3 DEF CInv
  <1> QED BY <1>3, <1>4, <1>5 DEF C!Window

(* Every attempt to open a font keeps what it should.                      *)
LEMMA OpenKeeps ==
  ASSUME Plausible, CInv, NEW s \in Slots, NEW q, C!Open(s, q)
  PROVE  CInv'
  <1>1. font[s] = NoFont /\ UNCHANGED window
    BY DEF C!Open
  <1>2. ASSUME NEW rs, C!NotOpened(rs, rs)
        PROVE  CInv'
    BY <1>1, <1>2, GivesBack DEF C!NotOpened
  <1>4. ASSUME NEW size, NEW style,
               C!Opened(s, [size |-> size, style |-> style, owned |-> FALSE], {"memory"}, {})
        PROVE  CInv'
    <2> DEFINE f == [size |-> size, style |-> style, owned |-> FALSE]
               taken == {"memory"}
               given == {}
    <2>1. f # NoFont /\ f.owned \in BOOLEAN /\ ("face" \in taken <=> f.owned)
      BY DEF Plausible
    <2>2. font' = [font EXCEPT ![s] = f] /\ held' = C!Kept(taken, given)
      BY <1>4 DEF C!Opened
    <2>3. /\ "memory" \in taken \ given /\ "face" \notin given
          /\ \A r \in C!Resources \ {"memory", "face"} : r \in taken <=> r \in given
      BY DEF C!Resources
    <2> HIDE DEF f, taken, given
    <2>4. OpensWith(s, f, taken, given)
      BY <1>1, <2>1, <2>2, <2>3 DEF OpensWith
    <2> QED BY <2>4, FontOpens
  <1>5. ASSUME NEW size, NEW style,
               C!Opened(s, [size |-> size, style |-> style, owned |-> TRUE], {"memory", "face"}, {})
        PROVE  CInv'
    <2> DEFINE f == [size |-> size, style |-> style, owned |-> TRUE]
               taken == {"memory", "face"}
               given == {}
    <2>1. f # NoFont /\ f.owned \in BOOLEAN /\ ("face" \in taken <=> f.owned)
      BY DEF Plausible
    <2>2. font' = [font EXCEPT ![s] = f] /\ held' = C!Kept(taken, given)
      BY <1>5 DEF C!Opened
    <2>3. /\ "memory" \in taken \ given /\ "face" \notin given
          /\ \A r \in C!Resources \ {"memory", "face"} : r \in taken <=> r \in given
      BY DEF C!Resources
    <2> HIDE DEF f, taken, given
    <2>4. OpensWith(s, f, taken, given)
      BY <1>1, <2>1, <2>2, <2>3 DEF OpensWith
    <2> QED BY <2>4, FontOpens
  <1>6. ASSUME NEW size, NEW style,
               C!Opened(s, [size |-> size, style |-> style, owned |-> TRUE],
                        {"memory", "dc", "face"}, {"dc"})
        PROVE  CInv'
    <2> DEFINE f == [size |-> size, style |-> style, owned |-> TRUE]
               taken == {"memory", "dc", "face"}
               given == {"dc"}
    <2>1. f # NoFont /\ f.owned \in BOOLEAN /\ ("face" \in taken <=> f.owned)
      BY DEF Plausible
    <2>2. font' = [font EXCEPT ![s] = f] /\ held' = C!Kept(taken, given)
      BY <1>6 DEF C!Opened
    <2>3. /\ "memory" \in taken \ given /\ "face" \notin given
          /\ \A r \in C!Resources \ {"memory", "face"} : r \in taken <=> r \in given
      BY DEF C!Resources
    <2> HIDE DEF f, taken, given
    <2>4. OpensWith(s, f, taken, given)
      BY <1>1, <2>1, <2>2, <2>3 DEF OpensWith
    <2> QED BY <2>4, FontOpens
  <1>7. CASE C!AtariOpen(s, q)
    BY <1>2, <1>4, <1>7 DEF C!AtariOpen
  <1>8. CASE C!AmigaOpen(s, q)
    BY <1>2, <1>4, <1>5, <1>8 DEF C!AmigaOpen
  <1>9. CASE C!MacOpen(s, q)
    BY <1>2, <1>4, <1>9 DEF C!MacOpen
  <1>10. CASE C!GdiOpen(s, q)
    BY <1>2, <1>6, <1>10 DEF C!GdiOpen
  <1>11. CASE C!QtOpen(s, q)
    BY <1>2, <1>5, <1>11 DEF C!QtOpen
  <1>12. CASE C!HostOpen(s, q)
    BY <1>2, <1>4, <1>12 DEF C!HostOpen
  <1> QED BY <1>7, <1>8, <1>9, <1>10, <1>11, <1>12 DEF C!Open

(* Measuring, drawing and filling give back what they take.                *)
LEMMA CallsKeep ==
  ASSUME Plausible, CInv,
         \/ \E s \in Slots, t \in C!Texts \cup {C!Lines} : C!Measure(s, t)
         \/ \E s \in Slots, t \in C!Texts, c \in C!Colours : C!Draw(s, t, c)
         \/ \E c \in C!Colours : C!Fill(c)
         \/ \E px \in Pixels : C!PxToTwips(px)
         \/ C!TwipsToPx
         \/ C!Itself
  PROVE  CInv'
  <1>1. UNCHANGED <<font, window>>
    BY DEF C!Measure, C!Draw, C!Fill, C!PxToTwips, C!TwipsToPx, C!Itself
  <1>2. ASSUME NEW s, NEW t, C!GdiMeasure(s, t)
        PROVE  held' = held \/ \E rs : held' = C!Kept(rs, rs)
    BY <1>2 DEF C!GdiMeasure
  <1>3. ASSUME NEW s, NEW t, NEW c, C!GdiDraw(s, t, c)
        PROVE  held' = held \/ \E rs : held' = C!Kept(rs, rs)
    BY <1>3 DEF C!GdiDraw
  <1>4. ASSUME NEW c, C!GdiFill(c)
        PROVE  held' = held \/ \E rs : held' = C!Kept(rs, rs)
    BY <1>4 DEF C!GdiFill
  <1>5. ASSUME NEW s, NEW t, C!Measure(s, t)
        PROVE  held' = held \/ \E rs : held' = C!Kept(rs, rs)
    BY <1>2, <1>5 DEF C!Measure, C!AtariMeasure, C!AmigaMeasure, C!MacMeasure, C!QtMeasure,
      C!HostMeasure, C!DosMeasure
  <1>6. ASSUME NEW s, NEW t, NEW c, C!Draw(s, t, c)
        PROVE  held' = held \/ \E rs : held' = C!Kept(rs, rs)
    BY <1>3, <1>6 DEF C!Draw, C!AtariDraw, C!AmigaDraw, C!MacDraw, C!QtDraw, C!HostDraw
  <1>7. ASSUME NEW c, C!Fill(c)
        PROVE  held' = held \/ \E rs : held' = C!Kept(rs, rs)
    BY <1>4, <1>7 DEF C!Fill, C!AtariFill, C!AmigaFill, C!MacFill, C!QtFill, C!HostDraw
  <1>8. held' = held \/ \E rs : held' = C!Kept(rs, rs)
    BY <1>5, <1>6, <1>7 DEF C!PxToTwips, C!TwipsToPx, C!Itself
  <1> QED BY <1>1, <1>8, GivesBack, LeavesAlone

(* Every step of the canvas keeps the balance.                             *)
LEMMA CNext == Plausible /\ CInv /\ C!Next => CInv'
  BY OpenKeeps, FontCloses, WindowKeeps, CallsKeep DEF C!Next

(* Before the first call nothing is held, and nothing should be.           *)
LEMMA CInit == Plausible /\ C!Init => CInv
  <1> SUFFICES ASSUME Plausible, C!Init
               PROVE  CInv
    OBVIOUS
  <1>1. /\ font = [s \in Slots |-> NoFont] /\ window = FALSE
        /\ held = [r \in C!Resources |-> 0]
    BY DEF C!Init
  <1>2. Opens(font) = {} /\ Owns(font) = {}
    BY <1>1 DEF Opens, Owns
  <1>3. Cardinality(Opens(font)) = 0 /\ Cardinality(Owns(font)) = 0
    BY <1>2, FS_EmptySet
  <1>4. held = Due(font, window)
    BY <1>1, <1>3 DEF Due
  <1> QED BY <1>1, <1>4 DEF CInv

------------------------------------------------------------------------------
(* What a call of the pictures should hold at each of its steps: the pens  *)
(* that were obtained, on the Amiga, and the blocks that were allocated.   *)
Owes(t, step, n) ==
  [pens   |-> IF t = "amiga" /\ step # "idle" THEN n ELSE 0,
   blocks |-> CASE step = "bitmap" -> 1
                [] step = "copy" -> IF t = "amiga" THEN 2 ELSE 1
                [] OTHER -> 0]

AnyPens == {P!Colour(image, i) : i \in Nat}

PInv ==
  /\ pc \in {"idle", "pens", "array", "bitmap", "copy"}
  /\ pc = "bitmap" => painter = "amiga"
  /\ painter = "amiga" /\ pc # "idle" => pens \in Seq(AnyPens)
  /\ owed = Owes(painter, pc, Len(pens))

(* A pen more.                                                             *)
LEMMA PenKeeps ==
  ASSUME PInv, P!AmigaPen
  PROVE  PInv'
  <1> USE DEF P!AmigaPen, P!setup
  <1>1. painter = "amiga" /\ painter' = painter /\ pc = "pens" /\ image' = image
    OBVIOUS
  <1>2. pens \in Seq(AnyPens) /\ Len(pens) \in Nat /\ AnyPens' = AnyPens
    BY <1>1, LenProperties DEF PInv, AnyPens, P!Colour
  <1>3. owed = [pens |-> Len(pens), blocks |-> 0]
    BY <1>1 DEF PInv, Owes
  <1>4. CASE /\ pens' = Append(pens, P!Colour(image, Len(pens)))
             /\ owed' = [owed EXCEPT !.pens = @ + 1]
             /\ pc' \in {"array", "pens"}
    <2>1. P!Colour(image, Len(pens)) \in AnyPens
      BY <1>2 DEF AnyPens
    <2>2. pens' \in Seq(AnyPens) /\ Len(pens') = Len(pens) + 1
      BY <1>2, <1>4, <2>1, AppendProperties
    <2>3. owed' = [pens |-> Len(pens'), blocks |-> 0]
      BY <1>2, <1>3, <1>4, <2>2
    <2>4. owed' = Owes(painter', pc', Len(pens'))
      BY <1>1, <1>4, <2>3 DEF Owes
    <2> QED BY <1>1, <1>2, <1>4, <2>2, <2>4 DEF PInv
  <1>5. CASE pc' = "idle" /\ owed' = [owed EXCEPT !.pens = @ - Len(pens)]
    <2>1. owed' = [pens |-> 0, blocks |-> 0]
      BY <1>2, <1>3, <1>5
    <2>2. owed' = Owes(painter', pc', Len(pens'))
      BY <1>1, <1>5, <2>1 DEF Owes
    <2> QED BY <1>5, <2>2 DEF PInv
  <1> QED BY <1>1, <1>4, <1>5

(* The buffer of a call, and the bitmap of the Amiga's.                    *)
LEMMA BlockKeeps ==
  ASSUME PInv, P!Array \/ P!AmigaBitMap
  PROVE  PInv'
  <1>1. painter' = painter /\ image' = image /\ pens' = pens
    BY DEF P!Array, P!AmigaBitMap, P!setup
  <1>2. AnyPens' = AnyPens
    BY <1>1 DEF AnyPens, P!Colour
  <1>3. painter = "amiga" /\ pc # "idle" => Len(pens) \in Nat
    BY LenProperties DEF PInv
  <1>4. CASE P!Array /\ painter = "amiga"
    <2>1. owed = [pens |-> Len(pens), blocks |-> 0]
      BY <1>4 DEF PInv, Owes, P!Array
    <2>2. \/ pc' = "bitmap" /\ owed' = [pens |-> Len(pens), blocks |-> 1]
          \/ pc' = "idle" /\ owed' = [pens |-> 0, blocks |-> 0]
      BY <1>3, <1>4, <2>1 DEF P!Array, P!ReleasePens
    <2>3. owed' = Owes(painter', pc', Len(pens'))
      BY <1>1, <1>4, <2>2 DEF Owes
    <2> QED BY <1>1, <1>2, <1>4, <2>2, <2>3 DEF PInv, P!Array
  <1>5. CASE P!Array /\ painter # "amiga"
    <2>1. owed = [pens |-> 0, blocks |-> 0]
      BY <1>5 DEF PInv, Owes, P!Array
    <2>2. \/ pc' = "copy" /\ owed' = [pens |-> 0, blocks |-> 1]
          \/ pc' = "idle" /\ owed' = [pens |-> 0, blocks |-> 0]
      BY <1>5, <2>1 DEF P!Array
    <2>3. owed' = Owes(painter', pc', Len(pens'))
      BY <1>1, <1>5, <2>2 DEF Owes
    <2> QED BY <1>1, <1>5, <2>2, <2>3 DEF PInv
  <1>6. CASE P!AmigaBitMap
    <2>1. painter = "amiga" /\ pc = "bitmap" /\ owed = [pens |-> Len(pens), blocks |-> 1]
      BY <1>6 DEF PInv, Owes, P!AmigaBitMap
    <2>2. \/ pc' = "copy" /\ owed' = [pens |-> Len(pens), blocks |-> 2]
          \/ pc' = "idle" /\ owed' = [pens |-> 0, blocks |-> 0]
      BY <1>3, <1>6, <2>1 DEF P!AmigaBitMap
    <2>3. owed' = Owes(painter', pc', Len(pens'))
      BY <1>1, <2>1, <2>2 DEF Owes
    <2> QED BY <1>1, <1>2, <2>1, <2>2, <2>3 DEF PInv
  <1> QED BY <1>4, <1>5, <1>6

(* What is copied is given back.                                           *)
LEMMA CopyKeeps ==
  ASSUME PInv, P!AtariCopy \/ P!AmigaCopy \/ P!MacCopy
  PROVE  PInv'
  <1>1. pc = "copy" /\ pc' = "idle" /\ painter' = painter
    BY DEF P!AtariCopy, P!AmigaCopy, P!MacCopy, P!setup
  <1>2. owed' = [pens |-> 0, blocks |-> 0]
    <2>1. CASE P!AmigaCopy
      <3>1. painter = "amiga" /\ Len(pens) \in Nat
        BY <1>1, <2>1, LenProperties DEF PInv, P!AmigaCopy
      <3>2. owed = [pens |-> Len(pens), blocks |-> 2]
        BY <1>1, <3>1 DEF PInv, Owes
      <3> QED BY <2>1, <3>1, <3>2 DEF P!AmigaCopy
    <2>2. CASE P!AtariCopy \/ P!MacCopy
      <3>1. painter # "amiga" /\ owed' = [owed EXCEPT !.blocks = @ - 1]
        BY <2>2 DEF P!AtariCopy, P!MacCopy
      <3>2. owed = [pens |-> 0, blocks |-> 1]
        BY <1>1, <3>1 DEF PInv, Owes
      <3> QED BY <3>1, <3>2
    <2> QED BY <2>1, <2>2
  <1>3. owed' = Owes(painter', pc', Len(pens'))
    BY <1>1, <1>2 DEF Owes
  <1> QED BY <1>1, <1>3 DEF PInv

(* Every step of the pictures keeps the balance.                           *)
LEMMA PNext == PInv /\ P!Next => PInv'
  <1> SUFFICES ASSUME PInv, P!Next
               PROVE  PInv'
    OBVIOUS
  <1>1. ASSUME NEW m, P!Start(m)
        PROVE  PInv'
    <2>1. pc = "idle" /\ pc' \in {"idle", "pens"} /\ pens' = <<>> /\ UNCHANGED <<painter, owed>>
      BY <1>1 DEF P!Start, P!setup
    <2>2. owed' = [pens |-> 0, blocks |-> 0]
      BY <2>1 DEF PInv, Owes
    <2>3. owed' = Owes(painter', pc', Len(pens')) /\ pens' \in Seq(AnyPens')
      BY <2>1, <2>2, EmptySeq DEF Owes
    <2> QED BY <2>1, <2>3 DEF PInv
  <1>2. CASE P!AtariPens \/ P!MacPens
    <2>1. painter # "amiga" /\ painter' = painter /\ pc = "pens" /\ pc' = "array" /\ owed' = owed
      BY <1>2 DEF P!AtariPens, P!MacPens, P!setup
    <2>2. owed' = Owes(painter', pc', Len(pens'))
      BY <2>1 DEF PInv, Owes
    <2> QED BY <2>1, <2>2 DEF PInv
  <1> QED BY <1>1, <1>2, PenKeeps, BlockKeeps, CopyKeeps DEF P!Next

------------------------------------------------------------------------------
(* draw_*.c and metrics_*.c: a call that has returned holds no device      *)
(* context, brush, pen or scratch memory, and between two calls a backend  *)
(* holds the memory and the faces of the open fonts and of the window, for *)
(* every program with finitely many fonts, whichever allocation has failed.*)
THEOREM DrawingGivesBack ==
  ASSUME Plausible
  PROVE  Spec => []NothingHeld
  <1>1. Init => CInv /\ PInv
    <2>1. P!Init => PInv
      BY DEF P!Init, P!Nothing, PInv, Owes
    <2> QED BY <2>1, CInit DEF Init
  <1>2. CInv /\ PInv /\ [Next]_vars => (CInv /\ PInv)'
    <2> SUFFICES ASSUME CInv, PInv, [Next]_vars
                 PROVE  CInv' /\ PInv'
      OBVIOUS
    <2>1. UNCHANGED canvasVars => CInv'
      BY LeavesAlone DEF canvasVars
    <2>2. UNCHANGED pictureVars => PInv'
      BY DEF pictureVars, PInv, AnyPens, P!Colour
    <2> QED BY <2>1, <2>2, CNext, PNext DEF Next, vars
  <1>3. CInv /\ PInv => NothingHeld
    <2>1. ASSUME CInv
          PROVE  C!NothingHeld
      <3>1. {s \in {s \in Slots : font[s] # NoFont} : font[s].owned} = Owns(font)
        BY DEF Owns, Opens
      <3>2. {s \in Slots : font[s] # NoFont} = Opens(font)
        BY DEF Opens
      <3>3. held = Due(font, window)
        BY <2>1 DEF CInv
      <3>4. \A S : C!Cardinality(S) = Cardinality(S)
        BY DEF C!Cardinality, Cardinality
      <3> DEFINE open == {s \in Slots : font[s] # NoFont}
                 owned == {s \in open : font[s].owned}
                 all == C!Cardinality(open)
                 faces == C!Cardinality(owned)
      <3>5. all = Cardinality(Opens(font)) /\ faces = Cardinality(Owns(font))
        BY <3>1, <3>2, <3>4
      <3> HIDE DEF Owns, Opens, all, faces
      <3>6. held = [r \in C!Resources |->
                      CASE r = "memory" -> all + (IF window THEN 1 ELSE 0)
                        [] r = "face" -> faces
                        [] OTHER -> 0]
        BY <3>3, <3>5 DEF Due
      <3>7. held = [r \in C!Resources |->
                      CASE r = "memory" -> C!Cardinality(open) + (IF window THEN 1 ELSE 0)
                        [] r = "face" -> C!Cardinality(owned)
                        [] OTHER -> 0]
        BY <3>6, Zenon DEF all, faces
      <3> QED BY <3>7 DEF C!NothingHeld
    <2>2. PInv => P!NothingHeld
      BY DEF PInv, Owes, P!NothingHeld, P!Nothing
    <2> QED BY <2>1, <2>2 DEF NothingHeld
  <1> QED BY <1>1, <1>2, <1>3, PTL DEF Spec

------------------------------------------------------------------------------
(* A number is made of its quotient and its remainder.                     *)
LEMMA Division ==
  ASSUME NEW a \in Nat, NEW d \in Nat \ {0}
  PROVE  a \div d \in Nat /\ a % d \in 0..(d - 1) /\ a = d * (a \div d) + (a % d)
  OBVIOUS

(* And there is only one way to make it.                                   *)
LEMMA Divided ==
  ASSUME NEW d \in Nat \ {0}, NEW q \in Nat, NEW r \in 0..(d - 1)
  PROVE  (q * d + r) \div d = q /\ (q * d + r) % d = r
  OBVIOUS

(* Of two numbers the greater has the greater quotient.                    *)
LEMMA DivisionGrows ==
  ASSUME NEW a \in Nat, NEW b \in Nat, NEW d \in Nat \ {0}, a <= b
  PROVE  a \div d <= b \div d
  <1> DEFINE p == a \div d
             q == b \div d
  <1>1. /\ p \in Nat /\ a = d * p + (a % d) /\ a % d \in 0..(d - 1)
        /\ q \in Nat /\ b = d * q + (b % d) /\ b % d \in 0..(d - 1)
    BY Division
  <1> HIDE DEF p, q
  <1>2. SUFFICES ASSUME p >= q + 1 PROVE FALSE
    BY <1>1 DEF p, q
  <1>3. d * p >= d * q + d
    <2>1. d * p >= d * (q + 1)
      BY <1>1, <1>2
    <2> QED BY <1>1, <2>1
  <1> QED BY <1>1, <1>3

(* An item of a row of a table, each row as long as the other.             *)
LEMMA InTable ==
  ASSUME NEW n \in Nat, NEW h \in Nat, NEW x \in 0..(n - 1), NEW y \in 0..(h - 1)
  PROVE  y * n + x \in 0..(n * h - 1)
  <1>1. n \in Nat \ {0} /\ y * n \in Nat /\ n * h \in Nat
    OBVIOUS
  <1>2. y * n + n <= h * n
    <2>1. (y + 1) * n <= h * n
      BY <1>1
    <2> QED BY <1>1, <2>1
  <1> QED BY <1>1, <1>2

(* The nearest pixel, when a row of w is sampled at d places.              *)
LEMMA Sampled ==
  ASSUME NEW d \in Nat, NEW w \in Nat \ {0}, NEW p \in 0..(d - 1)
  PROVE  (p * w) \div d \in 0..(w - 1)
  <1> DEFINE q == (p * w) \div d
  <1>1. d \in Nat \ {0} /\ p * w \in Nat
    OBVIOUS
  <1>2. q \in Nat /\ p * w = d * q + ((p * w) % d) /\ (p * w) % d \in 0..(d - 1)
    BY <1>1, Division
  <1>3. p * w < d * w
    BY <1>1
  <1> HIDE DEF q
  <1>4. SUFFICES ASSUME q >= w PROVE FALSE
    BY <1>2 DEF q
  <1>5. d * q >= d * w
    BY <1>1, <1>2, <1>4
  <1> QED BY <1>1, <1>2, <1>3, <1>5

------------------------------------------------------------------------------
(* A picture that a call goes on with, past its first checks.              *)
IsPicture(m) ==
  /\ m \in [id : Nat, w : Nat, h : Nat, count : Nat, dw : Nat, dh : Nat]
  /\ m.w > 0 /\ m.h > 0 /\ m.dw > 0 /\ m.dh > 0 /\ m.count \in 1..16

(* The entry that a pixel should show, of the first n.                     *)
Entry(m, n, x, y) == IF P!Nibble(m, x, y) < n THEN P!Nibble(m, x, y) ELSE 0

(* A nibble of the pictures is an entry of a palette of four.              *)
LEMMA NibbleTyped ==
  ASSUME NEW m, IsPicture(m), NEW x \in Nat, NEW y \in Nat
  PROVE  P!Nibble(m, x, y) \in 0..3
  BY DEF P!Nibble, IsPicture

(* Two nibbles of a byte.                                                  *)
LEMMA TwoNibbles ==
  ASSUME NEW a \in 0..3, NEW b \in 0..3
  PROVE  (16 * a + b) \div 16 = a /\ (16 * a + b) % 16 = b
  OBVIOUS

(* draw_atari.c 207-217: every pixel is found where it was packed, the     *)
(* last of a row of an odd width too.                                      *)
LEMMA EntryFound ==
  ASSUME NEW m, IsPicture(m), NEW n \in Nat, NEW x \in 0..(m.w - 1), NEW y \in 0..(m.h - 1)
  PROVE  P!EntryAt(m, n, x, y) = Entry(m, n, x, y)
  <1> DEFINE r == P!RowBytes(m)
             c == x \div 2
             k == y * r + c
  <1>1. m.w \in Nat \ {0} /\ m.h \in Nat \ {0}
    BY DEF IsPicture
  <1>2. r \in Nat \ {0} /\ 2 * r >= m.w
    BY <1>1 DEF P!RowBytes
  <1>3. c \in 0..(r - 1) /\ x = 2 * c + (x % 2) /\ x % 2 \in {0, 1}
    <2>1. x = 2 * c + (x % 2) /\ x % 2 \in 0..1 /\ c \in Nat
      BY <1>1, Division
    <2> HIDE DEF r, c
    <2> QED BY <1>1, <1>2, <2>1
  <1> HIDE DEF r, c
  <1>4. k \in 0..(r * m.h - 1) /\ k % r = c /\ k \div r = y
    <2>1. y \in Nat
      BY <1>1
    <2>2. k \in 0..(r * m.h - 1)
      BY <1>1, <1>2, <1>3, InTable
    <2>3. k % r = c /\ k \div r = y
      BY <1>2, <1>3, <2>1, Divided
    <2> QED BY <2>2, <2>3
  <1> DEFINE byte(z) == 16 * P!Nibble(m, z, y)
                          + (IF z + 1 < m.w THEN P!Nibble(m, z + 1, y) ELSE 0)
  <1>5. P!Packed(m)[k] = byte(2 * c)
    <2> HIDE DEF k
    <2>1. \A j \in 0..(P!RowBytes(m) * m.h - 1) : P!Packed(m)[j] =
            LET u == 2 * (j % P!RowBytes(m))
                v == j \div P!RowBytes(m)
            IN  16 * P!Nibble(m, u, v) + (IF u + 1 < m.w THEN P!Nibble(m, u + 1, v) ELSE 0)
      BY DEF P!Packed
    <2> QED BY <1>4, <2>1 DEF r
  <1>6. byte(2 * c) \div 16 = P!Nibble(m, 2 * c, y)
    <2>1. P!Nibble(m, 2 * c, y) \in 0..3 /\ P!Nibble(m, 2 * c + 1, y) \in 0..3
      BY <1>1, <1>3, NibbleTyped
    <2> QED BY <2>1, TwoNibbles
  <1>7. 2 * c + 1 < m.w => byte(2 * c) % 16 = P!Nibble(m, 2 * c + 1, y)
    <2>1. P!Nibble(m, 2 * c, y) \in 0..3 /\ P!Nibble(m, 2 * c + 1, y) \in 0..3
      BY <1>1, <1>3, NibbleTyped
    <2> QED BY <2>1, TwoNibbles
  <1> HIDE DEF byte, k
  <1> DEFINE nibble == IF x % 2 = 0 THEN byte(2 * c) \div 16 ELSE byte(2 * c) % 16
  <1>8. nibble = P!Nibble(m, x, y)
    <2>1. CASE x % 2 = 0
      BY <1>3, <1>6, <2>1
    <2>2. CASE x % 2 = 1
      <3>1. x = 2 * c + 1
        BY <1>3, <2>2
      <3> QED BY <1>1, <1>7, <2>2, <3>1
    <2> QED BY <1>3, <2>1, <2>2
  <1>9. P!EntryAt(m, n, x, y) = IF nibble >= n THEN 0 ELSE nibble
    BY <1>5 DEF P!EntryAt, r, c, k
  <1>10. P!Nibble(m, x, y) \in 0..3
    BY <1>1, NibbleTyped
  <1> QED BY <1>8, <1>9, <1>10 DEF Entry

(* An entry is one of the first n.                                         *)
LEMMA EntryTyped ==
  ASSUME NEW m, IsPicture(m), NEW n \in Nat \ {0}, NEW x \in Nat, NEW y \in Nat
  PROVE  Entry(m, n, x, y) \in 0..(n - 1) /\ Entry(m, n, x, y) \in 0..3
  BY NibbleTyped DEF Entry
------------------------------------------------------------------------------
(* The powers of two that eight planes can need.                           *)
LEMMA Powers ==
  /\ 2 ^ 0 = 1 /\ 2 ^ 1 = 2 /\ 2 ^ 2 = 4 /\ 2 ^ 3 = 8 /\ 2 ^ 4 = 16
  /\ 2 ^ 5 = 32 /\ 2 ^ 6 = 64 /\ 2 ^ 7 = 128 /\ 2 ^ 8 = 256
  OBVIOUS

(* Each is twice the one before.                                           *)
LEMMA PowersDouble ==
  ASSUME NEW k \in 0..7
  PROVE  2 ^ k \in Nat \ {0} /\ 2 ^ (k + 1) = 2 * (2 ^ k)
  <1>0. k \in {0, 1, 2, 3, 4, 5, 6, 7}
    OBVIOUS
  <1>1. CASE k = 0
    <2>1. k + 1 = 1
      BY <1>1
    <2> QED BY <1>1, <2>1, Powers
  <1>2. CASE k = 1
    <2>1. k + 1 = 2
      BY <1>2
    <2> QED BY <1>2, <2>1, Powers
  <1>3. CASE k = 2
    <2>1. k + 1 = 3
      BY <1>3
    <2> QED BY <1>3, <2>1, Powers
  <1>4. CASE k = 3
    <2>1. k + 1 = 4
      BY <1>4
    <2> QED BY <1>4, <2>1, Powers
  <1>5. CASE k = 4
    <2>1. k + 1 = 5
      BY <1>5
    <2> QED BY <1>5, <2>1, Powers
  <1>6. CASE k = 5
    <2>1. k + 1 = 6
      BY <1>6
    <2> QED BY <1>6, <2>1, Powers
  <1>7. CASE k = 6
    <2>1. k + 1 = 7
      BY <1>7
    <2> QED BY <1>7, <2>1, Powers
  <1>8. CASE k = 7
    <2>1. k + 1 = 8
      BY <1>8
    <2> QED BY <1>8, <2>1, Powers
  <1> QED BY <1>0, <1>1, <1>2, <1>3, <1>4, <1>5, <1>6, <1>7, <1>8

(* The digits of a number.                                                 *)
LEMMA Halved ==
  ASSUME NEW a \in Nat, NEW d \in Nat \ {0}
  PROVE  a \div d = 2 * (a \div (2 * d)) + ((a \div d) % 2)
  <1> DEFINE q == a \div d
             h == q \div 2
  <1>1. q \in Nat /\ a = d * q + (a % d) /\ a % d \in 0..(d - 1)
    BY Division
  <1>2. h \in Nat /\ q = 2 * h + (q % 2) /\ q % 2 \in {0, 1}
    <2> HIDE DEF q
    <2>1. h \in Nat /\ q = 2 * h + (q % 2) /\ q % 2 \in 0..1
      BY <1>1, Division
    <2> QED BY <2>1
  <1> DEFINE r == d * (q % 2) + (a % d)
  <1>3. r \in 0..(2 * d - 1)
    BY <1>1, <1>2
  <1>4. a = h * (2 * d) + r
    <2>1. ASSUME NEW z \in {0, 1}, q = 2 * h + z
          PROVE  d * q = h * (2 * d) + d * z
      BY <1>2, <2>1
    <2>2. d * q = h * (2 * d) + d * (q % 2)
      BY <1>2, <2>1
    <2> QED BY <1>1, <1>2, <2>2
  <1>5. a \div (2 * d) = h
    <2> HIDE DEF r, h
    <2>1. (h * (2 * d) + r) \div (2 * d) = h
      BY <1>2, <1>3, Divided
    <2> QED BY <1>4, <2>1
  <1> QED BY <1>2, <1>5

(* The bits of n planes are those of one number only.                      *)
LEMMA SameBits ==
  ASSUME NEW n \in 0..8, NEW a \in 0..(2 ^ n - 1), NEW b \in 0..(2 ^ n - 1),
         \A k \in 0..(n - 1) : P!BitOf(a, k) <=> P!BitOf(b, k)
  PROVE  a = b
  <1> DEFINE qa[k \in 0..8] == a \div (2 ^ k)
             qb[k \in 0..8] == b \div (2 ^ k)
  <1>1. 2 ^ n \in Nat \ {0} /\ a \in Nat /\ b \in Nat
    BY PowersDouble, Powers
  <1>2. qa[n] = qb[n]
    <2>1. ASSUME NEW d \in Nat \ {0}, NEW c \in 0..(d - 1)
          PROVE  c \div d = 0
      BY <2>1
    <2>2. a \div (2 ^ n) = 0 /\ b \div (2 ^ n) = 0
      BY <1>1, <2>1
    <2> QED BY <2>2
  <1>3. ASSUME NEW k \in 0..7, k + 1 <= n, qa[k + 1] = qb[k + 1]
        PROVE  qa[k] = qb[k]
    <2> DEFINE d == 2 ^ k
    <2>1. d \in Nat \ {0} /\ 2 ^ (k + 1) = 2 * d
      BY PowersDouble
    <2>0. /\ qa[k + 1] = a \div (2 ^ (k + 1)) /\ qb[k + 1] = b \div (2 ^ (k + 1))
          /\ qa[k] = a \div d /\ qb[k] = b \div d
      OBVIOUS
    <2>3. (a \div d) % 2 = 1 <=> (b \div d) % 2 = 1
      BY <1>3 DEF P!BitOf
    <2> HIDE DEF d, qa, qb
    <2>2. a \div (2 * d) = b \div (2 * d)
      BY <1>3, <2>1, <2>0
    <2>4. (a \div d) % 2 \in 0..1 /\ (b \div d) % 2 \in 0..1
      BY <1>1, <2>1, Division
    <2>5. (a \div d) % 2 = (b \div d) % 2
      BY <2>3, <2>4
    <2>6. a \div d = 2 * (a \div (2 * d)) + ((a \div d) % 2)
      BY <1>1, <2>1, Halved
    <2>7. b \div d = 2 * (b \div (2 * d)) + ((b \div d) % 2)
      BY <1>1, <2>1, Halved
    <2>8. a \div d = b \div d
      BY <2>2, <2>5, <2>6, <2>7
    <2> QED BY <2>8, <2>0
  <1>13. qa[0] = a /\ qb[0] = b
    <2>1. a \div 1 = a /\ b \div 1 = b
      BY <1>1
    <2>2. qa[0] = a \div (2 ^ 0) /\ qb[0] = b \div (2 ^ 0)
      OBVIOUS
    <2> HIDE DEF qa, qb
    <2> QED BY <2>1, <2>2, Powers
  <1> HIDE DEF qa, qb
  <1>4. n = 8 => qa[8] = qb[8]
    BY <1>2
  <1>5. n >= 7 => qa[7] = qb[7]
    BY <1>2, <1>3, <1>4
  <1>6. n >= 6 => qa[6] = qb[6]
    BY <1>2, <1>3, <1>5
  <1>7. n >= 5 => qa[5] = qb[5]
    BY <1>2, <1>3, <1>6
  <1>8. n >= 4 => qa[4] = qb[4]
    BY <1>2, <1>3, <1>7
  <1>9. n >= 3 => qa[3] = qb[3]
    BY <1>2, <1>3, <1>8
  <1>10. n >= 2 => qa[2] = qb[2]
    BY <1>2, <1>3, <1>9
  <1>11. n >= 1 => qa[1] = qb[1]
    BY <1>2, <1>3, <1>10
  <1>12. qa[0] = qb[0]
    BY <1>2, <1>3, <1>11
  <1> QED BY <1>12, <1>13

(* draw_atari.c 184-186: the planes are as many as the colours need.       *)
LEMMA PlanesSuffice ==
  ASSUME colors \in Nat
  PROVE  /\ P!Planes \in 0..8 /\ (P!Planes = 8 \/ 2 ^ P!Planes >= colors)
         /\ colors > 2 => P!Planes >= 2
         /\ colors <= 2 => P!Planes < 2
  <1> DEFINE two[i \in 0..8] == 2 ^ i
             Enough(n) == (n = 8 \/ two[n] >= colors) /\ \A k \in 0..(n - 1) : two[k] < colors
  <1>1. \A i \in 0..8 : two[i] = 2 ^ i
    OBVIOUS
  <1>2. /\ two[0] = 1 /\ two[1] = 2 /\ two[2] = 4 /\ two[3] = 8 /\ two[4] = 16
        /\ two[5] = 32 /\ two[6] = 64 /\ two[7] = 128 /\ two[8] = 256
    BY <1>1, Powers
  <1>3. P!Planes = CHOOSE n \in 0..8 : Enough(n)
    <2>1. \A n \in 0..8 : Enough(n) <=>
             (n = 8 \/ 2 ^ n >= colors) /\ \A k \in 0..(n - 1) : 2 ^ k < colors
      OBVIOUS
    <2> HIDE DEF two
    <2> QED BY <2>1 DEF P!Planes
  <1> HIDE DEF two
  <1>4. \E n \in 0..8 : Enough(n)
    <2>0. CASE colors <= 1
      <3>1. Enough(0)
        BY <1>2, <2>0
      <3> QED BY <3>1
    <2>1. CASE colors = 2
      <3>1. \A k \in 0..0 : two[k] < colors
        BY <1>2, <2>1
      <3>2. Enough(1)
        BY <1>2, <2>1, <3>1
      <3> QED BY <3>2
    <2>2. CASE colors \in 3..4
      <3>1. \A k \in 0..1 : two[k] < colors
        BY <1>2, <2>2
      <3>2. Enough(2)
        BY <1>2, <2>2, <3>1
      <3> QED BY <3>2
    <2>3. CASE colors \in 5..8
      <3>1. \A k \in 0..2 : two[k] < colors
        BY <1>2, <2>3
      <3>2. Enough(3)
        BY <1>2, <2>3, <3>1
      <3> QED BY <3>2
    <2>4. CASE colors \in 9..16
      <3>1. \A k \in 0..3 : two[k] < colors
        BY <1>2, <2>4
      <3>2. Enough(4)
        BY <1>2, <2>4, <3>1
      <3> QED BY <3>2
    <2>5. CASE colors \in 17..32
      <3>1. \A k \in 0..4 : two[k] < colors
        BY <1>2, <2>5
      <3>2. Enough(5)
        BY <1>2, <2>5, <3>1
      <3> QED BY <3>2
    <2>6. CASE colors \in 33..64
      <3>1. \A k \in 0..5 : two[k] < colors
        BY <1>2, <2>6
      <3>2. Enough(6)
        BY <1>2, <2>6, <3>1
      <3> QED BY <3>2
    <2>7. CASE colors \in 65..128
      <3>1. \A k \in 0..6 : two[k] < colors
        BY <1>2, <2>7
      <3>2. Enough(7)
        BY <1>2, <2>7, <3>1
      <3> QED BY <3>2
    <2>8. CASE colors > 128
      <3>1. \A k \in 0..7 : two[k] < colors
        BY <1>2, <2>8
      <3>2. Enough(8)
        BY <1>2, <2>8, <3>1
      <3> QED BY <3>2
    <2> QED BY <2>0, <2>1, <2>2, <2>3, <2>4, <2>5, <2>6, <2>7, <2>8
  <1> DEFINE n == P!Planes
  <1>5. n \in 0..8 /\ Enough(n)
    <2> HIDE DEF Enough
    <2> QED BY <1>3, <1>4
  <1> HIDE DEF n
  <1>6. colors > 2 => n >= 2
    BY <1>2, <1>5
  <1>7. colors <= 2 => n < 2
    <2>1. n >= 2 => two[1] < colors
      BY <1>5
    <2> QED BY <1>2, <1>5, <2>1
  <1>8. n = 8 \/ 2 ^ n >= colors
    BY <1>1, <1>5
  <1> QED BY <1>5, <1>6, <1>7, <1>8 DEF n

------------------------------------------------------------------------------
(* Where a pixel lies in rows of groups of n pixels.                       *)
LEMMA SamePixel ==
  ASSUME NEW n \in Nat \ {0}, NEW x \in Nat, NEW z \in Nat,
         x \div n = z \div n, x % n = z % n
  PROVE  x = z
  <1>1. x = n * (x \div n) + (x % n) /\ z = n * (z \div n) + (z % n)
    BY Division
  <1> QED BY <1>1

(* A row of w pixels, in groups of n, has a group for each of them.        *)
LEMMA GroupInRow ==
  ASSUME NEW n \in Nat \ {0}, NEW w \in Nat, NEW x \in 0..(w - 1)
  PROVE  /\ (w + n - 1) \div n \in Nat \ {0}
         /\ x \div n \in 0..((w + n - 1) \div n - 1)
  <1> DEFINE g == x \div n
             all == (w + n - 1) \div n
  <1>1. g \in Nat /\ x = n * g + (x % n) /\ x % n \in 0..(n - 1)
    <2>1. x \in Nat
      OBVIOUS
    <2> QED BY <2>1, Division
  <1>2. all \in Nat /\ w + n - 1 = n * all + ((w + n - 1) % n) /\ (w + n - 1) % n \in 0..(n - 1)
    <2>1. w + n - 1 \in Nat
      OBVIOUS
    <2> QED BY <2>1, Division
  <1> HIDE DEF g, all
  <1>3. SUFFICES ASSUME g >= all PROVE FALSE
    BY <1>1, <1>2 DEF g, all
  <1>4. n * g >= n * all
    BY <1>1, <1>2, <1>3
  <1> QED BY <1>1, <1>2, <1>4

------------------------------------------------------------------------------
(* draw_atari.c 200-230: the bit of a pixel in a plane is that of its pen. *)
LEMMA PlaneBit ==
  ASSUME PicturesAssumption, IsPicture(image), P!Planes \in Nat \ {0},
         NEW x \in 0..(image.w - 1), NEW y \in 0..(image.h - 1), NEW plane \in 0..(P!Planes - 1)
  PROVE  WORD - 1 - (x % WORD) \in
           P!PlaneBuffer[(y * P!WdWidth + x \div WORD) * P!Planes + plane]
         <=> P!BitOf(pens[P!EntryAt(image, Len(pens), x, y) + 1], plane)
  <1> DEFINE n == P!Planes
             wd == P!WdWidth
             g == x \div WORD
             row == wd * n
             k == (y * wd + g) * n + plane
             Pen(u, v) == pens[P!EntryAt(image, Len(pens), u, v) + 1]
  <1>1. WORD \in Nat \ {0} /\ image.w \in Nat \ {0} /\ image.h \in Nat \ {0}
    BY DEF PicturesAssumption, IsPicture
  <1>2. wd \in Nat \ {0} /\ g \in 0..(wd - 1)
    BY <1>1, GroupInRow DEF P!WdWidth
  <1>3. n \in Nat \ {0}
    OBVIOUS
  <1>4. row \in Nat \ {0} /\ g * n + plane \in 0..(row - 1)
    <2> HIDE DEF n, wd, g
    <2>1. g * n + plane \in 0..(n * wd - 1)
      BY <1>2, <1>3, InTable DEF n
    <2>2. n * wd = row /\ row \in Nat \ {0}
      BY <1>2, <1>3
    <2> QED BY <2>1, <2>2
  <1>5. k = y * row + (g * n + plane)
    <2> HIDE DEF n, wd, g
    <2>1. (y * wd + g) * n = y * (wd * n) + g * n
      BY <1>1, <1>2, <1>3
    <2> QED BY <1>1, <1>2, <1>3, <2>1
  <1>6. /\ k \in 0..(row * image.h - 1) /\ k \div row = y /\ k % row = g * n + plane
    <2> HIDE DEF row, k, g, n
    <2>1. y * row + (g * n + plane) \in 0..(row * image.h - 1)
      BY <1>1, <1>4, InTable
    <2>2. y \in Nat
      BY <1>1
    <2>3. (y * row + (g * n + plane)) \div row = y /\ (y * row + (g * n + plane)) % row = g * n + plane
      BY <1>4, <2>2, Divided
    <2> QED BY <1>5, <2>1, <2>3
  <1>7. (g * n + plane) \div n = g /\ k % n = plane
    <2> HIDE DEF n, wd, g
    <2>1. g \in Nat /\ y * wd + g \in Nat
      BY <1>1, <1>2
    <2>2. (g * n + plane) \div n = g
      BY <1>3, <2>1, Divided DEF n
    <2>3. ((y * wd + g) * n + plane) % n = plane
      BY <1>3, <2>1, Divided DEF n
    <2> QED BY <2>2, <2>3
  <1> DEFINE lit == {u \in 0..(image.w - 1) : u \div WORD = g /\ P!BitOf(Pen(u, y), plane)}
  <1>8. P!PlaneBuffer[k] = {WORD - 1 - (u % WORD) : u \in lit}
    <2>1. \A j \in 0..(row * image.h - 1) : P!PlaneBuffer[j] =
            LET v == j \div row
                group == (j % row) \div n
                pl == j % n
            IN  {WORD - 1 - (u % WORD) : u \in
                   {u \in 0..(image.w - 1) : u \div WORD = group /\ P!BitOf(Pen(u, v), pl)}}
      BY DEF P!PlaneBuffer
    <2> HIDE DEF row, n, k, g, Pen
    <2>2. P!PlaneBuffer[k] =
            {WORD - 1 - (u % WORD) : u \in
               {u \in 0..(image.w - 1) : /\ u \div WORD = (k % row) \div n
                                         /\ P!BitOf(Pen(u, k \div row), k % n)}}
      BY <1>6, <2>1
    <2>3. (k % row) \div n = g /\ k \div row = y /\ k % n = plane
      BY <1>6, <1>7
    <2> QED BY <2>2, <2>3
  <1> HIDE DEF Pen
  <1>9. WORD - 1 - (x % WORD) \in {WORD - 1 - (u % WORD) : u \in lit} <=> x \in lit
    <2>1. ASSUME NEW u \in lit, WORD - 1 - (x % WORD) = WORD - 1 - (u % WORD)
          PROVE  u = x
      <3>1. u \in Nat /\ x \in Nat /\ u \div WORD = x \div WORD
        BY <1>1
      <3>2. u % WORD \in Nat /\ x % WORD \in Nat
        BY <1>1, <3>1, Division
      <3>3. u % WORD = x % WORD
        BY <1>1, <2>1, <3>2
      <3> QED BY <1>1, <3>1, <3>3, SamePixel
    <2> HIDE DEF lit
    <2> QED BY <2>1
  <1>10. x \in lit <=> P!BitOf(Pen(x, y), plane)
    OBVIOUS
  <1> HIDE DEF lit
  <1>11. WORD - 1 - (x % WORD) \in P!PlaneBuffer[k] <=> P!BitOf(Pen(x, y), plane)
    BY <1>8, <1>9, <1>10
  <1> QED BY <1>11 DEF Pen

------------------------------------------------------------------------------
(* vro_cpyfm of the planes: a pixel gets the pen that was put into them.   *)
LEMMA AtariCopies ==
  ASSUME PicturesAssumption, IsPicture(image), P!Planes \in 1..8,
         NEW p \in (0..(image.w - 1)) \X (0..(image.h - 1)), NEW pen \in 0..(2 ^ P!Planes - 1),
         pen = pens[P!EntryAt(image, Len(pens), p[1], p[2]) + 1]
  PROVE  P!Copied(P!PlaneBuffer)[p] = pen
  <1> DEFINE n == P!Planes
             x == p[1]
             y == p[2]
             Bit(plane) == WORD - 1 - (x % WORD) \in
                             P!PlaneBuffer[(y * P!WdWidth + x \div WORD) * n + plane]
             Fits(q) == \A plane \in 0..(n - 1) : P!BitOf(q, plane) <=> Bit(plane)
  <1>1. x \in 0..(image.w - 1) /\ y \in 0..(image.h - 1)
    OBVIOUS
  <1>2. P!Copied(P!PlaneBuffer)[p] = CHOOSE q \in 0..(2 ^ n - 1) : Fits(q)
    BY DEF P!Copied
  <1>3. Fits(pen)
    <2>1. ASSUME NEW plane \in 0..(n - 1)
          PROVE  P!BitOf(pen, plane) <=> Bit(plane)
      <3>1. n \in Nat \ {0}
        OBVIOUS
      <3>2. Bit(plane) <=> P!BitOf(pens[P!EntryAt(image, Len(pens), x, y) + 1], plane)
        BY <1>1, <3>1, PlaneBit
      <3> QED BY <3>2
    <2> HIDE DEF Bit
    <2> QED BY <2>1
  <1> DEFINE q == P!Copied(P!PlaneBuffer)[p]
  <1>4. q \in 0..(2 ^ n - 1) /\ Fits(q)
    <2> HIDE DEF Fits
    <2> QED BY <1>2, <1>3
  <1>5. n \in 0..8 /\ \A plane \in 0..(n - 1) : P!BitOf(q, plane) <=> P!BitOf(pen, plane)
    <2> HIDE DEF q, Bit
    <2> QED BY <1>3, <1>4
  <1> HIDE DEF q, Fits, Bit
  <1>6. q = pen
    BY <1>4, <1>5, SameBits
  <1> QED BY <1>6 DEF q

(* draw_atari.c 189-198: the pens of a picture, and what they show.        *)
AtariReady ==
  /\ pens = [i \in 1..P!Clipped |-> i + 1]
  /\ \A i \in 0..(P!Clipped - 1) : registers[i + 2] = P!Colour(image, i)

(* An entry at least, and none beyond the last register.                   *)
LEMMA ClippedTyped ==
  ASSUME IsPicture(image), colors \in Nat, colors > 2
  PROVE  P!Clipped \in 1..16 /\ P!Clipped <= colors - 2
  <1>1. image.count \in 1..16
    BY DEF IsPicture
  <1> QED BY <1>1 DEF P!Clipped

(* There is a pen for each of these entries.                               *)
LEMMA PenCount ==
  ASSUME AtariReady, P!Clipped \in 1..16
  PROVE  Len(pens) = P!Clipped /\ \A i \in 1..P!Clipped : pens[i] = i + 1
  <1> DEFINE c == P!Clipped
  <1>1. pens \in Seq(Nat) /\ 1..c = DOMAIN pens /\ \A i \in 1..c : pens[i] = i + 1
    BY DEF AtariReady
  <1> HIDE DEF c
  <1>2. Len(pens) \in Nat /\ 1..c = 1..Len(pens)
    BY <1>1, LenProperties
  <1>3. c \in 1..16
    BY DEF c
  <1>4. c \in 1..Len(pens)
    BY <1>2, <1>3
  <1>5. Len(pens) \in 1..c
    BY <1>2, <1>4
  <1> QED BY <1>1, <1>2, <1>3, <1>4, <1>5 DEF c

(* draw_atari.c 189-254: each pixel gets the pen whose register shows its  *)
(* colour.                                                                 *)
LEMMA AtariShows ==
  ASSUME PicturesAssumption, IsPicture(image), colors \in Nat, colors > 2, AtariReady,
         NEW p \in (0..(image.w - 1)) \X (0..(image.h - 1))
  PROVE  registers[P!Copied(P!PlaneBuffer)[p]]
           = P!Colour(image, Entry(image, P!Clipped, p[1], p[2]))
  <1> DEFINE c == P!Clipped
             entry == Entry(image, c, p[1], p[2])
  <1>1. c \in 1..16 /\ c <= colors - 2
    BY ClippedTyped
  <1>2. p[1] \in 0..(image.w - 1) /\ p[2] \in 0..(image.h - 1) /\ p[1] \in Nat /\ p[2] \in Nat
    BY DEF IsPicture
  <1>3. Len(pens) = c /\ \A i \in 1..c : pens[i] = i + 1
    BY <1>1, PenCount
  <1>4. P!EntryAt(image, Len(pens), p[1], p[2]) = entry
    <2> HIDE DEF c
    <2>1. P!EntryAt(image, c, p[1], p[2]) = Entry(image, c, p[1], p[2])
      BY <1>1, <1>2, EntryFound
    <2> QED BY <1>3, <2>1
  <1>5. entry \in 0..(c - 1)
    <2> HIDE DEF c
    <2>0. c \in Nat \ {0}
      BY <1>1
    <2>1. Entry(image, c, p[1], p[2]) \in 0..(c - 1)
      BY <1>2, <2>0, EntryTyped
    <2> QED BY <2>1
  <1> HIDE DEF entry
  <1>6. pens[P!EntryAt(image, Len(pens), p[1], p[2]) + 1] = entry + 2
    <2>1. pens[entry + 1] = (entry + 1) + 1
      BY <1>1, <1>3, <1>5
    <2> QED BY <1>4, <1>5, <2>1
  <1>7. P!Planes \in 1..8 /\ (P!Planes = 8 \/ 2 ^ P!Planes >= colors)
    BY PlanesSuffice
  <1>8. entry + 2 \in 0..(2 ^ P!Planes - 1)
    <2>1. 2 ^ P!Planes \in Nat
      <3>1. P!Planes \in 0..7 \/ P!Planes = 8
        BY <1>7
      <3>2. CASE P!Planes \in 0..7
        BY <3>2, PowersDouble
      <3>3. CASE P!Planes = 8
        BY <3>3, Powers
      <3> QED BY <3>1, <3>2, <3>3
    <2>2. CASE P!Planes = 8
      BY <1>1, <1>5, <2>2, Powers
    <2>3. CASE 2 ^ P!Planes >= colors
      BY <1>1, <1>5, <2>1, <2>3
    <2> QED BY <1>7, <2>2, <2>3
  <1>9. P!Copied(P!PlaneBuffer)[p] = entry + 2
    BY <1>6, <1>7, <1>8, AtariCopies
  <1> QED BY <1>5, <1>9 DEF AtariReady, entry

(* The nearest pixel of the picture to one on the screen.                  *)
NearX(px) == (px * image.w) \div image.dw
NearY(py) == (py * image.h) \div image.dh

(* It is one of the pixels of the picture.                                 *)
LEMMA NearTyped ==
  ASSUME IsPicture(image), NEW px \in 0..(image.dw - 1), NEW py \in 0..(image.dh - 1)
  PROVE  /\ NearX(px) \in 0..(image.w - 1) /\ NearY(py) \in 0..(image.h - 1)
         /\ NearX(px) \in Nat /\ NearY(py) \in Nat
  <1>1. /\ image.w \in Nat \ {0} /\ image.h \in Nat \ {0}
        /\ image.dw \in Nat /\ image.dh \in Nat
    BY DEF IsPicture
  <1>2. NearX(px) \in 0..(image.w - 1)
    BY <1>1, Sampled DEF NearX
  <1>3. NearY(py) \in 0..(image.h - 1)
    BY <1>1, Sampled DEF NearY
  <1> QED BY <1>1, <1>2, <1>3

(* draw_amiga.c 208-221: the array holds the pen of the nearest pixel.     *)
LEMMA AmigaShows ==
  ASSUME IsPicture(image), \A i \in 1..image.count : pens[i] = P!Colour(image, i - 1),
         NEW px \in 0..(image.dw - 1), NEW py \in 0..(image.dh - 1)
  PROVE  P!PenArray[py * image.dw + px]
           = P!Colour(image, Entry(image, image.count, NearX(px), NearY(py)))
  <1> DEFINE d == image.dw
             k == py * d + px
             entry == Entry(image, image.count, NearX(px), NearY(py))
  <1>1. d \in Nat \ {0} /\ image.dh \in Nat /\ image.count \in Nat \ {0} /\ py \in Nat
    BY DEF IsPicture
  <1> HIDE DEF d
  <1>2. px \in 0..(d - 1)
    BY DEF d
  <1>3. k \in 0..(d * image.dh - 1)
    BY <1>1, <1>2, InTable
  <1>4. k \div d = py /\ k % d = px
    BY <1>1, <1>2, Divided
  <1> HIDE DEF k
  <1>5. P!PenArray[k] = pens[P!EntryAt(image, image.count, NearX(px), NearY(py)) + 1]
    BY <1>3, <1>4 DEF P!PenArray, NearX, NearY, d
  <1>6. P!EntryAt(image, image.count, NearX(px), NearY(py)) = entry
    BY <1>1, NearTyped, EntryFound
  <1>7. entry \in 0..(image.count - 1)
    BY <1>1, NearTyped, EntryTyped
  <1> HIDE DEF entry
  <1>8. pens[entry + 1] = P!Colour(image, entry)
    <2>1. entry + 1 \in 1..image.count /\ (entry + 1) - 1 = entry
      BY <1>1, <1>7
    <2> QED BY <2>1
  <1> QED BY <1>5, <1>6, <1>8 DEF k, d, entry

(* draw_mac.c 211-244: the bit of a pixel is the dot that the dither makes.*)
LEMMA MacDot ==
  ASSUME PicturesAssumption, IsPicture(image),
         NEW x \in 0..(image.w - 1), NEW y \in 0..(image.h - 1)
  PROVE  x % P!BYTE \in P!Dithered[y * P!BitRow + x \div P!BYTE]
         <=> P!Black(P!Luminance(Entry(image, image.count, x, y)), x, y)
  <1> DEFINE b == P!BYTE
             row == P!BitRow
             g == x \div b
             k == y * row + g
             Dot(u, v) == P!Black(P!Luminance(P!EntryAt(image, image.count, u, v)), u, v)
  <1>1. /\ image.w \in Nat \ {0} /\ image.h \in Nat \ {0} /\ image.count \in Nat
        /\ x \in Nat /\ y \in Nat
    BY DEF IsPicture
  <1>2. b \in Nat \ {0} /\ WORD = 2 * b
    BY DEF PicturesAssumption, P!BYTE
  <1>3. row \in Nat \ {0} /\ g \in 0..(row - 1)
    <2> DEFINE words == (image.w + WORD - 1) \div WORD
               w == x \div WORD
    <2>1. words \in Nat \ {0} /\ w \in 0..(words - 1) /\ WORD \in Nat \ {0}
      BY <1>1, GroupInRow DEF PicturesAssumption
    <2>2. x = WORD * w + (x % WORD) /\ x % WORD \in 0..(WORD - 1)
      BY <1>1, <2>1, Division
    <2>3. row = words * 2
      BY DEF P!BitRow
    <2>4. g \in Nat /\ x = b * g + (x % b) /\ x % b \in 0..(b - 1)
      BY <1>1, <1>2, Division
    <2> HIDE DEF words, w, b, g, row
    <2>5. x < WORD * words
      <3>1. WORD * (w + 1) <= WORD * words
        BY <2>1
      <3>2. WORD * (w + 1) = WORD * w + WORD
        BY <2>1
      <3> QED BY <2>1, <2>2, <3>1, <3>2
    <2>6. WORD * words = b * row
      BY <1>2, <2>1, <2>3
    <2>7. ASSUME g >= row PROVE FALSE
      <3>1. b * g >= b * row
        BY <1>2, <2>1, <2>3, <2>4, <2>7
      <3> QED BY <1>1, <1>2, <2>1, <2>3, <2>4, <2>5, <2>6, <3>1
    <2> QED BY <2>1, <2>3, <2>4, <2>7
  <1> HIDE DEF b, row, g
  <1>4. k \in 0..(row * image.h - 1)
    BY <1>1, <1>3, InTable
  <1>5. k \div row = y /\ k % row = g
    BY <1>1, <1>3, Divided
  <1> HIDE DEF k
  <1> DEFINE black == {u \in 0..(image.w - 1) : u \div b = g /\ Dot(u, y)}
  <1>6. P!Dithered[k] = {u % b : u \in black}
    <2>1. \A j \in 0..(row * image.h - 1) : P!Dithered[j] =
            LET v == j \div row
            IN  {u % b : u \in {u \in 0..(image.w - 1) : u \div b = j % row /\ Dot(u, v)}}
      BY DEF P!Dithered, row, b
    <2> HIDE DEF Dot
    <2>2. P!Dithered[k] =
            {u % b : u \in {u \in 0..(image.w - 1) : u \div b = k % row /\ Dot(u, k \div row)}}
      BY <1>4, <2>1
    <2> QED BY <1>5, <2>2
  <1>7. x % b \in {u % b : u \in black} <=> x \in black
    <2>1. ASSUME NEW u \in black, x % b = u % b
          PROVE  u = x
      <3> HIDE DEF Dot
      <3>1. u \in Nat /\ u \div b = x \div b
        BY <1>1 DEF g
      <3> QED BY <1>1, <1>2, <2>1, <3>1, SamePixel
    <2> HIDE DEF black
    <2> QED BY <2>1
  <1>8. x \in black <=> Dot(x, y)
    <2> HIDE DEF Dot
    <2> QED BY DEF g
  <1>9. P!EntryAt(image, image.count, x, y) = Entry(image, image.count, x, y)
    BY <1>1, EntryFound
  <1> HIDE DEF black
  <1>10. x % b \in P!Dithered[k] <=> Dot(x, y)
    BY <1>6, <1>7, <1>8
  <1> QED BY <1>9, <1>10 DEF k, g, b, row

(* draw_mac.c 231-240: the dither keeps white white and black black.       *)
LEMMA WhiteStaysWhite ==
  ASSUME NEW x \in Nat, NEW y \in Nat
  PROVE  ~ P!Black(255, x, y) /\ P!Black(0, x, y)
  <1>1. x % 4 \in {0, 1, 2, 3} /\ y % 4 \in {0, 1, 2, 3}
    OBVIOUS
  <1> DEFINE i == (y % 4) + 1
             j == (x % 4) + 1
  <1>2. i \in 1..4 /\ j \in 1..4
    BY <1>1
  <1> HIDE DEF i, j
  <1>3. P!Bayer[i][j] \in 0..15
    BY <1>2 DEF P!Bayer
  <1> QED BY <1>3 DEF P!Black, i, j

------------------------------------------------------------------------------
(* What the screen shows of the picture, for each of the backends.         *)
AtariShown ==
  /\ DOMAIN screen = (0..(image.w - 1)) \X (0..(image.h - 1))
  /\ \A p \in DOMAIN screen :
       registers[screen[p]] = P!Colour(image, Entry(image, P!Clipped, p[1], p[2]))

SizeAsked == DOMAIN screen = (0..(image.dw - 1)) \X (0..(image.dh - 1))

AmigaShown == SizeAsked /\ \A p \in DOMAIN screen :
  screen[p] = P!Colour(image, Entry(image, image.count, NearX(p[1]), NearY(p[2])))

NearEntry(p) == Entry(image, image.count, NearX(p[1]), NearY(p[2]))
MacShown == SizeAsked /\ \A p \in DOMAIN screen :
  /\ screen[p] = P!Black(P!Luminance(NearEntry(p)), NearX(p[1]), NearY(p[2]))
  /\ P!Luminance(NearEntry(p)) = 255 => ~ screen[p]
  /\ P!Luminance(NearEntry(p)) = 0 => screen[p]

Shown ==
  /\ painter = "atari" => AtariShown
  /\ painter = "amiga" => AmigaShown
  /\ painter = "mac" => MacShown
  /\ image.w \in Nat \ {0} /\ image.h \in Nat \ {0}

(* The pens obtained so far are those of the first entries.                *)
AmigaReady ==
  /\ Len(pens) \in 0..image.count
  /\ \A i \in 1..Len(pens) : pens[i] = P!Colour(image, i - 1)
  /\ pc # "pens" => Len(pens) = image.count

(* What a call knows at each of its steps, and leaves behind.              *)
SInv ==
  /\ painter \in {"atari", "amiga", "mac"} /\ colors \in Nat \ {0, 1}
  /\ DOMAIN registers = 0..(colors - 1)
  /\ registers[0] = <<"text", 0>> /\ registers[1] = <<"text", 1>>
  /\ pc # "idle" => status = "none" /\ IsPicture(image) /\ (painter = "atari" => colors > 2)
  /\ painter = "atari" /\ pc \in {"array", "copy"} => AtariReady
  /\ painter = "amiga" /\ pc # "idle" => AmigaReady
  /\ pc = "idle" /\ status = "OK" => Shown

(* A call that passes its checks has a picture to draw.                    *)
LEMMA StartReady ==
  ASSUME PicturesAssumption, SInv, PInv, NEW m \in Images, P!Start(m)
  PROVE  SInv'
  <1>1. /\ image' = m /\ pens' = <<>>
        /\ UNCHANGED <<painter, colors, registers>>
        /\ pc' \in {"idle", "pens"} /\ status' # "OK"
    BY DEF P!Start, P!setup
  <1>2. CASE pc' = "pens"
    <2>1. /\ m.w > 0 /\ m.h > 0 /\ m.dw > 0 /\ m.dh > 0 /\ m.count \in 1..16 /\ status' = "none"
          /\ ~ (painter = "atari" /\ P!Planes < 2)
      BY <1>2 DEF P!Start
    <2>2. IsPicture(m)
      BY <2>1 DEF PicturesAssumption, IsPicture
    <2>3. painter = "atari" => colors > 2
      <3>1. colors \in Nat
        BY DEF SInv
      <3>2. colors <= 2 => P!Planes < 2
        BY <3>1, PlanesSuffice
      <3> QED BY <2>1, <3>1, <3>2
    <2>4. AmigaReady'
      <3>1. Len(pens') = 0 /\ m.count \in 1..16
        BY <1>1, <2>1, EmptySeq
      <3> QED BY <1>1, <1>2, <3>1 DEF AmigaReady
    <2>5. IsPicture(image)'
      BY <1>1, <2>2 DEF IsPicture
    <2> QED BY <1>1, <1>2, <2>1, <2>3, <2>4, <2>5 DEF SInv
  <1>3. CASE pc' = "idle"
    BY <1>1, <1>3 DEF SInv
  <1> QED BY <1>1, <1>2, <1>3

(* The registers of the entries are programmed, those of the text are not. *)
LEMMA AtariPensReady ==
  ASSUME SInv, P!AtariPens
  PROVE  SInv'
  <1>1. /\ painter = "atari" /\ pc = "pens" /\ pc' = "array"
        /\ UNCHANGED <<painter, colors, image, status>>
        /\ pens' = [i \in 1..P!Clipped |-> i + 1]
        /\ registers' = [r \in DOMAIN registers |->
             IF r - 2 \in 0..(P!Clipped - 1) THEN P!Colour(image, r - 2) ELSE registers[r]]
    BY DEF P!AtariPens, P!setup
  <1>2. IsPicture(image) /\ colors \in Nat /\ colors > 2 /\ DOMAIN registers = 0..(colors - 1)
    BY <1>1 DEF SInv
  <1>3. P!Clipped \in 1..16 /\ P!Clipped <= colors - 2 /\ P!Clipped' = P!Clipped
    BY <1>1, <1>2, ClippedTyped DEF P!Clipped
  <1>4. ASSUME NEW i \in 0..(P!Clipped - 1)
        PROVE  registers'[i + 2] = P!Colour(image, i)
    <2> DEFINE r == i + 2
               c == P!Clipped
    <2>1. r \in DOMAIN registers /\ r - 2 = i /\ r - 2 \in 0..(c - 1)
      BY <1>2, <1>3
    <2> HIDE DEF r, c
    <2>2. registers'[r] = P!Colour(image, r - 2)
      BY <1>1, <2>1 DEF c
    <2> QED BY <2>1, <2>2 DEF r
  <1>5. AtariReady'
    BY <1>1, <1>3, <1>4 DEF AtariReady, P!Colour
  <1>6. DOMAIN registers' = 0..(colors - 1)
    BY <1>1, <1>2
  <1>7. registers'[0] = registers[0] /\ registers'[1] = registers[1]
    <2>1. ASSUME NEW r \in {0, 1}
          PROVE  registers'[r] = registers[r]
      <3>1. r \in DOMAIN registers /\ r - 2 \notin 0..(P!Clipped - 1)
        BY <1>2
      <3> QED BY <1>1, <3>1
    <2> QED BY <2>1
  <1>8. IsPicture(image)'
    BY <1>1, <1>2 DEF IsPicture
  <1> QED BY <1>1, <1>2, <1>5, <1>6, <1>7, <1>8 DEF SInv

(* One more pen, of the next entry; or none, and the call has failed.      *)
LEMMA AmigaPenReady ==
  ASSUME SInv, PInv, P!AmigaPen
  PROVE  SInv'
  <1>1. /\ painter = "amiga" /\ pc = "pens" /\ Len(pens) < image.count
        /\ UNCHANGED <<painter, colors, image, registers>>
    BY DEF P!AmigaPen, P!setup
  <1>2. /\ IsPicture(image) /\ status = "none" /\ AmigaReady
        /\ pens \in Seq(AnyPens) /\ Len(pens) \in Nat
    BY <1>1, LenProperties DEF SInv, PInv
  <1>3. image.count \in 1..16 /\ IsPicture(image)'
    BY <1>1, <1>2 DEF IsPicture
  <1>4. CASE /\ pens' = Append(pens, P!Colour(image, Len(pens)))
             /\ pc' = (IF Len(pens') = image.count THEN "array" ELSE pc)
             /\ status' = status
    <2>1. P!Colour(image, Len(pens)) \in AnyPens
      BY <1>2 DEF AnyPens
    <2>2. /\ Len(pens') = Len(pens) + 1 /\ pens'[Len(pens) + 1] = P!Colour(image, Len(pens))
          /\ \A i \in 1..Len(pens) : pens'[i] = pens[i]
      BY <1>2, <1>4, <2>1, AppendProperties
    <2>3. ASSUME NEW i \in 1..Len(pens')
          PROVE  pens'[i] = P!Colour(image, i - 1)
      <3>1. CASE i = Len(pens) + 1
        <4>1. i - 1 = Len(pens)
          BY <1>2, <3>1
        <4> QED BY <2>2, <3>1, <4>1
      <3>2. CASE i \in 1..Len(pens)
        BY <1>2, <2>2, <3>2 DEF AmigaReady
      <3> QED BY <1>2, <2>2, <3>1, <3>2
    <2>4. Len(pens') \in 0..image.count
      <3> DEFINE n == Len(pens)
                 top == image.count
      <3>1. n \in Nat /\ top \in Nat /\ n < top /\ Len(pens') = n + 1
        BY <1>1, <1>2, <1>3, <2>2, SMTT(60)
      <3> HIDE DEF n, top
      <3>2. n + 1 \in 0..top
        BY <3>1
      <3> QED BY <3>1, <3>2 DEF top
    <2>5. AmigaReady'
      BY <1>1, <1>4, <2>3, <2>4 DEF AmigaReady, P!Colour
    <2> QED BY <1>1, <1>2, <1>3, <1>4, <2>5 DEF SInv
  <1>5. CASE pc' = "idle" /\ status' = "ERR"
    BY <1>1, <1>5 DEF SInv
  <1> QED BY <1>4, <1>5 DEF P!AmigaPen

(* An allocation changes none of it.                                       *)
LEMMA BlocksReady ==
  ASSUME SInv, PInv, P!MacPens \/ P!Array \/ P!AmigaBitMap
  PROVE  SInv'
  <1>1. /\ UNCHANGED <<painter, colors, image, pens, registers, screen>>
        /\ pc # "idle" /\ status = "none"
    BY DEF P!MacPens, P!Array, P!AmigaBitMap, P!setup, SInv
  <1>2. /\ (pc' = "idle" => status' # "OK") /\ (pc' # "idle" => status' = "none")
        /\ pc' # "pens"
    BY <1>1 DEF P!MacPens, P!Array, P!AmigaBitMap
  <1>3. painter = "amiga" => pc # "pens"
    BY DEF P!MacPens, P!Array, P!AmigaBitMap
  <1>4. painter = "atari" => pc = "array"
    BY DEF P!MacPens, P!Array, P!AmigaBitMap, PInv
  <1>5. AtariReady' <=> AtariReady
    BY <1>1 DEF AtariReady, P!Clipped, P!Colour
  <1>6. painter = "amiga" => AmigaReady'
    BY <1>1, <1>2, <1>3 DEF SInv, AmigaReady, P!Colour
  <1>7. IsPicture(image)'
    BY <1>1 DEF IsPicture, SInv
  <1> QED BY <1>1, <1>2, <1>4, <1>5, <1>6, <1>7 DEF SInv

(* What is copied to the screen is the picture.                            *)
LEMMA CopiesShow ==
  ASSUME PicturesAssumption, SInv, PInv, P!AtariCopy \/ P!AmigaCopy \/ P!MacCopy
  PROVE  SInv'
  <1>1. /\ UNCHANGED <<painter, colors, image, pens, registers>>
        /\ pc = "copy" /\ pc' = "idle"
    BY DEF P!AtariCopy, P!AmigaCopy, P!MacCopy, P!setup
  <1>2. IsPicture(image)
    BY <1>1 DEF SInv
  <1>3. CASE P!AtariCopy
    <2>1. /\ painter = "atari" /\ screen' = P!Copied(P!PlaneBuffer)
          /\ colors \in Nat /\ colors > 2 /\ AtariReady
      BY <1>1, <1>3 DEF P!AtariCopy, SInv
    <2>2. DOMAIN screen' = (0..(image.w - 1)) \X (0..(image.h - 1))
      BY <2>1 DEF P!Copied
    <2>3. ASSUME NEW p \in DOMAIN screen'
          PROVE  registers[screen'[p]] = P!Colour(image, Entry(image, P!Clipped, p[1], p[2]))
      BY <1>2, <2>1, <2>2, AtariShows
    <2>4. AtariShown'
      BY <1>1, <2>2, <2>3 DEF AtariShown, P!Colour, P!Clipped, Entry, P!Nibble
    <2> QED BY <1>1, <1>2, <2>1, <2>4 DEF SInv, Shown, IsPicture
  <1>4. CASE P!AmigaCopy
    <2>1. painter = "amiga" /\ AmigaReady /\ Len(pens) = image.count
      BY <1>1, <1>4 DEF P!AmigaCopy, SInv, AmigaReady
    <2>2. CASE status' # "OK"
      BY <1>1, <2>2 DEF SInv
    <2>3. CASE status' = "OK"
      <3>1. screen' = [p \in (0..(image.dw - 1)) \X (0..(image.dh - 1)) |->
                         P!PenArray[p[2] * image.dw + p[1]]]
        BY <1>4, <2>3 DEF P!AmigaCopy
      <3>2. ASSUME NEW p \in DOMAIN screen'
            PROVE  screen'[p] = P!Colour(image, Entry(image, image.count, NearX(p[1]), NearY(p[2])))
        <4>1. p[1] \in 0..(image.dw - 1) /\ p[2] \in 0..(image.dh - 1)
          BY <3>1
        <4>2. screen'[p] = P!PenArray[p[2] * image.dw + p[1]]
          BY <3>1
        <4>3. \A i \in 1..image.count : pens[i] = P!Colour(image, i - 1)
          BY <2>1 DEF AmigaReady
        <4>4. P!PenArray[p[2] * image.dw + p[1]]
                = P!Colour(image, Entry(image, image.count, NearX(p[1]), NearY(p[2])))
          BY <1>2, <4>1, <4>3, AmigaShows
        <4> QED BY <4>2, <4>4
      <3>3. AmigaShown'
        BY <1>1, <3>1, <3>2 DEF AmigaShown, SizeAsked, P!Colour, Entry, P!Nibble, NearX, NearY
      <3> QED BY <1>1, <1>2, <2>1, <3>3 DEF SInv, Shown, IsPicture
    <2> QED BY <2>2, <2>3
  <1>5. CASE P!MacCopy
    <2>1. /\ painter = "mac"
          /\ screen' = [p \in (0..(image.dw - 1)) \X (0..(image.dh - 1)) |->
               NearX(p[1]) % P!BYTE \in P!Dithered[NearY(p[2]) * P!BitRow + NearX(p[1]) \div P!BYTE]]
      BY <1>5 DEF P!MacCopy, NearX, NearY
    <2>2. ASSUME NEW p \in DOMAIN screen'
          PROVE  /\ screen'[p] = P!Black(P!Luminance(NearEntry(p)), NearX(p[1]), NearY(p[2]))
                 /\ P!Luminance(NearEntry(p)) = 255 => ~ screen'[p]
                 /\ P!Luminance(NearEntry(p)) = 0 => screen'[p]
      <3> DEFINE x == NearX(p[1])
                 y == NearY(p[2])
      <3>1. p[1] \in 0..(image.dw - 1) /\ p[2] \in 0..(image.dh - 1)
        BY <2>1
      <3>2. screen'[p] = (x % P!BYTE \in P!Dithered[y * P!BitRow + x \div P!BYTE])
        BY <2>1
      <3>3. x \in 0..(image.w - 1) /\ y \in 0..(image.h - 1) /\ x \in Nat /\ y \in Nat
        BY <1>2, <3>1, NearTyped
      <3> HIDE DEF x, y
      <3>4. x % P!BYTE \in P!Dithered[y * P!BitRow + x \div P!BYTE]
              <=> P!Black(P!Luminance(Entry(image, image.count, x, y)), x, y)
        BY <1>2, <3>3, MacDot
      <3>5. screen'[p] = P!Black(P!Luminance(NearEntry(p)), x, y)
        BY <3>2, <3>4 DEF NearEntry, x, y, P!Black
      <3>6. ~ P!Black(255, x, y) /\ P!Black(0, x, y)
        BY <3>3, WhiteStaysWhite
      <3> QED BY <3>5, <3>6 DEF x, y
    <2>3. SizeAsked'
      BY <1>1, <2>1 DEF SizeAsked
    <2>4. (\A p \in DOMAIN screen :
             /\ screen[p] = P!Black(P!Luminance(NearEntry(p)), NearX(p[1]), NearY(p[2]))
             /\ P!Luminance(NearEntry(p)) = 255 => ~ screen[p]
             /\ P!Luminance(NearEntry(p)) = 0 => screen[p])'
      BY <1>1, <2>2 DEF NearEntry, P!Luminance, P!Black, P!Bayer, Entry, P!Nibble, NearX, NearY
    <2>5. MacShown'
      BY <2>3, <2>4 DEF MacShown
    <2> QED BY <1>1, <1>2, <2>1, <2>5 DEF SInv, Shown, IsPicture
  <1> QED BY <1>3, <1>4, <1>5

(* Every step keeps it.                                                    *)
LEMMA SNext == PicturesAssumption /\ SInv /\ PInv /\ P!Next => SInv'
  BY StartReady, AtariPensReady, AmigaPenReady, BlocksReady, CopiesShow DEF P!Next

(* Nothing is drawn, and the text has its colours.                         *)
LEMMA SInit == PicturesAssumption /\ P!Init => SInv
  <1> SUFFICES ASSUME PicturesAssumption, P!Init
               PROVE  SInv
    OBVIOUS
  <1>1. /\ painter \in Painters /\ colors \in (IF painter = "atari" THEN Depths ELSE {2})
        /\ pc = "idle" /\ status = "none"
        /\ registers = [r \in 0..(colors - 1) |-> <<"text", r>>]
    BY DEF P!Init
  <1>2. painter \in {"atari", "amiga", "mac"} /\ colors \in Nat \ {0, 1}
    BY <1>1 DEF PicturesAssumption
  <1>3. registers[0] = <<"text", 0>> /\ registers[1] = <<"text", 1>>
    <2>1. 0 \in 0..(colors - 1) /\ 1 \in 0..(colors - 1)
      BY <1>2
    <2> QED BY <1>1, <2>1
  <1>4. DOMAIN registers = 0..(colors - 1)
    BY <1>1
  <1> QED BY <1>1, <1>2, <1>3, <1>4 DEF SInv

(* A product and its factor.                                               *)
LEMMA FactorOut ==
  ASSUME NEW a \in Nat, NEW b \in Nat \ {0}
  PROVE  (a * b) \div b = a
  <1> DEFINE c == a * b
  <1>1. c \in Nat /\ a * b <= c /\ c < a * b + b
    BY SMT
  <1> HIDE DEF c
  <1>2. c \div b = a
    BY <1>1, SMT
  <1> QED BY <1>2 DEF c

(* What the invariant says of a call that has answered OK is the property. *)
LEMMA ShownIsPromised == SInv => P!PictureShown
  <1> SUFFICES ASSUME SInv
               PROVE  P!PictureShown
    OBVIOUS
  <1>1. registers[0] = <<"text", 0>> /\ registers[1] = <<"text", 1>>
    BY DEF SInv
  <1>2. pc = "idle" /\ status = "OK" =>
          DOMAIN screen = (0..(P!Wide - 1)) \X (0..(P!High - 1))
    BY DEF SInv, Shown, AtariShown, AmigaShown, MacShown, SizeAsked, P!Wide, P!High, P!Unscaled
  <1>3. SUFFICES ASSUME pc = "idle", status = "OK", NEW p \in DOMAIN screen
        PROVE  LET x == (p[1] * image.w) \div P!Wide
                   y == (p[2] * image.h) \div P!High
                   shown == IF painter = "atari" THEN P!Clipped ELSE image.count
                   entry == IF P!Nibble(image, x, y) < shown THEN P!Nibble(image, x, y) ELSE 0
               IN  CASE painter = "atari" -> registers[screen[p]] = P!Colour(image, entry)
                     [] painter = "amiga" -> screen[p] = P!Colour(image, entry)
                     [] painter = "mac" ->
                          /\ screen[p] = P!Black(P!Luminance(entry), x, y)
                          /\ P!Luminance(entry) = 255 => ~ screen[p]
                          /\ P!Luminance(entry) = 0 => screen[p]
    BY <1>1, <1>2 DEF P!PictureShown
  <1>4. Shown
    BY <1>3 DEF SInv
  <1>5. CASE painter = "atari"
    <2>1. /\ registers[screen[p]] = P!Colour(image, Entry(image, P!Clipped, p[1], p[2]))
          /\ p[1] \in Nat /\ p[2] \in Nat /\ image.w \in Nat \ {0} /\ image.h \in Nat \ {0}
          /\ P!Wide = image.w /\ P!High = image.h
      BY <1>2, <1>3, <1>4, <1>5 DEF Shown, AtariShown, P!Wide, P!High, P!Unscaled
    <2>2. (p[1] * image.w) \div P!Wide = p[1] /\ (p[2] * image.h) \div P!High = p[2]
      BY <2>1, FactorOut
    <2> QED BY <1>5, <2>1, <2>2 DEF Entry
  <1>6. CASE painter = "amiga"
    <2>1. /\ screen[p] = P!Colour(image, Entry(image, image.count, NearX(p[1]), NearY(p[2])))
          /\ P!Wide = image.dw /\ P!High = image.dh
      BY <1>3, <1>4, <1>6 DEF Shown, AmigaShown, P!Wide, P!High, P!Unscaled
    <2> QED BY <1>6, <2>1 DEF Entry, NearX, NearY
  <1>7. CASE painter = "mac"
    <2>1. /\ screen[p] = P!Black(P!Luminance(NearEntry(p)), NearX(p[1]), NearY(p[2]))
          /\ P!Luminance(NearEntry(p)) = 255 => ~ screen[p]
          /\ P!Luminance(NearEntry(p)) = 0 => screen[p]
          /\ P!Wide = image.dw /\ P!High = image.dh
      BY <1>3, <1>4, <1>7 DEF Shown, MacShown, P!Wide, P!High, P!Unscaled
    <2> QED BY <1>7, <2>1 DEF NearEntry, Entry, NearX, NearY
  <1> QED BY <1>5, <1>6, <1>7 DEF SInv

(* What another service does leaves the pictures alone.                    *)
LEMMA PicturesStay == PInv /\ SInv /\ UNCHANGED pictureVars => PInv' /\ SInv'
  <1> SUFFICES ASSUME PInv, SInv, UNCHANGED pictureVars
               PROVE  PInv' /\ SInv'
    OBVIOUS
  <1>1. UNCHANGED <<painter, colors, pc, image, pens, owed, registers, screen, status>>
    BY DEF pictureVars
  <1>2. PInv'
    BY <1>1 DEF PInv, AnyPens, P!Colour
  <1>3. /\ AtariReady' <=> AtariReady
        /\ AmigaReady' <=> AmigaReady
    BY <1>1 DEF AtariReady, AmigaReady, P!Clipped, P!Colour
  <1>4. Shown' <=> Shown
    BY <1>1 DEF Shown, AtariShown, AmigaShown, MacShown, SizeAsked, NearEntry, NearX, NearY, Entry,
      P!Clipped, P!Colour, P!Nibble, P!Luminance, P!Black, P!Bayer
  <1>5. IsPicture(image)' <=> IsPicture(image)
    BY <1>1 DEF IsPicture
  <1> QED BY <1>1, <1>2, <1>3, <1>4, <1>5 DEF SInv

(* platform.h:144-161: for every picture, every number of colours and      *)
(* every width of a word, whatever is drawn in whatever order and whichever*)
(* allocation fails, a picture has the size asked for (its own on the      *)
(* Atari) and each pixel its colour.                                       *)
THEOREM PicturesShown == Spec => []PictureShown
  <1>1. Init => PInv /\ SInv
    <2>1. P!Init => PInv
      BY DEF P!Init, P!Nothing, PInv, Owes
    <2> QED BY <2>1, SInit, PicturesAssumption DEF Init
  <1>2. PInv /\ SInv /\ [Next]_vars => (PInv /\ SInv)'
    <2> SUFFICES ASSUME PInv, SInv, [Next]_vars
                 PROVE  PInv' /\ SInv'
      OBVIOUS
    <2> QED BY PicturesStay, PNext, SNext, PicturesAssumption DEF Next, vars
  <1>3. SInv => PictureShown
    BY ShownIsPromised DEF PictureShown
  <1> QED BY <1>1, <1>2, <1>3, PTL DEF Spec

------------------------------------------------------------------------------
(* What a font may be on the Atari: a cell chosen for a size asked for.    *)
FInv ==
  /\ target \in Targets /\ device \in Devices[target]
  /\ DOMAIN font = Slots
  /\ target = "atari" => \A s \in Slots : font[s] # NoFont =>
       \E q \in Requests : font[s].size = C!PickPointSize(q.size, device)

(* The canvas's numbers are those of AtariFonts.                           *)
LEMMA SameCells == \A pt : C!VstPoint(pt) = VstPoint(pt)
  BY DEF C!VstPoint, VstPoint

(* Its resolutions,                                                        *)
LEMMA SameMicrons == \A um : C!Microns(um) = Microns(um) /\ C!Dpi(um) = Dpi(um)
  BY DEF C!Microns, Microns, C!Dpi, Dpi, C!Assumed, Assumed

(* its shapes,                                                             *)
LEMMA SameShapes == \A cell, d : C!TextShaped(cell, d) <=> TextShaped(cell, d)
  BY SameMicrons DEF C!TextShaped, TextShaped

(* what it counts,                                                         *)
LEMMA SameCount == \A S : C!Cardinality(S) = Cardinality(S)
  BY DEF C!Cardinality, Cardinality

(* its table,                                                              *)
LEMMA SameTable == C!FontTable = FontTable
  BY SameCells, SameCount DEF C!FontTable, FontTable, C!MaxFontSizes, MaxFontSizes

(* its distances,                                                          *)
LEMMA SameDelta == \A pt, size, d : C!Delta(pt, size, d) = Delta(pt, size, d)
  BY SameCells, SameMicrons DEF C!Delta, Delta, C!TargetHeight, TargetHeight

(* the nearest cell,                                                       *)
LEMMA SameNearest == \A pts, size, d : C!NearestOf(pts, size, d) = NearestOf(pts, size, d)
  BY SameDelta DEF C!NearestOf, NearestOf

(* the one chosen,                                                         *)
LEMMA SamePick == \A size, d : C!PickPointSize(size, d) = PickPointSize(size, d)
  BY SameCells, SameShapes, SameTable, SameNearest DEF C!PickPointSize, PickPointSize

(* and the height of a line.                                               *)
LEMMA SameLines ==
  \A cell, dpi : /\ C!LineHeight(cell, dpi) = LineHeight(cell, dpi)
                 /\ \A n : C!ToPixels(n, dpi) = ToPixels(n, dpi)
  BY DEF C!LineHeight, LineHeight, C!Ascent, Ascent, C!Descent, Descent, C!Leading, Leading,
    C!ToTwips, ToTwips, C!ToPixels, ToPixels, C!ScaleRound, ScaleRound

(* No font is open before the first call.                                  *)
LEMMA FInit == C!Init => FInv
  BY DEF C!Init, FInv

(* A font that is opened on the Atari is a cell chosen for its size.       *)
LEMMA OpenFits ==
  ASSUME FInv, NEW s \in Slots, NEW q \in Requests, C!Open(s, q)
  PROVE  FInv'
  <1>1. UNCHANGED <<target, device>> /\ font[s] = NoFont
    BY DEF C!Open, C!setup
  <1>2. CASE target = "atari"
    <2>1. C!AtariOpen(s, q)
      BY <1>2 DEF C!Open, C!AmigaOpen, C!MacOpen, C!GdiOpen, C!QtOpen, C!HostOpen
    <2>2. CASE UNCHANGED font
      BY <1>1, <2>2 DEF FInv
    <2>3. CASE font' # font
      <3> DEFINE f == [size |-> C!PickPointSize(q.size, device),
                       style |-> q.style \cap C!Effects, owned |-> FALSE]
      <3>1. font' = [font EXCEPT ![s] = f]
        BY <2>1, <2>3 DEF C!AtariOpen, C!Opened, C!NotOpened
      <3>2. f.size = C!PickPointSize(q.size, device)
        OBVIOUS
      <3> HIDE DEF f
      <3> QED BY <1>1, <1>2, <3>1, <3>2 DEF FInv
    <2> QED BY <2>2, <2>3
  <1>3. CASE target # "atari"
    <2>1. ASSUME NEW f, NEW taken, NEW given,
                 C!Opened(s, f, taken, given) \/ C!NotOpened(taken, given)
          PROVE  DOMAIN font' = DOMAIN font
      BY <2>1 DEF C!Opened, C!NotOpened
    <2>2. \/ C!AmigaOpen(s, q) \/ C!MacOpen(s, q) \/ C!GdiOpen(s, q)
          \/ C!QtOpen(s, q) \/ C!HostOpen(s, q)
      BY <1>3 DEF C!Open, C!AtariOpen
    <2>3. DOMAIN font' = DOMAIN font
      <3>1. CASE C!AmigaOpen(s, q)
        BY <2>1, <3>1 DEF C!AmigaOpen
      <3>2. CASE C!MacOpen(s, q)
        BY <2>1, <3>2 DEF C!MacOpen
      <3>3. CASE C!GdiOpen(s, q)
        BY <2>1, <3>3 DEF C!GdiOpen
      <3>4. CASE C!QtOpen(s, q)
        BY <2>1, <3>4 DEF C!QtOpen
      <3>5. CASE C!HostOpen(s, q)
        BY <2>1, <3>5 DEF C!HostOpen
      <3> QED BY <2>2, <3>1, <3>2, <3>3, <3>4, <3>5
    <2> QED BY <1>1, <1>3, <2>3 DEF FInv
  <1> QED BY <1>2, <1>3

(* No step of the canvas makes it another one, or changes the screen.      *)
LEMMA FNext == FInv /\ C!Next => FInv'
  <1> SUFFICES ASSUME FInv, C!Next
               PROVE  FInv'
    OBVIOUS
  <1>1. ASSUME UNCHANGED <<target, device, font>>
        PROVE  FInv'
    BY <1>1 DEF FInv
  <1>2. ASSUME NEW s \in Slots, C!Close(s)
        PROVE  FInv'
    <2>1. UNCHANGED <<target, device>> /\ font' = [font EXCEPT ![s] = NoFont]
      BY <1>2 DEF C!Close, C!setup
    <2> QED BY <2>1 DEF FInv
  <1>3. ASSUME \/ \E s \in Slots, t \in C!Texts \cup {C!Lines} : C!Measure(s, t)
               \/ \E s \in Slots, t \in C!Texts, c \in C!Colours : C!Draw(s, t, c)
               \/ \E c \in C!Colours : C!Fill(c)
               \/ \E px \in Pixels : C!PxToTwips(px)
               \/ C!TwipsToPx
               \/ C!Window
               \/ C!Itself
        PROVE  FInv'
    <2>1. UNCHANGED <<target, device, font>>
      BY <1>3 DEF C!Measure, C!Draw, C!Fill, C!PxToTwips, C!TwipsToPx, C!Window, C!Itself, C!setup
    <2> QED BY <1>1, <2>1
  <1> QED BY <1>2, <1>3, OpenFits DEF C!Next

(* A screen as FontsAssumption has it.                                     *)
IsScreen(d) == IsDevice(d) /\ (d.umy # 0 => 25400 \div d.umy < 480)

(* What it reports, or what is assumed instead, is less than 480 dots.     *)
LEMMA CoarseEnough ==
  ASSUME NEW um \in Nat, um # 0 => 25400 \div um < 480
  PROVE  Dpi(um) \in 1..479
  BY DEF Dpi, Assumed

(* Each of the VDI's cells is as high as its three parts together.         *)
LEMMA CellLine ==
  ASSUME NEW pt \in Int, NEW dpi \in 1..479
  PROVE  ToPixels(LineHeight(VstPoint(pt), dpi), dpi) = VstPoint(pt).h
  <1> DEFINE cell == VstPoint(pt)
  <1>1. /\ cell.ascent \in Nat /\ cell.descent \in Nat /\ cell.h \in Nat
        /\ cell.ascent + cell.descent <= cell.h
    BY CellTyped
  <1> HIDE DEF cell
  <1>2. ToPixels(LineHeight(cell, dpi), dpi) = cell.h
    BY <1>1, LineIsTheCell
  <1> QED BY <1>2 DEF cell

(* So is the one that is chosen on such a screen.                          *)
LEMMA ChosenLine ==
  ASSUME NEW d, IsScreen(d), NEW size \in Nat
  PROVE  ToPixels(LineHeight(VstPoint(PickPointSize(size, d)), Dpi(d.umy)), Dpi(d.umy))
           = VstPoint(PickPointSize(size, d)).h
  <1>1. Dpi(d.umy) \in 1..479
    BY CoarseEnough DEF IsScreen, IsDevice
  <1>2. PickPointSize(size, d) \in Int
    BY PickedFits DEF IsScreen
  <1> QED BY <1>1, <1>2, CellLine

(* A font that was chosen so is as LinesFitTheCell says.                   *)
LEMMA FitsAsPromised == FontsAssumption /\ FInv => C!LinesFitTheCell
  <1> SUFFICES ASSUME FontsAssumption, FInv, target = "atari", NEW s \in Slots, font[s] # NoFont
               PROVE  /\ C!ToPixels(C!LineHeight(C!VstPoint(font[s].size), C!Dpi(device.umy)),
                                    C!Dpi(device.umy)) = C!VstPoint(font[s].size).h
                      /\ \/ C!TextShaped(C!VstPoint(font[s].size), device)
                         \/ \A pt \in 1..48 : ~ C!TextShaped(C!VstPoint(pt), device)
    BY DEF C!LinesFitTheCell
  <1> DEFINE d == device
             pt == font[s].size
  <1>1. PICK q \in Requests : pt = PickPointSize(q.size, d)
    BY SamePick DEF FInv
  <1>2. q.size \in Nat /\ IsScreen(d) /\ IsDevice(d)
    BY DEF FontsAssumption, FInv, IsScreen, IsDevice
  <1> HIDE DEF d, pt
  <1>3. TextShaped(VstPoint(pt), d) \/ \A p \in 1..48 : ~ TextShaped(VstPoint(p), d)
    BY <1>1, <1>2, PickedFits
  <1>4. ToPixels(LineHeight(VstPoint(pt), Dpi(d.umy)), Dpi(d.umy)) = VstPoint(pt).h
    BY <1>1, <1>2, ChosenLine
  <1> QED BY <1>3, <1>4, SameCells, SameShapes, SameLines, SameMicrons DEF pt, d

(* metrics_atari.c 296-309 and 414-453: on every such screen, for every    *)
(* size, the parts of a line are together its cell, and the cell is shaped *)
(* like text if any is, however fonts are opened and closed.               *)
THEOREM LinesFit == Spec => []LinesFitTheCell
  <1>1. Init => FInv
    BY FInit DEF Init
  <1>2. FInv /\ [Next]_vars => FInv'
    <2> SUFFICES ASSUME FInv, [Next]_vars
                 PROVE  FInv'
      OBVIOUS
    <2>1. ASSUME UNCHANGED canvasVars
          PROVE  FInv'
      BY <2>1 DEF canvasVars, FInv
    <2> QED BY <2>1, FNext DEF Next, vars
  <1>3. FInv => LinesFitTheCell
    BY FitsAsPromised, FontsAssumption DEF LinesFitTheCell
  <1> QED BY <1>1, <1>2, <1>3, PTL DEF Spec

------------------------------------------------------------------------------
(* The text service's bytes are those of Utf8: its cutting,                *)
LEMMA SameCut == \A s, n : E!Cut(s, n) = Cut(s, n)
  BY Zenon DEF E!Cut, Cut, E!Min, Min

(* its lead bytes,                                                         *)
LEMMA SameLead == \A b, n : E!SeqLen(b) = SeqLen(b) /\ E!LeadBits(b, n) = LeadBits(b, n)
  BY Zenon DEF E!SeqLen, SeqLen, E!LeadBits, LeadBits

(* its numbers,                                                            *)
LEMMA SameSpelt == \A s, n : E!Spelt(s, n) = Spelt(s, n)
  BY ZenonT(60) DEF E!Spelt, Spelt, E!LeadBits, LeadBits

(* its last code point,                                                    *)
LEMMA SameLast == E!LastCp = LastCp
  BY SMT DEF E!LastCp, LastCp

(* its scalar values,                                                      *)
LEMMA SameScalar == \A cp : E!IsScalar(cp) <=> IsScalar(cp)
  BY SameLast, SMT DEF E!IsScalar, IsScalar

(* its trailing bytes,                                                     *)
LEMMA SameTrail == \A b : E!IsContinuation(b) <=> IsContinuation(b)
  BY Zenon DEF E!IsContinuation, IsContinuation

(* its least code points,                                                  *)
LEMMA SameMin == E!MinCp = MinCp
  BY SMT DEF E!MinCp, MinCp

(* its decoding                                                            *)
LEMMA SameDecode == \A s : E!Decode(s) = Decode(s)
  BY SameLead, SameSpelt, SameScalar, SameTrail, SameMin, SMT DEF E!Decode, Decode

(* and encoding,                                                           *)
LEMMA SameEncode == \A cp : E!Encode(cp) = Encode(cp)
  BY SameScalar, SameMin, SMT DEF E!Encode, Encode

(* its larger and smaller numbers,                                         *)
LEMMA SameLarger == \A S : E!Max(S) = Max(S) /\ E!Min(S) = Min(S)
  BY Zenon DEF E!Max, Max, E!Min, Min

(* its characters,                                                         *)
LEMMA SameClusters == \A s : E!Clusters(s) = Clusters(s)
  BY SameDecode, SameLarger, Zenon DEF E!Clusters, Clusters

(* its validation,                                                         *)
LEMMA SameValidate == \A s : E!Validate(s) = Validate(s)
  BY SameDecode, Zenon DEF E!Validate, Validate

(* its steps,                                                              *)
LEMMA SameOffsets ==
  \A s, o : E!NextOffset(s, o) = NextOffset(s, o) /\ E!PrevOffset(s, o) = PrevOffset(s, o)
  <1>1. \A s, o : E!NextOffset(s, o) = NextOffset(s, o)
    BY Zenon DEF E!NextOffset, NextOffset, E!Max, Max, E!Min, Min, E!SeqLen, SeqLen
  <1>2. \A s, o : E!PrevOffset(s, o) = PrevOffset(s, o)
    BY Zenon DEF E!PrevOffset, PrevOffset, E!Max, Max, E!IsContinuation, IsContinuation
  <1> QED BY <1>1, <1>2

(* its counting,                                                           *)
LEMMA SameCpCount == \A s : E!CpCount(s) = CpCount(s)
  BY SameOffsets, Zenon DEF E!CpCount, CpCount

(* what it takes for a character,                                          *)
LEMMA SameChar == \A s : E!IsChar(s) <=> IsChar(s)
  BY Zenon DEF E!IsChar, IsChar

(* where one starts,                                                       *)
LEMMA SameBoundaries == \A s : E!Boundaries(s) = Boundaries(s)
  BY Zenon DEF E!Boundaries, Boundaries, E!IsChar, IsChar

(* what it calls well formed,                                              *)
LEMMA SameFormed == \A s : E!WellFormed(s) <=> WellFormed(s)
  BY SameBoundaries DEF E!WellFormed, WellFormed

(* the size of its sets,                                                   *)
LEMMA SameSize == \A S : E!Cardinality(S) = Cardinality(S)
  BY Zenon DEF E!Cardinality, Cardinality

(* what it makes of a text,                                                *)
LEMMA SameMapped ==
  \A limit, s, cap : /\ E!ToBytes(limit, s, cap) = ToBytes(limit, s, cap)
                     /\ E!Unmapped(limit, s, cap) = Unmapped(limit, s, cap)
  <1>1. E!Fallback = Fallback
    BY DEF E!Fallback, Fallback
  <1>2. \A limit, s, cap : E!ToBytes(limit, s, cap) = ToBytes(limit, s, cap)
    BY <1>1, SameClusters, SameCut, Zenon DEF E!ToBytes, ToBytes
  <1>3. \A limit, s, cap : E!Unmapped(limit, s, cap) = Unmapped(limit, s, cap)
    BY SameClusters, SameCut, SameSize, Zenon DEF E!Unmapped, Unmapped
  <1> QED BY <1>2, <1>3

(* what it writes,                                                         *)
LEMMA SameAll == \A n : E!EncodeAll(n) = EncodeAll(n)
  BY SameEncode, Zenon DEF E!EncodeAll, EncodeAll

(* and what it makes of a native text.                                     *)
LEMMA SameNatives ==
  \A n, cap : /\ E!FromAscii(n, cap) = FromAscii(n, cap)
              /\ E!FromLatin1(n, cap) = FromLatin1(n, cap)
              /\ E!ToAnsi(n, cap) = ToAnsi(n, cap)
              /\ E!FromAnsi(n, cap) = FromAnsi(n, cap)
  <1>1. E!Fallback = Fallback
    BY DEF E!Fallback, Fallback
  <1>2. \A n, cap : E!FromAscii(n, cap) = FromAscii(n, cap)
    BY <1>1, SameCut, Zenon DEF E!FromAscii, FromAscii
  <1>3. \A n, cap : E!FromLatin1(n, cap) = FromLatin1(n, cap)
    BY SameAll, SameCut, SameLarger, Zenon DEF E!FromLatin1, FromLatin1
  <1>4. \A s, cap : E!WholeOrNone(s, cap) = WholeOrNone(s, cap)
    BY Zenon DEF E!WholeOrNone, WholeOrNone
  <1>5. \A n, cap : E!ToAnsi(n, cap) = ToAnsi(n, cap) /\ E!FromAnsi(n, cap) = FromAnsi(n, cap)
    BY <1>4, SameMapped, SameAll, Zenon DEF E!ToAnsi, ToAnsi, E!FromAnsi, FromAnsi
  <1> QED BY <1>2, <1>3, <1>5

(* A text as it was at the start, the cursor between two characters if it  *)
(* has any, and what a conversion has made of the text.                    *)
EInv ==
  /\ text \in Seq(Bytes) /\ Len(text) <= MaxBytes
  /\ at \in 0..Len(text)
  /\ WellFormed(text) => at \in Boundaries(text)
  /\ \/ converted = E!Nothing
     \/ \E set \in E!Charsets, cap \in Caps :
          converted = [set |-> set, cap |-> cap, native |-> E!ToNative(set, text, cap),
                       back |-> E!FromNative(set, E!ToNative(set, text, cap), cap)]

(* A text is one of bytes.                                                 *)
LEMMA BytesAreBytes == TextsAssumption => \A s \in Seq(Bytes) : s \in Seq(Byte)
  <1>1. TextsAssumption => Bytes \subseteq Byte
    BY DEF TextsAssumption, Byte
  <1> QED BY <1>1, Widen

(* The cursor, wherever it may be.                                         *)
LEMMA CursorSteps ==
  ASSUME NEW s \in Seq(Byte), NEW o \in 0..Len(s), WellFormed(s) => o \in Boundaries(s)
  PROVE  /\ o < Len(s) =>
              /\ NextOffset(s, o) \in (o + 1)..Len(s)
              /\ WellFormed(s) => /\ NextOffset(s, o) \in Boundaries(s)
                                  /\ PrevOffset(s, NextOffset(s, o)) = o
         /\ o > 0 => /\ PrevOffset(s, o) \in 0..(o - 1)
                     /\ WellFormed(s) => PrevOffset(s, o) \in Boundaries(s)
  <1>1. Len(s) \in Nat /\ o \in Nat
    OBVIOUS
  <1>2. ASSUME o < Len(s)
        PROVE  /\ NextOffset(s, o) \in (o + 1)..Len(s)
               /\ WellFormed(s) => /\ NextOffset(s, o) \in Boundaries(s)
                                   /\ PrevOffset(s, NextOffset(s, o)) = o
    <2>1. o \in 0..(Len(s) - 1)
      BY <1>1, <1>2
    <2>2. NextOffset(s, o) \in (o + 1)..Len(s)
      BY <2>1, NextFits
    <2>3. ASSUME WellFormed(s)
          PROVE  NextOffset(s, o) \in Boundaries(s) /\ PrevOffset(s, NextOffset(s, o)) = o
      <3>1. PICK n : CharAt(s, o, n)
        BY <1>2, <2>3, NextBoundary DEF WellFormed
      <3>2. NextOffset(s, o) = o + n /\ PrevOffset(s, o + n) = o
        BY <3>1, CharAtNext, CharAtPrev
      <3>3. o + n \in Boundaries(s)
        BY <2>3, <3>1, BoundaryChars
      <3> QED BY <3>2, <3>3
    <2> QED BY <2>2, <2>3
  <1>3. ASSUME o > 0
        PROVE  /\ PrevOffset(s, o) \in 0..(o - 1)
               /\ WellFormed(s) => PrevOffset(s, o) \in Boundaries(s)
    <2>1. o \in Nat \ {0}
      BY <1>1, <1>3
    <2>2. PrevOffset(s, o) \in 0..(o - 1)
      BY <2>1, PrevFits
    <2>3. ASSUME WellFormed(s)
          PROVE  PrevOffset(s, o) \in Boundaries(s)
      <3>0. PICK p \in Boundaries(s) : \E n : CharAt(s, p, n) /\ o = p + n
        BY <2>1, <2>3, BoundaryChars
      <3>1. PICK n : CharAt(s, p, n) /\ o = p + n
        BY <3>0
      <3>2. p \in 0..Len(s)
        BY BoundaryChars
      <3>3. PrevOffset(s, o) = p
        BY <3>1, <3>2, CharAtPrev
      <3> QED BY <3>3
    <2> QED BY <2>2, <2>3
  <1> QED BY <1>2, <1>3

(* No text is converted at the start, and the cursor is before it.         *)
LEMMA EInit == TextsAssumption /\ E!Init => EInv
  <1> SUFFICES ASSUME TextsAssumption, E!Init PROVE EInv
    OBVIOUS
  <1>1. at = 0 /\ converted = E!Nothing
    BY DEF E!Init
  <1>2. PICK n \in 0..MaxBytes : text \in [1..n -> Bytes]
    BY DEF E!Init
  <1>3. n \in Nat /\ n <= MaxBytes
    BY <1>2 DEF TextsAssumption
  <1>4. text \in Seq(Bytes) /\ Len(text) = n
    BY <1>2, <1>3
  <1>5. text \in Seq(Byte)
    BY <1>4, BytesAreBytes
  <1>6. 0 \in Boundaries(text)
    BY <1>5, BoundaryChars
  <1> QED BY <1>1, <1>3, <1>4, <1>6 DEF EInv

(* No step takes the cursor into a character.                              *)
LEMMA ENext == TextsAssumption /\ EInv /\ E!Next => EInv'
  <1> SUFFICES ASSUME TextsAssumption, EInv, E!Next PROVE EInv'
    OBVIOUS
  <1>1. text' = text
    BY DEF E!Next, E!Forward, E!Backward, E!Convert
  <1>2. text \in Seq(Byte) /\ at \in 0..Len(text) /\ (WellFormed(text) => at \in Boundaries(text))
    BY BytesAreBytes DEF EInv
  <1>3. ASSUME converted' = converted, at' \in 0..Len(text), WellFormed(text) => at' \in Boundaries(text)
        PROVE  EInv'
    BY <1>1, <1>3 DEF EInv
  <1>4. Len(text) \in Nat
    BY <1>2
  <1>5. CASE E!Forward
    <2>1. at < Len(text) /\ at' = NextOffset(text, at) /\ converted' = converted
      BY <1>5, SameOffsets DEF E!Forward
    <2>2. /\ NextOffset(text, at) \in (at + 1)..Len(text)
          /\ WellFormed(text) => NextOffset(text, at) \in Boundaries(text)
      BY <1>2, <2>1, CursorSteps
    <2>3. at' \in 0..Len(text)
      BY <1>2, <1>4, <2>1, <2>2
    <2> QED BY <1>3, <2>1, <2>2, <2>3
  <1>6. CASE E!Backward
    <2>1. at > 0 /\ at' = PrevOffset(text, at) /\ converted' = converted
      BY <1>6, SameOffsets DEF E!Backward
    <2>2. /\ PrevOffset(text, at) \in 0..(at - 1)
          /\ WellFormed(text) => PrevOffset(text, at) \in Boundaries(text)
      BY <1>2, <2>1, CursorSteps
    <2>3. at' \in 0..Len(text)
      BY <1>2, <1>4, <2>1, <2>2
    <2> QED BY <1>3, <2>1, <2>2, <2>3
  <1>7. CASE \E set \in E!Charsets, cap \in Caps : E!Convert(set, cap)
    <2>1. PICK set \in E!Charsets, cap \in Caps : E!Convert(set, cap)
      BY <1>7
    <2>2. /\ UNCHANGED <<text, at>>
          /\ converted' = [set |-> set, cap |-> cap, native |-> E!ToNative(set, text, cap),
                           back |-> E!FromNative(set, E!ToNative(set, text, cap), cap)]
      BY <2>1 DEF E!Convert
    <2> QED BY <2>2 DEF EInv
  <1> QED BY <1>5, <1>6, <1>7 DEF E!Next

(* So the cursor is never stuck, and comes home.                           *)
LEMMA HomeAsPromised == TextsAssumption /\ EInv => E!CursorComesHome
  <1> SUFFICES ASSUME TextsAssumption, EInv PROVE E!CursorComesHome
    OBVIOUS
  <1>1. text \in Seq(Byte) /\ at \in 0..Len(text) /\ (WellFormed(text) => at \in Boundaries(text))
    BY BytesAreBytes DEF EInv
  <1> QED BY <1>1, CursorSteps, SameOffsets, SameFormed, SameBoundaries DEF E!CursorComesHome

(* What decoding, validating and counting promise of a text.               *)
LEMMA DecodesAsPromised ==
  ASSUME NEW s \in Seq(Byte)
  PROVE  /\ LET d == Decode(s)
                Chars == {n \in 1..Len(s) : IsChar(Cut(s, n))}
            IN  IF Chars = {} THEN d.used = 0
                ELSE d.used \in Chars /\ Encode(d.cp) = Cut(s, d.used)
         /\ WellFormed(s) <=> Validate(s) = Len(s)
         /\ WellFormed(s) => CpCount(s) = Cardinality(Boundaries(s)) - 1
  <1> DEFINE used == Decode(s).used
             Chars == {n \in 1..Len(s) : IsChar(Cut(s, n))}
  <1>1. used # 0 => used \in Chars /\ Encode(Decode(s).cp) = Cut(s, used)
    BY DecodedIsChar
  <1>2. \A n \in Chars : used = n /\ n # 0
    BY CharIsDecoded
  <1> HIDE DEF used, Chars
  <1>3. IF Chars = {} THEN used = 0
        ELSE used \in Chars /\ Encode(Decode(s).cp) = Cut(s, used)
    BY <1>1, <1>2
  <1> QED BY <1>3, ValidIsWellFormed, CountIsBoundaries DEF used, Chars

(* What the conversions make of a text, each of the native sets.           *)
Limit(set) == CASE set = "ascii" -> \h7F [] set \in {"latin1", "ansi"} -> \hFF [] OTHER -> LastCp

LEMMA ConversionsKeep ==
  ASSUME NEW s \in Seq(Byte), NEW set \in E!Charsets, NEW cap \in Nat
  PROVE  LET native == E!ToNative(set, s, cap)
             back == E!FromNative(set, native, cap)
         IN  /\ native \in Seq(Byte) /\ Len(native) <= cap
             /\ back \in Seq(Byte) /\ Len(back) <= cap
             /\ set # "qt" => WellFormed(back)
             /\ WellFormed(s) /\ cap >= Len(s) /\ Unmapped(Limit(set), s, cap) = 0 => back = s
  <1> DEFINE native == E!ToNative(set, s, cap)
             back == E!FromNative(set, native, cap)
             Kept == /\ native \in Seq(Byte) /\ Len(native) <= cap
                     /\ back \in Seq(Byte) /\ Len(back) <= cap
                     /\ set # "qt" => WellFormed(back)
                     /\ WellFormed(s) /\ cap >= Len(s) /\ Unmapped(Limit(set), s, cap) = 0 => back = s
             cps == Clusters(s)
  <1> SUFFICES Kept
    OBVIOUS
  <1>1. /\ Len(s) \in Nat /\ cps \in Seq(Symbols) /\ Len(cps) \in 0..Len(s)
        /\ Narrow = Byte /\ Ascii \subseteq Byte
    BY ClustersTyped DEF Narrow, Byte, Ascii
  <1>2. cap >= Len(s) => cap >= Len(cps)
    BY <1>1
  <1>3. \h7F \in Nat /\ \hFF \in Nat /\ \h7F >= Fallback /\ \hFF >= Fallback
    BY DEF Fallback
  <1>4. ASSUME NEW limit \in Nat, limit >= Fallback
        PROVE  ToBytes(limit, s, cap) \in Seq(0..limit) /\ Len(ToBytes(limit, s, cap)) <= cap
    <2>1. /\ ToBytes(limit, s, cap) \in Seq(0..limit)
          /\ Len(ToBytes(limit, s, cap)) = IF cap <= Len(cps) THEN cap ELSE Len(cps)
      BY <1>4, BytesTyped
    <2> HIDE DEF cps
    <2>2. Len(ToBytes(limit, s, cap)) <= cap
      BY <1>1, <2>1
    <2> QED BY <2>1, <2>2
  <1>5. CASE set = "ascii"
    <2>1. native = ToBytes(\h7F, s, cap) /\ back = FromAscii(native, cap) /\ Limit(set) = \h7F
      BY <1>5, SameMapped, SameNatives DEF E!ToNative, E!FromNative, Limit
    <2> HIDE DEF native, back, cps
    <2>2. native \in Seq(Ascii) /\ Len(native) <= cap
      BY <1>3, <1>4, <2>1 DEF Ascii
    <2>3. native \in Seq(Byte)
      BY <1>1, <2>2, Widen
    <2>4. back \in Seq(Ascii) /\ Len(back) <= cap /\ (cap >= Len(native) => back = native)
      BY <1>1, <2>1, <2>2, <2>3, FromAsciiFits
    <2>5. back \in Seq(Byte) /\ WellFormed(back)
      BY <2>4, AsciiWellFormed
    <2>6. ASSUME WellFormed(s), cap >= Len(s), Unmapped(Limit(set), s, cap) = 0
          PROVE  back = s
      <3>1. cps \in Seq(Ascii) /\ native = cps
        BY <1>2, <1>3, <2>1, <2>6, AllMapped, ZenonT(60) DEF Ascii, cps
      <3>2. cps \in Seq(Narrow) /\ EncodeAll(cps) = cps
        BY <3>1, AsciiEncoded
      <3>3. EncodeAll(cps) = s
        BY <2>6, <3>2, EncodesBack DEF cps
      <3> QED BY <1>2, <2>4, <2>6, <3>1, <3>2, <3>3
    <2> QED BY <2>2, <2>3, <2>4, <2>5, <2>6
  <1>6. ASSUME native \in Seq(Narrow), Len(native) <= cap,
               back \in Seq(Byte), Len(back) <= cap, WellFormed(back),
               Len(EncodeAll(native)) <= cap => back = EncodeAll(native),
               cap >= Len(s) => native = ToBytes(\hFF, s, cap), Limit(set) = \hFF
        PROVE  Kept
    <2> HIDE DEF native, back, cps
    <2>1. ASSUME WellFormed(s), cap >= Len(s), Unmapped(Limit(set), s, cap) = 0
          PROVE  back = s
      <3>1. cps \in Seq(Narrow) /\ native = cps
        BY <1>2, <1>3, <1>6, <2>1, AllMapped DEF Narrow, cps
      <3>2. EncodeAll(cps) = s
        BY <2>1, <3>1, EncodesBack DEF cps
      <3> QED BY <1>6, <2>1, <3>1, <3>2
    <2> QED BY <1>1, <1>6, <2>1
  <1>7. CASE set = "latin1"
    <2>1. native = ToBytes(\hFF, s, cap) /\ back = FromLatin1(native, cap) /\ Limit(set) = \hFF
      BY <1>7, SameMapped, SameNatives DEF E!ToNative, E!FromNative, Limit
    <2> HIDE DEF native, back, cps
    <2>2. native \in Seq(Narrow) /\ Len(native) <= cap
      BY <1>3, <1>4, <2>1 DEF Narrow
    <2>3. /\ back \in Seq(Byte) /\ Len(back) <= cap /\ WellFormed(back)
          /\ Len(EncodeAll(native)) <= cap => back = EncodeAll(native)
      BY <2>1, <2>2, FromLatin1Fits
    <2>4. Kept
      BY <1>6, <2>1, <2>2, <2>3
    <2> QED BY <2>4
  <1>8. CASE set = "ansi"
    <2>1. native = ToAnsi(s, cap) /\ back = FromAnsi(native, cap) /\ Limit(set) = \hFF
      BY <1>8, SameNatives DEF E!ToNative, E!FromNative, Limit
    <2> HIDE DEF native, back, cps
    <2>2. /\ native \in Seq(Narrow) /\ Len(native) <= cap
          /\ cap >= Len(s) => native = ToBytes(\hFF, s, cap)
      BY <2>1, ToAnsiFits
    <2>3. /\ back \in Seq(Byte) /\ Len(back) <= cap /\ WellFormed(back)
          /\ Len(EncodeAll(native)) <= cap => back = EncodeAll(native)
      BY <2>1, <2>2, FromAnsiFits
    <2>4. Kept
      BY <1>6, <2>1, <2>2, <2>3
    <2> QED BY <2>4
  <1>9. CASE set = "qt"
    <2>1. native = Cut(s, cap) /\ back = Cut(native, cap)
      BY <1>9, SameCut DEF E!ToNative, E!FromNative
    <2> HIDE DEF native, back, cps
    <2>2. native \in Seq(Byte) /\ (cap >= Len(s) => native = s)
      BY <2>1, CutTyped
    <2>3. Len(native) = IF cap <= Len(s) THEN cap ELSE Len(s)
      BY <2>1, CutTyped
    <2>4. Len(native) <= cap
      BY <1>1, <2>3
    <2>5. back \in Seq(Byte) /\ (cap >= Len(native) => back = native)
      BY <2>1, <2>2, CutTyped
    <2> QED BY <1>9, <2>2, <2>4, <2>5
  <1> QED BY <1>5, <1>7, <1>8, <1>9 DEF E!Charsets

(* So a text is what the promises say.                                     *)
LEMMA TextsAsPromised ==
  TextsAssumption /\ EInv => E!TypeOK /\ E!DecodesWellFormed
  <1> SUFFICES ASSUME TextsAssumption, EInv PROVE E!TypeOK /\ E!DecodesWellFormed
    OBVIOUS
  <1>1. text \in Seq(Byte)
    BY BytesAreBytes DEF EInv
  <1>2. E!Byte = Byte
    BY DEF E!Byte, Byte
  <1>3. CASE converted = E!Nothing
    <2>1. /\ converted.set = "none" /\ converted.cap = 0
          /\ converted.native = <<>> /\ converted.back = <<>>
      BY <1>3 DEF E!Nothing
    <2>2. <<>> \in Seq(Byte) /\ Len(<<>>) = 0
      OBVIOUS
    <2>3. E!TypeOK
      BY <1>2, <2>1, <2>2 DEF E!TypeOK, EInv
    <2>4. E!DecodesWellFormed
      BY <1>1, <1>3, DecodesAsPromised, SameDecode, SameEncode, SameChar, SameCut, SameFormed,
         SameValidate, SameCpCount, SameBoundaries, SameSize DEF E!DecodesWellFormed
    <2> QED BY <2>3, <2>4
  <1>4. ASSUME converted # E!Nothing
        PROVE  E!TypeOK /\ E!DecodesWellFormed
    <2>1. PICK set \in E!Charsets, cap \in Caps :
            converted = [set |-> set, cap |-> cap, native |-> E!ToNative(set, text, cap),
                         back |-> E!FromNative(set, E!ToNative(set, text, cap), cap)]
      BY <1>4 DEF EInv
    <2> DEFINE native == E!ToNative(set, text, cap)
               back == E!FromNative(set, native, cap)
    <2>2. cap \in Nat
      BY DEF TextsAssumption
    <2>3. /\ native \in Seq(Byte) /\ Len(native) <= cap
          /\ back \in Seq(Byte) /\ Len(back) <= cap
          /\ set # "qt" => WellFormed(back)
          /\ WellFormed(text) /\ cap >= Len(text) /\ Unmapped(Limit(set), text, cap) = 0
             => back = text
      BY <1>1, <2>2, ConversionsKeep
    <2>4. /\ converted.set = set /\ converted.cap = cap
          /\ converted.native = native /\ converted.back = back
      BY <2>1
    <2> HIDE DEF native, back
    <2>5. E!TypeOK
      BY <1>2, <2>3, <2>4 DEF E!TypeOK, EInv
    <2>6. /\ converted.set # "qt" => E!WellFormed(converted.back)
          /\ LET limit == CASE converted.set = "ascii" -> \h7F
                            [] converted.set \in {"latin1", "ansi"} -> \hFF
                            [] OTHER -> E!LastCp
             IN  /\ E!WellFormed(text) /\ converted.cap >= Len(text)
                 /\ E!Unmapped(limit, text, converted.cap) = 0
                 => converted.back = text
      BY <2>3, <2>4, SameFormed, SameLast, SameMapped DEF Limit
    <2>7. E!DecodesWellFormed
      BY <1>1, <2>6, DecodesAsPromised, SameDecode, SameEncode, SameChar, SameCut, SameFormed,
         SameValidate, SameCpCount, SameBoundaries, SameSize DEF E!DecodesWellFormed
    <2> QED BY <2>5, <2>7
  <1> QED BY <1>3, <1>4

(* What another service does leaves the texts alone.                       *)
LEMMA TextsStay == EInv /\ UNCHANGED textVars => EInv'
  <1> SUFFICES ASSUME EInv, UNCHANGED textVars PROVE EInv'
    OBVIOUS
  <1>1. text' = text /\ at' = at /\ converted' = converted
    BY DEF textVars
  <1> QED BY <1>1 DEF EInv


(* utf8.h: for every text, of every length, utf8_decode takes what the     *)
(* Unicode standard calls well formed and nothing else, utf8_encode makes  *)
(* the same bytes of it, utf8_validate and utf8_cp_count agree with it;    *)
(* and whatever a conversion makes of the text is well formed, fits, and   *)
(* comes back as it was if the native set has its characters.              *)
THEOREM TextsDecode == Spec => []DecodesWellFormed
  <1>1. Init => EInv
    BY EInit, TextsAssumption DEF Init
  <1>2. EInv /\ [Next]_vars => EInv'
    BY ENext, TextsStay, TextsAssumption DEF Next, vars, canvasVars
  <1>3. EInv => DecodesWellFormed
    BY TextsAsPromised, TextsAssumption DEF DecodesWellFormed
  <1> QED BY <1>1, <1>2, <1>3, PTL DEF Spec

(* utf8.h 28-37: however a cursor is moved over whatever bytes, it goes on *)
(* and back; and over a well-formed text it never rests inside a character,*)
(* and a step back takes back the step forward.                            *)
THEOREM CursorsComeHome == Spec => []CursorComesHome
  <1>1. Init => EInv
    BY EInit, TextsAssumption DEF Init
  <1>2. EInv /\ [Next]_vars => EInv'
    BY ENext, TextsStay, TextsAssumption DEF Next, vars
  <1>3. EInv => CursorComesHome
    BY HomeAsPromised, TextsAssumption DEF CursorComesHome
  <1> QED BY <1>1, <1>2, <1>3, PTL DEF Spec

------------------------------------------------------------------------------
(* The DOS screen's bytes are those of Utf8.                               *)
LEMMA SameDosBytes ==
  \A s : /\ T!Clusters(s) = Clusters(s) /\ T!Validate(s) = Validate(s) /\ T!CpCount(s) = CpCount(s)
         /\ \A limit, cap : T!ToBytes(limit, s, cap) = ToBytes(limit, s, cap)
  <1>1. \A b, n : T!SeqLen(b) = SeqLen(b) /\ T!LeadBits(b, n) = LeadBits(b, n)
    BY Zenon DEF T!SeqLen, SeqLen, T!LeadBits, LeadBits
  <1>2. \A s, n : T!Spelt(s, n) = Spelt(s, n)
    BY ZenonT(60) DEF T!Spelt, Spelt, T!LeadBits, LeadBits
  <1>3. T!LastCp = LastCp /\ T!MinCp = MinCp
    BY SMT DEF T!LastCp, LastCp, T!MinCp, MinCp
  <1>4. \A cp : T!IsScalar(cp) <=> IsScalar(cp)
    BY <1>3, SMT DEF T!IsScalar, IsScalar
  <1>5. \A b : T!IsContinuation(b) <=> IsContinuation(b)
    BY Zenon DEF T!IsContinuation, IsContinuation
  <1>6. \A s : T!Decode(s) = Decode(s)
    BY <1>1, <1>2, <1>3, <1>4, <1>5, SMT DEF T!Decode, Decode
  <1>7. \A S : T!Max(S) = Max(S) /\ T!Min(S) = Min(S)
    BY Zenon DEF T!Max, Max, T!Min, Min
  <1>8. \A s : T!Clusters(s) = Clusters(s)
    BY <1>6, <1>7, Zenon DEF T!Clusters, Clusters
  <1>9. \A s : T!Validate(s) = Validate(s)
    BY <1>6, Zenon DEF T!Validate, Validate
  <1>10. \A s, o : T!NextOffset(s, o) = NextOffset(s, o)
    BY Zenon DEF T!NextOffset, NextOffset, T!Max, Max, T!Min, Min, T!SeqLen, SeqLen
  <1>11. \A s : T!CpCount(s) = CpCount(s)
    BY <1>10, Zenon DEF T!CpCount, CpCount
  <1>12. \A s, n : T!Cut(s, n) = Cut(s, n)
    BY Zenon DEF T!Cut, Cut, T!Min, Min
  <1>13. T!Fallback = Fallback
    BY DEF T!Fallback, Fallback
  <1>14. \A limit, s, cap : T!ToBytes(limit, s, cap) = ToBytes(limit, s, cap)
    BY <1>8, <1>12, <1>13, Zenon DEF T!ToBytes, ToBytes
  <1> QED BY <1>8, <1>9, <1>11, <1>14

(* There are sixteen colours, and one of them is nearest.                  *)
LEMMA ColourFound ==
  ASSUME NEW rgb \in (0..255) \X (0..255) \X (0..255)
  PROVE  T!DosColor(rgb) \in 0..15
  <1> DEFINE D(i) == T!Distance(rgb, T!Palette[i + 1])
             Ds == {D(i) : i \in 0..15}
             Best == {i \in 0..15 : \A j \in 0..15 : D(i) <= D(j)}
  <1>1. \A i \in 1..16 : T!Palette[i] \in (0..255) \X (0..255) \X (0..255)
    BY DEF T!Palette
  <1>2. ASSUME NEW a \in Int, NEW b \in Int
        PROVE  (a - b) * (a - b) \in Nat
    OBVIOUS
  <1>3. ASSUME NEW c \in (0..255) \X (0..255) \X (0..255)
        PROVE  T!Distance(rgb, c) \in Nat
    <2> DEFINE p == (rgb[1] - c[1]) * (rgb[1] - c[1])
               q == (rgb[2] - c[2]) * (rgb[2] - c[2])
               r == (rgb[3] - c[3]) * (rgb[3] - c[3])
    <2>1. /\ rgb[1] \in Int /\ rgb[2] \in Int /\ rgb[3] \in Int
          /\ c[1] \in Int /\ c[2] \in Int /\ c[3] \in Int
      OBVIOUS
    <2>2. p \in Nat /\ q \in Nat /\ r \in Nat
      BY <1>2, <2>1
    <2>3. T!Distance(rgb, c) = p + q + r
      BY DEF T!Distance
    <2> HIDE DEF p, q, r
    <2> QED BY <2>2, <2>3
  <1>4. \A i \in 0..15 : D(i) \in Nat
    <2> SUFFICES ASSUME NEW i \in 0..15
                 PROVE  D(i) \in Nat
      OBVIOUS
    <2> DEFINE k == i + 1
    <2>1. k \in 1..16
      OBVIOUS
    <2> HIDE DEF k
    <2>2. T!Palette[k] \in (0..255) \X (0..255) \X (0..255)
      BY <1>1, <2>1, Zenon
    <2>3. T!Distance(rgb, T!Palette[k]) \in Nat
      BY <1>3, <2>2, Zenon
    <2> QED BY <2>3 DEF k
  <1>5. T!DosColor(rgb) = Min(Best)
    BY Zenon DEF T!DosColor, T!Min, Min
  <1> HIDE DEF D
  <1>6. PICK d \in Ds : \A e \in Ds : d <= e
    <2>1. Ds \in SUBSET Nat /\ D(0) \in Ds
      BY <1>4
    <2> HIDE DEF Ds
    <2> QED BY <2>1, Least
  <1>7. Best \in SUBSET Nat /\ Best # {} /\ Best \subseteq 0..15
    <2>1. PICK i \in 0..15 : d = D(i)
      BY <1>6
    <2>2. \A j \in 0..15 : D(i) <= D(j)
      BY <1>6, <2>1
    <2> QED BY <2>2
  <1> HIDE DEF Best
  <1>8. \E i \in Best : \A j \in Best : i <= j
    BY <1>7, Least
  <1>9. Min(Best) = CHOOSE i \in Best : \A j \in Best : i <= j
    BY DEF Min
  <1>10. Min(Best) \in Best
    BY <1>8, <1>9, Zenon
  <1>11. Min(Best) \in 0..15
    BY <1>7, <1>10, Zenon
  <1> QED BY <1>5, <1>11, Zenon

(* A cell of the video memory is in one column and one row, and the only   *)
(* one that is.                                                            *)
LEMMA CellFound ==
  ASSUME NEW w \in Nat \ {0}, NEW h \in Nat, NEW o \in 0..(w * h - 1), NEW c \in Int, NEW r \in Int
  PROVE  /\ o % w \in 0..(w - 1) /\ o \div w \in 0..(h - 1)
         /\ c \in 0..(w - 1) /\ r * w + c = o <=> c = o % w /\ r = o \div w
  <1> DEFINE q == o \div w
             m == o % w
  <1>1. o \in Nat /\ q \in Int /\ m \in 0..(w - 1) /\ o = w * q + m
    OBVIOUS
  <1>2. q >= 0 /\ q < h
    <2>1. o < w * h
      OBVIOUS
    <2> HIDE DEF q, m
    <2>2. q >= 0
      <3>1. SUFFICES ASSUME q <= -1 PROVE FALSE
        BY <1>1
      <3>2. w * q <= w * (-1)
        BY <1>1, <3>1
      <3> QED BY <1>1, <3>2
    <2>3. q < h
      <3>1. SUFFICES ASSUME h <= q PROVE FALSE
        BY <1>1
      <3>2. w * h <= w * q
        BY <1>1, <3>1
      <3> QED BY <1>1, <2>1, <3>2
    <2> QED BY <2>2, <2>3
  <1>3. ASSUME c \in 0..(w - 1), r * w + c = o
        PROVE  c = m /\ r = q
    <2> HIDE DEF q, m
    <2>1. w * (r - q) = m - c
      BY <1>1, <1>3
    <2> DEFINE d == r - q
    <2>2. d \in Int /\ w * d = m - c /\ m - c < w /\ -w < m - c
      BY <1>1, <1>3, <2>1
    <2> HIDE DEF d
    <2>3. d = 0
      <3>1. CASE d >= 1
        <4>1. w * d >= w * 1
          BY <2>2, <3>1
        <4> QED BY <1>1, <2>2, <4>1
      <3>2. CASE d <= -1
        <4>1. w * d <= w * (-1)
          BY <2>2, <3>2
        <4> QED BY <1>1, <2>2, <4>1
      <3> QED BY <2>2, <3>1, <3>2
    <2>4. r = q
      BY <1>1, <2>3 DEF d
    <2> QED BY <1>1, <2>2, <2>3, <2>4
  <1>4. r = q => r * w = w * q
    <2> HIDE DEF q
    <2> QED BY <1>1
  <1> HIDE DEF q, m
  <1>5. c = m /\ r = q => c \in 0..(w - 1) /\ r * w + c = o
    BY <1>1, <1>4
  <1>6. /\ m \in 0..(w - 1) /\ q \in 0..(h - 1)
        /\ c \in 0..(w - 1) /\ r * w + c = o <=> c = m /\ r = q
    BY <1>1, <1>2, <1>3, <1>5
  <1> QED BY <1>6 DEF q, m

(* What a cell shows, the cells, and what the DOS screen keeps.            *)
Dot == [ch : 0..\h7F, attr : 0..255]
DosCells == 0..(COLS * ROWS - 1)
TInv == vmem \in [DosCells -> Dot] /\ calls \in 0..MaxCalls

(* Where a cell is.                                                        *)
CellOf(o) == <<o % COLS, o \div COLS>>

(* What is put there goes into it, and nothing else does.                  *)
LEMMA CellIs ==
  ASSUME DosAssumption, NEW o \in DosCells, NEW a \in Int, NEW b \in Int
  PROVE  T!OnScreen(a, b) /\ T!Offset(a, b) = o <=> a = o % COLS /\ b = o \div COLS
  <1>1. COLS \in Nat \ {0} /\ ROWS \in Nat /\ o \in 0..(COLS * ROWS - 1)
    BY DEF DosAssumption, DosCells
  <1>2. /\ o % COLS \in 0..(COLS - 1) /\ o \div COLS \in 0..(ROWS - 1)
        /\ a \in 0..(COLS - 1) /\ b * COLS + a = o <=> a = o % COLS /\ b = o \div COLS
    <2> DEFINE w == COLS
               h == ROWS
    <2>1. w \in Nat \ {0} /\ h \in Nat /\ o \in 0..(w * h - 1) /\ a \in Int /\ b \in Int
      BY <1>1
    <2> HIDE DEF w, h
    <2>2. o % w \in 0..(w - 1)
      BY <2>1, CellFound
    <2>3. o \div w \in 0..(h - 1)
      BY <2>1, CellFound
    <2>4. a \in 0..(w - 1) /\ b * w + a = o <=> a = o % w /\ b = o \div w
      BY <2>1, CellFound
    <2> QED BY <2>2, <2>3, <2>4 DEF w, h
  <1> QED BY <1>2 DEF T!OnScreen, T!Offset

(* So what is put changes its own cells alone.                             *)
LEMMA PutIs ==
  ASSUME DosAssumption, TInv, NEW cells, DOMAIN cells \subseteq Int \X Int, T!Put(cells)
  PROVE  /\ DOMAIN vmem' = DosCells
         /\ \A o \in DosCells : vmem'[o] =
              IF CellOf(o) \in DOMAIN cells THEN cells[CellOf(o)] ELSE vmem[o]
  <1> DEFINE At(o) == {c \in DOMAIN cells : T!OnScreen(c[1], c[2]) /\ T!Offset(c[1], c[2]) = o}
  <1>1. vmem' = [o \in DOMAIN vmem |->
                   IF At(o) = {} THEN vmem[o] ELSE cells[CHOOSE c \in At(o) : TRUE]]
    BY DEF T!Put
  <1>2. DOMAIN vmem = DosCells
    BY DEF TInv
  <1>3. ASSUME NEW o \in DosCells
        PROVE  At(o) = {c \in DOMAIN cells : c = CellOf(o)}
    <2>1. ASSUME NEW c \in DOMAIN cells
          PROVE  T!OnScreen(c[1], c[2]) /\ T!Offset(c[1], c[2]) = o <=> c = CellOf(o)
      <3> DEFINE a == c[1]
                 b == c[2]
      <3>1. c = <<a, b>> /\ a \in Int /\ b \in Int
        OBVIOUS
      <3> HIDE DEF a, b
      <3>4. T!OnScreen(a, b) /\ T!Offset(a, b) = o <=> a = o % COLS /\ b = o \div COLS
        BY <3>1, CellIs
      <3>5. c = CellOf(o) <=> a = o % COLS /\ b = o \div COLS
        BY <3>1 DEF CellOf
      <3> QED BY <3>4, <3>5 DEF a, b
    <2> QED BY <2>1
  <1>4. \A o \in DosCells : At(o) = {} <=> CellOf(o) \notin DOMAIN cells
    BY <1>3
  <1>5. \A o \in DosCells : CellOf(o) \in DOMAIN cells => At(o) = {CellOf(o)}
    BY <1>3
  <1> HIDE DEF At
  <1>6. \A o \in DosCells : At(o) # {} => (CHOOSE c \in At(o) : TRUE) = CellOf(o)
    BY <1>4, <1>5
  <1> QED BY <1>1, <1>2, <1>4, <1>6

(* A cell that shows a code point, on the background it had.               *)
Written(o, cp) ==
  /\ vmem'[o] \in Dot
  /\ vmem'[o].ch = IF cp \in 0..\h7F THEN cp ELSE Fallback
  /\ vmem'[o].attr \div 16 = vmem[o].attr \div 16

(* As many of the characters as the buffer takes, and where they go.       *)
Shows(t) == IF BUFFER <= Len(Clusters(Samples[t])) THEN BUFFER ELSE Len(Clusters(Samples[t]))
TextCovers(o, x, y, t) == o \div COLS = y /\ o % COLS \in x..(x + Shows(t) - 1)

(* What plat_draw_text puts on the screen.                                 *)
LEMMA TextPut ==
  ASSUME DosAssumption, TInv, NEW x \in Columns, NEW y \in Rows, NEW t \in DOMAIN Samples,
         NEW paint \in Paints, NEW bold \in BOOLEAN, T!DrawText(x, y, t, paint, bold)
  PROVE  /\ Clusters(Samples[t]) \in Seq(Symbols) /\ DOMAIN vmem' = DosCells
         /\ \A o \in DosCells :
              IF TextCovers(o, x, y, t) THEN Written(o, Clusters(Samples[t])[(o % COLS) - x + 1])
              ELSE vmem'[o] = vmem[o]
  <1> DEFINE shown == Clusters(Samples[t])
             native == T!ToBytes(\h7F, Samples[t], BUFFER)
             len == Len(native)
             fg == T!Intense(T!DosColor(paint), bold)
             Sent(c) == [ch |-> native[c[1] - x + 1],
                         attr |-> T!CellAttr(c[1], c[2]) - (T!CellAttr(c[1], c[2]) % 16)
                                  + (fg % 16)]
             D == {<<x + i - 1, y>> : i \in 1..len}
             cells == [c \in D |-> Sent(c)]
  <1>1. T!Put(cells)
    BY DEF T!DrawText
  <1>2. /\ x \in Int /\ y \in Int /\ Samples[t] \in Seq(Byte) /\ BUFFER \in Nat
        /\ \h7F \in Nat /\ \h7F >= Fallback
    BY DEF DosAssumption, Byte, Fallback
  <1>3. /\ native \in Seq(0..\h7F)
        /\ len = IF BUFFER <= Len(shown) THEN BUFFER ELSE Len(shown)
        /\ \A i \in 1..len : native[i] = IF shown[i] \in 0..\h7F THEN shown[i] ELSE Fallback
    <2> DEFINE limit == \h7F
               s == Samples[t]
    <2>1. limit \in Nat /\ limit >= Fallback /\ s \in Seq(Byte)
      BY <1>2
    <2>2. native = ToBytes(limit, s, BUFFER) /\ shown = Clusters(s)
      BY SameDosBytes
    <2> HIDE DEF limit, s, native, shown
    <2>3. LET cps == Clusters(s)
              nat == ToBytes(limit, s, BUFFER)
          IN  /\ nat \in Seq(0..limit)
              /\ Len(nat) = IF BUFFER <= Len(cps) THEN BUFFER ELSE Len(cps)
              /\ \A i \in 1..Len(nat) : nat[i] = IF cps[i] \in 0..limit THEN cps[i] ELSE Fallback
      BY <1>2, <2>1, BytesTyped
    <2> QED BY <2>2, <2>3 DEF limit
  <1>4. fg \in Int
    <2>1. T!DosColor(paint) \in 0..15
      BY ColourFound DEF DosAssumption
    <2> QED BY <2>1 DEF T!Intense
  <1>5. shown \in Seq(Symbols)
    BY <1>2, ClustersTyped
  <1> HIDE DEF native, fg, shown
  <1>6. len \in Nat
    BY <1>3
  <1>7. DOMAIN cells = D /\ DOMAIN cells \subseteq Int \X Int
    <2> HIDE DEF len, Sent
    <2> QED BY <1>2, <1>6
  <1>8. \A c \in D : cells[c] = Sent(c)
    <2> HIDE DEF D, Sent
    <2> QED OBVIOUS
  <1> HIDE DEF cells
  <1>9. /\ DOMAIN vmem' = DosCells
        /\ \A o \in DosCells : vmem'[o] = IF CellOf(o) \in D THEN Sent(CellOf(o)) ELSE vmem[o]
    <2> HIDE DEF D, Sent
    <2> QED BY <1>1, <1>7, <1>8, PutIs
  <1> HIDE DEF len
  <1>10. \A o \in DosCells : CellOf(o)[1] \in Int /\ CellOf(o)[2] \in Int
    BY DEF CellOf, DosCells, DosAssumption
  <1>11. \A o \in DosCells :
           CellOf(o) \in D <=> CellOf(o)[2] = y /\ CellOf(o)[1] \in x..(x + len - 1)
    <2>1. SUFFICES ASSUME NEW o \in DosCells
                   PROVE  CellOf(o) \in D <=> CellOf(o)[2] = y /\ CellOf(o)[1] \in x..(x + len - 1)
      OBVIOUS
    <2> DEFINE a == CellOf(o)[1]
               b == CellOf(o)[2]
    <2>2. CellOf(o) = <<a, b>> /\ a \in Int /\ b \in Int
      BY <1>10 DEF CellOf
    <2> HIDE DEF a, b
    <2>3. (\E i \in 1..len : <<a, b>> = <<x + i - 1, y>>) <=> b = y /\ a \in x..(x + len - 1)
      <3>1. ASSUME b = y, a \in x..(x + len - 1)
            PROVE  \E i \in 1..len : <<a, b>> = <<x + i - 1, y>>
        <4>1. a - x + 1 \in 1..len /\ x + (a - x + 1) - 1 = a
          BY <1>2, <1>6, <2>2, <3>1
        <4> QED BY <3>1, <4>1
      <3>2. ASSUME NEW i \in 1..len, <<a, b>> = <<x + i - 1, y>>
            PROVE  b = y /\ a \in x..(x + len - 1)
        <4>1. a = x + i - 1 /\ b = y
          BY <3>2
        <4> QED BY <1>2, <1>6, <4>1
      <3> QED BY <3>1, <3>2
    <2> QED BY <2>2, <2>3 DEF a, b
  <1>12. ASSUME NEW o \in DosCells, CellOf(o) \in D
         PROVE  LET cp == shown[CellOf(o)[1] - x + 1]
                IN  /\ Sent(CellOf(o)) \in Dot
                    /\ Sent(CellOf(o)).ch = IF cp \in 0..\h7F THEN cp ELSE Fallback
                    /\ Sent(CellOf(o)).attr \div 16 = vmem[o].attr \div 16
    <2> DEFINE a == CellOf(o)[1]
               b == CellOf(o)[2]
               k == a - x + 1
               old == T!CellAttr(a, b)
    <2>1. a \in Int /\ b = y /\ a \in x..(x + len - 1)
      BY <1>10, <1>11, <1>12
    <2>2. k \in 1..len
      <3> HIDE DEF a, b
      <3> QED BY <1>2, <1>6, <2>1
    <2>3. old = vmem[o].attr
      <3>1. COLS \in Nat \ {0} /\ ROWS \in Nat
        BY DEF DosAssumption
      <3>2. a = o % COLS /\ b = o \div COLS /\ o % COLS \in Int /\ o \div COLS \in Int
        BY <3>1 DEF CellOf, DosCells
      <3>3. T!OnScreen(a, b) /\ T!Offset(a, b) = o
        <4> HIDE DEF a, b
        <4> QED BY <3>2, CellIs
      <3> HIDE DEF a, b
      <3> QED BY <3>3 DEF T!CellAttr
    <2>4. vmem[o] \in Dot
      BY DEF TInv
    <2>5. old \in 0..255
      BY <2>3, <2>4 DEF Dot
    <2>6. native[k] \in 0..\h7F /\ native[k] = IF shown[k] \in 0..\h7F THEN shown[k] ELSE Fallback
      <3> HIDE DEF k
      <3> DEFINE Chars == 0..\h7F
      <3>1. native \in Seq(Chars) /\ k \in 1..Len(native)
        BY <1>3, <2>2 DEF len
      <3> HIDE DEF Chars
      <3>2. native[k] \in Chars
        BY <3>1
      <3>3. native[k] \in 0..\h7F
        BY <3>2 DEF Chars
      <3> QED BY <1>3, <2>2, <3>3
    <2> DEFINE new == old - (old % 16) + (fg % 16)
    <2>7. Sent(CellOf(o)) = [ch |-> native[k], attr |-> new]
      OBVIOUS
    <2> HIDE DEF old, k
    <2>8. new \in 0..255 /\ new \div 16 = old \div 16
      BY <1>4, <2>5
    <2> HIDE DEF new, Sent
    <2>9. Sent(CellOf(o)) \in Dot
      BY <2>6, <2>7, <2>8 DEF Dot
    <2> QED BY <2>3, <2>6, <2>7, <2>8, <2>9, SMTT(60) DEF k
  <1> HIDE DEF Sent, D
  <1>13. \A o \in DosCells :
           IF CellOf(o)[2] = y /\ CellOf(o)[1] \in x..(x + len - 1)
           THEN Written(o, shown[CellOf(o)[1] - x + 1]) ELSE vmem'[o] = vmem[o]
    <2> DEFINE Good(o, dot) == LET cp == shown[CellOf(o)[1] - x + 1]
                                IN  /\ dot \in Dot
                                    /\ dot.ch = IF cp \in 0..\h7F THEN cp ELSE Fallback
                                    /\ dot.attr \div 16 = vmem[o].attr \div 16
               In(o) == CellOf(o)[2] = y /\ CellOf(o)[1] \in x..(x + len - 1)
    <2>1. \A o \in DosCells : CellOf(o) \in D => Good(o, Sent(CellOf(o)))
      BY <1>12
    <2>2. \A o \in DosCells : CellOf(o) \in D <=> In(o)
      BY <1>11
    <2> HIDE DEF Good, In
    <2>3. \A o \in DosCells : IF In(o) THEN Good(o, vmem'[o]) ELSE vmem'[o] = vmem[o]
      BY <1>9, <2>1, <2>2
    <2> QED BY <2>3 DEF Good, In, Written
  <1> DEFINE n == Shows(t)
  <1>14. len = n /\ shown \in Seq(Symbols) /\ DOMAIN vmem' = DosCells
    BY <1>3, <1>5, <1>9 DEF Shows, shown
  <1>15. \A o \in DosCells : CellOf(o)[1] = o % COLS /\ CellOf(o)[2] = o \div COLS
    BY DEF CellOf
  <1> HIDE DEF n
  <1>16. \A o \in DosCells :
           IF o \div COLS = y /\ o % COLS \in x..(x + n - 1)
           THEN Written(o, shown[(o % COLS) - x + 1]) ELSE vmem'[o] = vmem[o]
    BY <1>13, <1>14, <1>15, SMTT(60)
  <1> QED BY <1>14, <1>16, Zenon DEF n, shown, TextCovers

(* The cells of a rectangle, and one that is filled.                       *)
FillCovers(o, x, y, w, h) == o % COLS \in x..(x + w - 1) /\ o \div COLS \in y..(y + h - 1)
Filled(o) == vmem'[o] \in Dot /\ vmem'[o].ch = 32 /\ vmem'[o].attr % 16 = 0

(* What plat_fill_rect puts on the screen.                                 *)
LEMMA FillPut ==
  ASSUME DosAssumption, TInv, NEW x \in Columns, NEW y \in Rows,
         NEW w \in Widths, NEW h \in Heights, NEW paint \in Paints, T!FillRect(x, y, w, h, paint)
  PROVE  /\ DOMAIN vmem' = DosCells
         /\ \A o \in DosCells :
              IF FillCovers(o, x, y, w, h) THEN Filled(o) ELSE vmem'[o] = vmem[o]
  <1> DEFINE D == {<<col, row>> : col \in x..(x + w - 1), row \in y..(y + h - 1)}
             new == [ch |-> 32, attr |-> T!DosColor(paint) * 16]
             cells == [c \in D |-> new]
  <1>1. T!Put(cells)
    BY DEF T!FillRect
  <1>2. x \in Int /\ y \in Int /\ w \in Int /\ h \in Int
    BY DEF DosAssumption
  <1>3. new \in Dot /\ new.ch = 32 /\ new.attr % 16 = 0
    <2> DEFINE bg == T!DosColor(paint)
    <2>1. bg \in 0..15
      BY ColourFound DEF DosAssumption
    <2> HIDE DEF bg
    <2>2. bg * 16 \in 0..255 /\ (bg * 16) % 16 = 0
      BY <2>1
    <2>3. new = [ch |-> 32, attr |-> bg * 16]
      BY DEF bg
    <2> QED BY <2>2, <2>3 DEF Dot
  <1> HIDE DEF new
  <1>4. DOMAIN cells = D /\ DOMAIN cells \subseteq Int \X Int
    BY <1>2
  <1>5. \A c \in D : cells[c] = new
    <2> HIDE DEF D
    <2> QED OBVIOUS
  <1> HIDE DEF cells
  <1>6. /\ DOMAIN vmem' = DosCells
        /\ \A o \in DosCells : vmem'[o] = IF CellOf(o) \in D THEN new ELSE vmem[o]
    <2> HIDE DEF D
    <2> QED BY <1>1, <1>4, <1>5, PutIs
  <1>7. \A o \in DosCells : CellOf(o) \in D <=> FillCovers(o, x, y, w, h)
    BY DEF CellOf, FillCovers
  <1> HIDE DEF D
  <1> QED BY <1>3, <1>6, <1>7 DEF Filled

(* What TextStaysInPlace says of a call.                                   *)
InPlace ==
  LET Changed == {o \in DOMAIN vmem : vmem'[o] # vmem[o]}
      Col(o) == o % COLS
      Row(o) == o \div COLS
  IN  /\ last'.call = "text" =>
           LET shown == T!Clusters(Samples[last'.t])
               Covered(o) == /\ Row(o) = last'.y
                             /\ Col(o) \in last'.x..(last'.x + T!Min({BUFFER, Len(shown)}) - 1)
           IN  /\ \A o \in Changed : Covered(o)
               /\ \A o \in DOMAIN vmem : Covered(o) =>
                    LET cp == shown[Col(o) - last'.x + 1]
                    IN  /\ vmem'[o].ch = IF cp \in 0..\h7F THEN cp ELSE T!Fallback
                        /\ vmem'[o].attr \div 16 = vmem[o].attr \div 16
               /\ T!Validate(Samples[last'.t]) = Len(Samples[last'.t]) =>
                    Len(shown) = T!MeasuredCells(last'.t)
      /\ last'.call = "fill" =>
           LET Covered(o) == /\ Col(o) \in last'.x..(last'.x + last'.w - 1)
                             /\ Row(o) \in last'.y..(last'.y + last'.h - 1)
           IN  /\ \A o \in Changed : Covered(o)
               /\ \A o \in DOMAIN vmem :
                    Covered(o) => vmem'[o].ch = 32 /\ vmem'[o].attr % 16 = 0

(* The smaller of two numbers.                                             *)
LEMMA SmallerIs ==
  ASSUME NEW a \in Nat, NEW b \in Nat
  PROVE  T!Min({a, b}) = IF a <= b THEN a ELSE b
  <1>1. T!Min({a, b}) = CHOOSE n \in {a, b} : \A m \in {a, b} : n <= m
    BY DEF T!Min
  <1>2. CASE a <= b
    <2>1. \A n \in {a, b} : (\A m \in {a, b} : n <= m) => n = a
      BY <1>2
    <2>2. \A m \in {a, b} : a <= m
      BY <1>2
    <2> QED BY <1>1, <1>2, <2>1, <2>2, Zenon
  <1>3. CASE ~(a <= b)
    <2>1. \A n \in {a, b} : (\A m \in {a, b} : n <= m) => n = b
      BY <1>3
    <2>2. \A m \in {a, b} : b <= m
      BY <1>3
    <2> QED BY <1>1, <1>3, <2>1, <2>2, Zenon
  <1> QED BY <1>2, <1>3

(* A text changes its own cells, as it should,                             *)
LEMMA TextInPlace ==
  ASSUME DosAssumption, TInv, NEW x \in Columns, NEW y \in Rows, NEW t \in DOMAIN Samples,
         NEW paint \in Paints, NEW bold \in BOOLEAN, T!DrawText(x, y, t, paint, bold)
  PROVE  InPlace /\ vmem' \in [DosCells -> Dot]
  <1> DEFINE shown == Clusters(Samples[t])
             n == Shows(t)
             Covered(o) == TextCovers(o, x, y, t)
             Drawn(o) == Written(o, shown[(o % COLS) - x + 1])
  <1>1. last' = [call |-> "text", x |-> x, y |-> y, t |-> t]
    BY DEF T!DrawText
  <1>2. last'.call = "text" /\ last'.x = x /\ last'.y = y /\ last'.t = t
    BY <1>1
  <1>3. DOMAIN vmem = DosCells /\ \A o \in DosCells : vmem[o] \in Dot
    BY DEF TInv
  <1>4. /\ shown \in Seq(Symbols) /\ DOMAIN vmem' = DosCells
        /\ \A o \in DosCells : IF Covered(o) THEN Drawn(o) ELSE vmem'[o] = vmem[o]
    BY TextPut
  <1>5. \A o \in DosCells : Drawn(o) => vmem'[o] \in Dot
    BY DEF Written
  <1>6. n = T!Min({BUFFER, Len(shown)})
    <2>1. BUFFER \in Nat /\ Len(shown) \in Nat
      BY <1>4 DEF DosAssumption
    <2> HIDE DEF shown
    <2> QED BY <2>1, SmallerIs DEF Shows, shown
  <1>7. Validate(Samples[t]) = Len(Samples[t]) => Len(shown) = CpCount(Samples[t])
    <2>1. Samples[t] \in Seq(0..255)
      BY DEF DosAssumption
    <2> QED BY <2>1, CountedAsDecoded
  <1> DEFINE Changed == {o \in DOMAIN vmem : vmem'[o] # vmem[o]}
  <1>8. /\ \A o \in Changed : Covered(o)
        /\ \A o \in DOMAIN vmem : Covered(o) => Drawn(o)
    <2> HIDE DEF Covered, Drawn
    <2> QED BY <1>3, <1>4
  <1>9. vmem' \in [DosCells -> Dot]
    <2> HIDE DEF Covered, Drawn
    <2>1. \A o \in DosCells : vmem'[o] \in Dot
      BY <1>3, <1>4, <1>5
    <2>2. vmem' = [o \in DosCells |-> vmem'[o]]
      <3>1. PICK f : vmem' = [o \in DOMAIN vmem |-> f[o]]
        <4> DEFINE native == T!ToBytes(\h7F, Samples[t], BUFFER)
                   Cs == [c \in {<<x + i - 1, y>> : i \in 1..Len(native)} |->
                [ch |-> native[c[1] - x + 1],
                 attr |-> T!CellAttr(c[1], c[2]) - (T!CellAttr(c[1], c[2]) % 16)
                          + (T!Intense(T!DosColor(paint), bold) % 16)]]
        <4>1. T!Put(Cs)
          BY DEF T!DrawText
        <4> HIDE DEF Cs
        <4> QED BY <4>1 DEF T!Put
      <3> QED BY <3>1, <1>3
    <2> QED BY <2>1, <2>2
  <1>10. InPlace
    <2>1. Clusters(Samples[t]) = T!Clusters(Samples[t]) /\ T!Fallback = Fallback
          /\ T!Validate(Samples[t]) = Validate(Samples[t])
          /\ T!MeasuredCells(t) = CpCount(Samples[t])
      BY SameDosBytes, Zenon DEF T!Fallback, Fallback, T!MeasuredCells
    <2> HIDE DEF shown
    <2> QED BY <1>2, <1>6, <1>7, <1>8, <2>1, Zenon DEF InPlace, shown, Written, TextCovers
  <1> QED BY <1>9, <1>10

(* and so does a rectangle.                                                *)
LEMMA FillInPlace ==
  ASSUME DosAssumption, TInv, NEW x \in Columns, NEW y \in Rows,
         NEW w \in Widths, NEW h \in Heights, NEW paint \in Paints, T!FillRect(x, y, w, h, paint)
  PROVE  InPlace /\ vmem' \in [DosCells -> Dot]
  <1> DEFINE Covered(o) == FillCovers(o, x, y, w, h)
             Drawn(o) == Filled(o)
  <1>1. last' = [call |-> "fill", x |-> x, y |-> y, w |-> w, h |-> h]
    BY DEF T!FillRect
  <1>2. last'.call = "fill" /\ last'.x = x /\ last'.y = y /\ last'.w = w /\ last'.h = h
    BY <1>1
  <1>3. DOMAIN vmem = DosCells /\ \A o \in DosCells : vmem[o] \in Dot
    BY DEF TInv
  <1>5. \A o \in DosCells : IF Covered(o) THEN vmem'[o] \in Dot /\ Drawn(o) ELSE vmem'[o] = vmem[o]
    BY FillPut, ZenonT(60) DEF Filled
  <1> DEFINE Changed == {o \in DOMAIN vmem : vmem'[o] # vmem[o]}
  <1>6. /\ \A o \in Changed : Covered(o)
        /\ \A o \in DOMAIN vmem : Covered(o) => Drawn(o)
    <2> HIDE DEF Covered, Drawn
    <2> QED BY <1>3, <1>5
  <1>7. vmem' \in [DosCells -> Dot]
    <2> DEFINE Cs == [c \in {<<col, row>> : col \in x..(x + w - 1), row \in y..(y + h - 1)} |->
                        [ch |-> 32, attr |-> T!DosColor(paint) * 16]]
    <2>1. T!Put(Cs)
      BY DEF T!FillRect
    <2> HIDE DEF Cs, Covered, Drawn
    <2>2. PICK f : vmem' = [o \in DOMAIN vmem |-> f[o]]
      BY <2>1 DEF T!Put
    <2>3. \A o \in DosCells : vmem'[o] \in Dot
      BY <1>3, <1>5
    <2> QED BY <1>3, <2>2, <2>3
  <1>8. InPlace
    <2> HIDE DEF Drawn
    <2> QED BY <1>2, <1>6, Zenon DEF InPlace, Drawn, Filled, FillCovers
  <1> QED BY <1>7, <1>8

(* At the start the screen is blank.                                       *)
LEMMA DosStarts == DosAssumption /\ T!Init => TInv
  BY DEF T!Init, TInv, Dot, DosCells, DosAssumption, T!Blank

(* Each call keeps it a screen, and draws in its place.                    *)
LEMMA DosSteps ==
  ASSUME DosAssumption, TInv, T!Next
  PROVE  TInv' /\ InPlace
  <1>1. calls < MaxCalls /\ calls' = calls + 1
    BY DEF T!Next
  <1>2. calls' \in 0..MaxCalls
    BY <1>1 DEF TInv, DosAssumption
  <1>3. PICK x \in Columns, y \in Rows, paint \in Paints :
          \/ \E t \in DOMAIN Samples, bold \in BOOLEAN : T!DrawText(x, y, t, paint, bold)
          \/ \E w \in Widths, h \in Heights : T!FillRect(x, y, w, h, paint)
    BY DEF T!Next
  <1>4. InPlace /\ vmem' \in [DosCells -> Dot]
    BY <1>3, TextInPlace, FillInPlace, ZenonT(60)
  <1> QED BY <1>2, <1>4 DEF TInv

(* What the DOS screen keeps, whatever service a behaviour is one of.      *)
LEMMA DosStays == Spec => [](DosAssumption /\ TInv)
  <1>1. Init => DosAssumption /\ TInv
    BY DosAssumption, DosStarts DEF Init
  <1>2. DosAssumption /\ TInv /\ [Next]_vars => (DosAssumption /\ TInv)'
    <2>1. ASSUME TInv, [Next]_vars PROVE TInv'
      <3>1. CASE T!Next
        BY <2>1, <3>1, DosAssumption, DosSteps
      <3>2. CASE UNCHANGED dosVars
        BY <2>1, <3>2 DEF TInv, dosVars
      <3> QED BY <2>1, <3>1, <3>2 DEF Next, vars
    <2> QED BY <2>1, DosAssumption
  <1> QED BY <1>1, <1>2, PTL DEF Spec

(* TextStaysInPlace: text and rectangles on the DOS screen change the      *)
(* cells they cover, the text only what stands there, and no others        *)
(* (draw_dos.c plat_draw_text and plat_fill_rect).                         *)
THEOREM DosTextStays == Spec => TextStaysInPlace
  <1>1. TInv /\ [Next]_vars => [InPlace]_<<vmem, calls, last>>
    <2>1. CASE T!Next
      BY <2>1, DosAssumption, DosSteps
    <2>2. CASE UNCHANGED dosVars
      BY <2>2 DEF dosVars
    <2> QED BY <2>1, <2>2 DEF Next, vars
  <1> QED BY <1>1, DosStays, PTL DEF Spec, TextStaysInPlace, T!TextStaysInPlace, InPlace

------------------------------------------------------------------------------
(* The canvas's encodings are those of Utf8: its cuts,                     *)
LEMMA CanvasCut == \A s, n : C!Cut(s, n) = Cut(s, n)
  BY Zenon DEF C!Cut, Cut, C!Min, Min

(* its decoding,                                                           *)
LEMMA CanvasDecode == \A s : C!Decode(s) = Decode(s)
  <1>1. \A b, n : C!SeqLen(b) = SeqLen(b) /\ C!LeadBits(b, n) = LeadBits(b, n)
    BY Zenon DEF C!SeqLen, SeqLen, C!LeadBits, LeadBits
  <1>2. \A s, n : C!Spelt(s, n) = Spelt(s, n)
    BY ZenonT(60) DEF C!Spelt, Spelt, C!LeadBits, LeadBits
  <1>3. C!LastCp = LastCp
    BY SMT DEF C!LastCp, LastCp
  <1>4. \A cp : C!IsScalar(cp) <=> IsScalar(cp)
    BY <1>3, SMT DEF C!IsScalar, IsScalar
  <1>5. \A b : C!IsContinuation(b) <=> IsContinuation(b)
    BY Zenon DEF C!IsContinuation, IsContinuation
  <1>6. C!MinCp = MinCp
    BY SMT DEF C!MinCp, MinCp
  <1> QED BY <1>1, <1>2, <1>4, <1>5, <1>6, SMT DEF C!Decode, Decode

(* its characters,                                                         *)
LEMMA CanvasClusters == \A s : C!Clusters(s) = Clusters(s)
  <1>1. \A S : C!Max(S) = Max(S)
    BY Zenon DEF C!Max, Max
  <1> QED BY <1>1, CanvasDecode, Zenon DEF C!Clusters, Clusters

(* and its counting.                                                       *)
LEMMA CanvasCount == \A s : C!CpCount(s) = CpCount(s)
  <1>1. \A s, o : C!NextOffset(s, o) = NextOffset(s, o)
    BY Zenon DEF C!NextOffset, NextOffset, C!Max, Max, C!Min, Min, C!SeqLen, SeqLen
  <1> QED BY <1>1, Zenon DEF C!CpCount, CpCount

(* The native text of a buffer as a function of its place.                 *)
Natives(limit, cps) == [i \in 1..Len(cps) |-> IF cps[i] \in 0..limit THEN cps[i] ELSE C!Fallback]

(* As a text has no more characters than bytes, cutting its bytes to the   *)
(* buffer is all the cutting there is.                                     *)
LEMMA NativeIs ==
  ASSUME NEW s \in Seq(0..255), NEW n \in Nat, NEW limit
  PROVE  /\ C!ToBytes(limit, C!Cut(s, n), n) = Natives(limit, C!Clusters(C!Cut(s, n)))
         /\ Len(C!Clusters(C!Cut(s, n))) \in Nat
  <1> DEFINE short == Cut(s, n)
             cps == Clusters(short)
  <1>1. short \in Seq(0..255) /\ Len(short) = IF n <= Len(s) THEN n ELSE Len(s)
    BY CutTyped
  <1>2. Len(s) \in Nat /\ Len(short) <= n
    BY <1>1, LenProperties
  <1> HIDE DEF short
  <1>3. cps \in Seq(Symbols) /\ Len(cps) \in 0..Len(short)
    BY <1>1, ClustersTyped
  <1>4. Len(short) \in Nat
    BY <1>1, LenProperties
  <1> HIDE DEF cps
  <1>5. Len(cps) \in Nat /\ n >= Len(cps)
    BY <1>2, <1>3, <1>4
  <1>6. Cut(cps, n) = cps
    BY <1>3, <1>5, CutTyped
  <1>7. C!Clusters(C!Cut(s, n)) = cps
    BY CanvasCut, CanvasClusters DEF cps, short
  <1>8. C!Cut(C!Clusters(C!Cut(s, n)), n) = cps
    BY <1>6, <1>7, CanvasCut
  <1> QED BY <1>5, <1>7, <1>8, Zenon DEF C!ToBytes, Natives

(* What each backend draws of a text.                                      *)
LEMMA CharactersAre ==
  ASSUME DosAssumption, NEW t \in C!Texts
  PROVE  /\ "atari" \in Targets =>
              C!Characters["atari"][t] = C!ToBytes(\h7F, C!Cut(Samples[t], BUFFER - 1), BUFFER - 1)
         /\ "mac" \in Targets =>
              C!Characters["mac"][t] = C!ToBytes(\h7F, C!Cut(Samples[t], BUFFER), BUFFER)
         /\ "amiga" \in Targets =>
              C!Characters["amiga"][t] = C!ToBytes(\hFF, C!Cut(Samples[t], BUFFER), BUFFER)
         /\ \A g \in Targets \ {"atari", "mac", "amiga"} :
              C!Characters[g][t] = C!Clusters(Samples[t])
  <1>1. Samples[t] \in Seq(0..255) /\ BUFFER \in Nat /\ BUFFER - 1 \in Nat
    BY DEF DosAssumption, C!Texts
  <1> DEFINE limit(g) == CASE g \in {"atari", "mac"} -> \h7F [] g = "amiga" -> \hFF
                           [] OTHER -> C!LastCp
             room(g) == CASE g = "atari" -> BUFFER - 1 [] g \in {"amiga", "mac"} -> BUFFER
                          [] OTHER -> Len(Samples[t])
             cps(g) == C!Clusters(C!Cut(Samples[t], room(g)))
  <1>2. \A g \in Targets : C!Characters[g][t] =
          [i \in 1..Len(cps(g)) |->
             IF cps(g)[i] \in 0..limit(g) \/ limit(g) = C!LastCp THEN cps(g)[i] ELSE C!Fallback]
    BY DEF C!Characters
  <1>3. C!LastCp # \h7F /\ C!LastCp # \hFF
    BY SMT DEF C!LastCp
  <1>4. ASSUME NEW g \in Targets, NEW l, limit(g) = l, l # C!LastCp
        PROVE  C!Characters[g][t] = Natives(l, cps(g))
    <2> HIDE DEF cps, limit
    <2>1. \A i : (cps(g)[i] \in 0..limit(g) \/ limit(g) = C!LastCp) <=> cps(g)[i] \in 0..l
      BY <1>4
    <2> QED BY <1>2, <2>1 DEF Natives
  <1>5. "atari" \in Targets =>
          C!Characters["atari"][t] = C!ToBytes(\h7F, C!Cut(Samples[t], BUFFER - 1), BUFFER - 1)
    <2>1. limit("atari") = \h7F /\ room("atari") = BUFFER - 1
      OBVIOUS
    <2>2. "atari" \in Targets => C!Characters["atari"][t] = Natives(\h7F, cps("atari"))
      BY <1>3, <1>4, <2>1
    <2> QED BY <1>1, <2>1, <2>2, NativeIs
  <1>6. "mac" \in Targets =>
          C!Characters["mac"][t] = C!ToBytes(\h7F, C!Cut(Samples[t], BUFFER), BUFFER)
    <2>1. limit("mac") = \h7F /\ room("mac") = BUFFER
      OBVIOUS
    <2>2. "mac" \in Targets => C!Characters["mac"][t] = Natives(\h7F, cps("mac"))
      BY <1>3, <1>4, <2>1
    <2> QED BY <1>1, <2>1, <2>2, NativeIs
  <1>7. "amiga" \in Targets =>
          C!Characters["amiga"][t] = C!ToBytes(\hFF, C!Cut(Samples[t], BUFFER), BUFFER)
    <2>1. limit("amiga") = \hFF /\ room("amiga") = BUFFER
      OBVIOUS
    <2>2. "amiga" \in Targets => C!Characters["amiga"][t] = Natives(\hFF, cps("amiga"))
      BY <1>3, <1>4, <2>1
    <2> QED BY <1>1, <2>1, <2>2, NativeIs
  <1>8. ASSUME NEW g \in Targets \ {"atari", "mac", "amiga"}
        PROVE  C!Characters[g][t] = C!Clusters(Samples[t])
    <2> DEFINE all == Clusters(Samples[t])
    <2>1. limit(g) = C!LastCp /\ room(g) = Len(Samples[t])
      OBVIOUS
    <2>2. Len(Samples[t]) \in Nat
      BY <1>1, LenProperties
    <2>3. Cut(Samples[t], Len(Samples[t])) = Samples[t]
      BY <1>1, <2>2, CutTyped
    <2>4. cps(g) = all
      BY <2>1, <2>3, CanvasCut, CanvasClusters
    <2>5. all \in Seq(Symbols)
      BY <1>1, ClustersTyped
    <2> HIDE DEF all, cps, limit
    <2>6. C!Characters[g][t] = [i \in 1..Len(all) |-> all[i]]
      BY <1>2, <2>1, <2>4
    <2>7. C!Characters[g][t] = all
      BY <2>5, <2>6
    <2> QED BY <2>7, CanvasClusters DEF all
  <1> QED BY <1>5, <1>6, <1>7, <1>8

(* A text is a sequence, drawn or not.                                     *)
LEMMA CharactersCount ==
  ASSUME DosAssumption, NEW t \in C!Texts, NEW g \in Targets
  PROVE  Len(C!Characters[g][t]) \in Nat /\ (C!Characters[g][t] = <<>> => Len(C!Characters[g][t]) = 0)
  <1>1. Samples[t] \in Seq(0..255) /\ BUFFER \in Nat /\ BUFFER - 1 \in Nat
    BY DEF DosAssumption, C!Texts
  <1>2. ASSUME NEW n \in Nat, NEW limit
        PROVE  Len(C!ToBytes(limit, C!Cut(Samples[t], n), n)) \in Nat
    <2> DEFINE cps == C!Clusters(C!Cut(Samples[t], n))
    <2>1. C!ToBytes(limit, C!Cut(Samples[t], n), n) = Natives(limit, cps) /\ Len(cps) \in Nat
      BY <1>1, NativeIs
    <2> HIDE DEF cps
    <2>2. Len(Natives(limit, cps)) = Len(cps)
      BY <2>1 DEF Natives
    <2> QED BY <2>1, <2>2
  <1>3. Len(C!Clusters(Samples[t])) \in Nat
    <2>1. Clusters(Samples[t]) \in Seq(Symbols)
      BY <1>1, ClustersTyped
    <2> QED BY <2>1, CanvasClusters, LenProperties
  <1> QED BY <1>1, <1>2, <1>3, CharactersAre

(* The shapes of a plat_font, and of what is selected in a context.        *)
IsFont(f) ==
  /\ f = [size |-> f.size, style |-> f.style, owned |-> f.owned]
  /\ f.size \in Nat \ {0} /\ f.owned \in BOOLEAN
IsLook(l) ==
  l = [face |-> l.face, pen |-> l.pen, ground |-> l.ground, place |-> l.place, fill |-> l.fill]

(* The faces that a request may become, on a target with a screen and a    *)
(* ratio (FacesFor, of values and not of the state).                       *)
FacesAt(g, d, r, q) ==
  LET style == IF g \in {"atari", "amiga", "mac"} THEN q.style \cap C!Effects ELSE q.style
      size == CASE g \in {"dos", "host"} -> q.size
                [] g = "win32" -> (q.size * r + 720) \div 1440
                [] OTHER -> q.size \div 20
  IN  IF g = "atari" THEN {C!Cell([size |-> C!PickPointSize(q.size, d), style |-> style])}
      ELSE {[w |-> size, h |-> size, style |-> style]}
           \cup IF g = "amiga" THEN {[w |-> 8, h |-> 8, style |-> {}]} ELSE {}
FaceAt(g, f) == IF f = NoFont THEN NoFont ELSE IF g = "atari" THEN C!Cell(f) ELSE C!Square(f)

(* What the canvas keeps between two calls.                                *)
Queried == asked = TRUE
Metrics ==
  /\ ready \in {"no", "yes", "failed"} /\ asked \in BOOLEAN /\ ratio \in Nat \ {0}
  /\ target = "atari" => ratio \in 1..1439
  /\ target = "win32" => ratio = 96
Looks ==
  /\ DOMAIN look = C!Contexts /\ \A c \in C!Contexts : IsLook(look[c])
  /\ port \in C!Contexts
Fonts ==
  /\ DOMAIN font = Slots
  /\ \A s \in Slots : font[s] # NoFont =>
       /\ IsFont(font[s])
       /\ \E q \in Requests : FaceAt(target, font[s]) \in FacesAt(target, device, ratio, q)
       /\ target = "atari" => ready = "yes"
       /\ target = "amiga" => Queried
Laid ==
  /\ \A d \in laid : d.px \in Pixels /\ d.at \in Nat \ {0}
  /\ target = "amiga" /\ laid # {} => Queried
KInv ==
  /\ target \in Targets /\ device \in Devices[target]
  /\ Metrics /\ Looks /\ Fonts /\ Laid

(* The face that a font has, as a value of the target and the font.        *)
LEMMA FaceIs == \A f : C!Face(f) = FaceAt(target, f) /\ C!Face(f)' = FaceAt(target, f)'
  BY DEF C!Face, FaceAt, C!Cell, C!Square, C!VstPoint

(* The faces of the seam are those.                                        *)
LEMMA FacesAre ==
  ASSUME target \in Targets, device \in Devices[target], NEW q \in Requests
  PROVE  C!FacesFor(q) = FacesAt(target, device, ratio, q)
  <1>1. target = "atari" => C!Chosen[device][q] = C!PickPointSize(q.size, device)
    BY DEF C!Chosen
  <1>2. CASE target = "atari"
    <2>1. C!FacesFor(q) =
            {C!Cell([size |-> C!Chosen[device][q], style |-> q.style \cap C!Effects])}
      BY <1>2 DEF C!FacesFor
    <2> QED BY <1>1, <1>2, <2>1 DEF FacesAt
  <1>3. CASE target # "atari"
    <2> DEFINE style == IF target \in {"atari", "amiga", "mac"} THEN q.style \cap C!Effects ELSE q.style
               size == CASE target \in {"dos", "host"} -> q.size
                         [] target = "win32" -> (q.size * ratio + 720) \div 1440
                         [] OTHER -> q.size \div 20
    <2>1. C!FacesFor(q) = {[w |-> size, h |-> size, style |-> style]}
                          \cup IF target = "amiga" THEN {[w |-> 8, h |-> 8, style |-> {}]} ELSE {}
      BY <1>3, SMT DEF C!FacesFor
    <2>2. FacesAt(target, device, ratio, q) =
                          {[w |-> size, h |-> size, style |-> style]}
                          \cup IF target = "amiga" THEN {[w |-> 8, h |-> 8, style |-> {}]} ELSE {}
      BY <1>3, SMT DEF FacesAt
    <2> QED BY <2>1, <2>2
  <1> QED BY <1>2, <1>3

(* Only on win32 they depend on the ratio.                                 *)
LEMMA FacesStay ==
  ASSUME NEW g, g # "win32"
  PROVE  \A d, r, n, q : FacesAt(g, d, r, q) = FacesAt(g, d, n, q)
  BY DEF FacesAt

(* The Amiga's screen has been asked, or not.                              *)
LEMMA QueriedIs ==
  /\ asked' = asked => (Queried' <=> Queried)
  /\ asked' = TRUE => Queried'
  BY Zenon DEF Queried

(* Before the first call.                                                  *)
LEMMA KInit == C!Init => KInv
  <1> SUFFICES ASSUME C!Init
               PROVE  KInv
    OBVIOUS
  <1>1. /\ target \in Targets /\ device \in Devices[target] /\ ready = "no" /\ asked = FALSE
        /\ ratio = IF target = "atari" THEN 96 ELSE IF target = "win32" THEN 96 ELSE 72
        /\ font = [s \in Slots |-> NoFont]
        /\ look = [c \in C!Contexts |-> C!Fresh] /\ port = "window" /\ laid = {}
    BY DEF C!Init, C!Assumed
  <1>2. Metrics
    <2>1. asked \in BOOLEAN
      BY <1>1, Zenon
    <2>2. ratio \in {72, 96} /\ (target = "atari" => ratio = 96) /\ (target = "win32" => ratio = 96)
      BY <1>1
    <2> QED BY <1>1, <2>1, <2>2 DEF Metrics
  <1>3. Looks
    BY <1>1 DEF Looks, IsLook, C!Fresh, C!Contexts, C!Ports
  <1>4. Fonts
    BY <1>1 DEF Fonts
  <1>5. Laid
    BY <1>1 DEF Laid
  <1> QED BY <1>1, <1>2, <1>3, <1>4, <1>5 DEF KInv

(* The contexts: what a first use finds.                                   *)
VdiFound ==
  \/ ready = "yes" /\ UNCHANGED <<ready, ratio, asked>>
  \/ ready = "no" /\ ready' = "yes" /\ ratio' = C!Dpi(device.umx) /\ UNCHANGED asked
VdiLost == ready = "no" /\ UNCHANGED <<ready, ratio, asked>>

(* Opening the Atari's workstation is one of those two.                    *)
LEMMA EnsureVdiIs ==
  /\ C!EnsureVdi(TRUE) => VdiFound
  /\ C!EnsureVdi(FALSE) => VdiLost
  /\ \A ok \in BOOLEAN : C!EnsureVdi(ok) => VdiFound \/ VdiLost
  <1>1. ASSUME C!EnsureVdi(TRUE)
        PROVE  VdiFound
    BY <1>1 DEF C!EnsureVdi, VdiFound
  <1>2. ASSUME C!EnsureVdi(FALSE)
        PROVE  VdiLost
    BY <1>2 DEF C!EnsureVdi, VdiLost
  <1>3. ASSUME NEW ok \in BOOLEAN, C!EnsureVdi(ok)
        PROVE  VdiFound \/ VdiLost
    BY <1>3 DEF C!EnsureVdi, VdiFound, VdiLost
  <1> QED BY <1>1, <1>2, <1>3, Zenon

(* The Atari's ratio is one that its screen can have, and stays once it is *)
(* known.                                                                  *)
LEMMA EnsureVdiKeeps ==
  ASSUME KInv, UNCHANGED C!setup, target = "atari", VdiFound \/ VdiLost
  PROVE  Metrics' /\ (ready = "yes" => ready' = "yes" /\ ratio' = ratio)
  <1>1. target' = target /\ device \in Devices["atari"] /\ "atari" \in Targets
    BY DEF C!setup, KInv
  <1>2. C!Dpi(device.umx) \in 1..1439
    <2>1. device.umx \in Nat /\ (device.umx # 0 => 25400 \div device.umx < 1440)
      BY <1>1, FontsAssumption DEF FontsAssumption
    <2> DEFINE um == device.umx
               dpi == 25400 \div um
    <2>2. um # 0 => dpi \in Nat
      BY <2>1
    <2>3. C!Dpi(um) = IF um > 0 /\ dpi > 0 THEN dpi ELSE 96
      BY DEF C!Dpi, C!Assumed
    <2>4. um \in Nat /\ (um # 0 => dpi < 1440)
      BY <2>1
    <2> HIDE DEF um, dpi
    <2>5. C!Dpi(um) \in 1..1439
      BY <2>2, <2>3, <2>4
    <2> QED BY <2>5 DEF um
  <1>3. UNCHANGED <<ready, ratio>> \/ (ready = "no" /\ ready' = "yes" /\ ratio' = C!Dpi(device.umx))
    BY DEF VdiFound, VdiLost
  <1>4. asked' = asked
    BY DEF VdiFound, VdiLost
  <1> DEFINE dpi == C!Dpi(device.umx)
  <1>5. dpi \in 1..1439 /\ (ratio' = ratio \/ ratio' = dpi) /\ ready' \in {ready, "yes"}
    BY <1>2, <1>3
  <1> HIDE DEF dpi
  <1>6. asked' \in BOOLEAN
    <2>1. asked \in BOOLEAN
      BY Zenon DEF KInv, Metrics
    <2> QED BY <1>4, <2>1, Zenon
  <1>7. ratio' \in Nat \ {0} /\ ratio' \in 1..1439 /\ ready' \in {"no", "yes", "failed"}
    <2>1. ratio \in 1..1439
      BY DEF KInv, Metrics
    <2>2. ready \in {"no", "yes", "failed"}
      BY DEF KInv, Metrics
    <2>3. ratio' \in 1..1439
      <3> DEFINE S == 1..1439
      <3>1. ratio \in S /\ dpi \in S
        BY <1>5, <2>1
      <3>2. ratio' = ratio \/ ratio' = dpi
        BY <1>5
      <3> HIDE DEF S
      <3>3. ratio' \in S
        BY <3>1, <3>2, Zenon
      <3> QED BY <3>3 DEF S
    <2>4. ready' = ready \/ ready' = "yes"
      BY <1>5
    <2>5. ready' \in {"no", "yes", "failed"}
      BY <2>2, <2>4
    <2> QED BY <2>3, <2>5
  <1>8. Metrics'
    BY <1>1, <1>6, <1>7 DEF Metrics
  <1> QED BY <1>3, <1>8

(* The Amiga's ratio is never zero, and stays once the screen has been     *)
(* asked.                                                                  *)
LEMMA QueryKeeps ==
  ASSUME KInv, UNCHANGED C!setup, target = "amiga", C!Query, ready' = ready
  PROVE  /\ Metrics' /\ Queried'
         /\ Queried => ratio' = ratio
  <1>1. target' = target /\ device \in Devices["amiga"] /\ "amiga" \in Targets
    BY DEF C!setup, KInv
  <1>2. C!ModeDpi > 0 => C!ModeDpi \in Nat \ {0}
    <2>1. device.rx \in Nat /\ device.ry \in Nat
      BY <1>1, FontsAssumption DEF FontsAssumption
    <2> QED BY <2>1 DEF C!ModeDpi
  <1>3. asked \in BOOLEAN
    BY DEF KInv, Metrics
  <1>4. Queried' /\ (Queried => ratio' = ratio)
    <2>1. \/ asked /\ asked' = asked /\ ratio' = ratio
          \/ ~ asked /\ asked' = TRUE
      BY DEF C!Query
    <2>2. asked <=> Queried
      BY <1>3, SMT DEF Queried
    <2>3. asked' = asked => (Queried' <=> Queried)
      BY QueriedIs
    <2>4. asked' = TRUE => Queried'
      BY QueriedIs
    <2> QED BY <2>1, <2>2, <2>3, <2>4
  <1>7. asked' \in BOOLEAN
    <2>1. asked' = TRUE
      BY <1>4, SMT DEF Queried
    <2> QED BY <2>1, SMT
  <1>5. ratio' = ratio \/ (C!ModeDpi > 0 /\ ratio' = C!ModeDpi)
    BY DEF C!Query
  <1>6. Metrics'
    BY <1>1, <1>2, <1>5, <1>7 DEF KInv, Metrics
  <1> QED BY <1>4, <1>6

(* The port or raster port for measuring is tried once, and has no part in *)
(* the ratio.                                                              *)
LEMMA EnsureOnceKeeps ==
  ASSUME KInv, UNCHANGED C!setup, NEW ok \in BOOLEAN, C!EnsureOnce(ok)
  PROVE  Metrics' /\ ratio' = ratio /\ asked' = asked /\ (~ ok => ready # "yes")
  <1>1. target' = target
    BY DEF C!setup
  <1>2. ratio' = ratio /\ asked' = asked /\ ready' \in {"no", "yes", "failed"} /\ (~ ok => ready # "yes")
    BY DEF C!EnsureOnce, KInv, Metrics
  <1> QED BY <1>1, <1>2 DEF KInv, Metrics

(* So does a distance that is held.                                        *)
LEMMA LaidStays ==
  ASSUME KInv, UNCHANGED <<target, laid>>, target = "amiga" /\ Queried => Queried'
  PROVE  Laid'
  BY DEF KInv, Laid

(* Fonts stay what they are when nothing about them changes.               *)
LEMMA FontsStay ==
  ASSUME KInv, UNCHANGED <<target, device, font>>,
         target = "atari" /\ ready = "yes" => ready' = "yes",
         target = "amiga" /\ Queried => Queried',
         target = "win32" => ratio' = ratio
  PROVE  Fonts'
  <1>1. ASSUME NEW s \in Slots, font[s] # NoFont
        PROVE  \E q \in Requests : FaceAt(target, font[s]) \in FacesAt(target, device, ratio', q)
    <2>1. PICK q \in Requests : FaceAt(target, font[s]) \in FacesAt(target, device, ratio, q)
      BY <1>1 DEF KInv, Fonts
    <2>2. FacesAt(target, device, ratio, q) = FacesAt(target, device, ratio', q)
      BY FacesStay
    <2> QED BY <2>1, <2>2
  <1>2. \A s \in Slots : font[s] # NoFont =>
          IsFont(font[s]) /\ (target = "atari" => ready' = "yes") /\ (target = "amiga" => Queried')
    BY DEF KInv, Fonts
  <1>3. DOMAIN font = Slots
    BY DEF KInv, Fonts
  <1> QED BY <1>1, <1>2, <1>3 DEF Fonts

(* No face is NoFont.                                                      *)
Faced ==
  /\ \A size, style, owned : NoFont # [size |-> size, style |-> style, owned |-> owned]
  /\ \A w, h, style : NoFont # [w |-> w, h |-> h, style |-> style]
  /\ \A w, h, up, down, style :
       NoFont # [w |-> w, h |-> h, ascent |-> up, descent |-> down, style |-> style]

(* A font that is open has a face.                                         *)
LEMMA FacesReal ==
  ASSUME Faced, NEW g, NEW f
  PROVE  FaceAt(g, f) = NoFont <=> f = NoFont
  BY DEF Faced, FaceAt, C!Cell, C!Square

(* What the seam sees of the canvas.                                       *)
MFont == [s \in Slots |-> C!Face(font[s])]
MLook == [p \in C!Ports |-> look[p]]

(* What it sees after a step.                                              *)
LEMMA SeamSees ==
  /\ MFont = [s \in Slots |-> FaceAt(target, font[s])]
  /\ MFont' = [s \in Slots |-> FaceAt(target', font'[s])]
  /\ MLook' = [p \in C!Ports |-> look'[p]]
  <1>1. /\ \A s : C!Face(font[s]) = FaceAt(target, font[s])
        /\ \A s : C!Face(font[s])' = FaceAt(target', font'[s])
    BY DEF C!Face, FaceAt
  <1> QED BY <1>1 DEF MFont, MLook

(* The ratio stays while a font is open, and while a distance is held      *)
(* unless it is a guess.                                                   *)
Steady ==
  /\ (\E s \in Slots : MFont[s] # NoFont) => ratio' = ratio
  /\ (laid # {} /\ "guesses" \notin C!Quirks) => ratio' = ratio

(* Both are only where the ratio is known already.                         *)
LEMMA SteadyWhen ==
  ASSUME Faced, KInv, (target = "atari" /\ ready = "yes") \/ (target = "amiga" /\ Queried) => ratio' = ratio,
         target \notin {"atari", "amiga"} => ratio' = ratio
  PROVE  Steady
  <1>1. ASSUME NEW s \in Slots, MFont[s] # NoFont
        PROVE  ratio' = ratio
    <2>1. font[s] # NoFont
      BY <1>1, SeamSees, FacesReal
    <2>2. (target = "atari" => ready = "yes") /\ (target = "amiga" => Queried)
      BY <2>1 DEF KInv, Fonts
    <2> QED BY <2>2
  <1>2. ASSUME laid # {}, "guesses" \notin C!Quirks
        PROVE  ratio' = ratio
    <2>1. target = "atari" => ready = "yes"
      BY <1>2 DEF C!Quirks
    <2>2. target = "amiga" => Queried
      BY <1>2 DEF KInv, Laid
    <2> QED BY <2>1, <2>2
  <1> QED BY <1>1, <1>2 DEF Steady

(* What opening does besides: the metrics may be found out.                *)
Apart == UNCHANGED <<target, device, look, port, laid>>
Learns ==
  /\ Metrics'
  /\ target = "atari" /\ ready = "yes" => ready' = "yes"
  /\ target = "amiga" /\ Queried => Queried'
  /\ target = "win32" => ratio' = ratio
Learned ==
  /\ Learns
  /\ target = "atari" => ready' = "yes"
  /\ target = "amiga" => Queried'
OpenedAs(s, f) == font' = [font EXCEPT ![s] = f] /\ done' = [call |-> "open"]
Unopened == UNCHANGED font /\ done' = C!Error

(* A font opens as one of the faces that were asked for.                   *)
LEMMA OpensWell ==
  ASSUME KInv, Faced, Apart, Learned,
         NEW s \in Slots, font[s] = NoFont, NEW q \in Requests, NEW f, IsFont(f),
         FaceAt(target, f) \in FacesAt(target, device, ratio, q), OpenedAs(s, f)
  PROVE  KInv' /\ C!Seam!Open(s)
  <1>0. /\ UNCHANGED <<target, device, look, port, laid>> /\ Metrics'
        /\ target = "atari" => ready' = "yes"
        /\ target = "amiga" => Queried'
        /\ target = "win32" => ratio' = ratio
        /\ font' = [font EXCEPT ![s] = f] /\ done' = [call |-> "open"]
    BY DEF Apart, Learned, Learns, OpenedAs
  <1>1. DOMAIN font = Slots /\ DOMAIN font' = Slots /\ font'[s] = f
        /\ \A t \in Slots \ {s} : font'[t] = font[t]
    BY <1>0 DEF KInv, Fonts
  <1>2. \A t \in Slots \ {s} : font[t] # NoFont =>
          /\ IsFont(font[t])
          /\ \E r \in Requests : FaceAt(target, font[t]) \in FacesAt(target, device, ratio, r)
    BY <1>0 DEF KInv, Fonts
  <1>3. \A r \in Requests : FacesAt(target, device, ratio, r) = FacesAt(target, device, ratio', r)
    BY <1>0, FacesStay
  <1>4. Fonts'
    BY <1>0, <1>1, <1>2, <1>3 DEF Fonts
  <1>5. Looks'
    BY <1>0 DEF KInv, Looks
  <1>6. KInv'
    BY <1>0, <1>4, <1>5, LaidStays DEF KInv
  <1>7. MFont' = [MFont EXCEPT ![s] = FaceAt(target, f)]
    BY <1>0, <1>1, SeamSees
  <1>8. FaceAt(target, f) \in C!Faces
    BY FacesAre DEF C!Faces, KInv
  <1>9. MFont[s] = NoFont
    BY SeamSees DEF FaceAt
  <1>10. MLook' = MLook
    BY <1>0 DEF MLook
  <1>11. C!Seam!Open(s)
    BY <1>0, <1>7, <1>8, <1>9, <1>10 DEF C!Seam!Open, MFont, MLook
  <1> QED BY <1>6, <1>11

(* Or it does not open.                                                    *)
LEMMA OpensNot ==
  ASSUME KInv, Faced, Apart, Learns, NEW s \in Slots, font[s] = NoFont, Unopened
  PROVE  KInv' /\ C!Seam!Open(s)
  <1>0. /\ UNCHANGED <<target, device, look, port, font, laid>> /\ Metrics'
        /\ target = "atari" /\ ready = "yes" => ready' = "yes"
        /\ target = "amiga" /\ Queried => Queried'
        /\ target = "win32" => ratio' = ratio
        /\ done' = C!Error
    BY DEF Apart, Learns, Unopened
  <1>1. Fonts'
    BY <1>0, FontsStay
  <1>2. Looks'
    BY <1>0 DEF KInv, Looks
  <1>3. KInv'
    BY <1>0, <1>1, <1>2, LaidStays DEF KInv
  <1>4. MFont' = MFont /\ MFont[s] = NoFont /\ MLook' = MLook
    BY <1>0, SeamSees DEF FaceAt, MLook
  <1>5. C!Seam!Open(s)
    BY <1>0, <1>4 DEF C!Seam!Open, MFont, MLook, C!Error, C!Seam!Error
  <1> QED BY <1>3, <1>5

(* A size of one or more is not below one.                                 *)
LEMMA LeastIs ==
  ASSUME NEW a \in Nat \ {0}
  PROVE  C!Max({1, a}) = a
  <1> DEFINE Top(x) == x \in {1, a} /\ \A y \in {1, a} : x >= y
  <1>1. Top(a) /\ \A x : Top(x) => x = a
    OBVIOUS
  <1>2. C!Max({1, a}) = CHOOSE x : Top(x)
    BY DEF C!Max
  <1> HIDE DEF Top
  <1> QED BY <1>1, <1>2

(* Opening a font: one backend after the other.                            *)
LEMMA OpenedIs ==
  ASSUME NEW s, NEW f, NEW taken, NEW given, C!Opened(s, f, taken, given)
  PROVE  OpenedAs(s, f)
  BY DEF C!Opened, OpenedAs

(* And that is how it is not opened.                                       *)
LEMMA NotOpenedIs ==
  ASSUME NEW taken, NEW given, C!NotOpened(taken, given)
  PROVE  Unopened
  BY DEF C!NotOpened, Unopened
(* The fonts of the targets.                                               *)
AtariFont(q) == [size |-> C!PickPointSize(q.size, device), style |-> q.style \cap C!Effects, owned |-> FALSE]
AmigaFont(q) == [size |-> C!Max({1, (q.size * 72) \div 1440}), style |-> q.style \cap C!Effects, owned |-> TRUE]
Topaz == [size |-> 8, style |-> {}, owned |-> FALSE]
MacFont(q) == [size |-> C!Max({1, q.size \div 20}), style |-> q.style \cap C!Effects, owned |-> FALSE]
GdiFont(q) == [size |-> C!Max({1, (q.size * ratio + 720) \div 1440}), style |-> q.style, owned |-> TRUE]
QtFont(q) == [size |-> q.size \div 20, style |-> q.style, owned |-> TRUE]
HostFont(q) == [size |-> q.size, style |-> q.style, owned |-> FALSE]

(* A font of a point or more is one of a pixel or more: the clamps to 1 do *)
(* nothing.                                                                *)
LEMMA FontsSized ==
  ASSUME NEW q, q.size \in Nat, q.size >= 20
  PROVE  /\ AmigaFont(q) = [size |-> q.size \div 20, style |-> q.style \cap C!Effects, owned |-> TRUE]
         /\ MacFont(q) = [size |-> q.size \div 20, style |-> q.style \cap C!Effects, owned |-> FALSE]
         /\ ratio = 96 => GdiFont(q) = [size |-> (q.size * 96 + 720) \div 1440, style |-> q.style,
                                        owned |-> TRUE]
         /\ q.size \div 20 \in Nat \ {0} /\ (q.size * 96 + 720) \div 1440 \in Nat \ {0}
  <1> DEFINE n == q.size
             amiga == C!Max({1, (n * 72) \div 1440})
             mac == C!Max({1, n \div 20})
             gdi == C!Max({1, (n * 96 + 720) \div 1440})
             points == n \div 20
             pixels == (n * 96 + 720) \div 1440
  <1>1. n \in Nat /\ n >= 20
    OBVIOUS
  <1>2. amiga = points /\ mac = points /\ gdi = pixels /\ points \in Nat \ {0} /\ pixels \in Nat \ {0}
    <2> DEFINE a == (n * 72) \div 1440
    <2>1. a = points /\ points \in Nat \ {0} /\ pixels \in Nat \ {0}
      BY <1>1
    <2> HIDE DEF n, a, points, pixels
    <2>2. C!Max({1, a}) = a /\ C!Max({1, points}) = points /\ C!Max({1, pixels}) = pixels
      BY <2>1, LeastIs
    <2>3. amiga = C!Max({1, a}) /\ mac = C!Max({1, points}) /\ gdi = C!Max({1, pixels})
      BY DEF a, points, pixels
    <2> HIDE DEF amiga, mac, gdi
    <2> QED BY <2>1, <2>2, <2>3
  <1>3. AmigaFont(q) = [size |-> amiga, style |-> q.style \cap C!Effects, owned |-> TRUE]
    BY DEF AmigaFont
  <1>4. MacFont(q) = [size |-> mac, style |-> q.style \cap C!Effects, owned |-> FALSE]
    BY DEF MacFont
  <1>5. ASSUME ratio = 96
        PROVE  GdiFont(q) = [size |-> gdi, style |-> q.style, owned |-> TRUE]
    BY <1>5 DEF GdiFont
  <1> HIDE DEF amiga, mac, gdi, points, pixels
  <1>6. /\ AmigaFont(q) = [size |-> points, style |-> q.style \cap C!Effects, owned |-> TRUE]
        /\ MacFont(q) = [size |-> points, style |-> q.style \cap C!Effects, owned |-> FALSE]
        /\ ratio = 96 => GdiFont(q) = [size |-> pixels, style |-> q.style, owned |-> TRUE]
    BY <1>2, <1>3, <1>4, <1>5
  <1> QED BY <1>2, <1>6 DEF points, pixels

(* Opening a font on each of the targets, resources left aside: the Atari, *)
LEMMA AtariOpenIs ==
  ASSUME NEW s, NEW q, C!AtariOpen(s, q)
  PROVE  target = "atari" /\ ((VdiLost /\ Unopened) \/ (VdiFound /\ (Unopened \/ OpenedAs(s, AtariFont(q)))))
  <1>1. /\ target = "atari"
        /\ \/ C!EnsureVdi(FALSE) /\ Unopened
           \/ C!EnsureVdi(TRUE) /\ Unopened
           \/ C!EnsureVdi(TRUE) /\ OpenedAs(s, AtariFont(q))
    BY OpenedIs, NotOpenedIs, Zenon DEF C!AtariOpen, AtariFont
  <1> QED BY <1>1, EnsureVdiIs, Zenon

(* the Amiga,                                                              *)
LEMMA AmigaOpenIs ==
  ASSUME NEW s, NEW q, C!AmigaOpen(s, q)
  PROVE  /\ target = "amiga" /\ C!Query /\ UNCHANGED ready
         /\ Unopened \/ OpenedAs(s, AmigaFont(q)) \/ OpenedAs(s, Topaz)
  BY OpenedIs, NotOpenedIs, SMT DEF C!AmigaOpen, AmigaFont, Topaz

(* the Mac,                                                                *)
LEMMA MacOpenIs ==
  ASSUME NEW s, NEW q, C!MacOpen(s, q)
  PROVE  target = "mac" /\ UNCHANGED C!metrics /\ (Unopened \/ OpenedAs(s, MacFont(q)))
  BY OpenedIs, NotOpenedIs, Zenon DEF C!MacOpen, MacFont

(* win32,                                                                  *)
LEMMA GdiOpenIs ==
  ASSUME NEW s, NEW q, C!GdiOpen(s, q)
  PROVE  target = "win32" /\ UNCHANGED C!metrics /\ (Unopened \/ OpenedAs(s, GdiFont(q)))
  BY OpenedIs, NotOpenedIs, SMT DEF C!GdiOpen, GdiFont

(* Qt,                                                                     *)
LEMMA QtOpenIs ==
  ASSUME NEW s, NEW q, C!QtOpen(s, q)
  PROVE  target = "qt" /\ UNCHANGED C!metrics /\ (Unopened \/ OpenedAs(s, QtFont(q)))
  BY OpenedIs, NotOpenedIs, Zenon DEF C!QtOpen, QtFont

(* DOS and the host.                                                       *)
LEMMA HostOpenIs ==
  ASSUME NEW s, NEW q, C!HostOpen(s, q)
  PROVE  target \in {"dos", "host"} /\ UNCHANGED C!metrics /\ (Unopened \/ OpenedAs(s, HostFont(q)))
  BY OpenedIs, NotOpenedIs, Zenon DEF C!HostOpen, HostFont

(* On the Atari a font opens as the cell that was picked for its size,     *)
LEMMA AtariOpens ==
  ASSUME Faced, KInv, NEW s \in Slots, NEW q \in Requests, font[s] = NoFont,
         Apart, C!AtariOpen(s, q)
  PROVE  KInv' /\ C!Seam!Open(s) /\ Steady
  <1>1. /\ target = "atari" /\ UNCHANGED C!setup /\ device \in Devices["atari"] /\ "atari" \in Targets
        /\ (VdiLost /\ Unopened) \/ (VdiFound /\ (Unopened \/ OpenedAs(s, AtariFont(q))))
    BY AtariOpenIs DEF C!setup, KInv, Apart
  <1> DEFINE f == AtariFont(q)
  <1>3. Metrics' /\ (ready = "yes" => ready' = "yes" /\ ratio' = ratio)
    <2>1. VdiFound \/ VdiLost
      BY <1>1
    <2> QED BY <1>1, <2>1, EnsureVdiKeeps
  <1>4. Steady
    BY <1>1, <1>3, SteadyWhen
  <1>5. Learns
    BY <1>1, <1>3 DEF Learns
  <1>6. ASSUME Unopened
        PROVE  KInv' /\ C!Seam!Open(s)
    BY <1>5, <1>6, OpensNot
  <1>7. ASSUME VdiFound, OpenedAs(s, f)
        PROVE  KInv' /\ C!Seam!Open(s)
    <2>1. Learned
      <3>1. ready' = "yes"
        BY <1>7 DEF VdiFound
      <3> QED BY <1>1, <1>5, <3>1 DEF Learned
    <2>2. C!PickPointSize(q.size, device) \in Nat \ {0}
      <3>1. IsDevice(device) /\ q.size \in Nat
        BY <1>1, FontsAssumption DEF FontsAssumption, IsDevice
      <3> QED BY <3>1, PickedFits, SamePick
    <2>3. IsFont(f)
      BY <2>2 DEF IsFont, AtariFont
    <2>4. FaceAt(target, f) \in FacesAt(target, device, ratio, q)
      <3>1. f # NoFont
        BY DEF Faced, AtariFont
      <3>2. C!Cell(f) = C!Cell([size |-> C!PickPointSize(q.size, device),
                                style |-> q.style \cap C!Effects])
        BY DEF C!Cell, AtariFont
      <3> HIDE DEF f
      <3> QED BY <1>1, <3>1, <3>2 DEF FaceAt, FacesAt
    <2> HIDE DEF f
    <2> QED BY <1>7, <2>1, <2>3, <2>4, OpensWell
  <1> QED BY <1>1, <1>4, <1>6, <1>7

(* A square face, of a size.                                               *)
LEMMA SquareOpens ==
  ASSUME Faced, KInv, target # "atari", Apart, Learned, NEW s \in Slots, font[s] = NoFont,
         NEW q \in Requests, NEW size \in Nat \ {0}, NEW style, NEW owned \in {TRUE, FALSE},
         [w |-> size, h |-> size, style |-> style] \in FacesAt(target, device, ratio, q),
         OpenedAs(s, [size |-> size, style |-> style, owned |-> owned])
  PROVE  KInv' /\ C!Seam!Open(s)
  <1> DEFINE f == [size |-> size, style |-> style, owned |-> owned]
  <1>1. f # NoFont
    BY DEF Faced
  <1>2. IsFont(f)
    BY DEF IsFont
  <1>3. FaceAt(target, f) \in FacesAt(target, device, ratio, q)
    <2>1. FaceAt(target, f) = C!Square(f)
      BY <1>1 DEF FaceAt
    <2>2. C!Square(f) = [w |-> size, h |-> size, style |-> style]
      BY DEF C!Square
    <2> HIDE DEF f
    <2> QED BY <2>1, <2>2
  <1>4. OpenedAs(s, f)
    OBVIOUS
  <1> HIDE DEF f
  <1> QED BY <1>2, <1>3, <1>4, OpensWell

(* on the Amiga as it was asked for or as the default,                     *)
LEMMA AmigaOpens ==
  ASSUME Faced, KInv, NEW s \in Slots, NEW q \in Requests, font[s] = NoFont,
         Apart, C!AmigaOpen(s, q)
  PROVE  KInv' /\ C!Seam!Open(s) /\ Steady
  <1>1. target = "amiga" /\ UNCHANGED C!setup /\ C!Query /\ ready' = ready
    BY AmigaOpenIs DEF C!setup, Apart
  <1>2. Metrics' /\ Queried' /\ (Queried => ratio' = ratio)
    BY <1>1, QueryKeeps
  <1>3. Steady
    BY <1>1, <1>2, SteadyWhen
  <1>4. Learned /\ Learns
    BY <1>1, <1>2 DEF Learned, Learns
  <1>5. q.size \in Nat /\ q.size >= 20
    BY FontsAssumption DEF FontsAssumption
  <1>6. Unopened \/ OpenedAs(s, AmigaFont(q)) \/ OpenedAs(s, Topaz)
    BY AmigaOpenIs
  <1> DEFINE points == q.size \div 20
             style == q.style \cap C!Effects
  <1>7. /\ AmigaFont(q) = [size |-> points, style |-> style, owned |-> TRUE]
        /\ points \in Nat \ {0}
    BY <1>5, FontsSized
  <1>8. /\ [w |-> points, h |-> points, style |-> style] \in FacesAt(target, device, ratio, q)
        /\ [w |-> 8, h |-> 8, style |-> {}] \in FacesAt(target, device, ratio, q)
    BY <1>1 DEF FacesAt
  <1> HIDE DEF points, style
  <1>9. CASE OpenedAs(s, AmigaFont(q))
    BY <1>1, <1>3, <1>4, <1>7, <1>8, <1>9, SquareOpens
  <1>10. CASE OpenedAs(s, Topaz)
    <2>1. 8 \in Nat \ {0} /\ target # "atari"
      BY <1>1
    <2> QED BY <1>3, <1>4, <1>8, <1>10, <2>1, SquareOpens DEF Topaz
  <1> QED BY <1>3, <1>4, <1>6, <1>9, <1>10, OpensNot

(* The others: one size, and metrics that stay as they are.                *)
LEMMA OthersOpen ==
  ASSUME Faced, KInv, NEW s \in Slots, NEW q \in Requests, font[s] = NoFont,
         Apart, C!MacOpen(s, q) \/ C!GdiOpen(s, q) \/ C!QtOpen(s, q) \/ C!HostOpen(s, q)
  PROVE  KInv' /\ C!Seam!Open(s) /\ Steady
  <1>1. UNCHANGED C!metrics /\ target \in {"mac", "win32", "qt", "dos", "host"}
    BY MacOpenIs, GdiOpenIs, QtOpenIs, HostOpenIs
  <1>2. UNCHANGED <<ready, asked, ratio, target>>
    BY <1>1 DEF C!metrics, Apart
  <1>3. Metrics' /\ (Queried' <=> Queried)
    BY <1>2, QueriedIs DEF KInv, Metrics
  <1>4. Steady
    BY <1>2, SteadyWhen
  <1>5. Learned /\ Learns
    BY <1>1, <1>2, <1>3 DEF Learned, Learns
  <1>6. q.size \in Nat /\ q.size >= 20
    BY FontsAssumption DEF FontsAssumption
  <1>7. target # "atari"
    BY <1>1
  <1>8. ASSUME Unopened
        PROVE  KInv' /\ C!Seam!Open(s) /\ Steady
    BY <1>4, <1>5, <1>8, OpensNot
  <1>9. ASSUME NEW size \in Nat \ {0}, NEW style, NEW owned \in {TRUE, FALSE},
               [w |-> size, h |-> size, style |-> style] \in FacesAt(target, device, ratio, q),
               OpenedAs(s, [size |-> size, style |-> style, owned |-> owned])
        PROVE  KInv' /\ C!Seam!Open(s) /\ Steady
    BY <1>4, <1>5, <1>7, <1>9, SquareOpens
  <1> DEFINE points == q.size \div 20
             style == q.style \cap C!Effects
  <1>10. points \in Nat \ {0} /\ TRUE \in {TRUE, FALSE} /\ FALSE \in {TRUE, FALSE}
    BY <1>6, FontsSized
  <1>11. CASE C!MacOpen(s, q)
    <2>1. target = "mac" /\ (Unopened \/ OpenedAs(s, MacFont(q)))
      BY <1>11, MacOpenIs
    <2>2. [w |-> points, h |-> points, style |-> style] \in FacesAt(target, device, ratio, q)
      BY <2>1 DEF FacesAt
    <2>3. MacFont(q) = [size |-> points, style |-> style, owned |-> FALSE]
      BY <1>6, FontsSized
    <2> HIDE DEF points, style
    <2> QED BY <1>8, <1>9, <1>10, <2>1, <2>2, <2>3
  <1>12. CASE C!GdiOpen(s, q)
    <2>1. target = "win32" /\ (Unopened \/ OpenedAs(s, GdiFont(q)))
      BY <1>12, GdiOpenIs
    <2>2. ratio = 96
      BY <2>1 DEF KInv, Metrics
    <2> DEFINE size == (q.size * 96 + 720) \div 1440
    <2>3. [w |-> size, h |-> size, style |-> q.style] \in FacesAt(target, device, ratio, q)
      BY <2>1, <2>2 DEF FacesAt
    <2>4. GdiFont(q) = [size |-> size, style |-> q.style, owned |-> TRUE]
      BY <1>6, <2>2, FontsSized
    <2>5. size \in Nat \ {0}
      BY <1>6, FontsSized
    <2> HIDE DEF size
    <2> QED BY <1>8, <1>9, <1>10, <2>1, <2>3, <2>4, <2>5
  <1>13. CASE C!QtOpen(s, q)
    <2>1. target = "qt" /\ (Unopened \/ OpenedAs(s, QtFont(q)))
      BY <1>13, QtOpenIs
    <2>2. [w |-> points, h |-> points, style |-> q.style] \in FacesAt(target, device, ratio, q)
      BY <2>1 DEF FacesAt
    <2>3. QtFont(q) = [size |-> points, style |-> q.style, owned |-> TRUE]
      BY DEF QtFont
    <2> HIDE DEF points
    <2> QED BY <1>8, <1>9, <1>10, <2>1, <2>2, <2>3
  <1>14. CASE C!HostOpen(s, q)
    <2>1. target \in {"dos", "host"} /\ (Unopened \/ OpenedAs(s, HostFont(q)))
      BY <1>14, HostOpenIs
    <2>2. [w |-> q.size, h |-> q.size, style |-> q.style] \in FacesAt(target, device, ratio, q)
      BY <2>1 DEF FacesAt
    <2>3. q.size \in Nat \ {0}
      BY <1>6
    <2> QED BY <1>8, <1>9, <1>10, <2>1, <2>2, <2>3 DEF HostFont
  <1> QED BY <1>11, <1>12, <1>13, <1>14

(* plat_font_open keeps what the seam promises, on every target.           *)
LEMMA OpenStep ==
  ASSUME Faced, KInv, NEW s \in Slots, NEW q \in Requests, C!Open(s, q)
  PROVE  KInv' /\ C!Seam!Open(s) /\ Steady
  <1>1. font[s] = NoFont /\ Apart
    BY DEF C!Open, C!setup, Apart
  <1>2. \/ C!AtariOpen(s, q) \/ C!AmigaOpen(s, q)
        \/ C!MacOpen(s, q) \/ C!GdiOpen(s, q) \/ C!QtOpen(s, q) \/ C!HostOpen(s, q)
    BY DEF C!Open
  <1> QED BY <1>1, <1>2, AtariOpens, AmigaOpens, OthersOpen

(* So does plat_font_close: the other fonts keep their faces.              *)
LEMMA CloseStep ==
  ASSUME Faced, KInv, NEW s \in Slots, C!Close(s)
  PROVE  KInv' /\ C!Seam!Close(s) /\ Steady
  <1>1. /\ font[s] # NoFont /\ font' = [font EXCEPT ![s] = NoFont] /\ done' = [call |-> "close"]
        /\ UNCHANGED <<target, device, ready, asked, ratio, look, port, laid>>
    BY DEF C!Close, C!setup, C!metrics
  <1>2. DOMAIN font = Slots /\ DOMAIN font' = Slots /\ font'[s] = NoFont
        /\ \A t \in Slots \ {s} : font'[t] = font[t]
    BY <1>1 DEF KInv, Fonts
  <1>9. Queried' <=> Queried
    BY <1>1, QueriedIs
  <1>3. Fonts'
    <2>1. \A t \in Slots \ {s} : font'[t] # NoFont =>
            /\ IsFont(font'[t])
            /\ \E q \in Requests : FaceAt(target, font'[t]) \in FacesAt(target, device, ratio, q)
            /\ target = "atari" => ready = "yes"
            /\ target = "amiga" => Queried
      BY <1>2 DEF KInv, Fonts
    <2> QED BY <1>1, <1>2, <1>9, <2>1 DEF Fonts
  <1>4. Looks' /\ Metrics'
    BY <1>1 DEF KInv, Looks, Metrics
  <1>5. KInv'
    BY <1>1, <1>3, <1>4, <1>9, LaidStays DEF KInv
  <1>6. MFont' = [MFont EXCEPT ![s] = NoFont] /\ MLook' = MLook /\ MFont[s] # NoFont
    <2>1. FaceAt(target, NoFont) = NoFont
      BY DEF FaceAt
    <2>2. FaceAt(target, font[s]) # NoFont
      BY <1>1, FacesReal
    <2> QED BY <1>1, <1>2, <2>1, <2>2, SeamSees DEF MLook
  <1>7. C!Seam!Close(s)
    BY <1>1, <1>6 DEF C!Seam!Close, MFont, MLook
  <1>8. Steady
    BY <1>1, SteadyWhen
  <1> QED BY <1>5, <1>7, <1>8

(* A look with another face, another pen, another filling.                 *)
LEMMA LookWith ==
  ASSUME NEW l, IsLook(l), NEW x
  PROVE  /\ [l EXCEPT !.face = x] =
              [face |-> x, pen |-> l.pen, ground |-> l.ground, place |-> l.place, fill |-> l.fill]
         /\ [l EXCEPT !.pen = x] =
              [face |-> l.face, pen |-> x, ground |-> l.ground, place |-> l.place, fill |-> l.fill]
         /\ [l EXCEPT !.place = x] =
              [face |-> l.face, pen |-> l.pen, ground |-> l.ground, place |-> x, fill |-> l.fill]
         /\ [l EXCEPT !.fill = x] =
              [face |-> l.face, pen |-> l.pen, ground |-> l.ground, place |-> l.place, fill |-> x]
  BY DEF IsLook

(* A look with another face and pen, with another face and place, and with *)
(* another everything but what it fills with.                              *)
FacePen(l, f, p) == [l EXCEPT !.face = f, !.pen = p]
FacePlace(l, f, x) == [l EXCEPT !.face = f, !.place = x]
AllText(l, f, p, g, x) == [l EXCEPT !.face = f, !.pen = p, !.ground = g, !.place = x]

(* The first two,                                                          *)
LEMMA LookWithMore ==
  ASSUME NEW l, IsLook(l), NEW f, NEW p
  PROVE  /\ FacePen(l, f, p) =
              [face |-> f, pen |-> p, ground |-> l.ground, place |-> l.place, fill |-> l.fill]
         /\ FacePlace(l, f, p) =
              [face |-> f, pen |-> l.pen, ground |-> l.ground, place |-> p, fill |-> l.fill]
  <1> DEFINE m == [l EXCEPT !.face = f]
  <1>1. m = [face |-> f, pen |-> l.pen, ground |-> l.ground, place |-> l.place, fill |-> l.fill]
    BY LookWith
  <1> HIDE DEF m
  <1>2. [m EXCEPT !.pen = p] =
          [face |-> f, pen |-> p, ground |-> l.ground, place |-> l.place, fill |-> l.fill]
    BY <1>1
  <1>3. [m EXCEPT !.place = p] =
          [face |-> f, pen |-> l.pen, ground |-> l.ground, place |-> p, fill |-> l.fill]
    BY <1>1
  <1> QED BY <1>2, <1>3 DEF m, FacePen, FacePlace

(* and the third.                                                          *)
LEMMA LookWithMost ==
  ASSUME NEW l, IsLook(l), NEW f, NEW p, NEW g, NEW x
  PROVE  AllText(l, f, p, g, x) =
           [face |-> f, pen |-> p, ground |-> g, place |-> x, fill |-> l.fill]
  <1> DEFINE n == FacePen(l, f, p)
             o == [n EXCEPT !.ground = g]
  <1>1. n = [face |-> f, pen |-> p, ground |-> l.ground, place |-> l.place, fill |-> l.fill]
    BY LookWithMore
  <1> HIDE DEF n
  <1>2. o = [face |-> f, pen |-> p, ground |-> g, place |-> l.place, fill |-> l.fill]
    BY <1>1
  <1> HIDE DEF o
  <1>3. [o EXCEPT !.place = x] = [face |-> f, pen |-> p, ground |-> g, place |-> x, fill |-> l.fill]
    BY <1>2
  <1> QED BY <1>3 DEF n, o, FacePen, AllText

(* Selecting a face in a context leaves the others, and the pens.          *)
LEMMA SelectIs ==
  ASSUME KInv, NEW c \in C!Contexts, NEW f, C!Select(c, f)
  PROVE  /\ DOMAIN look' = C!Contexts /\ look'[c].face = f /\ IsLook(look'[c])
         /\ \A d \in C!Contexts \ {c} : look'[d] = look[d]
  <1>1. DOMAIN look = C!Contexts /\ IsLook(look[c])
    BY DEF KInv, Looks
  <1>2. look' = [look EXCEPT ![c] = [look[c] EXCEPT !.face = f]]
    BY DEF C!Select
  <1> DEFINE l == [look[c] EXCEPT !.face = f]
  <1>3. l.face = f /\ IsLook(l)
    <2> DEFINE k == look[c]
    <2>1. [k EXCEPT !.face = f] =
            [face |-> f, pen |-> k.pen, ground |-> k.ground, place |-> k.place, fill |-> k.fill]
      BY <1>1, LookWith
    <2>2. l = [k EXCEPT !.face = f]
      OBVIOUS
    <2> HIDE DEF k, l
    <2> QED BY <2>1, <2>2 DEF IsLook
  <1>4. look' = [look EXCEPT ![c] = l]
    BY <1>2
  <1> HIDE DEF l
  <1> QED BY <1>1, <1>3, <1>4

(* The width of a text of as many characters.                              *)
LEMMA WideIs ==
  ASSUME NEW f, f.w \in Int, NEW t \in C!Texts, NEW g \in Targets
  PROVE  C!Wide(f, C!Characters[g][t]) = Len(C!Characters[g][t]) * f.w
  <1> DEFINE shown == C!Characters[g][t]
             w == f.w
  <1>1. Len(shown) \in Nat /\ (shown = <<>> => Len(shown) = 0)
    BY CharactersCount, DosAssumption
  <1>2. C!Wide(f, shown) = IF shown = <<>> THEN 0 ELSE Len(shown) * w
    BY DEF C!Wide
  <1>3. w \in Int
    OBVIOUS
  <1> HIDE DEF shown, w
  <1>4. C!Wide(f, shown) = Len(shown) * w
    BY <1>1, <1>2, <1>3
  <1> QED BY <1>4 DEF shown, w

(* The face of an open font has a width.                                   *)
LEMMA FaceWide ==
  ASSUME KInv, NEW s \in Slots, font[s] # NoFont
  PROVE  FaceAt(target, font[s]).w \in Int
  <1>1. IsFont(font[s])
    BY DEF KInv, Fonts
  <1>2. CASE target = "atari"
    <2>1. font[s].size \in Int
      BY <1>1 DEF IsFont
    <2>2. VstPoint(font[s].size).w \in Int
      BY <2>1, CellTyped
    <2> QED BY <1>2, <2>2, SameCells DEF FaceAt, C!Cell
  <1>3. CASE target # "atari"
    BY <1>1, <1>3 DEF FaceAt, C!Square, IsFont
  <1> QED BY <1>2, <1>3

(* What the widths are, on each target.                                    *)
LEMMA WidthIs ==
  ASSUME NEW f, NEW t
  PROVE  /\ target = "atari" /\ t # C!Lines =>
              C!Width(f, t) = C!ToTwips(Len(C!Characters[target][t]) * f.w, ratio)
         /\ target = "atari" /\ t = C!Lines => C!Width(f, t) = C!LineHeight(f, C!Dpi(device.umy))
         /\ target = "amiga" /\ t # C!Lines =>
              C!Width(f, t) = C!AmigaTwips(Len(C!Characters[target][t]) * f.w, ratio)
         /\ target = "amiga" /\ t = C!Lines => C!Width(f, t) = C!AmigaTwips(f.h, 72)
         /\ target = "win32" /\ t # C!Lines =>
              C!Width(f, t) = C!GdiTwips(Len(C!Characters[target][t]) * f.w)
         /\ target = "win32" /\ t = C!Lines => C!Width(f, t) = C!GdiTwips(f.h)
         /\ target = "host" /\ t # C!Lines => C!Width(f, t) = (f.w \div 2) * C!Steps[t]
         /\ target = "host" /\ t = C!Lines => C!Width(f, t) = f.h + f.h \div 4
         /\ target = "dos" /\ t # C!Lines => C!Width(f, t) = 144 * C!Steps[t]
         /\ target = "dos" /\ t = C!Lines => C!Width(f, t) = 240
         /\ target \in {"mac", "qt"} /\ t # C!Lines =>
              C!Width(f, t) = 20 * (Len(C!Characters[target][t]) * f.w)
         /\ target \in {"mac", "qt"} /\ t = C!Lines => C!Width(f, t) = 20 * f.h
  <1>1. CASE target = "atari"
    BY <1>1 DEF C!Width
  <1>2. CASE target = "amiga"
    BY <1>2 DEF C!Width
  <1>3. CASE target = "win32"
    BY <1>3 DEF C!Width
  <1>4. CASE target = "host"
    BY <1>4 DEF C!Width
  <1>5. CASE target = "dos"
    BY <1>5 DEF C!Width
  <1>6. CASE target \in {"mac", "qt"}
    BY <1>6 DEF C!Width
  <1> QED BY <1>1, <1>2, <1>3, <1>4, <1>5, <1>6

(* What an answer and what a drawing are.                                  *)
LEMMA CallIs ==
  /\ \A n : done' = C!Answer(n) => done'.call = "measure"
  /\ \A on, f, shown, p : done' = C!Ink(on, f, shown, p) => done'.call = "ink"
  BY DEF C!Answer, C!Ink

(* A measurement answers what the seam says, or fails where it may.        *)
Answers(s, t) == done' = C!Answer(C!Width(FaceAt(target, font[s]), t))
Fails == done' = C!Error /\ "fails" \in C!Quirks

(* An answer that is the width of the face, or a failure the backend is    *)
(* known for, is one of the seam's.                                        *)
LEMMA MeasuresWell ==
  ASSUME KInv, Faced, Metrics', Queried' <=> Queried, UNCHANGED <<target, device, ratio, font, laid>>,
         target = "atari" => ready' = ready,
         NEW s \in Slots, font[s] # NoFont, NEW t \in C!Texts \cup {C!Lines},
         look' = look \/ \E f : C!Select("metrics", f),
         port' = port \/ (port' = "metrics" /\ "takes port" \in C!Quirks),
         Answers(s, t) \/ Fails
  PROVE  KInv' /\ C!Seam!Measure(s, t) /\ Steady
  <1>1. Fonts'
    BY FontsStay
  <1>2. /\ DOMAIN look' = C!Contexts /\ IsLook(look'["metrics"])
        /\ \A c \in C!Contexts \ {"metrics"} : look'[c] = look[c]
    <2>1. "metrics" \in C!Contexts
      BY DEF C!Contexts
    <2>2. CASE look' = look
      BY <2>1, <2>2 DEF KInv, Looks
    <2>3. ASSUME NEW f, C!Select("metrics", f)
          PROVE  /\ DOMAIN look' = C!Contexts /\ IsLook(look'["metrics"])
                 /\ \A c \in C!Contexts \ {"metrics"} : look'[c] = look[c]
      BY <2>1, <2>3, SelectIs
    <2> QED BY <2>2, <2>3
  <1>3. Looks'
    <2>1. "window" \in C!Contexts \ {"metrics"} /\ "metrics" \in C!Contexts
      BY DEF C!Contexts, C!Ports
    <2>2. \A c \in C!Contexts : IsLook(look'[c])
      BY <1>2 DEF KInv, Looks
    <2>3. port' \in C!Contexts
      BY <2>1 DEF KInv, Looks
    <2> QED BY <1>2, <2>1, <2>2, <2>3 DEF KInv, Looks
  <1>4. KInv'
    BY <1>1, <1>3, LaidStays DEF KInv
  <1>5. MFont' = MFont /\ MFont[s] = FaceAt(target, font[s]) /\ MFont[s] # NoFont
    <2>1. MFont' = MFont
      BY SeamSees
    <2>2. MFont[s] = FaceAt(target, font[s])
      BY SeamSees
    <2>3. FaceAt(target, font[s]) # NoFont
      <3>1. \A f : f # NoFont => FaceAt(target, f) # NoFont
        BY FacesReal
      <3> QED BY <3>1
    <2> QED BY <2>1, <2>2, <2>3
  <1>6. MLook' = MLook
    <2>1. \A p \in C!Ports : p \in C!Contexts \ {"metrics"}
      BY DEF C!Contexts, C!Ports
    <2> QED BY <1>2, <2>1 DEF MLook
  <1>7. FaceAt(target, font[s]) \in {C!Face(font[u]) : u \in Slots}
    BY FaceIs
  <1> DEFINE advance == [f \in {C!Face(font[u]) : u \in Slots} |-> [u \in C!Texts \cup {C!Lines} |-> C!Width(f, u)]]
  <1>8. advance[MFont[s]][t] = C!Width(FaceAt(target, font[s]), t)
    BY <1>5, <1>7
  <1> HIDE DEF advance
  <1>9. \/ /\ done'.call = "measure"
           /\ done' = [call |-> "measure", width |-> advance[MFont[s]][t]]
        \/ "fails" \in C!Quirks /\ done' = C!Seam!Error
    <2>1. CASE Answers(s, t)
      <3>1. done'.call = "measure"
        BY <2>1, CallIs, Zenon DEF Answers
      <3>2. done' = [call |-> "measure", width |-> advance[MFont[s]][t]]
        BY <1>8, <2>1, Zenon DEF Answers, C!Answer
      <3> QED BY <3>1, <3>2
    <2>2. CASE Fails
      BY <2>2, Zenon DEF Fails, C!Error, C!Seam!Error
    <2> QED BY <2>1, <2>2
  <1>10. port' \in {port} \cup {"metrics" : q \in C!Quirks \cap {"takes port"}}
    OBVIOUS
  <1>11. C!Seam!Measure(s, t)
    BY <1>5, <1>6, <1>9, <1>10, Zenon DEF C!Seam!Measure, MFont, MLook, advance
  <1>12. Steady
    BY DEF Steady
  <1> QED BY <1>4, <1>11, <1>12

(* Each backend's measurements.                                            *)
Widthed(s, t) == Len(C!Characters[target][t]) * FaceAt(target, font[s]).w

(* It is a number of characters times a width.                             *)
LEMMA Widthed1 ==
  ASSUME KInv, NEW s \in Slots, font[s] # NoFont, NEW t \in C!Texts
  PROVE  C!Wide(FaceAt(target, font[s]), C!Characters[target][t]) = Widthed(s, t)
  <1>1. FaceAt(target, font[s]).w \in Int /\ target \in Targets
    BY FaceWide DEF KInv
  <1> QED BY <1>1, WideIs DEF Widthed

(* A text is none of the lines.                                            *)
LEMMA NotLines == \A t : t \in C!Texts => t \in C!Texts \cup {C!Lines}
  OBVIOUS

(* The Atari selects the font's cell before it measures, so that what it   *)
(* measures is the font asked about, whatever was measured before.         *)
LEMMA AtariMeasures ==
  ASSUME KInv, Faced, NEW s \in Slots, font[s] # NoFont, NEW t \in C!Texts \cup {C!Lines},
         C!AtariMeasure(s, t)
  PROVE  /\ UNCHANGED <<ready, asked, ratio, port>> /\ target = "atari"
         /\ \E f : C!Select("metrics", f)
         /\ Answers(s, t)
  <1> DEFINE face == FaceAt(target, font[s])
             cell == C!Cell(font[s])
             native == C!ToBytes(\h7F, C!Cut(Samples[t], BUFFER - 1), BUFFER - 1)
             chars == C!Characters[target][t]
  <1>1. target = "atari" /\ UNCHANGED <<ready, asked, ratio, port>>
    BY DEF C!AtariMeasure, C!metrics
  <1>2. face = cell
    BY <1>1 DEF FaceAt
  <1>3. CASE t # C!Lines
    <2>1. C!Select("metrics", cell) /\ done' = C!Answer(C!ToTwips(C!Wide(look'["metrics"].face, native), ratio))
      BY <1>3 DEF C!AtariMeasure
    <2>2. look'["metrics"].face = cell
      <3>1. "metrics" \in C!Contexts
        BY DEF C!Contexts
      <3> HIDE DEF cell, native
      <3> QED BY <2>1, <3>1, SelectIs
    <2>3. native = chars
      BY <1>1, <1>3, CharactersAre, DosAssumption DEF KInv
    <2>4. C!Wide(face, chars) = Widthed(s, t)
      BY <1>3, Widthed1
    <2>5. C!Width(face, t) = C!ToTwips(Widthed(s, t), ratio)
      BY <1>1, <1>3, WidthIs DEF Widthed
    <2> HIDE DEF face, cell, native, chars
    <2>6. done' = C!Answer(C!Width(face, t))
      BY <1>2, <2>1, <2>2, <2>3, <2>4, <2>5
    <2>7. Answers(s, t)
      BY <2>6 DEF Answers, face
    <2> QED BY <1>1, <2>1, <2>7
  <1>4. CASE t = C!Lines
    <2> DEFINE plain == [cell EXCEPT !.style = {}]
    <2>1. C!Select("metrics", plain)
          /\ done' = C!Answer(C!LineHeight(C!VstPoint(font[s].size), C!Dpi(device.umy)))
      BY <1>4 DEF C!AtariMeasure
    <2>2. C!LineHeight(C!VstPoint(font[s].size), C!Dpi(device.umy)) = C!LineHeight(cell, C!Dpi(device.umy))
      BY DEF C!LineHeight, C!Ascent, C!Descent, C!Leading, C!Cell
    <2>3. C!Width(face, t) = C!LineHeight(face, C!Dpi(device.umy))
      BY <1>1, <1>4, WidthIs
    <2> HIDE DEF face, cell, plain
    <2>4. done' = C!Answer(C!Width(face, t))
      BY <1>2, <2>1, <2>2, <2>3
    <2>5. Answers(s, t)
      BY <2>4 DEF Answers, face
    <2> QED BY <1>1, <2>1, <2>5
  <1> QED BY <1>3, <1>4

(* The metrics' port or raster port is found or is not, once.              *)
LEMMA EnsureOnceIs ==
  /\ C!EnsureOnce(TRUE) => UNCHANGED <<asked, ratio>> /\ ready' = "yes" /\ ready \in {"no", "yes"}
  /\ C!EnsureOnce(FALSE) => UNCHANGED <<asked, ratio>> /\ ready' \in {ready, "failed"} /\ ready # "yes"
  <1>1. ASSUME C!EnsureOnce(TRUE)
        PROVE  UNCHANGED <<asked, ratio>> /\ ready' = "yes" /\ ready \in {"no", "yes"}
    BY <1>1 DEF C!EnsureOnce
  <1>2. ASSUME C!EnsureOnce(FALSE)
        PROVE  UNCHANGED <<asked, ratio>> /\ ready' \in {ready, "failed"} /\ ready # "yes"
    BY <1>2 DEF C!EnsureOnce
  <1> QED BY <1>1, <1>2

(* The quirks of the targets.                                              *)
LEMMA QuirksAre ==
  /\ target \in {"amiga", "mac"} /\ ready # "yes" => "fails" \in C!Quirks
  /\ target = "win32" => "fails" \in C!Quirks
  /\ target = "mac" /\ ready = "no" => "takes port" \in C!Quirks
  /\ target \in {"atari", "amiga", "mac"} => "leaves face" \in C!Quirks
  /\ target \in {"atari", "amiga"} => "leaves pen" \in C!Quirks
  /\ target = "mac" => "leaves pen" \notin C!Quirks
  /\ target = "amiga" => "leaves ground" \in C!Quirks /\ "truncates" \in C!Quirks
  /\ target \in {"atari", "mac"} => "leaves ground" \notin C!Quirks
  /\ target \in {"amiga", "mac"} => "leaves place" \in C!Quirks
  /\ target = "atari" => "leaves place" \notin C!Quirks
  /\ target = "amiga" => "fills pen" \in C!Quirks /\ "fills fill" \notin C!Quirks
  /\ target = "mac" =>
       "fills pen" \notin C!Quirks /\ "fills black" \in C!Quirks /\ "fills fill" \notin C!Quirks
  /\ target = "atari" =>
       "fills pen" \notin C!Quirks /\ "fills black" \notin C!Quirks /\ "fills fill" \in C!Quirks
  /\ target = "mac" => "takes window" \in C!Quirks
  /\ target \in {"dos", "host"} => "blind" \in C!Quirks
  /\ target \in {"atari", "mac", "dos"} => "truncates" \notin C!Quirks
  <1>1. CASE target = "atari"
    BY <1>1 DEF C!Quirks
  <1>2. CASE target = "amiga"
    BY <1>2 DEF C!Quirks
  <1>3. CASE target = "mac"
    BY <1>3 DEF C!Quirks
  <1>4. CASE target = "win32"
    BY <1>4 DEF C!Quirks
  <1>5. CASE target \in {"dos", "host"}
    BY <1>5 DEF C!Quirks
  <1> QED BY <1>1, <1>2, <1>3, <1>4, <1>5

(* The face that has been selected is the one that is measured.            *)
LEMMA SelectedFace ==
  ASSUME KInv, NEW f, C!Select("metrics", f)
  PROVE  look'["metrics"].face = f
  <1>1. "metrics" \in C!Contexts
    BY DEF C!Contexts
  <1> QED BY <1>1, SelectIs

(* Nothing has no width.                                                   *)
LEMMA WideNone == \A f : C!Wide(f, <<>>) = 0
  BY DEF C!Wide

(* But for the Atari's, a face is as wide as high.                         *)
LEMMA FaceSquare ==
  ASSUME target # "atari", NEW s, font[s] # NoFont
  PROVE  /\ FaceAt(target, font[s]) = C!Square(font[s])
         /\ FaceAt(target, font[s]).h = font[s].size /\ FaceAt(target, font[s]).w = font[s].size
  BY DEF FaceAt, C!Square

(* The Amiga measures with the font asked about, or fails if it has no     *)
(* raster port.                                                            *)
LEMMA AmigaMeasures ==
  ASSUME KInv, Faced, NEW s \in Slots, font[s] # NoFont, NEW t \in C!Texts \cup {C!Lines},
         C!AmigaMeasure(s, t)
  PROVE  /\ UNCHANGED <<asked, ratio, port>> /\ target = "amiga" /\ ready' \in {ready, "yes", "failed"}
         /\ look' = look \/ \E f : C!Select("metrics", f)
         /\ Answers(s, t) \/ Fails
  <1> DEFINE face == FaceAt(target, font[s])
             square == C!Square(font[s])
             native == C!ToBytes(\hFF, C!Cut(Samples[t], BUFFER), BUFFER)
             chars == C!Characters[target][t]
  <1>1. target = "amiga" /\ port' = port
    BY DEF C!AmigaMeasure
  <1>2. face = square /\ face.h = font[s].size
    BY <1>1, FaceSquare
  <1>3. \/ t # C!Lines /\ C!EnsureOnce(FALSE) /\ UNCHANGED look /\ done' = C!Error
        \/ /\ t # C!Lines /\ C!EnsureOnce(TRUE)
           /\ IF native = <<>> THEN UNCHANGED look ELSE C!Select("metrics", square)
           /\ done' = C!Answer(C!AmigaTwips(C!Wide(look'["metrics"].face, native), ratio))
        \/ /\ t = C!Lines /\ UNCHANGED C!metrics /\ UNCHANGED look
           /\ done' = C!Answer(C!AmigaTwips(font[s].size, 72))
    BY DEF C!AmigaMeasure
  <1> HIDE DEF face, square, native
  <1>4. CASE t # C!Lines /\ C!EnsureOnce(FALSE) /\ UNCHANGED look /\ done' = C!Error
    BY <1>1, <1>4, EnsureOnceIs, QuirksAre DEF Fails
  <1>5. CASE /\ t # C!Lines /\ C!EnsureOnce(TRUE)
             /\ IF native = <<>> THEN UNCHANGED look ELSE C!Select("metrics", square)
             /\ done' = C!Answer(C!AmigaTwips(C!Wide(look'["metrics"].face, native), ratio))
    <2>1. native = chars
      BY <1>1, <1>5, CharactersAre, DosAssumption DEF KInv, native
    <2>2. C!Wide(face, chars) = Widthed(s, t)
      BY <1>5, Widthed1 DEF face
    <2>3. C!Width(face, t) = C!AmigaTwips(Widthed(s, t), ratio)
      BY <1>1, <1>5, WidthIs DEF Widthed, face
    <2> HIDE DEF chars
    <2>4. C!Wide(look'["metrics"].face, native) = C!Wide(face, chars)
      <3>1. CASE native = <<>>
        BY <2>1, <3>1, WideNone
      <3>2. CASE native # <<>>
        BY <1>2, <1>5, <2>1, <3>2, SelectedFace
      <3> QED BY <3>1, <3>2
    <2>5. done' = C!Answer(C!Width(face, t))
      BY <1>5, <2>2, <2>3, <2>4
    <2>6. Answers(s, t)
      BY <2>5 DEF Answers, face
    <2>7. UNCHANGED <<asked, ratio>> /\ ready' \in {ready, "yes", "failed"}
      BY <1>5, EnsureOnceIs
    <2>8. look' = look \/ \E f : C!Select("metrics", f)
      BY <1>5
    <2> QED BY <1>1, <2>6, <2>7, <2>8
  <1>6. CASE /\ t = C!Lines /\ UNCHANGED C!metrics /\ UNCHANGED look
             /\ done' = C!Answer(C!AmigaTwips(font[s].size, 72))
    <2>1. C!Width(face, t) = C!AmigaTwips(face.h, 72)
      BY <1>1, <1>6, WidthIs
    <2>2. Answers(s, t)
      BY <1>2, <1>6, <2>1 DEF Answers, face
    <2>3. UNCHANGED <<ready, asked, ratio>>
      BY <1>6 DEF C!metrics
    <2> QED BY <1>1, <1>6, <2>2, <2>3
  <1> QED BY <1>3, <1>4, <1>5, <1>6

(* The Mac measures in a port of its own, and gives the old one back, but  *)
(* for the time that it opens it.                                          *)
LEMMA MacMeasures ==
  ASSUME KInv, Faced, NEW s \in Slots, font[s] # NoFont, NEW t \in C!Texts \cup {C!Lines},
         C!MacMeasure(s, t)
  PROVE  /\ UNCHANGED <<asked, ratio>> /\ target = "mac" /\ ready' \in {ready, "yes", "failed"}
         /\ look' = look \/ \E f : C!Select("metrics", f)
         /\ port' = port \/ (port' = "metrics" /\ "takes port" \in C!Quirks)
         /\ Answers(s, t) \/ Fails
  <1> DEFINE face == FaceAt(target, font[s])
             square == C!Square(font[s])
             native == C!ToBytes(\h7F, C!Cut(Samples[t], BUFFER), BUFFER)
             chars == C!Characters[target][t]
             found == look'["metrics"].face
  <1>1. target = "mac"
    BY DEF C!MacMeasure
  <1>2. face = square
    BY <1>1, FaceSquare
  <1>3. \/ C!EnsureOnce(FALSE) /\ UNCHANGED <<look, port>> /\ done' = C!Error
        \/ /\ C!EnsureOnce(TRUE) /\ C!Select("metrics", square)
           /\ port' = IF ready = "no" THEN "metrics" ELSE port
           /\ done' = C!Answer(20 * IF t = C!Lines THEN found.h ELSE C!Wide(found, native))
    BY DEF C!MacMeasure
  <1> HIDE DEF face, square, native
  <1>4. CASE C!EnsureOnce(FALSE) /\ UNCHANGED <<look, port>> /\ done' = C!Error
    BY <1>1, <1>4, EnsureOnceIs, QuirksAre DEF Fails
  <1>5. CASE /\ C!EnsureOnce(TRUE) /\ C!Select("metrics", square)
             /\ port' = IF ready = "no" THEN "metrics" ELSE port
             /\ done' = C!Answer(20 * IF t = C!Lines THEN found.h ELSE C!Wide(found, native))
    <2>1. found = face
      BY <1>2, <1>5, SelectedFace
    <2> HIDE DEF found, chars
    <2>2. ASSUME t = C!Lines
          PROVE  Answers(s, t)
      <3>1. C!Width(face, t) = 20 * face.h
        BY <1>1, <2>2, WidthIs
      <3> QED BY <1>5, <2>1, <2>2, <3>1 DEF Answers, face
    <2>3. ASSUME t # C!Lines
          PROVE  Answers(s, t)
      <3>1. native = chars
        BY <1>1, <2>3, CharactersAre, DosAssumption DEF KInv, native, chars
      <3>2. C!Wide(face, chars) = Widthed(s, t)
        BY <2>3, Widthed1 DEF face, chars
      <3>3. C!Width(face, t) = 20 * Widthed(s, t)
        BY <1>1, <2>3, WidthIs DEF Widthed, face
      <3>4. done' = C!Answer(C!Width(face, t))
        BY <1>5, <2>1, <2>3, <3>1, <3>2, <3>3
      <3> QED BY <3>4 DEF Answers, face
    <2>4. Answers(s, t)
      BY <2>2, <2>3
    <2>5. UNCHANGED <<asked, ratio>> /\ ready' = "yes"
      BY <1>5, EnsureOnceIs
    <2>6. port' = port \/ (port' = "metrics" /\ "takes port" \in C!Quirks)
      BY <1>1, <1>5, QuirksAre
    <2>7. \E f : C!Select("metrics", f)
      BY <1>5
    <2> QED BY <1>1, <2>4, <2>5, <2>6, <2>7
  <1> QED BY <1>3, <1>4, <1>5

(* win32 measures in a device context that it gets for the call, or fails. *)
LEMMA GdiMeasures ==
  ASSUME KInv, Faced, NEW s \in Slots, font[s] # NoFont, NEW t \in C!Texts \cup {C!Lines},
         C!GdiMeasure(s, t)
  PROVE  /\ UNCHANGED <<ready, asked, ratio, port, look>> /\ target = "win32"
         /\ Answers(s, t) \/ Fails
  <1> DEFINE face == FaceAt(target, font[s])
             square == C!Square(font[s])
             clusters == C!Clusters(Samples[t])
             chars == C!Characters[target][t]
  <1>1. target = "win32" /\ UNCHANGED <<ready, asked, ratio, port, look>>
    BY DEF C!GdiMeasure, C!metrics
  <1>2. face = square /\ face.h = font[s].size
    BY <1>1, FaceSquare
  <1>3. \/ t = C!Lines /\ done' = C!Answer(C!GdiTwips(font[s].size))
        \/ t # C!Lines /\ Samples[t] = <<>> /\ done' = C!Answer(0)
        \/ done' = C!Error
        \/ t # C!Lines /\ done' = C!Answer(C!GdiTwips(C!Wide(square, clusters)))
    BY DEF C!GdiMeasure
  <1> HIDE DEF face, square, clusters
  <1>4. ASSUME t # C!Lines
        PROVE  C!Width(face, t) = C!GdiTwips(C!Wide(face, clusters))
    <2>1. clusters = chars
      <3>1. t \in C!Texts /\ target \in Targets \ {"atari", "mac", "amiga"}
        BY <1>1, <1>4 DEF KInv
      <3> QED BY <3>1, CharactersAre, DosAssumption DEF clusters
    <2>2. C!Wide(face, chars) = Widthed(s, t)
      BY <1>4, Widthed1 DEF face
    <2>3. C!Width(face, t) = C!GdiTwips(Widthed(s, t))
      BY <1>1, <1>4, WidthIs DEF Widthed, face
    <2> QED BY <2>1, <2>2, <2>3
  <1>5. CASE t = C!Lines /\ done' = C!Answer(C!GdiTwips(font[s].size))
    <2>1. C!Width(face, t) = C!GdiTwips(face.h)
      BY <1>1, <1>5, WidthIs
    <2> QED BY <1>1, <1>2, <1>5, <2>1 DEF Answers, face
  <1>6. CASE t # C!Lines /\ Samples[t] = <<>> /\ done' = C!Answer(0)
    <2>1. clusters = <<>>
      <3>1. Samples[t] \in Seq(0..255) /\ Len(Samples[t]) = 0
        BY <1>6, DosAssumption DEF C!Texts, DosAssumption
      <3>2. Clusters(Samples[t]) \in Seq(Symbols) /\ Len(Clusters(Samples[t])) = 0
        BY <3>1, ClustersTyped
      <3>3. Clusters(Samples[t]) = <<>>
        BY <3>2, EmptySeq
      <3> QED BY <3>3, CanvasClusters DEF clusters
    <2>2. C!Wide(face, clusters) = 0
      BY <2>1, WideNone
    <2>3. ratio = 96
      BY <1>1 DEF KInv, Metrics
    <2>4. C!GdiTwips(0) = 0
      BY <2>3 DEF C!GdiTwips
    <2>5. C!Width(face, t) = 0
      BY <1>4, <1>6, <2>2, <2>4
    <2> QED BY <1>1, <1>6, <2>5 DEF Answers, face
  <1>7. CASE done' = C!Error
    BY <1>1, <1>7, QuirksAre DEF Fails
  <1>8. CASE t # C!Lines /\ done' = C!Answer(C!GdiTwips(C!Wide(square, clusters)))
    BY <1>1, <1>2, <1>4, <1>8 DEF Answers, face
  <1> QED BY <1>3, <1>5, <1>6, <1>7, <1>8

(* Qt measures with the font alone,                                        *)
LEMMA QtMeasures ==
  ASSUME KInv, Faced, NEW s \in Slots, font[s] # NoFont, NEW t \in C!Texts \cup {C!Lines},
         C!QtMeasure(s, t)
  PROVE  UNCHANGED <<ready, asked, ratio, port, look>> /\ target = "qt" /\ Answers(s, t)
  <1> DEFINE face == FaceAt(target, font[s])
             square == C!Square(font[s])
             clusters == C!Clusters(Samples[t])
             chars == C!Characters[target][t]
  <1>1. target = "qt" /\ UNCHANGED <<ready, asked, ratio, port, look>>
    BY DEF C!QtMeasure, C!metrics
  <1>2. face = square /\ face.h = font[s].size
    BY <1>1, FaceSquare
  <1>3. done' = C!Answer(20 * IF t = C!Lines THEN font[s].size ELSE C!Wide(square, clusters))
    BY DEF C!QtMeasure
  <1> HIDE DEF face, square, clusters
  <1>4. CASE t # C!Lines
    <2>1. clusters = chars
      BY <1>1, <1>4, CharactersAre, DosAssumption DEF KInv, clusters
    <2>2. C!Wide(face, chars) = Widthed(s, t)
      BY <1>4, Widthed1 DEF face
    <2>3. C!Width(face, t) = 20 * Widthed(s, t)
      BY <1>1, <1>4, WidthIs DEF Widthed, face
    <2> HIDE DEF chars
    <2>4. done' = C!Answer(C!Width(face, t))
      BY <1>2, <1>3, <1>4, <2>1, <2>2, <2>3
    <2> QED BY <1>1, <2>4 DEF Answers, face
  <1>5. CASE t = C!Lines
    <2>1. C!Width(face, t) = 20 * face.h
      BY <1>1, <1>5, WidthIs
    <2> QED BY <1>1, <1>2, <1>3, <1>5, <2>1 DEF Answers, face
  <1> QED BY <1>4, <1>5

(* and DOS and the host count characters.                                  *)
LEMMA HostMeasures ==
  ASSUME KInv, Faced, NEW s \in Slots, font[s] # NoFont, NEW t \in C!Texts \cup {C!Lines},
         C!HostMeasure(s, t) \/ C!DosMeasure(s, t)
  PROVE  UNCHANGED <<ready, asked, ratio, port, look>> /\ target \in {"dos", "host"} /\ Answers(s, t)
  <1> DEFINE face == FaceAt(target, font[s])
  <1>1. target \in {"dos", "host"} /\ UNCHANGED <<ready, asked, ratio, port, look>>
    BY DEF C!HostMeasure, C!DosMeasure, C!metrics
  <1>2. face.h = font[s].size /\ face.w = font[s].size
    BY <1>1, FaceSquare
  <1>3. t # C!Lines => C!Steps[t] = C!CpCount(Samples[t])
    BY DEF C!Steps
  <1>4. CASE target = "host"
    <2>1. done' = C!Answer(IF t = C!Lines THEN font[s].size + font[s].size \div 4
                           ELSE (font[s].size \div 2) * C!CpCount(Samples[t]))
      BY <1>4 DEF C!HostMeasure, C!DosMeasure
    <2>2. t = C!Lines => C!Width(face, t) = face.h + face.h \div 4
      BY <1>4, WidthIs
    <2>3. t # C!Lines => C!Width(face, t) = (face.w \div 2) * C!Steps[t]
      BY <1>4, WidthIs
    <2> HIDE DEF face
    <2>4. done' = C!Answer(C!Width(face, t))
      BY <1>2, <1>3, <2>1, <2>2, <2>3
    <2> QED BY <1>1, <2>4 DEF Answers, face
  <1>5. CASE target = "dos"
    <2>1. done' = C!Answer(IF t = C!Lines THEN 192 + 48 ELSE 144 * C!CpCount(Samples[t]))
      BY <1>5 DEF C!HostMeasure, C!DosMeasure
    <2>2. t = C!Lines => C!Width(face, t) = 240
      BY <1>5, WidthIs
    <2>3. t # C!Lines => C!Width(face, t) = 144 * C!Steps[t]
      BY <1>5, WidthIs
    <2> HIDE DEF face
    <2>4. done' = C!Answer(C!Width(face, t))
      BY <1>3, <2>1, <2>2, <2>3
    <2> QED BY <1>1, <2>4 DEF Answers, face
  <1> QED BY <1>1, <1>4, <1>5

(* plat_measure_text and plat_font_metrics_get answer what depends on the  *)
(* font and the text alone, and leave the fonts and the window's look      *)
(* alone.                                                                  *)
LEMMA MeasureStep ==
  ASSUME Faced, KInv, NEW s \in Slots, NEW t \in C!Texts \cup {C!Lines}, C!Measure(s, t)
  PROVE  KInv' /\ C!Seam!Measure(s, t) /\ Steady
  <1>1. font[s] # NoFont /\ UNCHANGED <<target, device, font, laid>>
    BY DEF C!Measure, C!setup
  <1>2. ASSUME UNCHANGED <<asked, ratio>>, ready' \in {ready, "yes", "failed"},
               target = "atari" => ready' = ready,
               look' = look \/ \E f : C!Select("metrics", f),
               port' = port \/ (port' = "metrics" /\ "takes port" \in C!Quirks),
               Answers(s, t) \/ Fails
        PROVE  KInv' /\ C!Seam!Measure(s, t) /\ Steady
    <2>1. Queried' <=> Queried
      BY <1>2, QueriedIs
    <2>2. ready' \in {"no", "yes", "failed"}
      <3>1. ready \in {"no", "yes", "failed"}
        BY DEF KInv, Metrics
      <3>2. ready' = ready \/ ready' = "yes" \/ ready' = "failed"
        BY <1>2
      <3> QED BY <3>1, <3>2
    <2>3. Metrics'
      <3>1. ratio' = ratio /\ asked' = asked /\ target' = target
        BY <1>1, <1>2
      <3> QED BY <2>2, <3>1 DEF KInv, Metrics
    <2> QED BY <1>1, <1>2, <2>1, <2>3, MeasuresWell
  <1>3. CASE C!AtariMeasure(s, t)
    BY <1>1, <1>2, <1>3, AtariMeasures
  <1>4. CASE C!AmigaMeasure(s, t)
    BY <1>1, <1>2, <1>4, AmigaMeasures
  <1>5. CASE C!MacMeasure(s, t)
    BY <1>1, <1>2, <1>5, MacMeasures
  <1>6. CASE C!GdiMeasure(s, t)
    BY <1>1, <1>2, <1>6, GdiMeasures
  <1>7. CASE C!QtMeasure(s, t)
    BY <1>1, <1>2, <1>7, QtMeasures
  <1>8. CASE C!HostMeasure(s, t) \/ C!DosMeasure(s, t)
    BY <1>1, <1>2, <1>8, HostMeasures
  <1> QED BY <1>3, <1>4, <1>5, <1>6, <1>7, <1>8 DEF C!Measure

(* Drawing: what is selected in the window, and the other contexts.        *)
Repainted(l) ==
  /\ DOMAIN look' = C!Contexts /\ look'["window"] = l
  /\ \A c \in C!Contexts \ {"window"} : look'[c] = look[c]

(* The window's look after a drawing that leaves it so.                    *)
LEMMA Repaints ==
  ASSUME KInv, NEW l, IsLook(l), Repainted(l),
         target' = target, port' = port \/ port' = "window"
  PROVE  Looks' /\ MLook' = [MLook EXCEPT !["window"] = l] /\ look'["window"] = l
  <1>1. /\ DOMAIN look' = C!Contexts /\ look'["window"] = l
        /\ \A c \in C!Contexts \ {"window"} : look'[c] = look[c]
    BY DEF Repainted
  <1>2. "window" \in C!Ports /\ C!Ports \subseteq C!Contexts
    BY DEF C!Contexts, C!Ports
  <1>3. \A c \in C!Contexts : IsLook(look'[c])
    <2>1. \A c \in C!Contexts \ {"window"} : IsLook(look[c])
      BY DEF KInv, Looks
    <2>2. ASSUME NEW c \in C!Contexts
          PROVE  IsLook(look'[c])
      <3>1. CASE c = "window"
        BY <1>1, <3>1
      <3>2. CASE c # "window"
        BY <1>1, <2>1, <3>2
      <3> QED BY <3>1, <3>2
    <2> QED BY <2>2
  <1>4. port' \in C!Contexts
    BY <1>2 DEF KInv, Looks
  <1>5. Looks'
    BY <1>1, <1>3, <1>4 DEF Looks
  <1>6. MLook' = [MLook EXCEPT !["window"] = l]
    BY <1>1, <1>2 DEF MLook
  <1> QED BY <1>1, <1>5, <1>6

(* The pens of the targets.                                                *)
LEMMA PensAre ==
  ASSUME NEW c \in C!Colours
  PROVE  /\ target = "mac" => C!Pens.text[c] = "black" /\ C!Pens.fill[c] = C!TwoTone(c)
         /\ target \in {"atari", "amiga"} => C!Pens.text[c] = C!TwoTone(c) /\ C!Pens.fill[c] = C!TwoTone(c)
         /\ target \notin {"mac", "atari", "amiga"} => C!Pens.text[c] = c /\ C!Pens.fill[c] = c
  <1>1. CASE target = "mac"
    BY <1>1 DEF C!Pens
  <1>2. CASE target \in {"atari", "amiga"}
    BY <1>2 DEF C!Pens
  <1>3. CASE target \notin {"mac", "atari", "amiga"}
    BY <1>3 DEF C!Pens
  <1> QED BY <1>1, <1>2, <1>3

(* The metrics stay, and with them the fonts.                              *)
Settled == UNCHANGED <<target, device, ready, asked, ratio, font, laid>>

(* Fonts, ratio and what the seam sees of them stay then.                  *)
LEMMA SettledIs ==
  ASSUME KInv, Settled
  PROVE  Metrics' /\ Fonts' /\ Steady /\ MFont' = MFont /\ (Looks' => KInv')
  <1>1. UNCHANGED <<target, device, ready, asked, ratio, font, laid>>
    BY DEF Settled
  <1>2. Metrics'
    BY <1>1 DEF KInv, Metrics
  <1>3. Queried' <=> Queried
    BY <1>1, QueriedIs
  <1>4. Fonts'
    BY <1>1, <1>3, FontsStay
  <1>5. Steady
    BY <1>1 DEF Steady
  <1>6. MFont' = MFont
    BY <1>1, SeamSees
  <1>7. Laid'
    BY <1>1, <1>3, LaidStays
  <1> QED BY <1>1, <1>2, <1>4, <1>5, <1>6, <1>7 DEF KInv

Portly == port' = port \/ (port' = "window" /\ "takes window" \in C!Quirks)

(* Text as the seam says.                                                  *)
Styled(s, c) ==
  LET l == look["window"]
  IN  [face |-> IF "leaves face" \in C!Quirks THEN FaceAt(target, font[s]) ELSE l.face,
       pen |-> IF "leaves pen" \in C!Quirks THEN C!Pens.text[c] ELSE l.pen,
       ground |-> IF "leaves ground" \in C!Quirks THEN "paper" ELSE l.ground,
       place |-> IF "leaves place" \in C!Quirks THEN "text" ELSE l.place,
       fill |-> l.fill]
Inks(s, t, c) ==
  \/ done' = C!Ink("window", FaceAt(target, font[s]), C!Characters[target][t], C!Pens.text[c])
  \/ ("blind" \in C!Quirks \/ C!Characters[target][t] = <<>>) /\ UNCHANGED done
  \/ Fails

(* A drawing that inks as it should and leaves the look, or leaves the     *)
(* window with that, is one of the seam's.                                 *)
LEMMA DrawsWell ==
  ASSUME KInv, Faced, Settled, NEW s \in Slots, font[s] # NoFont, NEW t \in C!Texts,
         NEW c \in C!Colours, Portly, Inks(s, t, c),
         look' = look \/ Repainted(Styled(s, c))
  PROVE  KInv' /\ C!Seam!Draw(s, t, c) /\ Steady
  <1> DEFINE l == Styled(s, c)
  <1>1. IsLook(l)
    BY DEF IsLook, Styled
  <1>2. target' = target /\ (port' = port \/ port' = "window")
    BY DEF Settled, Portly
  <1>3. MFont[s] = FaceAt(target, font[s]) /\ MFont[s] # NoFont
    <2>1. MFont[s] = FaceAt(target, font[s])
      BY SeamSees
    <2>2. \A f : f # NoFont => FaceAt(target, f) # NoFont
      BY FacesReal
    <2> QED BY <2>1, <2>2
  <1>4. l = C!Seam!Written(MFont[s], C!Pens.text[c])
    <2>1. MLook["window"] = look["window"]
      BY DEF MLook, C!Ports
    <2> QED BY <1>3, <2>1, Zenon DEF Styled, C!Seam!Written, MLook
  <1> HIDE DEF l
  <1>5. Looks' /\ MLook' \in {MLook, [MLook EXCEPT !["window"] = l]}
    <2>1. CASE look' = look
      <3>1. port' \in C!Contexts
        BY <1>2 DEF KInv, Looks, C!Contexts, C!Ports
      <3>2. Looks'
        BY <1>2, <2>1, <3>1 DEF KInv, Looks
      <3> QED BY <2>1, <3>2 DEF MLook
    <2>2. CASE Repainted(l)
      BY <1>1, <1>2, <2>2, Repaints
    <2> QED BY <2>1, <2>2 DEF l
  <1>6. KInv' /\ MFont' = MFont /\ Steady /\ laid' = laid
    BY <1>5, SettledIs DEF Settled
  <1>7. port' \in {port} \cup {"window" : q \in C!Quirks \cap {"takes window"}}
    BY DEF Portly
  <1>9. \/ /\ done'.call = "ink"
           /\ done' = C!Seam!Ink("window", MFont[s], C!Characters[target][t], C!Pens.text[c])
        \/ UNCHANGED done /\ ("blind" \in C!Quirks \/ C!Characters[target][t] = <<>>)
        \/ "fails" \in C!Quirks /\ done' = C!Seam!Error
    BY <1>3 DEF Inks, Fails, C!Seam!Ink, C!Ink, C!Seam!Error, C!Error
  <1>10. C!Seam!Drawing(C!Seam!Written(MFont[s], C!Pens.text[c]))
    <2> DEFINE w == C!Seam!Written(MFont[s], C!Pens.text[c])
    <2>1. MLook' \in {MLook, [MLook EXCEPT !["window"] = w]}
      BY <1>4, <1>5
    <2> HIDE DEF w
    <2>2. C!Seam!Drawing(w)
      BY <1>6, <1>7, <2>1, Zenon DEF C!Seam!Drawing, MFont, MLook
    <2> QED BY <2>2 DEF w
  <1>11. C!Seam!Draw(s, t, c)
    BY <1>3, <1>9, <1>10, Zenon DEF C!Seam!Draw, MFont
  <1> QED BY <1>6, <1>11

(* What a window repainted in that style has.                              *)
LEMMA RepaintedIs ==
  ASSUME KInv, NEW l
  PROVE  look' = [look EXCEPT !["window"] = l] => Repainted(l)
  <1>1. DOMAIN look = C!Contexts /\ "window" \in C!Contexts
    BY DEF KInv, Looks, C!Contexts, C!Ports
  <1> QED BY <1>1 DEF Repainted

(* The Atari draws in the font's cell and the colour's pen, which it leaves*)
(* selected,                                                               *)
LEMMA AtariDraws ==
  ASSUME KInv, Faced, NEW s \in Slots, font[s] # NoFont, NEW t \in C!Texts, NEW c \in C!Colours,
         C!AtariDraw(s, t, c)
  PROVE  Portly /\ Inks(s, t, c) /\ Repainted(Styled(s, c))
  <1> DEFINE cell == C!Cell(font[s])
             native == C!ToBytes(\h7F, C!Cut(Samples[t], BUFFER - 1), BUFFER - 1)
             k == look["window"]
             p == C!TwoTone(c)
             l == Styled(s, c)
  <1>1. target = "atari" /\ port' = port
    BY DEF C!AtariDraw
  <1>2. l = [face |-> cell, pen |-> p, ground |-> k.ground, place |-> k.place, fill |-> k.fill]
    <2>1. FaceAt(target, font[s]) = cell /\ C!Pens.text[c] = p
      BY <1>1, PensAre DEF FaceAt
    <2>2. /\ "leaves face" \in C!Quirks /\ "leaves pen" \in C!Quirks
          /\ "leaves ground" \notin C!Quirks /\ "leaves place" \notin C!Quirks
      BY <1>1, QuirksAre
    <2> HIDE DEF cell, p
    <2> QED BY <2>1, <2>2, Zenon DEF Styled
  <1>3. /\ look' = [[look EXCEPT !["window"] = [k EXCEPT !.face = cell]]
                       EXCEPT !["window"] = [@ EXCEPT !.pen = p]]
        /\ done' = C!Ink("window", look'["window"].face, native, look'["window"].pen)
    BY DEF C!AtariDraw, C!Inked
  <1>4. native = C!Characters[target][t]
    BY <1>1, CharactersAre, DosAssumption DEF KInv
  <1>5. DOMAIN look = C!Contexts /\ "window" \in C!Contexts /\ IsLook(k)
    BY DEF KInv, Looks, C!Contexts, C!Ports
  <1> HIDE DEF cell, native, p, k, l
  <1>6. look' = [look EXCEPT !["window"] = l]
    <2> DEFINE m == FacePen(k, cell, p)
    <2>1. look' = [look EXCEPT !["window"] = m]
      BY <1>3, <1>5 DEF FacePen
    <2>2. m = [face |-> cell, pen |-> p, ground |-> k.ground, place |-> k.place, fill |-> k.fill]
      BY <1>5, LookWithMore
    <2> HIDE DEF m
    <2> QED BY <1>2, <2>1, <2>2
  <1>7. Repainted(l)
    BY <1>6, RepaintedIs
  <1>8. look'["window"] = l /\ l.face = FaceAt(target, font[s]) /\ l.pen = C!Pens.text[c]
    <2>1. look'["window"] = l
      BY <1>7 DEF Repainted
    <2>2. FaceAt(target, font[s]) = cell /\ C!Pens.text[c] = p
      BY <1>1, PensAre DEF FaceAt, cell, p
    <2> QED BY <1>2, <2>1, <2>2
  <1>9. Inks(s, t, c)
    BY <1>3, <1>4, <1>8 DEF Inks
  <1> QED BY <1>1, <1>7, <1>9 DEF Portly, l

(* the Amiga too, if there is something to draw,                           *)
LEMMA AmigaDraws ==
  ASSUME KInv, Faced, NEW s \in Slots, font[s] # NoFont, NEW t \in C!Texts, NEW c \in C!Colours,
         C!AmigaDraw(s, t, c)
  PROVE  Portly /\ Inks(s, t, c) /\ (look' = look \/ Repainted(Styled(s, c)))
  <1> DEFINE square == C!Square(font[s])
             native == C!ToBytes(\hFF, C!Cut(Samples[t], BUFFER), BUFFER)
             k == look["window"]
             p == C!TwoTone(c)
             l == Styled(s, c)
  <1>1. target = "amiga" /\ port' = port
    BY DEF C!AmigaDraw
  <1>2. FaceAt(target, font[s]) = square /\ C!Pens.text[c] = p
    BY <1>1, PensAre, FaceSquare
  <1>3. l = [face |-> square, pen |-> p, ground |-> "paper", place |-> "text", fill |-> k.fill]
    <2>1. /\ "leaves face" \in C!Quirks /\ "leaves pen" \in C!Quirks
          /\ "leaves ground" \in C!Quirks /\ "leaves place" \in C!Quirks
      BY <1>1, QuirksAre
    <2> HIDE DEF square, p
    <2> QED BY <1>2, <2>1, Zenon DEF Styled
  <1> DEFINE m == AllText(k, square, p, "paper", "text")
  <1>4. \/ native = <<>> /\ UNCHANGED <<look, done>>
        \/ /\ look' = [look EXCEPT !["window"] = m]
           /\ done' = C!Ink("window", look'["window"].face, native, look'["window"].pen)
    BY DEF C!AmigaDraw, C!Inked, AllText
  <1>5. native = C!Characters[target][t]
    BY <1>1, CharactersAre, DosAssumption DEF KInv
  <1>6. IsLook(k)
    BY DEF KInv, Looks, C!Contexts, C!Ports
  <1> HIDE DEF square, native, p, k, l
  <1>7. m = l
    <2>1. m = [face |-> square, pen |-> p, ground |-> "paper", place |-> "text", fill |-> k.fill]
      BY <1>6, LookWithMost
    <2> QED BY <1>3, <2>1
  <1> HIDE DEF m
  <1>8. CASE native = <<>> /\ UNCHANGED <<look, done>>
    BY <1>1, <1>5, <1>8 DEF Portly, Inks
  <1>9. CASE /\ look' = [look EXCEPT !["window"] = m]
             /\ done' = C!Ink("window", look'["window"].face, native, look'["window"].pen)
    <2>1. Repainted(l)
      BY <1>7, <1>9, RepaintedIs
    <2>2. look'["window"] = l /\ l.face = square /\ l.pen = p
      BY <1>3, <2>1 DEF Repainted
    <2>3. Inks(s, t, c)
      BY <1>2, <1>5, <1>9, <2>2 DEF Inks
    <2> QED BY <1>1, <2>1, <2>3 DEF Portly, l
  <1> QED BY <1>4, <1>8, <1>9

(* and the Mac in black, having made the window current;                   *)
LEMMA MacDraws ==
  ASSUME KInv, Faced, NEW s \in Slots, font[s] # NoFont, NEW t \in C!Texts, NEW c \in C!Colours,
         C!MacDraw(s, t)
  PROVE  Portly /\ Inks(s, t, c) /\ Repainted(Styled(s, c))
  <1> DEFINE square == C!Square(font[s])
             native == C!ToBytes(\h7F, C!Cut(Samples[t], BUFFER), BUFFER)
             k == look["window"]
             l == Styled(s, c)
  <1>1. target = "mac" /\ port' = "window"
    BY DEF C!MacDraw
  <1>2. FaceAt(target, font[s]) = square /\ C!Pens.text[c] = "black"
    BY <1>1, PensAre, FaceSquare
  <1>3. l = [face |-> square, pen |-> k.pen, ground |-> k.ground, place |-> "text", fill |-> k.fill]
    <2>1. /\ "leaves face" \in C!Quirks /\ "leaves pen" \notin C!Quirks
          /\ "leaves ground" \notin C!Quirks /\ "leaves place" \in C!Quirks
      BY <1>1, QuirksAre
    <2> HIDE DEF square
    <2> QED BY <1>2, <2>1, Zenon DEF Styled
  <1>4. /\ look' = [[look EXCEPT !["window"] = [k EXCEPT !.face = square]]
                       EXCEPT !["window"] = [@ EXCEPT !.place = "text"]]
        /\ done' = C!Ink("window", look'["window"].face, native, "black")
    BY DEF C!MacDraw
  <1>5. native = C!Characters[target][t]
    BY <1>1, CharactersAre, DosAssumption DEF KInv
  <1>6. DOMAIN look = C!Contexts /\ "window" \in C!Contexts /\ IsLook(k)
    BY DEF KInv, Looks, C!Contexts, C!Ports
  <1> HIDE DEF square, native, k, l
  <1>7. look' = [look EXCEPT !["window"] = l]
    <2> DEFINE m == FacePlace(k, square, "text")
    <2>1. look' = [look EXCEPT !["window"] = m]
      BY <1>4, <1>6 DEF FacePlace
    <2>2. m = [face |-> square, pen |-> k.pen, ground |-> k.ground, place |-> "text",
               fill |-> k.fill]
      BY <1>6, LookWithMore
    <2> HIDE DEF m
    <2> QED BY <1>3, <2>1, <2>2
  <1>8. Repainted(l)
    BY <1>7, RepaintedIs
  <1>9. look'["window"].face = square
    BY <1>3, <1>8 DEF Repainted
  <1>10. Inks(s, t, c)
    BY <1>2, <1>4, <1>5, <1>9 DEF Inks
  <1> QED BY <1>1, <1>8, <1>10, QuirksAre DEF Portly, l

(* win32 and Qt draw without leaving anything selected, and DOS and the    *)
(* host not at all.                                                        *)
LEMMA OthersDraw ==
  ASSUME KInv, Faced, NEW s \in Slots, font[s] # NoFont, NEW t \in C!Texts, NEW c \in C!Colours,
         C!GdiDraw(s, t, c) \/ C!QtDraw(s, t, c) \/ C!HostDraw
  PROVE  Portly /\ Inks(s, t, c) /\ look' = look
  <1> DEFINE square == C!Square(font[s])
             clusters == C!Clusters(Samples[t])
  <1>1. target \in {"win32", "qt", "dos", "host"} /\ UNCHANGED <<port, look>>
    BY DEF C!GdiDraw, C!QtDraw, C!HostDraw
  <1>2. FaceAt(target, font[s]) = square /\ C!Pens.text[c] = c
    BY <1>1, FaceSquare, PensAre
  <1>3. clusters = C!Characters[target][t]
    <2>1. target \in Targets \ {"atari", "mac", "amiga"}
      BY <1>1 DEF KInv
    <2> QED BY <2>1, CharactersAre, DosAssumption
  <1>4. \/ clusters = <<>> /\ UNCHANGED done
        \/ target = "win32" /\ done' = C!Error
        \/ done' = C!Ink("window", square, clusters, c)
        \/ target \in {"dos", "host"} /\ UNCHANGED done
    <2>1. CASE C!GdiDraw(s, t, c)
      BY <2>1 DEF C!GdiDraw
    <2>2. CASE C!QtDraw(s, t, c)
      BY <2>2 DEF C!QtDraw
    <2>3. CASE C!HostDraw
      BY <2>3 DEF C!HostDraw
    <2> QED BY <2>1, <2>2, <2>3
  <1> HIDE DEF square, clusters
  <1>5. Inks(s, t, c)
    BY <1>2, <1>3, <1>4, QuirksAre DEF Inks, Fails
  <1> QED BY <1>1, <1>5 DEF Portly

(* plat_draw_text draws the text's characters in the font's face and the   *)
(* colour's pen.                                                           *)
LEMMA DrawStep ==
  ASSUME Faced, KInv, NEW s \in Slots, NEW t \in C!Texts, NEW c \in C!Colours, C!Draw(s, t, c)
  PROVE  KInv' /\ C!Seam!Draw(s, t, c) /\ Steady
  <1>1. font[s] # NoFont /\ Settled
    BY DEF C!Draw, C!setup, C!metrics, Settled
  <1>2. Portly /\ Inks(s, t, c) /\ (look' = look \/ Repainted(Styled(s, c)))
    <2>1. CASE C!AtariDraw(s, t, c)
      BY <1>1, <2>1, AtariDraws
    <2>2. CASE C!AmigaDraw(s, t, c)
      BY <1>1, <2>2, AmigaDraws
    <2>3. CASE C!MacDraw(s, t)
      BY <1>1, <2>3, MacDraws
    <2>4. CASE C!GdiDraw(s, t, c) \/ C!QtDraw(s, t, c) \/ C!HostDraw
      BY <1>1, <2>4, OthersDraw
    <2> QED BY <2>1, <2>2, <2>3, <2>4 DEF C!Draw
  <1> QED BY <1>1, <1>2, DrawsWell

(* Filling as the seam says.                                               *)
Dipped(c) ==
  LET l == look["window"]
      p == C!Pens.fill[c]
  IN  [face |-> l.face,
       pen |-> IF "fills pen" \in C!Quirks THEN p
               ELSE IF "fills black" \in C!Quirks THEN "black" ELSE l.pen,
       ground |-> l.ground, place |-> l.place,
       fill |-> IF "fills fill" \in C!Quirks THEN p ELSE l.fill]
Pours(c) ==
  \/ done' = C!Ink("window", NoFont, <<>>, C!Pens.fill[c])
  \/ "blind" \in C!Quirks /\ UNCHANGED done
  \/ Fails

(* A filling that inks as it should and leaves the look, or leaves the     *)
(* window with that, is one of the seam's.                                 *)
LEMMA FillsWell ==
  ASSUME KInv, Settled, NEW c \in C!Colours, Portly, Pours(c),
         look' = look \/ Repainted(Dipped(c))
  PROVE  KInv' /\ C!Seam!Fill(c) /\ Steady
  <1> DEFINE l == Dipped(c)
  <1>1. IsLook(l)
    BY DEF IsLook, Dipped
  <1>2. target' = target /\ (port' = port \/ port' = "window")
    BY DEF Settled, Portly
  <1>3. l = C!Seam!Painted(C!Pens.fill[c])
    <2>1. MLook["window"] = look["window"]
      BY DEF MLook, C!Ports
    <2> QED BY <2>1, Zenon DEF Dipped, C!Seam!Painted, MLook
  <1> HIDE DEF l
  <1>4. Looks' /\ MLook' \in {MLook, [MLook EXCEPT !["window"] = l]}
    <2>1. CASE look' = look
      <3>1. port' \in C!Contexts
        BY <1>2 DEF KInv, Looks, C!Contexts, C!Ports
      <3>2. Looks'
        BY <1>2, <2>1, <3>1 DEF KInv, Looks
      <3> QED BY <2>1, <3>2 DEF MLook
    <2>2. CASE Repainted(l)
      BY <1>1, <1>2, <2>2, Repaints
    <2> QED BY <2>1, <2>2 DEF l
  <1>5. KInv' /\ MFont' = MFont /\ Steady /\ laid' = laid
    BY <1>4, SettledIs DEF Settled
  <1>6. port' \in {port} \cup {"window" : q \in C!Quirks \cap {"takes window"}}
    BY DEF Portly
  <1>8. \/ done' = C!Seam!Ink("window", NoFont, <<>>, C!Pens.fill[c])
        \/ "blind" \in C!Quirks /\ UNCHANGED done
        \/ "fails" \in C!Quirks /\ done' = C!Seam!Error
    BY DEF Pours, Fails, C!Seam!Ink, C!Ink, C!Seam!Error, C!Error
  <1>9. C!Seam!Drawing(C!Seam!Painted(C!Pens.fill[c]))
    <2> DEFINE w == C!Seam!Painted(C!Pens.fill[c])
    <2>1. MLook' \in {MLook, [MLook EXCEPT !["window"] = w]}
      BY <1>3, <1>4
    <2> HIDE DEF w
    <2>2. C!Seam!Drawing(w)
      BY <1>5, <1>6, <2>1, Zenon DEF C!Seam!Drawing, MFont, MLook
    <2> QED BY <2>2 DEF w
  <1>10. C!Seam!Fill(c)
    BY <1>8, <1>9, Zenon DEF C!Seam!Fill
  <1> QED BY <1>5, <1>10

(* plat_fill_rect fills with the colour's pen.  The Amiga leaves it        *)
(* selected, the Atari its filling, and the Mac a black pen.               *)
LEMMA FillStep ==
  ASSUME Faced, KInv, NEW c \in C!Colours, C!Fill(c)
  PROVE  KInv' /\ C!Seam!Fill(c) /\ Steady
  <1> DEFINE k == look["window"]
             p == C!TwoTone(c)
  <1>1. Settled
    BY DEF C!Fill, C!setup, C!metrics, Settled
  <1>2. IsLook(k)
    BY DEF KInv, Looks, C!Contexts, C!Ports
  <1>3. ASSUME NEW l, look' = [look EXCEPT !["window"] = l], l = Dipped(c), Portly,
               done' = C!Ink("window", NoFont, <<>>, C!Pens.fill[c])
        PROVE  KInv' /\ C!Seam!Fill(c) /\ Steady
    <2>1. Repainted(Dipped(c))
      BY <1>3, RepaintedIs
    <2>2. Pours(c)
      BY <1>3 DEF Pours
    <2> QED BY <1>1, <1>3, <2>1, <2>2, FillsWell
  <1>4. CASE C!GdiFill(c) \/ C!QtFill(c) \/ C!HostDraw
    <2>1. look' = look /\ port' = port
      BY <1>4 DEF C!GdiFill, C!QtFill, C!HostDraw
    <2>2. Pours(c)
      <3>1. CASE C!GdiFill(c)
        BY <3>1, PensAre, QuirksAre DEF C!GdiFill, C!Filled, Pours, Fails
      <3>2. CASE C!QtFill(c)
        BY <3>2, PensAre DEF C!QtFill, C!Filled, Pours
      <3>3. CASE C!HostDraw
        BY <3>3, QuirksAre DEF C!HostDraw, Pours
      <3> QED BY <1>4, <3>1, <3>2, <3>3
    <2> QED BY <1>1, <2>1, <2>2, FillsWell DEF Portly
  <1>5. CASE C!AtariFill(c)
    <2> DEFINE l == [k EXCEPT !.fill = p]
    <2>1. target = "atari" /\ port' = port /\ C!Pens.fill[c] = p
      BY <1>5, PensAre DEF C!AtariFill
    <2>2. look' = [look EXCEPT !["window"] = l]
      BY <1>5 DEF C!AtariFill
    <2>3. done' = C!Ink("window", NoFont, <<>>, look'["window"].fill)
      BY <1>5 DEF C!AtariFill, C!Filled
    <2>4. /\ "fills pen" \notin C!Quirks /\ "fills black" \notin C!Quirks
          /\ "fills fill" \in C!Quirks
      BY <2>1, QuirksAre
    <2> HIDE DEF p
    <2>5. Dipped(c) = [face |-> k.face, pen |-> k.pen, ground |-> k.ground, place |-> k.place,
                       fill |-> p]
      BY <2>1, <2>4, Zenon DEF Dipped
    <2> HIDE DEF k
    <2>6. l = Dipped(c)
      BY <1>2, <2>5, LookWith
    <2> HIDE DEF l
    <2>7. look'["window"].fill = p
      <3>1. Repainted(l)
        BY <2>2, RepaintedIs
      <3> QED BY <2>5, <2>6, <3>1 DEF Repainted
    <2> QED BY <1>3, <2>1, <2>2, <2>3, <2>6, <2>7 DEF Portly
  <1>6. CASE C!AmigaFill(c)
    <2> DEFINE l == [k EXCEPT !.pen = p]
    <2>1. target = "amiga" /\ port' = port /\ C!Pens.fill[c] = p
      BY <1>6, PensAre DEF C!AmigaFill
    <2>2. look' = [look EXCEPT !["window"] = l]
      BY <1>6 DEF C!AmigaFill
    <2>3. done' = C!Ink("window", NoFont, <<>>, look'["window"].pen)
      BY <1>6 DEF C!AmigaFill, C!Filled
    <2>4. "fills pen" \in C!Quirks /\ "fills fill" \notin C!Quirks
      BY <2>1, QuirksAre
    <2> HIDE DEF p
    <2>5. Dipped(c) = [face |-> k.face, pen |-> p, ground |-> k.ground, place |-> k.place,
                       fill |-> k.fill]
      BY <2>1, <2>4, Zenon DEF Dipped
    <2> HIDE DEF k
    <2>6. l = Dipped(c)
      BY <1>2, <2>5, LookWith
    <2> HIDE DEF l
    <2>7. look'["window"].pen = p
      <3>1. Repainted(l)
        BY <2>2, RepaintedIs
      <3> QED BY <2>5, <2>6, <3>1 DEF Repainted
    <2> QED BY <1>3, <2>1, <2>2, <2>3, <2>6, <2>7 DEF Portly
  <1>7. CASE C!MacFill(c)
    <2> DEFINE l == [k EXCEPT !.pen = "black"]
    <2>1. target = "mac" /\ port' = "window" /\ C!Pens.fill[c] = p
      BY <1>7, PensAre DEF C!MacFill
    <2>2. look' = [look EXCEPT !["window"] = l] /\ done' = C!Ink("window", NoFont, <<>>, p)
      BY <1>7 DEF C!MacFill, C!Filled
    <2>3. /\ "fills pen" \notin C!Quirks /\ "fills black" \in C!Quirks
          /\ "fills fill" \notin C!Quirks /\ "takes window" \in C!Quirks
      BY <2>1, QuirksAre
    <2> HIDE DEF p
    <2>4. Dipped(c) = [face |-> k.face, pen |-> "black", ground |-> k.ground, place |-> k.place,
                       fill |-> k.fill]
      BY <2>1, <2>3, Zenon DEF Dipped
    <2> HIDE DEF k
    <2>5. l = Dipped(c)
      BY <1>2, <2>4, LookWith
    <2> HIDE DEF l
    <2> QED BY <1>3, <2>1, <2>2, <2>3, <2>5 DEF Portly
  <1> QED BY <1>4, <1>5, <1>6, <1>7 DEF C!Fill

(* Pixels that go to twips and back.                                       *)
LEMMA SameTwips ==
  \A px, dpi : C!ToPixels(C!ToTwips(px, dpi), dpi) = ToPixels(ToTwips(px, dpi), dpi)
  BY DEF C!ToTwips, ToTwips, C!ToPixels, ToPixels, C!ScaleRound, ScaleRound

(* The ratios that an Atari's screen can have.                             *)
Ratios == 1..1439

(* On the Atari they come back as they were,                               *)
LEMMA ComeBack ==
  \A px \in Int : \A dpi \in Ratios : C!ToPixels(C!ToTwips(px, dpi), dpi) = px
  <1>1. \A px \in Int : \A dpi \in Ratios : ToPixels(ToTwips(px, dpi), dpi) = px
    BY PixelsComeBack DEF Ratios
  <1> QED BY <1>1, SameTwips, Zenon

(* and on the Amiga, which truncates, no more of them and not below zero.  *)
LEMMA TwipsShrink ==
  ASSUME NEW px \in Nat, NEW dpi \in Nat \ {0}
  PROVE  (((px * 1440) \div dpi) * dpi) \div 1440 \in 0..px
  <1> DEFINE a == px * 1440
             q == a \div dpi
             b == q * dpi
  <1>1. a \in Nat
    OBVIOUS
  <1>2. q \in Int /\ q * dpi <= a /\ q >= 0
    <2> HIDE DEF a
    <2>1. a \in Int /\ a >= 0
      BY <1>1
    <2> QED BY <2>1
  <1>3. b \in Nat /\ b <= a
    <2> HIDE DEF q, a
    <2> QED BY <1>1, <1>2
  <1>4. b \div 1440 \in 0..px
    <2> HIDE DEF b
    <2> QED BY <1>3
  <1> QED BY <1>4

(* Finding out the ratio keeps what the canvas keeps, and a scale that     *)
(* something depends on.                                                   *)
LEMMA RatioStep ==
  ASSUME Faced, KInv, C!Ratio, UNCHANGED <<target, device, font, look, port>>
  PROVE  /\ Metrics' /\ Fonts' /\ Looks' /\ Steady
         /\ target = "amiga" => Queried'
         /\ target \in {"atari", "amiga", "mac", "dos"}
  <1>1. Looks'
    BY DEF KInv, Looks
  <1>2. UNCHANGED C!setup
    BY DEF C!setup
  <1>3. CASE target = "atari"
    <2>1. PICK ok \in BOOLEAN : C!EnsureVdi(ok)
      BY <1>3, Zenon DEF C!Ratio
    <2>2. VdiFound \/ VdiLost
      BY <2>1, EnsureVdiIs
    <2>3. Metrics' /\ (ready = "yes" => ready' = "yes" /\ ratio' = ratio)
      BY <1>2, <1>3, <2>2, EnsureVdiKeeps
    <2>4. Fonts'
      BY <1>3, <2>3, FontsStay
    <2>5. Steady
      BY <1>3, <2>3, SteadyWhen
    <2> QED BY <1>1, <1>3, <2>3, <2>4, <2>5
  <1>4. CASE target = "amiga"
    <2>1. C!Query /\ ready' = ready
      BY <1>4 DEF C!Ratio
    <2>2. Metrics' /\ Queried' /\ (Queried => ratio' = ratio)
      BY <1>2, <1>4, <2>1, QueryKeeps
    <2>3. Fonts'
      BY <1>4, <2>2, FontsStay
    <2>4. Steady
      BY <1>4, <2>2, SteadyWhen
    <2> QED BY <1>1, <1>4, <2>2, <2>3, <2>4
  <1>5. CASE target \in {"mac", "dos"} /\ UNCHANGED C!metrics
    <2>1. UNCHANGED <<ready, asked, ratio>>
      BY <1>5 DEF C!metrics
    <2>2. Metrics'
      BY <2>1 DEF KInv, Metrics
    <2>3. Fonts'
      BY <1>5, <2>1, FontsStay
    <2>4. Steady
      BY <2>1 DEF Steady
    <2> QED BY <1>1, <1>5, <2>2, <2>3, <2>4
  <1> QED BY <1>3, <1>4, <1>5 DEF C!Ratio

(* px_to_twips turns pixels into twips at the ratio it has found.          *)
LEMMA PxToTwipsStep ==
  ASSUME Faced, KInv, NEW px \in Pixels, C!PxToTwips(px)
  PROVE  KInv' /\ C!Seam!PxToTwips(px) /\ Steady
  <1>1. /\ UNCHANGED <<target, device, font, look, port, done>> /\ C!Ratio
        /\ laid' = {[px |-> px, at |-> ratio']}
    BY DEF C!PxToTwips, C!setup
  <1>2. Metrics' /\ Fonts' /\ Looks' /\ Steady /\ (target = "amiga" => Queried')
    BY <1>1, RatioStep
  <1>3. Laid'
    <2>1. ratio' \in Nat \ {0}
      BY <1>2 DEF Metrics
    <2>2. \A d \in laid' : d.px \in Pixels /\ d.at \in Nat \ {0}
      BY <1>1, <2>1
    <2> QED BY <1>1, <1>2, <2>2 DEF Laid
  <1>4. KInv'
    BY <1>1, <1>2, <1>3 DEF KInv
  <1>5. MFont' = MFont /\ MLook' = MLook
    BY <1>1, SeamSees DEF MLook
  <1>6. C!Seam!PxToTwips(px)
    BY <1>1, <1>5, Zenon DEF C!Seam!PxToTwips, MFont, MLook
  <1> QED BY <1>2, <1>4, <1>6

(* What comes back of pixels at the ratio they went.                       *)
LEMMA BackIs ==
  ASSUME NEW d, d.px \in Nat, d.at = ratio', ratio' \in Nat \ {0},
         target = "atari" => ratio' \in Ratios,
         target \in {"atari", "amiga", "mac", "dos"}
  PROVE  /\ target # "amiga" => C!Back(d) = d.px
         /\ target = "amiga" => C!Back(d) \in 0..d.px
  <1> DEFINE px == d.px
             r == ratio'
  <1>1. px \in Nat /\ px \in Int /\ r \in Nat \ {0}
    OBVIOUS
  <1>2. CASE target = "atari"
    <2>1. C!Back(d) = C!ToPixels(C!ToTwips(px, r), r)
      BY <1>2 DEF C!Back
    <2>2. r \in Ratios
      BY <1>2
    <2> HIDE DEF px, r
    <2>3. C!Back(d) = px
      BY <1>1, <2>1, <2>2, ComeBack, ZenonT(60)
    <2> QED BY <1>2, <2>3 DEF px
  <1>3. CASE target = "amiga"
    <2> DEFINE b == (((px * 1440) \div r) * r) \div 1440
    <2>1. C!Back(d) = b
      BY <1>3 DEF C!Back, C!AmigaTwips
    <2>2. b \in 0..px
      <3> HIDE DEF px, r
      <3> QED BY <1>1, TwipsShrink
    <2> HIDE DEF b
    <2> QED BY <1>3, <2>1, <2>2
  <1>4. CASE target = "mac"
    <2>1. C!Back(d) = (px * 20) \div 20
      BY <1>4 DEF C!Back
    <2> HIDE DEF px
    <2>2. C!Back(d) = px
      BY <1>1, <2>1
    <2> QED BY <1>4, <2>2 DEF px
  <1>5. CASE target = "dos"
    <2>1. C!Back(d) = (px * 144) \div 144
      BY <1>5 DEF C!Back
    <2> HIDE DEF px
    <2>2. C!Back(d) = px
      BY <1>1, <2>1
    <2> QED BY <1>5, <2>2 DEF px
  <1> QED BY <1>2, <1>3, <1>4, <1>5

(* twips_to_px looks for the ratio again, and where it is the same, the    *)
(* pixels come back as the seam says.                                      *)
LEMMA TwipsToPxStep ==
  ASSUME Faced, KInv, C!TwipsToPx
  PROVE  KInv' /\ C!Seam!TwipsToPx /\ Steady
  <1>1. UNCHANGED <<target, device, font, look, port, laid>> /\ C!Ratio
    BY DEF C!TwipsToPx, C!setup
  <1>2. PICK d \in laid : done' = [call |-> "convert", px |-> d.px, back |-> C!Back(d)]
    BY Zenon DEF C!TwipsToPx
  <1>3. /\ Metrics' /\ Fonts' /\ Looks' /\ Steady /\ (target = "amiga" => Queried')
        /\ target \in {"atari", "amiga", "mac", "dos"}
    BY <1>1, RatioStep
  <1>4. Laid'
    BY <1>1, <1>3, LaidStays
  <1>5. KInv'
    BY <1>1, <1>3, <1>4 DEF KInv
  <1>6. MFont' = MFont /\ MLook' = MLook
    BY <1>1, SeamSees DEF MLook
  <1> DEFINE b == C!Back(d)
  <1>7. done'.call = "convert" /\ done'.back = b
    BY <1>2
  <1>8. d.px \in Nat /\ ratio' \in Nat \ {0} /\ (target = "atari" => ratio' \in Ratios)
    <2>1. d.px \in Nat
      <3>1. Pixels \subseteq Nat
        BY FontsAssumption DEF FontsAssumption
      <3>2. d.px \in Pixels
        BY DEF KInv, Laid
      <3> QED BY <3>1, <3>2
    <2>2. ratio' \in Nat \ {0} /\ (target = "atari" => ratio' \in Ratios)
      BY <1>1, <1>3 DEF Metrics, Ratios
    <2> QED BY <2>1, <2>2
  <1>9. d.at = ratio' => b \in IF "truncates" \in C!Quirks THEN 0..d.px ELSE {d.px}
    <2> SUFFICES ASSUME d.at = ratio'
                 PROVE  b \in IF "truncates" \in C!Quirks THEN 0..d.px ELSE {d.px}
      OBVIOUS
    <2>1. (target # "amiga" => b = d.px) /\ (target = "amiga" => b \in 0..d.px)
      BY <1>3, <1>8, BackIs
    <2>2. ("truncates" \in C!Quirks /\ target = "amiga") \/ ("truncates" \notin C!Quirks /\ target # "amiga")
      BY <1>3, QuirksAre
    <2> HIDE DEF b
    <2> QED BY <2>1, <2>2
  <1> HIDE DEF b
  <1>10. done' = [call |-> "convert", px |-> d.px, back |-> done'.back]
    BY <1>2, <1>7 DEF b
  <1>11. d.at = ratio' => done'.back \in IF "truncates" \in C!Quirks THEN 0..d.px ELSE {d.px}
    BY <1>7, <1>9
  <1>12. C!Seam!TwipsToPx
    BY <1>1, <1>6, <1>7, <1>10, <1>11, Zenon DEF C!Seam!TwipsToPx, MFont, MLook
  <1> QED BY <1>3, <1>5, <1>12

(* The program, selecting what it draws with itself.                       *)
LEMMA ItselfStep ==
  ASSUME Faced, KInv, C!Itself
  PROVE  KInv' /\ C!Seam!Itself /\ Steady
  <1>1. Settled /\ UNCHANGED <<laid, done>>
    BY DEF C!Itself, C!setup, C!metrics, Settled
  <1>2. C!Ports \subseteq C!Contexts /\ "window" \in C!Ports
    BY DEF C!Contexts, C!Ports
  <1>3. PICK p \in C!Ports : port' = p /\ look' = [look EXCEPT ![p] = C!Fresh]
    BY <1>2 DEF C!Itself
  <1>4. /\ DOMAIN look' = C!Contexts /\ look'[p] = C!Fresh /\ port' \in C!Contexts
        /\ \A x \in C!Contexts \ {p} : look'[x] = look[x]
    BY <1>2, <1>3 DEF KInv, Looks
  <1>5. IsLook(C!Fresh)
    BY DEF C!Fresh, IsLook
  <1>6. \A x \in C!Contexts : IsLook(look'[x])
    <2>1. \A x \in C!Contexts : IsLook(look[x])
      BY DEF KInv, Looks
    <2>2. ASSUME NEW x \in C!Contexts
          PROVE  IsLook(look'[x])
      <3>1. CASE x = p
        BY <1>4, <1>5, <3>1
      <3>2. CASE x # p
        BY <1>4, <2>1, <3>2
      <3> QED BY <3>1, <3>2
    <2> QED BY <2>2
  <1>7. Looks'
    BY <1>4, <1>6 DEF Looks
  <1>8. KInv' /\ Steady /\ MFont' = MFont
    BY <1>1, <1>7, SettledIs
  <1>9. MLook' = [MLook EXCEPT ![p] = C!Seam!Fresh]
    <2>1. C!Seam!Fresh = C!Fresh
      BY DEF C!Fresh, C!Seam!Fresh
    <2> QED BY <1>2, <1>4, <2>1 DEF MLook
  <1>10. C!Seam!Itself
    BY <1>1, <1>3, <1>8, <1>9, Zenon DEF C!Seam!Itself, MFont, MLook
  <1> QED BY <1>8, <1>10

(* A window of the program's is no matter of the seam.                     *)
SeamStays == UNCHANGED <<MFont, port, MLook, laid, done>>

(* What touches none of the canvas's variables stays within the seam.      *)
LEMMA CanvasStays ==
  ASSUME Faced, KInv, UNCHANGED <<target, device, ready, asked, ratio, font, look, port, laid, done>>
  PROVE  KInv' /\ SeamStays /\ Steady
  <1>1. Settled
    BY DEF Settled
  <1>2. Looks'
    BY DEF KInv, Looks
  <1>3. KInv' /\ MFont' = MFont /\ Steady
    BY <1>1, <1>2, SettledIs
  <1>4. MLook' = MLook
    BY DEF MLook
  <1> QED BY <1>3, <1>4 DEF SeamStays

(* Creating and destroying windows does not.                               *)
LEMMA WindowStep == Faced /\ KInv /\ C!Window => KInv' /\ SeamStays /\ Steady
  BY CanvasStays DEF C!Window, C!setup, C!metrics

(* Each other step of the canvas is one of the seam.                       *)
SeamMoves ==
  \/ \E s \in Slots : C!Seam!Open(s) \/ C!Seam!Close(s)
  \/ \E s \in Slots, t \in C!Texts \cup {C!Lines} : C!Seam!Measure(s, t)
  \/ \E s \in Slots, t \in C!Texts, c \in C!Colours : C!Seam!Draw(s, t, c)
  \/ \E c \in C!Colours : C!Seam!Fill(c)
  \/ \E px \in Pixels : C!Seam!PxToTwips(px)
  \/ C!Seam!TwipsToPx
  \/ C!Seam!Itself

(* Such a move is a step of the seam.                                      *)
LEMMA SeamNext == SeamMoves => C!Seam!Next
  <1>1. C!Seam!Lines = C!Lines
    BY DEF C!Seam!Lines, C!Lines
  <1> QED BY <1>1, Zenon DEF SeamMoves, C!Seam!Next

(* Every step of the canvas is one of the seam's, or none at all, and      *)
(* keeps the scale that something depends on.                              *)
LEMMA CanvasMoves ==
  ASSUME Faced, KInv, C!Next
  PROVE  KInv' /\ (SeamStays \/ C!Seam!Next) /\ Steady
  <1>1. CASE \E s \in Slots, q \in Requests : C!Open(s, q)
    <2>1. KInv' /\ SeamMoves /\ Steady
      BY <1>1, OpenStep, Zenon DEF SeamMoves
    <2> QED BY <2>1, SeamNext
  <1>2. CASE \E s \in Slots : C!Close(s)
    <2>1. KInv' /\ SeamMoves /\ Steady
      BY <1>2, CloseStep, Zenon DEF SeamMoves
    <2> QED BY <2>1, SeamNext
  <1>3. CASE \E s \in Slots, t \in C!Texts \cup {C!Lines} : C!Measure(s, t)
    <2>1. KInv' /\ SeamMoves /\ Steady
      BY <1>3, MeasureStep, Zenon DEF SeamMoves
    <2> QED BY <2>1, SeamNext
  <1>4. CASE \E s \in Slots, t \in C!Texts, c \in C!Colours : C!Draw(s, t, c)
    <2>1. KInv' /\ SeamMoves /\ Steady
      BY <1>4, DrawStep, Zenon DEF SeamMoves
    <2> QED BY <2>1, SeamNext
  <1>5. CASE \E c \in C!Colours : C!Fill(c)
    <2>1. KInv' /\ SeamMoves /\ Steady
      BY <1>5, FillStep, Zenon DEF SeamMoves
    <2> QED BY <2>1, SeamNext
  <1>6. CASE \E px \in Pixels : C!PxToTwips(px)
    <2>1. KInv' /\ SeamMoves /\ Steady
      BY <1>6, PxToTwipsStep, Zenon DEF SeamMoves
    <2> QED BY <2>1, SeamNext
  <1>9. CASE C!TwipsToPx
    <2>1. KInv' /\ SeamMoves /\ Steady
      BY <1>9, TwipsToPxStep, Zenon DEF SeamMoves
    <2> QED BY <2>1, SeamNext
  <1>7. CASE C!Window
    BY <1>7, WindowStep
  <1>8. CASE C!Itself
    <2>1. KInv' /\ SeamMoves /\ Steady
      BY <1>8, ItselfStep, Zenon DEF SeamMoves
    <2> QED BY <2>1, SeamNext
  <1> QED BY <1>1, <1>2, <1>3, <1>4, <1>5, <1>6, <1>7, <1>8, <1>9, Zenon DEF C!Next

(* The canvas begins as the seam does.                                     *)
LEMMA SeamStarts == C!Init => C!Seam!Init
  <1> SUFFICES ASSUME C!Init
               PROVE  C!Seam!Init
    OBVIOUS
  <1>1. /\ font = [s \in Slots |-> NoFont] /\ done = [call |-> "none"] /\ port = "window"
        /\ look = [c \in C!Contexts |-> C!Fresh] /\ laid = {}
    BY DEF C!Init
  <1>2. [s \in Slots |-> C!Face(font[s])] = [s \in Slots |-> NoFont]
    BY <1>1 DEF C!Face
  <1>3. [p \in C!Ports |-> look[p]] = [p \in C!Ports |-> C!Seam!Fresh]
    <2>1. C!Ports \subseteq C!Contexts /\ C!Seam!Fresh = C!Fresh
      BY DEF C!Contexts, C!Fresh, C!Seam!Fresh
    <2> QED BY <1>1, <2>1
  <1> QED BY <1>1, <1>2, <1>3, Zenon DEF C!Seam!Init

(***************************************************************************)
(* platform.h 90-123, of every backend and for every screen, font and      *)
(* text: an open font keeps its face, whatever is opened beside it; what   *)
(* is measured and drawn depends on the font and the text alone; the port  *)
(* a program draws into by itself, and what it has selected there, are     *)
(* left alone but for the backend's quirks; and pixels turned into twips   *)
(* come back at the ratio they went, unless that was a guess.              *)
(***************************************************************************)
THEOREM SurfaceKept ==
  ASSUME Faced
  PROVE  Spec => KeepsPromise
  <1>1. Init => KInv /\ C!Seam!Init
    BY KInit, SeamStarts DEF Init
  <1>2. KInv /\ [Next]_vars => KInv' /\ (SeamStays \/ C!Seam!Next) /\ Steady
    <2> SUFFICES ASSUME KInv, [Next]_vars
                 PROVE  KInv' /\ (SeamStays \/ C!Seam!Next) /\ Steady
      OBVIOUS
    <2>1. CASE UNCHANGED canvasVars
      BY <2>1, CanvasStays DEF canvasVars
    <2>2. CASE C!Next
      BY <2>2, CanvasMoves
    <2> QED BY <2>1, <2>2 DEF Next, vars
  <1>3. KInv /\ [Next]_vars => [C!Seam!Next]_(C!Seam!vars)
    <2>1. SeamStays <=> UNCHANGED C!Seam!vars
      BY DEF SeamStays, C!Seam!vars, MFont, MLook
    <2> QED BY <1>2, <2>1
  <1>4. KInv /\ [Next]_vars => [C!Seam!Scaled]_ratio
    <2>1. Steady => C!Seam!Scaled
      BY Zenon DEF Steady, C!Seam!Scaled, MFont
    <2> QED BY <1>2, <2>1
  <1>5. Spec => []KInv
    BY <1>1, <1>2, PTL DEF Spec
  <1>6. Spec => C!Seam!Spec
    BY <1>1, <1>3, <1>4, <1>5, PTL DEF Spec, C!Seam!Spec
  <1> QED BY <1>6 DEF KeepsPromise, C!KeepsPromise
------------------------------------------------------------------------------
(* What the pictures' variables may be, besides.                           *)
YInv ==
  /\ painter \in Painters /\ colors \in Depths \cup {2} /\ image \in Images
  /\ status \in {"none", "OK", "ERR", "NOMEM"}
  /\ Len(pens) \in 0..16

(* A call of the Atari's has a pen of its own for each colour it shows.    *)
LEMMA AtariPensFew ==
  ASSUME SInv, P!AtariPens
  PROVE  Len(pens') \in 0..16
  <1>1. IsPicture(image) /\ colors > 2 /\ colors \in Nat
    BY DEF P!AtariPens, SInv
  <1> DEFINE n == P!Clipped
  <1>2. n \in 0..16
    BY <1>1 DEF IsPicture, P!Clipped
  <1>3. pens' = [i \in 1..n |-> i + 1]
    BY DEF P!AtariPens
  <1> HIDE DEF n
  <1>4. Len(pens') = n
    BY <1>2, <1>3
  <1> QED BY <1>2, <1>4

(* One of the Amiga's has no more than the palette's sixteen.              *)
LEMMA AmigaPensFew ==
  ASSUME PInv, SInv, YInv, P!AmigaPen
  PROVE  Len(pens') \in 0..16
  <1>1. IsPicture(image) /\ Len(pens) < image.count /\ pens \in Seq(AnyPens)
    BY DEF P!AmigaPen, PInv, SInv
  <1>2. image.count \in 1..16 /\ Len(pens) \in 0..16
    BY <1>1 DEF IsPicture, YInv
  <1>3. CASE pens' = Append(pens, P!Colour(image, Len(pens)))
    <2> DEFINE n == Len(pens)
               c == P!Colour(image, n)
    <2>0. n \in Nat
      BY <1>2
    <2> HIDE DEF n
    <2>1. c \in AnyPens
      BY <2>0, Zenon DEF AnyPens
    <2>2. pens' = Append(pens, c)
      BY <1>3 DEF n
    <2> HIDE DEF c
    <2>3. Len(pens') = Len(pens) + 1
      BY <1>1, <2>1, <2>2, AppendProperties
    <2> QED BY <1>1, <1>2, <2>3
  <1>4. CASE pens' = pens
    BY <1>2, <1>4
  <1> QED BY <1>3, <1>4 DEF P!AmigaPen

(* Every step of the pictures keeps to those.                              *)
LEMMA YNext ==
  ASSUME PInv, SInv, YInv, P!Next
  PROVE  YInv'
  <1>1. painter' = painter /\ colors' = colors /\ image' \in Images
    <2>1. UNCHANGED P!setup /\ (image' = image \/ \E m \in Images : image' = m)
      BY DEF P!Next, P!Start, P!AtariPens, P!AmigaPen, P!MacPens, P!Array, P!AmigaBitMap,
             P!AtariCopy, P!AmigaCopy, P!MacCopy
    <2> QED BY <2>1 DEF P!setup, YInv
  <1>2. status' \in {"none", "OK", "ERR", "NOMEM"}
    BY DEF P!Next, P!Start, P!AtariPens, P!AmigaPen, P!MacPens, P!Array, P!AmigaBitMap,
           P!AtariCopy, P!AmigaCopy, P!MacCopy, YInv
  <1>3. Len(pens') \in 0..16
    <2>1. CASE pens' = <<>>
      <3>1. Len(pens') = 0
        BY <2>1
      <3> QED BY <3>1
    <2>2. CASE pens' = pens
      BY <2>2 DEF YInv
    <2>3. P!AtariPens \/ P!AmigaPen \/ pens' = pens \/ pens' = <<>>
      BY DEF P!Next, P!Start, P!MacPens, P!Array, P!AmigaBitMap, P!AtariCopy, P!AmigaCopy, P!MacCopy
    <2> QED BY <2>1, <2>2, <2>3, AtariPensFew, AmigaPensFew
  <1> QED BY <1>1, <1>2, <1>3 DEF YInv

(* So the pictures' variables have their types.                            *)
LEMMA PicturesTyped == PInv /\ SInv /\ YInv => P!TypeOK
  <1> SUFFICES ASSUME PInv, SInv, YInv
               PROVE  P!TypeOK
    OBVIOUS
  <1>1. owed \in [pens : 0..16, blocks : 0..2]
    <2> DEFINE n == Len(pens)
    <2>1. n \in 0..16 /\ owed = Owes(painter, pc, n)
      BY DEF PInv, YInv
    <2> HIDE DEF n
    <2> QED BY <2>1 DEF Owes
  <1>2. Len(pens) <= 16
    <2> DEFINE n == Len(pens)
    <2>1. n \in 0..16
      BY DEF YInv
    <2> HIDE DEF n
    <2>2. n <= 16
      BY <2>1
    <2> QED BY <2>2 DEF n
  <1> QED BY <1>1, <1>2 DEF P!TypeOK, PInv, SInv, YInv

(* What the canvas's variables may be.                                     *)
LEMMA CanvasTyped ==
  ASSUME Plausible, KInv, CInv
  PROVE  C!TypeOK
  <1>1. held \in [C!Resources -> Nat]
    <2> DEFINE open == Cardinality(Opens(font))
               own == Cardinality(Owns(font))
    <2>1. open \in Nat /\ own \in Nat
      BY Counted
    <2>2. held = [r \in C!Resources |->
                    CASE r = "memory" -> open + (IF window THEN 1 ELSE 0)
                      [] r = "face" -> own
                      [] OTHER -> 0]
      BY DEF CInv, Due
    <2> HIDE DEF open, own
    <2> QED BY <2>1, <2>2
  <1>2. \A s \in Slots : font[s] # NoFont => font[s].size \in Nat \ {0} /\ font[s].owned \in BOOLEAN
    BY DEF KInv, Fonts, IsFont
  <1>3. window \in BOOLEAN /\ DOMAIN look = C!Contexts /\ port \in C!Contexts
    BY DEF KInv, Looks, CInv
  <1>4. ready \in {"no", "yes", "failed"} /\ asked \in BOOLEAN /\ ratio \in Nat \ {0}
    BY DEF KInv, Metrics
  <1>5. target \in Targets /\ device \in Devices[target]
    BY DEF KInv
  <1>6. \A d \in laid : d.px \in Pixels /\ d.at \in Nat \ {0}
    BY DEF KInv, Laid
  <1> QED BY <1>1, <1>2, <1>3, <1>4, <1>5, <1>6, Zenon DEF C!TypeOK

(* What they all keep.                                                     *)
AllTyped ==
  /\ service \in {"texts", "canvas", "pictures", "dos"}
  /\ EInv /\ KInv /\ CInv /\ PInv /\ SInv /\ YInv

(***************************************************************************)
(* Every variable has its type: the fonts a size of a point or more, the   *)
(* ratio a divisor that is not zero, what is held a number, a picture no   *)
(* more pens than its palette, the cursor a place in its text, and what a  *)
(* conversion makes no more bytes than its buffer.                         *)
(***************************************************************************)
THEOREM ScreenTyped ==
  ASSUME Faced, Plausible
  PROVE  Spec => []TypeOK
  <1>1. Init => AllTyped
    <2> SUFFICES ASSUME Init
                 PROVE  AllTyped
      OBVIOUS
    <2>1. EInv
      BY EInit, TextsAssumption DEF Init
    <2>2. KInv /\ CInv
      BY KInit, CInit DEF Init
    <2>3. P!Init
      BY DEF Init
    <2>4. PInv /\ SInv
      <3>1. PInv
        BY <2>3 DEF P!Init, P!Nothing, PInv, Owes
      <3> QED BY <2>3, <3>1, SInit, PicturesAssumption
    <2>5. YInv
      <3>1. pens = <<>> /\ Len(pens) = 0
        BY <2>3 DEF P!Init
      <3> QED BY <2>3, <3>1 DEF P!Init, YInv
    <2> QED BY <2>1, <2>2, <2>4, <2>5 DEF Init, AllTyped
  <1>2. AllTyped /\ [Next]_vars => AllTyped'
    <2> SUFFICES ASSUME AllTyped, [Next]_vars
                 PROVE  AllTyped'
      OBVIOUS
    <2>1. EInv /\ KInv /\ CInv /\ PInv /\ SInv /\ YInv
      BY DEF AllTyped
    <2>2. EInv'
      BY <2>1, ENext, TextsStay, TextsAssumption DEF Next, vars
    <2>3. KInv' /\ CInv'
      <3>1. CASE C!Next
        BY <2>1, <3>1, CanvasMoves, CNext
      <3>2. CASE UNCHANGED canvasVars
        BY <2>1, <3>2, CanvasStays, LeavesAlone DEF canvasVars
      <3> QED BY <3>1, <3>2 DEF Next, vars
    <2>4. PInv' /\ SInv' /\ YInv'
      <3>1. CASE P!Next
        BY <2>1, <3>1, PNext, SNext, YNext, PicturesAssumption
      <3>2. CASE UNCHANGED pictureVars
        BY <2>1, <3>2, PicturesStay DEF YInv, pictureVars
      <3> QED BY <3>1, <3>2 DEF Next, vars
    <2>5. service' = service
      BY DEF Next, vars
    <2> QED BY <2>2, <2>3, <2>4, <2>5 DEF AllTyped
  <1>3. AllTyped /\ TInv => TypeOK
    <2> SUFFICES ASSUME AllTyped, TInv
                 PROVE  TypeOK
      OBVIOUS
    <2>1. E!TypeOK
      BY TextsAsPromised, TextsAssumption DEF AllTyped
    <2>2. C!TypeOK
      BY CanvasTyped DEF AllTyped
    <2>3. P!TypeOK
      BY PicturesTyped DEF AllTyped
    <2>4. T!TypeOK
      BY DEF TInv, T!TypeOK, DosCells, Dot
    <2> QED BY <2>1, <2>2, <2>3, <2>4, Zenon DEF TypeOK, AllTyped
  <1> QED BY <1>1, <1>2, <1>3, DosStays, PTL DEF Spec
================================================================================
