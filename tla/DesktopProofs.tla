----------------------------- MODULE DesktopProofs -----------------------------
(***************************************************************************)
(* Theorems about the clipboards of Desktop, for every set of targets,     *)
(* every kind of text, every buffer and every number of other programs'    *)
(* moves; and about its dialogs, for every number of options, all lengths  *)
(* of title and labels and every character cell.                           *)
(***************************************************************************)
EXTENDS Desktop, SequenceTheorems, FiniteSetTheorems, WellFoundedInduction, TLAPS

(* What a call holds at each of its steps.                                 *)
HeldAt ==
  CASE step \in {"write", "wrote", "read", "close"} /\ board \in C!Gem -> {"file"}
    [] board = "amiga" /\ step = "device" -> {"iff"}
    [] board = "amiga" /\ step \in {"stream", "release"} -> {"iff", "clip"}
    [] board = "amiga" /\ step \in {"write", "commit", "scan", "chunk"} -> {"iff", "clip", "stream"}
    [] board = "mac" /\ step = "scrap" -> {"handle"}
    [] board = "win32" /\ step \in {"lock", "open"} -> {"mem"}
    [] board = "win32" /\ step \in {"empty", "give"} -> {"mem", "clip"}
    [] board = "win32" /\ step \in {"shut", "fetch"} -> {"clip"}
    [] OTHER -> {}

(* The invariant: a call holds what it has taken on the way to its step;   *)
(* and what it is about to register is a text that was written whole.      *)
Inv ==
  /\ op = "none" <=> step = "idle"
  /\ op \in {"none", "set", "get", "has"}
  /\ held = HeldAt
  /\ step = "register" => buf = C!Stored /\ board \in C!Gem

(* A call that has returned holds nothing.                                 *)
LEMMA IdleHoldsNothing == Inv /\ op = "none" => held = {}
  BY DEF Inv, HeldAt

(* Nothing is held at first.                                               *)
LEMMA InitInv == Init => Inv
  BY DEF Init, C!Init, Inv, HeldAt

(* A call begins.                                                          *)
LEMMA StartKeeps ==
  ASSUME Inv, NEW o \in {"set", "get", "has"}, NEW t, NEW n, C!Start(o, t, n)
  PROVE  Inv'
  BY DEF Inv, HeldAt, C!Start, C!Watch

(* What other programs do is none of the call's.                           *)
LEMMA TheirsKeeps ==
  ASSUME Inv, C!Theirs
  PROVE  Inv'
  <1>1. C!Stored' = C!Stored
    BY DEF C!Theirs, C!Watch, C!Stored, C!C!Stored, C!Backend
  <1> QED BY <1>1 DEF Inv, HeldAt, C!Theirs, C!Watch

(* The steps of GEM's clipboard.                                           *)
LEMMA GemKeeps ==
  ASSUME Inv, C!GemCreate \/ C!GemWrite \/ C!GemWrote \/ C!GemRegister
              \/ C!GemAsk \/ C!GemOpen \/ C!GemOpenOwn \/ C!GemRead \/ C!GemClose
  PROVE  Inv'
  <1> USE DEF Inv, HeldAt, C!Watch, C!At, C!Goto, C!Return, C!Fails, C!Gem
  <1>1. CASE C!GemCreate
    BY <1>1 DEF C!GemCreate
  <1>2. CASE C!GemWrite
    BY <1>2 DEF C!GemWrite
  <1>3. CASE C!GemWrote
    <2>1. CASE step' = "register"
      <3>1. C!Stored' = C!Stored
        BY <1>3, <2>1 DEF C!GemWrote, C!Stored, C!C!Stored, C!Backend
      <3> QED BY <1>3, <2>1, <3>1 DEF C!GemWrote
    <2>2. CASE step' # "register"
      BY <1>3, <2>2 DEF C!GemWrote
    <2> QED BY <2>1, <2>2
  <1>4. CASE C!GemRegister
    BY <1>4 DEF C!GemRegister
  <1>5. CASE C!GemAsk
    BY <1>5 DEF C!GemAsk
  <1>6. CASE C!GemOpen
    BY <1>6 DEF C!GemOpen, C!Opens
  <1>7. CASE C!GemOpenOwn
    BY <1>7 DEF C!GemOpenOwn, C!Opens
  <1>8. CASE C!GemRead
    BY <1>8 DEF C!GemRead
  <1>9. CASE C!GemClose
    BY <1>9 DEF C!GemClose
  <1> QED BY <1>1, <1>2, <1>3, <1>4, <1>5, <1>6, <1>7, <1>8, <1>9

(* The steps of the Amiga's.                                               *)
LEMMA AmigaKeeps ==
  ASSUME Inv, C!AmigaAlloc \/ C!AmigaDevice \/ C!AmigaStream \/ C!AmigaWrite
              \/ C!AmigaCommit \/ C!AmigaScan \/ C!AmigaChunk \/ C!AmigaRelease
  PROVE  Inv'
  <1> USE DEF Inv, HeldAt, C!Watch, C!At, C!Goto, C!Return, C!Fails, C!Gem
  <1>1. CASE C!AmigaAlloc
    BY <1>1 DEF C!AmigaAlloc
  <1>2. CASE C!AmigaDevice
    BY <1>2 DEF C!AmigaDevice
  <1>3. CASE C!AmigaStream
    BY <1>3 DEF C!AmigaStream
  <1>4. CASE C!AmigaWrite
    BY <1>4 DEF C!AmigaWrite
  <1>5. CASE C!AmigaCommit
    BY <1>5 DEF C!AmigaCommit
  <1>6. CASE C!AmigaScan
    BY <1>6 DEF C!AmigaScan
  <1>7. CASE C!AmigaChunk
    BY <1>7 DEF C!AmigaChunk
  <1>8. CASE C!AmigaRelease
    BY <1>8 DEF C!AmigaRelease
  <1> QED BY <1>1, <1>2, <1>3, <1>4, <1>5, <1>6, <1>7, <1>8
(* The steps of the Mac's.                                                 *)
LEMMA MacKeeps ==
  ASSUME Inv, C!MacZero \/ C!MacPut \/ C!MacHandle \/ C!MacScrap
  PROVE  Inv'
  <1> USE DEF Inv, HeldAt, C!Watch, C!At, C!Goto, C!Return, C!Fails, C!Gem
  <1>1. CASE C!MacZero
    BY <1>1 DEF C!MacZero
  <1>2. CASE C!MacPut
    BY <1>2 DEF C!MacPut
  <1>3. CASE C!MacHandle
    BY <1>3 DEF C!MacHandle
  <1>4. CASE C!MacScrap
    BY <1>4 DEF C!MacScrap
  <1> QED BY <1>1, <1>2, <1>3, <1>4

(* The steps of Windows'.                                                  *)
LEMMA WinKeeps ==
  ASSUME Inv, C!WinAlloc \/ C!WinLock \/ C!WinOpen \/ C!WinEmpty \/ C!WinGive
              \/ C!WinShut \/ C!WinLook \/ C!WinEnter \/ C!WinFetch
  PROVE  Inv'
  <1> USE DEF Inv, HeldAt, C!Watch, C!At, C!Goto, C!Return, C!Fails, C!Gem
  <1>1. CASE C!WinAlloc
    BY <1>1 DEF C!WinAlloc
  <1>2. CASE C!WinLock
    BY <1>2 DEF C!WinLock
  <1>3. CASE C!WinOpen
    BY <1>3 DEF C!WinOpen
  <1>4. CASE C!WinEmpty
    BY <1>4 DEF C!WinEmpty
  <1>5. CASE C!WinGive
    BY <1>5 DEF C!WinGive
  <1>6. CASE C!WinShut
    BY <1>6 DEF C!WinShut
  <1>7. CASE C!WinLook
    BY <1>7 DEF C!WinLook
  <1>8. CASE C!WinEnter
    BY <1>8 DEF C!WinEnter
  <1>9. CASE C!WinFetch
    BY <1>9 DEF C!WinFetch
  <1> QED BY <1>1, <1>2, <1>3, <1>4, <1>5, <1>6, <1>7, <1>8, <1>9

(* The steps of a buffer of the program's own.                             *)
LEMMA OwnKeeps ==
  ASSUME Inv, C!OwnSet \/ C!OwnGet
  PROVE  Inv'
  <1> USE DEF Inv, HeldAt, C!Watch, C!At, C!Goto, C!Return, C!Fails, C!Gem
  <1>1. CASE C!OwnSet
    BY <1>1 DEF C!OwnSet
  <1>2. CASE C!OwnGet
    BY <1>2 DEF C!OwnGet
  <1> QED BY <1>1, <1>2

(* Every step of the desktop keeps the invariant.                          *)
LEMMA NextInv == Inv /\ [Next]_vars => Inv'
  <1> SUFFICES ASSUME Inv, [Next]_vars PROVE Inv'
    OBVIOUS
  <1>1. CASE C!Next
    <2>1. CASE \/ \E t \in C!Texts : C!Start("set", t, 0)
               \/ \E n \in 1..MaxText + 1 : C!Start("get", <<>>, n)
               \/ C!Start("has", <<>>, 0)
      BY <2>1, StartKeeps
    <2>2. CASE \/ \E t \in C!TheirTexts : C!OtherPuts(t) \/ C!OtherCopies(t)
               \/ C!OtherRegisters
      <3>1. C!Theirs
        BY <2>2 DEF C!OtherPuts, C!OtherCopies, C!OtherRegisters
      <3> QED BY <3>1, TheirsKeeps
    <2> QED BY <1>1, <2>1, <2>2, GemKeeps, AmigaKeeps, MacKeeps, WinKeeps, OwnKeeps DEF C!Next
  <1>2. CASE UNCHANGED clipVars
    <2>1. C!Stored' = C!Stored
      BY <1>2 DEF clipVars, C!Stored, C!C!Stored, C!Backend
    <2> QED BY <1>2, <2>1 DEF clipVars, Inv, HeldAt
  <1> QED BY <1>1, <1>2 DEF Next, vars

(* The invariant is always true.                                           *)
LEMMA AlwaysInv == Spec => []Inv
  BY InitInv, NextInv, PTL DEF Spec

(***************************************************************************)
(* plat_clipboard_set_text, get_text and has_text of every backend:        *)
(* whichever system call fails and whatever other programs do meanwhile,   *)
(* a call that has returned has closed, freed or given away all it took.   *)
(***************************************************************************)
THEOREM ClipboardGivenBack == Spec => []NothingHeld
  <1>1. Inv => NothingHeld
    BY IdleHoldsNothing DEF NothingHeld, C!NothingHeld
  <1> QED BY <1>1, AlwaysInv, PTL

(***************************************************************************)
(* clipboard_gem4xe.c and clipboard_atari.c: the program's own directory   *)
(* is registered only by a set whose whole text was accepted and closed,   *)
(* and that answers WP_OK.                                                 *)
(***************************************************************************)
THEOREM RegisteredLast == Spec => RegistersLast
  <1> DEFINE Right == buf = C!Stored /\ held = {} /\ op' = "none" /\ said' = "OK"
  <1>1. ASSUME Inv, [Next]_vars, aes # C!Own, aes' = C!Own
        PROVE  Right
    <2>1. C!GemRegister
      <3>1. C!Next
        BY <1>1 DEF Next, vars, clipVars
      <3> QED BY <1>1, <3>1
            DEF C!Next, C!Start, C!OtherPuts, C!OtherCopies, C!OtherRegisters, C!gemVars, C!Own, C!Other,
                C!GemCreate, C!GemWrite, C!GemWrote, C!GemAsk, C!GemOpen, C!GemOpenOwn, C!GemRead,
                C!GemClose, C!AmigaAlloc, C!AmigaDevice, C!AmigaStream, C!AmigaWrite, C!AmigaCommit,
                C!AmigaScan, C!AmigaChunk, C!AmigaRelease, C!MacZero, C!MacPut, C!MacHandle,
                C!MacScrap, C!WinAlloc, C!WinLock, C!WinOpen, C!WinEmpty, C!WinGive, C!WinShut,
                C!WinLook, C!WinEnter, C!WinFetch, C!OwnSet, C!OwnGet
    <2> QED BY <1>1, <2>1 DEF C!GemRegister, C!At, C!Return, C!Gem, Inv, HeldAt
  <1>2. Inv /\ [Next]_vars => [aes # C!Own /\ aes' = C!Own => Right]_C!vars
    BY <1>1
  <1> QED BY <1>2, AlwaysInv, PTL DEF Spec, RegistersLast, C!RegistersLast

------------------------------------------------------------------------------
(* Texts.                                                                  *)

Shorter(a, b) == IF a < b THEN a ELSE b

(* Texts as programs make them and as a charset keeps them.                *)
Strings == C!Texts \cup {C!C!Mapped(t) : t \in C!Texts}

(* What a buffer keeps of a text is its beginning.                         *)
LEMMA KeptIs ==
  ASSUME NEW S, NEW t \in Seq(S), NEW n \in Nat
  PROVE  /\ C!C!Kept(t, n) = [i \in 1 .. Shorter(n, Len(t)) |-> t[i]]
         /\ C!C!Kept(t, n) \in Seq(S) /\ Len(C!C!Kept(t, n)) = Shorter(n, Len(t))
         /\ Shorter(n, Len(t)) \in 0 .. Len(t) /\ Shorter(n, Len(t)) <= n
<1> DEFINE m == Shorter(n, Len(t))
<1>1. m \in 0 .. Len(t) /\ m <= n /\ Len(t) \in Nat
  BY LenProperties DEF Shorter
<1> HIDE DEF m
<1>2. \A i \in 1 .. m : t[i] \in S
  BY <1>1, ElementOfSeq
<1> DEFINE k == [i \in 1 .. m |-> t[i]]
<1>3. k \in Seq(S) /\ Len(k) = m
  BY <1>1, <1>2, IsASeq
<1>4. SubSeq(t, 1, m) = k
  <2>1. /\ SubSeq(t, 1, m) \in Seq(S) /\ Len(SubSeq(t, 1, m)) = m
        /\ \A i \in 1 .. m : SubSeq(t, 1, m)[i] = t[i]
    BY <1>1, <1>2, SubSeqProperties
  <2> QED BY <1>3, <2>1, SeqEqual
<1>5. C!C!Kept(t, n) = SubSeq(t, 1, m)
  BY DEF m, Shorter, C!C!Kept
<1> QED BY <1>1, <1>3, <1>4, <1>5 DEF m

(* A text of a program is one character, over and over.                    *)
LEMMA TextIs ==
  ASSUME NEW t
  PROVE  t \in C!Texts <=> \E c \in Chars, n \in 0 .. MaxText : t = [i \in 1 .. n |-> c]
  BY DEF C!Texts

(* Its length, and what a buffer keeps of it.                              *)
LEMMA TextSeq ==
  ASSUME NEW c, NEW n \in Nat
  PROVE  LET t == [i \in 1 .. n |-> c] IN
         /\ t \in Seq({c}) /\ Len(t) = n
         /\ \A k \in Nat : C!C!Kept(t, k) = [i \in 1 .. Shorter(k, n) |-> c]
<1> DEFINE t == [i \in 1 .. n |-> c]
<1>1. t \in Seq({c}) /\ Len(t) = n
  BY IsASeq
<1>2. ASSUME NEW k \in Nat PROVE C!C!Kept(t, k) = [i \in 1 .. Shorter(k, n) |-> c]
  <2> DEFINE m == Shorter(k, n)
             short == [i \in 1 .. m |-> c]
             kept == C!C!Kept(t, k)
  <2>1. m \in Nat
    BY DEF Shorter
  <2>2. short \in Seq({c}) /\ Len(short) = m
    BY <2>1, IsASeq
  <2> HIDE DEF t, short
  <2>3. kept \in Seq({c}) /\ Len(kept) = m
    BY <1>1, KeptIs
  <2> HIDE DEF m, kept
  <2>4. \A i \in 1 .. m : kept[i] = c /\ short[i] = c
    <3>1. ASSUME NEW i \in 1 .. m PROVE kept[i] = c /\ short[i] = c
      BY <2>2, <2>3, ElementOfSeq
    <3> QED BY <3>1
  <2>5. kept = short
    BY <2>1, <2>2, <2>3, <2>4, SeqEqual
  <2> QED BY <2>5 DEF kept, short, m
<1> QED BY <1>1, <1>2

(* What a charset makes of it: the fallback, as often, of what it lacks.   *)
LEMMA MappedIs ==
  ASSUME NEW c, NEW n \in Nat
  PROVE  C!C!Mapped([i \in 1 .. n |-> c])
           = [i \in 1 .. n |-> IF c \in Unmapped THEN Fallback ELSE c]
BY DEF C!C!Mapped

(* A string is one character, over and over.                               *)
LEMMA StringIs ==
  ASSUME NEW s
  PROVE  s \in Strings <=>
           \E c \in Chars, n \in 0 .. MaxText :
             \/ s = [i \in 1 .. n |-> c]
             \/ s = [i \in 1 .. n |-> IF c \in Unmapped THEN Fallback ELSE c]
<1>1. ASSUME s \in Strings
      PROVE \E c \in Chars, n \in 0 .. MaxText :
              \/ s = [i \in 1 .. n |-> c]
              \/ s = [i \in 1 .. n |-> IF c \in Unmapped THEN Fallback ELSE c]
  <2>1. PICK t \in C!Texts : s = t \/ s = C!C!Mapped(t)
    BY <1>1 DEF Strings
  <2>2. PICK c \in Chars, n \in 0 .. MaxText : t = [i \in 1 .. n |-> c]
    BY TextIs
  <2>3. n \in Nat
    BY ClipboardAssumption
  <2>4. C!C!Mapped(t) = [i \in 1 .. n |-> IF c \in Unmapped THEN Fallback ELSE c]
    BY <2>2, <2>3, MappedIs
  <2> QED BY <2>1, <2>2, <2>4
<1>2. ASSUME NEW c \in Chars, NEW n \in 0 .. MaxText,
             \/ s = [i \in 1 .. n |-> c]
             \/ s = [i \in 1 .. n |-> IF c \in Unmapped THEN Fallback ELSE c]
      PROVE s \in Strings
  <2>1. [i \in 1 .. n |-> c] \in C!Texts
    BY TextIs
  <2>2. C!C!Mapped([i \in 1 .. n |-> c]) = [i \in 1 .. n |-> IF c \in Unmapped THEN Fallback ELSE c]
    <3>1. n \in Nat
      BY ClipboardAssumption
    <3> QED BY <3>1, MappedIs
  <2> QED BY <1>2, <2>1, <2>2 DEF Strings
<1> QED BY <1>1, <1>2

(* What a buffer keeps of a string is a string.                            *)
LEMMA StringKept ==
  ASSUME NEW s \in Strings, NEW k \in Nat
  PROVE  C!C!Kept(s, k) \in Strings
<1>1. PICK c \in Chars, n \in 0 .. MaxText :
        \/ s = [i \in 1 .. n |-> c]
        \/ s = [i \in 1 .. n |-> IF c \in Unmapped THEN Fallback ELSE c]
  BY StringIs
<1> DEFINE d == IF c \in Unmapped THEN Fallback ELSE c
           m == Shorter(k, n)
<1>2. n \in Nat /\ m \in 0 .. MaxText
  BY ClipboardAssumption DEF Shorter
<1> HIDE DEF d
<1>3. C!C!Kept([i \in 1 .. n |-> c], k) = [i \in 1 .. m |-> c]
  BY <1>2, TextSeq
<1>4. C!C!Kept([i \in 1 .. n |-> d], k) = [i \in 1 .. m |-> d]
  BY <1>2, TextSeq
<1> USE DEF d
<1> HIDE DEF m
<1> QED BY <1>1, <1>2, <1>3, <1>4, StringIs

(* A charset makes strings of strings, cut before or afterwards.           *)
LEMMA StringMapped ==
  ASSUME NEW s \in Strings
  PROVE  /\ C!C!Mapped(s) \in Strings
         /\ \A k \in Nat : C!C!Mapped(C!C!Kept(s, k)) = C!C!Kept(C!C!Mapped(s), k)
<1>1. PICK c \in Chars, n \in 0 .. MaxText :
        \/ s = [i \in 1 .. n |-> c]
        \/ s = [i \in 1 .. n |-> IF c \in Unmapped THEN Fallback ELSE c]
  BY StringIs
<1> DEFINE d == IF c \in Unmapped THEN Fallback ELSE c
<1>2. n \in Nat
  BY ClipboardAssumption
<1>3. PICK e \in {c, d} : s = [i \in 1 .. n |-> e]
  BY <1>1
<1>4. (IF e \in Unmapped THEN Fallback ELSE e) = d
  OBVIOUS
<1> HIDE DEF d
<1>5. C!C!Mapped(s) = [i \in 1 .. n |-> d]
  BY <1>2, <1>3, <1>4, MappedIs
<1>6. C!C!Mapped(s) \in Strings
  BY <1>5, StringIs DEF d
<1>7. ASSUME NEW k \in Nat PROVE C!C!Mapped(C!C!Kept(s, k)) = C!C!Kept(C!C!Mapped(s), k)
  <2> DEFINE m == Shorter(k, n)
  <2>1. C!C!Kept(s, k) = [i \in 1 .. m |-> e]
    BY <1>2, <1>3, TextSeq
  <2>3. C!C!Kept(C!C!Mapped(s), k) = [i \in 1 .. m |-> d]
    <3>1. C!C!Kept([i \in 1 .. n |-> d], k) = [i \in 1 .. m |-> d]
      BY <1>2, TextSeq
    <3> QED BY <3>1, <1>5
  <2>2. m \in Nat
    BY <1>2 DEF Shorter
  <2> HIDE DEF m
  <2>4. C!C!Mapped(C!C!Kept(s, k)) = [i \in 1 .. m |-> d]
    BY <2>1, <2>2, <1>4, MappedIs
  <2> QED BY <2>3, <2>4
<1> QED BY <1>6, <1>7

(* A string is a sequence of characters, and not the absence of a text.    *)
LEMMA StringSeq ==
  ASSUME NEW s \in Strings
  PROVE  s \in Seq(Chars \cup {Fallback}) /\ Len(s) \in 0 .. MaxText /\ s # NoText
<1>1. PICK c \in Chars, n \in 0 .. MaxText :
        \/ s = [i \in 1 .. n |-> c]
        \/ s = [i \in 1 .. n |-> IF c \in Unmapped THEN Fallback ELSE c]
  BY StringIs
<1>2. n \in Nat
  BY ClipboardAssumption
<1>3. PICK e \in Chars \cup {Fallback} : s = [i \in 1 .. n |-> e]
  BY <1>1
<1>4. s \in Seq(Chars \cup {Fallback}) /\ Len(s) = n
  BY <1>2, <1>3, IsASeq
<1> QED BY <1>4, ClipboardAssumption

(* There is a text without characters, and every text is a string.         *)
LEMMA TextString ==
  /\ <<>> \in C!Texts
  /\ C!Texts \subseteq Strings
<1>1. PICK c \in Chars : TRUE
  BY ClipboardAssumption
<1>2. [i \in 1 .. 0 |-> c] = <<>> /\ 0 \in 0 .. MaxText
  BY ClipboardAssumption
<1> QED BY <1>1, <1>2, TextIs DEF Strings

(* Kept twice, and kept whole.                                             *)
LEMMA KeptTwice ==
  ASSUME NEW s \in Strings, NEW k \in Nat
  PROVE  /\ C!C!Kept(C!C!Kept(s, k), k) = C!C!Kept(s, k)
         /\ Len(s) <= k => C!C!Kept(s, k) = s
<1>1. s \in Seq(Chars \cup {Fallback}) /\ Len(s) \in Nat
  BY StringSeq, ClipboardAssumption
<1> DEFINE m == Shorter(k, Len(s))
           t == C!C!Kept(s, k)
<1> DEFINE S == Chars \cup {Fallback}
<1> HIDE DEF S
<1>2. /\ t = [i \in 1 .. m |-> s[i]] /\ t \in Seq(S) /\ Len(t) = m
      /\ m \in 0 .. Len(s) /\ m <= k
  <2>1. s \in Seq(S)
    BY <1>1 DEF S
  <2> QED BY <2>1, KeptIs
<1>3. Shorter(k, m) = m
  BY <1>1, <1>2 DEF Shorter
<1>4. Len(s) <= k => m = Len(s)
  BY <1>1 DEF Shorter
<1> HIDE DEF m, t
<1>5. C!C!Kept(t, k) = [i \in 1 .. m |-> t[i]]
  <2>1. C!C!Kept(t, k) = [i \in 1 .. Shorter(k, Len(t)) |-> t[i]]
    <3>1. t \in Seq(S)
      BY <1>2
    <3> QED BY <3>1, KeptIs
  <2> QED BY <2>1, <1>2, <1>3
<1>6. C!C!Kept(t, k) = t
  BY <1>2, <1>5
<1>7. Len(s) <= k => t = s
  BY <1>1, <1>2, <1>4
<1> QED BY <1>6, <1>7 DEF t

(* What a backend makes of a text.                                         *)
LEMMA StoredIs ==
  ASSUME NEW t
  PROVE  C!C!Stored(t) = IF board \in {"win32", "private"} THEN t
                         ELSE C!C!Kept(C!C!Mapped(t), BUFFER)
BY DEF C!C!Stored, C!Backend

(* What a backend stores of a text is a string.                            *)
LEMMA StringStored ==
  ASSUME NEW s \in Strings
  PROVE  /\ C!C!Stored(s) \in Strings
         /\ \A n \in Nat : /\ C!C!Found(s, n) \in Strings
                           /\ Len(C!C!Found(s, n)) <= n
<1>1. C!C!Stored(s) \in Strings
  BY StoredIs, StringMapped, StringKept, ClipboardAssumption
<1>2. ASSUME NEW n \in Nat PROVE C!C!Found(s, n) \in Strings /\ Len(C!C!Found(s, n)) <= n
  <2> DEFINE t == C!C!Stored(s)
  <2>1. C!C!Found(s, n) = C!C!Kept(t, n)
    BY DEF C!C!Found
  <2>2. C!C!Kept(t, n) \in Strings /\ t \in Seq(Chars \cup {Fallback})
    BY <1>1, StringKept, StringSeq
  <2> HIDE DEF t
  <2>3. Len(C!C!Kept(t, n)) <= n
    BY <2>2, KeptIs
  <2> QED BY <2>1, <2>2, <2>3
<1> QED BY <1>1, <1>2

(* A native buffer may cut a text once or twice.                           *)
LEMMA FoundOnce ==
  ASSUME NEW s \in Strings, NEW n \in Nat, board \notin {"win32", "private"}
  PROVE  C!C!Found(C!C!Kept(s, BUFFER), n) = C!C!Found(s, n)
<1> DEFINE t == C!C!Mapped(s)
<1>1. t \in Strings /\ C!C!Mapped(C!C!Kept(s, BUFFER)) = C!C!Kept(t, BUFFER)
  BY StringMapped, ClipboardAssumption
<1> HIDE DEF t
<1>2. C!C!Kept(C!C!Kept(t, BUFFER), BUFFER) = C!C!Kept(t, BUFFER)
  BY <1>1, KeptTwice, ClipboardAssumption
<1>3. C!C!Stored(C!C!Kept(s, BUFFER)) = C!C!Stored(s)
  BY <1>1, <1>2, StoredIs DEF t
<1> QED BY <1>3 DEF C!C!Found

------------------------------------------------------------------------------
(* The clipboards, as the seam sees them.                                  *)

Held == Strings \cup {NoText}

(* What every kind of clipboard holds.                                     *)
Typed ==
  /\ board \in Boards
  /\ scrap \in [{C!Own, C!Other} -> Held] /\ aes \in {"", C!Own, C!Other} /\ clip \in Held
  /\ buf \in Held /\ dir \in {C!Own, C!Other} /\ trouble \in BOOLEAN

(* The arguments and the results of a call.                                *)
CallTyped ==
  /\ text \in C!Texts /\ room \in 0 .. MaxText + 1 /\ moves \in 0 .. MaxMoves
  /\ saw \subseteq Held
  /\ said \in {"none", "OK", "ERR", "NOMEM", "RANGE", "TRUE", "FALSE"} /\ got \in Strings

(* Nothing is left of a call that has returned; one that is going on has   *)
(* seen what the clipboard holds.                                          *)
Quiet ==
  /\ op = "none" => text = <<>> /\ room = 0 /\ saw = {} /\ buf = NoText /\ dir = C!Own
  /\ op # "none" => C!Content \in saw

(* During the call there was a text on the clipboard.                      *)
SawText == \E t \in saw : t # NoText

(* Where a call on GEM's clipboard stands.                                 *)
GemAt ==
  /\ op = "set" => dir = C!Own
  /\ step \in {"write", "wrote", "register"} => op = "set"
  /\ step = "wrote" =>
       /\ buf # NoText /\ (buf # C!Stored => trouble) /\ scrap[C!Own] # NoText
       /\ board = "gem4xe" => scrap[C!Own] = buf
  /\ step = "register" =>
       \/ C!Stored \in saw \cup {scrap[C!Own]}
       \/ board = "atari" /\ trouble
  /\ step = "open" =>
       IF dir = C!Own THEN scrap[C!Own] \in saw \/ (board = "atari" /\ op = "has")
       ELSE aes = C!Other
  /\ step = "again" => trouble \/ scrap[C!Own] \in saw
  /\ step = "read" => SawText /\ scrap[dir] # NoText /\ (trouble \/ scrap[dir] \in saw)
  /\ step = "close" =>
       /\ SawText
       /\ op = "get" => \/ trouble
                        \/ \E t \in saw \ {NoText} : buf = C!C!Kept(t, BUFFER)

(* Where a call on the Amiga's clipboard stands.                           *)
AmigaAt ==
  /\ step \in {"start", "device", "stream", "write", "scan"} => buf = NoText
  /\ step = "commit" => (buf = NoText /\ trouble) \/ buf = C!Stored
  /\ step = "chunk" => buf \in saw \ {NoText}
  /\ step = "release" =>
       IF op = "set" THEN trouble \/ (buf # NoText /\ C!Stored \in saw)
       ELSE IF buf = NoText THEN trouble \/ NoText \in saw ELSE buf \in saw

(* Where a call on Windows' clipboard stands.                              *)
WinAt ==
  /\ step = "shut" => text \in saw
  /\ step \in {"start", "enter", "fetch"} => ~ trouble

(* Where a call stands, and what it knows there.                           *)
AtStep ==
  /\ board \in C!Gem => GemAt
  /\ board = "amiga" => AmigaAt
  /\ board = "win32" => WinAt

(* The invariant of the clipboards.                                        *)
ClipInv == Inv /\ Typed /\ CallTyped /\ Quiet /\ AtStep

(* Where what is on the clipboard stands.                                  *)
LEMMA ContentIs ==
  C!Content = IF board \notin C!Gem THEN clip
              ELSE IF aes # "" /\ scrap[aes] # NoText THEN scrap[aes] ELSE scrap[C!Own]
BY DEF C!Content

(* What is on the clipboard is a string or nothing.                        *)
LEMMA ContentHeld == Typed => C!Content \in Held
BY ContentIs DEF Typed, C!Own, C!Other

(* A step of a call that goes on.                                          *)
LEMMA SeamGoesOn ==
  ASSUME op # "none", op' = op, UNCHANGED <<board, text, room, said, got>>,
         C!Content \in saw, saw' = saw \cup {C!Content'},
         trouble \in BOOLEAN, trouble' \in {trouble, TRUE},
         op = "set" \/ C!Content' = C!Content \/ trouble' = trouble
  PROVE  C!C!Next \/ UNCHANGED C!C!vars
<1>1. UNCHANGED C!Backend
  BY DEF C!Backend
<1>2. CASE C!Content' # C!Content
  <2>1. C!C!Change
    BY <1>1, <1>2 DEF C!C!Change
  <2> QED BY <2>1 DEF C!C!Next
<1>3. CASE C!Content' = C!Content /\ trouble' # trouble
  <2>1. C!C!GoesWrong
    BY <1>1, <1>3 DEF C!C!GoesWrong
  <2> QED BY <2>1 DEF C!C!Next
<1>4. CASE C!Content' = C!Content /\ trouble' = trouble
  BY <1>1, <1>4 DEF C!C!vars
<1> QED BY <1>2, <1>3, <1>4

(* Other programs while there is no call.                                  *)
LEMMA SeamIdle ==
  ASSUME op = "none", op' = op, UNCHANGED <<board, text, room, said, got, trouble>>,
         saw = {}, saw' = {}
  PROVE  C!C!Next \/ UNCHANGED C!C!vars
<1>1. UNCHANGED C!Backend
  BY DEF C!Backend
<1>2. CASE C!Content' # C!Content
  <2>1. C!C!Change
    BY <1>1, <1>2 DEF C!C!Change
  <2> QED BY <2>1 DEF C!C!Next
<1>3. CASE C!Content' = C!Content
  BY <1>1, <1>3 DEF C!C!vars
<1> QED BY <1>2, <1>3

(* A call that returns as it promises.                                     *)
LEMMA SeamEnds ==
  ASSUME NEW s, NEW g, C!Return(s, g), C!Watch, trouble' \in {trouble, TRUE}
  PROVE  C!C!Ends /\ said' = s /\ got' = g
BY DEF C!Return, C!Watch, C!C!Ends, C!Backend

(* The answers of a set, a get and a has.                                  *)
LEMMA SeamSet ==
  ASSUME NEW s, op = "set", C!Return(s, <<>>), C!Watch, trouble' \in {trouble, TRUE},
         \/ /\ s = "OK"
            /\ C!Stored \in saw \cup {C!Content'} \/ (board \in {"atari", "amiga"} /\ trouble')
         \/ s \in {"ERR", "NOMEM"} /\ trouble'
         \/ s = "RANGE" /\ Len(text) > C!Backend.buffer /\ UNCHANGED C!Content
  PROVE  C!C!Next
<1>1. C!C!Ends /\ said' = s /\ got' = <<>>
  BY SeamEnds
<1>2. C!Backend.tears = (board \in {"atari", "amiga"})
  BY DEF C!Backend
<1>3. C!C!EndSet
  BY <1>1, <1>2 DEF C!C!EndSet, C!Stored
<1> QED BY <1>3 DEF C!C!Next

(* A get that returns as it promises.                                      *)
LEMMA SeamGet ==
  ASSUME NEW s, NEW g, op = "get", C!Return(s, g), C!Watch, trouble' \in {trouble, TRUE},
         UNCHANGED C!Content,
         \/ /\ s = "OK"
            /\ \E t \in saw \ {NoText} :
                 \/ g = C!C!Found(t, room)
                 \/ board \in C!Gem /\ trouble' /\ Len(g) <= room
         \/ s = "ERR" /\ g = <<>> /\ (trouble' \/ NoText \in saw)
         \/ s = "RANGE" /\ g = <<>> /\ \E t \in saw \ {NoText} : Len(t) >= room
  PROVE  C!C!Next
<1>1. C!C!Ends /\ said' = s /\ got' = g
  BY SeamEnds
<1>2. C!Backend.falls = (board \in C!Gem)
  BY DEF C!Backend
<1>3. C!C!EndGet
  BY <1>1, <1>2 DEF C!C!EndGet
<1> QED BY <1>3 DEF C!C!Next

(* A has_text that returns as it promises.                                 *)
LEMMA SeamHas ==
  ASSUME NEW s, op = "has", C!Return(s, <<>>), C!Watch, trouble' \in {trouble, TRUE},
         UNCHANGED C!Content,
         \/ s = "TRUE" /\ saw # {NoText}
         \/ s = "FALSE" /\ (trouble' \/ NoText \in saw \/ board = "atari")
  PROVE  C!C!Next
<1>1. C!C!Ends /\ said' = s /\ got' = <<>>
  BY SeamEnds
<1>2. C!Backend.blind = (board = "atari")
  BY DEF C!Backend
<1>3. C!C!EndHas
  BY <1>1, <1>2 DEF C!C!EndHas
<1> QED BY <1>3 DEF C!C!Next

(* What a step of the clipboards has to be.                                *)
Steps == ClipInv' /\ (C!C!Next \/ UNCHANGED C!C!vars)

(* What the machine has, typed.                                            *)
Machine ==
  scrap \in [{C!Own, C!Other} -> Held] /\ aes \in {"", C!Own, C!Other} /\ clip \in Held

(* The answers of a call.                                                  *)
Answers == {"none", "OK", "ERR", "NOMEM", "RANGE", "TRUE", "FALSE"}

(* A call that returns keeps the invariant.                                *)
LEMMA ReturnKeeps ==
  ASSUME ClipInv, Inv', NEW s \in Answers, NEW g \in Strings, C!Return(s, g), C!Watch,
         Machine', trouble' \in BOOLEAN
  PROVE  ClipInv'
<1>1. /\ step' = "idle" /\ op' = "none" /\ text' = <<>> /\ room' = 0 /\ moves' = 0
      /\ dir' = C!Own /\ buf' = NoText /\ said' = s /\ got' = g /\ board' = board /\ saw' = {}
  BY DEF C!Return, C!Watch
<1>2. Typed'
  BY <1>1 DEF ClipInv, Typed, Machine, Held
<1>3. CallTyped'
  BY <1>1, TextString, ClipboardAssumption DEF CallTyped, Answers
<1>4. Quiet'
  BY <1>1 DEF Quiet
<1>5. AtStep'
  BY <1>1 DEF AtStep, GemAt, AmigaAt, WinAt
<1> QED BY <1>2, <1>3, <1>4, <1>5 DEF ClipInv

(* A call that goes on keeps the invariant.                                *)
LEMMA GotoKeeps ==
  ASSUME ClipInv, Inv', NEW l, C!Goto(l), C!Watch, op # "none", Typed', AtStep'
  PROVE  ClipInv'
<1>1. /\ UNCHANGED <<op, text, room, said, got, moves, board>> /\ saw' = saw \cup {C!Content'}
  BY DEF C!Goto, C!Watch
<1>2. C!Content' \in Held
  BY DEF C!Content, Typed, C!Own, C!Other
<1>3. CallTyped'
  BY <1>1, <1>2 DEF CallTyped, ClipInv
<1>4. Quiet'
  BY <1>1 DEF Quiet
<1> QED BY <1>3, <1>4 DEF ClipInv

(* A call that goes on, and leaves the clipboard as it is.                 *)
LEMMA GoesOn ==
  ASSUME ClipInv, Inv', NEW l, C!Goto(l), C!Watch, op # "none", Typed', AtStep',
         trouble' \in {trouble, TRUE},
         op = "set" \/ C!Content' = C!Content \/ trouble' = trouble
  PROVE  Steps
<1>1. /\ UNCHANGED <<op, text, room, said, got, board>> /\ saw' = saw \cup {C!Content'}
  BY DEF C!Goto, C!Watch
<1>2. C!Content \in saw /\ trouble \in BOOLEAN
  BY DEF ClipInv, Quiet, Typed
<1>3. C!C!Next \/ UNCHANGED C!C!vars
  BY <1>1, <1>2, SeamGoesOn
<1> QED BY <1>3, GotoKeeps DEF Steps

(* A call that fails, and says so.                                         *)
LEMMA FailsStep ==
  ASSUME ClipInv, Inv', C!Fails, C!Watch, op # "none", Machine',
         op = "set" \/ C!Content' = C!Content
  PROVE  Steps
<1> DEFINE s == IF op = "has" THEN "FALSE" ELSE "ERR"
<1>1. C!Return(s, <<>>) /\ trouble' = TRUE /\ s \in Answers /\ <<>> \in Strings
  BY TextString DEF C!Fails, Answers
<1>2. op \in {"set", "get", "has"}
  BY DEF ClipInv, Inv
<1>3. ClipInv'
  BY <1>1, ReturnKeeps
<1>4. CASE op = "set"
  <2>1. s = "ERR"
    BY <1>4
  <2>2. C!C!Next
    BY <1>1, <1>4, <2>1, SeamSet
  <2> QED BY <1>3, <2>2 DEF Steps
<1>5. CASE op = "get"
  <2>1. s = "ERR" /\ C!Content' = C!Content
    BY <1>5
  <2>2. C!C!Next
    BY <1>1, <1>5, <2>1, SeamGet
  <2> QED BY <1>3, <2>2 DEF Steps
<1>6. CASE op = "has"
  <2>1. s = "FALSE" /\ C!Content' = C!Content
    BY <1>6
  <2>2. C!C!Next
    BY <1>1, <1>6, <2>1, SeamHas
  <2> QED BY <1>3, <2>2 DEF Steps
<1> QED BY <1>2, <1>4, <1>5, <1>6

(* A call begins.                                                          *)
LEMMA StartStep ==
  ASSUME ClipInv,
         NEW o, NEW t \in C!Texts, NEW n \in 0 .. MaxText + 1, C!Start(o, t, n),
         \/ o = "set" /\ n = 0
         \/ o = "get" /\ t = <<>>
         \/ o = "has" /\ t = <<>> /\ n = 0
  PROVE  Steps
<1>1. op = "none" /\ op' = o /\ step' = "start" /\ text' = t /\ room' = n /\ trouble' = FALSE
      /\ said' = "none" /\ got' = <<>> /\ UNCHANGED <<scrap, aes, clip, dir, buf, held, moves, board>>
      /\ saw' = {C!Content'}
  BY DEF C!Start, C!Watch, C!gemVars, ClipInv, Inv
<1>2. Inv'
  BY StartKeeps DEF ClipInv
<1>3. C!Content' = C!Content /\ UNCHANGED C!Backend
  BY <1>1 DEF C!Content, C!Backend
<1>4. C!Content \in Held
  BY ContentHeld DEF ClipInv
<1>5. Typed'
  BY <1>1 DEF ClipInv, Typed
<1>6. CallTyped'
  BY <1>1, <1>3, <1>4, TextString DEF ClipInv, CallTyped
<1>7. Quiet'
  BY <1>1, <1>3 DEF ClipInv, Quiet
<1>8. AtStep'
  BY <1>1 DEF ClipInv, Quiet, AtStep, GemAt, AmigaAt, WinAt
<1>9. C!C!Next
  <2>1. C!C!Start(o, t, n)
    BY <1>1, <1>3 DEF C!C!Start
  <2>2. <<>> \in C!Texts /\ 0 \in 0 .. MaxText + 1
    BY TextString, ClipboardAssumption
  <2> QED BY <2>1, <2>2 DEF C!C!Next
<1> QED BY <1>2, <1>5, <1>6, <1>7, <1>8, <1>9 DEF Steps, ClipInv

------------------------------------------------------------------------------
(* Other programs.                                                         *)
LEMMA TheirsStep ==
  ASSUME ClipInv, C!Theirs, C!Move, Machine', AtStep'
  PROVE  Steps
<1>1. /\ UNCHANGED <<step, op, text, room, dir, buf, held, trouble, said, got, board>>
      /\ saw' = IF op = "none" THEN {} ELSE saw \cup {C!Content'}
  BY DEF C!Theirs, C!Watch, C!answer
<1>2. Inv'
  BY TheirsKeeps DEF ClipInv
<1>3. Typed'
  BY <1>1 DEF ClipInv, Typed, Machine
<1>4. C!Content' \in Held
  BY <1>3 DEF C!Content, Typed, C!Own, C!Other
<1>5. moves' \in 0 .. MaxMoves
  BY ClipboardAssumption DEF ClipInv, CallTyped, C!Move
<1>6. CallTyped' /\ Quiet'
  BY <1>1, <1>4, <1>5 DEF ClipInv, CallTyped, Quiet
<1>7. CASE op = "none"
  <2>1. saw = {} /\ saw' = {}
    BY <1>1, <1>7 DEF ClipInv, Quiet
  <2> QED BY <1>1, <1>2, <1>3, <1>6, <1>7, <2>1, SeamIdle DEF Steps, ClipInv
<1>8. CASE op # "none"
  <2>1. C!Content \in saw /\ saw' = saw \cup {C!Content'} /\ trouble \in BOOLEAN
    BY <1>1, <1>8 DEF ClipInv, Quiet, Typed
  <2>2. C!C!Next \/ UNCHANGED C!C!vars
    BY <1>1, <1>8, <2>1, SeamGoesOn
  <2> QED BY <1>2, <1>3, <1>6, <2>2 DEF Steps, ClipInv
<1> QED BY <1>7, <1>8

(* What GEM's clipboard is when others have written one of the scraps, or  *)
(* registered another directory.                                           *)
LEMMA GemTheirs ==
  ASSUME ClipInv, C!Theirs, board \in C!Gem,
         \/ aes' = C!Other /\ scrap' = scrap
         \/ /\ aes' = aes
            /\ \E d \in {C!Other, aes} \ {""}, t \in Held :
                 C!OthersMay(d) /\ scrap' = [scrap EXCEPT ![d] = t]
  PROVE  GemAt'
<1>1. /\ UNCHANGED <<step, op, text, room, dir, buf, held, trouble, board>>
      /\ saw' = IF op = "none" THEN {} ELSE saw \cup {C!Content'}
  BY DEF C!Theirs, C!Watch
<1>2. C!Stored' = C!Stored
  BY <1>1 DEF C!Stored, C!C!Stored, C!Backend
<1>3. op # "none" => C!Content \in saw
  BY DEF ClipInv, Quiet
<1>4. op = "none" <=> step = "idle"
  BY DEF ClipInv, Inv
<1>5. op # "none" => saw \subseteq saw' /\ C!Content' \in saw'
  BY <1>1
<1>6. DOMAIN scrap = {C!Own, C!Other} /\ dir \in {C!Own, C!Other}
  BY DEF ClipInv, Typed
(* The program's own scrap is as it was, or is the clipboard.              *)
<1> DEFINE Kept == scrap'[C!Own] = scrap[C!Own]
           Shown == /\ scrap[C!Own] = C!Content /\ scrap'[C!Own] = C!Content'
                    /\ ~ ("file" \in held /\ dir = C!Own)
<1>7. Kept \/ Shown
  <2>1. CASE scrap' = scrap
    BY <2>1
  <2>2. ASSUME aes' = aes, NEW d \in {C!Other, aes} \ {""}, NEW t \in Held,
               C!OthersMay(d), scrap' = [scrap EXCEPT ![d] = t]
        PROVE Kept \/ Shown
    <3>1. CASE d # C!Own
      BY <1>6, <2>2, <3>1
    <3>2. CASE d = C!Own
      <4>1. aes = C!Own
        BY <2>2, <3>2 DEF C!Own, C!Other
      <4>2. scrap[C!Own] = C!Content /\ scrap'[C!Own] = C!Content'
        <5>1. scrap[C!Own] = C!Content
          BY <4>1, ContentIs
        <5>2. /\ board' \in C!Gem /\ aes' = C!Own
              /\ C!Content' = IF board' \notin C!Gem THEN clip'
                              ELSE IF aes' # "" /\ scrap'[aes'] # NoText THEN scrap'[aes']
                              ELSE scrap'[C!Own]
          BY <1>1, <2>2, <4>1 DEF C!Content
        <5> QED BY <5>1, <5>2
      <4>3. ~ ("file" \in held /\ dir = C!Own)
        BY <2>2, <3>2 DEF C!OthersMay, C!Gem
      <4> QED BY <4>2, <4>3
    <3> QED BY <3>1, <3>2
  <2> QED BY <2>1, <2>2
(* A file that is open is as it was.                                       *)
<1>8. "file" \in held => scrap'[dir] = scrap[dir]
  BY <1>6 DEF C!OthersMay, C!Gem
<1>9. step \in {"wrote", "read"} => held = {"file"}
  BY DEF ClipInv, Inv, HeldAt
<1>10. GemAt
  BY DEF ClipInv, AtStep
<1>11. dir # C!Own /\ step = "open" => aes' = C!Other
  BY <1>10 DEF GemAt
<1>12. SawText /\ op # "none" => SawText'
  BY <1>5 DEF SawText
<1>13. step = "wrote" => dir = C!Own /\ scrap'[C!Own] = scrap[C!Own]
  BY <1>8, <1>9, <1>10 DEF GemAt
<1>14. op # "none" /\ scrap[C!Own] \in saw => scrap'[C!Own] \in saw'
  BY <1>5, <1>7
<1>15. op # "none" /\ C!Stored \in saw \cup {scrap[C!Own]} => C!Stored' \in saw' \cup {scrap'[C!Own]}
  BY <1>2, <1>3, <1>5, <1>7
<1> QED BY <1>1, <1>2, <1>4, <1>5, <1>8, <1>9, <1>10, <1>11, <1>12, <1>13, <1>14, <1>15 DEF GemAt

(* What other programs do to the clipboard is seen by the call.            *)
LEMMA OthersStep ==
  ASSUME ClipInv,
         \/ \E t \in C!TheirTexts : C!OtherPuts(t) \/ C!OtherCopies(t)
         \/ C!OtherRegisters
  PROVE  Steps
<1>1. C!TheirTexts \subseteq Held
  BY DEF C!TheirTexts, Held, Strings
<1>2. ASSUME NEW t \in Held, C!OtherPuts(t) PROVE Steps
  <2>1. /\ board \in C!Gem /\ C!Move /\ C!Theirs /\ aes' = aes /\ clip' = clip /\ board' = board
        /\ \E d \in {C!Other, aes} \ {""} :
             C!OthersMay(d) /\ scrap' = [scrap EXCEPT ![d] = t]
    BY <1>2 DEF C!OtherPuts, C!Theirs, C!Watch
  <2>2. Machine'
    BY <2>1 DEF ClipInv, Typed, Machine
  <2>3. GemAt'
    BY <2>1, GemTheirs
  <2>4. AtStep'
    BY <2>1, <2>3 DEF AtStep, C!Gem
  <2> QED BY <2>1, <2>2, <2>4, TheirsStep
<1>3. ASSUME C!OtherRegisters PROVE Steps
  <2>1. /\ board \in C!Gem /\ C!Move /\ C!Theirs /\ aes' = C!Other
        /\ scrap' = scrap /\ clip' = clip /\ board' = board
    BY <1>3 DEF C!OtherRegisters, C!Theirs, C!Watch
  <2>2. Machine'
    BY <2>1 DEF ClipInv, Typed, Machine
  <2>3. GemAt'
    BY <2>1, GemTheirs
  <2>4. AtStep'
    BY <2>1, <2>3 DEF AtStep, C!Gem
  <2> QED BY <2>1, <2>2, <2>4, TheirsStep
<1>4. ASSUME NEW t \in Held, C!OtherCopies(t) PROVE Steps
  <2>1. /\ board \notin C!Gem /\ C!Move /\ C!Theirs /\ clip' = t
        /\ scrap' = scrap /\ aes' = aes /\ board' = board
        /\ UNCHANGED <<step, op, text, buf, trouble>>
        /\ saw' = IF op = "none" THEN {} ELSE saw \cup {C!Content'}
    BY <1>4 DEF C!OtherCopies, C!Theirs, C!Watch, C!gemVars
  <2>2. Machine'
    BY <2>1 DEF ClipInv, Typed, Machine
  <2>3. C!Stored' = C!Stored /\ (op = "none" <=> step = "idle")
    BY <2>1 DEF C!Stored, C!C!Stored, C!Backend, ClipInv, Inv
  <2>4. AtStep'
    BY <2>1, <2>3 DEF ClipInv, AtStep, AmigaAt, WinAt
  <2> QED BY <2>1, <2>2, <2>4, TheirsStep
<1> QED BY <1>1, <1>2, <1>3, <1>4

------------------------------------------------------------------------------
(* GEM: a set.                                                             *)

(* What the steps of a call on GEM's clipboard start from.                 *)
LEMMA GemFacts ==
  ASSUME ClipInv, board \in C!Gem
  PROVE  /\ GemAt /\ Typed /\ Machine /\ Inv /\ trouble \in BOOLEAN
         /\ op # "none" => C!Content \in saw
         /\ op \in {"none", "set", "get", "has"} /\ (op = "none" <=> step = "idle")
         /\ text \in Strings /\ C!Stored \in Strings
         /\ C!Content = IF aes # "" /\ scrap[aes] # NoText THEN scrap[aes] ELSE scrap[C!Own]
<1>1. text \in Strings
  BY TextString DEF ClipInv, CallTyped
<1>2. C!Stored \in Strings
  BY <1>1, StringStored DEF C!Stored
<1> QED BY <1>1, <1>2, ContentIs DEF ClipInv, AtStep, Typed, Machine, Inv, Quiet

(* GEM: the scrap is created, and the old text lost.                       *)
LEMMA GemCreateStep == ASSUME ClipInv, C!GemCreate PROVE Steps
<1>1. /\ board \in C!Gem /\ op = "set" /\ UNCHANGED <<aes, clip, board>> /\ C!Watch /\ board' = board
  BY DEF C!GemCreate, C!At, C!Watch
<1>2. Inv'
  BY GemKeeps DEF ClipInv
<1>3. <<>> \in Held
  BY TextString DEF Held
<1>4. CASE scrap' = [scrap EXCEPT ![C!Own] = <<>>] /\ C!Goto("write") /\ UNCHANGED <<dir, buf, trouble>>
  <2>1. Typed'
    BY <1>1, <1>3, <1>4 DEF ClipInv, Typed
  <2>2. AtStep'
    BY <1>1, <1>4, GemFacts DEF AtStep, GemAt, C!Goto, C!Gem
  <2> QED BY <1>1, <1>2, <1>4, <2>1, <2>2, GoesOn
<1>5. CASE UNCHANGED scrap /\ C!Fails
  <2>1. Machine'
    BY <1>1, <1>5, GemFacts DEF Machine
  <2> QED BY <1>1, <1>2, <1>5, <2>1, FailsStep
<1> QED BY <1>4, <1>5 DEF C!GemCreate

(* A scrap that is not whole yet.                                          *)
LEMMA GemWriteStep == ASSUME ClipInv, C!GemWrite PROVE Steps
<1>1. /\ board \in C!Gem /\ op = "set" /\ step = "write" /\ C!Watch /\ C!Goto("wrote")
      /\ UNCHANGED <<aes, clip, dir, held, board>>
  BY DEF C!GemWrite, C!At, C!Watch
<1>2. PICK n, m \in 0 .. Len(C!Stored) :
        /\ m <= n /\ (board = "gem4xe" => m = n)
        /\ buf' = C!C!Kept(C!Stored, n)
        /\ scrap' = [scrap EXCEPT ![C!Own] = C!C!Kept(C!Stored, m)]
        /\ trouble' = (trouble \/ n < Len(C!Stored))
  BY DEF C!GemWrite
<1>3. Inv'
  BY GemKeeps DEF ClipInv
<1> DEFINE s == C!Stored
<1>4. s \in Strings /\ Len(s) \in Nat /\ n \in Nat /\ m \in Nat
  <2>1. s \in Strings
    BY <1>1, GemFacts
  <2>2. Len(s) \in Nat
    BY <2>1, StringSeq, ClipboardAssumption
  <2> QED BY <2>1, <2>2
<1>5. C!C!Kept(s, n) \in Strings /\ C!C!Kept(s, m) \in Strings
  BY <1>4, StringKept
<1>6. n = Len(s) => C!C!Kept(s, n) = s
  BY <1>4, KeptTwice
<1>7. C!Stored' = s
  BY <1>1 DEF C!Stored, C!C!Stored, C!Backend, C!Goto
<1>8. C!C!Kept(s, n) # NoText /\ C!C!Kept(s, m) # NoText
  BY <1>5, StringSeq
<1>9. /\ trouble \in BOOLEAN /\ GemAt /\ Typed
      /\ scrap \in [{C!Own, C!Other} -> Held]
  BY <1>1, GemFacts DEF Machine
<1>10. buf' = C!C!Kept(s, n) /\ scrap'[C!Own] = C!C!Kept(s, m)
  BY <1>2, <1>9
<1>11. trouble' \in {trouble, TRUE} /\ (n # Len(s) => trouble')
  <2> DEFINE short == n < Len(s)
  <2>1. n # Len(s) => short
    BY <1>4
  <2>2. trouble' = (trouble \/ short)
    BY <1>2
  <2> HIDE DEF short
  <2> QED BY <2>1, <2>2, <1>9, Zenon
<1> HIDE DEF s
<1>12. Typed'
  BY <1>1, <1>2, <1>5, <1>9, <1>11 DEF Typed, Held, s
<1>13. step' = "wrote" /\ op' = "set" /\ dir' = C!Own /\ board' = board
  BY <1>1, <1>9 DEF C!Goto, GemAt
<1>14. GemAt'
  BY <1>2, <1>6, <1>7, <1>8, <1>10, <1>11, <1>13 DEF GemAt, s
<1>15. AtStep'
  BY <1>1, <1>13, <1>14 DEF AtStep, C!Gem
<1> QED BY <1>1, <1>3, <1>11, <1>12, <1>15, GoesOn

(* GEM: the text was written, whole or not.                                *)
LEMMA GemWroteStep == ASSUME ClipInv, C!GemWrote PROVE Steps
<1>1. /\ board \in C!Gem /\ op = "set" /\ step = "wrote" /\ C!Watch
      /\ UNCHANGED <<aes, clip, board>>
  BY DEF C!GemWrote, C!At, C!Watch
<1>2. PICK m \in Len(scrap[C!Own]) .. Len(buf) :
        /\ scrap' = [scrap EXCEPT ![C!Own] = C!C!Kept(buf, m)]
        /\ trouble' = (trouble \/ m < Len(buf))
  BY DEF C!GemWrote
<1>3. Inv'
  BY GemKeeps DEF ClipInv
<1>4. /\ trouble \in BOOLEAN /\ GemAt /\ Typed /\ Machine
      /\ scrap \in [{C!Own, C!Other} -> Held] /\ buf \in Held
  BY <1>1, GemFacts DEF Machine, Typed
<1>5. /\ buf \in Strings /\ scrap[C!Own] \in Strings /\ (buf # C!Stored => trouble)
      /\ board = "gem4xe" => scrap[C!Own] = buf
  BY <1>1, <1>4 DEF GemAt, Held
<1>6. Len(buf) \in Nat /\ m \in Nat /\ m <= Len(buf) /\ (board = "gem4xe" => m = Len(buf))
  <2>1. Len(buf) \in Nat /\ Len(scrap[C!Own]) \in Nat
    BY <1>5, StringSeq
  <2> QED BY <2>1, <1>2, <1>5
<1>7. C!C!Kept(buf, m) \in Strings /\ (m = Len(buf) => C!C!Kept(buf, m) = buf)
  BY <1>5, <1>6, StringKept, KeptTwice
<1>8. trouble' \in {trouble, TRUE} /\ (m # Len(buf) => trouble')
  <2> DEFINE short == m < Len(buf)
  <2>1. m # Len(buf) => short
    BY <1>6
  <2>2. trouble' = (trouble \/ short)
    BY <1>2
  <2> HIDE DEF short
  <2> QED BY <2>1, <2>2, <1>4, Zenon
<1>9. Machine'
  BY <1>1, <1>2, <1>4, <1>7 DEF Machine, Held
<1>10. CASE buf = C!Stored /\ C!Goto("register") /\ UNCHANGED <<dir, buf>>
  <2>1. Typed'
    BY <1>1, <1>4, <1>8, <1>9, <1>10 DEF Typed, Machine
  <2>2. C!Stored' = C!Stored
    BY <1>1, <1>10 DEF C!Stored, C!C!Stored, C!Backend, C!Goto
  <2>3. scrap'[C!Own] = C!C!Kept(buf, m)
    BY <1>2, <1>4
  <2>4. m = Len(buf) => C!Stored' = scrap'[C!Own]
    BY <1>7, <1>10, <2>2, <2>3
  <2>5. m # Len(buf) => board = "atari" /\ trouble'
    BY <1>1, <1>6, <1>8 DEF C!Gem
  <2>6. step' = "register" /\ op' = "set" /\ dir' = C!Own /\ board' = board
    BY <1>1, <1>4, <1>10 DEF C!Goto, GemAt
  <2>7. AtStep'
    BY <1>1, <2>4, <2>5, <2>6 DEF AtStep, GemAt, C!Gem
  <2> QED BY <1>1, <1>3, <1>8, <1>10, <2>1, <2>7, GoesOn
<1>11. CASE buf # C!Stored /\ C!Return("ERR", <<>>)
  <2>1. trouble /\ trouble' /\ trouble' = TRUE
    BY <1>2, <1>5, <1>8, <1>11
  <2>2. ClipInv'
    BY <1>1, <1>3, <1>9, <1>11, <2>1, ReturnKeeps, TextString DEF Answers
  <2>3. C!C!Next
    BY <1>1, <1>11, <2>1, SeamSet
  <2> QED BY <2>2, <2>3 DEF Steps
<1> QED BY <1>10, <1>11 DEF C!GemWrote

(* GEM: the directory is registered, and the call returns.                 *)
LEMMA GemRegisterStep == ASSUME ClipInv, C!GemRegister PROVE Steps
<1>1. /\ board \in C!Gem /\ op = "set" /\ step = "register" /\ C!Watch /\ C!Return("OK", <<>>)
      /\ aes' = C!Own /\ UNCHANGED <<scrap, clip, held, trouble, board>>
  BY DEF C!GemRegister, C!At, C!Watch
<1>2. Inv'
  BY GemKeeps DEF ClipInv
<1>3. GemAt /\ Machine /\ trouble \in BOOLEAN
  BY <1>1, GemFacts
<1>4. Machine'
  BY <1>1, <1>3 DEF Machine
<1>5. C!Content' = scrap[C!Own]
  <2>1. C!Content' = IF board' \notin C!Gem THEN clip'
                     ELSE IF aes' # "" /\ scrap'[aes'] # NoText THEN scrap'[aes']
                     ELSE scrap'[C!Own]
    BY DEF C!Content
  <2> QED BY <2>1, <1>1
<1>6. C!Stored \in saw \cup {C!Content'} \/ (board \in {"atari", "amiga"} /\ trouble')
  BY <1>1, <1>3, <1>5 DEF GemAt
<1>7. ClipInv'
  BY <1>1, <1>2, <1>3, <1>4, ReturnKeeps, TextString DEF Answers
<1>8. C!C!Next
  BY <1>1, <1>6, SeamSet
<1> QED BY <1>7, <1>8 DEF Steps

------------------------------------------------------------------------------
(* GEM: get and has.                                                       *)

(* A scrap that can be found is, or hides, what the clipboard holds.       *)
LEMMA ScrapSeen ==
  ASSUME ClipInv, board \in C!Gem, op # "none", NEW d \in {C!Own, aes} \ {""}, scrap[d] # NoText
  PROVE  SawText
<1>1. C!Content \in saw /\ C!Content # NoText
  BY GemFacts
<1> QED BY <1>1 DEF SawText

(* GEM: whose directory is registered.                                     *)
LEMMA GemAskStep == ASSUME ClipInv, C!GemAsk PROVE Steps
<1>1. /\ board \in C!Gem /\ op \in {"get", "has"} /\ C!Watch /\ C!Goto("open")
      /\ dir' = (IF aes = "" \/ (board = "atari" /\ op = "has") THEN C!Own ELSE aes)
      /\ UNCHANGED <<scrap, aes, clip, buf, held, trouble, board>>
  BY DEF C!GemAsk, C!At, C!Watch, C!gemVars
<1>2. Inv'
  BY GemKeeps DEF ClipInv
<1>3. C!Content' = C!Content
  BY <1>1 DEF C!Content
<1>4. /\ GemAt /\ Typed /\ C!Content \in saw /\ trouble \in BOOLEAN
      /\ C!Content = IF aes # "" /\ scrap[aes] # NoText THEN scrap[aes] ELSE scrap[C!Own]
  BY <1>1, GemFacts
<1>5. aes \in {"", C!Own, C!Other}
  BY <1>4 DEF Typed
<1>6. Typed'
  BY <1>1, <1>4, <1>5 DEF Typed
<1>7. saw' = saw \cup {C!Content} /\ step' = "open" /\ op' = op /\ board' = board
  BY <1>1, <1>3 DEF C!Watch, C!Goto
<1>8. dir' = C!Own => scrap[C!Own] \in saw \/ (board = "atari" /\ op = "has")
  BY <1>1, <1>4 DEF C!Own
<1>9. dir' # C!Own => aes = C!Other
  BY <1>1, <1>5 DEF C!Own
<1>10. AtStep'
  BY <1>1, <1>7, <1>8, <1>9 DEF AtStep, GemAt, C!Gem
<1> QED BY <1>1, <1>2, <1>3, <1>4, <1>6, <1>10, GoesOn

(* The scrap in directory d opens.                                         *)
LEMMA OpensStep ==
  ASSUME ClipInv, Inv', board \in C!Gem, op \in {"get", "has"},
         NEW d \in {C!Own, aes} \ {""}, C!Opens(d), C!Watch,
         UNCHANGED <<scrap, aes, clip>>, op = "get" => trouble \/ scrap[d] \in saw
  PROVE  Steps
<1>1. /\ scrap[d] # NoText /\ dir' = d /\ C!Goto(IF op = "get" THEN "read" ELSE "close")
      /\ UNCHANGED <<buf, trouble, board>>
  BY DEF C!Opens, C!Watch
<1>2. C!Content' = C!Content
  BY <1>1 DEF C!Content
<1>3. GemAt /\ Typed /\ C!Content \in saw /\ trouble \in BOOLEAN
  BY GemFacts
<1>4. Typed'
  BY <1>1, <1>3 DEF Typed, C!Own, C!Other
<1>5. saw' = saw \cup {C!Content} /\ op' = op /\ step' = IF op = "get" THEN "read" ELSE "close"
  BY <1>1, <1>2 DEF C!Watch, C!Goto
<1>6. SawText'
  BY <1>1, <1>5, ScrapSeen DEF SawText
<1>7. AtStep'
  BY <1>1, <1>5, <1>6 DEF AtStep, GemAt, C!Gem
<1> QED BY <1>1, <1>2, <1>3, <1>4, <1>7, GoesOn

(* GEM: the registered scrap is opened.                                    *)
LEMMA GemOpenStep == ASSUME ClipInv, C!GemOpen PROVE Steps
<1>1. /\ board \in C!Gem /\ op \in {"get", "has"} /\ step = "open" /\ C!Watch
      /\ UNCHANGED <<scrap, aes, clip, board>>
  BY DEF C!GemOpen, C!At, C!Watch, C!gemVars
<1>2. Inv'
  BY GemKeeps DEF ClipInv
<1>3. C!Content' = C!Content
  BY <1>1 DEF C!Content
<1>4. /\ GemAt /\ Typed /\ Machine /\ C!Content \in saw /\ trouble \in BOOLEAN
      /\ C!Content = IF aes # "" /\ scrap[aes] # NoText THEN scrap[aes] ELSE scrap[C!Own]
  BY <1>1, GemFacts
<1>5. Machine'
  BY <1>1, <1>4 DEF Machine
<1>6. /\ dir \in {C!Own, aes} \ {""}
      /\ dir = C!Own => scrap[C!Own] \in saw \/ (board = "atari" /\ op = "has")
      /\ dir # C!Own => dir = C!Other /\ aes = C!Other
  BY <1>1, <1>4 DEF GemAt, Typed, C!Own, C!Other
<1>7. CASE C!Opens(dir)
  <2>1. op = "get" => scrap[dir] \in saw
    BY <1>4, <1>6, <1>7 DEF C!Opens, C!Own, C!Other
  <2> QED BY <1>1, <1>2, <1>6, <1>7, <2>1, OpensStep
<1>8. CASE /\ board = "atari" /\ op = "has" /\ C!Return("FALSE", <<>>)
           /\ trouble' = (trouble \/ scrap[dir] # NoText)
  <2>1. trouble' \in {trouble, TRUE} /\ trouble' \in BOOLEAN
    BY <1>4, <1>8
  <2>2. ClipInv'
    BY <1>1, <1>2, <1>5, <1>8, <2>1, ReturnKeeps, TextString DEF Answers
  <2>3. C!C!Next
    BY <1>1, <1>3, <1>8, <2>1, SeamHas
  <2> QED BY <2>2, <2>3 DEF Steps
<1>9. CASE /\ ~ (board = "atari" /\ op = "has") /\ C!Goto("again") /\ UNCHANGED <<dir, buf>>
           /\ trouble' = (trouble \/ scrap[dir] # NoText)
  <2>1. trouble' \in {trouble, TRUE} /\ trouble' \in BOOLEAN
    BY <1>4, <1>9
  <2>2. Typed'
    BY <1>1, <1>4, <1>9, <2>1 DEF Typed
  <2>3. trouble' \/ scrap[C!Own] \in saw
    BY <1>4, <1>6, <1>9 DEF C!Other
  <2>4. saw' = saw \cup {C!Content} /\ step' = "again" /\ op' = op
    BY <1>1, <1>3, <1>9 DEF C!Watch, C!Goto
  <2>5. AtStep'
    BY <1>1, <2>3, <2>4 DEF AtStep, GemAt, C!Gem
  <2> QED BY <1>1, <1>2, <1>3, <1>9, <2>1, <2>2, <2>5, GoesOn
<1> QED BY <1>7, <1>8, <1>9 DEF C!GemOpen

(* GEM: the program's own scrap is opened instead.                         *)
LEMMA GemOpenOwnStep == ASSUME ClipInv, C!GemOpenOwn PROVE Steps
<1>1. /\ board \in C!Gem /\ op \in {"get", "has"} /\ step = "again" /\ C!Watch
      /\ UNCHANGED <<scrap, aes, clip, board>>
  BY DEF C!GemOpenOwn, C!At, C!Watch, C!gemVars
<1>2. Inv'
  BY GemKeeps DEF ClipInv
<1>3. C!Content' = C!Content
  BY <1>1 DEF C!Content
<1>4. /\ GemAt /\ Typed /\ Machine /\ C!Content \in saw /\ trouble \in BOOLEAN
  BY <1>1, GemFacts
<1>5. Machine'
  BY <1>1, <1>4 DEF Machine
<1>6. trouble \/ scrap[C!Own] \in saw
  BY <1>1, <1>4 DEF GemAt
<1>7. CASE C!Opens(C!Own)
  <2>1. C!Own \in {C!Own, aes} \ {""}
    BY DEF C!Own
  <2> QED BY <1>1, <1>2, <1>6, <1>7, <2>1, OpensStep
<1>8. CASE /\ trouble' = (trouble \/ scrap[C!Own] # NoText)
           /\ C!Return(IF op = "has" THEN "FALSE" ELSE "ERR", <<>>)
  <2>1. trouble' \in {trouble, TRUE} /\ trouble' \in BOOLEAN /\ (trouble' \/ NoText \in saw)
    BY <1>4, <1>6, <1>8
  <2>2. (IF op = "has" THEN "FALSE" ELSE "ERR") \in Answers
    BY DEF Answers
  <2>3. ClipInv'
    BY <1>1, <1>2, <1>5, <1>8, <2>1, <2>2, ReturnKeeps, TextString
  <2>4. CASE op = "has"
    BY <1>1, <1>3, <1>8, <2>1, <2>3, <2>4, SeamHas DEF Steps
  <2>5. CASE op = "get"
    BY <1>1, <1>3, <1>8, <2>1, <2>3, <2>5, SeamGet DEF Steps
  <2> QED BY <1>1, <2>4, <2>5
<1> QED BY <1>7, <1>8 DEF C!GemOpenOwn

(* GEM: the text is read, as far as it fits.                               *)
LEMMA GemReadStep == ASSUME ClipInv, C!GemRead PROVE Steps
<1>1. /\ board \in C!Gem /\ op = "get" /\ step = "read" /\ C!Watch /\ C!Goto("close")
      /\ UNCHANGED <<scrap, aes, clip, dir, held, board>>
  BY DEF C!GemRead, C!At, C!Watch, C!gemVars
<1>2. Inv'
  BY GemKeeps DEF ClipInv
<1>3. C!Content' = C!Content
  BY <1>1 DEF C!Content
<1>4. /\ GemAt /\ Typed /\ Machine /\ C!Content \in saw /\ trouble \in BOOLEAN
  BY <1>1, GemFacts
<1>5. SawText /\ scrap[dir] # NoText /\ (trouble \/ scrap[dir] \in saw) /\ scrap[dir] \in Strings
  BY <1>1, <1>4 DEF GemAt, Typed, Held
<1>6. /\ trouble' \in {trouble, TRUE} /\ trouble' \in BOOLEAN /\ buf' \in Held
      /\ trouble' \/ buf' = C!C!Kept(scrap[dir], BUFFER)
  <2>1. C!C!Kept(scrap[dir], BUFFER) \in Held
    BY <1>5, StringKept, ClipboardAssumption DEF Held
  <2>2. \A n \in 0 .. BUFFER : C!C!Kept(scrap[dir], n) \in Held
    BY <1>5, StringKept, ClipboardAssumption DEF Held
  <2>3. NoText \in Held
    BY DEF Held
  <2>4. \/ buf' = C!C!Kept(scrap[dir], BUFFER) /\ trouble' = trouble
        \/ trouble' = TRUE /\ buf' = NoText
        \/ trouble' = TRUE /\ \E n \in 0 .. BUFFER : buf' = C!C!Kept(scrap[dir], n)
    BY DEF C!GemRead
  <2> QED BY <1>4, <2>1, <2>2, <2>3, <2>4
<1>7. Typed'
  BY <1>1, <1>4, <1>6 DEF Typed
<1>8. saw' = saw \cup {C!Content} /\ step' = "close" /\ op' = op
  BY <1>1, <1>3 DEF C!Watch, C!Goto
<1>9. SawText'
  BY <1>5, <1>8 DEF SawText
<1>10. trouble' \/ \E t \in saw' \ {NoText} : buf' = C!C!Kept(t, BUFFER)
  <2>1. trouble => trouble'
    BY <1>4, <1>6
  <2>2. scrap[dir] \in saw' \ {NoText} \/ trouble
    BY <1>5, <1>8
  <2> QED BY <2>1, <2>2, <1>6
<1>11. AtStep'
  BY <1>1, <1>8, <1>9, <1>10 DEF AtStep, GemAt, C!Gem
<1> QED BY <1>1, <1>2, <1>3, <1>6, <1>7, <1>11, GoesOn

(* GEM: the scrap is closed, and the call returns.                         *)
LEMMA GemCloseStep == ASSUME ClipInv, C!GemClose PROVE Steps
<1>1. /\ board \in C!Gem /\ op \in {"get", "has"} /\ step = "close" /\ C!Watch
      /\ UNCHANGED <<scrap, aes, clip, trouble, board>>
  BY DEF C!GemClose, C!At, C!Watch, C!gemVars
<1>2. Inv'
  BY GemKeeps DEF ClipInv
<1>3. C!Content' = C!Content
  BY <1>1 DEF C!Content
<1>4. /\ GemAt /\ Typed /\ Machine /\ trouble \in BOOLEAN /\ buf \in Held /\ saw \subseteq Held
      /\ room \in Nat
  <2>1. room \in Nat
    BY ClipboardAssumption DEF ClipInv, CallTyped
  <2> QED BY <1>1, <2>1, GemFacts DEF Typed, ClipInv, CallTyped
<1>5. Machine'
  BY <1>1, <1>4 DEF Machine
<1>6. SawText /\ (op = "get" => trouble \/ \E t \in saw \ {NoText} : buf = C!C!Kept(t, BUFFER))
  BY <1>1, <1>4 DEF GemAt
<1>7. CASE op = "has" /\ C!Return("TRUE", <<>>)
  <2>1. ClipInv'
    BY <1>1, <1>2, <1>4, <1>5, <1>7, ReturnKeeps, TextString DEF Answers
  <2>2. saw # {NoText}
    BY <1>6 DEF SawText
  <2>3. C!C!Next
    BY <1>1, <1>3, <1>7, <2>2, SeamHas
  <2> QED BY <2>1, <2>3 DEF Steps
<1>8. \A t \in saw \ {NoText} : t \in Strings /\ C!C!Kept(t, BUFFER) # NoText
  BY <1>4, StringKept, StringSeq, ClipboardAssumption DEF Held
<1>9. CASE op = "get" /\ buf = NoText /\ C!Return("ERR", <<>>)
  <2>1. trouble
    BY <1>6, <1>8, <1>9
  <2>2. ClipInv'
    BY <1>1, <1>2, <1>4, <1>5, <1>9, ReturnKeeps, TextString DEF Answers
  <2>3. C!C!Next
    BY <1>1, <1>3, <1>9, <2>1, SeamGet
  <2> QED BY <2>2, <2>3 DEF Steps
<1>10. CASE op = "get" /\ buf # NoText /\ C!Return("OK", C!C!Found(buf, room))
  <2> DEFINE g == C!C!Found(buf, room)
  <2>1. g \in Strings /\ Len(g) <= room
    BY <1>4, <1>10, StringStored DEF Held
  <2>2. \E t \in saw \ {NoText} : g = C!C!Found(t, room) \/ (board \in C!Gem /\ trouble' /\ Len(g) <= room)
    <3>1. CASE trouble
      BY <1>1, <1>6, <2>1, <3>1 DEF SawText
    <3>2. ASSUME NEW t \in saw \ {NoText}, buf = C!C!Kept(t, BUFFER)
          PROVE  g = C!C!Found(t, room)
      <4>1. t \in Strings /\ board \notin {"win32", "private"}
        BY <1>1, <1>8 DEF C!Gem
      <4> QED BY <1>4, <3>2, <4>1, FoundOnce
    <3> QED BY <1>6, <1>10, <3>1, <3>2
  <2>3. ClipInv'
    BY <1>1, <1>2, <1>4, <1>5, <1>10, <2>1, ReturnKeeps DEF Answers
  <2>4. C!C!Next
    BY <1>1, <1>3, <1>10, <2>2, SeamGet
  <2> QED BY <2>3, <2>4 DEF Steps
<1> QED BY <1>1, <1>7, <1>9, <1>10 DEF C!GemClose

------------------------------------------------------------------------------
(* The other machines have one clipboard.                                  *)

(* What is known of a call on one of them.                                 *)
LEMMA OneFacts ==
  ASSUME ClipInv, board \notin C!Gem, op # "none"
  PROVE  /\ Typed /\ Machine /\ Inv /\ trouble \in BOOLEAN /\ AtStep
         /\ op \in {"set", "get", "has"} /\ C!Content = clip /\ clip \in saw
         /\ saw \subseteq Held /\ text \in Strings /\ C!Stored \in Strings /\ room \in Nat
<1>1. text \in Strings /\ C!Stored \in Strings
  BY TextString, StringStored DEF ClipInv, CallTyped, C!Stored
<1>2. C!Content = clip
  BY ContentIs
<1>3. room \in Nat
  BY ClipboardAssumption DEF ClipInv, CallTyped
<1> QED BY <1>1, <1>2, <1>3 DEF ClipInv, Typed, Machine, Inv, CallTyped, Quiet

(* A step that leaves the clipboard alone, or puts text t there.           *)
LEMMA OneGoesOn ==
  ASSUME ClipInv, Inv', board \notin C!Gem, op # "none", NEW l, C!Goto(l), C!Watch,
         UNCHANGED <<scrap, aes, dir>>, clip' \in Held, buf' \in Held, AtStep',
         trouble' \in {trouble, TRUE}, op = "set" \/ clip' = clip
  PROVE  Steps
<1>1. board' = board
  BY DEF C!Watch
<1>2. trouble' \in BOOLEAN /\ C!Content = clip /\ C!Content' = clip' /\ Typed
  BY <1>1, OneFacts DEF C!Content
<1>3. Typed'
  BY <1>1, <1>2 DEF Typed
<1> QED BY <1>2, <1>3, GoesOn

(* The other backends: a call that fails, and says so.                     *)
LEMMA OneFails ==
  ASSUME ClipInv, Inv', board \notin C!Gem, op # "none", C!Fails, C!Watch,
         UNCHANGED <<scrap, aes, clip>>
  PROVE  Steps
<1>1. board' = board
  BY DEF C!Watch
<1>2. Machine' /\ C!Content' = C!Content
  BY <1>1, OneFacts DEF Machine, C!Content
<1> QED BY <1>2, FailsStep

(* What the call returns.                                                  *)
LEMMA OneReturns ==
  ASSUME ClipInv, Inv', board \notin C!Gem, op # "none", NEW s \in Answers, NEW g \in Strings,
         C!Return(s, g), C!Watch, UNCHANGED <<scrap, aes>>, clip' \in Held,
         trouble' \in {trouble, TRUE},
         \/ /\ op = "set" /\ g = <<>>
            /\ \/ /\ s = "OK"
                  /\ C!Stored \in saw \cup {clip'} \/ (board = "amiga" /\ trouble')
               \/ s \in {"ERR", "NOMEM"} /\ trouble'
               \/ s = "RANGE" /\ Len(text) > C!Backend.buffer /\ UNCHANGED clip
         \/ /\ op = "get" /\ UNCHANGED clip
            /\ \/ s = "OK" /\ \E t \in saw \ {NoText} : g = C!C!Found(t, room)
               \/ s = "ERR" /\ g = <<>> /\ (trouble' \/ NoText \in saw)
               \/ s = "RANGE" /\ g = <<>> /\ \E t \in saw \ {NoText} : Len(t) >= room
         \/ /\ op = "has" /\ g = <<>> /\ UNCHANGED clip
            /\ \/ s = "TRUE" /\ saw # {NoText}
               \/ s = "FALSE" /\ (trouble' \/ NoText \in saw)
  PROVE  Steps
<1>1. board' = board
  BY DEF C!Watch
<1>2. trouble' \in BOOLEAN /\ C!Content = clip /\ C!Content' = clip' /\ Machine
  BY <1>1, OneFacts DEF C!Content
<1>3. Machine'
  BY <1>2 DEF Machine
<1>4. ClipInv'
  BY <1>2, <1>3, ReturnKeeps
<1>5. CASE op = "set"
  <2>1. C!C!Next
    BY <1>2, <1>5, SeamSet
  <2> QED BY <1>4, <2>1 DEF Steps
<1>6. CASE op = "get"
  <2>1. C!C!Next
    BY <1>2, <1>6, SeamGet
  <2> QED BY <1>4, <2>1 DEF Steps
<1>7. CASE op = "has"
  <2>1. C!C!Next
    BY <1>2, <1>7, SeamHas
  <2> QED BY <1>4, <2>1 DEF Steps
<1>8. op \in {"set", "get", "has"}
  BY OneFacts
<1> QED BY <1>5, <1>6, <1>7, <1>8

------------------------------------------------------------------------------
(* Macintosh.                                                              *)
LEMMA MacStep ==
  ASSUME ClipInv, C!MacZero \/ C!MacPut \/ C!MacHandle \/ C!MacScrap
  PROVE  Steps
<1>1. /\ board = "mac" /\ board \notin C!Gem /\ op \in {"set", "get", "has"} /\ C!Watch
      /\ UNCHANGED <<scrap, aes, board>>
  BY DEF C!MacZero, C!MacPut, C!MacHandle, C!MacScrap, C!At, C!Watch, C!gemVars, C!Gem
<1>2. Inv'
  BY MacKeeps DEF ClipInv
<1>3. /\ Typed /\ trouble \in BOOLEAN /\ clip \in saw /\ saw \subseteq Held /\ clip \in Held
      /\ buf \in Held /\ C!Stored \in Strings /\ NoText \in Held /\ room \in Nat
  BY <1>1, OneFacts DEF Typed, Held
<1>4. AtStep'
  BY <1>1 DEF AtStep, C!Gem
<1>5. ASSUME C!Fails, UNCHANGED clip PROVE Steps
  BY <1>1, <1>2, <1>5, OneFails
<1>6. CASE C!MacZero
  <2>1. CASE clip' = NoText /\ C!Goto("put") /\ UNCHANGED <<dir, buf, trouble>>
    BY <1>1, <1>2, <1>3, <1>4, <1>6, <2>1, OneGoesOn DEF C!MacZero, C!At
  <2> QED BY <1>5, <1>6, <2>1 DEF C!MacZero
<1>7. CASE C!MacPut
  <2>1. CASE clip' = C!Stored /\ C!Return("OK", <<>>) /\ UNCHANGED trouble
    <3>1. op = "set" /\ clip' \in Held /\ <<>> \in Strings /\ "OK" \in Answers
      BY <1>3, <1>7, <2>1, TextString DEF C!MacPut, C!At, Held, Answers
    <3> QED BY <1>1, <1>2, <2>1, <3>1, OneReturns
  <2> QED BY <1>5, <1>7, <2>1 DEF C!MacPut
<1>8. CASE C!MacHandle
  <2>1. CASE C!Goto("scrap") /\ UNCHANGED <<dir, buf, trouble>>
    BY <1>1, <1>2, <1>3, <1>4, <1>8, <2>1, OneGoesOn DEF C!MacHandle
  <2> QED BY <1>5, <1>8, <2>1 DEF C!MacHandle
<1>9. CASE C!MacScrap
  <2>1. op \in {"get", "has"} /\ UNCHANGED clip /\ <<>> \in Strings
    BY <1>9, TextString DEF C!MacScrap, C!At
  <2>2. CASE /\ clip # NoText /\ UNCHANGED trouble
             /\ IF op = "has" THEN C!Return("TRUE", <<>>) ELSE C!Return("OK", C!C!Found(clip, room))
    <3>1. clip \in Strings /\ C!C!Found(clip, room) \in Strings /\ clip \in saw \ {NoText}
      BY <1>3, <2>2, StringStored DEF Held
    <3>2. CASE op = "has"
      <4>1. C!Return("TRUE", <<>>) /\ saw # {NoText} /\ "TRUE" \in Answers /\ clip' \in Held
        BY <1>3, <2>1, <2>2, <3>1, <3>2 DEF Answers
      <4> QED BY <1>1, <1>2, <2>1, <2>2, <3>2, <4>1, OneReturns
    <3>3. CASE op = "get"
      <4>1. /\ C!Return("OK", C!C!Found(clip, room)) /\ "OK" \in Answers /\ clip' \in Held
            /\ \E t \in saw \ {NoText} : C!C!Found(clip, room) = C!C!Found(t, room)
        BY <1>3, <2>1, <2>2, <3>1, <3>3 DEF Answers
      <4> QED BY <1>1, <1>2, <2>1, <2>2, <3>1, <3>3, <4>1, OneReturns
    <3> QED BY <2>1, <3>2, <3>3
  <2>3. CASE /\ trouble' = (trouble \/ clip # NoText)
             /\ C!Return(IF op = "has" THEN "FALSE" ELSE "ERR", <<>>)
    <3> DEFINE s == IF op = "has" THEN "FALSE" ELSE "ERR"
    <3>1. /\ trouble' \in {trouble, TRUE} /\ (trouble' \/ NoText \in saw)
      BY <1>3, <2>3
    <3>2. s \in Answers /\ clip' \in Held
      BY <1>3, <2>1 DEF Answers
    <3>3. \/ op = "get" /\ s = "ERR"
          \/ op = "has" /\ s = "FALSE"
      BY <2>1
    <3> HIDE DEF s
    <3>4. C!Return(s, <<>>)
      BY <2>3 DEF s
    <3> QED BY <1>1, <1>2, <2>1, <3>1, <3>2, <3>3, <3>4, OneReturns
  <2> QED BY <1>9, <2>2, <2>3 DEF C!MacScrap
<1> QED BY <1>6, <1>7, <1>8, <1>9

------------------------------------------------------------------------------
(* Amiga.                                                                  *)

(* What is known of a call there.                                          *)
LEMMA AmigaFacts ==
  ASSUME ClipInv, board = "amiga", op # "none"
  PROVE  /\ board \notin C!Gem /\ AmigaAt /\ Typed /\ trouble \in BOOLEAN
         /\ C!Content = clip /\ clip \in saw /\ saw \subseteq Held /\ clip \in Held
         /\ buf \in Held /\ C!Stored \in Strings /\ NoText \in Held /\ room \in Nat
         /\ C!Stored # NoText
<1>1. board \notin C!Gem
  BY DEF C!Gem
<1> QED BY <1>1, OneFacts, StringSeq DEF Typed, Held, AtStep

(* A call on its way.                                                      *)
LEMMA AmigaGoesOn ==
  ASSUME ClipInv, Inv', board = "amiga", op # "none", NEW l, C!Goto(l), C!Watch,
         UNCHANGED <<scrap, aes, dir>>, clip' \in Held, buf' \in Held,
         trouble' \in {trouble, TRUE}, op = "set" \/ clip' = clip,
         AmigaAt'
  PROVE  Steps
<1>1. board' = "amiga" /\ board \notin C!Gem
  BY DEF C!Watch, C!Gem
<1>2. AtStep'
  BY <1>1 DEF AtStep, C!Gem
<1> QED BY <1>1, <1>2, OneGoesOn

(* The Amiga: the handles are taken, one after the other.                  *)
LEMMA AmigaOpens ==
  ASSUME ClipInv, C!AmigaAlloc \/ C!AmigaDevice \/ C!AmigaStream
  PROVE  Steps
<1>1. /\ board = "amiga" /\ op \in {"set", "get", "has"} /\ C!Watch
      /\ UNCHANGED <<scrap, aes, clip, board>>
      /\ step \in {"start", "device", "stream"}
  BY DEF C!AmigaAlloc, C!AmigaDevice, C!AmigaStream, C!At, C!Watch, C!gemVars
<1>2. Inv'
  BY AmigaKeeps DEF ClipInv
<1>3. /\ board \notin C!Gem /\ AmigaAt /\ trouble \in BOOLEAN /\ clip \in Held /\ buf \in Held
  BY <1>1, AmigaFacts
<1>4. buf = NoText
  BY <1>1, <1>3 DEF AmigaAt
<1>5. CASE C!Fails
  BY <1>1, <1>2, <1>3, <1>5, OneFails
<1>6. ASSUME NEW l \in {"device", "stream", "write", "scan"}, C!Goto(l),
             UNCHANGED <<dir, buf, trouble>>
      PROVE Steps
  <2>1. step' = l
    BY <1>6 DEF C!Goto
  <2>2. AmigaAt'
    BY <1>4, <1>6, <2>1 DEF AmigaAt
  <2> QED BY <1>1, <1>2, <1>3, <1>6, <2>2, AmigaGoesOn
<1>7. CASE C!Goto("release") /\ trouble' = TRUE /\ UNCHANGED <<dir, buf>>
  <2>1. step' = "release"
    BY <1>7 DEF C!Goto
  <2>2. AmigaAt'
    BY <1>4, <1>7, <2>1 DEF AmigaAt
  <2> QED BY <1>1, <1>2, <1>3, <1>7, <2>2, AmigaGoesOn
<1>8. CASE C!AmigaAlloc
  BY <1>5, <1>6, <1>8 DEF C!AmigaAlloc
<1>9. CASE C!AmigaDevice
  BY <1>5, <1>6, <1>9 DEF C!AmigaDevice
<1>10. CASE C!AmigaStream
  BY <1>6, <1>7, <1>10 DEF C!AmigaStream
<1> QED BY <1>8, <1>9, <1>10

(* The Amiga: the text is written and committed.                           *)
LEMMA AmigaSets ==
  ASSUME ClipInv, C!AmigaWrite \/ C!AmigaCommit
  PROVE  Steps
<1>1. /\ board = "amiga" /\ op = "set" /\ C!Watch
      /\ UNCHANGED <<scrap, aes, dir, board>>
  BY DEF C!AmigaWrite, C!AmigaCommit, C!At, C!Watch, C!gemVars
<1>2. Inv'
  BY AmigaKeeps DEF ClipInv
<1>3. /\ board \notin C!Gem /\ AmigaAt /\ trouble \in BOOLEAN /\ clip \in Held /\ buf \in Held
      /\ C!Stored \in Strings /\ C!Stored \in Held /\ NoText \in Held /\ C!Stored # NoText
  BY <1>1, AmigaFacts DEF Held
<1>4. CASE C!AmigaWrite
  <2>1. step = "write" /\ C!Goto("commit") /\ clip' = clip /\ buf = NoText
    BY <1>3, <1>4 DEF C!AmigaWrite, C!At, AmigaAt
  <2>2. (buf' = C!Stored /\ trouble' = trouble) \/ (buf' = NoText /\ trouble' = TRUE)
    BY <1>4, <2>1 DEF C!AmigaWrite
  <2>3. C!Stored' = C!Stored /\ step' = "commit"
    BY <1>1, <2>1 DEF C!Stored, C!C!Stored, C!Backend, C!Goto
  <2>4. AmigaAt'
    BY <2>2, <2>3 DEF AmigaAt
  <2>5. buf' \in Held /\ clip' \in Held /\ trouble' \in {trouble, TRUE}
    BY <1>3, <2>1, <2>2
  <2> QED BY <1>1, <1>2, <2>1, <2>4, <2>5, AmigaGoesOn
<1>5. CASE C!AmigaCommit
  <2>1. step = "commit" /\ C!Goto("release") /\ buf' = buf
    BY <1>5 DEF C!AmigaCommit, C!At
  <2>2. (buf = NoText /\ trouble) \/ buf = C!Stored
    BY <1>3, <2>1 DEF AmigaAt
  <2>3. /\ clip' \in Held /\ trouble' \in {trouble, TRUE}
        /\ trouble' \/ (buf # NoText /\ clip' = C!Stored)
    <3>1. \A n \in 0 .. Len(C!Stored) : C!C!Kept(C!Stored, n) \in Held
      BY <1>3, StringKept, StringSeq DEF Held
    <3>2. CASE clip' = buf /\ trouble' = trouble
      BY <1>3, <2>2, <3>2
    <3>3. CASE clip' = clip /\ trouble' = TRUE
      BY <1>3, <3>3
    <3>4. CASE /\ buf = NoText /\ trouble' = trouble
               /\ \E n \in 0 .. Len(C!Stored) : clip' = C!C!Kept(C!Stored, n)
      BY <1>3, <2>2, <3>1, <3>4
    <3> QED BY <1>5, <3>2, <3>3, <3>4 DEF C!AmigaCommit
  <2>4. C!Stored' = C!Stored /\ step' = "release" /\ op' = "set"
    BY <1>1, <2>1 DEF C!Stored, C!C!Stored, C!Backend, C!Goto
  <2>5. clip' \in saw'
    BY <1>1, <1>3, <2>4, OneFacts DEF C!Watch, C!Content
  <2>6. AmigaAt'
    BY <2>1, <2>3, <2>4, <2>5 DEF AmigaAt
  <2> QED BY <1>1, <1>2, <1>3, <2>1, <2>3, <2>6, AmigaGoesOn
<1> QED BY <1>4, <1>5

(* The Amiga: the chunks are scanned, and the text is read.                *)
LEMMA AmigaGets ==
  ASSUME ClipInv, C!AmigaScan \/ C!AmigaChunk
  PROVE  Steps
<1>1. /\ board = "amiga" /\ op \in {"get", "has"} /\ C!Watch
      /\ UNCHANGED <<scrap, aes, clip, dir, board>>
  BY DEF C!AmigaScan, C!AmigaChunk, C!At, C!Watch, C!gemVars
<1>2. Inv'
  BY AmigaKeeps DEF ClipInv
<1>3. /\ board \notin C!Gem /\ AmigaAt /\ trouble \in BOOLEAN /\ clip \in Held /\ buf \in Held
      /\ NoText \in Held /\ clip \in saw
  BY <1>1, AmigaFacts
<1>4. op' # "none" => saw \subseteq saw'
  BY <1>1 DEF C!Watch
<1>5. CASE C!AmigaScan
  <2>1. step = "scan" /\ buf = NoText
    BY <1>3, <1>5 DEF C!AmigaScan, C!At, AmigaAt
  <2>2. CASE clip # NoText /\ buf' = clip /\ C!Goto("chunk") /\ UNCHANGED trouble
    <3>1. step' = "chunk" /\ op' = op
      BY <2>2 DEF C!Goto
    <3>2. AmigaAt'
      BY <1>1, <1>3, <1>4, <2>2, <3>1 DEF AmigaAt
    <3> QED BY <1>1, <1>2, <1>3, <2>2, <3>2, AmigaGoesOn
  <2>3. CASE C!Goto("release") /\ trouble' = (trouble \/ clip # NoText) /\ UNCHANGED buf
    <3>1. step' = "release" /\ op' = op
      BY <2>3 DEF C!Goto
    <3>2. trouble' \in {trouble, TRUE} /\ (trouble' \/ NoText \in saw)
      BY <1>3, <2>3
    <3>3. AmigaAt'
      BY <1>1, <1>4, <2>1, <2>3, <3>1, <3>2 DEF AmigaAt
    <3> QED BY <1>1, <1>2, <1>3, <2>3, <3>2, <3>3, AmigaGoesOn
  <2> QED BY <1>5, <2>2, <2>3 DEF C!AmigaScan
<1>6. CASE C!AmigaChunk
  <2>1. step = "chunk" /\ buf \in saw \ {NoText} /\ C!Goto("release")
    BY <1>3, <1>6 DEF C!AmigaChunk, C!At, AmigaAt
  <2>2. (buf' = buf /\ trouble' = trouble) \/ (buf' = NoText /\ trouble' = TRUE)
    BY <1>6 DEF C!AmigaChunk
  <2>3. step' = "release" /\ op' = op
    BY <2>1 DEF C!Goto
  <2>4. AmigaAt'
    BY <1>1, <1>4, <2>1, <2>2, <2>3 DEF AmigaAt
  <2>5. trouble' \in {trouble, TRUE} /\ buf' \in Held
    BY <1>3, <2>2
  <2> QED BY <1>1, <1>2, <1>3, <2>1, <2>4, <2>5, AmigaGoesOn
<1> QED BY <1>5, <1>6

(* The Amiga: the handles are given back.                                  *)
LEMMA AmigaReleaseStep == ASSUME ClipInv, C!AmigaRelease PROVE Steps
<1>1. /\ board = "amiga" /\ op \in {"set", "get", "has"} /\ step = "release" /\ C!Watch
      /\ UNCHANGED <<scrap, aes, clip, trouble, board>>
  BY DEF C!AmigaRelease, C!At, C!Watch, C!gemVars
<1>2. Inv'
  BY AmigaKeeps DEF ClipInv
<1>3. /\ board \notin C!Gem /\ AmigaAt /\ trouble \in BOOLEAN /\ clip \in Held /\ buf \in Held
      /\ saw \subseteq Held /\ room \in Nat
  BY <1>1, AmigaFacts
<1>4. /\ IF op = "set" THEN trouble \/ (buf # NoText /\ C!Stored \in saw)
         ELSE IF buf = NoText THEN trouble \/ NoText \in saw ELSE buf \in saw
  BY <1>1, <1>3 DEF AmigaAt
<1>5. <<>> \in Strings /\ clip' \in Held /\ trouble' \in {trouble, TRUE}
      /\ "OK" \in Answers /\ "ERR" \in Answers /\ "TRUE" \in Answers /\ "FALSE" \in Answers
  BY <1>1, <1>3, TextString DEF Answers
<1>6. CASE op = "set"
  <2> DEFINE s == IF buf = NoText THEN "ERR" ELSE "OK"
  <2>1. C!Return(s, <<>>)
    BY <1>6 DEF C!AmigaRelease
  <2>2. \/ s = "OK" /\ (C!Stored \in saw \/ trouble')
        \/ s = "ERR" /\ trouble'
    BY <1>1, <1>4, <1>6
  <2>3. s \in Answers
    BY <1>5
  <2> HIDE DEF s
  <2> QED BY <1>1, <1>2, <1>3, <1>5, <1>6, <2>1, <2>2, <2>3, OneReturns
<1>7. CASE op = "get"
  <2>1. CASE buf = NoText
    <3>1. C!Return("ERR", <<>>)
      BY <1>7, <2>1 DEF C!AmigaRelease
    <3>2. trouble' \/ NoText \in saw
      BY <1>1, <1>4, <1>7, <2>1
    <3> QED BY <1>1, <1>2, <1>3, <1>5, <1>7, <3>1, <3>2, OneReturns
  <2>2. CASE buf # NoText
    <3> DEFINE g == C!C!Found(buf, room)
    <3>1. C!Return("OK", g)
      BY <1>7, <2>2 DEF C!AmigaRelease
    <3>2. g \in Strings /\ \E t \in saw \ {NoText} : g = C!C!Found(t, room)
      BY <1>3, <1>4, <1>7, <2>2, StringStored DEF Held
    <3> HIDE DEF g
    <3> QED BY <1>1, <1>2, <1>3, <1>5, <1>7, <3>1, <3>2, OneReturns
  <2> QED BY <2>1, <2>2
<1>8. CASE op = "has"
  <2> DEFINE s == IF buf = NoText THEN "FALSE" ELSE "TRUE"
  <2>1. C!Return(s, <<>>)
    BY <1>8 DEF C!AmigaRelease
  <2>2. \/ s = "TRUE" /\ saw # {NoText}
        \/ s = "FALSE" /\ (trouble' \/ NoText \in saw)
    BY <1>1, <1>4, <1>8
  <2>3. s \in Answers
    BY <1>5
  <2> HIDE DEF s
  <2> QED BY <1>1, <1>2, <1>3, <1>5, <1>8, <2>1, <2>2, <2>3, OneReturns
<1> QED BY <1>1, <1>6, <1>7, <1>8

------------------------------------------------------------------------------
(* Windows.                                                                *)

(* What is known of a call there.                                          *)
LEMMA WinFacts ==
  ASSUME ClipInv, board = "win32", op # "none"
  PROVE  /\ board \notin C!Gem /\ WinAt /\ Typed /\ trouble \in BOOLEAN
         /\ C!Content = clip /\ clip \in saw /\ saw \subseteq Held /\ clip \in Held
         /\ buf \in Held /\ text \in Strings /\ NoText \in Held /\ room \in Nat
         /\ C!Stored = text
<1>1. board \notin C!Gem
  BY DEF C!Gem
<1>2. C!Stored = text
  BY StoredIs DEF C!Stored
<1> QED BY <1>1, <1>2, OneFacts DEF Typed, Held, AtStep

(* Windows: a call that goes on.                                           *)
LEMMA WinGoesOn ==
  ASSUME ClipInv, Inv', board = "win32", op # "none", NEW l, C!Goto(l), C!Watch,
         UNCHANGED <<scrap, aes, dir, buf, trouble>>, clip' \in Held,
         op = "set" \/ clip' = clip, l = "shut" => clip' = text,
         l # "start", l \in {"enter", "fetch"} => ~ trouble
  PROVE  Steps
<1>1. board' = "win32" /\ board \notin C!Gem /\ step' = l /\ op' = op /\ text' = text
  BY DEF C!Watch, C!Gem, C!Goto
<1>2. trouble \in BOOLEAN /\ buf \in Held
  BY WinFacts
<1>3. clip' \in saw'
  BY <1>1 DEF C!Watch, C!Content, C!Gem
<1>5. AtStep'
  BY <1>1, <1>3 DEF AtStep, C!Gem, WinAt
<1> QED BY <1>1, <1>2, <1>5, OneGoesOn

(* Windows: the text is given to the clipboard.                            *)
LEMMA WinSets ==
  ASSUME ClipInv,
         C!WinAlloc \/ C!WinLock \/ C!WinOpen \/ C!WinEmpty \/ C!WinGive \/ C!WinShut
  PROVE  Steps
<1>1. /\ board = "win32" /\ op = "set" /\ op # "none" /\ C!Watch
      /\ UNCHANGED <<scrap, aes, board>>
  BY DEF C!WinAlloc, C!WinLock, C!WinOpen, C!WinEmpty, C!WinGive, C!WinShut, C!At, C!Watch, C!gemVars
<1>2. Inv'
  BY WinKeeps DEF ClipInv
<1>3. /\ board \notin C!Gem /\ WinAt /\ trouble \in BOOLEAN /\ clip \in Held
      /\ text \in Strings /\ text \in Held /\ NoText \in Held /\ C!Stored = text
  BY <1>1, WinFacts DEF Held
<1>4. ASSUME C!Fails, UNCHANGED clip PROVE Steps
  BY <1>1, <1>2, <1>3, <1>4, OneFails
<1>5. ASSUME NEW l \in {"lock", "open", "empty", "give"}, C!Goto(l),
             UNCHANGED <<dir, buf, trouble>>, clip' \in Held
      PROVE Steps
  BY <1>1, <1>2, <1>5, WinGoesOn
<1>6. CASE C!WinAlloc
  <2>1. CASE C!Return("NOMEM", <<>>) /\ trouble' = TRUE
    <3>1. "NOMEM" \in Answers /\ <<>> \in Strings /\ clip' \in Held
      BY <1>3, <1>6, TextString DEF Answers, C!WinAlloc
    <3> QED BY <1>1, <1>2, <1>3, <2>1, <3>1, OneReturns
  <2>2. CASE C!Goto("lock") /\ UNCHANGED <<dir, buf, trouble>>
    BY <1>3, <1>5, <1>6, <2>2 DEF C!WinAlloc
  <2> QED BY <1>6, <2>1, <2>2 DEF C!WinAlloc
<1>7. CASE C!WinLock
  BY <1>3, <1>4, <1>5, <1>7 DEF C!WinLock
<1>8. CASE C!WinOpen
  BY <1>3, <1>4, <1>5, <1>8 DEF C!WinOpen
<1>9. CASE C!WinEmpty
  BY <1>3, <1>5, <1>9 DEF C!WinEmpty
<1>10. CASE C!WinGive
  <2>1. CASE clip' = text /\ C!Goto("shut") /\ UNCHANGED <<dir, buf, trouble>>
    BY <1>1, <1>2, <1>3, <2>1, WinGoesOn
  <2> QED BY <1>4, <1>10, <2>1 DEF C!WinGive
<1>11. CASE C!WinShut
  <2>1. /\ step = "shut" /\ C!Return("OK", <<>>) /\ UNCHANGED <<clip, trouble>>
        /\ "OK" \in Answers /\ <<>> \in Strings
    BY <1>11, TextString DEF Answers, C!WinShut, C!At
  <2>2. C!Stored \in saw
    BY <1>3, <2>1 DEF WinAt
  <2> QED BY <1>1, <1>2, <1>3, <2>1, <2>2, OneReturns
<1> QED BY <1>6, <1>7, <1>8, <1>9, <1>10, <1>11

(* Windows: whether there is a text at all.                                *)
LEMMA WinLookStep == ASSUME ClipInv, C!WinLook PROVE Steps
<1>1. /\ board = "win32" /\ op \in {"get", "has"} /\ op # "none" /\ step = "start" /\ C!Watch
      /\ UNCHANGED <<scrap, aes, clip, trouble, board>>
  BY DEF C!WinLook, C!At, C!Watch, C!gemVars
<1>2. Inv'
  BY WinKeeps DEF ClipInv
<1>3. /\ board \notin C!Gem /\ ~ trouble /\ trouble \in BOOLEAN /\ clip \in Held /\ clip \in saw
      /\ <<>> \in Strings
  BY <1>1, WinFacts, TextString DEF WinAt
<1>4. "TRUE" \in Answers /\ "FALSE" \in Answers /\ "ERR" \in Answers
  BY DEF Answers
<1>5. CASE op = "has"
  <2> DEFINE s == IF clip = NoText THEN "FALSE" ELSE "TRUE"
  <2>1. C!Return(s, <<>>)
    BY <1>5 DEF C!WinLook
  <2>2. \/ s = "TRUE" /\ saw # {NoText}
        \/ s = "FALSE" /\ (trouble' \/ NoText \in saw)
    BY <1>3
  <2>3. s \in Answers
    BY <1>4
  <2> HIDE DEF s
  <2> QED BY <1>1, <1>2, <1>3, <1>5, <2>1, <2>2, <2>3, OneReturns
<1>6. CASE op = "get" /\ clip = NoText
  <2>1. C!Return("ERR", <<>>)
    BY <1>6 DEF C!WinLook
  <2>2. NoText \in saw
    BY <1>3, <1>6
  <2> QED BY <1>1, <1>2, <1>3, <1>4, <1>6, <2>1, <2>2, OneReturns
<1>7. CASE op = "get" /\ clip # NoText
  <2>1. C!Goto("enter") /\ UNCHANGED <<dir, buf>>
    BY <1>7 DEF C!WinLook
  <2> QED BY <1>1, <1>2, <1>3, <2>1, WinGoesOn
<1> QED BY <1>1, <1>5, <1>6, <1>7

(* Windows: the text is fetched.                                           *)
LEMMA WinGets == ASSUME ClipInv, C!WinEnter \/ C!WinFetch PROVE Steps
<1>1. /\ board = "win32" /\ op = "get" /\ op # "none" /\ step \in {"enter", "fetch"} /\ C!Watch
      /\ UNCHANGED <<scrap, aes, clip, board>>
  BY DEF C!WinEnter, C!WinFetch, C!At, C!Watch, C!gemVars
<1>2. Inv'
  BY WinKeeps DEF ClipInv
<1>3. /\ board \notin C!Gem /\ ~ trouble /\ trouble \in BOOLEAN /\ clip \in Held /\ clip \in saw
      /\ <<>> \in Strings /\ clip' \in Held /\ room \in Nat
  BY <1>1, WinFacts, TextString DEF WinAt
<1>4. "OK" \in Answers /\ "RANGE" \in Answers /\ "ERR" \in Answers
  BY DEF Answers
<1>5. CASE C!WinEnter
  <2>1. CASE C!Fails
    BY <1>1, <1>2, <1>3, <2>1, OneFails
  <2>2. CASE C!Goto("fetch") /\ UNCHANGED <<dir, buf, trouble>>
    BY <1>1, <1>2, <1>3, <2>2, WinGoesOn
  <2> QED BY <1>5, <2>1, <2>2 DEF C!WinEnter
<1>6. CASE C!WinFetch
  <2>1. CASE clip # NoText /\ Len(clip) < room /\ C!Return("OK", clip) /\ UNCHANGED trouble
    <3>1. clip \in Strings /\ Len(clip) <= room
      <4>1. clip \in Strings
        BY <1>3, <2>1 DEF Held
      <4>2. Len(clip) \in Nat
        BY <4>1, StringSeq, ClipboardAssumption
      <4> QED BY <1>3, <2>1, <4>1, <4>2
    <3>2. C!C!Found(clip, room) = clip
      BY <1>1, <1>3, <3>1, StoredIs, KeptTwice DEF C!C!Found
    <3>3. \E t \in saw \ {NoText} : clip = C!C!Found(t, room)
      BY <1>3, <2>1, <3>2
    <3> QED BY <1>1, <1>2, <1>3, <1>4, <2>1, <3>1, <3>3, OneReturns
  <2>2. CASE clip # NoText /\ Len(clip) >= room /\ C!Return("RANGE", <<>>) /\ UNCHANGED trouble
    <3>1. \E t \in saw \ {NoText} : Len(t) >= room
      BY <1>3, <2>2
    <3> QED BY <1>1, <1>2, <1>3, <1>4, <2>2, <3>1, OneReturns
  <2>3. CASE C!Return("ERR", <<>>) /\ trouble' = (clip # NoText)
    <3>1. trouble' \in {trouble, TRUE} /\ (trouble' \/ NoText \in saw)
      BY <1>3, <2>3
    <3> QED BY <1>1, <1>2, <1>3, <1>4, <2>3, <3>1, OneReturns
  <2> QED BY <1>6, <2>1, <2>2, <2>3 DEF C!WinFetch
<1> QED BY <1>5, <1>6

------------------------------------------------------------------------------
(* A buffer of the program's own.                                          *)
LEMMA OwnStep == ASSUME ClipInv, C!OwnSet \/ C!OwnGet PROVE Steps
<1>1. /\ board = "private" /\ board \notin C!Gem /\ op \in {"set", "get", "has"} /\ op # "none" /\ C!Watch
      /\ UNCHANGED <<scrap, aes, trouble, board>>
  BY DEF C!OwnSet, C!OwnGet, C!At, C!Watch, C!gemVars, C!Gem
<1>2. Inv'
  BY OwnKeeps DEF ClipInv
<1>3. /\ trouble' \in {trouble, TRUE} /\ clip \in Held /\ clip \in saw /\ <<>> \in Strings
      /\ text \in Strings /\ room \in Nat /\ C!Stored = text /\ C!Backend.buffer = BUFFER
  BY <1>1, OneFacts, TextString, StoredIs DEF Machine, C!Stored, C!Backend
<1>4. /\ "OK" \in Answers /\ "RANGE" \in Answers /\ "ERR" \in Answers
      /\ "TRUE" \in Answers /\ "FALSE" \in Answers
  BY DEF Answers
<1>5. CASE C!OwnSet
  <2>1. op = "set"
    BY <1>5 DEF C!OwnSet, C!At
  <2>2. CASE Len(text) > BUFFER /\ C!Return("RANGE", <<>>) /\ UNCHANGED clip
    BY <1>1, <1>2, <1>3, <1>4, <2>1, <2>2, OneReturns
  <2>3. CASE clip' = text /\ C!Return("OK", <<>>)
    <3>1. clip' \in Held /\ C!Stored \in saw \cup {clip'}
      BY <1>3, <2>3 DEF Held
    <3> QED BY <1>1, <1>2, <1>3, <1>4, <2>1, <2>3, <3>1, OneReturns
  <2> QED BY <1>5, <2>2, <2>3 DEF C!OwnSet
<1>6. CASE C!OwnGet
  <2>1. op \in {"get", "has"} /\ UNCHANGED clip
    BY <1>6 DEF C!OwnGet, C!At
  <2>2. CASE op = "has"
    <3> DEFINE s == IF clip = NoText THEN "FALSE" ELSE "TRUE"
    <3>1. C!Return(s, <<>>)
      BY <1>6, <2>2 DEF C!OwnGet
    <3>2. \/ s = "TRUE" /\ saw # {NoText}
          \/ s = "FALSE" /\ NoText \in saw
      BY <1>3
    <3>3. s \in Answers /\ clip' \in Held
      BY <1>3, <1>4, <2>1
    <3> HIDE DEF s
    <3> QED BY <1>1, <1>2, <1>3, <2>1, <2>2, <3>1, <3>2, <3>3, OneReturns
  <2>3. CASE op = "get" /\ clip = NoText
    <3>1. C!Return("ERR", <<>>) /\ NoText \in saw /\ clip' \in Held
      BY <1>3, <1>6, <2>1, <2>3 DEF C!OwnGet
    <3> QED BY <1>1, <1>2, <1>3, <1>4, <2>1, <2>3, <3>1, OneReturns
  <2>4. CASE op = "get" /\ clip # NoText
    <3> DEFINE g == C!C!Found(clip, room)
    <3>1. g = C!C!Kept(clip, room)
      BY <1>1, StoredIs DEF C!C!Found
    <3>2. C!Return("OK", g)
      BY <1>6, <2>4, <3>1 DEF C!OwnGet
    <3>3. g \in Strings /\ (\E t \in saw \ {NoText} : g = C!C!Found(t, room)) /\ clip' \in Held
      BY <1>3, <2>1, <2>4, StringStored DEF Held
    <3> HIDE DEF g
    <3> QED BY <1>1, <1>2, <1>3, <1>4, <2>1, <2>4, <3>2, <3>3, OneReturns
  <2> QED BY <2>1, <2>2, <2>3, <2>4
<1> QED BY <1>5, <1>6

------------------------------------------------------------------------------
(* Every call is one of the seam's.                                        *)
LEMMA ClipStep == ASSUME ClipInv, C!Next PROVE Steps
<1>1. ASSUME NEW t \in C!Texts, C!Start("set", t, 0) PROVE Steps
  <2>1. 0 \in 0 .. MaxText + 1
    BY ClipboardAssumption
  <2> QED BY <1>1, <2>1, StartStep
<1>2. ASSUME NEW n \in 1 .. MaxText + 1, C!Start("get", <<>>, n) PROVE Steps
  <2>1. n \in 0 .. MaxText + 1 /\ <<>> \in C!Texts
    BY ClipboardAssumption, TextString
  <2> QED BY <1>2, <2>1, StartStep
<1>3. ASSUME C!Start("has", <<>>, 0) PROVE Steps
  <2>1. 0 \in 0 .. MaxText + 1 /\ <<>> \in C!Texts
    BY ClipboardAssumption, TextString
  <2> QED BY <1>3, <2>1, StartStep
<1> QED BY <1>1, <1>2, <1>3, OthersStep, GemCreateStep, GemWriteStep, GemWroteStep, GemRegisterStep,
           GemAskStep, GemOpenStep, GemOpenOwnStep, GemReadStep, GemCloseStep,
           AmigaOpens, AmigaSets, AmigaGets, AmigaReleaseStep, MacStep,
           WinSets, WinLookStep, WinGets, OwnStep DEF C!Next

(* What the dialogs do is none of the clipboard's.                         *)
LEMMA ClipStays == ASSUME ClipInv, UNCHANGED clipVars PROVE Steps
<1>1. UNCHANGED <<board, step, said, scrap, aes, clip, op, text, room, dir, buf,
                  held, saw, trouble, got, moves>>
  BY DEF clipVars
<1>2. C!Stored' = C!Stored /\ C!Content' = C!Content /\ C!Backend' = C!Backend
  BY <1>1 DEF C!Stored, C!C!Stored, C!Backend, C!Content
<1>3. Inv' /\ Typed' /\ CallTyped' /\ Quiet'
  <2>1. Inv'
    <3>1. HeldAt' = HeldAt
      BY <1>1 DEF HeldAt
    <3> QED BY <1>1, <1>2, <3>1 DEF ClipInv, Inv
  <2>2. Typed'
    BY <1>1, <1>2 DEF ClipInv, Typed
  <2>3. CallTyped'
    BY <1>1, <1>2 DEF ClipInv, CallTyped
  <2>4. Quiet'
    BY <1>1, <1>2 DEF ClipInv, Quiet
  <2> QED BY <2>1, <2>2, <2>3, <2>4
<1>4. AtStep'
  BY <1>1, <1>2 DEF ClipInv, AtStep, GemAt, AmigaAt, WinAt, SawText
<1> QED BY <1>1, <1>2, <1>3, <1>4 DEF Steps, ClipInv, C!C!vars

(* The invariant holds at first.                                           *)
LEMMA ClipStarts == Init => ClipInv /\ C!C!Init
<1> SUFFICES ASSUME Init PROVE ClipInv /\ C!C!Init
  OBVIOUS
<1>1. Inv
  BY InitInv
<1>2. /\ board \in Boards /\ scrap = [d \in {C!Own, C!Other} |-> NoText] /\ aes = "" /\ clip = NoText
      /\ step = "idle" /\ op = "none" /\ text = <<>> /\ room = 0 /\ dir = C!Own
      /\ buf = NoText /\ held = {} /\ saw = {} /\ trouble = FALSE
      /\ said = "none" /\ got = <<>> /\ moves = 0
  BY DEF Init, C!Init
<1>3. Typed
  BY <1>2 DEF Typed, Held
<1>4. CallTyped /\ Quiet
  <2>1. 0 \in 0 .. MaxText + 1 /\ 0 \in 0 .. MaxMoves /\ <<>> \in C!Texts /\ <<>> \in Strings
    BY TextString, ClipboardAssumption
  <2>2. CallTyped
    BY <1>2, <2>1 DEF CallTyped
  <2> QED BY <1>2, <2>2 DEF Quiet
<1>5. AtStep
  BY <1>2 DEF AtStep, GemAt, AmigaAt, WinAt
<1>6. C!Content = NoText
  BY <1>2 DEF C!Content
<1> QED BY <1>1, <1>2, <1>3, <1>4, <1>5, <1>6 DEF ClipInv, C!C!Init

(* The invariant has every variable typed.                                 *)
LEMMA ClipTyped == ClipInv => C!TypeOK
<1> SUFFICES ASSUME ClipInv PROVE C!TypeOK
  OBVIOUS
<1>1. Inv /\ Typed /\ CallTyped
  BY DEF ClipInv
<1>2. held \subseteq {"file", "iff", "clip", "stream", "handle", "mem"}
  BY <1>1 DEF Inv, HeldAt
<1>3. Held = C!Texts \cup {NoText} \cup {C!C!Mapped(t) : t \in C!Texts}
  BY DEF Held, Strings
<1>4. got \in Held \ {NoText}
  BY <1>1, StringSeq DEF CallTyped, Held
<1> QED BY <1>1, <1>2, <1>3, <1>4 DEF Typed, CallTyped, Inv, C!TypeOK

------------------------------------------------------------------------------
(* The tree of a dialog.                                                   *)

(* An object of the array.                                                 *)
Flags == {"SELECTABLE", "RBUTTON", "DEFAULT", "EXIT", "LASTOB"}
(* An object of the array.                                                 *)
Object == [next : D!Objects \cup {-1}, head : Int, tail : Int, flags : SUBSET Flags,
           selected : BOOLEAN, x : Int, y : Int, w : Int, h : Int]

(* Where the buttons of n options stand, and the object that cancels them. *)
ButtonY(n) == D!OptionY(n) + cell.h \div 2
(* The last object of a dialog of n options.                               *)
Last(n) == n + 3

(* What of an object no click changes.                                     *)
Shape(r) == <<r.next, r.head, r.tail, r.flags, r.x, r.y, r.w, r.h>>

(* The dialog of n options and a width of w is the one in the array.       *)
Stands(n, w) ==
  \A o \in D!Objects : Shape(tree[o]) = Shape(D!Built(n, 0, w)[o])

(* Its objects, one by one.                                                *)
RootStands(n, w) ==
  /\ tree[0].next = -1 /\ tree[0].head = 1 /\ tree[0].tail = Last(n) /\ tree[0].flags = {}
  /\ tree[0].w = w /\ tree[0].h = ButtonY(n) + cell.h + cell.h \div 2
(* The title.                                                              *)
TitleStands(w) ==
  /\ tree[1].next = 2 /\ tree[1].flags = {}
  /\ tree[1].x = cell.w /\ tree[1].y = cell.h \div 2
  /\ tree[1].w = w - 2 * cell.w /\ tree[1].h = cell.h
(* An option.                                                              *)
OptionStands(o, w) ==
  /\ tree[o].next = o + 1 /\ tree[o].flags = {"SELECTABLE", "RBUTTON"}
  /\ tree[o].x = 2 * cell.w /\ tree[o].y = D!OptionY(o - 2)
  /\ tree[o].w = w - 4 * cell.w /\ tree[o].h = cell.h
(* The button OK.                                                          *)
OkStands(n) ==
  /\ tree[n + 2].next = n + 3 /\ tree[n + 2].flags = {"SELECTABLE", "DEFAULT", "EXIT"}
  /\ tree[n + 2].x = 2 * cell.w /\ tree[n + 2].y = ButtonY(n)
  /\ tree[n + 2].w = 8 * cell.w /\ tree[n + 2].h = cell.h
(* The button Cancel.                                                      *)
CancelStands(n, w) ==
  /\ tree[n + 3].next = 0 /\ tree[n + 3].flags = {"SELECTABLE", "EXIT", "LASTOB"}
  /\ tree[n + 3].x = w - 10 * cell.w /\ tree[n + 3].y = ButtonY(n)
  /\ tree[n + 3].w = 8 * cell.w /\ tree[n + 3].h = cell.h

(* Which object is which.                                                  *)
LEMMA Numbers ==
  ASSUME NEW n \in 1 .. MAX_OPTIONS
  PROVE  /\ n \in Nat /\ MAX_OPTIONS \in Nat /\ n > 0 /\ D!Objects = 0 .. MAX_OPTIONS + 3
         /\ D!first_option + n = n + 2 /\ D!first_option + n + 1 = n + 3
         /\ D!first_option .. (D!first_option + n) - 1 = 2 .. n + 1
         /\ D!Root = 0 /\ D!Title = 1 /\ D!first_option = 2
  BY DialogAssumption DEF D!Objects, D!Root, D!Title, D!first_option

(* What set_obj makes of each object.                                      *)
LEMMA RootPart ==
  ASSUME NEW n \in 1 .. MAX_OPTIONS, NEW d, NEW w
  PROVE  D!Part(0, n, d, w) =
           [next |-> -1, head |-> 1, tail |-> n + 3, flags |-> {}, selected |-> FALSE,
            x |-> 0, y |-> 0, w |-> w, h |-> ButtonY(n) + cell.h + cell.h \div 2]
<1> DEFINE o == 0
<1>1. /\ o = D!Root /\ o # D!Title /\ o \notin D!first_option .. (D!first_option + n) - 1
      /\ o # D!first_option + n
  BY Numbers
<1> HIDE DEF o
<1>2. D!Part(o, n, d, w) =
        [D!Obj(-1, {}, FALSE, 0, 0, w, D!OptionY(n) + cell.h \div 2 + cell.h + cell.h \div 2)
           EXCEPT !.head = D!Title, !.tail = D!first_option + n + 1]
  BY <1>1, Zenon DEF D!Part
<1>3. o = 0
  BY DEF o
<1> QED BY <1>2, <1>3, Numbers DEF ButtonY, D!Obj

(* The title, as it is built.                                              *)
LEMMA TitlePart ==
  ASSUME NEW n \in 1 .. MAX_OPTIONS, NEW d, NEW w
  PROVE  D!Part(1, n, d, w) =
           [next |-> 2, head |-> -1, tail |-> -1, flags |-> {}, selected |-> FALSE,
            x |-> cell.w, y |-> cell.h \div 2, w |-> w - 2 * cell.w, h |-> cell.h]
<1> DEFINE o == 1
<1>1. /\ o # D!Root /\ o = D!Title /\ o \notin D!first_option .. (D!first_option + n) - 1
      /\ o # D!first_option + n
  BY Numbers
<1> HIDE DEF o
<1>2. D!Part(o, n, d, w) =
        D!Obj(D!first_option, {}, FALSE, cell.w, cell.h \div 2, w - 2 * cell.w, cell.h)
  BY <1>1, Zenon DEF D!Part
<1>3. o = 1
  BY DEF o
<1> QED BY <1>2, <1>3, Numbers DEF D!Obj

(* An option, as it is built.                                              *)
LEMMA OptionPart ==
  ASSUME NEW n \in 1 .. MAX_OPTIONS, NEW d, NEW w, NEW o \in 2 .. n + 1
  PROVE  D!Part(o, n, d, w) =
           [next |-> o + 1, head |-> -1, tail |-> -1, flags |-> {"SELECTABLE", "RBUTTON"},
            selected |-> o - 2 = d,
            x |-> 2 * cell.w, y |-> D!OptionY(o - 2), w |-> w - 4 * cell.w, h |-> cell.h]
<1>1. /\ o # D!Root /\ o # D!Title /\ o \in D!first_option .. (D!first_option + n) - 1
      /\ o # D!first_option + n
  BY Numbers
<1>2. D!Part(o, n, d, w) =
        D!Obj(o + 1, {"SELECTABLE", "RBUTTON"}, o - D!first_option = d,
              2 * cell.w, D!OptionY(o - D!first_option), w - 4 * cell.w, cell.h)
  BY <1>1, Zenon DEF D!Part
<1>3. D!first_option = 2
  BY Numbers
<1> QED BY <1>2, <1>3, Zenon DEF D!Obj

(* The button OK, as it is built.                                          *)
LEMMA OkPart ==
  ASSUME NEW n \in 1 .. MAX_OPTIONS, NEW d, NEW w
  PROVE  D!Part(n + 2, n, d, w) =
           [next |-> n + 3, head |-> -1, tail |-> -1,
            flags |-> {"SELECTABLE", "DEFAULT", "EXIT"}, selected |-> FALSE,
            x |-> 2 * cell.w, y |-> ButtonY(n), w |-> 8 * cell.w, h |-> cell.h]
<1> DEFINE o == n + 2
<1>1. /\ o # D!Root /\ o # D!Title /\ o \notin D!first_option .. (D!first_option + n) - 1
      /\ o = D!first_option + n
  BY Numbers
<1> HIDE DEF o
<1>2. D!Part(o, n, d, w) =
        D!Obj(D!first_option + n + 1, {"SELECTABLE", "DEFAULT", "EXIT"}, FALSE,
              2 * cell.w, D!OptionY(n) + cell.h \div 2, 8 * cell.w, cell.h)
  BY <1>1, Zenon DEF D!Part
<1>3. D!first_option + n + 1 = n + 3
  BY Numbers
<1> QED BY <1>2, <1>3, Zenon DEF ButtonY, D!Obj, o

(* The button Cancel, as it is built.                                      *)
LEMMA CancelPart ==
  ASSUME NEW n \in 1 .. MAX_OPTIONS, NEW d, NEW w
  PROVE  D!Part(n + 3, n, d, w) =
           [next |-> 0, head |-> -1, tail |-> -1,
            flags |-> {"SELECTABLE", "EXIT", "LASTOB"}, selected |-> FALSE,
            x |-> w - 10 * cell.w, y |-> ButtonY(n), w |-> 8 * cell.w, h |-> cell.h]
<1> DEFINE o == n + 3
<1>1. /\ o # D!Root /\ o # D!Title /\ o \notin D!first_option .. (D!first_option + n) - 1
      /\ o # D!first_option + n
  BY Numbers
<1> HIDE DEF o
<1>2. D!Part(o, n, d, w) =
        D!Obj(D!Root, {"SELECTABLE", "EXIT", "LASTOB"}, FALSE,
              w - 10 * cell.w, D!OptionY(n) + cell.h \div 2, 8 * cell.w, cell.h)
  BY <1>1, Zenon DEF D!Part
<1>3. D!Root = 0
  BY Numbers
<1> QED BY <1>2, <1>3, Zenon DEF ButtonY, D!Obj, o

(* A memset and a set_obj make objects.                                    *)
LEMMA PartIsObject ==
  ASSUME NEW n \in 1 .. MAX_OPTIONS, NEW d, NEW w \in Int, NEW o \in 0 .. n + 3, 
         cell.w \in Nat, cell.h \in Nat
  PROVE  D!Part(o, n, d, w) \in Object
<1>1. n \in Nat /\ MAX_OPTIONS \in Nat /\ D!Objects = 0 .. MAX_OPTIONS + 3
  BY Numbers
<1>2. /\ D!OptionY(n) \in Int /\ D!OptionY(o - 2) \in Int /\ cell.h \div 2 \in Int
      /\ ButtonY(n) \in Int
  <2>1. cell.h \div 2 \in Int
    OBVIOUS
  <2>2. \A i \in Int : D!OptionY(i) \in Int
    BY <2>1 DEF D!OptionY
  <2>3. n \in Int /\ o - 2 \in Int
    BY <1>1
  <2>4. D!OptionY(n) \in Int /\ D!OptionY(o - 2) \in Int
    BY <2>2, <2>3
  <2> QED BY <2>1, <2>4 DEF ButtonY
<1>3. o = 0 \/ o = 1 \/ o \in 2 .. n + 1 \/ o = n + 2 \/ o = n + 3
  BY <1>1
<1>4. CASE o = 0
  <2> DEFINE r == [next |-> -1, head |-> 1, tail |-> n + 3, flags |-> {},
                  selected |-> FALSE, x |-> 0, y |-> 0, w |-> w, h |-> ButtonY(n) + cell.h + cell.h \div 2]
  <2>1. ButtonY(n) + cell.h + cell.h \div 2 \in Int
    BY <1>1, <1>2, <1>4
  <2>2. r \in Object
    BY <1>1, <1>2, <1>4, <2>1 DEF Object, Flags
  <2>3. D!Part(0, n, d, w) = r
    BY <1>4, RootPart, Zenon
  <2> HIDE DEF r
  <2> QED BY <1>4, <2>2, <2>3
<1>5. CASE o = 1
  <2> DEFINE r == [next |-> 2, head |-> -1, tail |-> -1, flags |-> {},
                  selected |-> FALSE, x |-> cell.w, y |-> cell.h \div 2, w |-> w - 2 * cell.w, h |-> cell.h]
  <2>1. r \in Object
    BY <1>1, <1>2, <1>5 DEF Object, Flags
  <2>2. D!Part(1, n, d, w) = r
    BY <1>5, TitlePart, Zenon
  <2> HIDE DEF r
  <2> QED BY <1>5, <2>1, <2>2
<1>6. CASE o \in 2 .. n + 1
  <2> DEFINE s == o - 2 = d
             r == [next |-> o + 1, head |-> -1, tail |-> -1, flags |-> {"SELECTABLE", "RBUTTON"},
                   selected |-> s, x |-> 2 * cell.w, y |-> D!OptionY(o - 2), w |-> w - 4 * cell.w, h |-> cell.h]
  <2>1. o + 1 \in D!Objects /\ s \in BOOLEAN
    BY <1>1, <1>2, <1>6
  <2>2. D!Part(o, n, d, w) = r
    BY <1>6, OptionPart
  <2> HIDE DEF s
  <2>4. /\ w - 4 * cell.w \in Int /\ 2 * cell.w \in Int /\ cell.h \in Int
        /\ {"SELECTABLE", "RBUTTON"} \in SUBSET Flags /\ D!OptionY(o - 2) \in Int
    BY <1>2 DEF Flags
  <2>3. r \in Object
    <3> DEFINE x == 2 * cell.w
               y == D!OptionY(o - 2)
               v == w - 4 * cell.w
    <3>1. x \in Int /\ y \in Int /\ v \in Int
      BY <2>4
    <3> HIDE DEF x, y, v
    <3>2. [next |-> o + 1, head |-> -1, tail |-> -1, flags |-> {"SELECTABLE", "RBUTTON"},
           selected |-> s, x |-> x, y |-> y, w |-> v, h |-> cell.h] \in Object
      BY <2>1, <2>4, <3>1 DEF Object
    <3> QED BY <3>2 DEF x, y, v
  <2> HIDE DEF r
  <2> QED BY <1>6, <2>2, <2>3
<1>7. CASE o = n + 2
  <2> DEFINE r == [next |-> n + 3, head |-> -1, tail |-> -1, flags |-> {"SELECTABLE", "DEFAULT", "EXIT"},
                  selected |-> FALSE, x |-> 2 * cell.w, y |-> ButtonY(n), w |-> 8 * cell.w, h |-> cell.h]
  <2>1. r \in Object
    BY <1>1, <1>2, <1>7, SMTT(20) DEF Object, Flags
  <2>2. D!Part(n + 2, n, d, w) = r
    BY <1>7, OkPart, Zenon
  <2> HIDE DEF r
  <2> QED BY <1>7, <2>1, <2>2
<1>8. CASE o = n + 3
  <2> DEFINE r == [next |-> 0, head |-> -1, tail |-> -1, flags |-> {"SELECTABLE", "EXIT", "LASTOB"},
                  selected |-> FALSE, x |-> w - 10 * cell.w, y |-> ButtonY(n), w |-> 8 * cell.w, h |-> cell.h]
  <2>1. r \in Object
    BY <1>1, <1>2, <1>8, SMTT(20) DEF Object, Flags
  <2>2. D!Part(n + 3, n, d, w) = r
    BY <1>8, CancelPart, Zenon
  <2> HIDE DEF r
  <2> QED BY <1>8, <2>1, <2>2
<1> QED BY <1>3, <1>4, <1>5, <1>6, <1>7, <1>8

(* What is built is an array of objects.                                   *)
LEMMA BuiltIsTree ==
  ASSUME NEW n \in 1 .. MAX_OPTIONS, NEW d, NEW w \in Int,
         cell.w \in Nat, cell.h \in Nat
  PROVE  D!Built(n, d, w) \in [D!Objects -> Object]
<1>1. MAX_OPTIONS \in Nat
  BY DialogAssumption
<1>2. ASSUME NEW o \in D!Objects
      PROVE  (IF o <= D!first_option + n + 1 THEN D!Part(o, n, d, w) ELSE D!Wiped[o]) \in Object
  <2>1. CASE o <= D!first_option + n + 1
    <3>1. o \in 0 .. n + 3
      BY <1>1, <1>2, <2>1 DEF D!Objects, D!first_option
    <3> QED BY <2>1, <3>1, PartIsObject
  <2>2. CASE ~ (o <= D!first_option + n + 1)
    <3>1. D!Wiped[o] \in Object
      BY <1>1 DEF D!Wiped, Object, D!Objects
    <3> QED BY <2>2, <3>1
  <2> QED BY <2>1, <2>2
<1> QED BY <1>2 DEF D!Built

(* Before the first dialog the array holds objects too.                    *)
LEMMA WipedIsTree == D!Wiped \in [D!Objects -> Object]
  BY DialogAssumption DEF D!Wiped, Object, D!Objects

(* Which object of the array is which part of the dialog.                  *)
LEMMA BuiltAt ==
  ASSUME NEW n \in 1 .. MAX_OPTIONS, NEW d, NEW w, NEW o \in D!Objects
  PROVE  /\ o \in 0 .. n + 3 => D!Built(n, d, w)[o] = D!Part(o, n, d, w)
         /\ o \notin 0 .. n + 3 => D!Built(n, d, w)[o] = D!Wiped[o]
<1>1. D!Built(n, d, w)[o] =
        IF o <= D!first_option + n + 1 THEN D!Part(o, n, d, w) ELSE D!Wiped[o]
  BY DEF D!Built
<1>2. o <= D!first_option + n + 1 <=> o \in 0 .. n + 3
  BY Numbers
<1> QED BY <1>1, <1>2, Zenon

(* The fields of the buttons.                                              *)
LEMMA OkFields ==
  ASSUME NEW n \in 1 .. MAX_OPTIONS, NEW d, NEW w
  PROVE  /\ D!Part(n + 2, n, d, w).next = n + 3
         /\ D!Part(n + 2, n, d, w).flags = {"SELECTABLE", "DEFAULT", "EXIT"}
         /\ ~ D!Part(n + 2, n, d, w).selected
         /\ D!Part(n + 2, n, d, w).x = 2 * cell.w
         /\ D!Part(n + 2, n, d, w).y = ButtonY(n)
         /\ D!Part(n + 2, n, d, w).w = 8 * cell.w
         /\ D!Part(n + 2, n, d, w).h = cell.h
<1> DEFINE p == D!Part(n + 2, n, d, w)
<1>1. p = [next |-> n + 3, head |-> -1, tail |-> -1,
           flags |-> {"SELECTABLE", "DEFAULT", "EXIT"}, selected |-> FALSE,
           x |-> 2 * cell.w, y |-> ButtonY(n), w |-> 8 * cell.w, h |-> cell.h]
  BY OkPart, Zenon
<1> HIDE DEF p
<1>2. /\ p.next = n + 3 /\ p.flags = {"SELECTABLE", "DEFAULT", "EXIT"} /\ ~ p.selected
      /\ p.x = 2 * cell.w /\ p.y = ButtonY(n) /\ p.w = 8 * cell.w /\ p.h = cell.h
  BY <1>1
<1> QED BY <1>2, Zenon DEF p

(* The same of Cancel.                                                     *)
LEMMA CancelFields ==
  ASSUME NEW n \in 1 .. MAX_OPTIONS, NEW d, NEW w
  PROVE  /\ D!Part(n + 3, n, d, w).next = 0
         /\ D!Part(n + 3, n, d, w).flags = {"SELECTABLE", "EXIT", "LASTOB"}
         /\ ~ D!Part(n + 3, n, d, w).selected
         /\ D!Part(n + 3, n, d, w).x = w - 10 * cell.w
         /\ D!Part(n + 3, n, d, w).y = ButtonY(n)
         /\ D!Part(n + 3, n, d, w).w = 8 * cell.w
         /\ D!Part(n + 3, n, d, w).h = cell.h
<1> DEFINE p == D!Part(n + 3, n, d, w)
<1>1. p = [next |-> 0, head |-> -1, tail |-> -1,
           flags |-> {"SELECTABLE", "EXIT", "LASTOB"}, selected |-> FALSE,
           x |-> w - 10 * cell.w, y |-> ButtonY(n), w |-> 8 * cell.w, h |-> cell.h]
  BY CancelPart, Zenon
<1> HIDE DEF p
<1>2. /\ p.next = 0 /\ p.flags = {"SELECTABLE", "EXIT", "LASTOB"} /\ ~ p.selected
      /\ p.x = w - 10 * cell.w /\ p.y = ButtonY(n) /\ p.w = 8 * cell.w /\ p.h = cell.h
  BY <1>1
<1> QED BY <1>2, Zenon DEF p

(* Which one is selected does not show in the shape.                       *)
LEMMA ShapeAnyDefault ==
  ASSUME NEW n \in 1 .. MAX_OPTIONS, NEW d, NEW w, NEW o \in D!Objects
  PROVE  Shape(D!Built(n, d, w)[o]) = Shape(D!Built(n, 0, w)[o])
<1>1. o = 0 \/ o = 1 \/ o \in 2 .. n + 1 \/ o = n + 2 \/ o = n + 3 \/ o \notin 0 .. n + 3
  BY Numbers
<1>2. CASE o = 0
  <2>1. o \in 0 .. n + 3
    BY <1>2, Numbers
  <2>2. D!Built(n, d, w)[o] = D!Part(o, n, d, w) /\ D!Built(n, 0, w)[o] = D!Part(o, n, 0, w)
    BY <2>1, BuiltAt
  <2>3. D!Part(0, n, d, w) = D!Part(0, n, 0, w)
    BY RootPart, Zenon
  <2> QED BY <1>2, <2>2, <2>3
<1>3. CASE o = 1
  <2>1. o \in 0 .. n + 3
    BY <1>3, Numbers
  <2>2. D!Built(n, d, w)[o] = D!Part(o, n, d, w) /\ D!Built(n, 0, w)[o] = D!Part(o, n, 0, w)
    BY <2>1, BuiltAt
  <2>3. D!Part(1, n, d, w) = D!Part(1, n, 0, w)
    BY TitlePart, Zenon
  <2> QED BY <1>3, <2>2, <2>3
<1>4. CASE o \in 2 .. n + 1
  <2>1. o \in 0 .. n + 3
    BY <1>4, Numbers
  <2>2. D!Built(n, d, w)[o] = D!Part(o, n, d, w) /\ D!Built(n, 0, w)[o] = D!Part(o, n, 0, w)
    BY <2>1, BuiltAt
  <2>3. Shape(D!Part(o, n, d, w)) = Shape(D!Part(o, n, 0, w))
    BY <1>4, OptionPart DEF Shape
  <2> QED BY <2>2, <2>3
<1>5. CASE o = n + 2
  <2>1. o \in 0 .. n + 3
    BY <1>5, Numbers
  <2>2. D!Built(n, d, w)[o] = D!Part(o, n, d, w) /\ D!Built(n, 0, w)[o] = D!Part(o, n, 0, w)
    BY <2>1, BuiltAt
  <2>3. D!Part(n + 2, n, d, w) = D!Part(n + 2, n, 0, w)
    BY OkPart, Zenon
  <2> QED BY <1>5, <2>2, <2>3
<1>6. CASE o = n + 3
  <2>1. o \in 0 .. n + 3
    BY <1>6, Numbers
  <2>2. D!Built(n, d, w)[o] = D!Part(o, n, d, w) /\ D!Built(n, 0, w)[o] = D!Part(o, n, 0, w)
    BY <2>1, BuiltAt
  <2>3. D!Part(n + 3, n, d, w) = D!Part(n + 3, n, 0, w)
    BY CancelPart, Zenon
  <2> QED BY <1>6, <2>2, <2>3
<1>7. CASE o \notin 0 .. n + 3
  <2>1. D!Built(n, d, w)[o] = D!Built(n, 0, w)[o]
    BY <1>7, BuiltAt
  <2> QED BY <2>1
<1> QED BY <1>1, <1>2, <1>3, <1>4, <1>5, <1>6, <1>7

(* The radio button of the default is the only one selected.               *)
LEMMA BuiltSelected ==
  ASSUME NEW n \in 1 .. MAX_OPTIONS, NEW d \in 0 .. n - 1, NEW w, NEW o \in D!Objects
  PROVE  D!Built(n, d, w)[o].selected <=> o = d + 2
<1>1. o = 0 \/ o = 1 \/ o \in 2 .. n + 1 \/ o = n + 2 \/ o = n + 3 \/ o \notin 0 .. n + 3
  BY Numbers
<1>2. CASE o = 0
  <2>1. o \in 0 .. n + 3 /\ o # d + 2
    BY <1>2, Numbers
  <2>2. D!Built(n, d, w)[o] = D!Part(o, n, d, w)
    BY <2>1, BuiltAt
  <2>3. D!Part(0, n, d, w).selected = FALSE
    BY RootPart
  <2> QED BY <1>2, <2>1, <2>2, <2>3
<1>3. CASE o = 1
  <2>1. o \in 0 .. n + 3 /\ o # d + 2
    BY <1>3, Numbers
  <2>2. D!Built(n, d, w)[o] = D!Part(o, n, d, w)
    BY <2>1, BuiltAt
  <2>3. D!Part(1, n, d, w).selected = FALSE
    BY TitlePart
  <2> QED BY <1>3, <2>1, <2>2, <2>3
<1>4. CASE o \in 2 .. n + 1
  <2>1. o \in 0 .. n + 3 /\ (o - 2 = d <=> o = d + 2)
    BY <1>4, Numbers
  <2>2. D!Built(n, d, w)[o] = D!Part(o, n, d, w)
    BY <2>1, BuiltAt
  <2>3. D!Part(o, n, d, w).selected = (o - 2 = d)
    BY <1>4, OptionPart
  <2> QED BY <2>1, <2>2, <2>3
<1>5. CASE o = n + 2
  <2>1. o \in 0 .. n + 3 /\ o # d + 2
    BY <1>5, Numbers
  <2>2. D!Built(n, d, w)[o] = D!Part(o, n, d, w)
    BY <2>1, BuiltAt
  <2>3. ~ D!Part(n + 2, n, d, w).selected
    BY OkFields, Zenon
  <2> QED BY <1>5, <2>1, <2>2, <2>3
<1>6. CASE o = n + 3
  <2>1. o \in 0 .. n + 3 /\ o # d + 2
    BY <1>6, Numbers
  <2>2. D!Built(n, d, w)[o] = D!Part(o, n, d, w)
    BY <2>1, BuiltAt
  <2>3. ~ D!Part(n + 3, n, d, w).selected
    BY CancelFields, Zenon
  <2> QED BY <1>6, <2>1, <2>2, <2>3
<1>7. CASE o \notin 0 .. n + 3
  <2>1. D!Wiped[o].selected = FALSE
    BY DEF D!Wiped
  <2>2. o # d + 2 /\ D!Built(n, d, w)[o] = D!Wiped[o]
    BY <1>7, BuiltAt, Numbers
  <2> QED BY <2>1, <2>2
<1> QED BY <1>1, <1>2, <1>3, <1>4, <1>5, <1>6, <1>7

(* What the AES finds at each object.                                      *)
LEMMA Laid ==
  ASSUME NEW n \in 1 .. MAX_OPTIONS, NEW w, Stands(n, w)
  PROVE  /\ RootStands(n, w) /\ TitleStands(w) /\ OkStands(n) /\ CancelStands(n, w)
         /\ \A o \in 2 .. n + 1 : OptionStands(o, w)
         /\ \A o \in n + 4 .. MAX_OPTIONS + 3 : tree[o].flags = {}
<1>1. \A o \in 0 .. n + 3 : o \in D!Objects /\ Shape(tree[o]) = Shape(D!Part(o, n, 0, w))
  <2>1. ASSUME NEW o \in 0 .. n + 3 PROVE o \in D!Objects /\ Shape(tree[o]) = Shape(D!Part(o, n, 0, w))
    <3>1. o \in D!Objects
      BY Numbers
    <3>2. D!Built(n, 0, w)[o] = D!Part(o, n, 0, w)
      BY <3>1, BuiltAt
    <3> QED BY <3>1, <3>2 DEF Stands
  <2> QED BY <2>1
<1>2. RootStands(n, w)
  <2>1. Shape(tree[0]) = Shape(D!Part(0, n, 0, w))
    BY <1>1, Numbers
  <2> QED BY <2>1, RootPart DEF Shape, RootStands, Last
<1>3. TitleStands(w)
  <2>1. Shape(tree[1]) = Shape(D!Part(1, n, 0, w))
    BY <1>1, Numbers
  <2> QED BY <2>1, TitlePart DEF Shape, TitleStands
<1>4. OkStands(n)
  <2>1. Shape(tree[n + 2]) = Shape(D!Part(n + 2, n, 0, w))
    BY <1>1, Numbers
  <2> DEFINE p == D!Part(n + 2, n, 0, w)
             r == tree[n + 2]
  <2>2. /\ r.next = p.next /\ r.flags = p.flags /\ r.x = p.x /\ r.y = p.y /\ r.w = p.w /\ r.h = p.h
    BY <2>1 DEF Shape
  <2>3. p = [next |-> n + 3, head |-> -1, tail |-> -1,
             flags |-> {"SELECTABLE", "DEFAULT", "EXIT"}, selected |-> FALSE,
             x |-> 2 * cell.w, y |-> ButtonY(n), w |-> 8 * cell.w, h |-> cell.h]
    BY OkPart, Zenon
  <2> HIDE DEF p, r
  <2>4. /\ p.next = n + 3 /\ p.flags = {"SELECTABLE", "DEFAULT", "EXIT"}
        /\ p.x = 2 * cell.w /\ p.y = ButtonY(n) /\ p.w = 8 * cell.w /\ p.h = cell.h
    BY <2>3
  <2> QED BY <2>2, <2>4 DEF OkStands, r
<1>5. CancelStands(n, w)
  <2>1. Shape(tree[n + 3]) = Shape(D!Part(n + 3, n, 0, w))
    BY <1>1, Numbers
  <2> DEFINE p == D!Part(n + 3, n, 0, w)
             r == tree[n + 3]
  <2>2. /\ r.next = p.next /\ r.flags = p.flags /\ r.x = p.x /\ r.y = p.y /\ r.w = p.w /\ r.h = p.h
    BY <2>1 DEF Shape
  <2>3. p = [next |-> 0, head |-> -1, tail |-> -1,
             flags |-> {"SELECTABLE", "EXIT", "LASTOB"}, selected |-> FALSE,
             x |-> w - 10 * cell.w, y |-> ButtonY(n), w |-> 8 * cell.w, h |-> cell.h]
    BY CancelPart, Zenon
  <2> HIDE DEF p, r
  <2>4. /\ p.next = 0 /\ p.flags = {"SELECTABLE", "EXIT", "LASTOB"}
        /\ p.x = w - 10 * cell.w /\ p.y = ButtonY(n) /\ p.w = 8 * cell.w /\ p.h = cell.h
    BY <2>3
  <2> QED BY <2>2, <2>4 DEF CancelStands, r
<1>6. ASSUME NEW o \in 2 .. n + 1 PROVE OptionStands(o, w)
  <2>1. Shape(tree[o]) = Shape(D!Part(o, n, 0, w))
    BY <1>1, Numbers
  <2> QED BY <2>1, OptionPart DEF Shape, OptionStands
<1>7. ASSUME NEW o \in n + 4 .. MAX_OPTIONS + 3 PROVE tree[o].flags = {}
  <2>1. o \in D!Objects /\ o \notin 0 .. n + 3
    BY Numbers
  <2>2. Shape(tree[o]) = Shape(D!Wiped[o]) /\ D!Wiped[o].flags = {}
    BY <2>1, BuiltAt DEF Stands, D!Wiped
  <2> QED BY <2>2 DEF Shape
<1> QED BY <1>2, <1>3, <1>4, <1>5, <1>6, <1>7

(* The links of a tree, followed for ever.                                 *)
Follow(g) ==
  [n \in Nat |-> IF n = 0 THEN tree[D!Root].head
                 ELSE IF g[n - 1] \in DOMAIN tree \ {D!Root} THEN tree[g[n - 1]].next
                 ELSE g[n - 1]]

(* The links are followed as a function of the number of steps.            *)
LEMMA FollowIs == ASSUME NEW g PROVE Follow(g) = [m \in Nat |-> Follow(g)[m]]
  BY Zenon DEF Follow

(* The walk is what the links determine.                                   *)
LEMMA WalkFollows ==
  ASSUME NEW f, f = Follow(f), \A g : g = Follow(g) => g = f
  PROVE  D!Walk = [n \in 1 .. D!Cardinality(D!Objects) |-> f[n - 1]]
<1> DEFINE P(g) == g = Follow(g)
<1>1. P(CHOOSE g : P(g))
  BY Zenon
<1>2. f = CHOOSE g : g = Follow(g)
  BY <1>1, Zenon
<1> QED BY <1>2, Zenon DEF D!Walk, Follow

(* Where the links of a dialog lead.                                       *)
LEMMA LinksAre ==
  ASSUME NEW n \in 1 .. MAX_OPTIONS, NEW w, Stands(n, w), tree \in [D!Objects -> Object]
  PROVE  /\ DOMAIN tree = 0 .. MAX_OPTIONS + 3 /\ tree[D!Root].head = 1
         /\ \A o \in 1 .. n + 3 : o \in DOMAIN tree \ {D!Root}
                                 /\ tree[o].next = IF o < n + 3 THEN o + 1 ELSE 0
<1>1. RootStands(n, w) /\ TitleStands(w) /\ OkStands(n) /\ CancelStands(n, w)
  BY Laid
<1>2. \A o \in 2 .. n + 1 : OptionStands(o, w)
  BY Laid
<1>3. DOMAIN tree = D!Objects
  OBVIOUS
<1>4. DOMAIN tree = 0 .. MAX_OPTIONS + 3 /\ tree[D!Root].head = 1
  BY <1>1, <1>3, Numbers DEF RootStands
<1>5. ASSUME NEW o \in 1 .. n + 3
      PROVE  /\ o \in DOMAIN tree \ {D!Root}
             /\ tree[o].next = IF o < n + 3 THEN o + 1 ELSE 0
  <2>1. o \in DOMAIN tree \ {D!Root}
    BY <1>4, Numbers
  <2>2. o = 1 \/ o \in 2 .. n + 1 \/ o = n + 2 \/ o = n + 3
    BY Numbers
  <2>3. tree[1].next = 2 /\ tree[n + 2].next = n + 3 /\ tree[n + 3].next = 0
    BY <1>1 DEF TitleStands, OkStands, CancelStands
  <2>4. o \in 2 .. n + 1 => tree[o].next = o + 1
    BY <1>2 DEF OptionStands
  <2>5. tree[o].next = IF o < n + 3 THEN o + 1 ELSE 0
    BY <2>2, <2>3, <2>4, Numbers
  <2> QED BY <2>1, <2>5
<1> QED BY <1>4, <1>5

(* The links lead through every object once, and back to the root.         *)
LEMMA WalkIs ==
  ASSUME NEW n \in 1 .. MAX_OPTIONS, NEW w, Stands(n, w), tree \in [D!Objects -> Object]
  PROVE  D!Walk = [k \in 1 .. MAX_OPTIONS + 4 |-> IF k <= n + 3 THEN k ELSE 0]
<1> DEFINE f == [m \in Nat |-> IF m < n + 3 THEN m + 1 ELSE 0]
<1>1. n \in Nat /\ n > 0 /\ MAX_OPTIONS \in Nat
  BY Numbers
<1>2. ASSUME NEW g, NEW m \in Nat, m # 0 => g[m - 1] = f[m - 1]
      PROVE  Follow(g)[m] = f[m]
  <2>1. Follow(g)[m] = IF m = 0 THEN tree[D!Root].head
                       ELSE IF g[m - 1] \in DOMAIN tree \ {D!Root} THEN tree[g[m - 1]].next
                       ELSE g[m - 1]
    BY DEF Follow
  <2>2. CASE m = 0
    BY <1>1, <2>1, <2>2, LinksAre
  <2>3. CASE m # 0 /\ m - 1 < n + 3
    <3>1. g[m - 1] = m /\ m \in 1 .. n + 3
      BY <1>1, <1>2, <2>3
    <3>2. Follow(g)[m] = tree[m].next
      BY <2>1, <2>3, <3>1, LinksAre
    <3>3. tree[m].next = IF m < n + 3 THEN m + 1 ELSE 0
      BY <3>1, LinksAre
    <3> QED BY <3>2, <3>3
  <2>4. CASE m # 0 /\ ~ (m - 1 < n + 3)
    <3>1. g[m - 1] = 0 /\ f[m] = 0
      BY <1>1, <1>2, <2>4
    <3>2. g[m - 1] \notin DOMAIN tree \ {D!Root}
      BY <3>1, Numbers
    <3> QED BY <2>1, <2>4, <3>1, <3>2
  <2> QED BY <2>2, <2>3, <2>4
<1>3. f = Follow(f)
  <2>1. \A m \in Nat : Follow(f)[m] = f[m]
    BY <1>2
  <2>2. Follow(f) = [m \in Nat |-> Follow(f)[m]]
    BY FollowIs
  <2> QED BY <2>1, <2>2
<1>4. ASSUME NEW g, g = Follow(g) PROVE g = f
  <2> DEFINE Bad == {m \in Nat : g[m] # f[m]}
  <2>1. Bad = {}
    <3> SUFFICES ASSUME Bad # {} PROVE FALSE
      OBVIOUS
    <3>1. PICK m \in Bad : \A k \in Bad : ~ (<<k, m>> \in OpToRel(<, Nat))
      <4>1. Bad \subseteq Nat
        OBVIOUS
      <4> HIDE DEF Bad
      <4> QED BY <4>1, NatLessThanWellFounded, WFMin
    <3>2. ASSUME m # 0 PROVE g[m - 1] = f[m - 1]
      <4>1. m \in Nat /\ m - 1 \in Nat /\ m - 1 < m
        BY <3>2
      <4>2. <<m - 1, m>> \in OpToRel(<, Nat)
        BY <4>1 DEF OpToRel
      <4> QED BY <3>1, <4>1, <4>2
    <3>3. Follow(g)[m] = f[m]
      BY <1>2, <3>2
    <3> QED BY <1>4, <3>3
  <2>2. \A m \in Nat : g[m] = f[m]
    BY <2>1
  <2>3. g = [m \in Nat |-> g[m]]
    <3>1. Follow(g) = [m \in Nat |-> Follow(g)[m]]
      BY FollowIs
    <3> QED BY <1>4, <3>1
  <2> QED BY <2>2, <2>3
<1>5. D!Walk = [k \in 1 .. D!Cardinality(D!Objects) |-> f[k - 1]]
  <2> HIDE DEF f
  <2> QED BY <1>3, <1>4, WalkFollows
<1>6. D!Cardinality(D!Objects) = MAX_OPTIONS + 4
  <2>1. D!Cardinality(D!Objects) = Cardinality(D!Objects)
    BY DEF D!Cardinality, Cardinality
  <2>2. Cardinality(0 .. MAX_OPTIONS + 3) = MAX_OPTIONS + 4
    BY <1>1, FS_Interval
  <2> QED BY <2>1, <2>2, Numbers
<1>7. \A k \in 1 .. MAX_OPTIONS + 4 : f[k - 1] = IF k <= n + 3 THEN k ELSE 0
  BY <1>1
<1> HIDE DEF f
<1> QED BY <1>5, <1>6, <1>7

(* One object, the last, is marked as the last.                            *)
LEMMA LastOne ==
  ASSUME NEW n \in 1 .. MAX_OPTIONS, NEW w, Stands(n, w), tree \in [D!Objects -> Object]
  PROVE  {o \in D!Objects : "LASTOB" \in tree[o].flags} = {n + 3}
<1>1. RootStands(n, w) /\ TitleStands(w) /\ OkStands(n) /\ CancelStands(n, w)
  BY Laid
<1>2. \A o \in 2 .. n + 1 : OptionStands(o, w)
  BY Laid
<1>3. \A o \in n + 4 .. MAX_OPTIONS + 3 : tree[o].flags = {}
  BY Laid
<1>4. ASSUME NEW o \in D!Objects PROVE "LASTOB" \in tree[o].flags <=> o = n + 3
  <2>1. \/ o = 0 \/ o = 1 \/ o \in 2 .. n + 1 \/ o = n + 2 \/ o = n + 3
        \/ o \in n + 4 .. MAX_OPTIONS + 3
    <3>1. n \in Nat /\ MAX_OPTIONS \in Nat /\ D!Objects = 0 .. MAX_OPTIONS + 3
      BY Numbers
    <3> QED BY <3>1
  <2>2. tree[0].flags = {} /\ tree[1].flags = {}
    BY <1>1 DEF RootStands, TitleStands
  <2>3. "LASTOB" \notin tree[n + 2].flags /\ "LASTOB" \in tree[n + 3].flags
    BY <1>1 DEF OkStands, CancelStands
  <2>4. o \in 2 .. n + 1 => "LASTOB" \notin tree[o].flags
    BY <1>2 DEF OptionStands
  <2> QED BY <1>3, <2>1, <2>2, <2>3, <2>4, Numbers
<1>5. n + 3 \in D!Objects
  BY Numbers
<1> QED BY <1>4, <1>5

(* All but the root are its children.                                      *)
LEMMA ChildrenAre ==
  ASSUME NEW n \in 1 .. MAX_OPTIONS, NEW w, Stands(n, w), tree \in [D!Objects -> Object]
  PROVE  D!Children = 1 .. n + 3
<1>1. n \in Nat /\ n > 0 /\ MAX_OPTIONS \in Nat /\ n <= MAX_OPTIONS
  BY Numbers
<1>2. D!Min({n + 3}) = n + 3
  <2>1. D!Min({n + 3}) \in {n + 3}
    BY <1>1 DEF D!Min
  <2> QED BY <2>1
<1>3. D!Extent = 0 .. n + 3
  <2>1. DOMAIN tree = D!Objects
    OBVIOUS
  <2>2. {o \in DOMAIN tree : "LASTOB" \in tree[o].flags} = {n + 3}
    BY <2>1, LastOne
  <2>3. {n + 3} # {}
    OBVIOUS
  <2> QED BY <1>2, <2>2, <2>3 DEF D!Extent
<1>4. D!Walk = [k \in 1 .. MAX_OPTIONS + 4 |-> IF k <= n + 3 THEN k ELSE 0]
  BY WalkIs
<1>5. {D!Walk[k] : k \in DOMAIN D!Walk} = 0 .. n + 3 \/ {D!Walk[k] : k \in DOMAIN D!Walk} = 1 .. n + 3
  <2>1. \A k \in 1 .. MAX_OPTIONS + 4 : D!Walk[k] = IF k <= n + 3 THEN k ELSE 0
    BY <1>4
  <2>2. DOMAIN D!Walk = 1 .. MAX_OPTIONS + 4
    BY <1>4
  <2>3. {D!Walk[k] : k \in DOMAIN D!Walk} \subseteq 0 .. n + 3
    BY <1>1, <2>1, <2>2
  <2>4. \A k \in 1 .. n + 3 : k \in DOMAIN D!Walk /\ D!Walk[k] = k
    BY <1>1, <2>1, <2>2
  <2>5. 1 .. n + 3 \subseteq {D!Walk[k] : k \in DOMAIN D!Walk}
    BY <2>4
  <2> QED BY <1>1, <2>3, <2>5
<1> QED BY <1>1, <1>3, <1>5, Numbers DEF D!Children

(* The options are radio buttons, OK and Cancel end the dialog.            *)
LEMMA ButtonsAre ==
  ASSUME NEW n \in 1 .. MAX_OPTIONS, NEW w, Stands(n, w), tree \in [D!Objects -> Object]
  PROVE  D!Has("RBUTTON") = 2 .. n + 1 /\ D!Has("EXIT") = {n + 2, n + 3}
<1>1. RootStands(n, w) /\ TitleStands(w) /\ OkStands(n) /\ CancelStands(n, w)
  BY Laid
<1>2. \A o \in 2 .. n + 1 : OptionStands(o, w)
  BY Laid
<1>3. D!Children = 1 .. n + 3
  BY ChildrenAre
<1>4. ASSUME NEW o \in 1 .. n + 3
      PROVE  /\ "RBUTTON" \in tree[o].flags <=> o \in 2 .. n + 1
             /\ "EXIT" \in tree[o].flags <=> o \in {n + 2, n + 3}
  <2>1. o = 1 \/ o \in 2 .. n + 1 \/ o = n + 2 \/ o = n + 3
    BY Numbers
  <2>2. /\ tree[1].flags = {} /\ tree[n + 2].flags = {"SELECTABLE", "DEFAULT", "EXIT"}
        /\ tree[n + 3].flags = {"SELECTABLE", "EXIT", "LASTOB"}
    BY <1>1 DEF TitleStands, OkStands, CancelStands
  <2>3. o \in 2 .. n + 1 => tree[o].flags = {"SELECTABLE", "RBUTTON"}
    BY <1>2 DEF OptionStands
  <2>4. CASE o = 1
    BY <2>2, <2>4, Numbers
  <2>5. CASE o \in 2 .. n + 1
    BY <2>3, <2>5, Numbers
  <2>6. CASE o = n + 2
    BY <2>2, <2>6, Numbers
  <2>7. CASE o = n + 3
    BY <2>2, <2>7, Numbers
  <2> QED BY <2>1, <2>4, <2>5, <2>6, <2>7
<1>5. 2 .. n + 1 \subseteq 1 .. n + 3 /\ {n + 2, n + 3} \subseteq 1 .. n + 3
  BY Numbers
<1> QED BY <1>3, <1>4, <1>5 DEF D!Has

(* Rows do not overlap.                                                    *)
LEMMA Rows ==
  ASSUME NEW i \in Nat, NEW j \in Nat, i < j, NEW h \in Nat
  PROVE  i * (h + 2) + h <= j * (h + 2)
<1>1. PICK k \in Nat : j = i + 1 + k
  <2>1. j - i - 1 \in Nat /\ j = i + 1 + (j - i - 1)
    OBVIOUS
  <2> QED BY <2>1
<1>2. j * (h + 2) = i * (h + 2) + (h + 2) + k * (h + 2)
  BY <1>1
<1>3. k * (h + 2) >= 0
  OBVIOUS
<1>4. i * (h + 2) \in Int /\ k * (h + 2) \in Int
  OBVIOUS
<1> QED BY <1>2, <1>3, <1>4

(* How high the rows are.                                                  *)
LEMMA Heights ==
  ASSUME NEW n \in 1 .. MAX_OPTIONS, cell.h \in Nat \ {0}, 
         NEW i \in 0 .. n, NEW j \in 0 .. n, i < j
  PROVE  /\ D!OptionY(i) \in Nat /\ D!OptionY(j) \in Nat
         /\ D!OptionY(i) + cell.h <= D!OptionY(j)
         /\ cell.h \div 2 + cell.h <= D!OptionY(i) /\ cell.h \div 2 \in Nat
<1>1. n \in Nat /\ i \in Nat /\ j \in Nat
  BY Numbers
<1> DEFINE a == i * (cell.h + 2)
           b == j * (cell.h + 2)
<1>2. a + cell.h <= b /\ a \in Nat /\ b \in Nat
  BY <1>1, Rows
<1>3. cell.h \div 2 \in Nat
  OBVIOUS
<1>4. D!OptionY(i) = 2 * (cell.h \div 2) + cell.h + a /\ D!OptionY(j) = 2 * (cell.h \div 2) + cell.h + b
  BY DEF D!OptionY
<1> HIDE DEF a, b
<1> QED BY <1>2, <1>3, <1>4

(* No two objects overlap, and each is in the box.                         *)
Inside(o) ==
  /\ tree[o].x >= 0 /\ tree[o].y >= 0 /\ tree[o].w > 0
  /\ tree[o].x + tree[o].w <= tree[D!Root].w /\ tree[o].y + tree[o].h <= tree[D!Root].h
(* Two objects that do not overlap.                                        *)
Apart(o, p) ==
  \/ tree[o].x + tree[o].w <= tree[p].x \/ tree[p].x + tree[p].w <= tree[o].x
  \/ tree[o].y + tree[o].h <= tree[p].y \/ tree[p].y + tree[p].h <= tree[o].y

(* No two objects overlap, and each is in the box.                         *)
LEMMA AllApart ==
  ASSUME NEW n \in 1 .. MAX_OPTIONS, NEW w \in Int, Stands(n, w), w >= 22 * cell.w,
         cell.w \in Nat \ {0}, cell.h \in Nat \ {0}
  PROVE  \A o \in 1 .. n + 3 : Inside(o) /\ \A p \in 1 .. n + 3 : p # o => Apart(o, p)
<1>1. RootStands(n, w) /\ TitleStands(w) /\ OkStands(n) /\ CancelStands(n, w)
  BY Laid
<1>2. \A o \in 2 .. n + 1 : OptionStands(o, w)
  BY Laid
<1>3. n \in Nat /\ n > 0 /\ 0 \in 0 .. n /\ n \in 0 .. n
  BY Numbers
<1>4. \A o \in 1 .. n + 3 : o = 1 \/ o \in 2 .. n + 1 \/ o = n + 2 \/ o = n + 3
  BY <1>3
<1>5. /\ D!OptionY(n) \in Nat /\ cell.h \div 2 \in Nat
      /\ cell.h \div 2 + cell.h <= D!OptionY(n)
  BY <1>3, Heights
<1> DEFINE half == cell.h \div 2
<1>6. half \in Nat
  BY <1>5
<1>7. \A o \in 2 .. n + 1 : /\ D!OptionY(o - 2) \in Nat /\ D!OptionY(o - 2) + cell.h <= D!OptionY(n)
                           /\ half + cell.h <= D!OptionY(o - 2)
  BY <1>3, Heights
<1> HIDE DEF half
<1>a. /\ tree[1].x = cell.w /\ tree[1].y = half /\ tree[1].w = w - 2 * cell.w /\ tree[1].h = cell.h
  BY <1>1 DEF TitleStands, half
<1>b. \A o \in 2 .. n + 1 : 
        /\ tree[o].x = 2 * cell.w /\ tree[o].y = D!OptionY(o - 2)
        /\ tree[o].w = w - 4 * cell.w /\ tree[o].h = cell.h
  BY <1>2 DEF OptionStands
<1>c. /\ tree[n + 2].x = 2 * cell.w /\ tree[n + 2].y = D!OptionY(n) + half
      /\ tree[n + 2].w = 8 * cell.w /\ tree[n + 2].h = cell.h
  BY <1>1 DEF OkStands, ButtonY, half
<1>d. /\ tree[n + 3].x = w - 10 * cell.w /\ tree[n + 3].y = D!OptionY(n) + half
      /\ tree[n + 3].w = 8 * cell.w /\ tree[n + 3].h = cell.h
  BY <1>1 DEF CancelStands, ButtonY, half
<1>e. tree[D!Root].w = w /\ tree[D!Root].h = D!OptionY(n) + half + cell.h + half
  BY <1>1, Numbers DEF RootStands, ButtonY, half
<1> DEFINE top == D!OptionY(n)
           W == cell.w
           H == cell.h
<1>f. top \in Nat /\ W \in Nat /\ H \in Nat /\ W > 0 /\ H > 0 /\ half + H <= top
  BY <1>5 DEF half
<1>8. ASSUME NEW o \in 1 .. n + 3 PROVE Inside(o)
  <2>1. CASE o = 1
    BY <2>1, <1>a, <1>e, <1>f, <1>6 DEF Inside
  <2>2. CASE o \in 2 .. n + 1
    <3> DEFINE y == D!OptionY(o - 2)
    <3>1. y \in Nat /\ y + H <= top
      BY <2>2, <1>7
    <3>2. tree[o].x = 2 * W /\ tree[o].y = y /\ tree[o].w = w - 4 * W /\ tree[o].h = H
      BY <2>2, <1>b
    <3> HIDE DEF y
    <3> QED BY <3>1, <3>2, <1>e, <1>f, <1>6 DEF Inside
  <2>3. CASE o = n + 2
    BY <2>3, <1>c, <1>e, <1>f, <1>6 DEF Inside
  <2>4. CASE o = n + 3
    BY <2>4, <1>d, <1>e, <1>f, <1>6 DEF Inside
  <2> QED BY <1>4, <2>1, <2>2, <2>3, <2>4
<1>9. ASSUME NEW o \in 1 .. n + 3, NEW p \in 1 .. n + 3, o < p PROVE Apart(o, p) /\ Apart(p, o)
  <2>1. CASE o = 1 /\ p \in 2 .. n + 1
    BY <2>1, <1>a, <1>b, <1>7 DEF Apart
  <2>2. CASE o = 1 /\ p \in {n + 2, n + 3}
    BY <2>2, <1>a, <1>c, <1>d, <1>f, <1>6 DEF Apart
  <2>3. CASE o \in 2 .. n + 1 /\ p \in 2 .. n + 1
    <3>1. o - 2 \in 0 .. n /\ p - 2 \in 0 .. n /\ o - 2 < p - 2
      BY <2>3, <1>3, <1>9
    <3>2. D!OptionY(o - 2) + cell.h <= D!OptionY(p - 2)
      BY <3>1, Heights
    <3> QED BY <2>3, <3>2, <1>b DEF Apart
  <2>4. CASE o \in 2 .. n + 1 /\ p \in {n + 2, n + 3}
    <3> DEFINE y == D!OptionY(o - 2)
    <3>1. y \in Nat /\ y + H <= top
      BY <2>4, <1>7
    <3>2. tree[o].y = y /\ tree[o].h = H /\ tree[p].y = top + half
      BY <2>4, <1>b, <1>c, <1>d
    <3> HIDE DEF y, top, H
    <3>3. tree[o].y + tree[o].h <= tree[p].y
      BY <3>1, <3>2, <1>f, <1>6
    <3> QED BY <3>3 DEF Apart
  <2>5. CASE o = n + 2 /\ p = n + 3
    BY <2>5, <1>c, <1>d DEF Apart
  <2> QED BY <1>3, <1>4, <1>9, <2>1, <2>2, <2>3, <2>4, <2>5
<1>g. ASSUME NEW o \in 1 .. n + 3, NEW p \in 1 .. n + 3, p # o PROVE Apart(o, p)
  <2>1. o < p \/ p < o
    BY <1>3, <1>g
  <2> QED BY <2>1, <1>9
<1> QED BY <1>8, <1>g

(* Every variable of a dialog has its type.                                *)
AskTyped ==
  /\ target \in Targets /\ cell \in Cells /\ tree \in [D!Objects -> Object]
  /\ pc \in {"idle", "form", "struck", "row", "popup", "OK", "OKCANCEL", "YESNO"}
  /\ count \in D!Counts /\ default \in D!Counts /\ shown \subseteq 0 .. count - 1
  /\ struck \in D!Objects
  /\ status \in {"none", "OK", "ERR", "RANGE"}
  /\ answer \in {"none", "CHOSEN", "CANCELLED", "OK", "CANCEL", "YES", "NO"}
  /\ index \in D!Counts

(* Who asks what; nothing is left of a dialog that has returned.           *)
WhoAsks ==
  /\ pc = "idle" => count = 0 /\ default = 0 /\ shown = {}
  /\ pc \in {"form", "struck"} => target = "atari" /\ count \in 1 .. MAX_OPTIONS
  /\ pc = "row" => target = "dos"
  /\ pc = "popup" => target = "mac"
  /\ pc \in {"OK", "OKCANCEL", "YESNO"} => target = "dos" /\ count = 0 /\ default = 0 /\ shown = {}

(* The tree in the array is the tree of this dialog, in which one option   *)
(* is selected, and the button the user has struck.                        *)
Displayed ==
  pc \in {"form", "struck"} => \E w \in Int : w >= 22 * cell.w /\ Stands(count, w)
(* Option i is selected, and object s, and nothing else.                   *)
OneSelected(i, s) ==
  \A o \in D!Objects : tree[o].selected <=> o = i + 2 \/ o = s
(* What is selected while the user looks at it, and when he has done.      *)
Selects ==
  /\ pc = "form" => \E i \in 0 .. count - 1 : OneSelected(i, i + 2)
  /\ pc = "struck" => /\ struck \in {count + 2, count + 3}
                      /\ \E i \in 0 .. count - 1 : OneSelected(i, struck)

(* The invariant of the dialogs.                                           *)
DialogInv == AskTyped /\ WhoAsks /\ Displayed /\ Selects
(* What a step of the dialogs has to be.                                   *)
DialogSteps == DialogInv' /\ (D!Seam!Next \/ UNCHANGED D!Seam!vars)

(* How the backends differ.                                                *)
LEMMA QuirksAre ==
  /\ target = "dos" => D!Quirks = {"picks", "crowds"}
  /\ target = "mac" => D!Quirks = {"picks"}
  /\ target = "host" => D!Quirks = {"deaf"}
<1>1. target = "dos" => D!Quirks = {"picks", "crowds"}
  BY Zenon DEF D!Quirks
<1>2. target = "mac" => D!Quirks = {"picks"}
  BY Zenon DEF D!Quirks
<1>3. target = "host" => D!Quirks = {"deaf"}
  BY Zenon DEF D!Quirks
<1> QED BY <1>1, <1>2, <1>3

(* A backend stays the one it is.                                          *)
LEMMA QuirksStay == UNCHANGED target => UNCHANGED D!Quirks
  BY DEF D!Quirks

(* What the user has been asked.                                           *)
LEMMA AskedIs ==
  /\ pc = "idle" => D!Asked = "none"
  /\ pc \in {"form", "struck", "row", "popup"} => D!Asked = "choice"
  /\ pc \in {"OK", "OKCANCEL", "YESNO"} => D!Asked = pc
<1>1. pc = "idle" => D!Asked = "none"
  BY Zenon DEF D!Asked
<1>2. pc \in {"form", "struck", "row", "popup"} => D!Asked = "choice"
  BY Zenon DEF D!Asked
<1>3. pc \in {"OK", "OKCANCEL", "YESNO"} => D!Asked = pc
  BY Zenon DEF D!Asked
<1> QED BY <1>1, <1>2, <1>3

(* The same of the next state.                                             *)
LEMMA AskedIsThen ==
  /\ pc' = "idle" => D!Asked' = "none"
  /\ pc' \in {"form", "struck", "row", "popup"} => D!Asked' = "choice"
  /\ pc' \in {"OK", "OKCANCEL", "YESNO"} => D!Asked' = pc'
<1>1. pc' = "idle" => D!Asked' = "none"
  BY Zenon DEF D!Asked
<1>2. pc' \in {"form", "struck", "row", "popup"} => D!Asked' = "choice"
  BY Zenon DEF D!Asked
<1>3. pc' \in {"OK", "OKCANCEL", "YESNO"} => D!Asked' = pc'
  BY Zenon DEF D!Asked
<1> QED BY <1>1, <1>2, <1>3

(* The option marked is the one selected.                                  *)
LEMMA MarkedIs ==
  ASSUME NEW i \in 0 .. count - 1, pc \in {"form", "struck"}, count \in 1 .. MAX_OPTIONS,
         NEW s, OneSelected(i, s), s \notin 2 .. count + 1 \/ s = i + 2
  PROVE  D!Marked = i /\ D!Selected = {i}
<1>1. \A j \in 0 .. count - 1 : D!first_option + j \in D!Objects
                              /\ (tree[D!first_option + j].selected <=> j = i)
  <2> SUFFICES ASSUME NEW j \in 0 .. count - 1
               PROVE  D!first_option + j \in D!Objects
                      /\ (tree[D!first_option + j].selected <=> j = i)
    OBVIOUS
  <2>1. D!first_option + j = j + 2 /\ j + 2 \in D!Objects /\ j + 2 \in 2 .. count + 1
    BY Numbers
  <2>2. tree[j + 2].selected <=> j + 2 = i + 2 \/ j + 2 = s
    BY <2>1 DEF OneSelected
  <2>3. j + 2 = i + 2 <=> j = i
    OBVIOUS
  <2> QED BY <2>1, <2>2, <2>3
<1>2. D!Marked = CHOOSE j \in 0 .. count - 1 : tree[D!first_option + j].selected
  BY DEF D!Marked
<1>3. D!Marked = i
  BY <1>1, <1>2
<1>4. D!Selected = {i}
  BY <1>1 DEF D!Selected
<1> QED BY <1>3, <1>4

(* The same of the next state.                                             *)
LEMMA MarkedIsThen ==
  ASSUME NEW i \in 0 .. count' - 1, pc' \in {"form", "struck"}, count' \in 1 .. MAX_OPTIONS,
         NEW s, OneSelected(i, s)', s \notin 2 .. count' + 1 \/ s = i + 2
  PROVE  D!Marked' = i
<1>1. \A j \in 0 .. count' - 1 : D!first_option + j \in D!Objects
                              /\ (tree'[D!first_option + j].selected <=> j = i)
  <2> SUFFICES ASSUME NEW j \in 0 .. count' - 1
               PROVE  D!first_option + j \in D!Objects
                      /\ (tree'[D!first_option + j].selected <=> j = i)
    OBVIOUS
  <2> DEFINE n == count'
  <2>0. n \in 1 .. MAX_OPTIONS /\ j \in 0 .. n - 1
    OBVIOUS
  <2> HIDE DEF n
  <2>a. D!first_option + j = j + 2 /\ j + 2 \in D!Objects /\ j + 2 \in 2 .. n + 1
    BY <2>0, Numbers
  <2>1. D!first_option + j = j + 2 /\ j + 2 \in D!Objects /\ j + 2 \in 2 .. count' + 1
    BY <2>a DEF n
  <2>2. tree'[j + 2].selected <=> j + 2 = i + 2 \/ j + 2 = s
    BY <2>1 DEF OneSelected
  <2>3. j + 2 = i + 2 <=> j = i
    OBVIOUS
  <2> QED BY <2>1, <2>2, <2>3
<1>2. D!Marked' = CHOOSE j \in 0 .. count' - 1 : tree'[D!first_option + j].selected
  BY DEF D!Marked
<1> QED BY <1>1, <1>2

(* Otherwise it is the default.                                            *)
LEMMA MarkedElse == pc \notin {"form", "struck"} => D!Marked = D!Clamped(default, count)
  BY DEF D!Marked
(* The same of the next state.                                             *)
LEMMA MarkedElseThen == pc' \notin {"form", "struck"} => D!Marked' = D!Clamped(default', count')
  BY DEF D!Marked, D!Clamped

(* A character cell has an extent.                                         *)
LEMMA Characters ==
  ASSUME cell \in Cells
  PROVE  cell.w \in Nat \ {0} /\ cell.h \in Nat \ {0}
  BY DialogAssumption

(* A default that is none of the options becomes the first.                *)
LEMMA ClampedIs ==
  ASSUME NEW d \in D!Counts, NEW n \in D!Counts
  PROVE  /\ D!Clamped(d, n) \in D!Counts /\ (n > 0 => D!Clamped(d, n) \in 0 .. n - 1)
         /\ D!Seam!Clamped(d, n) = D!Clamped(d, n)
  BY DialogAssumption DEF D!Counts, D!Clamped, D!Seam!Clamped

(* A dialog that returns leaves nothing behind.                            *)
LEMMA LeavesNothing ==
  ASSUME DialogInv, NEW s \in {"none", "OK", "ERR", "RANGE"},
         NEW a \in {"none", "CHOSEN", "CANCELLED", "OK", "CANCEL", "YES", "NO"},
         NEW i \in D!Counts, D!Return(s, a, i), tree' \in [D!Objects -> Object]
  PROVE  DialogInv' /\ D!Seam!Returns(s, a) /\ index' = i
<1>1. /\ pc' = "idle" /\ count' = 0 /\ default' = 0 /\ shown' = {} /\ struck' = D!Root
      /\ status' = s /\ answer' = a /\ index' = i /\ target' = target /\ cell' = cell
  BY DEF D!Return
<1>2. AskTyped'
  <2>1. 0 \in D!Counts /\ D!Root \in D!Objects
    BY DialogAssumption DEF D!Counts, D!Root, D!Objects
  <2>2. target \in Targets /\ cell \in Cells
    BY DEF DialogInv, AskTyped
  <2> QED BY <1>1, <2>1, <2>2 DEF AskTyped
<1>3. WhoAsks' /\ Displayed' /\ Selects'
  BY <1>1 DEF WhoAsks, Displayed, Selects
<1>4. D!Asked' = "none" /\ D!Marked' = 0
  <2>1. D!Clamped(default', count') = 0
    BY <1>1 DEF D!Clamped
  <2> QED BY <1>1, <2>1, AskedIsThen, MarkedElseThen
<1>5. D!Seen' = {}
  BY <1>1 DEF D!Seen
<1>6. UNCHANGED D!Quirks
  BY <1>1, QuirksStay
<1>7. D!Seam!Returns(s, a)
  BY <1>1, <1>4, <1>5, <1>6 DEF D!Seam!Returns
<1> QED BY <1>1, <1>2, <1>3, <1>7 DEF DialogInv

(* At first nothing has been asked.                                        *)
LEMMA DialogStarts == D!Init => DialogInv /\ D!Seam!Init
<1> SUFFICES ASSUME D!Init PROVE DialogInv /\ D!Seam!Init
  OBVIOUS
<1>1. /\ target \in Targets /\ cell \in Cells /\ tree = D!Wiped
      /\ pc = "idle" /\ count = 0 /\ default = 0 /\ shown = {} /\ struck = D!Root
      /\ status = "none" /\ answer = "none" /\ index = 0
  BY DEF D!Init
<1>2. AskTyped
  <2>1. 0 \in D!Counts /\ D!Root \in D!Objects
    BY DialogAssumption DEF D!Counts, D!Root, D!Objects
  <2> QED BY <1>1, <2>1, WipedIsTree DEF AskTyped
<1>3. WhoAsks /\ Displayed /\ Selects
  BY <1>1 DEF WhoAsks, Displayed, Selects
<1>4. D!Asked = "none" /\ D!Marked = 0
  <2>1. D!Clamped(default, count) = 0
    BY <1>1 DEF D!Clamped
  <2> QED BY <1>1, <2>1, AskedIs, MarkedElse
<1>5. D!Seen = {}
  BY <1>1 DEF D!Seen
<1> QED BY <1>1, <1>2, <1>3, <1>4, <1>5 DEF DialogInv, D!Seam!Init

(* A dialog that cannot be shown is refused.                               *)
LEMMA RefuseStep == ASSUME DialogInv, NEW n \in D!Counts, D!Refuse(n) PROVE DialogSteps
<1>1. pc = "idle" /\ tree' = tree
  BY DEF D!Refuse
<1>2. tree' \in [D!Objects -> Object] /\ 0 \in D!Counts
  BY <1>1, DialogAssumption DEF DialogInv, AskTyped, D!Counts
<1>3. \/ D!Return("RANGE", "none", 0) /\ (n = 0 \/ n > MAX_OPTIONS)
      \/ D!Return("ERR", "none", 0)
  BY DEF D!Refuse, D!TooMany
<1>4. D!Asked = "none"
  BY <1>1, AskedIs
<1>5. CASE D!Return("RANGE", "none", 0) /\ (n = 0 \/ n > MAX_OPTIONS)
  <2>1. DialogInv' /\ D!Seam!Returns("RANGE", "none") /\ index' = 0
    BY <1>2, <1>5, LeavesNothing
  <2>2. D!Seam!Refuse(n)
    BY <1>4, <1>5, <2>1 DEF D!Seam!Refuse
  <2> QED BY <2>1, <2>2 DEF DialogSteps, D!Seam!Next, D!Counts
<1>6. CASE D!Return("ERR", "none", 0)
  <2>1. DialogInv' /\ D!Seam!Returns("ERR", "none") /\ index' = 0
    BY <1>2, <1>6, LeavesNothing
  <2>2. D!Seam!Refuse(n)
    BY <1>4, <2>1 DEF D!Seam!Refuse
  <2> QED BY <2>1, <2>2 DEF DialogSteps, D!Seam!Next, D!Counts
<1> QED BY <1>3, <1>5, <1>6

(* The host asks nobody.                                                   *)
LEMMA HostStep ==
  ASSUME DialogInv, NEW n \in D!Counts, NEW d \in D!Counts,
         D!HostChoice(n, d) \/ D!HostMessage
  PROVE  DialogSteps
<1>1. target = "host" /\ tree' = tree
  BY DEF D!HostChoice, D!HostMessage
<1>2. pc = "idle"
  BY <1>1 DEF DialogInv, AskTyped, WhoAsks
<1>3. tree' \in [D!Objects -> Object] /\ 0 \in D!Counts
  BY <1>1, DialogAssumption DEF DialogInv, AskTyped, D!Counts
<1>4. D!Asked = "none" /\ "deaf" \in D!Quirks
  BY <1>1, <1>2, AskedIs, QuirksAre
<1>5. CASE D!HostChoice(n, d)
  <2>1. n > 0 /\ D!Return("OK", "CHOSEN", D!Clamped(d, n))
    BY <1>5 DEF D!HostChoice
  <2>2. DialogInv' /\ D!Seam!Returns("OK", "CHOSEN") /\ index' = D!Clamped(d, n)
    BY <1>3, <2>1, ClampedIs, LeavesNothing
  <2>3. D!Seam!Chooses(D!Seam!Clamped(d, n))
    BY <2>2, ClampedIs DEF D!Seam!Chooses
  <2>4. D!Seam!Unasked
    BY <1>4, <2>1, <2>3 DEF D!Seam!Unasked, D!Counts
  <2> QED BY <2>2, <2>4 DEF DialogSteps, D!Seam!Next
<1>6. CASE D!HostMessage
  <2>1. D!Return("OK", "OK", 0)
    BY <1>6 DEF D!HostMessage
  <2>2. DialogInv' /\ D!Seam!Returns("OK", "OK") /\ index' = 0
    BY <1>3, <2>1, LeavesNothing
  <2>3. D!Seam!Unasked
    BY <1>4, <2>2 DEF D!Seam!Unasked, D!Counts
  <2> QED BY <2>2, <2>3 DEF DialogSteps, D!Seam!Next
<1> QED BY <1>5, <1>6

(* A dialog that waits for its user.                                       *)
LEMMA WaitAsks ==
  ASSUME DialogInv, pc = "idle", NEW l \in {"form", "row", "popup"},
         NEW n \in D!Counts, NEW d \in D!Counts, D!Wait(l, n, d),
         D!Seen' \in SUBSET (0 .. n - 1), D!Seen' = 0 .. n - 1 \/ "crowds" \in D!Quirks,
         D!Marked' = D!Clamped(d, n)
  PROVE  D!Seam!AskChoice(n, d)
<1>1. /\ pc' = l /\ count' = n /\ status' = "none" /\ answer' = "none" /\ index' = 0
      /\ target' = target
  BY DEF D!Wait
<1>2. D!Asked = "none" /\ D!Asked' = "choice" /\ UNCHANGED D!Quirks
  BY <1>1, AskedIs, AskedIsThen, QuirksStay
<1>3. D!Seam!Asks("choice")
  BY <1>1, <1>2 DEF D!Seam!Asks
<1>4. D!Marked' = D!Seam!Clamped(d, n)
  BY ClampedIs
<1> QED BY <1>1, <1>3, <1>4 DEF D!Seam!AskChoice

(* A dialog that waits has its variables typed.                            *)
LEMMA WaitTyped ==
  ASSUME DialogInv, NEW l \in {"form", "row", "popup", "OK", "OKCANCEL", "YESNO"},
         NEW n \in D!Counts, NEW d \in D!Counts, D!Wait(l, n, d),
         tree' \in [D!Objects -> Object], shown' \subseteq 0 .. n - 1
  PROVE  AskTyped'
<1>1. /\ pc' = l /\ count' = n /\ default' = d
      /\ status' = "none" /\ answer' = "none" /\ index' = 0 
      /\ target' = target /\ cell' = cell /\ struck' = struck
  BY DEF D!Wait
<1>2. target \in Targets /\ cell \in Cells /\ struck \in D!Objects
  BY DEF DialogInv, AskTyped
<1>3. 0 \in D!Counts
  BY DialogAssumption DEF D!Counts
<1> QED BY <1>1, <1>2, <1>3 DEF AskTyped

(* A dialog is at least 22 characters wide.                                *)
LEMMA WideEnough ==
  ASSUME cell \in Cells, NEW t \in Titles, NEW l \in Labels
  PROVE  D!ContentWidth(t, l) \in Int /\ D!ContentWidth(t, l) >= 22 * cell.w
<1> DEFINE a == D!Kept(t, TitleRoom) + 4
           b == D!Kept(l, LabelRoom) + 6
           S == {a, b, 22}
           m == D!Max(S)
<1>1. a \in Int /\ b \in Int
  BY DialogAssumption DEF D!Kept
<1> HIDE DEF a, b
<1>2. \E x \in S : \A y \in S : x >= y
  BY <1>1
<1>3. m \in S /\ \A y \in S : m >= y
  BY <1>2 DEF D!Max
<1>4. m \in Int /\ m >= 22
  BY <1>1, <1>3
<1>5. D!ContentWidth(t, l) = cell.w * m
  BY DEF D!ContentWidth, a, b
<1>6. cell.w \in Nat
  BY Characters
<1> HIDE DEF m
<1>7. PICK k \in Nat : m = 22 + k
  <2>1. m - 22 \in Nat /\ m = 22 + (m - 22)
    BY <1>4
  <2> QED BY <2>1
<1>8. cell.w * m = 22 * cell.w + cell.w * k /\ cell.w * k >= 0 /\ cell.w * k \in Int
  BY <1>6, <1>7
<1> QED BY <1>5, <1>6, <1>8

(* Atari: the tree is built over the one before, and shown.                *)
LEMMA AtariAskStep ==
  ASSUME DialogInv, NEW n \in D!Counts, NEW d \in D!Counts, NEW t \in Titles, NEW l \in Labels,
         D!AtariAsk(n, d, t, l)
  PROVE  DialogSteps
<1> DEFINE i == D!Clamped(d, n)
           w == D!ContentWidth(t, l)
<1>1. /\ target = "atari" /\ pc = "idle" /\ n \in 1 .. MAX_OPTIONS
      /\ tree' = D!Built(n, i, w) /\ D!Wait("form", n, d) /\ shown' = shown
  BY DialogAssumption DEF D!AtariAsk, D!Accepts, D!TooMany, D!Counts
<1>2. pc' = "form" /\ count' = n /\ default' = d /\ target' = target /\ cell' = cell
  BY <1>1 DEF D!Wait
<1>3. cell \in Cells /\ shown = {}
  BY <1>1 DEF DialogInv, AskTyped, WhoAsks
<1>4. w \in Int /\ w >= 22 * cell.w /\ cell.w \in Nat /\ cell.h \in Nat
  BY <1>3, WideEnough, Characters
<1>5. i \in 0 .. n - 1
  BY <1>1, ClampedIs, Numbers
<1> HIDE DEF w, i
<1>6. tree' \in [D!Objects -> Object]
  BY <1>1, <1>4, BuiltIsTree
<1>7. AskTyped'
  BY <1>1, <1>3, <1>6, WaitTyped
<1>8. WhoAsks'
  BY <1>1, <1>2 DEF WhoAsks
<1>9. Displayed'
  <2>1. PICK u \in Int : u = w
    BY <1>4
  <2>2. ASSUME NEW o \in D!Objects
        PROVE  Shape(tree'[o]) = Shape(D!Built(n, 0, u)[o])
    BY <1>1, <2>1, ShapeAnyDefault
  <2>3. D!OptionY(n)' = D!OptionY(n) /\ \A o : D!OptionY(o - D!first_option)' = D!OptionY(o - D!first_option)
    BY <1>2 DEF D!OptionY
  <2>4. \A o : D!Part(o, n, 0, u)' = D!Part(o, n, 0, u)
    BY <1>2, <2>3, Zenon DEF D!Part
  <2>5. D!Built(n, 0, u)' = D!Built(n, 0, u)
    BY <2>4 DEF D!Built, D!Wiped
  <2>6. Stands(n, u)'
    BY <2>2, <2>5 DEF Stands, Shape
  <2>7. u >= 22 * cell'.w
    BY <1>2, <1>4, <2>1
  <2> QED BY <1>2, <2>6, <2>7 DEF Displayed
<1>10. OneSelected(i, i + 2)'
  <2>1. \A o \in D!Objects : tree'[o].selected <=> o = i + 2
    BY <1>1, <1>5, BuiltSelected
  <2> QED BY <2>1 DEF OneSelected
<1>11. Selects'
  BY <1>2, <1>5, <1>10 DEF Selects
<1>12. D!Marked' = i
  <2>1. i \in 0 .. count' - 1 /\ pc' \in {"form", "struck"} /\ count' \in 1 .. MAX_OPTIONS
    BY <1>1, <1>2, <1>5
  <2> QED BY <1>10, <2>1, MarkedIsThen
<1>13. D!Seen' = 0 .. n - 1
  BY <1>1, <1>2 DEF D!Seen
<1>14. D!Seam!AskChoice(n, d)
  BY <1>1, <1>12, <1>13, WaitAsks DEF i
<1> QED BY <1>7, <1>8, <1>9, <1>11, <1>14 DEF DialogSteps, DialogInv, D!Seam!Next, D!Counts

(* DOS: the options that fit are shown on a row.                           *)
LEMMA DosAskStep ==
  ASSUME DialogInv, NEW n \in D!Counts, NEW d \in D!Counts, NEW t \in Titles, NEW l \in Labels,
         D!DosAsk(n, d, t, l)
  PROVE  DialogSteps
<1>1. /\ target = "dos" /\ pc = "idle" /\ shown' \subseteq 0 .. n - 1
      /\ D!Wait("row", n, d) /\ tree' = tree
  BY DEF D!DosAsk
<1>2. pc' = "row" /\ count' = n /\ default' = d /\ target' = target /\ cell' = cell
  BY <1>1 DEF D!Wait
<1>3. tree' \in [D!Objects -> Object]
  BY <1>1 DEF DialogInv, AskTyped
<1>4. AskTyped'
  BY <1>1, <1>3, WaitTyped
<1>5. WhoAsks' /\ Displayed' /\ Selects'
  BY <1>1, <1>2 DEF WhoAsks, Displayed, Selects
<1>6. D!Marked' = D!Clamped(d, n)
  BY <1>2, MarkedElseThen
<1>7. D!Seen' \in SUBSET (0 .. n - 1) /\ "crowds" \in D!Quirks
  BY <1>1, <1>2, QuirksAre DEF D!Seen
<1>8. D!Seam!AskChoice(n, d)
  BY <1>1, <1>6, <1>7, WaitAsks
<1> QED BY <1>4, <1>5, <1>8 DEF DialogSteps, DialogInv, D!Seam!Next, D!Counts

(* Mac: the menu pops up.                                                  *)
LEMMA MacAskStep ==
  ASSUME DialogInv, NEW n \in D!Counts, NEW d \in D!Counts, D!MacAsk(n, d)
  PROVE  DialogSteps
<1>1. /\ target = "mac" /\ pc = "idle" /\ shown' = shown
      /\ D!Wait("popup", n, d) /\ tree' = tree
  BY DEF D!MacAsk
<1>2. pc' = "popup" /\ count' = n /\ default' = d /\ target' = target /\ cell' = cell
  BY <1>1 DEF D!Wait
<1>3. tree' \in [D!Objects -> Object] /\ shown = {}
  BY <1>1 DEF DialogInv, AskTyped, WhoAsks
<1>4. AskTyped'
  BY <1>1, <1>3, WaitTyped
<1>5. WhoAsks' /\ Displayed' /\ Selects'
  BY <1>1, <1>2 DEF WhoAsks, Displayed, Selects
<1>6. D!Marked' = D!Clamped(d, n)
  BY <1>2, MarkedElseThen
<1>7. D!Seen' = 0 .. n - 1
  BY <1>1, <1>2 DEF D!Seen
<1>8. D!Seam!AskChoice(n, d)
  BY <1>1, <1>6, <1>7, WaitAsks
<1> QED BY <1>4, <1>5, <1>8 DEF DialogSteps, DialogInv, D!Seam!Next, D!Counts

(* DOS: a message is shown.                                                *)
LEMMA DosMessageStep ==
  ASSUME DialogInv, NEW k \in {"OK", "OKCANCEL", "YESNO"}, D!DosMessage(k)
  PROVE  DialogSteps
<1>1. /\ target = "dos" /\ pc = "idle" /\ shown' = shown
      /\ D!Wait(k, 0, 0) /\ tree' = tree
  BY DEF D!DosMessage
<1>2. /\ pc' = k /\ count' = 0 /\ default' = 0 /\ target' = target /\ cell' = cell
      /\ status' = "none" /\ answer' = "none" /\ index' = 0
  BY <1>1 DEF D!Wait
<1>3. tree' \in [D!Objects -> Object] /\ shown = {} /\ count = 0 /\ default = 0
  BY <1>1 DEF DialogInv, AskTyped, WhoAsks
<1>4. 0 \in D!Counts
  BY DialogAssumption DEF D!Counts
<1>5. AskTyped'
  <2>1. shown' \subseteq 0 .. 0 - 1
    BY <1>1, <1>3
  <2> QED BY <1>1, <1>3, <1>4, <2>1, WaitTyped
<1>6. WhoAsks' /\ Displayed' /\ Selects'
  BY <1>1, <1>2, <1>3 DEF WhoAsks, Displayed, Selects
<1>7. UNCHANGED <<D!Marked, D!Seen, D!Quirks>>
  <2>1. D!Marked = D!Clamped(0, 0) /\ D!Marked' = D!Clamped(0, 0)
    BY <1>1, <1>2, <1>3, MarkedElse, MarkedElseThen
  <2>2. UNCHANGED D!Seen
    BY <1>1, <1>2, <1>3 DEF D!Seen
  <2> QED BY <1>2, <2>1, <2>2, QuirksStay
<1>8. D!Asked = "none" /\ D!Asked' = k
  BY <1>1, <1>2, AskedIs, AskedIsThen
<1>9. D!Seam!AskMessage(k)
  BY <1>2, <1>3, <1>7, <1>8 DEF D!Seam!AskMessage, D!Seam!Asks
<1> QED BY <1>5, <1>6, <1>9 DEF DialogSteps, DialogInv, D!Seam!Next, D!Seam!Kinds

(* What is selected does not move the objects.                             *)
LEMMA SelectionKeepsShape ==
  ASSUME tree \in [D!Objects -> Object], cell' = cell, tree' = [o \in D!Objects |-> tree'[o]],
         \A o \in D!Objects : \/ tree'[o] = tree[o]
                              \/ \E s \in BOOLEAN : tree'[o] = [tree[o] EXCEPT !.selected = s]
  PROVE  /\ tree' \in [D!Objects -> Object] /\ (\A o \in D!Objects : Shape(tree'[o]) = Shape(tree[o]))
<1>1. ASSUME NEW o \in D!Objects PROVE tree'[o] \in Object /\ Shape(tree'[o]) = Shape(tree[o])
  <2>1. tree[o] \in Object
    OBVIOUS
  <2>2. CASE tree'[o] = tree[o]
    BY <2>1, <2>2
  <2>3. ASSUME NEW s \in BOOLEAN, tree'[o] = [tree[o] EXCEPT !.selected = s]
        PROVE  tree'[o] \in Object /\ Shape(tree'[o]) = Shape(tree[o])
    BY <2>1, <2>3 DEF Object, Shape
  <2> QED BY <2>2, <2>3
<1> QED BY <1>1

(* What is selected does not change the dialog.                            *)
LEMMA StaysDisplayed ==
  ASSUME pc \in {"form", "struck"}, Displayed, count' = count, cell' = cell,
         \A o \in D!Objects : Shape(tree'[o]) = Shape(tree[o])
  PROVE  Displayed'
<1>1. PICK u \in Int : u >= 22 * cell.w /\ Stands(count, u)
  BY DEF Displayed
<1>2. PICK n : n = count
  OBVIOUS
<1>3. D!OptionY(n)' = D!OptionY(n) /\ \A o : D!OptionY(o - D!first_option)' = D!OptionY(o - D!first_option)
  BY DEF D!OptionY
<1>4. \A o : D!Part(o, n, 0, u)' = D!Part(o, n, 0, u)
  BY <1>3, Zenon DEF D!Part
<1>5. D!Built(n, 0, u)' = D!Built(n, 0, u)
  BY <1>4 DEF D!Built, D!Wiped
<1>6. Stands(n, u)'
  BY <1>1, <1>2, <1>5 DEF Stands, Shape
<1> QED BY <1>1, <1>2, <1>6 DEF Displayed

(* The user moves the mark.                                                *)
LEMMA ClickStep == ASSUME DialogInv, NEW o \in D!Objects, D!UserClicks(o) PROVE DialogSteps
<1>1. /\ pc = "form" /\ o \in D!Has("RBUTTON")
      /\ tree' = [p \in DOMAIN tree |->
                IF p \in D!Has("RBUTTON") THEN [tree[p] EXCEPT !.selected = p = o] ELSE tree[p]]
      /\ UNCHANGED <<target, cell, pc, count, default, shown, struck, status, answer, index>>
  BY DEF D!UserClicks, D!callVars
<1>2. /\ tree \in [D!Objects -> Object] /\ count \in 1 .. MAX_OPTIONS /\ Displayed
      /\ AskTyped /\ WhoAsks
  BY <1>1 DEF DialogInv, AskTyped, WhoAsks
<1>3. PICK w \in Int : w >= 22 * cell.w /\ Stands(count, w)
  BY <1>1, <1>2 DEF Displayed
<1>4. PICK i \in 0 .. count - 1 : OneSelected(i, i + 2)
  BY <1>1 DEF DialogInv, Selects
<1>5. D!Has("RBUTTON") = 2 .. count + 1
  BY <1>2, <1>3, ButtonsAre
<1>6. \A p \in D!Objects : p \in 2 .. count + 1 => tree'[p] = [tree[p] EXCEPT !.selected = p = o]
  BY <1>1, <1>2, <1>5
<1>7. \A p \in D!Objects : p \notin 2 .. count + 1 => tree'[p] = tree[p]
  BY <1>1, <1>2, <1>5
<1>8. tree' = [p \in D!Objects |-> tree'[p]]
  BY <1>1, <1>2
<1>9. tree' \in [D!Objects -> Object] /\ \A p \in D!Objects : Shape(tree'[p]) = Shape(tree[p])
  <2>1. ASSUME NEW p \in D!Objects
        PROVE  \/ tree'[p] = tree[p]
               \/ \E s \in BOOLEAN : tree'[p] = [tree[p] EXCEPT !.selected = s]
    <3>1. PICK s \in BOOLEAN : s = (p = o)
      OBVIOUS
    <3>2. p \in 2 .. count + 1 => tree'[p] = [tree[p] EXCEPT !.selected = s]
      BY <1>6, <3>1
    <3> QED BY <1>7, <3>2
  <2> QED BY <1>1, <1>2, <1>8, <2>1, SelectionKeepsShape
<1>10. o - 2 \in 0 .. count - 1 /\ o - 2 + 2 = o /\ o \in 2 .. count + 1
  BY <1>1, <1>2, <1>5, Numbers
<1>11. OneSelected(o - 2, o)'
  <2>1. ASSUME NEW p \in D!Objects PROVE tree'[p].selected <=> p = o
    <3>1. CASE p \in 2 .. count + 1
      <4>1. tree[p] \in Object
        BY <1>2
      <4>2. tree'[p] = [tree[p] EXCEPT !.selected = p = o]
        BY <1>6, <3>1
      <4> QED BY <4>1, <4>2 DEF Object
    <3>2. CASE p \notin 2 .. count + 1
      <4>1. ~ tree[p].selected
        <5>1. i + 2 \in 2 .. count + 1
          BY <1>2, Numbers
        <5> QED BY <1>4, <3>2, <5>1 DEF OneSelected
      <4>2. p # o
        BY <1>10, <3>2
      <4> QED BY <1>7, <3>2, <4>1, <4>2
    <3> QED BY <3>1, <3>2
  <2> QED BY <1>10, <2>1 DEF OneSelected
<1>12. Selects'
  BY <1>1, <1>10, <1>11 DEF Selects
<1>13. AskTyped' /\ WhoAsks'
  BY <1>1, <1>2, <1>9 DEF AskTyped, WhoAsks
<1>14. Displayed'
  BY <1>1, <1>2, <1>9, StaysDisplayed
<1>15. D!Marked' = o - 2
  <2>1. o - 2 \in 0 .. count' - 1 /\ pc' \in {"form", "struck"} /\ count' \in 1 .. MAX_OPTIONS
    BY <1>1, <1>2, <1>10
  <2> QED BY <1>10, <1>11, <2>1, MarkedIsThen
<1>16. D!Seen = 0 .. count - 1 /\ UNCHANGED <<D!Seen, D!Quirks, D!Asked>> /\ D!Asked = "choice"
  <2>1. target = "atari"
    BY <1>1, <1>2 DEF WhoAsks
  <2>2. D!Seen = 0 .. count - 1 /\ UNCHANGED D!Seen
    BY <1>1, <2>1 DEF D!Seen
  <2>3. UNCHANGED D!Quirks
    BY <1>1, QuirksStay
  <2> QED BY <1>1, <2>2, <2>3, AskedIs, AskedIsThen
<1>17. D!Seam!Mark
  BY <1>1, <1>10, <1>15, <1>16 DEF D!Seam!Mark
<1> QED BY <1>12, <1>13, <1>14, <1>17 DEF DialogSteps, DialogInv, D!Seam!Next

(* The user strikes a button.                                              *)
LEMMA StrikeStep == ASSUME DialogInv, NEW o \in D!Objects, D!UserStrikes(o) PROVE DialogSteps
<1>1. /\ pc = "form" /\ o \in D!Has("EXIT")
      /\ tree' = [tree EXCEPT ![o].selected = TRUE]
      /\ pc' = "struck" /\ struck' = o
      /\ UNCHANGED <<target, cell, count, default, shown, status, answer, index>>
  BY DEF D!UserStrikes
<1>2. /\ tree \in [D!Objects -> Object] /\ count \in 1 .. MAX_OPTIONS /\ Displayed
      /\ AskTyped /\ WhoAsks
  BY <1>1 DEF DialogInv, AskTyped, WhoAsks
<1>3. PICK w \in Int : w >= 22 * cell.w /\ Stands(count, w)
  BY <1>1, <1>2 DEF Displayed
<1>4. PICK i \in 0 .. count - 1 : OneSelected(i, i + 2)
  BY <1>1 DEF DialogInv, Selects
<1>5. o \in {count + 2, count + 3}
  BY <1>1, <1>2, <1>3, ButtonsAre
<1>6. tree'[o] = [tree[o] EXCEPT !.selected = TRUE] /\ \A p \in D!Objects \ {o} : tree'[p] = tree[p]
  BY <1>1, <1>2
<1>7. tree' = [p \in D!Objects |-> tree'[p]]
  BY <1>1, <1>2
<1>8. tree' \in [D!Objects -> Object] /\ \A p \in D!Objects : Shape(tree'[p]) = Shape(tree[p])
  <2>1. \A p \in D!Objects :
          \/ tree'[p] = tree[p]
          \/ \E s \in BOOLEAN : tree'[p] = [tree[p] EXCEPT !.selected = s]
    BY <1>6
  <2> QED BY <1>1, <1>2, <1>7, <2>1, SelectionKeepsShape
<1>9. OneSelected(i, o)'
  <2>1. ASSUME NEW p \in D!Objects PROVE tree'[p].selected <=> p = i + 2 \/ p = o
    <3>1. CASE p = o
      <4>1. tree[o] \in Object
        BY <1>2
      <4> QED BY <1>6, <3>1, <4>1 DEF Object
    <3>2. CASE p # o
      BY <1>4, <1>6, <3>2 DEF OneSelected
    <3> QED BY <3>1, <3>2
  <2> QED BY <2>1 DEF OneSelected
<1>10. Selects'
  BY <1>1, <1>4, <1>5, <1>9 DEF Selects
<1>11. AskTyped' /\ WhoAsks'
  BY <1>1, <1>2, <1>8 DEF AskTyped, WhoAsks
<1>12. Displayed'
  BY <1>1, <1>2, <1>8, StaysDisplayed
<1>13. UNCHANGED D!Marked
  <2>1. D!Marked = i
    BY <1>1, <1>2, <1>4, MarkedIs
  <2>2. i \in 0 .. count' - 1 /\ pc' \in {"form", "struck"} /\ count' \in 1 .. MAX_OPTIONS
    BY <1>1, <1>2, <1>4
  <2>3. o \notin 2 .. count' + 1
    BY <1>1, <1>2, <1>5, Numbers
  <2>4. D!Marked' = i
    BY <1>9, <2>2, <2>3, MarkedIsThen
  <2> QED BY <2>1, <2>4
<1>14. UNCHANGED <<D!Seen, D!Quirks, D!Asked>>
  <2>1. UNCHANGED D!Seen
    BY <1>1 DEF D!Seen
  <2> QED BY <1>1, <2>1, QuirksStay, AskedIs, AskedIsThen
<1>15. UNCHANGED D!Seam!vars
  BY <1>1, <1>13, <1>14 DEF D!Seam!vars
<1> QED BY <1>10, <1>11, <1>12, <1>15 DEF DialogSteps, DialogInv

(* The dialog answers what was marked.                                     *)
LEMMA AnswerStep == ASSUME DialogInv, D!AtariAnswer PROVE DialogSteps
<1>1. /\ pc = "struck" /\ tree' = [tree EXCEPT ![struck].selected = FALSE]
      /\ IF struck = D!first_option + count + 1
         THEN D!Return("OK", "CANCELLED", D!Clamped(default, count))
         ELSE D!Return("OK", "CHOSEN",
                       IF D!Selected = {} THEN D!Clamped(default, count) ELSE D!Min(D!Selected))
  BY DEF D!AtariAnswer
<1>2. /\ tree \in [D!Objects -> Object] /\ count \in 1 .. MAX_OPTIONS
      /\ default \in D!Counts /\ count \in D!Counts /\ struck \in D!Objects
  BY <1>1 DEF DialogInv, AskTyped, WhoAsks
<1>3. PICK i \in 0 .. count - 1 : OneSelected(i, struck)
  BY <1>1 DEF DialogInv, Selects
<1>4. struck \in {count + 2, count + 3}
  BY <1>1 DEF DialogInv, Selects
<1>5. D!Marked = i /\ D!Selected = {i}
  <2>1. struck \notin 2 .. count + 1
    BY <1>2, <1>4, Numbers
  <2> QED BY <1>1, <1>2, <1>3, <2>1, MarkedIs
<1>6. tree' \in [D!Objects -> Object]
  <2>1. ASSUME NEW p \in D!Objects PROVE tree'[p] \in Object
    <3>1. tree[p] \in Object
      BY <1>2
    <3>2. tree'[p] = IF p = struck THEN [tree[p] EXCEPT !.selected = FALSE] ELSE tree[p]
      BY <1>1, <1>2
    <3> QED BY <3>1, <3>2 DEF Object
  <2> QED BY <1>1, <1>2, <2>1
<1>7. D!Asked = "choice"
  BY <1>1, AskedIs
<1>8. CASE D!Return("OK", "CANCELLED", D!Clamped(default, count))
  <2>1. D!Clamped(default, count) \in D!Counts
    BY <1>2, ClampedIs
  <2>2. DialogInv' /\ D!Seam!Returns("OK", "CANCELLED") /\ index' \in D!Counts
    BY <1>6, <1>8, <2>1, LeavesNothing
  <2>3. D!Seam!Cancel
    BY <1>7, <2>2 DEF D!Seam!Cancel, D!Counts
  <2> QED BY <2>2, <2>3 DEF DialogSteps, D!Seam!Next
<1>9. CASE D!Return("OK", "CHOSEN",
                    IF D!Selected = {} THEN D!Clamped(default, count) ELSE D!Min(D!Selected))
  <2>1. D!Min({i}) = i
    <3>1. D!Min({i}) \in {i}
      BY <1>2 DEF D!Min
    <3> QED BY <3>1
  <2>2. D!Selected # {} /\ D!Min(D!Selected) = i /\ i \in D!Counts
    BY <1>2, <1>5, <2>1, Numbers DEF D!Counts
  <2>3. D!Return("OK", "CHOSEN", i)
    BY <1>9, <2>2
  <2>4. DialogInv' /\ D!Seam!Returns("OK", "CHOSEN") /\ index' = i
    BY <1>6, <2>2, <2>3, LeavesNothing
  <2>5. D!Seam!Confirm
    BY <1>5, <1>7, <2>4 DEF D!Seam!Confirm, D!Seam!Chooses
  <2> QED BY <2>4, <2>5 DEF DialogSteps, D!Seam!Next
<1> QED BY <1>1, <1>8, <1>9

(* The user chooses outright.                                              *)
LEMMA DigitStep == ASSUME DialogInv, NEW i \in 0 .. 8, D!DosDigit(i) PROVE DialogSteps
<1>1. pc = "row" /\ i < count /\ D!Return("OK", "CHOSEN", i) /\ tree' = tree
  BY DEF D!DosDigit
<1>2. tree' \in [D!Objects -> Object] /\ count \in D!Counts /\ target = "dos"
  BY <1>1 DEF DialogInv, AskTyped, WhoAsks
<1>3. i \in D!Counts /\ i \in 0 .. count - 1
  BY <1>1, <1>2, DialogAssumption DEF D!Counts
<1>4. D!Asked = "choice" /\ "picks" \in D!Quirks /\ "crowds" \in D!Quirks
  BY <1>1, <1>2, AskedIs, QuirksAre
<1>5. DialogInv' /\ D!Seam!Returns("OK", "CHOSEN") /\ index' = i
  BY <1>1, <1>2, <1>3, LeavesNothing
<1>6. D!Seam!Pick(i)
  BY <1>4, <1>5 DEF D!Seam!Pick, D!Seam!Chooses
<1> QED BY <1>3, <1>5, <1>6 DEF DialogSteps, D!Seam!Next

(* DOS: the user escapes.                                                  *)
LEMMA EscapeStep == ASSUME DialogInv, D!DosEscape PROVE DialogSteps
<1>1. pc = "row" /\ D!Return("OK", "CANCELLED", 0) /\ tree' = tree
  BY DEF D!DosEscape
<1>2. tree' \in [D!Objects -> Object] /\ 0 \in D!Counts
  BY <1>1, DialogAssumption DEF DialogInv, AskTyped, D!Counts
<1>3. D!Asked = "choice"
  BY <1>1, AskedIs
<1>4. DialogInv' /\ D!Seam!Returns("OK", "CANCELLED") /\ index' = 0
  BY <1>1, <1>2, LeavesNothing
<1>5. D!Seam!Cancel
  BY <1>2, <1>3, <1>4 DEF D!Seam!Cancel, D!Counts
<1> QED BY <1>4, <1>5 DEF DialogSteps, D!Seam!Next

(* Mac: an item is chosen, or none.                                        *)
LEMMA MacAnswerStep == ASSUME DialogInv, NEW item \in D!Counts, D!MacAnswer(item) PROVE DialogSteps
<1>1. /\ pc = "popup" /\ item <= count /\ tree' = tree
      /\ IF item = 0 THEN D!Return("OK", "CANCELLED", 0) ELSE D!Return("OK", "CHOSEN", item - 1)
  BY DEF D!MacAnswer
<1>2. tree' \in [D!Objects -> Object] /\ 0 \in D!Counts /\ count \in D!Counts /\ target = "mac"
  BY <1>1, DialogAssumption DEF DialogInv, AskTyped, WhoAsks, D!Counts
<1>3. D!Asked = "choice" /\ "picks" \in D!Quirks
  BY <1>1, <1>2, AskedIs, QuirksAre
<1>4. CASE item = 0
  <2>1. DialogInv' /\ D!Seam!Returns("OK", "CANCELLED") /\ index' = 0
    BY <1>1, <1>2, <1>4, LeavesNothing
  <2>2. D!Seam!Cancel
    BY <1>2, <1>3, <2>1 DEF D!Seam!Cancel, D!Counts
  <2> QED BY <2>1, <2>2 DEF DialogSteps, D!Seam!Next
<1>5. CASE item # 0
  <2>1. item - 1 \in D!Counts /\ item - 1 \in 0 .. count - 1
    BY <1>1, <1>2, <1>5, DialogAssumption DEF D!Counts
  <2>2. DialogInv' /\ D!Seam!Returns("OK", "CHOSEN") /\ index' = item - 1
    BY <1>1, <1>2, <1>5, <2>1, LeavesNothing
  <2>3. D!Seen = 0 .. count - 1
    BY <1>2 DEF D!Seen
  <2>4. D!Seam!Pick(item - 1)
    BY <1>3, <2>1, <2>2, <2>3 DEF D!Seam!Pick, D!Seam!Chooses
  <2> QED BY <2>1, <2>2, <2>4 DEF DialogSteps, D!Seam!Next
<1> QED BY <1>4, <1>5

(* A key answers a message.                                                *)
LEMMA MeaningIs ==
  ASSUME NEW k, NEW key, D!Meaning(k, key) # "none"
  PROVE  /\ k \in D!Seam!Kinds /\ D!Meaning(k, key) \in D!Seam!Replies(k)
         /\ D!Meaning(k, key) \in {"OK", "CANCEL", "YES", "NO"}
         /\ k \in {"OK", "OKCANCEL", "YESNO"}
<1>1. \/ k = "OKCANCEL" /\ D!Meaning(k, key) \in {"OK", "CANCEL"}
      \/ k = "YESNO" /\ D!Meaning(k, key) \in {"YES", "NO"}
      \/ k = "OK" /\ D!Meaning(k, key) = "OK"
  BY Zenon DEF D!Meaning
<1>2. /\ D!Seam!Replies("OK") = {"OK"} /\ D!Seam!Replies("OKCANCEL") = {"OK", "CANCEL"}
      /\ D!Seam!Replies("YESNO") = {"YES", "NO"}
  BY Zenon DEF D!Seam!Replies
<1> QED BY <1>1, <1>2 DEF D!Seam!Kinds

(* DOS: a key answers a message.                                           *)
LEMMA KeyStep == ASSUME DialogInv, NEW key, D!DosKey(key) PROVE DialogSteps
<1> DEFINE r == D!Meaning(pc, key)
<1>1. r # "none" /\ D!Return("OK", r, 0) /\ tree' = tree
  BY DEF D!DosKey
<1>2. tree' \in [D!Objects -> Object] /\ 0 \in D!Counts
  BY <1>1, DialogAssumption DEF DialogInv, AskTyped, D!Counts
<1>3. /\ pc \in D!Seam!Kinds /\ r \in D!Seam!Replies(pc) /\ r \in {"OK", "CANCEL", "YES", "NO"}
      /\ pc \in {"OK", "OKCANCEL", "YESNO"}
  BY <1>1, MeaningIs
<1> HIDE DEF r
<1>4. D!Asked = pc
  BY <1>3, AskedIs
<1>5. DialogInv' /\ D!Seam!Returns("OK", r) /\ index' = 0
  BY <1>1, <1>2, <1>3, LeavesNothing
<1>6. D!Seam!Reply
  BY <1>3, <1>4, <1>5 DEF D!Seam!Reply
<1> QED BY <1>5, <1>6 DEF DialogSteps, D!Seam!Next

(* Every step of a dialog keeps its promise.                               *)
LEMMA DialogStep == ASSUME DialogInv, D!Next PROVE DialogSteps
<1>1. ASSUME NEW n \in D!Counts, D!Refuse(n) PROVE DialogSteps
  BY <1>1, RefuseStep
<1>2. ASSUME NEW n \in D!Counts, NEW d \in D!Counts, NEW t \in Titles, NEW l \in Labels,
             D!AtariAsk(n, d, t, l) \/ D!DosAsk(n, d, t, l)
      PROVE  DialogSteps
  BY <1>2, AtariAskStep, DosAskStep
<1>3. ASSUME NEW n \in D!Counts, NEW d \in D!Counts, D!MacAsk(n, d) \/ D!HostChoice(n, d)
      PROVE  DialogSteps
  BY <1>3, MacAskStep, HostStep
<1>4. ASSUME NEW o \in D!Objects, D!UserClicks(o) \/ D!UserStrikes(o) PROVE DialogSteps
  BY <1>4, ClickStep, StrikeStep
<1>5. ASSUME D!HostMessage PROVE DialogSteps
  <2>1. 0 \in D!Counts
    BY DialogAssumption DEF D!Counts
  <2> QED BY <1>5, <2>1, HostStep
<1> QED BY <1>1, <1>2, <1>3, <1>4, <1>5, AnswerStep, DigitStep, EscapeStep, DosMessageStep, KeyStep,
           MacAnswerStep DEF D!Next

(* What the clipboards do is none of the dialog's.                         *)
LEMMA DialogStays == ASSUME DialogInv, UNCHANGED dialogVars PROVE DialogSteps
<1>1. UNCHANGED <<target, cell, tree, pc, count, default, shown, struck, status, answer, index>>
  BY DEF dialogVars
<1>2. AskTyped' /\ WhoAsks' /\ Selects'
  BY <1>1 DEF DialogInv, AskTyped, WhoAsks, Selects, OneSelected
<1>3. Displayed'
  <2>1. CASE pc \in {"form", "struck"}
    BY <1>1, <2>1, StaysDisplayed DEF DialogInv
  <2>2. CASE pc \notin {"form", "struck"}
    BY <1>1, <2>2 DEF Displayed
  <2> QED BY <2>1, <2>2
<1>4. UNCHANGED <<D!Quirks, D!Asked, D!Seen>>
  <2>1. UNCHANGED D!Asked
    BY <1>1, Zenon DEF D!Asked
  <2>2. UNCHANGED D!Seen
    BY <1>1 DEF D!Seen
  <2> QED BY <1>1, <2>1, <2>2, QuirksStay
<1>5. UNCHANGED D!Marked
  BY <1>1 DEF D!Marked, D!Clamped
<1> QED BY <1>1, <1>2, <1>3, <1>4, <1>5 DEF DialogSteps, DialogInv, D!Seam!vars

------------------------------------------------------------------------------
(* The desktop.                                                            *)

DesktopInv == ClipInv /\ DialogInv
(* What a step of the desktop has to be.                                   *)
DesktopSteps ==
  /\ DesktopInv'
  /\ C!C!Next \/ UNCHANGED C!C!vars
  /\ D!Seam!Next \/ UNCHANGED D!Seam!vars

(* The invariant holds at first, and so do the promises.                   *)
LEMMA DesktopStarts == Init => DesktopInv /\ C!C!Init /\ D!Seam!Init
<1>1. Init => D!Init
  BY DEF Init
<1> QED BY <1>1, ClipStarts, DialogStarts DEF DesktopInv

(* Every step of the desktop is one of both promises, or none.             *)
LEMMA DesktopStep == DesktopInv /\ [Next]_vars => DesktopSteps
<1> SUFFICES ASSUME DesktopInv, [Next]_vars PROVE DesktopSteps
  OBVIOUS
<1>1. \/ C!Next /\ UNCHANGED dialogVars
      \/ D!Next /\ UNCHANGED clipVars
      \/ UNCHANGED clipVars /\ UNCHANGED dialogVars
  BY DEF Next, vars
<1>2. ClipInv /\ DialogInv
  BY DEF DesktopInv
<1>3. Steps
  BY <1>1, <1>2, ClipStep, ClipStays
<1>4. DialogSteps
  BY <1>1, <1>2, DialogStep, DialogStays
<1> QED BY <1>3, <1>4 DEF Steps, DialogSteps, DesktopSteps, DesktopInv

(* The invariant is always true.                                           *)
LEMMA AlwaysDesktopInv == Spec => []DesktopInv
<1>1. DesktopInv /\ [Next]_vars => DesktopInv'
  BY DesktopStep DEF DesktopSteps
<1> QED BY <1>1, DesktopStarts, PTL DEF Spec

(***************************************************************************)
(* Every variable of the clipboards and of the dialogs has its type.       *)
(***************************************************************************)
THEOREM DesktopTyped == Spec => []TypeOK
<1>1. DialogInv => D!TypeOK
  <2> SUFFICES ASSUME DialogInv PROVE D!TypeOK
    OBVIOUS
  <2>1. AskTyped
    BY DEF DialogInv
  <2>2. DOMAIN tree = D!Objects
    BY <2>1 DEF AskTyped
  <2>3. \A o \in D!Objects : tree[o].next \in D!Objects \cup {-1} /\ tree[o].selected \in BOOLEAN
    BY <2>1 DEF AskTyped, Object
  <2> QED BY <2>1, <2>2, <2>3 DEF AskTyped, D!TypeOK
<1>2. DesktopInv => TypeOK
  BY <1>1, ClipTyped DEF DesktopInv, TypeOK
<1> QED BY <1>2, AlwaysDesktopInv, PTL

(***************************************************************************)
(* dialog_atari.c: however large the dialog that stood in the static array *)
(* before, and whatever the user clicks, the AES finds there a whole tree  *)
(* of this one: linked through every object and back, one LASTOB, on the   *)
(* last object, and one radio button selected.                             *)
(***************************************************************************)
THEOREM TreeIsWhole == Spec => []TreeIsTheDialog
<1>1. DialogInv => TreeIsTheDialog
  <2> SUFFICES ASSUME DialogInv, pc = "form" PROVE TreeIsTheDialog
    BY DEF TreeIsTheDialog, D!TreeIsTheDialog
  <2>1. tree \in [D!Objects -> Object] /\ count \in 1 .. MAX_OPTIONS
    BY DEF DialogInv, AskTyped, WhoAsks
  <2>2. PICK w \in Int : w >= 22 * cell.w /\ Stands(count, w)
    BY DEF DialogInv, Displayed
  <2>3. PICK i \in 0 .. count - 1 : OneSelected(i, i + 2)
    BY DEF DialogInv, Selects
  <2> DEFINE cancel == D!first_option + count + 1
  <2>4. cancel = count + 3
    BY <2>1, Numbers
  <2>5. \A n \in 1 .. cancel : D!Walk[n] = n
    <3>1. D!Walk = [k \in 1 .. MAX_OPTIONS + 4 |-> IF k <= count + 3 THEN k ELSE 0]
      BY <2>1, <2>2, WalkIs
    <3> QED BY <2>1, <2>4, <3>1, Numbers
  <2>6. tree[cancel].next = D!Root /\ tree[D!Root].tail = cancel /\ tree[D!Root].next = -1
    <3>1. CancelStands(count, w) /\ RootStands(count, w)
      BY <2>1, <2>2, Laid
    <3>2. D!Root = 0
      BY DEF D!Root
    <3> QED BY <2>4, <3>1, <3>2 DEF CancelStands, RootStands, Last
  <2>7. {o \in D!Objects : "LASTOB" \in tree[o].flags} = {cancel}
    BY <2>1, <2>2, <2>4, LastOne
  <2>8. \A o \in D!Objects : "EDITABLE" \notin tree[o].flags
    <3>1. \A o \in D!Objects : tree[o].flags \in SUBSET Flags
      BY <2>1 DEF Object
    <3>2. "EDITABLE" \notin Flags
      BY DEF Flags
    <3> QED BY <3>1, <3>2
  <2>9. D!Cardinality({o \in D!Objects : tree[o].selected}) = 1
    <3>1. i + 2 \in D!Objects
      BY <2>1, Numbers
    <3>2. {o \in D!Objects : tree[o].selected} = {i + 2}
      BY <2>3, <3>1 DEF OneSelected
    <3>3. Cardinality({i + 2}) = 1
      BY FS_Singleton
    <3>4. D!Cardinality({i + 2}) = Cardinality({i + 2})
      BY DEF D!Cardinality, Cardinality
    <3> QED BY <3>2, <3>3, <3>4
  <2> HIDE DEF cancel
  <2>10. D!TreeIsTheDialog <=>
           /\ \A n \in 1 .. cancel : D!Walk[n] = n
           /\ tree[cancel].next = D!Root /\ tree[D!Root].tail = cancel /\ tree[D!Root].next = -1
           /\ {o \in D!Objects : "LASTOB" \in tree[o].flags} = {cancel}
           /\ \A o \in D!Objects : "EDITABLE" \notin tree[o].flags
           /\ D!Cardinality({o \in D!Objects : tree[o].selected}) = 1
    BY Zenon DEF D!TreeIsTheDialog, cancel
  <2> QED BY <2>5, <2>6, <2>7, <2>8, <2>9, <2>10, Zenon DEF TreeIsTheDialog
<1>2. DesktopInv => TreeIsTheDialog
  BY <1>1 DEF DesktopInv
<1> QED BY <1>2, AlwaysDesktopInv, PTL

(***************************************************************************)
(* dialog_atari.c: whatever the lengths of title and labels, the number of *)
(* options and the character cell, no two objects overlap and each is in   *)
(* the box.                                                                *)
(***************************************************************************)
THEOREM NoneOverlap == Spec => []ObjectsApart
<1>1. DialogInv => ObjectsApart
  <2> SUFFICES ASSUME DialogInv, pc = "form" PROVE ObjectsApart
    BY DEF ObjectsApart, D!ObjectsApart
  <2>1. tree \in [D!Objects -> Object] /\ count \in 1 .. MAX_OPTIONS /\ cell \in Cells
    BY DEF DialogInv, AskTyped, WhoAsks
  <2>2. PICK w \in Int : w >= 22 * cell.w /\ Stands(count, w)
    BY DEF DialogInv, Displayed
  <2>3. D!Children = 1 .. count + 3
    BY <2>1, <2>2, ChildrenAre
  <2>4. \A o \in 1 .. count + 3 : Inside(o) /\ \A p \in 1 .. count + 3 : p # o => Apart(o, p)
    BY <2>1, <2>2, AllApart, Characters
  <2> QED BY <2>3, <2>4, Zenon DEF ObjectsApart, D!ObjectsApart, Inside, Apart
<1>2. DesktopInv => ObjectsApart
  BY <1>1 DEF DesktopInv
<1> QED BY <1>2, AlwaysDesktopInv, PTL

(***************************************************************************)
(* platform.h 69-77 and 182-219: whichever system call fails and whatever  *)
(* other programs do, what a set stores, a get returns and a has answers   *)
(* was right at some moment of the call; and the answer of a dialog is the *)
(* option marked when the user meant it, one he was offered, or the        *)
(* default where there is no user.                                         *)
(***************************************************************************)
THEOREM PromisesKept == Spec => KeepsPromises
<1>1. DesktopInv /\ [Next]_vars => [C!C!Next]_C!C!vars
  BY DesktopStep DEF DesktopSteps
<1>2. DesktopInv /\ [Next]_vars => [D!Seam!Next]_D!Seam!vars
  BY DesktopStep DEF DesktopSteps
<1>3. Spec => C!C!Spec
  BY <1>1, DesktopStarts, AlwaysDesktopInv, PTL DEF Spec, C!C!Spec
<1>4. Spec => D!Seam!Spec
  BY <1>2, DesktopStarts, AlwaysDesktopInv, PTL DEF Spec, D!Seam!Spec
<1> QED BY <1>3, <1>4 DEF KeepsPromises, C!KeepsPromise, D!KeepsPromise
==============================================================================
