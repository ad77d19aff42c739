------------------------- MODULE FileBackendsProofs --------------------------
(***************************************************************************)
(* What is proved of the file backends: that each of them, whichever is    *)
(* linked in, implements Files.  A backend's files are in order (PInv of   *)
(* the plain ones, GInv of file_gem4xe.c), every call keeps them so, and   *)
(* is a call of the seam.  First that gem4xe's slot table leaks no handle, *)
(* then streams of bytes, the plain backends, and gem4xe, a lemma for each *)
(* call.                                                                   *)
(***************************************************************************)
EXTENDS FileBackends, SequenceTheorems, FiniteSetTheorems,
        WellFoundedInduction, TLAPS

------------------------------------------------------------------------------
(***************************************************************************)
(* The slot table of file_gem4xe.c, for every number of slots, every set   *)
(* of handles and every set of files.  The invariant is about the table    *)
(* and GEMDOS's handles only; it is inductive together with the table's    *)
(* shape.                                                                  *)
(***************************************************************************)

TableOK ==
  /\ slot \in [Slots -> [used : BOOLEAN, h : Handles \cup {0}]]
  /\ DOMAIN gemdos \subseteq Handles

IInv == TableOK /\ SlotsHoldHandles

(***************************************************************************)
(* What Put and Drop do to a domain, and Put to a value.                   *)
(***************************************************************************)
LEMMA PutDomain ==
  ASSUME NEW f, NEW x, NEW v
  PROVE  /\ DOMAIN Put(f, x, v) = DOMAIN f \cup {x}
         /\ Put(f, x, v)[x] = v
         /\ \A y \in DOMAIN f : y # x => Put(f, x, v)[y] = f[y]
  BY DEF Put, F!Put

(* What is dropped is gone, and nothing else.                              *)
LEMMA DropDomain ==
  ASSUME NEW f, NEW x
  PROVE  DOMAIN Drop(f, x) = DOMAIN f \ {x}
  BY DEF Drop, F!Drop

(***************************************************************************)
(* slot_new: a new handle goes to a free slot, or is closed again.         *)
(***************************************************************************)
LEMMA NewSlotKeeps ==
  ASSUME IInv, NEW h \in NewHandles, NEW file, slot_new(h, file)
  PROVE  IInv'
<1>1. CASE FirstFree = {}
  <2>1. UNCHANGED <<slot, gemdos>>
    BY <1>1 DEF slot_new
  <2> QED
    BY <2>1 DEF IInv, TableOK, SlotsHoldHandles, Used
<1>2. CASE FirstFree # {}
  <2>1. PICK i \in FirstFree :
          /\ slot' = Put(slot, i, [used |-> TRUE, h |-> h])
          /\ gemdos' = Put(gemdos, h, file)
    BY <1>2 DEF slot_new
  <2>2. i \in Slots /\ i \notin Used /\ h \in Handles /\ h \notin DOMAIN gemdos
    BY <2>1 DEF FirstFree, NewHandles
  <2>3. /\ slot' = [slot EXCEPT ![i] = [used |-> TRUE, h |-> h]]
        /\ DOMAIN gemdos' = DOMAIN gemdos \cup {h}
    <3>1. DOMAIN slot = Slots /\ Slots \cup {i} = Slots
      BY <2>2 DEF IInv, TableOK
    <3>2. slot' = [y \in Slots |-> IF y = i THEN [used |-> TRUE, h |-> h] ELSE slot[y]]
      BY <2>1, <3>1 DEF Put, F!Put
    <3>3. slot = [y \in Slots |-> slot[y]]
      BY DEF IInv, TableOK
    <3>4. slot' = [slot EXCEPT ![i] = [used |-> TRUE, h |-> h]]
      BY <2>2, <3>2, <3>3
    <3>5. DOMAIN gemdos' = DOMAIN gemdos \cup {h}
      BY <2>1, PutDomain
    <3> QED
      BY <3>4, <3>5
  <2>4. TableOK'
    BY <2>2, <2>3 DEF IInv, TableOK
  <2>5. /\ Used' = Used \cup {i}
        /\ slot'[i].h = h
        /\ \A j \in Used : slot'[j].h = slot[j].h
    BY <2>2, <2>3 DEF IInv, TableOK, Used
  <2>6. \A j \in Used : slot[j].h \in DOMAIN gemdos
    BY DEF IInv, SlotsHoldHandles
  <2>7. SlotsHoldHandles'
    BY <2>2, <2>3, <2>5, <2>6 DEF IInv, SlotsHoldHandles
  <2> QED
    BY <2>4, <2>7 DEF IInv
<1> QED
  BY <1>1, <1>2

(***************************************************************************)
(* Moving a file, or leaving it, keeps every handle where it is.           *)
(***************************************************************************)
LEMMA SameHandles ==
  ASSUME IInv, slot' = slot, DOMAIN gemdos' = DOMAIN gemdos
  PROVE  IInv'
  BY DEF IInv, TableOK, SlotsHoldHandles, Used

(* A file that moves stays open, and so do the others.                     *)
LEMMA MovedDomain ==
  ASSUME NEW h, NEW pos
  PROVE  DOMAIN MovedTo(h, pos) = DOMAIN gemdos
  BY DEF MovedTo

(***************************************************************************)
(* plat_file_close: one handle and the one slot that had it.               *)
(***************************************************************************)
LEMMA CloseKeeps ==
  ASSUME IInv, NEW i \in Used, Close(i)
  PROVE  IInv'
<1>1. i \in Slots /\ slot[i].h \in DOMAIN gemdos
  BY DEF IInv, TableOK, SlotsHoldHandles, Used
<1>2. /\ slot' = [slot EXCEPT ![i].used = FALSE]
      /\ DOMAIN gemdos' = DOMAIN gemdos \ {slot[i].h}
  BY DropDomain DEF Close, slot_h
<1>3. TableOK'
  BY <1>1, <1>2 DEF IInv, TableOK
<1>4. /\ Used' = Used \ {i}
      /\ \A j \in Used \ {i} : slot'[j].h = slot[j].h
  BY <1>1, <1>2 DEF IInv, TableOK, Used
<1>5. SlotsHoldHandles'
  BY <1>2, <1>4 DEF IInv, SlotsHoldHandles
<1> QED
  BY <1>3, <1>5 DEF IInv

(***************************************************************************)
(* The three facts of the invariant.                                       *)
(***************************************************************************)
LEMMA InitIInv == Init => IInv
  BY DEF Init, IInv, TableOK, SlotsHoldHandles, Used

(* Every call keeps the invariant.                                         *)
LEMMA NextIInv == IInv /\ [Next]_vars => IInv'
<1> SUFFICES ASSUME IInv, [Next]_vars PROVE IInv'
  OBVIOUS
<1>1. CASE OpenRefused
  BY <1>1, SameHandles DEF OpenRefused
<1>2. ASSUME NEW name \in Names, OpenRead(name) PROVE IInv'
  BY <1>2, NewSlotKeeps DEF OpenRead
<1>3. ASSUME NEW name \in Names, OpenWrite(name) PROVE IInv'
  BY <1>3, NewSlotKeeps DEF OpenWrite
<1>4. ASSUME NEW name \in Names, OpenAppend(name) PROVE IInv'
  BY <1>4, NewSlotKeeps DEF OpenAppend
<1>5. ASSUME NEW name \in Names, Delete(name) PROVE IInv'
  BY <1>5, SameHandles DEF Delete
<1>6. ASSUME NEW name \in Names, Exists(name) PROVE IInv'
  BY <1>6, SameHandles DEF Exists
<1>7. ASSUME NEW i \in Used, NEW cap \in 0..MaxOut, Read(i, cap) PROVE IInv'
  BY <1>7, SameHandles, MovedDomain DEF Read
<1>8. ASSUME NEW i \in Used, NEW data \in F!SeqsUpTo(Bytes, MaxOut), Write(i, data)
      PROVE  IInv'
  BY <1>8, SameHandles, MovedDomain DEF Write
<1>9. ASSUME NEW i \in Used, NEW offset \in Offsets, NEW whence \in F!Whences,
             Seek(i, offset, whence)
      PROVE  IInv'
  <2>1. slot' = slot
    BY <1>9 DEF Seek, Returns, Fails
  <2>2. DOMAIN gemdos' = DOMAIN gemdos
    BY <1>9, MovedDomain DEF Seek, Returns, Fails
  <2> QED
    BY <2>1, <2>2, SameHandles
<1>10. ASSUME NEW i \in Used, Tell(i) PROVE IInv'
  BY <1>10, SameHandles DEF Tell
<1>11. ASSUME NEW i \in Used, Size(i) PROVE IInv'
  BY <1>11, SameHandles, MovedDomain DEF Size, SeekBack
<1>12. ASSUME NEW i \in Used, Close(i) PROVE IInv'
  BY <1>12, CloseKeeps
<1>13. CASE UNCHANGED vars
  BY <1>13, SameHandles DEF vars
<1> QED
  BY <1>1, <1>2, <1>3, <1>4, <1>5, <1>6, <1>7, <1>8, <1>9, <1>10, <1>11, <1>12, <1>13
     DEF Next

(***************************************************************************)
(* No history of opens, failures and closes leaves a GEMDOS handle without *)
(* its slot, or two slots with one handle: plat_file_open and              *)
(* plat_file_close of file_gem4xe.c.                                       *)
(***************************************************************************)
THEOREM NoHandleLeaks == Spec => []SlotsHoldHandles
<1>1. IInv => SlotsHoldHandles
  BY DEF IInv
<1> QED
  BY <1>1, InitIInv, NextIInv, PTL DEF Spec

------------------------------------------------------------------------------
(* Streams of bytes.                                                       *)

(* Streams of at most n bytes.                                             *)
UpTo(n) == Seam!SeqsUpTo(Bytes, n)

(* ... are sequences.                                                      *)
LEMMA UpToIs ==
  ASSUME NEW n \in Nat, NEW s
  PROVE  s \in UpTo(n) <=> s \in Seq(Bytes) /\ Len(s) <= n
<1>1. ASSUME s \in UpTo(n) PROVE s \in Seq(Bytes) /\ Len(s) <= n
  <2>1. PICK m \in 0 .. n : s \in [1 .. m -> Bytes]
    BY <1>1 DEF UpTo, Seam!SeqsUpTo
  <2>2. s \in Seq(Bytes)
    BY <2>1, SeqDef
  <2>3. m \in Nat /\ Len(s) = m
    BY <2>1
  <2> QED BY <2>1, <2>2, <2>3
<1>2. ASSUME s \in Seq(Bytes), Len(s) <= n PROVE s \in UpTo(n)
  <2>1. Len(s) \in 0 .. n /\ s \in [1 .. Len(s) -> Bytes]
    BY <1>2, LenProperties
  <2> QED BY <2>1 DEF UpTo, Seam!SeqsUpTo
<1> QED BY <1>1, <1>2

(* The larger of two lengths.                                              *)
Longer(a, b) == IF a < b THEN b ELSE a

(* The first k bytes are the same.                                         *)
Agree(s, t, k) == \A i \in 1 .. k : s[i] = t[i]

(* Streams that agree on k bytes begin with the same stream.               *)
LEMMA AgreeSubSeq ==
  ASSUME NEW s \in Seq(Bytes), NEW t \in Seq(Bytes), NEW k \in Nat,
         k <= Len(s), k <= Len(t), Agree(s, t, k)
  PROVE  SubSeq(s, 1, k) = SubSeq(t, 1, k)
<1>1. (\A i \in 1 .. k : s[i] \in Bytes) /\ (\A i \in 1 .. k : t[i] \in Bytes)
  <2>1. Len(s) \in Nat /\ Len(t) \in Nat
    BY LenProperties
  <2> QED BY <2>1, ElementOfSeq
<1>2. /\ SubSeq(s, 1, k) \in Seq(Bytes) /\ Len(SubSeq(s, 1, k)) = k
      /\ \A i \in 1 .. k : SubSeq(s, 1, k)[i] = s[i]
  BY <1>1, SubSeqProperties
<1>3. /\ SubSeq(t, 1, k) \in Seq(Bytes) /\ Len(SubSeq(t, 1, k)) = k
      /\ \A i \in 1 .. k : SubSeq(t, 1, k)[i] = t[i]
  BY <1>1, SubSeqProperties
<1> DEFINE a == SubSeq(s, 1, k)
           b == SubSeq(t, 1, k)
<1> HIDE DEF a, b
<1>4. \A i \in 1 .. k : a[i] = b[i]
  BY <1>2, <1>3 DEF a, b, Agree
<1>5. a = b
  BY <1>2, <1>3, <1>4, SeqEqual DEF a, b
<1> QED BY <1>5 DEF a, b

(* The first n bytes of a stream.                                          *)
LEMMA Prefix ==
  ASSUME NEW s \in Seq(Bytes), NEW k \in 0 .. Len(s)
  PROVE  /\ SubSeq(s, 1, k) \in Seq(Bytes) /\ Len(SubSeq(s, 1, k)) = k
         /\ \A i \in 1 .. k : SubSeq(s, 1, k)[i] = s[i]
<1>1. Len(s) \in Nat /\ k \in Int
  BY LenProperties
<1>2. \A i \in 1 .. k : s[i] \in Bytes
  BY <1>1, ElementOfSeq
<1> QED BY <1>1, <1>2, SubSeqProperties

(* What follows them.                                                      *)
LEMMA Suffix ==
  ASSUME NEW s \in Seq(Bytes), NEW k \in Nat
  PROVE  LET rest == SubSeq(s, k + 1, Len(s)) IN
         /\ rest \in Seq(Bytes) /\ Len(rest) = Longer(0, Len(s) - k)
         /\ \A i \in 1 .. Len(s) - k : rest[i] = s[k + i]
<1> DEFINE rest == SubSeq(s, k + 1, Len(s))
<1>1. Len(s) \in Nat /\ k + 1 \in Int
  BY LenProperties
<1>2. \A i \in k + 1 .. Len(s) : s[i] \in Bytes
  BY <1>1, ElementOfSeq
<1>3. /\ rest \in Seq(Bytes)
      /\ Len(rest) = IF k + 1 <= Len(s) THEN Len(s) - (k + 1) + 1 ELSE 0
      /\ \A i \in 1 .. Len(s) - (k + 1) + 1 : rest[i] = s[(k + 1) + i - 1]
  BY <1>1, <1>2, SubSeqProperties
<1> HIDE DEF rest
<1>4. Len(rest) = Longer(0, Len(s) - k)
  BY <1>1, <1>3 DEF Longer
<1>5. ASSUME NEW i \in 1 .. Len(s) - k PROVE rest[i] = s[k + i]
  <2>1. i \in 1 .. Len(s) - (k + 1) + 1 /\ (k + 1) + i - 1 = k + i
    BY <1>1
  <2> QED BY <2>1, <1>3
<1> QED BY <1>3, <1>4, <1>5 DEF rest

(* Data written over a file at `at`: how long it gets, what it agrees      *)
(* with.                                                                   *)
LEMMA Overwritten ==
  ASSUME NEW s \in Seq(Bytes), NEW at \in 0 .. Len(s), NEW d \in Seq(Bytes)
  PROVE  LET w == Seam!Overwrite(s, at, d) IN
         /\ w \in Seq(Bytes) /\ Len(w) = Longer(Len(s), at + Len(d))
         /\ Agree(w, s, at)
<1> DEFINE a == SubSeq(s, 1, at)
           c == SubSeq(s, at + Len(d) + 1, Len(s))
<1>1. Len(s) \in Nat /\ Len(d) \in Nat /\ at + Len(d) \in Nat
  BY LenProperties
<1>2. /\ a \in Seq(Bytes) /\ Len(a) = at
      /\ \A i \in 1 .. at : a[i] = s[i]
  BY Prefix
<1>3. c \in Seq(Bytes) /\ Len(c) = Longer(0, Len(s) - (at + Len(d)))
  BY <1>1, Suffix
<1>4. Seam!Overwrite(s, at, d) = (a \o d) \o c
  BY DEF Seam!Overwrite
<1> HIDE DEF a, c
<1>5. /\ a \o d \in Seq(Bytes) /\ Len(a \o d) = at + Len(d)
      /\ \A i \in 1 .. at + Len(d) : (a \o d)[i] = IF i <= at THEN a[i] ELSE d[i - at]
  BY <1>2, ConcatProperties
<1> DEFINE e == a \o d
           w == e \o c
<1> HIDE DEF e
<1>6. /\ w \in Seq(Bytes) /\ Len(w) = Len(e) + Len(c)
      /\ \A i \in 1 .. Len(e) + Len(c) : w[i] = IF i <= Len(e) THEN e[i] ELSE c[i - Len(e)]
  BY <1>3, <1>5, ConcatProperties DEF e
<1> HIDE DEF w
<1>10. Len(e) = at + Len(d) /\ Len(c) \in Nat
  BY <1>3, <1>5, LenProperties DEF e
<1>7. Len(w) = Longer(Len(s), at + Len(d))
  <2>1. CASE at + Len(d) < Len(s)
    <3>1. Len(c) = Len(s) - (at + Len(d))
      BY <2>1, <1>1, <1>3 DEF Longer
    <3>2. Len(w) = Len(s)
      BY <3>1, <1>1, <1>6, <1>10
    <3> QED BY <3>2, <2>1, <1>1 DEF Longer
  <2>2. CASE ~ (at + Len(d) < Len(s))
    <3>1. Len(c) = 0
      BY <2>2, <1>1, <1>3 DEF Longer
    <3>2. Len(w) = at + Len(d)
      BY <3>1, <1>1, <1>6, <1>10
    <3> QED BY <3>2, <2>2, <1>1 DEF Longer
  <2> QED BY <2>1, <2>2
<1>8. ASSUME NEW i \in 1 .. at PROVE w[i] = s[i]
  <2>1. i \in 1 .. at + Len(d) /\ i \in 1 .. Len(e) + Len(c) /\ i <= Len(e) /\ i <= at
    BY <1>1, <1>10
  <2>2. w[i] = e[i]
    BY <2>1, <1>6
  <2>3. e[i] = a[i]
    BY <2>1, <1>5 DEF e
  <2> QED BY <2>2, <2>3, <1>2
<1>9. Seam!Overwrite(s, at, d) = w
  BY <1>4 DEF w, e
<1> QED BY <1>6, <1>7, <1>8, <1>9 DEF Agree

(* Nothing written changes nothing.                                        *)
LEMMA OverwriteNone ==
  ASSUME NEW s \in Seq(Bytes), NEW at \in 0 .. Len(s)
  PROVE  Seam!Overwrite(s, at, <<>>) = s
<1> DEFINE a == SubSeq(s, 1, at)
           c == SubSeq(s, at + 1, Len(s))
<1>1. Len(s) \in Nat /\ at \in Nat
  BY LenProperties
<1>2. Seam!Overwrite(s, at, <<>>) = (a \o <<>>) \o c
  <2>1. Len(<<>>) = 0 /\ at + 0 + 1 = at + 1
    BY <1>1
  <2> QED BY <2>1 DEF Seam!Overwrite
<1>3. a \in Seq(Bytes)
  BY Prefix
<1>4. a \o <<>> = a
  BY <1>3, ConcatEmptySeq
<1>5. a \o c = s
  <2>1. 1 \in 1 .. Len(s) + 1 /\ at \in 1 - 1 .. Len(s) /\ Len(s) \in at .. Len(s)
    BY <1>1
  <2>2. a \o c = SubSeq(s, 1, Len(s))
    BY <2>1, ConcatAdjacentSubSeq
  <2> QED BY <2>2, SubSeqFull
<1> QED BY <1>2, <1>4, <1>5

(* A file that is written past its end, up to there.                       *)
LEMMA Gapped ==
  ASSUME NEW s \in Seq(Bytes), NEW at \in Nat, NEW gap \in Seam!Gaps(s, at)
  PROVE  /\ gap \in Seq(Bytes) /\ s \o gap \in Seq(Bytes)
         /\ Len(s \o gap) = Longer(Len(s), at)
         /\ \A k \in 0 .. Len(s) : Agree(s \o gap, s, k)
         /\ at <= Len(s) => s \o gap = s
<1> DEFINE m == Seam!AtLeast(0, at - Len(s))
<1>1. Len(s) \in Nat
  BY LenProperties
<1>2. m \in Nat /\ m = Longer(0, at - Len(s))
  BY <1>1 DEF Seam!AtLeast, Longer
<1>3. gap \in [1 .. m -> Bytes]
  BY DEF Seam!Gaps
<1> HIDE DEF m
<1>4. gap \in Seq(Bytes)
  BY <1>2, <1>3, SeqDef
<1>5. Len(gap) = m
  BY <1>2, <1>3
<1>6. /\ s \o gap \in Seq(Bytes) /\ Len(s \o gap) = Len(s) + m
      /\ \A i \in 1 .. Len(s) + m : (s \o gap)[i] = IF i <= Len(s) THEN s[i] ELSE gap[i - Len(s)]
  BY <1>4, <1>5, ConcatProperties
<1>7. Len(s) + m = Longer(Len(s), at)
  <2>1. CASE Len(s) < at
    BY <2>1, <1>1, <1>2 DEF Longer
  <2>2. CASE ~ (Len(s) < at)
    BY <2>2, <1>1, <1>2 DEF Longer
  <2> QED BY <2>1, <2>2
<1> DEFINE w == s \o gap
<1> HIDE DEF w
<1>8. ASSUME NEW k \in 0 .. Len(s), NEW i \in 1 .. k PROVE w[i] = s[i]
  <2>1. i \in 1 .. Len(s) + m /\ i <= Len(s)
    BY <1>1, <1>2
  <2> QED BY <2>1, <1>6 DEF w
<1>9. ASSUME at <= Len(s) PROVE w = s
  <2>1. m = 0
    BY <1>9, <1>1, <1>2 DEF Longer
  <2>2. gap = <<>>
    BY <2>1, <1>4, <1>5, EmptySeq
  <2> QED BY <2>2, ConcatEmptySeq DEF w
<1> QED BY <1>4, <1>6, <1>7, <1>8, <1>9 DEF Agree, w

(* n bytes of data written at `at`, after a gap if there is one.           *)
LEMMA Put1 ==
  ASSUME NEW s \in Seq(Bytes), NEW at \in Nat, NEW gap \in Seam!Gaps(s, at),
         NEW data \in Seq(Bytes), NEW n \in 0 .. Len(data)
  PROVE  LET w == Seam!Overwrite(s \o gap, at, SubSeq(data, 1, n)) IN
         /\ w \in Seq(Bytes) /\ Len(w) = Longer(Len(s), at + n)
         /\ \A k \in Nat : k <= at /\ k <= Len(s) => Agree(w, s, k)
         /\ n = 0 /\ at <= Len(s) => w = s
<1> DEFINE t == s \o gap
           d == SubSeq(data, 1, n)
           w == Seam!Overwrite(t, at, d)
<1>1. Len(s) \in Nat /\ n \in Nat
  BY LenProperties
<1>2. /\ t \in Seq(Bytes)
      /\ Len(t) = Longer(Len(s), at)
      /\ \A k \in 0 .. Len(s) : Agree(t, s, k)
      /\ at <= Len(s) => t = s
  BY Gapped
<1>3. d \in Seq(Bytes) /\ Len(d) = n
  BY Prefix
<1>4. n = 0 => d = <<>>
  BY <1>3, EmptySeq
<1> HIDE DEF t, d
<1>5. at \in 0 .. Len(t)
  BY <1>1, <1>2 DEF Longer
<1>6. w \in Seq(Bytes) /\ Len(w) = Longer(Len(t), at + Len(d)) /\ Agree(w, t, at)
  BY <1>3, <1>5, <1>2, Overwritten
<1>7. n = 0 => w = t
  BY <1>2, <1>4, <1>5, OverwriteNone
<1> HIDE DEF w
<1>8. Len(w) = Longer(Len(s), at + n)
  <2>1. CASE Len(s) < at
    <3>1. Len(t) = at
      BY <2>1, <1>2 DEF Longer
    <3>2. Longer(at, at + n) = at + n
      BY <1>1 DEF Longer
    <3>3. Longer(Len(s), at + n) = at + n
      BY <2>1, <1>1 DEF Longer
    <3> QED BY <3>1, <3>2, <3>3, <1>3, <1>6
  <2>2. CASE ~ (Len(s) < at)
    BY <2>2, <1>1, <1>2, <1>3, <1>6
  <2> QED BY <2>1, <2>2
<1>9. ASSUME NEW k \in Nat, k <= at, k <= Len(s), NEW i \in 1 .. k PROVE w[i] = s[i]
  <2>1. i \in 1 .. at
    BY <1>9
  <2>2. w[i] = t[i]
    BY <2>1, <1>6 DEF Agree
  <2>3. k \in 0 .. Len(s)
    BY <1>9, <1>1
  <2>4. t[i] = s[i]
    BY <2>3, <1>2, <1>9 DEF Agree
  <2> QED BY <2>2, <2>4
<1>10. Seam!Overwrite(s \o gap, at, SubSeq(data, 1, n)) = w
  BY DEF w, t, d
<1> QED BY <1>2, <1>6, <1>7, <1>8, <1>9, <1>10 DEF Agree

(* n bytes from `at` on.                                                   *)
LEMMA Slice ==
  ASSUME NEW s \in Seq(Bytes), NEW at \in Nat, NEW n \in Nat, n # 0 => at + n <= Len(s),
         NEW top \in Nat, n <= top
  PROVE  SubSeq(s, at + 1, at + n) \in UpTo(top)
<1>1. \A k \in at + 1 .. at + n : s[k] \in Bytes
  <2>1. Len(s) \in Nat
    BY LenProperties
  <2> QED BY <2>1, ElementOfSeq
<1>2. at + 1 \in Int /\ at + n \in Int
  OBVIOUS
<1> DEFINE g == SubSeq(s, at + 1, at + n)
<1>3. g \in Seq(Bytes) /\
      Len(g) = IF at + 1 <= at + n THEN (at + n) - (at + 1) + 1 ELSE 0
  BY <1>1, <1>2, SubSeqProperties
<1> HIDE DEF g
<1>4. Len(g) <= top
  <2>1. CASE at + 1 <= at + n
    <3>1. Len(g) = n
      BY <2>1, <1>3
    <3> QED BY <3>1
  <2>2. CASE ~ (at + 1 <= at + n)
    <3>1. Len(g) = 0
      BY <2>2, <1>3
    <3> QED BY <3>1
  <2> QED BY <2>1, <2>2
<1>5. g \in UpTo(top)
  BY <1>3, <1>4, UpToIs
<1> QED BY <1>5 DEF g

(* What of a stream has got to the disk.                                   *)
LEMMA Part1 ==
  ASSUME NEW file \in Seq(Bytes), NEW firm \in Seq(Bytes),
         NEW part \in P!Partly(file, firm), NEW top \in Nat,
         Len(file) <= top, Len(firm) <= top, NEW k \in Nat,
         k <= Len(file), k <= Len(firm), Agree(firm, file, k)
  PROVE  /\ part \in Seq(Bytes) /\ Len(part) <= top
         /\ k <= Len(part) /\ Agree(part, file, k)
<1>1. PICK n \in 0 .. Len(file) :
         part = SubSeq(file, 1, n) \o SubSeq(firm, n + 1, Len(firm))
  BY DEF P!Partly
<1> DEFINE a == SubSeq(file, 1, n)
           c == SubSeq(firm, n + 1, Len(firm))
<1>2. Len(file) \in Nat /\ Len(firm) \in Nat /\ n \in Nat
  BY LenProperties
<1>3. /\ a \in Seq(Bytes) /\ Len(a) = n
      /\ \A i \in 1 .. n : a[i] = file[i]
  BY Prefix
<1>4. /\ c \in Seq(Bytes) /\ Len(c) = Longer(0, Len(firm) - n)
      /\ \A i \in 1 .. Len(firm) - n : c[i] = firm[n + i]
  BY <1>2, Suffix
<1> HIDE DEF a, c
<1>5. /\ part \in Seq(Bytes) /\ Len(part) = n + Len(c)
      /\ \A i \in 1 .. n + Len(c) : part[i] = IF i <= n THEN a[i] ELSE c[i - n]
  <2>1. part = a \o c
    BY <1>1 DEF a, c
  <2>2. /\ a \o c \in Seq(Bytes) /\ Len(a \o c) = Len(a) + Len(c)
        /\ \A i \in 1 .. Len(a) + Len(c) :
             (a \o c)[i] = IF i <= Len(a) THEN a[i] ELSE c[i - Len(a)]
    <3>1. a \in Seq(Bytes) /\ c \in Seq(Bytes)
      BY <1>3, <1>4
    <3> QED BY <3>1, ConcatProperties
  <2> QED BY <2>1, <2>2, <1>3
<1>6. Len(part) <= top /\ k <= Len(part)
  <2>1. CASE n < Len(firm)
    <3>1. Len(c) = Len(firm) - n
      BY <2>1, <1>2, <1>4 DEF Longer
    <3> QED BY <3>1, <1>2, <1>5
  <2>2. CASE ~ (n < Len(firm))
    <3>1. Len(c) = 0
      BY <2>2, <1>2, <1>4 DEF Longer
    <3> QED BY <3>1, <2>2, <1>2, <1>5
  <2> QED BY <2>1, <2>2
<1>7. ASSUME NEW i \in 1 .. k PROVE part[i] = file[i]
  <2>1. i \in Nat /\ i >= 1 /\ i <= Len(part) /\ Len(part) \in Nat
    BY <1>5, <1>6, LenProperties
  <2>2. i \in 1 .. n + Len(c)
    BY <2>1, <1>5
  <2>3. CASE i <= n
    BY <2>1, <2>2, <2>3, <1>2, <1>3, <1>5
  <2>4. CASE ~ (i <= n)
    <3>1. i - n \in 1 .. Len(firm) - n
      BY <2>1, <2>4, <1>2
    <3>2. c[i - n] = firm[n + (i - n)] /\ n + (i - n) = i
      BY <3>1, <1>2, <1>4
    <3>3. firm[i] = file[i]
      BY DEF Agree
    <3> QED BY <2>2, <2>4, <3>2, <3>3, <1>5
  <2> QED BY <2>3, <2>4
<1> QED BY <1>5, <1>6, <1>7 DEF Agree

(* A file written through a stdio stream: the system may not have it all.  *)
Streamed(f, tg) == tg \in P!Streams /\ f.mode # "read"

(* A file a plain backend has open.                                        *)
PlainFile ==
  [name : PlainNames, pos : 0 .. MaxSize, mode : Seam!Modes,
   old : 0 .. MaxSize, firm : UpTo(MaxSize)]

(* Its bytes are on the disk as far as they must be: a place within the    *)
(* file where the backend keeps a handle, and what a stream was opened on  *)
(* intact.                                                                 *)
GoodFile(f, dk, tg) ==
  /\ f \in PlainFile
  /\ f.name \in DOMAIN dk
  /\ f.mode # "append" => f.old = 0
  /\ tg \notin P!Streams => f.pos <= Len(dk[f.name])
  /\ Streamed(f, tg) => /\ f.old <= Len(f.firm)
                        /\ f.old <= Len(dk[f.name])
                        /\ Agree(f.firm, dk[f.name], f.old)

(* Names and their bytes.                                                  *)
DiskOK(dk) ==
  /\ DOMAIN dk \subseteq PlainNames
  /\ dk \in [DOMAIN dk -> UpTo(MaxSize)]

(* A file open twice is only read.                                         *)
Alone(op) ==
  \A p, q \in DOMAIN op :
    p # q /\ op[p].name = op[q].name => op[p].mode = "read"

(* The files of a plain backend in order.                                  *)
FilesOK(op, dk, tg) ==
  /\ DOMAIN op \subseteq Slots
  /\ DiskOK(dk)
  /\ Alone(op)
  /\ \A p \in DOMAIN op : GoodFile(op[p], dk, tg)

(* The answers of its last call, typed.                                    *)
AnswersOK ==
  /\ status \in {"none", "OK", "ERR"}
  /\ got \in UpTo(PlainMaxOut)
  /\ told \in 0 .. MaxSize \cup Slots
  /\ asked \in 0 .. MaxSize + PlainMaxOut

(* The inductive invariant of the plain backends.                          *)
PInv == target \in Plain /\ FilesOK(open, disk, target) /\ AnswersOK

(* What the seam sees of the files a plain backend has open.               *)
View(op) ==
  [p \in DOMAIN op |-> [name |-> op[p].name, pos |-> op[p].pos,
                        mode |-> op[p].mode, old |-> op[p].old]]

(* The seam, of a plain backend.                                           *)
LEMMA PlainQuirks ==
  ASSUME target \in Plain
  PROVE  /\ ~ IsGem
         /\ LinkedOpened = View(open)
         /\ Seam!May("ends") <=> target \in P!Streams
         /\ target \in P!Streams =>
              Seam!May("beyond") /\ Seam!May("drifts") /\ Seam!May("tears")
         /\ target = "atari" => Seam!May("short")
         /\ target = "amiga" =>
              /\ Seam!May("lax") /\ Seam!May("drifts")
              /\ Seam!May("unsought") /\ Seam!May("empties")
         /\ target = "mac" => Seam!May("lax") /\ Seam!May("clamps") /\ Seam!May("creates")
         /\ target \notin P!Streams => target \in {"amiga", "mac"}
         /\ target \in {"host", "atari", "amiga", "mac"}
<1>1. target \in {"host", "atari", "amiga", "mac"}
  BY PlainAssumption
<1>2. ~ IsGem
  BY <1>1 DEF IsGem
<1>3. LinkedOpened = View(open)
  BY <1>2 DEF LinkedOpened, P!Opened, View
<1>4. LinkedQuirks = P!Quirks
  BY <1>2 DEF LinkedQuirks
<1>5. CASE target = "host"
  <2>1. LinkedQuirks = {"ends", "beyond", "drifts", "tears"}
    BY <1>4, <1>5 DEF P!Quirks
  <2> QED BY <2>1, <1>2, <1>3, <1>5 DEF Seam!May, P!Streams
<1>6. CASE target = "atari"
  <2>1. LinkedQuirks = {"ends", "beyond", "drifts", "tears", "short"}
    BY <1>4, <1>6 DEF P!Quirks
  <2> QED BY <2>1, <1>2, <1>3, <1>6 DEF Seam!May, P!Streams
<1>7. CASE target = "amiga"
  <2>1. LinkedQuirks = {"lax", "drifts", "unsought", "empties"}
    BY <1>4, <1>7 DEF P!Quirks
  <2> QED BY <2>1, <1>2, <1>3, <1>7 DEF Seam!May, P!Streams
<1>8. CASE target = "mac"
  <2>1. LinkedQuirks = {"lax", "clamps", "creates"}
    BY <1>4, <1>8 DEF P!Quirks
  <2> QED BY <2>1, <1>2, <1>3, <1>8 DEF Seam!May, P!Streams
<1> QED BY <1>1, <1>5, <1>6, <1>7, <1>8

(* ... and it stays that one.                                              *)
LEMMA PlainStays ==
  ASSUME target \in Plain, target' = target
  PROVE  LinkedQuirks' = LinkedQuirks /\ LinkedOpened' = View(open')
<1>1. ~ IsGem /\ ~ IsGem'
  BY PlainQuirks DEF IsGem
<1>2. LinkedQuirks = P!Quirks /\ LinkedQuirks' = P!Quirks'
  BY <1>1 DEF LinkedQuirks
<1>3. P!Quirks' = P!Quirks
  BY DEF P!Quirks
<1>4. LinkedOpened' = P!Opened'
  BY <1>1 DEF LinkedOpened
<1>5. P!Opened' = View(open')
  BY DEF P!Opened, View
<1> QED BY <1>2, <1>3, <1>4, <1>5

(* The answers a plain backend gives are answers of the seam.              *)
LEMMA PlainAnswers ==
  ASSUME target \in Plain, NEW s, NEW n, NEW a, P!Answers(s, n, a)
  PROVE  /\ Seam!Says(s, n) /\ asked' = a /\ target' = target
         /\ a = 0 /\ s = "OK" => Seam!Done(n)
         /\ a = 0 /\ n = 0 /\ s = "ERR" => Seam!Fails
BY PlainStays DEF P!Answers, Seam!Says, Seam!Done, Seam!Fails

(* The empty file is short enough.                                         *)
LEMMA EmptyUpTo ==
  ASSUME NEW n \in Nat
  PROVE  <<>> \in UpTo(n)
<1> DEFINE e == <<>>
<1>1. e \in Seq(Bytes) /\ Len(e) <= n
  <2>1. e \in Seq(Bytes) /\ Len(e) = 0
    BY EmptySeq
  <2> QED BY <2>1
<1> HIDE DEF e
<1>2. e \in UpTo(n)
  BY <1>1, UpToIs
<1> QED BY <1>2 DEF e

(* A call that asks nothing leaves the answers typed.                      *)
LEMMA AnswersKept ==
  ASSUME NEW s \in {"OK", "ERR"}, NEW n \in 0 .. MaxSize \cup Slots,
         NEW a \in 0 .. MaxSize + PlainMaxOut, P!Answers(s, n, a)
  PROVE  AnswersOK'
<1>1. <<>> \in UpTo(PlainMaxOut)
  BY EmptyUpTo, PlainAssumption
<1> QED BY <1>1 DEF AnswersOK, P!Answers

(* p alone differs.                                                        *)
OnlyAt(op, new, p) ==
  DOMAIN new = DOMAIN op /\ \A q \in DOMAIN op : q # p => new[q] = op[q]

(* p is at pos now and the system has firm of it; nothing else differs.    *)
StepsTo(op, new, p, pos, firm) ==
  /\ OnlyAt(op, new, p)
  /\ new[p] = [name |-> op[p].name, pos |-> pos, mode |-> op[p].mode,
               old |-> op[p].old, firm |-> firm]

(* How the seam sees a file that moved, is new, or is gone.                *)
LEMMA ViewMoved ==
  ASSUME NEW op, NEW new, NEW p \in DOMAIN op, NEW pos, NEW firm,
         StepsTo(op, new, p, pos, firm)
  PROVE  View(new) = [View(op) EXCEPT ![p].pos = pos]
<1> DEFINE v == [View(op) EXCEPT ![p].pos = pos]
<1>1. DOMAIN View(new) = DOMAIN op /\ DOMAIN v = DOMAIN op
  BY DEF View, StepsTo, OnlyAt
<1>2. ASSUME NEW q \in DOMAIN op PROVE View(new)[q] = v[q]
  BY <1>2 DEF View, StepsTo, OnlyAt
<1> QED BY <1>1, <1>2 DEF View

(* A file that is opened is opened in what the seam sees.                  *)
LEMMA ViewPut ==
  ASSUME NEW op, NEW p, NEW f
  PROVE  View(P!F!Put(op, p, f)) =
           Seam!Put(View(op), p, [name |-> f.name, pos |-> f.pos,
                                  mode |-> f.mode, old |-> f.old])
BY DEF View, P!F!Put, Seam!Put

(* A file that is closed is closed there.                                  *)
LEMMA ViewDrop ==
  ASSUME NEW op, NEW p
  PROVE  View(P!F!Drop(op, p)) = Seam!Drop(View(op), p)
BY DEF View, P!F!Drop, Seam!Drop

------------------------------------------------------------------------------
(* The files that stay as they are when one changes.                       *)

OthersFine(op, p, dk, tg) == \A q \in DOMAIN op \ {p} : GoodFile(op[q], dk, tg)

(* The others stay good when a write is to a file they have not open.      *)
LEMMA OthersGood ==
  ASSUME NEW op, NEW dk, NEW tg, FilesOK(op, dk, tg), NEW p \in DOMAIN op,
         NEW s \in UpTo(MaxSize),
         Streamed(op[p], tg) \/ (tg \notin P!Streams /\ Len(dk[op[p].name]) <= Len(s))
  PROVE  LET new == [dk EXCEPT ![op[p].name] = s] IN
         /\ DiskOK(new) /\ DOMAIN new = DOMAIN dk /\ new[op[p].name] = s
         /\ OthersFine(op, p, new, tg)
<1> DEFINE name == op[p].name
           new  == [dk EXCEPT ![name] = s]
<1>1. /\ name \in DOMAIN dk /\ DOMAIN new = DOMAIN dk /\ new[name] = s
      /\ \A n \in DOMAIN dk : n # name => new[n] = dk[n]
  BY DEF FilesOK, GoodFile
<1> HIDE DEF new
<1>2. DiskOK(new)
  <2>1. ASSUME NEW n \in DOMAIN new PROVE new[n] \in UpTo(MaxSize)
    BY <1>1 DEF FilesOK, DiskOK
  <2>2. new \in [DOMAIN new -> UpTo(MaxSize)]
    BY <2>1 DEF new
  <2> QED BY <1>1, <2>2 DEF FilesOK, DiskOK
<1>3. ASSUME NEW q \in DOMAIN op, q # p PROVE GoodFile(op[q], new, tg)
  <2>1. GoodFile(op[q], dk, tg)
    BY DEF FilesOK
  <2>2. CASE op[q].name # name
    BY <2>1, <2>2, <1>1 DEF GoodFile
  <2>3. CASE op[q].name = name
    <3>1. op[q].mode = "read" /\ op[p].mode = "read"
      BY <1>3, <2>3 DEF FilesOK, Alone
    <3>2. tg \notin P!Streams /\ Len(dk[name]) <= Len(s)
      BY <3>1 DEF Streamed
    <3>3. op[q].pos <= Len(dk[name]) /\ op[q].pos \in Nat
      BY <2>1, <2>3, <3>2 DEF GoodFile, PlainFile
    <3>4. Len(s) \in Nat /\ Len(dk[name]) \in Nat
      <4>1. s \in Seq(Bytes) /\ dk[name] \in Seq(Bytes)
        BY <1>1, UpToIs, SlotsAssumption DEF FilesOK, DiskOK
      <4> QED BY <4>1, LenProperties
    <3>5. op[q].pos <= Len(new[op[q].name])
      BY <3>2, <3>3, <3>4, <2>3, <1>1
    <3> QED BY <2>1, <2>3, <3>2, <3>5, <1>1 DEF GoodFile, Streamed
  <2> QED BY <2>2, <2>3
<1> QED BY <1>1, <1>2, <1>3 DEF new, OthersFine

(* One file changes.                                                       *)
LEMMA ChangedOK ==
  ASSUME NEW op, NEW dk, NEW tg, FilesOK(op, dk, tg), NEW p \in DOMAIN op,
         NEW new, NEW pos, NEW firm, StepsTo(op, new, p, pos, firm),
         NEW dk2, DiskOK(dk2), GoodFile(new[p], dk2, tg), OthersFine(op, p, dk2, tg)
  PROVE  FilesOK(new, dk2, tg)
<1>1. Alone(new)
  BY DEF FilesOK, Alone, StepsTo, OnlyAt
<1>2. ASSUME NEW q \in DOMAIN new PROVE GoodFile(new[q], dk2, tg)
  <2>1. CASE q = p
    BY <2>1
  <2>2. CASE q # p
    BY <2>2 DEF OthersFine, StepsTo, OnlyAt
  <2> QED BY <2>1, <2>2
<1> QED BY <1>1, <1>2 DEF FilesOK, StepsTo, OnlyAt

(* One file more.                                                          *)
LEMMA NewOK ==
  ASSUME NEW op, NEW dk, NEW tg, FilesOK(op, dk, tg), NEW p \in Slots \ DOMAIN op,
         NEW f, NEW dk2, DiskOK(dk2), GoodFile(f, dk2, tg),
         \A q \in DOMAIN op :
           /\ op[q].name \in DOMAIN dk2 /\ dk2[op[q].name] = dk[op[q].name]
           /\ op[q].name = f.name => op[q].mode = "read" /\ f.mode = "read"
  PROVE  FilesOK(P!F!Put(op, p, f), dk2, tg)
<1> DEFINE new == P!F!Put(op, p, f)
<1>1. /\ DOMAIN new = DOMAIN op \cup {p} /\ new[p] = f
      /\ \A q \in DOMAIN op : new[q] = op[q]
  BY DEF P!F!Put
<1> HIDE DEF new
<1>2. Alone(new)
  BY <1>1 DEF FilesOK, Alone
<1>3. ASSUME NEW q \in DOMAIN new PROVE GoodFile(new[q], dk2, tg)
  <2>1. CASE q = p
    BY <2>1, <1>1
  <2>2. CASE q # p
    <3>1. q \in DOMAIN op /\ GoodFile(op[q], dk, tg)
      BY <2>2, <1>1 DEF FilesOK
    <3>2. GoodFile(op[q], dk2, tg)
      BY <3>1 DEF GoodFile
    <3> QED BY <3>1, <3>2, <1>1
  <2> QED BY <2>1, <2>2
<1> QED BY <1>1, <1>2, <1>3 DEF FilesOK, new

(* What is known of an open file.                                          *)
LEMMA OpenFacts ==
  ASSUME PInv, NEW p \in DOMAIN open
  PROVE  /\ target \in Plain /\ p \in Slots
         /\ open[p] \in PlainFile
         /\ GoodFile(open[p], disk, target)
         /\ open[p].name \in DOMAIN disk
         /\ disk[open[p].name] \in Seq(Bytes)
         /\ Len(disk[open[p].name]) \in 0 .. MaxSize
         /\ open[p].firm \in Seq(Bytes)
         /\ Len(open[p].firm) \in 0 .. MaxSize
         /\ p \in DOMAIN LinkedOpened
         /\ LinkedOpened[p].name = open[p].name
         /\ LinkedOpened[p].pos = open[p].pos
         /\ LinkedOpened[p].mode = open[p].mode
         /\ LinkedOpened[p].old = open[p].old
<1>1. /\ target \in Plain /\ p \in Slots /\ GoodFile(open[p], disk, target)
      /\ DiskOK(disk)
  BY DEF PInv, FilesOK
<1>2. open[p] \in PlainFile /\ open[p].name \in DOMAIN disk
  BY <1>1 DEF GoodFile
<1>3. disk[open[p].name] \in UpTo(MaxSize) /\ open[p].firm \in UpTo(MaxSize)
  BY <1>1, <1>2 DEF DiskOK, PlainFile
<1>4. /\ disk[open[p].name] \in Seq(Bytes) /\ Len(disk[open[p].name]) <= MaxSize
      /\ open[p].firm \in Seq(Bytes) /\ Len(open[p].firm) <= MaxSize
  BY <1>3, UpToIs, SlotsAssumption
<1>5. Len(disk[open[p].name]) \in 0 .. MaxSize /\ Len(open[p].firm) \in 0 .. MaxSize
  BY <1>4, LenProperties, SlotsAssumption
<1>6. LinkedOpened = View(open)
  BY <1>1, PlainQuirks
<1> QED BY <1>1, <1>2, <1>4, <1>5, <1>6 DEF View

(* p steps to pos: what the seam sees of it.                               *)
LEMMA Moves ==
  ASSUME PInv, NEW p \in DOMAIN open, target' = target, NEW pos, NEW firm,
         StepsTo(open, open', p, pos, firm)
  PROVE  Seam!MovesTo(p, pos)
<1>1. target \in Plain
  BY OpenFacts
<1>2. View(open') = [View(open) EXCEPT ![p].pos = pos]
  BY ViewMoved
<1>3. LinkedOpened = View(open) /\ LinkedOpened' = View(open')
  BY <1>1, PlainQuirks, PlainStays
<1> QED BY <1>2, <1>3 DEF Seam!MovesTo

(* A step to where p is already is none.                                   *)
LEMMA StaysPut ==
  ASSUME PInv, NEW p \in DOMAIN open, NEW pos, pos = open[p].pos, Seam!MovesTo(p, pos)
  PROVE  LinkedOpened' = LinkedOpened
<1>1. /\ LinkedOpened = View(open) /\ p \in DOMAIN LinkedOpened
      /\ LinkedOpened[p].pos = open[p].pos
  BY PlainQuirks, OpenFacts
<1>2. LinkedOpened[p] = [name |-> open[p].name, pos |-> open[p].pos,
                         mode |-> open[p].mode, old |-> open[p].old]
  BY <1>1 DEF View
<1>3. LinkedOpened' = [LinkedOpened EXCEPT ![p].pos = open[p].pos]
  BY DEF Seam!MovesTo
<1>4. [LinkedOpened[p] EXCEPT !.pos = open[p].pos] = LinkedOpened[p]
  BY <1>2
<1>5. LinkedOpened = [q \in DOMAIN LinkedOpened |-> LinkedOpened[q]]
  BY <1>1 DEF View
<1> QED BY <1>1, <1>3, <1>4, <1>5

(* When p steps to pos, the files are in order if it is.                   *)
LEMMA MovedOK ==
  ASSUME PInv, NEW p \in DOMAIN open,
         NEW pos \in 0 .. MaxSize, NEW firm \in UpTo(MaxSize),
         target \notin P!Streams => pos <= Len(disk[open[p].name]),
         firm = open[p].firm \/ firm = disk[open[p].name],
         NEW new, StepsTo(open, new, p, pos, firm)
  PROVE  FilesOK(new, disk, target)
<1>1. /\ new[p].name = open[p].name /\ new[p].mode = open[p].mode
      /\ new[p].old = open[p].old /\ new[p].pos = pos /\ new[p].firm = firm
      /\ new[p] = [name |-> open[p].name, pos |-> pos, mode |-> open[p].mode,
                   old |-> open[p].old, firm |-> firm]
  BY DEF StepsTo
<1>2. GoodFile(open[p], disk, target) /\ FilesOK(open, disk, target)
  BY OpenFacts DEF PInv
<1>3. GoodFile(new[p], disk, target)
  <2>1. new[p] \in PlainFile
    BY <1>1, <1>2 DEF GoodFile, PlainFile
  <2>2. Agree(disk[open[p].name], disk[open[p].name], open[p].old)
    BY DEF Agree
  <2> QED BY <2>1, <2>2, <1>1, <1>2 DEF GoodFile, Streamed
<1>4. DiskOK(disk) /\ OthersFine(open, p, disk, target)
  BY <1>2 DEF FilesOK, OthersFine
<1> QED BY <1>2, <1>3, <1>4, ChangedOK

------------------------------------------------------------------------------
(* Opening.                                                                *)

(* What an open does to the disk leaves the open files as they are.        *)
OthersKept(name, mode) ==
  \A q \in DOMAIN open :
    /\ open[q].name \in DOMAIN disk' /\ disk'[open[q].name] = disk[open[q].name]
    /\ open[q].name = name => open[q].mode = "read" /\ mode = "read"

(* A new file in order, and the seam's view of it.                         *)
LEMMA SystemOpened ==
  ASSUME PInv, NEW name \in PlainNames, NEW mode \in Seam!Modes, NEW pos,
         P!SystemOpens(name, pos, mode), DiskOK(disk'), name \in DOMAIN disk',
         pos \in 0 .. Len(disk'[name]), OthersKept(name, mode)
  PROVE  PInv' /\ Seam!Opens(name, pos, mode)
<1> DEFINE s   == disk'[name]
           old == IF target \in P!Streams /\ mode = "append" THEN Len(s) ELSE 0
           f   == [name |-> name, pos |-> pos, mode |-> mode, old |-> old,
                   firm |-> IF target \in P!Streams /\ mode # "read" THEN s ELSE <<>>]
<1>1. PICK p \in Slots \ DOMAIN open :
        open' = P!F!Put(open, p, f) /\ P!Answers("OK", p, 0)
  BY DEF P!SystemOpens, P!OK
<1>2. target \in Plain /\ target' = target /\ FilesOK(open, disk, target)
  BY <1>1 DEF PInv, P!Answers
<1>3. s \in UpTo(MaxSize) /\ Len(s) \in 0 .. MaxSize
  <2>1. s \in UpTo(MaxSize)
    BY DEF DiskOK
  <2>2. s \in Seq(Bytes) /\ Len(s) <= MaxSize
    BY <2>1, UpToIs, SlotsAssumption
  <2> HIDE DEF s
  <2>3. Len(s) \in Nat
    BY <2>2, LenProperties
  <2> QED BY <2>1, <2>2, <2>3, SlotsAssumption
<1> HIDE DEF s
<1>4. GoodFile(f, disk', target)
  <2>1. f \in PlainFile
    BY <1>3, EmptyUpTo, SlotsAssumption DEF PlainFile, s
  <2>2. ASSUME Streamed(f, target)
        PROVE  f.firm = s /\ f.old <= Len(s) /\ Agree(s, s, f.old)
    BY <2>2, <1>3 DEF Streamed, Agree
  <2>3. f.name = name /\ f.pos <= Len(disk'[name]) /\ (f.mode # "append" => f.old = 0)
    BY <1>3 DEF s
  <2> HIDE DEF f
  <2> QED BY <2>1, <2>2, <2>3 DEF GoodFile, s
<1>5. /\ f.name = name /\ f.mode = mode /\ f.pos = pos
      /\ f.old = IF Seam!May("ends") /\ mode = "append" THEN Len(disk'[name]) ELSE 0
  BY <1>2, PlainQuirks DEF s
<1> HIDE DEF f, old
<1>6. FilesOK(open', disk', target')
  BY <1>1, <1>2, <1>4, <1>5, NewOK DEF OthersKept
<1>7. AnswersOK'
  <2>1. /\ p \in 0 .. MaxSize \cup Slots /\ 0 \in 0 .. MaxSize + PlainMaxOut
        /\ "OK" \in {"OK", "ERR"} /\ P!Answers("OK", p, 0)
    BY <1>1, SlotsAssumption, PlainAssumption
  <2> QED BY <2>1, AnswersKept
<1>8. Seam!Done(p)
  BY <1>1, <1>2, PlainAnswers
<1>9. LinkedOpened' = Seam!Put(LinkedOpened, p,
        [name |-> f.name, pos |-> f.pos, mode |-> f.mode, old |-> f.old])
  <2>1. LinkedOpened' = View(open') /\ LinkedOpened = View(open)
    BY <1>2, PlainQuirks, PlainStays
  <2> QED BY <2>1, <1>1, ViewPut
<1>10. p \in Slots \ DOMAIN LinkedOpened
  <2>1. LinkedOpened = View(open)
    BY <1>2, PlainQuirks
  <2> QED BY <2>1 DEF View
<1> QED BY <1>2, <1>5, <1>6, <1>7, <1>8, <1>9, <1>10 DEF PInv, Seam!Opens

(* fopen for writing empties the file on the disk.                         *)
LEMMA Emptied ==
  ASSUME NEW dk, DiskOK(dk), NEW name \in PlainNames
  PROVE  LET new == P!F!Put(dk, name, <<>>) IN
         /\ DiskOK(new) /\ name \in DOMAIN new /\ new[name] = <<>> /\ Len(new[name]) = 0
         /\ new = Seam!Put(dk, name, <<>>)
         /\ \A n \in DOMAIN dk : n \in DOMAIN new /\ (n # name => new[n] = dk[n])
<1> DEFINE new == P!F!Put(dk, name, <<>>)
<1>1. /\ DOMAIN new = DOMAIN dk \cup {name} /\ new[name] = <<>>
      /\ \A n \in DOMAIN dk : n # name => new[n] = dk[n]
      /\ new = Seam!Put(dk, name, <<>>)
  BY DEF P!F!Put, Seam!Put
<1> HIDE DEF new
<1>2. DiskOK(new)
  <2>1. \A n \in DOMAIN new : new[n] \in UpTo(MaxSize)
    BY <1>1, EmptyUpTo, SlotsAssumption DEF DiskOK
  <2>2. new \in [DOMAIN new -> UpTo(MaxSize)]
    BY <2>1 DEF new, P!F!Put
  <2> QED BY <1>1, <2>2 DEF DiskOK
<1>3. Len(new[name]) = 0
  BY <1>1, EmptySeq
<1> QED BY <1>1, <1>2, <1>3 DEF new

(* The three ways to open are the seam's.                                  *)
LEMMA OpenReadStep ==
  ASSUME PInv, NEW name \in PlainNames, P!OpenRead(name)
  PROVE  PInv' /\ Seam!Open(name, "read")
<1>1. /\ P!NotWritten(name) /\ name \in DOMAIN disk /\ disk' = disk
      /\ P!SystemOpens(name, 0, "read")
  BY DEF P!OpenRead
<1>2. OthersKept(name, "read")
  BY <1>1, OpenFacts DEF OthersKept, P!NotWritten, P!OpenBy
<1>3. DiskOK(disk')
  BY <1>1 DEF PInv, FilesOK
<1>4. 0 \in 0 .. Len(disk'[name])
  <2>1. disk[name] \in Seq(Bytes)
    BY <1>1, <1>3, UpToIs, SlotsAssumption DEF DiskOK
  <2>2. Len(disk[name]) \in Nat
    BY <2>1, LenProperties
  <2> QED BY <2>2, <1>1
<1>5. "read" \in Seam!Modes
  BY DEF Seam!Modes
<1>6. PInv' /\ Seam!Opens(name, 0, "read")
  BY <1>1, <1>2, <1>3, <1>4, <1>5, SystemOpened
<1> QED BY <1>1, <1>6 DEF Seam!Open, Seam!OpenRead

(* Opening to write: an empty file.                                        *)
LEMMA OpenWriteStep ==
  ASSUME PInv, NEW name \in PlainNames, P!OpenWrite(name)
  PROVE  PInv' /\ Seam!Open(name, "write")
<1>1. /\ P!NotOpen(name) /\ disk' = P!F!Put(disk, name, <<>>)
      /\ P!SystemOpens(name, 0, "write")
  BY DEF P!OpenWrite
<1>2. DiskOK(disk)
  BY DEF PInv, FilesOK
<1>3. /\ DiskOK(disk') /\ name \in DOMAIN disk' /\ Len(disk'[name]) = 0
      /\ disk' = Seam!Put(disk, name, <<>>)
      /\ \A n \in DOMAIN disk : n \in DOMAIN disk' /\ (n # name => disk'[n] = disk[n])
  BY <1>1, <1>2, Emptied
<1>4. OthersKept(name, "write")
  BY <1>1, <1>3, OpenFacts DEF OthersKept, P!NotOpen, P!OpenBy
<1>5. "write" \in Seam!Modes /\ 0 \in 0 .. Len(disk'[name])
  BY <1>3 DEF Seam!Modes
<1>6. PInv' /\ Seam!Opens(name, 0, "write")
  BY <1>1, <1>3, <1>4, <1>5, SystemOpened
<1> QED BY <1>3, <1>6 DEF Seam!Open, Seam!OpenWrite

(* Opening to append: the end of the file, or a new one.                   *)
LEMMA OpenAppendStep ==
  ASSUME PInv, NEW name \in PlainNames,
         P!OpenAppendStream(name) \/ P!OpenAppendAmiga(name) \/ P!OpenAppendMac(name)
  PROVE  PInv' /\ Seam!Open(name, "append")
<1>1. P!NotOpen(name) /\ DiskOK(disk)
  BY DEF P!OpenAppendStream, P!OpenAppendAmiga, P!OpenAppendMac, PInv, FilesOK
<1>2. PICK pos \in {0, Len(disk'[name])} :
        /\ P!SystemOpens(name, pos, "append")
        /\ pos # Len(disk'[name]) => target \in P!Streams \cup {"amiga"}
  BY DEF P!OpenAppendStream, P!OpenAppendAmiga, P!OpenAppendMac
<1>3. \/ name \in DOMAIN disk /\ disk' = disk
      \/ /\ disk' = P!F!Put(disk, name, <<>>)
         /\ name \in DOMAIN disk => target = "amiga"
  BY DEF P!OpenAppendStream, P!OpenAppendAmiga, P!OpenAppendMac
<1>4. /\ DiskOK(disk') /\ name \in DOMAIN disk' /\ Len(disk'[name]) \in Nat
      /\ \A n \in DOMAIN disk : n \in DOMAIN disk' /\ (n # name => disk'[n] = disk[n])
  <2>1. /\ DiskOK(disk') /\ name \in DOMAIN disk'
        /\ \A n \in DOMAIN disk : n \in DOMAIN disk' /\ (n # name => disk'[n] = disk[n])
    BY <1>1, <1>3, Emptied
  <2>2. disk'[name] \in Seq(Bytes)
    BY <2>1, UpToIs, SlotsAssumption DEF DiskOK
  <2> QED BY <2>1, <2>2, LenProperties
<1>5. OthersKept(name, "append")
  BY <1>1, <1>4, OpenFacts DEF OthersKept, P!NotOpen, P!OpenBy
<1>6. "append" \in Seam!Modes /\ pos \in 0 .. Len(disk'[name])
  BY <1>4 DEF Seam!Modes
<1>7. PInv' /\ Seam!Opens(name, pos, "append")
  BY <1>2, <1>4, <1>5, <1>6, SystemOpened
<1>8. target \in Plain
  BY DEF PInv
<1>9. CASE name \in DOMAIN disk /\ disk' = disk
  <2>1. pos = Len(disk[name]) \/ Seam!May("unsought") \/ Seam!May("ends")
    BY <1>2, <1>8, <1>9, PlainQuirks
  <2> QED BY <2>1, <1>7, <1>9 DEF Seam!Open, Seam!OpenAppend
<1>10. CASE /\ disk' = P!F!Put(disk, name, <<>>)
            /\ name \in DOMAIN disk => target = "amiga"
  <2>1. disk' = Seam!Put(disk, name, <<>>) /\ Len(disk'[name]) = 0
    BY <1>1, <1>10, Emptied
  <2>2. pos = 0
    BY <1>6, <2>1
  <2>3. name \notin DOMAIN disk \/ Seam!May("empties")
    BY <1>8, <1>10, PlainQuirks
  <2> QED BY <2>1, <2>2, <2>3, <1>7 DEF Seam!Open, Seam!OpenAppend
<1> QED BY <1>3, <1>9, <1>10

(* The longest transfer of any backend.                                    *)
Top == F!AtLeast(MaxOut, PlainMaxOut)

(* ... is that of one of them.                                             *)
LEMMA TopIs ==
  /\ Top \in Nat /\ MaxOut <= Top /\ PlainMaxOut <= Top
BY SlotsAssumption, PlainAssumption DEF Top, F!AtLeast

------------------------------------------------------------------------------
(* Reads.                                                                  *)

(* What a read can get.                                                    *)
LEMMA RestIs ==
  ASSUME PInv, NEW p \in DOMAIN open, NEW cap \in Nat
  PROVE  /\ Seam!Rest(LinkedOpened[p], cap) = P!F!Rest(open[p], cap)
         /\ P!F!Rest(open[p], cap) \in 0 .. cap
         /\ open[p].pos \in 0 .. MaxSize
         /\ \A n \in 0 .. P!F!Rest(open[p], cap) :
              /\ n <= cap /\ open[p].pos + n \in 0 .. MaxSize
              /\ target \notin P!Streams => open[p].pos + n <= Len(disk[open[p].name])
              /\ n # 0 => open[p].pos + n <= Len(disk[open[p].name])
<1> DEFINE f == open[p]
           size == Len(disk[f.name])
<1>1. /\ f \in PlainFile /\ GoodFile(f, disk, target) /\ size \in 0 .. MaxSize
      /\ LinkedOpened[p].name = f.name /\ LinkedOpened[p].pos = f.pos
  BY OpenFacts
<1>2. f.pos \in 0 .. MaxSize /\ (target \notin P!Streams => f.pos <= size)
  BY <1>1 DEF GoodFile, PlainFile
<1>3. Seam!Rest(LinkedOpened[p], cap) = P!F!Rest(open[p], cap)
  BY <1>1 DEF Seam!Rest, P!F!Rest, Seam!AtMost, P!F!AtMost, Seam!AtLeast, P!F!AtLeast
<1> DEFINE rest == P!F!Rest(f, cap)
<1>4. rest = P!F!AtMost(cap, P!F!AtLeast(0, size - f.pos))
  BY DEF P!F!Rest
<1> HIDE DEF f, size, rest
<1>5. MaxSize \in Nat
  BY SlotsAssumption
<1>6. rest \in 0 .. cap /\ \A n \in 0 .. rest :
         /\ n <= cap /\ f.pos + n \in 0 .. MaxSize
         /\ target \notin P!Streams => f.pos + n <= size
         /\ n # 0 => f.pos + n <= size
  <2>1. CASE size - f.pos > 0
    <3>1. P!F!AtLeast(0, size - f.pos) = size - f.pos
      BY <2>1, <1>1, <1>2 DEF P!F!AtLeast
    <3>2. rest \in 0 .. cap /\ rest <= size - f.pos
      BY <3>1, <2>1, <1>1, <1>2, <1>4 DEF P!F!AtMost
    <3> QED BY <3>2, <1>1, <1>2, <1>5
  <2>2. CASE ~ (size - f.pos > 0)
    <3>1. P!F!AtLeast(0, size - f.pos) = 0
      BY <2>2, <1>1, <1>2 DEF P!F!AtLeast
    <3>2. rest = 0
      BY <3>1, <1>4 DEF P!F!AtMost
    <3> QED BY <3>2, <1>1, <1>2, <1>5
  <2> QED BY <2>1, <2>2
<1> QED BY <1>2, <1>3, <1>6 DEF rest, f, size

(* A read that gets n bytes is the seam's.                                 *)
LEMMA ReadsStep ==
  ASSUME PInv, NEW p \in DOMAIN open, NEW cap \in 0 .. PlainMaxOut,
         NEW n \in 0 .. P!F!Rest(open[p], cap),
         n = P!F!Rest(open[p], cap) \/ (target = "atari" /\ n > 0),
         P!Reads(p, cap, n)
  PROVE  PInv' /\ Seam!Read(p, cap)
<1> DEFINE f == open[p]
<1>1. /\ target \in Plain /\ f \in PlainFile /\ f.firm \in UpTo(MaxSize)
      /\ disk[f.name] \in Seq(Bytes) /\ Len(disk[f.name]) \in 0 .. MaxSize
      /\ LinkedOpened[p].name = f.name /\ LinkedOpened[p].pos = f.pos
  BY OpenFacts DEF PlainFile
<1>2. /\ open' = [open EXCEPT ![p].pos = f.pos + n]
      /\ got' = SubSeq(disk[f.name], f.pos + 1, f.pos + n)
      /\ status' = "OK" /\ told' = n /\ asked' = cap
      /\ target' = target /\ disk' = disk
  BY DEF P!Reads
<1>3. cap \in Nat /\ PlainMaxOut \in Nat /\ MaxSize \in Nat /\ n \in Nat
  BY PlainAssumption, SlotsAssumption
<1>4. /\ Seam!Rest(LinkedOpened[p], cap) = P!F!Rest(f, cap)
      /\ n <= cap /\ f.pos + n \in 0 .. MaxSize /\ f.pos \in 0 .. MaxSize
      /\ target \notin P!Streams => f.pos + n <= Len(disk[f.name])
      /\ n # 0 => f.pos + n <= Len(disk[f.name])
  BY <1>3, RestIs
<1>5. StepsTo(open, open', p, f.pos + n, f.firm)
  BY <1>1, <1>2 DEF StepsTo, OnlyAt, PlainFile
<1>6. Seam!MovesTo(p, f.pos + n)
  BY <1>2, <1>5, Moves
<1>7. FilesOK(open', disk, target)
  BY <1>1, <1>4, <1>5, MovedOK
<1>8. got' \in UpTo(PlainMaxOut)
  <2>1. f.pos \in Nat /\ n <= PlainMaxOut
    BY <1>3, <1>4
  <2>2. SubSeq(disk[f.name], f.pos + 1, f.pos + n) \in UpTo(PlainMaxOut)
    BY <2>1, <1>1, <1>3, <1>4, Slice
  <2> QED BY <2>2, <1>2
<1>9. AnswersOK'
  <2>1. /\ status' = "OK" /\ told' \in 0 .. MaxSize \cup Slots
        /\ asked' \in 0 .. MaxSize + PlainMaxOut
    BY <1>2, <1>3, <1>4
  <2> QED BY <2>1, <1>8 DEF AnswersOK
<1>10. PInv'
  BY <1>1, <1>2, <1>7, <1>9 DEF PInv
<1>11. n = Seam!Rest(LinkedOpened[p], cap) \/ (Seam!May("short") /\ n > 0)
  BY <1>1, <1>4, PlainQuirks
<1>12. LinkedQuirks' = LinkedQuirks
  BY <1>1, <1>2, PlainStays
<1>13. Seam!Read(p, cap)
  <2>1. n \in 0 .. Seam!Rest(LinkedOpened[p], cap)
    BY <1>4
  <2>2. /\ status' = "OK" /\ told' = n /\ asked' = cap /\ LinkedQuirks' = LinkedQuirks
        /\ got' = SubSeq(disk[LinkedOpened[p].name], LinkedOpened[p].pos + 1,
                         LinkedOpened[p].pos + n)
        /\ Seam!MovesTo(p, LinkedOpened[p].pos + n)
    BY <1>1, <1>2, <1>6, <1>12
  <2> QED BY <2>1, <2>2, <1>2, <1>11 DEF Seam!Read
<1> QED BY <1>10, <1>13

(* A call that fails, p having moved or not.                               *)
LEMMA FailsOK ==
  ASSUME target \in Plain, P!Fails
  PROVE  AnswersOK' /\ Seam!Fails /\ target' = target
<1>1. /\ P!Answers("ERR", 0, 0) /\ "ERR" \in {"OK", "ERR"}
      /\ 0 \in 0 .. MaxSize \cup Slots /\ 0 \in 0 .. MaxSize + PlainMaxOut
  BY SlotsAssumption, PlainAssumption DEF P!Fails
<1>2. AnswersOK'
  BY <1>1, AnswersKept
<1> QED BY <1>1, <1>2, PlainAnswers

(* A read that fails is the seam's.                                        *)
LEMMA ReadFailsStep ==
  ASSUME PInv, NEW p \in DOMAIN open, NEW cap \in 0 .. PlainMaxOut,
         NEW n \in 0 .. P!F!Rest(open[p], cap), n = 0 \/ target \in P!Streams,
         P!ReadFails(p, n)
  PROVE  PInv' /\ Seam!Read(p, cap)
<1> DEFINE f == open[p]
<1>1. /\ target \in Plain /\ f \in PlainFile /\ f.firm \in UpTo(MaxSize)
      /\ LinkedOpened[p].name = f.name /\ LinkedOpened[p].pos = f.pos
  BY OpenFacts DEF PlainFile
<1>2. open' = [open EXCEPT ![p].pos = f.pos + n] /\ P!Fails /\ disk' = disk
  BY DEF P!ReadFails
<1>3. cap \in Nat
  BY PlainAssumption
<1>4. /\ Seam!Rest(LinkedOpened[p], cap) = P!F!Rest(f, cap)
      /\ f.pos + n \in 0 .. MaxSize
      /\ target \notin P!Streams => f.pos + n <= Len(disk[f.name])
  BY <1>3, RestIs
<1>5. StepsTo(open, open', p, f.pos + n, f.firm)
  BY <1>1, <1>2 DEF StepsTo, OnlyAt, PlainFile
<1>6. AnswersOK' /\ Seam!Fails /\ target' = target
  BY <1>1, <1>2, FailsOK
<1>7. Seam!MovesTo(p, f.pos + n)
  BY <1>5, <1>6, Moves
<1>8. FilesOK(open', disk, target)
  BY <1>1, <1>4, <1>5, MovedOK
<1>9. n = 0 \/ Seam!May("tears")
  BY <1>1, PlainQuirks
<1>10. Seam!Read(p, cap)
  <2>1. n \in 0 .. Seam!Rest(LinkedOpened[p], cap) /\ Seam!MovesTo(p, LinkedOpened[p].pos + n)
    BY <1>1, <1>4, <1>7
  <2> QED BY <2>1, <1>2, <1>6, <1>9 DEF Seam!Read
<1> QED BY <1>1, <1>2, <1>6, <1>8, <1>10 DEF PInv

(* Read, whichever way it ends.                                            *)
LEMMA ReadStep ==
  ASSUME PInv, NEW p \in DOMAIN open, NEW cap \in 0 .. PlainMaxOut,
         P!ReadHandle(p, cap) \/ P!ReadHost(p, cap) \/ P!ReadAtari(p, cap)
  PROVE  PInv' /\ Seam!Read(p, cap)
<1> DEFINE rest == P!F!Rest(open[p], cap)
<1>1. cap \in Nat
  BY PlainAssumption
<1>2. rest \in 0 .. cap
  BY <1>1, RestIs
<1> HIDE DEF rest
<1>3. 0 \in 0 .. rest /\ rest \in 0 .. rest /\ (rest # 0 => \A n \in 1 .. rest : n \in 0 .. rest /\ n > 0)
  BY <1>2
<1>4. \/ P!Reads(p, cap, rest)
      \/ target = "atari" /\ \E n \in 1 .. rest : P!Reads(p, cap, n)
      \/ \E n \in 0 .. rest : (n = 0 \/ target \in P!Streams) /\ P!ReadFails(p, n)
  <2>1. CASE P!ReadHandle(p, cap)
    BY <2>1, <1>3 DEF P!ReadHandle, rest
  <2>2. CASE P!ReadHost(p, cap)
    BY <2>2, <1>3 DEF P!ReadHost, P!Streams, rest
  <2>3. CASE P!ReadAtari(p, cap)
    BY <2>3, <1>3 DEF P!ReadAtari, rest
  <2> QED BY <2>1, <2>2, <2>3
<1>5. CASE P!Reads(p, cap, rest)
  BY <1>3, <1>5, ReadsStep DEF rest
<1>6. ASSUME target = "atari", NEW n \in 1 .. rest, P!Reads(p, cap, n)
      PROVE  PInv' /\ Seam!Read(p, cap)
  <2>1. n \in 0 .. P!F!Rest(open[p], cap) /\ n > 0
    BY <1>2 DEF rest
  <2> QED BY <1>6, <2>1, ReadsStep
<1>7. ASSUME NEW n \in 0 .. rest, n = 0 \/ target \in P!Streams, P!ReadFails(p, n)
      PROVE  PInv' /\ Seam!Read(p, cap)
  BY <1>7, ReadFailsStep DEF rest
<1> QED BY <1>4, <1>5, <1>6, <1>7

------------------------------------------------------------------------------
(* A file gets new bytes.                                                  *)

(* The file is in order with bytes s on the disk and p at pos.             *)
PutOK(f, s, pos, firm) ==
  \/ /\ Streamed(f, target)
     /\ f.old <= Len(s) /\ f.old <= Len(firm) /\ Agree(firm, s, f.old)
  \/ /\ target \notin P!Streams
     /\ Len(disk[f.name]) <= Len(s) /\ pos <= Len(s)

(* ... and then all files are.                                             *)
LEMMA PutStep ==
  ASSUME PInv, NEW p \in DOMAIN open, NEW s \in UpTo(MaxSize),
         NEW pos \in 0 .. MaxSize, NEW firm \in UpTo(MaxSize),
         PutOK(open[p], s, pos, firm),
         NEW new, StepsTo(open, new, p, pos, firm)
  PROVE  LET dk == [disk EXCEPT ![open[p].name] = s] IN
         /\ dk[open[p].name] = s
         /\ FilesOK(new, dk, target)
<1> DEFINE f  == open[p]
           dk == [disk EXCEPT ![f.name] = s]
<1>1. FilesOK(open, disk, target) /\ GoodFile(f, disk, target)
  BY OpenFacts DEF PInv
<1>2. Streamed(f, target) \/ (target \notin P!Streams /\ Len(disk[f.name]) <= Len(s))
  BY DEF PutOK
<1>3. /\ DiskOK(dk) /\ DOMAIN dk = DOMAIN disk /\ dk[f.name] = s
      /\ OthersFine(open, p, dk, target)
  BY <1>1, <1>2, OthersGood
<1>4. new[p] = [name |-> f.name, pos |-> pos, mode |-> f.mode, old |-> f.old, firm |-> firm]
  BY DEF StepsTo
<1> HIDE DEF dk
<1>5. GoodFile(new[p], dk, target)
  <2>1. new[p] \in PlainFile /\ f.name \in DOMAIN dk
    BY <1>1, <1>3, <1>4 DEF GoodFile, PlainFile
  <2>2. target \notin P!Streams => pos <= Len(dk[f.name])
    BY <1>3 DEF PutOK, Streamed
  <2>3. Streamed(f, target) =>
          f.old <= Len(dk[f.name]) /\ f.old <= Len(firm) /\ Agree(firm, dk[f.name], f.old)
    BY <1>3 DEF PutOK, Streamed
  <2>4. new[p].mode # "append" => new[p].old = 0
    BY <1>1, <1>4 DEF GoodFile
  <2>5. Streamed(new[p], target) <=> Streamed(f, target)
    BY <1>4 DEF Streamed
  <2> QED BY <2>1, <2>2, <2>3, <2>4, <2>5, <1>4 DEF GoodFile
<1>6. FilesOK(new, dk, target)
  BY <1>1, <1>3, <1>5, ChangedOK
<1> QED BY <1>3, <1>6 DEF dk

(* Some of what was kept is lost.                                          *)
LEMMA TearStep ==
  ASSUME PInv, NEW p \in DOMAIN open, Streamed(open[p], target),
         NEW firm \in UpTo(MaxSize), NEW pos \in 0 .. MaxSize,
         open[p].old <= Len(firm), Agree(firm, disk[open[p].name], open[p].old),
         disk' = [disk EXCEPT ![open[p].name] = firm], target' = target,
         StepsTo(open, open', p, pos, firm)
  PROVE  /\ Seam!Tears(p) /\ Seam!MovesTo(p, pos)
         /\ FilesOK(open', disk', target') /\ disk'[open[p].name] = firm
<1> DEFINE f == open[p]
<1>1. /\ target \in Plain /\ f \in PlainFile /\ GoodFile(f, disk, target)
      /\ disk[f.name] \in Seq(Bytes)
      /\ LinkedOpened[p].name = f.name /\ LinkedOpened[p].mode = f.mode
      /\ LinkedOpened[p].old = f.old
  BY OpenFacts
<1>2. PutOK(f, firm, pos, firm)
  BY DEF PutOK, Agree
<1>3. FilesOK(open', disk', target') /\ disk'[f.name] = firm
  BY <1>2, PutStep
<1>4. Seam!MovesTo(p, pos)
  BY Moves
<1>5. firm \in Seq(Bytes)
  BY UpToIs, SlotsAssumption
<1>6. SubSeq(firm, 1, f.old) = SubSeq(disk[f.name], 1, f.old)
  <2>1. f.old \in Nat /\ f.old <= Len(disk[f.name])
    BY <1>1 DEF GoodFile, PlainFile
  <2> QED BY <2>1, <1>1, <1>5, AgreeSubSeq
<1>7. Seam!May("tears") /\ f.mode # "read"
  BY <1>1, PlainQuirks DEF Streamed
<1>8. Seam!Tears(p)
  <2>1. firm \in Seam!SeqsUpTo(Bytes, MaxSize)
    BY DEF UpTo
  <2> QED BY <2>1, <1>1, <1>6, <1>7 DEF Seam!Tears
<1> QED BY <1>3, <1>4, <1>8

(* What a stream that failed leaves on the disk.                           *)
LEMMA PartOf ==
  ASSUME NEW k \in Nat, NEW file \in UpTo(MaxSize), NEW firm \in UpTo(MaxSize),
         k <= Len(file), k <= Len(firm), Agree(firm, file, k),
         NEW part \in P!Partly(file, firm)
  PROVE  /\ part \in UpTo(MaxSize) /\ k <= Len(part) /\ Agree(part, file, k)
         /\ Len(part) \in 0 .. MaxSize
<1>1. MaxSize \in Nat
  BY SlotsAssumption
<1>2. /\ file \in Seq(Bytes) /\ Len(file) <= MaxSize
      /\ firm \in Seq(Bytes) /\ Len(firm) <= MaxSize
  BY <1>1, UpToIs
<1>3. part \in Seq(Bytes) /\ Len(part) <= MaxSize /\ k <= Len(part) /\ Agree(part, file, k)
  BY <1>1, <1>2, Part1
<1>4. part \in UpTo(MaxSize)
  BY <1>1, <1>3, UpToIs
<1>5. Len(part) \in Nat
  BY <1>3, LenProperties
<1> QED BY <1>1, <1>3, <1>4, <1>5

(* A flush that fails is the seam's.                                       *)
LEMMA FlushFailsStep ==
  ASSUME PInv, NEW p \in DOMAIN open, P!FlushFails(p)
  PROVE  /\ PInv' /\ Seam!Fails /\ Seam!Tears(p)
         /\ Seam!MovesTo(p, Seam!AtMost(LinkedOpened[p].pos, Len(disk'[LinkedOpened[p].name])))
<1> DEFINE f == open[p]
<1>1. /\ target \in Plain /\ f \in PlainFile /\ GoodFile(f, disk, target)
      /\ disk[f.name] \in UpTo(MaxSize) /\ f.firm \in UpTo(MaxSize)
      /\ LinkedOpened[p].name = f.name /\ LinkedOpened[p].pos = f.pos
  <2>1. GoodFile(f, disk, target) /\ DiskOK(disk)
    BY OpenFacts DEF PInv, FilesOK
  <2>2. disk[f.name] \in UpTo(MaxSize)
    BY <2>1 DEF GoodFile, DiskOK
  <2> QED BY <2>1, <2>2, OpenFacts DEF PlainFile
<1>2. PICK firm \in P!Partly(disk[f.name], f.firm) :
        /\ disk' = [disk EXCEPT ![f.name] = firm]
        /\ open' = [open EXCEPT ![p].pos = P!F!AtMost(f.pos, Len(firm)), ![p].firm = firm]
  BY DEF P!FlushFails
<1>3. Streamed(f, target) /\ P!Fails
  BY DEF P!FlushFails, P!Flushed, Streamed
<1>4. /\ f.old \in Nat /\ f.old <= Len(f.firm) /\ f.old <= Len(disk[f.name])
      /\ Agree(f.firm, disk[f.name], f.old)
  BY <1>1, <1>3 DEF GoodFile, PlainFile
<1>5. /\ firm \in UpTo(MaxSize) /\ Len(firm) \in 0 .. MaxSize
      /\ f.old <= Len(firm) /\ Agree(firm, disk[f.name], f.old)
  BY <1>1, <1>4, PartOf
<1> DEFINE pos == P!F!AtMost(f.pos, Len(firm))
<1>6. pos \in 0 .. MaxSize
  BY <1>1, <1>5 DEF P!F!AtMost, PlainFile
<1>7. pos = Seam!AtMost(LinkedOpened[p].pos, Len(firm))
  BY <1>1 DEF P!F!AtMost, Seam!AtMost
<1>8. StepsTo(open, open', p, pos, firm)
  BY <1>1, <1>2 DEF StepsTo, OnlyAt, PlainFile
<1>9. AnswersOK' /\ Seam!Fails /\ target' = target
  BY <1>1, <1>3, FailsOK
<1> HIDE DEF pos
<1>10. /\ Seam!Tears(p) /\ Seam!MovesTo(p, pos)
       /\ FilesOK(open', disk', target') /\ disk'[f.name] = firm
  BY <1>2, <1>3, <1>5, <1>6, <1>8, <1>9, TearStep
<1> QED BY <1>1, <1>7, <1>9, <1>10 DEF PInv

------------------------------------------------------------------------------
(* Writes.                                                                 *)

(* The length of what is written.                                          *)
LEMMA WrittenIs ==
  ASSUME NEW f, NEW at \in Nat, disk[f.name] \in UpTo(MaxSize),
         NEW data \in UpTo(PlainMaxOut), NEW n \in 0 .. Len(data), at + n <= MaxSize,
         NEW s \in P!Written(f, at, data, n)
  PROVE  /\ s \in UpTo(MaxSize)
         /\ Len(disk[f.name]) <= Len(s) /\ at + n <= Len(s)
         /\ \A k \in Nat : k <= at /\ k <= Len(disk[f.name]) => Agree(s, disk[f.name], k)
         /\ n = 0 /\ at <= Len(disk[f.name]) => s = disk[f.name]
         /\ \E gap \in Seam!Gaps(disk[f.name], at) :
              s = Seam!Overwrite(disk[f.name] \o gap, at, SubSeq(data, 1, n))
<1> DEFINE was == disk[f.name]
<1>1. MaxSize \in Nat /\ PlainMaxOut \in Nat
  BY SlotsAssumption, PlainAssumption
<1>2. was \in Seq(Bytes) /\ Len(was) <= MaxSize /\ data \in Seq(Bytes)
  BY <1>1, UpToIs
<1>3. PICK gap \in Seam!Gaps(was, at) :
        s = Seam!Overwrite(was \o gap, at, SubSeq(data, 1, n))
  BY DEF P!Written, P!F!Gaps, Seam!Gaps, P!F!Overwrite, Seam!Overwrite,
         P!F!AtLeast, Seam!AtLeast
<1> HIDE DEF was
<1>4. /\ s \in Seq(Bytes) /\ Len(s) = Longer(Len(was), at + n)
      /\ \A k \in Nat : k <= at /\ k <= Len(was) => Agree(s, was, k)
      /\ n = 0 /\ at <= Len(was) => s = was
  BY <1>2, <1>3, Put1
<1>5. Len(was) \in Nat /\ Len(data) \in Nat /\ n \in Nat
  BY <1>2, LenProperties
<1>6. Len(was) <= Len(s) /\ at + n <= Len(s) /\ Len(s) <= MaxSize
  BY <1>1, <1>2, <1>4, <1>5 DEF Longer
<1>7. s \in UpTo(MaxSize)
  BY <1>1, <1>4, <1>6, UpToIs
<1> QED BY <1>3, <1>4, <1>6, <1>7 DEF was

(* The bytes of a write that took, as the seam sees it.                    *)
LEMMA TookIs ==
  ASSUME PInv, NEW p \in DOMAIN open, NEW data,
         NEW n \in 1 .. Len(data), NEW at,
         at = IF open[p].mode = "append" /\ target \in P!Streams
              THEN Len(disk[open[p].name]) ELSE open[p].pos,
         open[p].mode # "read" \/ target \notin P!Streams,
         NEW gap \in Seam!Gaps(disk[open[p].name], at), NEW s,
         s = Seam!Overwrite(disk[open[p].name] \o gap, at, SubSeq(data, 1, n)),
         disk' = [disk EXCEPT ![open[p].name] = s],
         Seam!MovesTo(p, at + n),
         IF n = Len(data) THEN Seam!Says("OK", 0) /\ asked' = n ELSE Seam!Fails
  PROVE  Seam!Write(p, data)
<1> DEFINE f == open[p]
<1>1. /\ target \in Plain /\ f.name \in DOMAIN disk
      /\ LinkedOpened[p].name = f.name /\ LinkedOpened[p].pos = f.pos
      /\ LinkedOpened[p].mode = f.mode
  BY OpenFacts
<1>2. at = IF LinkedOpened[p].mode = "append" /\ Seam!May("ends")
           THEN Len(disk[LinkedOpened[p].name]) ELSE LinkedOpened[p].pos
  BY <1>1, PlainQuirks
<1>3. LinkedOpened[p].mode # "read" \/ Seam!May("lax")
  BY <1>1, PlainQuirks
<1>4. disk' = [disk EXCEPT ![f.name] = Seam!Overwrite(disk[f.name] \o gap, at, SubSeq(data, 1, n))]
  OBVIOUS
<1> QED BY <1>1, <1>2, <1>3, <1>4 DEF Seam!Write

(* What a write knows of its file and its data.                            *)
LEMMA WriteFacts ==
  ASSUME PInv, NEW p \in DOMAIN open, NEW data \in UpTo(PlainMaxOut)
  PROVE  /\ target \in Plain /\ open[p] \in PlainFile /\ GoodFile(open[p], disk, target)
         /\ disk[open[p].name] \in UpTo(MaxSize) /\ open[p].firm \in UpTo(MaxSize)
         /\ Len(disk[open[p].name]) \in 0 .. MaxSize
         /\ open[p].pos \in 0 .. MaxSize
         /\ Len(data) \in 0 .. PlainMaxOut /\ data \in Seq(Bytes)
         /\ (data = <<>> <=> Len(data) = 0)
         /\ disk = [n \in DOMAIN disk |-> disk[n]]
<1>1. /\ target \in Plain /\ open[p] \in PlainFile /\ GoodFile(open[p], disk, target)
      /\ Len(disk[open[p].name]) \in 0 .. MaxSize
  BY OpenFacts
<1>2. DiskOK(disk)
  BY DEF PInv, FilesOK
<1>3. disk[open[p].name] \in UpTo(MaxSize)
  BY <1>1, <1>2 DEF GoodFile, DiskOK
<1>4. data \in Seq(Bytes) /\ Len(data) <= PlainMaxOut
  BY UpToIs, PlainAssumption
<1>5. Len(data) \in Nat /\ (data = <<>> <=> Len(data) = 0)
  BY <1>4, LenProperties, EmptySeq
<1>6. disk = [n \in DOMAIN disk |-> disk[n]]
  BY <1>2 DEF DiskOK
<1> QED BY <1>1, <1>3, <1>4, <1>5, <1>6, PlainAssumption DEF PlainFile

(* The two answers of a write.                                             *)
LEMMA EndsOK ==
  ASSUME target \in Plain, NEW len \in 0 .. PlainMaxOut, NEW n \in 0 .. len,
         IF n = len THEN P!Answers("OK", 0, n) ELSE P!Fails
  PROVE  /\ AnswersOK' /\ target' = target
         /\ IF n = len THEN Seam!Says("OK", 0) /\ asked' = n ELSE Seam!Fails
<1>1. CASE n = len
  <2>1. /\ P!Answers("OK", 0, n) /\ "OK" \in {"OK", "ERR"}
        /\ 0 \in 0 .. MaxSize \cup Slots /\ n \in 0 .. MaxSize + PlainMaxOut
    BY <1>1, SlotsAssumption, PlainAssumption
  <2>2. AnswersOK'
    BY <2>1, AnswersKept
  <2> QED BY <1>1, <2>1, <2>2, PlainAnswers
<1>2. CASE n # len
  BY <1>2, FailsOK
<1> QED BY <1>1, <1>2

(* A write of nothing is the seam's.                                       *)
LEMMA WriteNothing ==
  ASSUME PInv, NEW p \in DOMAIN open, NEW data \in UpTo(PlainMaxOut),
         LinkedOpened' = LinkedOpened, disk' = disk,
         IF 0 = Len(data) THEN Seam!Says("OK", 0) /\ asked' = 0 ELSE Seam!Fails
  PROVE  Seam!Write(p, data)
  BY DEF Seam!Write

(* A write through a handle is the seam's.                                 *)
LEMMA WriteHandleStep ==
  ASSUME PInv, NEW p \in DOMAIN open, NEW data \in UpTo(PlainMaxOut),
         P!WriteHandle(p, data)
  PROVE  PInv' /\ Seam!Write(p, data)
<1> DEFINE f == open[p]
<1>1. /\ target \in Plain /\ f \in PlainFile /\ GoodFile(f, disk, target)
      /\ disk[f.name] \in UpTo(MaxSize) /\ f.firm \in UpTo(MaxSize)
      /\ Len(disk[f.name]) \in 0 .. MaxSize /\ f.pos \in 0 .. MaxSize
      /\ Len(data) \in 0 .. PlainMaxOut
      /\ disk = [n \in DOMAIN disk |-> disk[n]]
  BY WriteFacts
<1>2. target \notin P!Streams /\ f.pos <= Len(disk[f.name])
  BY <1>1 DEF P!WriteHandle, GoodFile
<1>3. PICK n \in 0 .. Len(data) :
        /\ f.pos + n <= MaxSize
        /\ \E s \in P!Written(f, f.pos, data, n) : disk' = [disk EXCEPT ![f.name] = s]
        /\ open' = [open EXCEPT ![p].pos = f.pos + n]
        /\ IF n = Len(data) THEN P!Answers("OK", 0, n) ELSE P!Fails
  BY DEF P!WriteHandle
<1>4. PICK s \in P!Written(f, f.pos, data, n) : disk' = [disk EXCEPT ![f.name] = s]
  BY <1>3
<1>5. f.pos \in Nat /\ n \in Nat /\ f.pos + n \in 0 .. MaxSize /\ f.pos + n <= MaxSize
  BY <1>1, <1>3, SlotsAssumption, PlainAssumption
<1>6. /\ s \in UpTo(MaxSize) /\ Len(disk[f.name]) <= Len(s) /\ f.pos + n <= Len(s)
      /\ n = 0 => s = disk[f.name]
      /\ \E gap \in Seam!Gaps(disk[f.name], f.pos) :
           s = Seam!Overwrite(disk[f.name] \o gap, f.pos, SubSeq(data, 1, n))
  <2>1. disk[f.name] \in UpTo(MaxSize) /\ f.pos <= Len(disk[f.name])
    BY <1>1, <1>2
  <2>2. /\ s \in UpTo(MaxSize) /\ Len(disk[f.name]) <= Len(s) /\ f.pos + n <= Len(s)
        /\ n = 0 /\ f.pos <= Len(disk[f.name]) => s = disk[f.name]
        /\ \E gap \in Seam!Gaps(disk[f.name], f.pos) :
             s = Seam!Overwrite(disk[f.name] \o gap, f.pos, SubSeq(data, 1, n))
    BY <2>1, <1>5, WrittenIs
  <2> QED BY <2>1, <2>2
<1>7. /\ AnswersOK' /\ target' = target
      /\ IF n = Len(data) THEN Seam!Says("OK", 0) /\ asked' = n ELSE Seam!Fails
  BY <1>1, <1>3, EndsOK
<1>8. StepsTo(open, open', p, f.pos + n, f.firm)
  BY <1>1, <1>3 DEF StepsTo, OnlyAt, PlainFile
<1>9. PInv'
  <2>1. PutOK(f, s, f.pos + n, f.firm)
    BY <1>2, <1>6 DEF PutOK
  <2>2. FilesOK(open', disk', target)
    BY <2>1, <1>1, <1>4, <1>5, <1>6, <1>8, PutStep
  <2> QED BY <2>2, <1>1, <1>7 DEF PInv
<1>10. Seam!MovesTo(p, f.pos + n)
  BY <1>7, <1>8, Moves
<1>11. CASE n = 0
  <2>1. disk' = disk
    BY <1>11, <1>1, <1>4, <1>6
  <2>2. LinkedOpened' = LinkedOpened
    <3>1. f.pos + n = f.pos
      BY <1>11, <1>5
    <3> QED BY <3>1, <1>10, StaysPut
  <2>3. IF 0 = Len(data) THEN Seam!Says("OK", 0) /\ asked' = 0 ELSE Seam!Fails
    BY <1>7, <1>11
  <2> QED BY <1>9, <2>1, <2>2, <2>3, WriteNothing
<1>12. CASE n # 0
  <2>1. n \in 1 .. Len(data)
    BY <1>12, <1>1, <1>3, <1>5
  <2>2. PICK gap \in Seam!Gaps(disk[f.name], f.pos) :
          s = Seam!Overwrite(disk[f.name] \o gap, f.pos, SubSeq(data, 1, n))
    BY <1>6
  <2>3. f.pos = IF f.mode = "append" /\ target \in P!Streams
                THEN Len(disk[f.name]) ELSE f.pos
    BY <1>2
  <2>4. Seam!Write(p, data)
    BY <2>1, <2>2, <2>3, <1>2, <1>4, <1>7, <1>10, TookIs
  <2> QED BY <2>4, <1>9
<1> QED BY <1>11, <1>12

(* Where a write goes.                                                     *)
LEMMA PlaceIs ==
  ASSUME PInv, NEW p \in DOMAIN open, Streamed(open[p], target)
  PROVE  /\ P!Place(open[p]) = IF open[p].mode = "append" /\ target \in P!Streams
                               THEN Len(disk[open[p].name]) ELSE open[p].pos
         /\ P!Place(open[p]) \in 0 .. MaxSize
         /\ open[p].old <= P!Place(open[p])
<1> DEFINE f == open[p]
<1>1. /\ f \in PlainFile /\ GoodFile(f, disk, target)
      /\ Len(disk[f.name]) \in 0 .. MaxSize
  BY OpenFacts
<1>2. /\ f.old <= Len(disk[f.name]) /\ (f.mode # "append" => f.old = 0)
      /\ f.pos \in 0 .. MaxSize /\ target \in P!Streams
  BY <1>1 DEF GoodFile, PlainFile, Streamed
<1> HIDE DEF f
<1>3. P!Place(f) = IF f.mode = "append" THEN Len(disk[f.name]) ELSE f.pos
  BY DEF P!Place, P!Size
<1>4. CASE f.mode = "append"
  BY <1>1, <1>2, <1>3, <1>4 DEF f
<1>5. CASE f.mode # "append"
  BY <1>1, <1>2, <1>3, <1>5 DEF f
<1> QED BY <1>4, <1>5

(* A stream's file once all of data is written, and what the system may    *)
(* have of it.                                                             *)
LEMMA StreamWritten ==
  ASSUME PInv, NEW p \in DOMAIN open, NEW data \in UpTo(PlainMaxOut),
         Streamed(open[p], target), P!Place(open[p]) + Len(data) <= MaxSize,
         NEW s \in P!Written(open[p], P!Place(open[p]), data, Len(data)),
         NEW firm \in P!Partly(s, open[p].firm)
  PROVE  /\ s \in UpTo(MaxSize) /\ firm \in UpTo(MaxSize) /\ Len(firm) \in 0 .. MaxSize
         /\ P!Place(open[p]) + Len(data) \in 0 .. MaxSize
         /\ open[p].old <= Len(s) /\ open[p].old <= Len(firm)
         /\ Agree(firm, s, open[p].old) /\ Agree(firm, disk[open[p].name], open[p].old)
         /\ \E gap \in Seam!Gaps(disk[open[p].name], P!Place(open[p])) :
              s = Seam!Overwrite(disk[open[p].name] \o gap, P!Place(open[p]),
                                 SubSeq(data, 1, Len(data)))
<1> DEFINE f == open[p]
           at == P!Place(f)
           k == f.old
<1>1. /\ f \in PlainFile /\ GoodFile(f, disk, target)
      /\ disk[f.name] \in UpTo(MaxSize) /\ f.firm \in UpTo(MaxSize)
      /\ Len(disk[f.name]) \in 0 .. MaxSize /\ Len(data) \in 0 .. PlainMaxOut
  BY WriteFacts
<1>2. /\ k \in Nat /\ k <= Len(f.firm) /\ k <= Len(disk[f.name])
      /\ Agree(f.firm, disk[f.name], k)
  BY <1>1 DEF GoodFile, PlainFile
<1>3. at \in 0 .. MaxSize /\ k <= at
  BY PlaceIs
<1> HIDE DEF at
<1>4. at \in Nat /\ Len(data) \in 0 .. Len(data) /\ at + Len(data) <= MaxSize
      /\ at + Len(data) \in 0 .. MaxSize /\ s \in P!Written(f, at, data, Len(data))
  BY <1>1, <1>3, SlotsAssumption, PlainAssumption DEF at
<1>5. /\ s \in UpTo(MaxSize) /\ Len(disk[f.name]) <= Len(s)
      /\ \A j \in Nat : j <= at /\ j <= Len(disk[f.name]) => Agree(s, disk[f.name], j)
      /\ \E gap \in Seam!Gaps(disk[f.name], at) :
           s = Seam!Overwrite(disk[f.name] \o gap, at, SubSeq(data, 1, Len(data)))
  BY <1>1, <1>4, WrittenIs
<1>6. Len(s) \in Nat
  <2>1. s \in Seq(Bytes)
    BY <1>5, UpToIs, SlotsAssumption
  <2> QED BY <2>1, LenProperties
<1>7. k <= Len(s) /\ Agree(s, disk[f.name], k)
  BY <1>1, <1>2, <1>3, <1>5, <1>6
<1>8. Agree(f.firm, s, k)
  BY <1>2, <1>7 DEF Agree
<1>9. /\ firm \in UpTo(MaxSize) /\ k <= Len(firm) /\ Agree(firm, s, k)
      /\ Len(firm) \in 0 .. MaxSize
  BY <1>1, <1>2, <1>5, <1>7, <1>8, PartOf
<1>10. Agree(firm, disk[f.name], k)
  BY <1>7, <1>9 DEF Agree
<1> QED BY <1>4, <1>5, <1>7, <1>9, <1>10 DEF at

(* A write through a stream is the seam's.                                 *)
LEMMA WriteStreamStep ==
  ASSUME PInv, NEW p \in DOMAIN open, NEW data \in UpTo(PlainMaxOut),
         P!WriteStream(p, data)
  PROVE  PInv' /\ Seam!Write(p, data)
<1> DEFINE f == open[p]
           at == P!Place(f)
<1>1. /\ target \in Plain /\ f \in PlainFile
      /\ Len(data) \in 0 .. PlainMaxOut /\ (data = <<>> <=> Len(data) = 0)
  BY WriteFacts
<1>2. target \in P!Streams
  BY DEF P!WriteStream
<1>3. CASE /\ data = <<>> \/ f.mode = "read"
           /\ IF data = <<>> THEN P!OK(0) ELSE P!Fails
           /\ P!Nothing
  <2>1. IF 0 = Len(data) THEN P!Answers("OK", 0, 0) ELSE P!Fails
    BY <1>1, <1>3 DEF P!OK
  <2>2. 0 \in 0 .. Len(data)
    BY <1>1
  <2>3. /\ AnswersOK' /\ target' = target
        /\ IF 0 = Len(data) THEN Seam!Says("OK", 0) /\ asked' = 0 ELSE Seam!Fails
    BY <2>1, <2>2, <1>1, EndsOK
  <2>4. open' = open /\ disk' = disk
    BY <1>3 DEF P!Nothing
  <2>5. PInv'
    BY <1>1, <2>3, <2>4 DEF PInv
  <2>6. LinkedOpened' = LinkedOpened
    BY <1>1, <2>3, <2>4, PlainStays, PlainQuirks
  <2>7. Seam!Write(p, data)
    BY <2>3, <2>4, <2>6, WriteNothing
  <2> QED BY <2>5, <2>7
<1>4. CASE /\ f.mode # "read" /\ data # <<>> /\ at + Len(data) <= MaxSize
           /\ \E s \in P!Written(f, at, data, Len(data)) : \E firm \in P!Partly(s, f.firm) :
                /\ disk' = [disk EXCEPT ![f.name] = s]
                /\ open' = [open EXCEPT ![p].pos = at + Len(data), ![p].firm = firm]
           /\ P!Answers("OK", 0, Len(data))
  <2>0. PICK s \in P!Written(f, at, data, Len(data)) : \E firm \in P!Partly(s, f.firm) :
          /\ disk' = [disk EXCEPT ![f.name] = s]
          /\ open' = [open EXCEPT ![p].pos = at + Len(data), ![p].firm = firm]
    BY <1>4
  <2>1. PICK firm \in P!Partly(s, f.firm) :
          /\ disk' = [disk EXCEPT ![f.name] = s]
          /\ open' = [open EXCEPT ![p].pos = at + Len(data), ![p].firm = firm]
    BY <2>0
  <2>2. Streamed(f, target)
    BY <1>2, <1>4 DEF Streamed
  <2>3. /\ s \in UpTo(MaxSize) /\ firm \in UpTo(MaxSize)
        /\ at + Len(data) \in 0 .. MaxSize
        /\ f.old <= Len(s) /\ f.old <= Len(firm) /\ Agree(firm, s, f.old)
        /\ \E gap \in Seam!Gaps(disk[f.name], at) :
             s = Seam!Overwrite(disk[f.name] \o gap, at, SubSeq(data, 1, Len(data)))
    BY <2>1, <2>2, <1>4, StreamWritten
  <2>4. at = IF f.mode = "append" /\ target \in P!Streams THEN Len(disk[f.name]) ELSE f.pos
    BY <2>2, PlaceIs
  <2> HIDE DEF at
  <2>5. StepsTo(open, open', p, at + Len(data), firm)
    BY <2>1, <1>1 DEF StepsTo, OnlyAt, PlainFile
  <2>6. PutOK(f, s, at + Len(data), firm)
    BY <2>2, <2>3 DEF PutOK
  <2>7. FilesOK(open', disk', target)
    BY <2>1, <2>3, <2>5, <2>6, PutStep
  <2>8. /\ AnswersOK' /\ target' = target
        /\ Seam!Says("OK", 0) /\ asked' = Len(data)
    <3>1. Len(data) \in 0 .. Len(data) /\ Len(data) = Len(data)
      BY <1>1, PlainAssumption
    <3> QED BY <3>1, <1>1, <1>4, EndsOK
  <2>9. Seam!MovesTo(p, at + Len(data))
    BY <2>5, <2>8, Moves
  <2>10. PICK gap \in Seam!Gaps(disk[f.name], at) :
           s = Seam!Overwrite(disk[f.name] \o gap, at, SubSeq(data, 1, Len(data)))
    BY <2>3
  <2>11. Len(data) \in 1 .. Len(data) /\ f.mode # "read"
    BY <1>1, <1>4, PlainAssumption
  <2>12. Seam!Write(p, data)
    BY <2>1, <2>4, <2>8, <2>9, <2>10, <2>11, TookIs
  <2> QED BY <1>1, <2>7, <2>8, <2>12 DEF PInv
<1>5. \/ /\ data = <<>> \/ f.mode = "read"
         /\ IF data = <<>> THEN P!OK(0) ELSE P!Fails
         /\ P!Nothing
      \/ /\ f.mode # "read" /\ data # <<>> /\ at + Len(data) <= MaxSize
         /\ \E s \in P!Written(f, at, data, Len(data)) : \E firm \in P!Partly(s, f.firm) :
              /\ disk' = [disk EXCEPT ![f.name] = s]
              /\ open' = [open EXCEPT ![p].pos = at + Len(data), ![p].firm = firm]
         /\ P!Answers("OK", 0, Len(data))
  BY DEF P!WriteStream
<1> QED BY <1>3, <1>4, <1>5

(* A write that fails is the seam's.                                       *)
LEMMA WriteLostStep ==
  ASSUME PInv, NEW p \in DOMAIN open, NEW data \in UpTo(PlainMaxOut),
         P!WriteLost(p, data)
  PROVE  PInv' /\ Seam!Write(p, data)
<1> DEFINE f == open[p]
           at == P!Place(f)
<1>1. /\ target \in Plain /\ f \in PlainFile
      /\ LinkedOpened[p].name = f.name
  BY WriteFacts, OpenFacts
<1>2. Streamed(f, target) /\ at + Len(data) <= MaxSize /\ P!Fails
  BY DEF P!WriteLost, Streamed
<1> DEFINE Lost(firm, pos) ==
             /\ disk' = [disk EXCEPT ![f.name] = firm]
             /\ open' = [open EXCEPT ![p].pos = pos, ![p].firm = firm]
<1>10. PICK s \in P!Written(f, at, data, Len(data)) :
         \E firm \in P!Partly(s, f.firm) : \E pos \in 0 .. Len(firm) : Lost(firm, pos)
  BY DEF P!WriteLost
<1>11. PICK firm \in P!Partly(s, f.firm) : \E pos \in 0 .. Len(firm) : Lost(firm, pos)
  BY <1>10
<1>3. PICK pos \in 0 .. Len(firm) : Lost(firm, pos)
  BY <1>11
<1>4. /\ firm \in UpTo(MaxSize) /\ Len(firm) \in 0 .. MaxSize
      /\ f.old <= Len(firm) /\ Agree(firm, disk[f.name], f.old)
  BY <1>2, <1>3, StreamWritten
<1>5. StepsTo(open, open', p, pos, firm)
  BY <1>3, <1>1 DEF StepsTo, OnlyAt, PlainFile
<1>6. AnswersOK' /\ Seam!Fails /\ target' = target
  BY <1>1, <1>2, FailsOK
<1>7. pos \in 0 .. MaxSize
  BY <1>4, SlotsAssumption
<1>8. /\ Seam!Tears(p) /\ Seam!MovesTo(p, pos)
      /\ FilesOK(open', disk', target') /\ disk'[f.name] = firm
  BY <1>2, <1>3, <1>4, <1>5, <1>6, <1>7, TearStep
<1>9. Seam!Write(p, data)
  <2>1. pos \in 0 .. Len(disk'[LinkedOpened[p].name])
    BY <1>1, <1>8
  <2> QED BY <2>1, <1>6, <1>8 DEF Seam!Write
<1> QED BY <1>1, <1>6, <1>8, <1>9 DEF PInv

------------------------------------------------------------------------------
(* Seek, tell and size.                                                    *)

(* What a call that flushes first leaves.                                  *)
LEMMA FlushesStep ==
  ASSUME PInv, NEW p \in DOMAIN open, NEW pos \in 0 .. MaxSize, P!Flushes(p, pos),
         target \notin P!Streams => pos <= Len(disk[open[p].name]),
         target' = target, disk' = disk
  PROVE  FilesOK(open', disk', target') /\ Seam!MovesTo(p, pos)
<1> DEFINE f == open[p]
           firm == IF f.mode = "read" THEN f.firm ELSE disk[f.name]
<1>1. f \in PlainFile /\ GoodFile(f, disk, target) /\ DiskOK(disk)
  BY OpenFacts DEF PInv, FilesOK
<1>2. firm \in UpTo(MaxSize) /\ (firm = f.firm \/ firm = disk[f.name])
  BY <1>1 DEF GoodFile, DiskOK, PlainFile
<1>3. StepsTo(open, open', p, pos, firm)
  BY <1>1 DEF P!Flushes, StepsTo, OnlyAt, PlainFile
<1> HIDE DEF firm
<1>4. FilesOK(open', disk, target)
  BY <1>2, <1>3, MovedOK
<1>5. Seam!MovesTo(p, pos)
  BY <1>3, Moves
<1> QED BY <1>4, <1>5

(* A call that succeeds, nothing but the place having changed.             *)
LEMMA OKStep ==
  ASSUME target \in Plain, NEW n \in 0 .. MaxSize \cup Slots, P!OK(n)
  PROVE  AnswersOK' /\ Seam!Done(n) /\ target' = target
<1>1. /\ P!Answers("OK", n, 0) /\ "OK" \in {"OK", "ERR"}
      /\ 0 \in 0 .. MaxSize + PlainMaxOut
  BY SlotsAssumption, PlainAssumption DEF P!OK
<1>2. AnswersOK'
  BY <1>1, AnswersKept
<1> QED BY <1>1, <1>2, PlainAnswers

(* A call that fails, nothing having changed.                              *)
LEMMA NothingStep ==
  ASSUME PInv, P!Nothing, target' = target, AnswersOK'
  PROVE  PInv' /\ LinkedOpened' = LinkedOpened /\ disk' = disk
<1>1. open' = open /\ disk' = disk /\ target \in Plain
  BY DEF P!Nothing, PInv
<1>2. PInv'
  BY <1>1 DEF PInv
<1>3. LinkedOpened' = LinkedOpened
  BY <1>1, PlainStays, PlainQuirks
<1> QED BY <1>1, <1>2, <1>3

(* Seek, tell and size are the seam's.                                     *)
LEMMA SeekStep ==
  ASSUME PInv, NEW p \in DOMAIN open, NEW offset \in Offsets, NEW whence \in Seam!Whences,
         P!Seek(p, offset, whence)
  PROVE  PInv' /\ Seam!Seek(p, offset, whence)
<1> DEFINE f == open[p]
           to == P!F!Target(f, offset, whence)
           size == Len(disk[f.name])
<1>1. /\ target \in Plain /\ f \in PlainFile /\ GoodFile(f, disk, target)
      /\ size \in 0 .. MaxSize /\ f.firm \in UpTo(MaxSize)
      /\ LinkedOpened[p].name = f.name /\ LinkedOpened[p].pos = f.pos
  BY OpenFacts DEF PlainFile
<1>2. to = Seam!Target(LinkedOpened[p], offset, whence)
  BY <1>1 DEF P!F!Target, Seam!Target
<1>3. to \in Int /\ MaxSize \in Nat
  <2>1. offset \in Int /\ f.pos \in Int /\ size \in Int /\ MaxSize \in Nat
    BY <1>1, SlotsAssumption DEF PlainFile
  <2> QED BY <2>1 DEF P!F!Target, Seam!Whences
<1>4. P!Size(f) = size
  BY DEF P!Size
<1> HIDE DEF to
<1>5. CASE /\ to >= 0 /\ (to <= size \/ (target \in P!Streams /\ to <= MaxSize))
           /\ P!Flushes(p, to) /\ P!Answers("OK", 0, to) /\ disk' = disk
  <2>1. to \in 0 .. MaxSize /\ (target \notin P!Streams => to <= size)
    BY <1>1, <1>3, <1>5
  <2>2. /\ 0 \in 0 .. MaxSize \cup Slots /\ to \in 0 .. MaxSize + PlainMaxOut
        /\ "OK" \in {"OK", "ERR"} /\ P!Answers("OK", 0, to)
    BY <2>1, <1>3, <1>5, PlainAssumption
  <2>3. AnswersOK' /\ Seam!Says("OK", 0) /\ asked' = to /\ target' = target
    BY <2>2, <1>1, AnswersKept, PlainAnswers
  <2>4. FilesOK(open', disk', target') /\ Seam!MovesTo(p, to)
    BY <2>1, <2>3, <1>5, FlushesStep
  <2>5. to <= size \/ Seam!May("beyond")
    BY <1>1, <1>5, PlainQuirks
  <2>6. Seam!Seek(p, offset, whence)
    BY <2>3, <2>4, <2>5, <1>1, <1>2, <1>5 DEF Seam!Seek
  <2> QED BY <2>3, <2>4, <2>6, <1>1 DEF PInv
<1>6. CASE /\ target = "mac" /\ to > size
           /\ open' = [open EXCEPT ![p].pos = size] /\ P!Fails /\ disk' = disk
  <2>1. AnswersOK' /\ Seam!Fails /\ target' = target
    BY <1>1, <1>6, FailsOK
  <2>2. StepsTo(open, open', p, size, f.firm)
    BY <1>1, <1>6 DEF StepsTo, OnlyAt, PlainFile
  <2>3. size <= size
    BY <1>1
  <2>4. FilesOK(open', disk, target)
    BY <2>2, <2>3, <1>1, MovedOK
  <2>5. Seam!MovesTo(p, size)
    BY <2>1, <2>2, Moves
  <2>6. Seam!May("clamps")
    BY <1>1, <1>6, PlainQuirks
  <2>7. Seam!Seek(p, offset, whence)
    BY <2>1, <2>5, <2>6, <1>1, <1>2, <1>6 DEF Seam!Seek
  <2> QED BY <2>1, <2>4, <2>7, <1>1, <1>6 DEF PInv
<1>7. CASE P!Fails /\ P!Nothing
  <2>1. AnswersOK' /\ Seam!Fails /\ target' = target
    BY <1>1, <1>7, FailsOK
  <2>2. PInv' /\ LinkedOpened' = LinkedOpened /\ disk' = disk
    BY <2>1, <1>7, NothingStep
  <2> QED BY <2>1, <2>2 DEF Seam!Seek
<1>8. CASE P!FlushFails(p)
  <2>1. /\ PInv' /\ Seam!Fails /\ Seam!Tears(p)
        /\ Seam!MovesTo(p, Seam!AtMost(LinkedOpened[p].pos, Len(disk'[LinkedOpened[p].name])))
    BY <1>8, FlushFailsStep
  <2> QED BY <2>1 DEF Seam!Seek
<1> QED BY <1>4, <1>5, <1>6, <1>7, <1>8 DEF P!Seek, to

(* The place asked for is the place it has.                                *)
LEMMA TellStep ==
  ASSUME PInv, NEW p \in DOMAIN open, P!Tell(p)
  PROVE  PInv' /\ Seam!Tell(p)
<1>1. /\ target \in Plain /\ open[p].pos \in 0 .. MaxSize \cup Slots
      /\ LinkedOpened[p].pos = open[p].pos
  BY OpenFacts DEF PlainFile
<1>2. /\ AnswersOK' /\ target' = target
      /\ Seam!Done(LinkedOpened[p].pos) \/ Seam!Fails
  BY <1>1, OKStep, FailsOK DEF P!Tell
<1>3. PInv' /\ LinkedOpened' = LinkedOpened /\ disk' = disk
  BY <1>2, NothingStep DEF P!Tell
<1> QED BY <1>2, <1>3 DEF Seam!Tell

(* The size, by seeking there and back or by asking.                       *)
LEMMA SizeStep ==
  ASSUME PInv, NEW p \in DOMAIN open, P!SizeBySeeking(p) \/ P!SizeAsked(p)
  PROVE  PInv' /\ Seam!Size(p)
<1> DEFINE f == open[p]
           size == Len(disk[f.name])
<1>1. /\ target \in Plain /\ f.pos \in 0 .. MaxSize
      /\ size \in 0 .. MaxSize /\ GoodFile(f, disk, target)
      /\ LinkedOpened[p].name = f.name /\ LinkedOpened[p].pos = f.pos
  BY OpenFacts DEF PlainFile
<1>2. size \in 0 .. MaxSize \cup Slots /\ size <= size
      /\ (target \notin P!Streams => f.pos <= size)
  BY <1>1 DEF GoodFile
<1>3. P!Size(f) = size
  BY DEF P!Size
<1>4. CASE P!Flushes(p, f.pos) /\ P!OK(size) /\ disk' = disk
  <2>1. AnswersOK' /\ Seam!Done(size) /\ target' = target
    BY <1>1, <1>2, <1>4, OKStep
  <2>2. FilesOK(open', disk', target') /\ Seam!MovesTo(p, f.pos)
    BY <2>1, <1>1, <1>2, <1>4, FlushesStep
  <2>3. LinkedOpened' = LinkedOpened
    BY <2>2, StaysPut
  <2> QED BY <2>1, <2>2, <2>3, <1>1, <1>4 DEF PInv, Seam!Size
<1>5. CASE P!Flushes(p, size) /\ P!Fails /\ disk' = disk /\ target # "mac"
  <2>1. AnswersOK' /\ Seam!Fails /\ target' = target
    BY <1>1, <1>5, FailsOK
  <2>2. FilesOK(open', disk', target') /\ Seam!MovesTo(p, size)
    BY <2>1, <1>1, <1>2, <1>5, FlushesStep
  <2>3. Seam!May("drifts")
    BY <1>1, <1>5, PlainQuirks
  <2> QED BY <2>1, <2>2, <2>3, <1>1, <1>5 DEF PInv, Seam!Size
<1>6. CASE (P!Fails \/ P!OK(size)) /\ P!Nothing
  <2>1. AnswersOK' /\ (Seam!Fails \/ Seam!Done(size)) /\ target' = target
    BY <1>1, <1>2, <1>6, OKStep, FailsOK
  <2>2. PInv' /\ LinkedOpened' = LinkedOpened /\ disk' = disk
    BY <2>1, <1>6, NothingStep
  <2> QED BY <2>1, <2>2, <1>1 DEF Seam!Size
<1>7. CASE P!FlushFails(p)
  <2>1. /\ PInv' /\ Seam!Fails /\ Seam!Tears(p)
        /\ Seam!MovesTo(p, Seam!AtMost(LinkedOpened[p].pos, Len(disk'[LinkedOpened[p].name])))
    BY <1>7, FlushFailsStep
  <2> QED BY <2>1 DEF Seam!Size
<1> HIDE DEF size
<1> QED BY <1>3, <1>4, <1>5, <1>6, <1>7 DEF P!SizeBySeeking, P!SizeAsked

------------------------------------------------------------------------------
(* Close, and calls on a name.                                             *)

(* One file less.                                                          *)
LEMMA GoneOK ==
  ASSUME NEW op, NEW dk, NEW tg, FilesOK(op, dk, tg), NEW p \in DOMAIN op,
         NEW dk2, DiskOK(dk2), OthersFine(op, p, dk2, tg)
  PROVE  FilesOK(P!F!Drop(op, p), dk2, tg)
<1> DEFINE new == P!F!Drop(op, p)
<1>1. DOMAIN new = DOMAIN op \ {p} /\ \A q \in DOMAIN op \ {p} : new[q] = op[q]
  BY DEF P!F!Drop
<1> HIDE DEF new
<1>2. Alone(new)
  BY <1>1 DEF FilesOK, Alone
<1>3. \A q \in DOMAIN new : GoodFile(new[q], dk2, tg)
  BY <1>1 DEF OthersFine
<1>4. FilesOK(new, dk2, tg)
  BY <1>1, <1>2, <1>3 DEF FilesOK
<1> QED BY <1>4 DEF new

(* Close is the seam's, whatever of the stream is lost by it.              *)
LEMMA CloseStep ==
  ASSUME PInv, NEW p \in DOMAIN open, P!Close(p)
  PROVE  PInv' /\ Seam!Close(p)
<1> DEFINE f == open[p]
<1>1. /\ target \in Plain /\ f \in PlainFile /\ GoodFile(f, disk, target)
      /\ FilesOK(open, disk, target) /\ DiskOK(disk)
      /\ disk[f.name] \in UpTo(MaxSize) /\ f.firm \in UpTo(MaxSize)
      /\ disk[f.name] \in Seq(Bytes)
      /\ LinkedOpened[p].name = f.name /\ LinkedOpened[p].mode = f.mode
      /\ LinkedOpened[p].old = f.old
  <2>1. FilesOK(open, disk, target) /\ DiskOK(disk) /\ GoodFile(f, disk, target)
    BY OpenFacts DEF PInv, FilesOK
  <2>2. disk[f.name] \in UpTo(MaxSize)
    BY <2>1 DEF GoodFile, DiskOK
  <2> QED BY <2>1, <2>2, OpenFacts DEF PlainFile
<1>2. /\ open' = P!F!Drop(open, p) /\ target' = target
      /\ status' = status /\ got' = got /\ told' = told /\ asked' = asked
  BY DEF P!Close
<1>3. AnswersOK'
  BY <1>2 DEF AnswersOK, PInv
<1>4. LinkedQuirks' = LinkedQuirks /\ LinkedOpened' = Seam!Drop(LinkedOpened, p)
  BY <1>1, <1>2, PlainStays, PlainQuirks, ViewDrop
<1>5. CASE disk' = disk
  <2>1. OthersFine(open, p, disk, target)
    BY <1>1 DEF FilesOK, OthersFine
  <2>2. FilesOK(open', disk', target')
    BY <2>1, <1>1, <1>2, <1>5, GoneOK
  <2> QED BY <2>2, <1>1, <1>2, <1>3, <1>4, <1>5 DEF PInv, Seam!Close
<1>6. CASE /\ target \in P!Streams /\ ~ P!Flushed(p)
           /\ \E s \in P!Partly(disk[f.name], f.firm) : disk' = [disk EXCEPT ![f.name] = s]
  <2>1. PICK s \in P!Partly(disk[f.name], f.firm) : disk' = [disk EXCEPT ![f.name] = s]
    BY <1>6
  <2>2. Streamed(f, target)
    BY <1>6 DEF P!Flushed, Streamed
  <2>3. /\ f.old \in Nat /\ f.old <= Len(f.firm) /\ f.old <= Len(disk[f.name])
        /\ Agree(f.firm, disk[f.name], f.old)
    BY <2>2, <1>1 DEF GoodFile, PlainFile
  <2>4. s \in UpTo(MaxSize) /\ f.old <= Len(s) /\ Agree(s, disk[f.name], f.old)
    BY <2>3, <1>1, PartOf
  <2>5. DiskOK(disk') /\ OthersFine(open, p, disk', target)
    BY <2>1, <2>2, <2>4, <1>1, OthersGood
  <2>6. FilesOK(open', disk', target')
    BY <2>5, <1>1, <1>2, GoneOK
  <2>7. s \in Seq(Bytes)
    BY <2>4, UpToIs, SlotsAssumption
  <2>8. SubSeq(s, 1, f.old) = SubSeq(disk[f.name], 1, f.old)
    BY <2>3, <2>4, <2>7, <1>1, AgreeSubSeq
  <2>9. Seam!May("tears") /\ f.mode # "read"
    BY <2>2, <1>1, PlainQuirks DEF Streamed
  <2>10. Seam!Tears(p)
    <3>1. s \in Seam!SeqsUpTo(Bytes, MaxSize)
      BY <2>4 DEF UpTo
    <3> QED BY <3>1, <2>1, <2>4, <2>8, <2>9, <1>1 DEF Seam!Tears
  <2> QED BY <2>6, <2>10, <1>1, <1>2, <1>3, <1>4 DEF PInv, Seam!Close
<1> QED BY <1>5, <1>6 DEF P!Close

(* The open files keep their names and bytes on the disk.                  *)
Untouched(op, dk, dk2) ==
  \A q \in DOMAIN op : op[q].name \in DOMAIN dk2 /\ dk2[op[q].name] = dk[op[q].name]

(* ... so the open files are in order still.                               *)
LEMMA FilesKept ==
  ASSUME NEW op, NEW dk, NEW tg, FilesOK(op, dk, tg), NEW dk2, DiskOK(dk2),
         Untouched(op, dk, dk2)
  PROVE  FilesOK(op, dk2, tg)
<1>1. ASSUME NEW q \in DOMAIN op PROVE GoodFile(op[q], dk2, tg)
  <2>1. GoodFile(op[q], dk, tg)
    BY DEF FilesOK
  <2> QED BY <2>1 DEF Untouched, GoodFile
<1> QED BY <1>1 DEF FilesOK

(* Delete, exists and an open that is refused are the seam's; so is the    *)
(* file the Mac creates and then cannot open.                              *)
LEMMA DeleteStep ==
  ASSUME PInv, NEW name \in PlainNames, P!Delete(name)
  PROVE  PInv' /\ Seam!Delete(name)
<1>1. target \in Plain /\ FilesOK(open, disk, target) /\ DiskOK(disk)
  BY DEF PInv, FilesOK
<1>2. open' = open /\ P!NotOpen(name)
  BY DEF P!Delete
<1>3. CASE name \in DOMAIN disk /\ disk' = P!F!Drop(disk, name) /\ P!OK(0)
  <2>1. AnswersOK' /\ Seam!Done(0) /\ target' = target
    BY <1>1, <1>3, OKStep, SlotsAssumption
  <2>2. LinkedOpened' = LinkedOpened
    BY <2>1, <1>1, <1>2, PlainStays, PlainQuirks
  <2>3. /\ DOMAIN disk' = DOMAIN disk \ {name}
        /\ \A n \in DOMAIN disk \ {name} : disk'[n] = disk[n]
        /\ disk' = Seam!Drop(disk, name)
    BY <1>3 DEF P!F!Drop, Seam!Drop
  <2>4. DiskOK(disk')
    <3>1. \A n \in DOMAIN disk' : disk'[n] \in UpTo(MaxSize)
      BY <2>3, <1>1 DEF DiskOK
    <3>2. disk' \in [DOMAIN disk' -> UpTo(MaxSize)]
      BY <3>1, <1>3 DEF P!F!Drop
    <3> QED BY <3>2, <2>3, <1>1 DEF DiskOK
  <2>5. Untouched(open, disk, disk')
    BY <2>3, <1>1, <1>2, OpenFacts DEF Untouched, P!NotOpen, P!OpenBy
  <2>6. FilesOK(open, disk', target)
    BY <2>4, <2>5, <1>1, FilesKept
  <2> QED BY <2>1, <2>2, <2>3, <2>6, <1>1, <1>2, <1>3 DEF PInv, Seam!Delete
<1>4. CASE P!Fails /\ disk' = disk
  <2>1. AnswersOK' /\ Seam!Fails /\ target' = target
    BY <1>1, <1>4, FailsOK
  <2>2. PInv' /\ LinkedOpened' = LinkedOpened
    BY <2>1, <1>2, <1>4, NothingStep DEF P!Nothing
  <2> QED BY <2>1, <2>2, <1>4 DEF Seam!Delete
<1> QED BY <1>3, <1>4 DEF P!Delete

(* Whether a file exists.                                                  *)
LEMMA ExistsStep ==
  ASSUME PInv, NEW name \in PlainNames, P!Exists(name)
  PROVE  PInv' /\ Seam!Exists(name)
<1>1. PICK n \in {0, 1} : P!OK(n) /\ (n = 1 => name \in DOMAIN disk)
  BY DEF P!Exists
<1>2. n \in 0 .. MaxSize \cup Slots /\ target \in Plain
  BY SlotsAssumption DEF Slots, PInv
<1>3. AnswersOK' /\ Seam!Done(n) /\ target' = target
  BY <1>1, <1>2, OKStep
<1>4. PInv' /\ LinkedOpened' = LinkedOpened /\ disk' = disk
  BY <1>3, NothingStep DEF P!Exists
<1>5. n \in IF name \in DOMAIN disk THEN {0, 1} ELSE {0}
  BY <1>1
<1> QED BY <1>3, <1>4, <1>5 DEF Seam!Exists

(* An open that is refused changes nothing.                                *)
LEMMA RefusedStep ==
  ASSUME PInv, NEW name, P!OpenRefused
  PROVE  PInv' /\ Seam!Open(name, "read")
<1>1. target \in Plain /\ P!Fails /\ P!Nothing
  BY DEF PInv, P!OpenRefused
<1>2. AnswersOK' /\ Seam!Fails /\ target' = target
  BY <1>1, FailsOK
<1>3. PInv' /\ LinkedOpened' = LinkedOpened /\ disk' = disk
  BY <1>1, <1>2, NothingStep
<1> QED BY <1>2, <1>3 DEF Seam!Open, Seam!OpenFails

(* An open of the Mac that fails after it has created the file.            *)
LEMMA MacCreatesStep ==
  ASSUME PInv, NEW name \in PlainNames, P!MacCreates(name)
  PROVE  PInv' /\ Seam!Open(name, "write")
<1>1. /\ target \in Plain /\ FilesOK(open, disk, target) /\ DiskOK(disk)
      /\ target = "mac" /\ name \notin DOMAIN disk /\ P!Fails /\ open' = open
      /\ disk' = P!F!Put(disk, name, <<>>)
  BY DEF PInv, FilesOK, P!MacCreates
<1>2. AnswersOK' /\ Seam!Fails /\ target' = target
  BY <1>1, FailsOK
<1>3. LinkedOpened' = LinkedOpened
  BY <1>1, <1>2, PlainStays, PlainQuirks
<1>4. /\ DiskOK(disk') /\ disk' = Seam!Put(disk, name, <<>>)
      /\ \A n \in DOMAIN disk : n \in DOMAIN disk' /\ (n # name => disk'[n] = disk[n])
  BY <1>1, Emptied
<1>5. Untouched(open, disk, disk')
  BY <1>1, <1>4, OpenFacts DEF Untouched
<1>6. FilesOK(open, disk', target)
  BY <1>1, <1>4, <1>5, FilesKept
<1>7. Seam!May("creates")
  BY <1>1, PlainQuirks
<1> QED BY <1>1, <1>2, <1>3, <1>4, <1>6, <1>7 DEF PInv, Seam!Open, Seam!OpenFails

------------------------------------------------------------------------------
(* A step of a plain backend is one of the seam's.                         *)
LEMMA PlainStep ==
  ASSUME PInv, P!Next
  PROVE  PInv' /\ Seam!Next
<1>1. "read" \in Seam!Modes /\ "write" \in Seam!Modes /\ "append" \in Seam!Modes
  BY DEF Seam!Modes
<1>2. ASSUME NEW name \in PlainNames, NEW mode \in Seam!Modes, Seam!Open(name, mode)
      PROVE  Seam!Next
  BY <1>2 DEF Seam!Next
<1>3. ASSUME NEW name \in PlainNames, Seam!Delete(name) \/ Seam!Exists(name)
      PROVE  Seam!Next
  BY <1>3 DEF Seam!Next
<1>4. DOMAIN LinkedOpened = DOMAIN open
  <2>1. LinkedOpened = View(open)
    BY PlainQuirks DEF PInv
  <2> QED BY <2>1 DEF View
<1>5. ASSUME NEW name \in PlainNames,
             \/ P!OpenRefused \/ P!OpenRead(name) \/ P!OpenWrite(name)
             \/ P!OpenAppendStream(name) \/ P!OpenAppendAmiga(name) \/ P!OpenAppendMac(name)
             \/ P!MacCreates(name) \/ P!Delete(name) \/ P!Exists(name)
      PROVE  PInv' /\ Seam!Next
  <2>1. \/ PInv' /\ Seam!Open(name, "read")
        \/ PInv' /\ Seam!Open(name, "write")
        \/ PInv' /\ Seam!Open(name, "append")
        \/ PInv' /\ (Seam!Delete(name) \/ Seam!Exists(name))
    BY <1>5, RefusedStep, OpenReadStep, OpenWriteStep, OpenAppendStep, MacCreatesStep,
       DeleteStep, ExistsStep
  <2> QED BY <2>1, <1>1, <1>2, <1>3
<1>6. ASSUME NEW p \in DOMAIN open, NEW cap \in 0 .. PlainMaxOut,
             P!ReadHandle(p, cap) \/ P!ReadHost(p, cap) \/ P!ReadAtari(p, cap)
      PROVE  PInv' /\ Seam!Next
  <2>1. PInv' /\ Seam!Read(p, cap)
    BY <1>6, ReadStep
  <2>2. cap \in 0 .. Top
    BY TopIs, PlainAssumption
  <2> QED BY <2>1, <2>2, <1>4 DEF Seam!Next, Top
<1>7. ASSUME NEW p \in DOMAIN open, NEW data \in P!F!SeqsUpTo(Bytes, PlainMaxOut),
             P!WriteHandle(p, data) \/ P!WriteStream(p, data) \/ P!WriteLost(p, data)
      PROVE  PInv' /\ Seam!Next
  <2>1. data \in UpTo(PlainMaxOut)
    BY DEF UpTo, Seam!SeqsUpTo, P!F!SeqsUpTo
  <2>2. PInv' /\ Seam!Write(p, data)
    BY <2>1, <1>7, WriteHandleStep, WriteStreamStep, WriteLostStep
  <2>3. data \in UpTo(Top)
    <3>1. data \in Seq(Bytes) /\ Len(data) <= PlainMaxOut
      BY <2>1, UpToIs, PlainAssumption
    <3>2. Len(data) <= Top
      BY <3>1, TopIs, LenProperties, PlainAssumption
    <3> QED BY <3>1, <3>2, TopIs, UpToIs
  <2>4. data \in Seam!SeqsUpTo(Bytes, F!AtLeast(MaxOut, PlainMaxOut))
    BY <2>3 DEF UpTo, Top
  <2> QED BY <2>2, <2>4, <1>4 DEF Seam!Next
<1>8. ASSUME NEW p \in DOMAIN open, NEW offset \in Offsets, NEW whence \in P!F!Whences,
             P!Seek(p, offset, whence)
      PROVE  PInv' /\ Seam!Next
  <2>1. whence \in Seam!Whences
    BY DEF Seam!Whences, P!F!Whences
  <2>2. PInv' /\ Seam!Seek(p, offset, whence)
    BY <2>1, <1>8, SeekStep
  <2> QED BY <2>1, <2>2, <1>4 DEF Seam!Next
<1>9. ASSUME NEW p \in DOMAIN open,
             P!Tell(p) \/ P!SizeBySeeking(p) \/ P!SizeAsked(p) \/ P!Close(p)
      PROVE  PInv' /\ Seam!Next
  <2>1. PInv' /\ (Seam!Tell(p) \/ Seam!Size(p) \/ Seam!Close(p))
    BY <1>9, TellStep, SizeStep, CloseStep
  <2> QED BY <2>1, <1>4 DEF Seam!Next
<1> QED BY <1>5, <1>6, <1>7, <1>8, <1>9 DEF P!Next

------------------------------------------------------------------------------
(* The initial states.                                                     *)

(* A function of nothing.                                                  *)
LEMMA EmptyFunction ==
  ASSUME NEW f, f = [x \in DOMAIN f |-> f[x]], DOMAIN f = {}
  PROVE  f = <<>>
<1> DEFINE e == <<>>
<1>1. e \in Seq({})
  BY EmptySeq
<1>2. Len(e) = 0
  BY EmptySeq
<1> HIDE DEF e
<1>3. e \in [1 .. Len(e) -> {}]
  BY <1>1, LenProperties
<1>4. DOMAIN e = {} /\ e = [x \in DOMAIN e |-> e[x]]
  BY <1>2, <1>3
<1>5. f = e
  BY <1>4
<1> QED BY <1>5 DEF e

(* No file is open.                                                        *)
LEMMA NothingOpen ==
  /\ DOMAIN <<>> = {} /\ View(<<>>) = <<>>
<1> DEFINE e == <<>>
<1>1. e \in Seq({}) /\ Len(e) = 0
  BY EmptySeq
<1> HIDE DEF e
<1>2. DOMAIN e = {}
  BY <1>1, LenProperties
<1>3. DOMAIN View(e) = {} /\ View(e) = [x \in DOMAIN View(e) |-> View(e)[x]]
  BY <1>2 DEF View
<1> HIDE DEF View
<1>4. View(e) = <<>>
  BY <1>3, EmptyFunction
<1> QED BY <1>2, <1>4 DEF e

(* An empty disk, or one with every file of `all` on it.                   *)
LEMMA FirstDisk ==
  ASSUME NEW all, disk \in [all -> {<<>>}] \cup {<<>>}
  PROVE  /\ \E some \in SUBSET all : disk = [name \in some |-> <<>>]
         /\ DOMAIN disk \subseteq all
         /\ disk \in [DOMAIN disk -> UpTo(MaxSize)]
<1> DEFINE e == <<>>
<1>1. e \in UpTo(MaxSize)
  BY EmptyUpTo, SlotsAssumption
<1>2. CASE disk \in [all -> {e}]
  BY <1>1, <1>2
<1>3. CASE disk = <<>>
  <2>1. DOMAIN disk = {}
    BY <1>3, NothingOpen
  <2> DEFINE g == [name \in {} |-> e]
  <2>2. g = <<>>
    BY EmptyFunction
  <2>3. disk = g
    BY <1>3, <2>2
  <2> QED BY <2>1, <2>3
<1> QED BY <1>2, <1>3

(* A plain backend starts in order and as the seam does.                   *)
LEMMA PlainInit ==
  ASSUME P!Init
  PROVE  PInv /\ Seam!Init
<1>1. /\ target \in Plain /\ open = <<>>
      /\ disk \in [PlainNames -> {<<>>}] \cup {<<>>}
      /\ status = "none" /\ got = <<>> /\ told = 0 /\ asked = 0
  BY DEF P!Init
<1>2. /\ \E some \in SUBSET PlainNames : disk = [name \in some |-> <<>>]
      /\ DiskOK(disk)
  BY <1>1, FirstDisk DEF DiskOK
<1>3. DOMAIN open = {} /\ LinkedOpened = <<>>
  BY <1>1, NothingOpen, PlainQuirks
<1>4. FilesOK(open, disk, target)
  BY <1>2, <1>3 DEF FilesOK, Alone
<1>5. AnswersOK
  BY <1>1, EmptyUpTo, SlotsAssumption, PlainAssumption DEF AnswersOK
<1>6. \E some \in SUBSET (Names \cup PlainNames) : disk = [name \in some |-> <<>>]
  BY <1>2
<1> QED BY <1>1, <1>3, <1>4, <1>5, <1>6 DEF PInv, Seam!Init

(* The type invariant of the plain backends is part of it.                 *)
LEMMA PlainTyped ==
  ASSUME PInv
  PROVE  P!TypeOK
<1>1. UpTo(MaxSize) = P!F!SeqsUpTo(Bytes, MaxSize) /\
      UpTo(PlainMaxOut) = P!F!SeqsUpTo(Bytes, PlainMaxOut)
  BY DEF UpTo, Seam!SeqsUpTo, P!F!SeqsUpTo
<1>2. Seam!Modes = P!F!Modes
  BY DEF Seam!Modes, P!F!Modes
<1>3. \A p \in DOMAIN open : open[p] \in PlainFile
  BY DEF PInv, FilesOK, GoodFile
<1> QED BY <1>1, <1>2, <1>3 DEF PInv, FilesOK, DiskOK, AnswersOK, P!TypeOK, PlainFile

------------------------------------------------------------------------------
(* gem4xe.                                                                 *)

(* A file GEMDOS has open.                                                 *)
GemFile == [name : Names, pos : 0 .. MaxSize, mode : Seam!Modes]

(* Names and their bytes.                                                  *)
GemDiskOK(dk) == DOMAIN dk \subseteq Names /\ dk \in [DOMAIN dk -> UpTo(MaxSize)]

(* An open handle is at a place in a file that is there.                   *)
GoodHandle(f, dk) == f \in GemFile /\ f.name \in DOMAIN dk /\ f.pos <= Len(dk[f.name])

(* GEMDOS's files: no two handles to one that is written.                  *)
HandlesOK(gd, dk) ==
  /\ \A h \in DOMAIN gd : GoodHandle(gd[h], dk)
  /\ \A h, k \in DOMAIN gd : h # k /\ gd[h].name = gd[k].name => gd[h].mode = "read"

(* The answers of the last call, typed.                                    *)
GemAnswersOK ==
  /\ status \in {"none", "OK", "ERR"} /\ got \in UpTo(MaxOut)
  /\ told \in Nat /\ asked \in Nat

(* The inductive invariant of file_gem4xe.c: IInv, by which a slot holds   *)
(* the handle it was given, and the files those handles are in.            *)
GInv ==
  /\ IsGem /\ IInv
  /\ GemDiskOK(disk) /\ HandlesOK(gemdos, disk) /\ GemAnswersOK

(* The seam, of gem4xe.                                                    *)
LEMMA GemQuirks ==
  ASSUME IsGem
  PROVE  /\ LinkedOpened = Opened /\ LinkedQuirks = Quirks
         /\ ~ Seam!May("ends") /\ Seam!May("drifts") /\ Seam!May("unsought")
         /\ Seam!May("empties") /\ Seam!May("spends")
BY DEF LinkedOpened, LinkedQuirks, Quirks, Seam!May

(* ... and it stays gem4xe.                                                *)
LEMMA GemStays ==
  ASSUME IsGem, target' = target
  PROVE  IsGem' /\ LinkedQuirks' = LinkedQuirks /\ LinkedOpened' = Opened'
BY DEF IsGem, LinkedOpened, LinkedQuirks, Quirks

(* The file a pointer stands for, and how the seam sees it.                *)
LEMMA GemFacts ==
  ASSUME GInv, NEW i \in Used
  PROVE  LET h == slot_h(i)
             f == gemdos[h]
         IN  /\ i \in Slots /\ h \in DOMAIN gemdos /\ GoodHandle(f, disk)
             /\ f \in GemFile /\ f.name \in DOMAIN disk
             /\ disk[f.name] \in UpTo(MaxSize) /\ disk[f.name] \in Seq(Bytes)
             /\ Len(disk[f.name]) \in 0 .. MaxSize /\ Len(disk[f.name]) \in Nat
             /\ f.pos \in Nat /\ f.pos \in 0 .. Len(disk[f.name])
             /\ i \in DOMAIN LinkedOpened
             /\ LinkedOpened[i] = [name |-> f.name, pos |-> f.pos, mode |-> f.mode, old |-> 0]
             /\ LinkedOpened[i].name = f.name /\ LinkedOpened[i].pos = f.pos
             /\ LinkedOpened[i].mode = f.mode
             /\ disk = [n \in DOMAIN disk |-> disk[n]]
<1> DEFINE h == slot_h(i)
           f == gemdos[h]
<1>1. i \in Slots /\ h \in DOMAIN gemdos
  BY DEF GInv, IInv, TableOK, SlotsHoldHandles, Used, slot_h
<1>2. GoodHandle(f, disk) /\ GemDiskOK(disk)
  BY <1>1 DEF GInv, HandlesOK
<1>3. f \in GemFile /\ f.name \in DOMAIN disk /\ f.pos <= Len(disk[f.name])
  BY <1>2 DEF GoodHandle
<1>4. disk[f.name] \in UpTo(MaxSize) /\ disk = [n \in DOMAIN disk |-> disk[n]]
  BY <1>2, <1>3 DEF GemDiskOK
<1>5. disk[f.name] \in Seq(Bytes) /\ Len(disk[f.name]) <= MaxSize
  BY <1>4, UpToIs, SlotsAssumption
<1>6. Len(disk[f.name]) \in Nat
  BY <1>5, LenProperties
<1>7. /\ Len(disk[f.name]) \in 0 .. MaxSize /\ f.pos \in 0 .. Len(disk[f.name])
      /\ f.pos \in Nat
  BY <1>3, <1>5, <1>6, SlotsAssumption DEF GemFile
<1>8. LinkedOpened = Opened
  BY GemQuirks DEF GInv
<1>9. /\ i \in DOMAIN LinkedOpened
      /\ LinkedOpened[i] = [name |-> f.name, pos |-> f.pos, mode |-> f.mode, old |-> 0]
  BY <1>8 DEF Opened, slot_h
<1> QED BY <1>1, <1>2, <1>3, <1>4, <1>5, <1>6, <1>7, <1>9

------------------------------------------------------------------------------
(* A handle moves, its file having been written or not.                    *)
LEMMA GemMoves ==
  ASSUME GInv, NEW i \in Used, NEW pos, slot' = slot, target' = target,
         gemdos' = MovedTo(slot_h(i), pos)
  PROVE  Seam!MovesTo(i, pos)
<1> DEFINE h == slot_h(i)
<1>1. /\ i \in Slots /\ h \in DOMAIN gemdos /\ gemdos[h] \in GemFile
      /\ LinkedOpened = Opened
  BY GemFacts, GemQuirks DEF GInv
<1>2. Used' = Used
  BY DEF Used
<1>3. \A j \in Used : j # i => slot[j].h # h
  BY DEF GInv, IInv, SlotsHoldHandles, slot_h
<1>4. \A j \in Used : slot[j].h \in DOMAIN gemdos
  BY DEF GInv, IInv, SlotsHoldHandles
<1>5. /\ gemdos'[h].name = gemdos[h].name /\ gemdos'[h].mode = gemdos[h].mode
      /\ gemdos'[h].pos = pos /\ \A k \in DOMAIN gemdos \ {h} : gemdos'[k] = gemdos[k]
  BY <1>1 DEF MovedTo, GemFile
<1> DEFINE v == [Opened EXCEPT ![i].pos = pos]
<1>6. DOMAIN Opened = Used /\ DOMAIN Opened' = Used /\ DOMAIN v = Used
  BY <1>2 DEF Opened
<1>7. ASSUME NEW j \in Used PROVE Opened'[j] = v[j]
  <2>1. /\ Opened[j] = [name |-> gemdos[slot[j].h].name, pos |-> gemdos[slot[j].h].pos,
                        mode |-> gemdos[slot[j].h].mode, old |-> 0]
        /\ Opened'[j] = [name |-> gemdos'[slot[j].h].name, pos |-> gemdos'[slot[j].h].pos,
                         mode |-> gemdos'[slot[j].h].mode, old |-> 0]
    BY <1>2 DEF Opened
  <2>2. CASE j = i
    <3>1. slot[j].h = h
      BY <2>2 DEF slot_h
    <3>2. v[j] = [Opened[j] EXCEPT !.pos = pos]
      BY <2>2, <1>6
    <3> HIDE DEF v, h
    <3>3. v[j] = [name |-> gemdos[h].name, pos |-> pos, mode |-> gemdos[h].mode, old |-> 0]
      BY <2>1, <3>1, <3>2
    <3> QED BY <2>1, <3>1, <3>3, <1>5
  <2>3. CASE j # i
    <3>1. slot[j].h \in DOMAIN gemdos \ {h}
      BY <2>3, <1>3, <1>4
    <3>2. v[j] = Opened[j]
      BY <2>3, <1>6
    <3> QED BY <2>1, <3>1, <3>2, <1>5
  <2> QED BY <2>2, <2>3
<1>8. Opened' = [j \in Used |-> Opened'[j]]
  BY <1>2 DEF Opened
<1>9. v = [j \in Used |-> v[j]]
  BY <1>6
<1>10. Opened' = v
  <2> HIDE DEF v
  <2> QED BY <1>7, <1>8, <1>9
<1>11. LinkedOpened' = Opened'
  BY GemStays DEF GInv
<1> QED BY <1>1, <1>10, <1>11 DEF Seam!MovesTo

(* The files are in order if those that are open still are.                *)
LEMMA GemMovedOK ==
  ASSUME GInv, NEW i \in Used, slot' = slot, target' = target, NEW s \in UpTo(MaxSize),
         NEW pos \in 0 .. Len(s), pos <= MaxSize,
         Len(disk[gemdos[slot_h(i)].name]) <= Len(s),
         gemdos' = MovedTo(slot_h(i), pos),
         disk' = [disk EXCEPT ![gemdos[slot_h(i)].name] = s],
         GemAnswersOK'
  PROVE  GInv'
<1> DEFINE h == slot_h(i)
           f == gemdos[h]
<1>1. /\ h \in DOMAIN gemdos /\ f \in GemFile /\ f.name \in DOMAIN disk
      /\ GemDiskOK(disk) /\ Len(disk[f.name]) \in Nat
  <2>1. /\ h \in DOMAIN gemdos /\ f \in GemFile /\ f.name \in DOMAIN disk
        /\ Len(disk[f.name]) \in 0 .. MaxSize
    BY GemFacts
  <2> QED BY <2>1, SlotsAssumption DEF GInv
<1>2. IInv' /\ IsGem'
  BY SameHandles, MovedDomain, GemStays DEF GInv
<1>3. GemDiskOK(disk')
  BY <1>1 DEF GemDiskOK
<1>4. /\ DOMAIN gemdos' = DOMAIN gemdos
      /\ gemdos'[h] = [name |-> f.name, pos |-> pos, mode |-> f.mode]
      /\ \A k \in DOMAIN gemdos \ {h} : gemdos'[k] = gemdos[k]
  BY <1>1 DEF MovedTo, GemFile
<1>5. DOMAIN disk' = DOMAIN disk /\ disk'[f.name] = s
      /\ \A n \in DOMAIN disk \ {f.name} : disk'[n] = disk[n]
  BY <1>1
<1>6. Len(s) \in Nat
  <2>1. s \in Seq(Bytes)
    BY UpToIs, SlotsAssumption
  <2> QED BY <2>1, LenProperties
<1>7. ASSUME NEW k \in DOMAIN gemdos PROVE GoodHandle(gemdos'[k], disk')
  <2>1. GoodHandle(gemdos[k], disk)
    BY DEF GInv, HandlesOK
  <2>2. CASE k = h
    <3>1. gemdos'[k] \in GemFile
      BY <2>2, <1>1, <1>4, <1>6, SlotsAssumption DEF GemFile
    <3> QED BY <3>1, <2>2, <1>1, <1>4, <1>5 DEF GoodHandle
  <2>3. CASE k # h /\ gemdos[k].name = f.name
    <3>1. gemdos[k].pos \in Nat /\ gemdos[k].pos <= Len(disk[f.name])
      BY <2>1, <2>3 DEF GoodHandle, GemFile
    <3>2. gemdos[k].pos <= Len(s)
      BY <3>1, <1>1, <1>6
    <3> QED BY <2>1, <2>3, <3>2, <1>4, <1>5 DEF GoodHandle
  <2>4. CASE k # h /\ gemdos[k].name # f.name
    BY <2>1, <2>4, <1>4, <1>5 DEF GoodHandle
  <2> QED BY <2>2, <2>3, <2>4
<1>8. ASSUME NEW k \in DOMAIN gemdos
      PROVE  gemdos'[k].name = gemdos[k].name /\ gemdos'[k].mode = gemdos[k].mode
  BY <1>4
<1>9. HandlesOK(gemdos', disk')
  <2> HIDE DEF h, f
  <2>1. ASSUME NEW k \in DOMAIN gemdos, NEW l \in DOMAIN gemdos, k # l,
               gemdos'[k].name = gemdos'[l].name
        PROVE  gemdos'[k].mode = "read"
    <3>1. gemdos[k].name = gemdos[l].name
      BY <2>1, <1>8
    <3>2. gemdos[k].mode = "read"
      BY <2>1, <3>1 DEF GInv, HandlesOK
    <3> QED BY <3>2, <1>8
  <2>2. \A k \in DOMAIN gemdos : GoodHandle(gemdos'[k], disk')
    BY <1>7
  <2>3. DOMAIN gemdos' = DOMAIN gemdos
    BY <1>4
  <2> QED BY <2>1, <2>2, <2>3 DEF HandlesOK
<1> QED BY <1>2, <1>3, <1>9 DEF GInv

(* ... which they are when nothing is written.                             *)
LEMMA GemSought ==
  ASSUME GInv, NEW i \in Used, slot' = slot, target' = target, disk' = disk,
         NEW pos \in 0 .. Len(disk[gemdos[slot_h(i)].name]),
         gemdos' = MovedTo(slot_h(i), pos), GemAnswersOK'
  PROVE  GInv' /\ Seam!MovesTo(i, pos)
<1> DEFINE s == disk[gemdos[slot_h(i)].name]
<1>1. /\ s \in UpTo(MaxSize) /\ Len(s) \in 0 .. MaxSize
      /\ disk = [n \in DOMAIN disk |-> disk[n]]
  BY GemFacts
<1>2. disk' = [disk EXCEPT ![gemdos[slot_h(i)].name] = s]
  BY <1>1
<1>3. pos <= MaxSize /\ Len(s) <= Len(s) /\ pos \in 0 .. Len(s)
  BY <1>1, SlotsAssumption
<1> HIDE DEF s
<1>4. GInv'
  BY <1>1, <1>2, <1>3, GemMovedOK DEF s
<1> QED BY <1>4, GemMoves

(* Either the table is full or a slot is the first free one.               *)
LEMMA FirstFreeIs ==
  ASSUME Used \subseteq Slots, FirstFree = {}
  PROVE  Used = Slots
<1> DEFINE S == Slots \ Used
<1>1. ASSUME S # {} PROVE FALSE
  <2>1. S \subseteq Nat
    BY SlotsAssumption DEF Slots
  <2>2. IsWellFoundedOn(OpToRel(<, Nat), Nat)
    BY NatLessThanWellFounded, Zenon
  <2> HIDE DEF S
  <2>3. PICK m \in S : \A x \in S : ~ (<<x, m>> \in OpToRel(<, Nat))
    BY <2>1, <2>2, <1>1, WFMin, Zenon
  <2>4. \A x \in S : ~ (x < m)
    <3>1. S \X S \subseteq Nat \X Nat
      BY <2>1
    <3>2. \A x \in S : <<x, m>> \in Nat \X Nat /\ <<x, m>>[1] = x /\ <<x, m>>[2] = m
      BY <2>1
    <3> QED BY <2>3, <3>2, Zenon DEF OpToRel
  <2>5. \A j \in 1 .. m - 1 : j \in Used
    BY <2>1, <2>4, SlotsAssumption DEF S, Slots
  <2>6. m \in FirstFree
    BY <2>5 DEF FirstFree, S
  <2> QED BY <2>6
<1> QED BY <1>1

(* A call that fails, nothing having changed.                              *)
LEMMA GemFails ==
  ASSUME IsGem, target' = target, Fails
  PROVE  Seam!Fails /\ GemAnswersOK'
<1>1. <<>> \in UpTo(MaxOut)
  BY EmptyUpTo, SlotsAssumption
<1> QED BY <1>1, GemStays DEF Fails, Returns, Seam!Fails, Seam!Says, GemAnswersOK

(* A call that succeeds.                                                   *)
LEMMA GemDone ==
  ASSUME IsGem, target' = target, NEW n \in Nat, OK(n)
  PROVE  Seam!Done(n) /\ GemAnswersOK'
<1>1. <<>> \in UpTo(MaxOut)
  BY EmptyUpTo, SlotsAssumption
<1> QED BY <1>1, GemStays DEF OK, Returns, Seam!Done, Seam!Says, GemAnswersOK

(* What an open does to the disk leaves the open files as they are.        *)
HandlesKept(name, mode) ==
  \A h \in DOMAIN gemdos :
    /\ gemdos[h].name \in DOMAIN disk' /\ disk'[gemdos[h].name] = disk[gemdos[h].name]
    /\ gemdos[h].name = name => gemdos[h].mode = "read" /\ mode = "read"

(* ... and so they are.                                                    *)
LEMMA KeptOK ==
  ASSUME GInv, NEW name, NEW mode, HandlesKept(name, mode)
  PROVE  HandlesOK(gemdos, disk')
<1>1. ASSUME NEW h \in DOMAIN gemdos PROVE GoodHandle(gemdos[h], disk')
  <2>1. GoodHandle(gemdos[h], disk)
    BY DEF GInv, HandlesOK
  <2> QED BY <2>1 DEF GoodHandle, HandlesKept
<1> QED BY <1>1 DEF GInv, HandlesOK

(* An open the seam lets fail: its table is full.                          *)
NotOpened == Seam!Fails /\ LinkedOpened' = LinkedOpened /\ DOMAIN LinkedOpened = Slots

(* slot_new either fills the first free slot or, the table being full,     *)
(* closes the handle again.                                                *)
LEMMA SlotNewStep ==
  ASSUME GInv, target' = target, NEW name \in Names, NEW mode \in Seam!Modes,
         NEW pos, GemDiskOK(disk'), name \in DOMAIN disk', pos \in 0 .. Len(disk'[name]),
         HandlesKept(name, mode), NEW h \in NewHandles, slot_new(h, File(name, pos, mode))
  PROVE  GInv' /\ (Seam!Opens(name, pos, mode) \/ NotOpened)
<1>1. IInv' /\ IsGem' /\ IInv /\ IsGem
  BY NewSlotKeeps, GemStays DEF GInv
<1>2. HandlesOK(gemdos, disk')
  BY KeptOK
<1>3. LinkedOpened = Opened /\ LinkedOpened' = Opened' /\ Used \subseteq Slots
  BY <1>1, GemQuirks, GemStays DEF Used, IInv, TableOK
<1>4. CASE FirstFree = {}
  <2>1. Fails /\ slot' = slot /\ gemdos' = gemdos
    BY <1>4 DEF slot_new
  <2>2. Seam!Fails /\ GemAnswersOK'
    BY <2>1, <1>1, GemFails
  <2>3. GInv'
    BY <2>1, <2>2, <1>1, <1>2 DEF GInv
  <2>4. Opened' = Opened
    BY <2>1 DEF Opened, Used
  <2>5. DOMAIN Opened = Slots
    BY <1>3, <1>4, FirstFreeIs DEF Opened
  <2> QED BY <2>2, <2>3, <2>4, <2>5, <1>3 DEF NotOpened
<1>5. CASE FirstFree # {}
  <2>1. PICK i \in FirstFree :
          /\ slot' = Put(slot, i, [used |-> TRUE, h |-> h])
          /\ gemdos' = Put(gemdos, h, File(name, pos, mode))
          /\ OK(i)
    BY <1>5 DEF slot_new
  <2>2. i \in Slots /\ i \notin Used /\ h \notin DOMAIN gemdos /\ i \in Nat
    BY <2>1, SlotsAssumption DEF FirstFree, NewHandles, Slots
  <2> DEFINE f == File(name, pos, mode)
  <2>3. /\ DOMAIN gemdos' = DOMAIN gemdos \cup {h} /\ gemdos'[h] = f
        /\ \A k \in DOMAIN gemdos : gemdos'[k] = gemdos[k]
    BY <2>1, <2>2 DEF Put, F!Put
  <2>4. /\ DOMAIN slot' = Slots \cup {i} /\ slot'[i] = [used |-> TRUE, h |-> h]
        /\ \A j \in Slots : j # i => slot'[j] = slot[j]
    <3>1. DOMAIN slot = Slots
      BY <1>1 DEF IInv, TableOK
    <3> QED BY <3>1, <2>1 DEF Put, F!Put
  <2>5. /\ Used' = Used \cup {i} /\ slot'[i].h = h
        /\ \A j \in Used : slot'[j].h = slot[j].h
    <3>1. DOMAIN slot = Slots
      BY <1>1 DEF IInv, TableOK
    <3>2. slot'[i].used /\ slot'[i].h = h
      BY <2>4
    <3>3. DOMAIN slot' = Slots
      BY <2>2, <2>4
    <3>4. \A j \in Slots : j \in Used' <=> j \in Used \/ j = i
      BY <3>1, <3>2, <3>3, <2>2, <2>4 DEF Used
    <3>5. Used' \subseteq Slots
      BY <3>3 DEF Used
    <3> QED BY <3>2, <3>4, <3>5, <2>2, <2>4, <1>3
  <2>6. \A j \in Used : slot[j].h \in DOMAIN gemdos
    BY <1>1 DEF IInv, SlotsHoldHandles
  <2>7. f.name = name /\ f.pos = pos /\ f.mode = mode /\ f = [name |-> name, pos |-> pos, mode |-> mode]
    BY DEF File
  <2> HIDE DEF f
  <2>8. Seam!Done(i) /\ GemAnswersOK'
    BY <2>1, <2>2, <1>1, GemDone
  <2>9. GoodHandle(f, disk')
    <3>1. disk'[name] \in UpTo(MaxSize)
      BY DEF GemDiskOK
    <3>2. disk'[name] \in Seq(Bytes) /\ Len(disk'[name]) <= MaxSize
      BY <3>1, UpToIs, SlotsAssumption
    <3>3. Len(disk'[name]) \in Nat
      BY <3>2, LenProperties
    <3>4. pos \in 0 .. MaxSize /\ pos <= Len(disk'[name])
      BY <3>2, <3>3, SlotsAssumption
    <3> QED BY <3>4, <2>7 DEF GoodHandle, GemFile
  <2>10. HandlesOK(gemdos', disk')
    <3>1. \A k \in DOMAIN gemdos' : GoodHandle(gemdos'[k], disk')
      BY <2>3, <2>9, <1>2 DEF HandlesOK
    <3>2. ASSUME NEW k \in DOMAIN gemdos', NEW l \in DOMAIN gemdos', k # l,
                 gemdos'[k].name = gemdos'[l].name
          PROVE  gemdos'[k].mode = "read"
      <4>1. CASE k # h /\ l # h
        BY <3>2, <4>1, <2>3, <1>2 DEF HandlesOK
      <4>2. CASE k = h
        BY <3>2, <4>2, <2>3, <2>7 DEF HandlesKept
      <4>3. CASE l = h
        BY <3>2, <4>3, <2>3, <2>7 DEF HandlesKept
      <4> QED BY <4>1, <4>2, <4>3
    <3> QED BY <3>1, <3>2 DEF HandlesOK
  <2>11. GInv'
    BY <2>8, <2>10, <1>1 DEF GInv
  <2> DEFINE r == [name |-> name, pos |-> pos, mode |-> mode, old |-> 0]
             v == Seam!Put(Opened, i, r)
  <2>12. Opened' = v
    <3>1. /\ DOMAIN Opened' = Used \cup {i} /\ DOMAIN v = Used \cup {i}
          /\ Opened' = [j \in Used \cup {i} |-> Opened'[j]]
          /\ v = [j \in Used \cup {i} |-> v[j]]
      BY <2>5 DEF Opened, Seam!Put
    <3>2. ASSUME NEW j \in Used \cup {i} PROVE Opened'[j] = v[j]
      <4>1. Opened'[j] = [name |-> gemdos'[slot'[j].h].name, pos |-> gemdos'[slot'[j].h].pos,
                          mode |-> gemdos'[slot'[j].h].mode, old |-> 0]
        BY <2>5 DEF Opened
      <4>2. CASE j = i
        <5>1. gemdos'[slot'[j].h] = f
          BY <4>2, <2>3, <2>5
        <5>2. v[j] = r
          BY <4>2 DEF Seam!Put
        <5> QED BY <4>1, <5>1, <5>2, <2>7
      <4>3. CASE j # i
        <5>1. gemdos'[slot'[j].h] = gemdos[slot[j].h] /\ j \in Used
          BY <4>3, <2>3, <2>5, <2>6
        <5>2. v[j] = Opened[j]
          BY <4>3, <5>1 DEF Seam!Put, Opened
        <5>3. Opened[j] = [name |-> gemdos[slot[j].h].name, pos |-> gemdos[slot[j].h].pos,
                           mode |-> gemdos[slot[j].h].mode, old |-> 0]
          BY <5>1 DEF Opened
        <5> QED BY <4>1, <5>1, <5>2, <5>3
      <4> QED BY <4>2, <4>3
    <3> HIDE DEF v
    <3> QED BY <3>1, <3>2
  <2>13. i \in Slots \ DOMAIN LinkedOpened
    BY <2>2, <1>3 DEF Opened
  <2>14. r = [name |-> name, pos |-> pos, mode |-> mode,
              old |-> IF Seam!May("ends") /\ mode = "append" THEN Len(disk'[name]) ELSE 0]
    BY <1>1, GemQuirks
  <2> HIDE DEF r
  <2>15. Seam!Opens(name, pos, mode)
    BY <2>8, <2>12, <2>13, <2>14, <1>3 DEF Seam!Opens
  <2> QED BY <2>11, <2>15
<1> QED BY <1>4, <1>5

(* Fcreate empties the file.                                               *)
LEMMA GemEmptied ==
  ASSUME NEW dk, GemDiskOK(dk), NEW name \in Names
  PROVE  LET new == Put(dk, name, <<>>) IN
         /\ GemDiskOK(new) /\ name \in DOMAIN new /\ Len(new[name]) = 0
         /\ new = Seam!Put(dk, name, <<>>)
         /\ \A n \in DOMAIN dk : n \in DOMAIN new /\ (n # name => new[n] = dk[n])
<1> DEFINE new == Put(dk, name, <<>>)
<1>1. /\ DOMAIN new = DOMAIN dk \cup {name} /\ new[name] = <<>>
      /\ \A n \in DOMAIN dk : n # name => new[n] = dk[n]
      /\ new = Seam!Put(dk, name, <<>>)
      /\ new = [n \in DOMAIN new |-> new[n]]
  BY DEF Put, F!Put, Seam!Put
<1> HIDE DEF new
<1>2. GemDiskOK(new)
  <2>1. \A n \in DOMAIN new : new[n] \in UpTo(MaxSize)
    BY <1>1, EmptyUpTo, SlotsAssumption DEF GemDiskOK
  <2> QED BY <1>1, <2>1 DEF GemDiskOK
<1>3. Len(new[name]) = 0
  BY <1>1, EmptySeq
<1> QED BY <1>1, <1>2, <1>3 DEF new

(* A file has a length.                                                    *)
LEMMA GemLen ==
  ASSUME NEW dk, GemDiskOK(dk), NEW name \in DOMAIN dk
  PROVE  Len(dk[name]) \in Nat
<1>1. dk[name] \in Seq(Bytes)
  BY UpToIs, SlotsAssumption DEF GemDiskOK
<1> QED BY <1>1, LenProperties

(* The three ways to open are the seam's.                                  *)
LEMMA GemOpenReadStep ==
  ASSUME GInv, target' = target, NEW name \in Names, OpenRead(name)
  PROVE  GInv' /\ Seam!Open(name, "read")
<1>1. NotWritten(name) /\ name \in DOMAIN disk /\ disk' = disk /\ GemDiskOK(disk)
  BY DEF OpenRead, GInv
<1>2. PICK h \in NewHandles : slot_new(h, File(name, 0, "read"))
  BY DEF OpenRead
<1>3. HandlesKept(name, "read")
  BY <1>1 DEF GInv, HandlesOK, GoodHandle, HandlesKept, NotWritten
<1>4. 0 \in 0 .. Len(disk'[name]) /\ "read" \in Seam!Modes
  BY <1>1, GemLen DEF Seam!Modes
<1>5. GInv' /\ (Seam!Opens(name, 0, "read") \/ NotOpened)
  BY <1>1, <1>2, <1>3, <1>4, SlotNewStep
<1> QED BY <1>1, <1>5 DEF Seam!Open, Seam!OpenRead, Seam!OpenFails, NotOpened

(* Opening to write: an empty file, though the table be full.              *)
LEMMA GemOpenWriteStep ==
  ASSUME GInv, target' = target, NEW name \in Names, OpenWrite(name)
  PROVE  GInv' /\ Seam!Open(name, "write")
<1>1. NotOpen(name) /\ disk' = Put(disk, name, <<>>) /\ GemDiskOK(disk)
  BY DEF OpenWrite, GInv
<1>2. PICK h \in NewHandles : slot_new(h, File(name, 0, "write"))
  BY DEF OpenWrite
<1>3. /\ GemDiskOK(disk') /\ name \in DOMAIN disk' /\ Len(disk'[name]) = 0
      /\ disk' = Seam!Put(disk, name, <<>>)
      /\ \A n \in DOMAIN disk : n \in DOMAIN disk' /\ (n # name => disk'[n] = disk[n])
  BY <1>1, GemEmptied
<1>4. HandlesKept(name, "write")
  BY <1>1, <1>3 DEF GInv, HandlesOK, GoodHandle, HandlesKept, NotOpen
<1>5. 0 \in 0 .. Len(disk'[name]) /\ "write" \in Seam!Modes
  BY <1>3 DEF Seam!Modes
<1>6. GInv' /\ (Seam!Opens(name, 0, "write") \/ NotOpened)
  BY <1>2, <1>3, <1>4, <1>5, SlotNewStep
<1>7. Seam!May("spends")
  BY GemQuirks DEF GInv
<1> QED BY <1>3, <1>6, <1>7 DEF Seam!Open, Seam!OpenWrite, Seam!OpenFails, NotOpened

(* Opening to append: the end of the file, or a new one.                   *)
LEMMA GemOpenAppendStep ==
  ASSUME GInv, target' = target, NEW name \in Names, OpenAppend(name)
  PROVE  GInv' /\ Seam!Open(name, "append")
<1>1. NotOpen(name) /\ GemDiskOK(disk)
  BY DEF OpenAppend, GInv
<1>2. "append" \in Seam!Modes /\ "append" # "read"
      /\ Seam!May("unsought") /\ Seam!May("empties") /\ Seam!May("spends")
  BY GemQuirks DEF Seam!Modes, GInv
<1>3. CASE /\ name \in DOMAIN disk /\ disk' = disk
           /\ \E h \in NewHandles, pos \in {0, Len(disk[name])} :
                slot_new(h, File(name, pos, "append"))
  <2>1. PICK h \in NewHandles, pos \in {0, Len(disk[name])} :
          slot_new(h, File(name, pos, "append"))
    BY <1>3
  <2>2. HandlesKept(name, "append")
    BY <1>1, <1>3 DEF GInv, HandlesOK, GoodHandle, HandlesKept, NotOpen
  <2>3. pos \in 0 .. Len(disk'[name])
    BY <1>1, <1>3, GemLen
  <2>4. GInv' /\ (Seam!Opens(name, pos, "append") \/ NotOpened)
    BY <2>1, <2>2, <2>3, <1>1, <1>2, <1>3, SlotNewStep
  <2> QED BY <2>4, <1>2, <1>3 DEF Seam!Open, Seam!OpenAppend, Seam!OpenFails, NotOpened
<1>4. CASE /\ disk' = Put(disk, name, <<>>)
           /\ \E h \in NewHandles : slot_new(h, File(name, 0, "append"))
  <2>1. PICK h \in NewHandles : slot_new(h, File(name, 0, "append"))
    BY <1>4
  <2>2. /\ GemDiskOK(disk') /\ name \in DOMAIN disk' /\ Len(disk'[name]) = 0
        /\ disk' = Seam!Put(disk, name, <<>>)
        /\ \A n \in DOMAIN disk : n \in DOMAIN disk' /\ (n # name => disk'[n] = disk[n])
    BY <1>1, <1>4, GemEmptied
  <2>3. HandlesKept(name, "append")
    BY <1>1, <2>2 DEF GInv, HandlesOK, GoodHandle, HandlesKept, NotOpen
  <2>4. 0 \in 0 .. Len(disk'[name])
    BY <2>2
  <2>5. GInv' /\ (Seam!Opens(name, 0, "append") \/ NotOpened)
    BY <2>1, <2>2, <2>3, <2>4, <1>2, SlotNewStep
  <2> QED BY <2>2, <2>5, <1>2 DEF Seam!Open, Seam!OpenAppend, Seam!OpenFails, NotOpened
<1> QED BY <1>3, <1>4 DEF OpenAppend

(* A call that changes nothing.                                            *)
LEMMA GemNothing ==
  ASSUME GInv, target' = target, slot' = slot, gemdos' = gemdos, disk' = disk,
         GemAnswersOK'
  PROVE  GInv' /\ LinkedOpened' = LinkedOpened
<1>1. IInv' /\ IsGem'
  BY SameHandles, GemStays DEF GInv
<1>2. Opened' = Opened
  BY DEF Opened, Used
<1>3. LinkedOpened' = Opened' /\ LinkedOpened = Opened
  BY GemStays, GemQuirks DEF GInv
<1> QED BY <1>1, <1>2, <1>3 DEF GInv

(* An open that is refused is the seam's.                                  *)
LEMMA GemRefusedStep ==
  ASSUME GInv, target' = target, NEW name, OpenRefused
  PROVE  GInv' /\ Seam!Open(name, "read")
<1>1. Seam!Fails /\ GemAnswersOK' /\ disk' = disk
  BY GemFails DEF OpenRefused, GInv
<1>2. GInv' /\ LinkedOpened' = LinkedOpened
  BY <1>1, GemNothing DEF OpenRefused
<1> QED BY <1>1, <1>2 DEF Seam!Open, Seam!OpenFails

(* A read is the seam's.                                                   *)
LEMMA GemReadStep ==
  ASSUME GInv, target' = target, NEW i \in Used, NEW cap \in 0 .. MaxOut, Read(i, cap)
  PROVE  GInv' /\ Seam!Read(i, cap)
<1> DEFINE h == slot_h(i)
           f == gemdos[h]
           size == Len(disk[f.name])
           n == F!AtMost(cap, size - f.pos)
<1>1. /\ disk[f.name] \in Seq(Bytes) /\ size \in 0 .. MaxSize /\ f.pos \in 0 .. size
      /\ LinkedOpened[i].name = f.name /\ LinkedOpened[i].pos = f.pos
  BY GemFacts
<1>2. MaxSize \in Nat /\ MaxOut \in Nat /\ cap \in Nat /\ size \in Nat /\ f.pos \in Nat
  BY <1>1, SlotsAssumption
<1>3. n = Seam!Rest(LinkedOpened[i], cap)
  <2>1. Seam!AtLeast(0, size - f.pos) = size - f.pos
    BY <1>1, <1>2 DEF Seam!AtLeast
  <2> QED BY <2>1, <1>1 DEF Seam!Rest, Seam!AtMost, F!AtMost
<1>4. n \in 0 .. cap /\ f.pos + n \in 0 .. size /\ n \in 0 .. n
  <2> DEFINE pos == f.pos
             left == size - pos
  <2>1. left \in Nat /\ pos \in Nat /\ cap \in Nat /\ left + pos = size /\ size \in Nat
    BY <1>1, <1>2
  <2>2. (n = cap \/ n = left) /\ n <= cap /\ n <= left
    BY <2>1 DEF F!AtMost
  <2> HIDE DEF left, pos, n, size
  <2>3. n \in 0 .. cap /\ pos + n \in 0 .. size /\ n \in 0 .. n
    BY <2>1, <2>2
  <2> QED BY <2>3 DEF pos
<1> HIDE DEF n
<1>5. CASE /\ gemdos' = MovedTo(h, f.pos + n)
           /\ got' = SubSeq(disk[f.name], f.pos + 1, f.pos + n)
           /\ status' = "OK" /\ told' = n /\ asked' = cap
           /\ slot' = slot /\ disk' = disk
  <2>1. got' \in UpTo(MaxOut)
    <3>1. n \in Nat /\ n <= MaxOut /\ f.pos + n <= size
      BY <1>2, <1>4
    <3>2. SubSeq(disk[f.name], f.pos + 1, f.pos + n) \in UpTo(MaxOut)
      BY <3>1, <1>1, <1>2, Slice
    <3> QED BY <3>2, <1>5
  <2>2. GemAnswersOK'
    BY <2>1, <1>2, <1>4, <1>5 DEF GemAnswersOK
  <2>3. GInv' /\ Seam!MovesTo(i, f.pos + n)
    BY <2>2, <1>4, <1>5, GemSought
  <2>4. LinkedQuirks' = LinkedQuirks
    BY GemStays DEF GInv
  <2> QED BY <2>3, <2>4, <1>1, <1>3, <1>4, <1>5 DEF Seam!Read
<1>6. CASE Fails /\ slot' = slot /\ gemdos' = gemdos /\ disk' = disk
  <2>1. Seam!Fails /\ GemAnswersOK'
    BY <1>6, GemFails DEF GInv
  <2>2. GInv'
    BY <2>1, <1>6, GemNothing
  <2>3. /\ slot' = slot /\ gemdos' = gemdos
        /\ LinkedOpened' = LinkedOpened
    BY <2>1, <1>6, GemNothing
  <2>4. Seam!MovesTo(i, f.pos + 0)
    <3>1. /\ i \in DOMAIN LinkedOpened
          /\ LinkedOpened[i] = [name |-> f.name, pos |-> f.pos, mode |-> f.mode, old |-> 0]
      BY GemFacts
    <3>2. LinkedOpened = [j \in DOMAIN LinkedOpened |-> LinkedOpened[j]]
      BY GemQuirks DEF GInv, Opened
    <3>3. [LinkedOpened[i] EXCEPT !.pos = f.pos + 0] = LinkedOpened[i]
      BY <3>1, <1>2
    <3> QED BY <3>1, <3>2, <3>3, <2>3 DEF Seam!MovesTo
  <2>5. 0 \in 0 .. Seam!Rest(LinkedOpened[i], cap)
    BY <1>3, <1>4
  <2> QED BY <2>1, <2>2, <2>4, <2>5, <1>1, <1>6 DEF Seam!Read
<1> QED BY <1>5, <1>6 DEF Read, n

(* A step to where the file is already is none.                            *)
LEMMA GemStaysPut ==
  ASSUME GInv, NEW i \in Used, NEW pos, pos = gemdos[slot_h(i)].pos, Seam!MovesTo(i, pos)
  PROVE  LinkedOpened' = LinkedOpened
<1> DEFINE f == gemdos[slot_h(i)]
<1>1. /\ i \in DOMAIN LinkedOpened
      /\ LinkedOpened[i] = [name |-> f.name, pos |-> f.pos, mode |-> f.mode, old |-> 0]
  BY GemFacts
<1>2. LinkedOpened = [j \in DOMAIN LinkedOpened |-> LinkedOpened[j]]
  BY GemQuirks DEF GInv, Opened
<1>3. [LinkedOpened[i] EXCEPT !.pos = pos] = LinkedOpened[i]
  BY <1>1
<1> QED BY <1>1, <1>2, <1>3 DEF Seam!MovesTo

(* GEMDOS writes over what is there and makes no gaps.                     *)
LEMMA NoGap ==
  ASSUME NEW s \in Seq(Bytes), NEW at \in 0 .. Len(s)
  PROVE  \E gap \in Seam!Gaps(s, at) : gap = <<>> /\ s \o gap = s
<1> DEFINE e == <<>>
<1>1. Len(s) \in Nat /\ e \in Seq(Bytes) /\ Len(e) = 0
  BY LenProperties, EmptySeq
<1>2. s \o e = s
  BY ConcatEmptySeq
<1> HIDE DEF e
<1>3. Seam!AtLeast(0, at - Len(s)) = 0
  BY <1>1 DEF Seam!AtLeast
<1>4. e \in [1 .. Len(e) -> Bytes]
  BY <1>1, LenProperties
<1>5. e \in Seam!Gaps(s, at)
  BY <1>1, <1>3, <1>4 DEF Seam!Gaps
<1> QED BY <1>2, <1>5 DEF e

(* A write is the seam's, GEMDOS taking all of it or only some.            *)
LEMMA GemWriteStep ==
  ASSUME GInv, target' = target, NEW i \in Used, NEW data \in UpTo(MaxOut), Write(i, data)
  PROVE  GInv' /\ Seam!Write(i, data)
<1> DEFINE h == slot_h(i)
           f == gemdos[h]
           was == disk[f.name]
<1>1. /\ f.name \in DOMAIN disk /\ was \in Seq(Bytes) /\ was \in UpTo(MaxSize)
      /\ Len(was) \in 0 .. MaxSize /\ f.pos \in 0 .. Len(was)
      /\ LinkedOpened[i].name = f.name /\ LinkedOpened[i].pos = f.pos
      /\ LinkedOpened[i].mode = f.mode
  BY GemFacts
<1>2. data \in Seq(Bytes) /\ Len(data) \in 0 .. MaxOut /\ (data = <<>> <=> Len(data) = 0)
  <2>1. data \in Seq(Bytes) /\ Len(data) <= MaxOut
    BY UpToIs, SlotsAssumption
  <2> QED BY <2>1, LenProperties, EmptySeq, SlotsAssumption
<1>3. slot' = slot /\ IsGem /\ ~ Seam!May("ends")
  BY GemQuirks DEF Write, GInv
<1>4. CASE data = <<>> /\ OK(0) /\ gemdos' = gemdos /\ disk' = disk
  <2>1. Seam!Done(0) /\ GemAnswersOK'
    BY <1>3, <1>4, GemDone
  <2>2. GInv' /\ LinkedOpened' = LinkedOpened
    BY <2>1, <1>3, <1>4, GemNothing
  <2>3. Seam!Says("OK", 0) /\ asked' = 0 /\ 0 = Len(data)
    BY <2>1, <1>2, <1>4 DEF Seam!Done
  <2> QED BY <2>2, <2>3, <1>4 DEF Seam!Write
<1>5. CASE data # <<>> /\ Fails /\ gemdos' = gemdos /\ disk' = disk
  <2>1. Seam!Fails /\ GemAnswersOK'
    BY <1>3, <1>5, GemFails
  <2>2. GInv' /\ LinkedOpened' = LinkedOpened
    BY <2>1, <1>3, <1>5, GemNothing
  <2>3. 0 # Len(data)
    BY <1>2, <1>5
  <2> QED BY <2>1, <2>2, <2>3, <1>5 DEF Seam!Write
<1>6. ASSUME NEW n \in 1 .. Len(data), f.mode # "read", f.pos + n <= MaxSize,
             disk' = Put(disk, f.name, F!Overwrite(was, f.pos, SubSeq(data, 1, n))),
             gemdos' = MovedTo(h, f.pos + n),
             IF n = Len(data) THEN Returns("OK", 0, n) ELSE Fails
      PROVE  GInv' /\ Seam!Write(i, data)
  <2>1. PICK gap \in Seam!Gaps(was, f.pos) : gap = <<>> /\ was \o gap = was
    BY <1>1, NoGap
  <2> DEFINE s == Seam!Overwrite(was \o gap, f.pos, SubSeq(data, 1, n))
  <2>2. f.pos \in Nat /\ n \in 0 .. Len(data) /\ n \in Nat /\ Len(was) \in Nat
    BY <1>1, <1>2, SlotsAssumption
  <2>3. s \in Seq(Bytes) /\ Len(s) = Longer(Len(was), f.pos + n)
    BY <2>2, <1>1, <1>2, Put1
  <2>4. s = F!Overwrite(was, f.pos, SubSeq(data, 1, n))
    BY <2>1 DEF F!Overwrite, Seam!Overwrite
  <2> HIDE DEF s
  <2>5. Len(was) <= Len(s) /\ f.pos + n <= Len(s) /\ Len(s) <= MaxSize
    BY <2>2, <2>3, <1>1, <1>6, SlotsAssumption DEF Longer
  <2>6. s \in UpTo(MaxSize)
    BY <2>3, <2>5, UpToIs, SlotsAssumption
  <2>7. disk' = [disk EXCEPT ![f.name] = s]
    <3>1. disk = [k \in DOMAIN disk |-> disk[k]]
      BY GemFacts
    <3> QED BY <3>1, <2>4, <1>1, <1>6 DEF Put, F!Put
  <2>8. /\ GemAnswersOK'
        /\ IF n = Len(data) THEN Seam!Says("OK", 0) /\ asked' = n ELSE Seam!Fails
    <3>1. CASE n = Len(data)
      <4>1. Returns("OK", 0, n) /\ <<>> \in UpTo(MaxOut)
        BY <3>1, <1>6, EmptyUpTo, SlotsAssumption
      <4> QED BY <3>1, <4>1, <2>2, <1>3, GemStays DEF Returns, Seam!Says, GemAnswersOK
    <3>2. CASE n # Len(data)
      BY <3>2, <1>3, <1>6, GemFails
    <3> QED BY <3>1, <3>2
  <2>9. f.pos + n \in 0 .. Len(s)
    <3>1. Len(s) \in Nat
      BY <2>3, LenProperties
    <3> QED BY <3>1, <2>2, <2>5
  <2>10. GInv'
    BY <2>5, <2>6, <2>7, <2>8, <2>9, <1>3, <1>6, GemMovedOK
  <2>11. Seam!MovesTo(i, f.pos + n)
    BY <1>3, <1>6, GemMoves
  <2>12. disk' = [disk EXCEPT ![f.name] =
                    Seam!Overwrite(disk[f.name] \o gap, f.pos, SubSeq(data, 1, n))]
    BY <2>7 DEF s
  <2>13. Seam!Write(i, data)
    BY <2>8, <2>11, <2>12, <1>1, <1>3, <1>6 DEF Seam!Write
  <2> QED BY <2>10, <2>13
<1> QED BY <1>4, <1>5, <1>6 DEF Write

(* A seek is the seam's.                                                   *)
LEMMA GemSeekStep ==
  ASSUME GInv, target' = target, NEW i \in Used, NEW offset \in Offsets,
         NEW whence \in Seam!Whences, Seek(i, offset, whence)
  PROVE  GInv' /\ Seam!Seek(i, offset, whence)
<1> DEFINE h == slot_h(i)
           f == gemdos[h]
           size == Len(disk[f.name])
           to == Seam!Target(LinkedOpened[i], offset, whence)
<1>1. /\ size \in 0 .. MaxSize /\ f.pos \in 0 .. size
      /\ LinkedOpened[i].name = f.name /\ LinkedOpened[i].pos = f.pos
      /\ LinkedOpened = Opened /\ IsGem
  BY GemFacts, GemQuirks DEF GInv
<1>2. F!Target(Opened[i], offset, whence) = to
  BY <1>1 DEF F!Target, Seam!Target
<1>3. to \in Int
  <2>1. offset \in Int /\ f.pos \in Int /\ size \in Int
    BY <1>1, SlotsAssumption
  <2>2. LinkedOpened[i].pos = f.pos /\ Len(disk[LinkedOpened[i].name]) = size
    BY <1>1
  <2> HIDE DEF f, size
  <2>3. CASE whence = "SET"
    BY <2>1, <2>3 DEF Seam!Target
  <2>4. CASE whence = "CUR"
    BY <2>1, <2>2, <2>4 DEF Seam!Target
  <2>5. CASE whence = "END"
    BY <2>1, <2>2, <2>5 DEF Seam!Target
  <2> QED BY <2>3, <2>4, <2>5 DEF Seam!Whences
<1>4. SeekTo(f, offset, whence) = IF to \in 0 .. size THEN to ELSE -1
  BY <1>1 DEF SeekTo, Seam!Target
<1> HIDE DEF to
<1>5. CASE /\ SeekTo(f, offset, whence) >= 0
           /\ gemdos' = MovedTo(h, SeekTo(f, offset, whence))
           /\ Returns("OK", 0, F!Target(Opened[i], offset, whence))
           /\ slot' = slot /\ disk' = disk
  <2>1. to \in 0 .. size /\ SeekTo(f, offset, whence) = to
    BY <1>3, <1>4, <1>5
  <2>2. to \in Nat /\ to >= 0 /\ to <= size
    BY <2>1, <1>1
  <2>3. /\ GemAnswersOK' /\ Seam!Says("OK", 0) /\ asked' = to
    <3>1. <<>> \in UpTo(MaxOut)
      BY EmptyUpTo, SlotsAssumption
    <3> QED BY <3>1, <2>2, <1>1, <1>2, <1>5, GemStays DEF Returns, Seam!Says, GemAnswersOK
  <2>4. GInv' /\ Seam!MovesTo(i, to)
    BY <2>1, <2>3, <1>5, GemSought
  <2> QED BY <2>2, <2>3, <2>4, <1>1, <1>5 DEF Seam!Seek, to
<1>6. CASE Fails /\ gemdos' = gemdos /\ slot' = slot /\ disk' = disk
  <2>1. Seam!Fails /\ GemAnswersOK'
    BY <1>1, <1>6, GemFails
  <2>2. GInv' /\ LinkedOpened' = LinkedOpened
    BY <2>1, <1>6, GemNothing
  <2> QED BY <2>1, <2>2, <1>6 DEF Seam!Seek
<1> QED BY <1>5, <1>6 DEF Seek

(* Where a seek goes.                                                      *)
LEMMA SeekToIs ==
  ASSUME NEW f, Len(disk[f.name]) \in Nat, f.pos \in 0 .. Len(disk[f.name])
  PROVE  /\ SeekTo(f, 0, "CUR") = f.pos
         /\ SeekTo(f, 0, "END") = Len(disk[f.name])
         /\ \A cur \in 0 .. Len(disk[f.name]) : SeekTo(f, cur, "SET") = cur
BY DEF SeekTo

(* Tell is the seam's.                                                     *)
LEMMA GemTellStep ==
  ASSUME GInv, target' = target, NEW i \in Used, Tell(i)
  PROVE  GInv' /\ Seam!Tell(i)
<1> DEFINE f == gemdos[slot_h(i)]
<1>1. /\ Len(disk[f.name]) \in Nat /\ f.pos \in 0 .. Len(disk[f.name]) /\ f.pos \in Nat
      /\ LinkedOpened[i].pos = f.pos /\ IsGem
  BY GemFacts, SlotsAssumption DEF GInv
<1>2. SeekTo(f, 0, "CUR") = f.pos
  BY <1>1, SeekToIs
<1>3. GemAnswersOK' /\ (Seam!Done(f.pos) \/ Seam!Fails)
  BY <1>1, <1>2, GemDone, GemFails DEF Tell
<1>4. GInv' /\ LinkedOpened' = LinkedOpened /\ disk' = disk
  BY <1>3, GemNothing DEF Tell
<1> QED BY <1>1, <1>3, <1>4 DEF Seam!Tell

(* Size, by seeking to the end and back, is the seam's.                    *)
LEMMA GemSizeStep ==
  ASSUME GInv, target' = target, NEW i \in Used, Size(i)
  PROVE  GInv' /\ Seam!Size(i)
<1> DEFINE h == slot_h(i)
           f == gemdos[h]
           size == Len(disk[f.name])
<1>1. /\ size \in Nat /\ f.pos \in 0 .. size /\ f.pos \in Nat /\ f \in GemFile
      /\ LinkedOpened[i].name = f.name /\ IsGem /\ size \in 0 .. size
  <2>1. /\ size \in Nat /\ f.pos \in 0 .. size /\ f.pos \in Nat /\ f \in GemFile
        /\ LinkedOpened[i].name = f.name
    BY GemFacts
  <2> QED BY <2>1 DEF GInv
<1>2. SeekTo(f, 0, "CUR") = f.pos /\ SeekTo(f, 0, "END") = size
  BY <1>1, SeekToIs
<1>3. SeekBack(h, f.pos, size) = MovedTo(h, f.pos)
  <2> DEFINE g == [f EXCEPT !.pos = size]
  <2>1. g.name = f.name /\ g.pos = size
    BY <1>1 DEF GemFile
  <2> HIDE DEF g
  <2>2. SeekTo(g, f.pos, "SET") = f.pos
    BY <2>1, <1>1, SeekToIs
  <2> QED BY <2>2 DEF SeekBack, g
<1>4. CASE gemdos' = MovedTo(h, f.pos) /\ OK(size) /\ slot' = slot /\ disk' = disk
  <2>1. Seam!Done(size) /\ GemAnswersOK'
    BY <1>1, <1>4, GemDone
  <2>2. GInv' /\ Seam!MovesTo(i, f.pos)
    BY <2>1, <1>1, <1>4, GemSought
  <2>3. LinkedOpened' = LinkedOpened
    BY <2>2, GemStaysPut
  <2> QED BY <2>1, <2>2, <2>3, <1>1, <1>4 DEF Seam!Size
<1>5. CASE Fails /\ gemdos' = gemdos /\ slot' = slot /\ disk' = disk
  <2>1. Seam!Fails /\ GemAnswersOK'
    BY <1>1, <1>5, GemFails
  <2>2. GInv' /\ LinkedOpened' = LinkedOpened
    BY <2>1, <1>5, GemNothing
  <2> QED BY <2>1, <2>2, <1>5 DEF Seam!Size
<1>6. CASE Fails /\ gemdos' = MovedTo(h, size) /\ slot' = slot /\ disk' = disk
  <2>1. Seam!Fails /\ GemAnswersOK'
    BY <1>1, <1>6, GemFails
  <2>2. GInv' /\ Seam!MovesTo(i, size)
    BY <2>1, <1>1, <1>6, GemSought
  <2>3. Seam!May("drifts")
    BY <1>1, GemQuirks
  <2> QED BY <2>1, <2>2, <2>3, <1>1, <1>6 DEF Seam!Size
<1> QED BY <1>2, <1>3, <1>4, <1>5, <1>6 DEF Size

(* Close is the seam's.                                                    *)
LEMMA GemCloseStep ==
  ASSUME GInv, target' = target, NEW i \in Used, Close(i)
  PROVE  GInv' /\ Seam!Close(i)
<1> DEFINE h == slot_h(i)
<1>1. /\ i \in Slots /\ h \in DOMAIN gemdos /\ IsGem /\ DOMAIN slot = Slots
      /\ LinkedOpened = Opened /\ Used \subseteq Slots
  BY GemFacts, GemQuirks DEF GInv, IInv, TableOK, Used
<1>2. /\ gemdos' = Drop(gemdos, h) /\ slot' = [slot EXCEPT ![i].used = FALSE]
      /\ disk' = disk /\ status' = status /\ got' = got /\ told' = told /\ asked' = asked
  BY DEF Close
<1>3. /\ DOMAIN gemdos' = DOMAIN gemdos \ {h}
      /\ \A k \in DOMAIN gemdos \ {h} : gemdos'[k] = gemdos[k]
  BY <1>2 DEF Drop, F!Drop
<1>4. IInv' /\ IsGem' /\ LinkedQuirks' = LinkedQuirks /\ LinkedOpened' = Opened'
  BY CloseKeeps, GemStays DEF GInv
<1>5. HandlesOK(gemdos', disk')
  BY <1>2, <1>3 DEF GInv, HandlesOK
<1>6. GInv'
  BY <1>2, <1>4, <1>5 DEF GInv, GemAnswersOK
<1>7. Used' = Used \ {i} /\ \A j \in Used \ {i} : slot'[j].h = slot[j].h
  BY <1>1, <1>2 DEF Used, GInv, IInv, TableOK
<1>8. \A j \in Used \ {i} : slot[j].h \in DOMAIN gemdos \ {h}
  BY DEF GInv, IInv, SlotsHoldHandles, slot_h
<1>9. Opened' = Seam!Drop(Opened, i)
  <2> DEFINE v == Seam!Drop(Opened, i)
  <2>1. /\ Opened' = [j \in Used \ {i} |-> Opened'[j]] /\ v = [j \in Used \ {i} |-> v[j]]
    BY <1>7 DEF Opened, Seam!Drop
  <2>2. ASSUME NEW j \in Used \ {i} PROVE Opened'[j] = v[j]
    <3>1. gemdos'[slot'[j].h] = gemdos[slot[j].h]
      BY <1>3, <1>7, <1>8
    <3>2. Opened'[j] = [name |-> gemdos'[slot'[j].h].name, pos |-> gemdos'[slot'[j].h].pos,
                        mode |-> gemdos'[slot'[j].h].mode, old |-> 0]
      BY <1>7 DEF Opened
    <3>3. v[j] = [name |-> gemdos[slot[j].h].name, pos |-> gemdos[slot[j].h].pos,
                  mode |-> gemdos[slot[j].h].mode, old |-> 0]
      BY DEF Opened, Seam!Drop
    <3> QED BY <3>1, <3>2, <3>3
  <2> HIDE DEF v
  <2> QED BY <2>1, <2>2 DEF v
<1> QED BY <1>1, <1>2, <1>4, <1>6, <1>9 DEF Seam!Close

(* Delete and exists are the seam's.                                       *)
LEMMA GemDeleteStep ==
  ASSUME GInv, target' = target, NEW name \in Names, Delete(name)
  PROVE  GInv' /\ Seam!Delete(name)
<1>1. /\ NotOpen(name) /\ slot' = slot /\ gemdos' = gemdos
      /\ GemDiskOK(disk) /\ HandlesOK(gemdos, disk) /\ IsGem
  BY DEF Delete, GInv
<1>2. CASE name \in DOMAIN disk /\ disk' = Drop(disk, name) /\ OK(0)
  <2>1. Seam!Done(0) /\ GemAnswersOK'
    BY <1>1, <1>2, GemDone
  <2>2. /\ DOMAIN disk' = DOMAIN disk \ {name} /\ disk' = Seam!Drop(disk, name)
        /\ \A n \in DOMAIN disk \ {name} : disk'[n] = disk[n]
        /\ disk' = [n \in DOMAIN disk' |-> disk'[n]]
    BY <1>2 DEF Drop, F!Drop, Seam!Drop
  <2>3. GemDiskOK(disk')
    <3>1. \A n \in DOMAIN disk' : disk'[n] \in UpTo(MaxSize)
      BY <2>2, <1>1 DEF GemDiskOK
    <3> QED BY <3>1, <2>2, <1>1 DEF GemDiskOK
  <2>4. \A h \in DOMAIN gemdos : GoodHandle(gemdos[h], disk')
    BY <2>2, <1>1 DEF HandlesOK, GoodHandle, NotOpen
  <2>5. HandlesOK(gemdos', disk')
    BY <2>4, <1>1 DEF HandlesOK
  <2>6. IInv' /\ IsGem' /\ LinkedOpened' = Opened' /\ LinkedOpened = Opened
    BY <1>1, SameHandles, GemStays, GemQuirks DEF GInv
  <2>7. Opened' = Opened
    BY <1>1 DEF Opened, Used
  <2> QED BY <2>1, <2>2, <2>3, <2>5, <2>6, <2>7, <1>2 DEF GInv, Seam!Delete
<1>3. CASE Fails /\ disk' = disk
  <2>1. Seam!Fails /\ GemAnswersOK'
    BY <1>1, <1>3, GemFails
  <2>2. GInv' /\ LinkedOpened' = LinkedOpened
    BY <2>1, <1>1, <1>3, GemNothing
  <2> QED BY <2>1, <2>2, <1>3 DEF Seam!Delete
<1> QED BY <1>2, <1>3 DEF Delete

(* Whether a file exists.                                                  *)
LEMMA GemExistsStep ==
  ASSUME GInv, target' = target, NEW name \in Names, Exists(name)
  PROVE  GInv' /\ Seam!Exists(name)
<1>1. PICK n \in {0, 1} : OK(n) /\ (n = 1 => name \in DOMAIN disk)
  BY DEF Exists
<1>2. Seam!Done(n) /\ GemAnswersOK'
  BY <1>1, GemDone DEF GInv
<1>3. GInv' /\ LinkedOpened' = LinkedOpened /\ disk' = disk
  BY <1>2, GemNothing DEF Exists
<1>4. n \in IF name \in DOMAIN disk THEN {0, 1} ELSE {0}
  BY <1>1
<1> QED BY <1>2, <1>3, <1>4 DEF Seam!Exists

(* A step of file_gem4xe.c is one of the seam's.                           *)
LEMMA GemStep ==
  ASSUME GInv, target' = target, Next
  PROVE  GInv' /\ Seam!Next
<1>1. "read" \in Seam!Modes /\ "write" \in Seam!Modes /\ "append" \in Seam!Modes
  BY DEF Seam!Modes
<1>2. ASSUME NEW name \in Names, NEW mode \in Seam!Modes, Seam!Open(name, mode)
      PROVE  Seam!Next
  BY <1>2 DEF Seam!Next
<1>3. ASSUME NEW name \in Names, Seam!Delete(name) \/ Seam!Exists(name)
      PROVE  Seam!Next
  BY <1>3 DEF Seam!Next
<1>4. DOMAIN LinkedOpened = Used
  BY GemQuirks DEF GInv, Opened
<1>5. ASSUME NEW name \in Names,
             \/ OpenRead(name) \/ OpenWrite(name) \/ OpenAppend(name)
             \/ OpenRefused \/ Delete(name) \/ Exists(name)
      PROVE  GInv' /\ Seam!Next
  <2>1. \/ GInv' /\ Seam!Open(name, "read")
        \/ GInv' /\ Seam!Open(name, "write")
        \/ GInv' /\ Seam!Open(name, "append")
        \/ GInv' /\ (Seam!Delete(name) \/ Seam!Exists(name))
    BY <1>5, GemRefusedStep, GemOpenReadStep, GemOpenWriteStep, GemOpenAppendStep,
       GemDeleteStep, GemExistsStep
  <2> QED BY <2>1, <1>1, <1>2, <1>3
<1>6. ASSUME NEW i \in Used, NEW cap \in 0 .. MaxOut, Read(i, cap)
      PROVE  GInv' /\ Seam!Next
  <2>1. GInv' /\ Seam!Read(i, cap)
    BY <1>6, GemReadStep
  <2>2. cap \in 0 .. Top
    BY TopIs, SlotsAssumption
  <2> QED BY <2>1, <2>2, <1>4 DEF Seam!Next, Top
<1>7. ASSUME NEW i \in Used, NEW data \in F!SeqsUpTo(Bytes, MaxOut), Write(i, data)
      PROVE  GInv' /\ Seam!Next
  <2>1. data \in UpTo(MaxOut)
    BY DEF UpTo, Seam!SeqsUpTo, F!SeqsUpTo
  <2>2. GInv' /\ Seam!Write(i, data)
    BY <2>1, <1>7, GemWriteStep
  <2>3. data \in UpTo(Top)
    <3>1. data \in Seq(Bytes) /\ Len(data) <= MaxOut
      BY <2>1, UpToIs, SlotsAssumption
    <3>2. Len(data) <= Top
      BY <3>1, TopIs, LenProperties, SlotsAssumption
    <3> QED BY <3>1, <3>2, TopIs, UpToIs
  <2>4. data \in Seam!SeqsUpTo(Bytes, F!AtLeast(MaxOut, PlainMaxOut))
    BY <2>3 DEF UpTo, Top
  <2> QED BY <2>2, <2>4, <1>4 DEF Seam!Next
<1>8. ASSUME NEW i \in Used, NEW offset \in Offsets, NEW whence \in F!Whences,
             Seek(i, offset, whence)
      PROVE  GInv' /\ Seam!Next
  <2>1. whence \in Seam!Whences
    BY DEF Seam!Whences, F!Whences
  <2>2. GInv' /\ Seam!Seek(i, offset, whence)
    BY <2>1, <1>8, GemSeekStep
  <2> QED BY <2>1, <2>2, <1>4 DEF Seam!Next
<1>9. ASSUME NEW i \in Used, Tell(i) \/ Size(i) \/ Close(i)
      PROVE  GInv' /\ Seam!Next
  <2>1. GInv' /\ (Seam!Tell(i) \/ Seam!Size(i) \/ Seam!Close(i))
    BY <1>9, GemTellStep, GemSizeStep, GemCloseStep
  <2> QED BY <2>1, <1>4 DEF Seam!Next
<1> QED BY <1>5, <1>6, <1>7, <1>8, <1>9 DEF Next

(* file_gem4xe.c starts in order and as the seam does.                     *)
LEMMA GemInit ==
  ASSUME IsGem, Init
  PROVE  GInv /\ Seam!Init
<1>1. /\ gemdos = <<>> /\ disk \in [Names -> {<<>>}] \cup {<<>>}
      /\ status = "none" /\ got = <<>> /\ told = 0 /\ asked = 0
      /\ slot = [i \in Slots |-> [used |-> FALSE, h |-> 0]]
  BY DEF Init
<1>2. /\ \E some \in SUBSET Names : disk = [name \in some |-> <<>>]
      /\ GemDiskOK(disk)
  BY <1>1, FirstDisk DEF GemDiskOK
<1>3. DOMAIN gemdos = {} /\ HandlesOK(gemdos, disk)
  BY <1>1, NothingOpen DEF HandlesOK
<1>4. Used = {}
  BY <1>1 DEF Used
<1>5. LinkedOpened = <<>>
  <2>1. Opened = [i \in DOMAIN Opened |-> Opened[i]] /\ DOMAIN Opened = {}
    BY <1>4 DEF Opened
  <2>2. Opened = <<>>
    BY <2>1, EmptyFunction
  <2> QED BY <2>2, GemQuirks
<1>6. GemAnswersOK
  BY <1>1, EmptyUpTo, SlotsAssumption DEF GemAnswersOK
<1>7. IInv
  BY InitIInv
<1>8. \E some \in SUBSET (Names \cup PlainNames) : disk = [name \in some |-> <<>>]
  BY <1>2
<1> QED BY <1>1, <1>2, <1>3, <1>5, <1>6, <1>7, <1>8 DEF GInv, Seam!Init

(* The type invariant of file_gem4xe.c is part of it.                      *)
LEMMA GemTyped ==
  ASSUME GInv
  PROVE  TypeOK
<1>1. UpTo(MaxSize) = F!SeqsUpTo(Bytes, MaxSize) /\ UpTo(MaxOut) = F!SeqsUpTo(Bytes, MaxOut)
  BY DEF UpTo, Seam!SeqsUpTo, F!SeqsUpTo
<1>2. GemFile = OpenFile
  BY DEF GemFile, OpenFile, Seam!Modes, F!Modes
<1>3. \A h \in DOMAIN gemdos : gemdos[h] \in OpenFile
  BY <1>2 DEF GInv, HandlesOK, GoodHandle
<1> QED BY <1>1, <1>3 DEF GInv, GemDiskOK, GemAnswersOK, IInv, TableOK, TypeOK, Status

------------------------------------------------------------------------------
(* Whichever backend is linked in.                                         *)

(* The inductive invariant, the one of the backend that is linked in.      *)
AnyInv == GInv \/ PInv

(* The initial states.                                                     *)
LEMMA AnyInitOK == AnyInit => AnyInv /\ Seam!Init
  BY GemInit, PlainInit DEF AnyInit, AnyInv

(* Every step keeps it and is a step of the seam, or none.                 *)
LEMMA AnyStepOK ==
  AnyInv /\ [AnyNext]_<<vars, target, open>> => AnyInv' /\ [Seam!Next]_(Seam!vars)
<1> SUFFICES ASSUME AnyInv, [AnyNext]_<<vars, target, open>>
             PROVE  AnyInv' /\ [Seam!Next]_(Seam!vars)
  OBVIOUS
<1>1. ASSUME GInv, PInv PROVE FALSE
  BY <1>1, PlainQuirks DEF GInv, PInv
<1>2. CASE IsGem /\ Next /\ UNCHANGED <<target, open>>
  <2>1. GInv
    BY <1>2, PlainQuirks DEF AnyInv, PInv
  <2>2. GInv' /\ Seam!Next
    BY <2>1, <1>2, GemStep
  <2> QED BY <2>2 DEF AnyInv
<1>3. CASE ~ IsGem /\ P!Next /\ UNCHANGED <<slot, gemdos>>
  <2>1. PInv
    BY <1>3 DEF AnyInv, GInv
  <2>2. PInv' /\ Seam!Next
    BY <2>1, <1>3, PlainStep
  <2> QED BY <2>2 DEF AnyInv
<1>4. CASE UNCHANGED <<vars, target, open>>
  <2>1. /\ slot' = slot /\ gemdos' = gemdos /\ disk' = disk /\ status' = status
        /\ got' = got /\ told' = told /\ asked' = asked /\ target' = target /\ open' = open
    BY <1>4 DEF vars
  <2>2. UNCHANGED Seam!vars
    BY <2>1 DEF Seam!vars, LinkedQuirks, LinkedOpened, IsGem, Quirks, P!Quirks,
                Opened, P!Opened, Used
  <2>3. CASE GInv
    <3>1. GemAnswersOK'
      BY <2>1, <2>3 DEF GInv, GemAnswersOK
    <3> QED BY <3>1, <2>1, <2>2, <2>3, GemNothing DEF AnyInv
  <2>4. CASE PInv
    <3>1. PInv'
      BY <2>1, <2>4 DEF PInv, AnswersOK
    <3> QED BY <3>1, <2>2 DEF AnyInv
  <2> QED BY <2>3, <2>4 DEF AnyInv
<1> QED BY <1>2, <1>3, <1>4 DEF AnyNext

(* Whichever backend is linked in, its state keeps its type: slots of the  *)
(* table of file_gem4xe.c, handles of GEMDOS, FILEs and Mac references     *)
(* with a place in the file, and no file on the disk longer than it can    *)
(* be.                                                                     *)
THEOREM BackendTyped == AnySpec => []AnyTypeOK
<1>1. AnyInv => AnyTypeOK
  BY GemTyped, PlainTyped, PlainQuirks DEF AnyInv, AnyTypeOK, GInv, PInv
<1> QED BY <1>1, AnyInitOK, AnyStepOK, PTL DEF AnySpec

(* Every backend is plat_file: each call of the five of them does what the *)
(* seam promises of it, to the file its pointer stands for and to no       *)
(* other, whichever system calls fail, with the quirks of that backend and *)
(* no others.                                                              *)
THEOREM PromiseKept == AnySpec => KeepsPromise
<1> QED BY AnyInitOK, AnyStepOK, PTL DEF AnySpec, KeepsPromise, Seam!Spec

==============================================================================
