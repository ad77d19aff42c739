-------------------------------- MODULE Utf8 ---------------------------------
(***************************************************************************)
(* The byte level of a text: src/utf8.c, and the conversions of every      *)
(* backend between UTF-8 and its native characters.  A text is a sequence  *)
(* of bytes; an offset counts the bytes before it.                         *)
(***************************************************************************)
EXTENDS Integers, Sequences, FiniteSetsExt

Byte == 0..255

IsContinuation(b) == b \div 64 = 2

(* The first n bytes of s, or all of them (a length cut to a buffer).      *)
Cut(s, n) == SubSeq(s, 1, Min({n, Len(s)}))

------------------------------------------------------------------------------
(* src/utf8.c                                                              *)

SeqLen(lead) ==
  CASE lead < \h80 -> 1
    [] lead \div 32 = 6 -> 2
    [] lead \div 16 = 14 -> 3
    [] lead \div 8 = 30 -> 4
    [] OTHER -> 0

MinCp == <<0, \h80, \h800, \h10000>>
LastCp == 17 * \h10000 - 1
IsScalar(cp) == cp \in 0..LastCp /\ cp \notin \hD800..\hDFFF

(* The bits of the lead byte of a sequence of n bytes.                     *)
LeadBits(lead, n) == lead % <<\h80, \h20, \h10, \h8>>[n]

(* The number that a sequence of n bytes spells, six bits a byte.          *)
Spelt(s, n) ==
  LET Bits(i) == IF i = 1 THEN LeadBits(s[1], n) ELSE s[i] % 64
  IN  CASE n = 1 -> Bits(1)
        [] n = 2 -> Bits(1) * 64 + Bits(2)
        [] n = 3 -> (Bits(1) * 64 + Bits(2)) * 64 + Bits(3)
        [] n = 4 -> ((Bits(1) * 64 + Bits(2)) * 64 + Bits(3)) * 64 + Bits(4)

(* A mistake: the overlong forms pass.                                     *)
DecodeOverlong(s) ==
  LET n == IF s = <<>> THEN 0 ELSE SeqLen(s[1])
      cp == Spelt(s, n)
  IN  IF n \in 1..Len(s) /\ (\A i \in 2..n : IsContinuation(s[i])) /\ IsScalar(cp)
      THEN [used |-> n, cp |-> cp]
      ELSE [used |-> 0, cp |-> -1]

(* The code point at the start of s and the bytes it takes, 0 if none is.  *)
Decode(s) ==
  LET n == IF s = <<>> THEN 0 ELSE SeqLen(s[1])
      cp == Spelt(s, n)
  IN  IF /\ n \in 1..Len(s)
         /\ \A i \in 2..n : IsContinuation(s[i])
         /\ cp >= MinCp[n]
         /\ IsScalar(cp)
      THEN [used |-> n, cp |-> cp]
      ELSE [used |-> 0, cp |-> -1]

(* The bytes of a code point, none if it is not a scalar value.            *)
Encode(cp) ==
  LET Trail(shift) == \h80 + ((cp \div shift) % 64)
  IN  IF ~ IsScalar(cp) THEN <<>>
      ELSE IF cp < MinCp[2] THEN <<cp>>
      ELSE IF cp < MinCp[3] THEN <<\hC0 + (cp \div 64), Trail(1)>>
      ELSE IF cp < MinCp[4] THEN <<\hE0 + (cp \div \h1000), Trail(64), Trail(1)>>
      ELSE <<\hF0 + (cp \div (64 * \h1000)), Trail(\h1000), Trail(64), Trail(1)>>

NextOffset(s, offset) ==
  IF offset >= Len(s) THEN Len(s)
  ELSE Min({Len(s), offset + Max({1, SeqLen(s[offset + 1])})})

(* A mistake: a step back looks at three bytes and not at four.            *)
PrevOffsetOfThree(s, offset) ==
  IF offset = 0 THEN 0
  ELSE Max({start \in {0} \cup (offset - 3)..(offset - 1) :
              /\ start >= 0
              /\ start = 0 \/ offset - start = 3 \/ ~ IsContinuation(s[start + 1])})

PrevOffset(s, offset) ==
  IF offset = 0 THEN 0
  ELSE Max({start \in {0} \cup (offset - 4)..(offset - 1) :
              /\ start >= 0
              /\ \/ start = 0 \/ offset - start = 4
                 \/ ~ IsContinuation(s[start + 1])})

(* The offsets the loop of utf8_cp_count visits, each by utf8_next.        *)
CpCount(s) ==
  LET after[o \in 0..Len(s)] == IF o = Len(s) THEN 0 ELSE 1 + after[NextOffset(s, o)]
  IN  after[0]

(* The offset of the first sequence that is not valid, Len(s) if all are.  *)
Validate(s) ==
  LET from[o \in 0..Len(s)] ==
        LET d == Decode(SubSeq(s, o + 1, Len(s)))
        IN  IF d.used = 0 THEN o ELSE from[o + d.used]
  IN  from[0]

------------------------------------------------------------------------------
(* The well-formed sequences of one character: Table 3-7 of the Unicode    *)
(* standard.                                                               *)
IsChar(s) ==
  LET Trail(i) == s[i] \in \h80..\hBF
  IN  \/ Len(s) = 1 /\ s[1] <= \h7F
      \/ Len(s) = 2 /\ s[1] \in \hC2..\hDF /\ Trail(2)
      \/ /\ Len(s) = 3 /\ Trail(3)
         /\ \/ s[1] = \hE0 /\ s[2] \in \hA0..\hBF
            \/ s[1] \in \hE1..\hEF \ {\hED} /\ Trail(2)
            \/ s[1] = \hED /\ s[2] \in \h80..\h9F
      \/ /\ Len(s) = 4 /\ Trail(3) /\ Trail(4)
         /\ \/ s[1] = \hF0 /\ s[2] \in \h90..\hBF
            \/ s[1] \in \hF1..\hF3 /\ Trail(2)
            \/ s[1] = \hF4 /\ s[2] \in \h80..\h8F

(* The offsets at which a character of a well-formed text starts or the    *)
(* last one ends; no other text has Len(text) among them.                  *)
Boundaries(s) ==
  LET on[o \in 0..Len(s)] ==
        o = 0 \/ \E n \in 1..4 : n <= o /\ on[o - n] /\ IsChar(SubSeq(s, o - n + 1, o))
  IN  {o \in 0..Len(s) : on[o]}
WellFormed(s) == Len(s) \in Boundaries(s)

------------------------------------------------------------------------------
(* The conversions.  Each backend decodes the text code point by code      *)
(* point, a byte that starts none counting as one of its own (Clusters);   *)
(* what has no native character becomes a "?".                             *)

Fallback == \h3F

(* The code points of s, -1 for a byte that could not be decoded.          *)
Clusters(s) ==
  LET from[o \in 0..Len(s)] ==
        LET d == Decode(SubSeq(s, o + 1, Len(s)))
        IN  IF o = Len(s) THEN <<>> ELSE <<d.cp>> \o from[o + Max({1, d.used})]
  IN  from[0]

(* A mistake: the buffer is measured in characters of the text.            *)
ToBytesUncut(limit, s, cap) ==
  LET cps == Clusters(s)
  IN  [i \in 1..Len(cps) |-> IF cps[i] \in 0..limit THEN cps[i] ELSE Fallback]

(* plat_utf8_to_native of the Atari, the Mac and DOS: ASCII (limit 7F), of *)
(* the Amiga: Latin-1 (limit FF).                                          *)
ToBytes(limit, s, cap) ==
  LET cps == Cut(Clusters(s), cap)
  IN  [i \in 1..Len(cps) |-> IF cps[i] \in 0..limit THEN cps[i] ELSE Fallback]

Unmapped(limit, s, cap) ==
  LET cps == Cut(Clusters(s), cap)
  IN  Cardinality({i \in DOMAIN cps : cps[i] \notin 0..limit})

(* plat_native_to_utf8 of the Atari, the Mac and DOS.                      *)
FromAscii(n, cap) == Cut([i \in 1..Len(n) |-> IF n[i] <= \h7F THEN n[i] ELSE Fallback], cap)

EncodeAll(n) ==
  LET from[i \in 0..Len(n)] ==
        IF i = Len(n) THEN <<>> ELSE Encode(n[i + 1]) \o from[i + 1]
  IN  from[0]

(* plat_native_to_utf8 of the Amiga: a character that does not fit ends it.*)
FromLatin1(n, cap) ==
  LET k == Max({j \in 0..Len(n) : Len(EncodeAll(Cut(n, j))) <= cap})
  IN  EncodeAll(Cut(n, k))

(* Windows, each way: the whole text, or an error (no text) if there is no *)
(* room for it; the ANSI code page taken is Latin-1.                       *)
WholeOrNone(s, cap) == IF Len(s) <= cap THEN s ELSE <<>>
ToAnsi(s, cap) == WholeOrNone(ToBytes(\hFF, s, Len(s)), cap)
FromAnsi(n, cap) == WholeOrNone(EncodeAll(n), cap)
==============================================================================
