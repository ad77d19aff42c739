------------------------------ MODULE Encodings ------------------------------
(***************************************************************************)
(* What an editor does with a text that reached it from outside, well      *)
(* formed or not: its cursor walks over it (utf8_next, utf8_prev), and     *)
(* the text goes to the native character set and back (plat_utf8_to_native *)
(* and plat_native_to_utf8 of one backend, into buffers of cap bytes).     *)
(***************************************************************************)
EXTENDS Utf8, FiniteSets

CONSTANTS
  Bytes,      (* the bytes that texts are made of                          *)
  MaxBytes,   (* bound on the length of a text                             *)
  Caps        (* sizes of the buffers of a conversion                      *)

VARIABLES
  text,       (* the text, chosen at the start                             *)
  at,         (* the byte offset of the cursor                             *)
  converted   (* what a conversion made of the text, if it came to that     *)

vars == <<text, at, converted>>

Nothing == [set |-> "none", cap |-> 0, native |-> <<>>, back |-> <<>>]
Charsets == {"ascii", "latin1", "ansi", "qt"}

Init ==
  /\ text \in UNION {[1..n -> Bytes] : n \in 0..MaxBytes}
  /\ at = 0 /\ converted = Nothing

Forward ==
  /\ converted = Nothing /\ at < Len(text) /\ at' = NextOffset(text, at)
  /\ UNCHANGED <<text, converted>>

Backward ==
  /\ converted = Nothing /\ at > 0 /\ at' = PrevOffset(text, at)
  /\ UNCHANGED <<text, converted>>

ToNative(set, s, cap) ==
  CASE set = "ascii" -> ToBytes(\h7F, s, cap)
    [] set = "latin1" -> ToBytes(\hFF, s, cap)
    [] set = "ansi" -> ToAnsi(s, cap)
    [] set = "qt" -> Cut(s, cap)

FromNative(set, n, cap) ==
  CASE set = "ascii" -> FromAscii(n, cap)
    [] set = "latin1" -> FromLatin1(n, cap)
    [] set = "ansi" -> FromAnsi(n, cap)
    [] set = "qt" -> Cut(n, cap)

Convert(set, cap) ==
  /\ at = 0 /\ converted = Nothing
  /\ LET native == ToNative(set, text, cap)
     IN  converted' = [set |-> set, cap |-> cap, native |-> native,
                       back |-> FromNative(set, native, cap)]
  /\ UNCHANGED <<text, at>>

Next ==
  \/ Forward
  \/ Backward
  \/ \E set \in Charsets, cap \in Caps : Convert(set, cap)

Spec == Init /\ [][Next]_vars

------------------------------------------------------------------------------
TypeOK ==
  /\ text \in Seq(Bytes) /\ Len(text) <= MaxBytes
  /\ at \in 0..Len(text)
  /\ converted.set \in Charsets \cup {"none"}
  /\ \A s \in {converted.native, converted.back} :
       s \in Seq(Byte) /\ Len(s) <= converted.cap

(* utf8.h: decoding accepts the sequences the standard calls well formed   *)
(* and no others - no overlong form, surrogate or truncated sequence - and *)
(* encoding gives the same bytes back; validation and the count of code    *)
(* points agree with it.  What a conversion makes is well formed and fits, *)
(* and a text that the native set has the characters for comes back as it  *)
(* was.  (Qt, whose native text is UTF-8, only copies what fits: a text    *)
(* that does not fit may be cut inside a character.)                       *)
DecodesWellFormed ==
  /\ LET d == Decode(text)
         Chars == {n \in 1..Len(text) : IsChar(Cut(text, n))}
     IN  IF Chars = {} THEN d.used = 0
         ELSE d.used \in Chars /\ Encode(d.cp) = Cut(text, d.used)
  /\ WellFormed(text) <=> Validate(text) = Len(text)
  /\ WellFormed(text) => CpCount(text) = Cardinality(Boundaries(text)) - 1
  /\ converted # Nothing =>
       /\ converted.set # "qt" => WellFormed(converted.back)
       /\ LET limit == CASE converted.set = "ascii" -> \h7F
                          [] converted.set \in {"latin1", "ansi"} -> \hFF
                          [] OTHER -> LastCp
          IN  /\ WellFormed(text) /\ converted.cap >= Len(text)
              /\ Unmapped(limit, text, converted.cap) = 0
              => converted.back = text

(* utf8.h 28-37: the cursor can never get stuck, whatever the bytes; and   *)
(* on a well-formed text it always rests between two characters, and a     *)
(* step back undoes the step forward.                                      *)
CursorComesHome ==
  /\ at < Len(text) => NextOffset(text, at) \in (at + 1)..Len(text)
  /\ at > 0 => PrevOffset(text, at) \in 0..(at - 1)
  /\ WellFormed(text) =>
       /\ at \in Boundaries(text)
       /\ at < Len(text) => PrevOffset(text, NextOffset(text, at)) = at
==============================================================================
