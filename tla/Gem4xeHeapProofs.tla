--------------------------- MODULE Gem4xeHeapProofs --------------------------
(***************************************************************************)
(* Proofs about Gem4xeHeap: for every alignment, header and arena size,    *)
(* every set of requests and every ascending Malloc, arenas stay tiled,    *)
(* what the engine holds and what the list marks used are the same         *)
(* blocks, no leftover is too small to use, every operation is one the     *)
(* Allocator promises, and the counters add up to what is held.            *)
(***************************************************************************)
EXTENDS Gem4xeHeap, FiniteSetTheorems, TLAPS

------------------------------------------------------------------------------
(* Least elements.                                                         *)

HasLeast(S) == \E m \in S : \A x \in S : m <= x

(* A nonempty set of naturals below a bound has a least element: the proof *)
(* is by well-foundedness of strict inclusion on the subsets of 0 .. n.    *)
LEMMA LeastBelow ==
  ASSUME NEW n \in Nat, NEW S \in SUBSET (0 .. n), S # {}
  PROVE  HasLeast(S)
<1> DEFINE Bad == {X \in SUBSET (0 .. n) : X # {} /\ ~ HasLeast(X)}
<1>1. IsWellFoundedOn(StrictSubsetOrdering(0 .. n), SUBSET (0 .. n))
  <2>1. IsFiniteSet(0 .. n)
    BY FS_Interval
  <2>2. FiniteSubsetsOf(0 .. n) = SUBSET (0 .. n)
    BY <2>1, FS_FiniteSubsetsOfFinite
  <2> QED BY <2>2, FS_StrictSubsetOrderingWellFounded
<1>2. ASSUME Bad # {} PROVE FALSE
  <2>1. Bad \subseteq SUBSET (0 .. n)
    OBVIOUS
  <2>2. PICK X \in Bad :
          \A Y \in Bad : ~(<<Y, X>> \in StrictSubsetOrdering(0 .. n))
    <3> HIDE DEF Bad
    <3> QED BY <1>1, <1>2, <2>1, WFMin
  <2>3. PICK x \in X : TRUE
    OBVIOUS
  <2> DEFINE Y == X \ {x}
  <2>4. CASE Y = {}
    <3>1. X = {x}
      BY <2>4
    <3> QED BY <3>1 DEF HasLeast
  <2>5. CASE Y # {}
    <3>1. <<Y, X>> \in StrictSubsetOrdering(0 .. n)
      BY <2>3 DEF StrictSubsetOrdering
    <3>2. Y \notin Bad
      BY <3>1, <2>2
    <3>3. PICK m \in Y : \A y \in Y : m <= y
      BY <3>2, <2>5 DEF HasLeast
    <3>4. m \in Int /\ x \in Int
      OBVIOUS
    <3>5. \A y \in X : y = x \/ y \in Y
      OBVIOUS
    <3>6. CASE m <= x
      <4>1. \A y \in X : m <= y
        BY <3>3, <3>5, <3>6
      <4> QED BY <4>1, <3>3 DEF HasLeast
    <3>7. CASE x <= m
      <4>1. \A y \in X : x <= y
        BY <3>3, <3>4, <3>5, <3>7
      <4> QED BY <4>1, <2>3 DEF HasLeast
    <3> QED BY <3>4, <3>6, <3>7
  <2> QED BY <2>4, <2>5
<1> QED BY <1>2

(* Min picks the least element of any nonempty set of naturals.            *)
LEMMA MinNat ==
  ASSUME NEW S \in SUBSET Nat, S # {}
  PROVE  Min(S) \in S /\ \A x \in S : Min(S) <= x
<1>1. PICK n \in S : TRUE
  OBVIOUS
<1> DEFINE T == {x \in S : x <= n}
<1>2. n \in Nat
  OBVIOUS
<1>3. T \subseteq 0 .. n
  <2>1. \A x \in T : x \in Nat /\ x <= n
    OBVIOUS
  <2> HIDE DEF T
  <2> QED BY <1>2, <2>1
<1>4. n \in T
  BY <1>2
<1>5. PICK m \in T : \A x \in T : m <= x
  <2> HIDE DEF T
  <2> QED BY <1>2, <1>3, <1>4, LeastBelow DEF HasLeast
<1>6. m \in S /\ \A x \in S : m <= x
  BY <1>5
<1> QED BY <1>6 DEF Min

------------------------------------------------------------------------------
(* Rounding.                                                               *)

(* Rounding up never returns less than it was given, and 1 at the least.   *)
LEMMA WantCovers ==
  ASSUME NEW n \in Nat
  PROVE  /\ RoundUp(n) \in Nat /\ RoundUp(n) >= n
         /\ Want(n) \in Nat /\ Want(n) >= n /\ Want(n) >= 1
<1>1. ASSUME NEW k \in Nat
      PROVE  RoundUp(k) \in Nat /\ RoundUp(k) >= k
  <2> DEFINE m == k + (ALIGN - 1)
  <2>1. m \in Nat /\ ALIGN \in Nat /\ ALIGN > 0
    BY HeapAssumption
  <2>2. m % ALIGN \in 0 .. ALIGN - 1
    <3> HIDE DEF m
    <3> QED BY <2>1
  <2> QED BY <2>1, <2>2 DEF RoundUp
<1>2. Want(n) = RoundUp(IF n = 0 THEN 1 ELSE n)
  BY DEF Want
<1> QED BY <1>1, <1>2

------------------------------------------------------------------------------
(* The chain.                                                              *)

UsedBlock(blk, x) == x \in DOMAIN blk /\ blk[x].used /\ blk[x].size # 0

(* Away from b, the same blocks are in use, with the same sizes.           *)
KeepsUsed(old, new, b) ==
  \A x \in Nat : x # b =>
    /\ UsedBlock(old, x) <=> UsedBlock(new, x)
    /\ UsedBlock(old, x) => new[x].size = old[x].size

(* A block that is not a sentinel has a used block above it in its arena,  *)
(* and the least one is where the block, or a merge from it, may reach.    *)
LEMMA NextUsedAbove ==
  ASSUME NEW blk, NEW ar, WellFormed(blk, ar),
         NEW b \in DOMAIN blk, ~ Sentinel(blk, b)
  PROVE  /\ NextUsed(blk, b) \in DOMAIN blk
         /\ NextUsed(blk, b) \in Nat
         /\ blk[NextUsed(blk, b)].used
         /\ b < NextUsed(blk, b)
         /\ End(blk, b) <= NextUsed(blk, b)
         /\ \A x \in DOMAIN blk : b < x /\ blk[x].used => NextUsed(blk, b) <= x
         /\ \E a \in ar : a.lo <= b /\ NextUsed(blk, b) + HDR <= a.hi
<1>1. /\ DOMAIN blk \subseteq Nat
      /\ \A x \in DOMAIN blk : blk[x].size \in Nat /\ End(blk, x) \in Nat
      /\ HDR \in Nat /\ HDR > 0
  BY HeapAssumption DEF WellFormed, Typed, End
<1>2. PICK a \in ar : a.lo <= b /\ End(blk, b) <= a.hi
  BY DEF WellFormed, InArena
<1>3. a.hi \in Nat /\ a.lo \in Nat
  BY HeapAssumption DEF WellFormed, Typed
<1> DEFINE s == a.hi - HDR
<1>4. s \in DOMAIN blk /\ blk[s].used
  BY DEF WellFormed, Fenced, Sentinel
<1>5. blk[b].size # 0
  BY DEF WellFormed, Fenced, Sentinel
<1>6. b < s
  BY <1>1, <1>2, <1>3, <1>5 DEF End
<1>7. UsedAbove(blk, b) \in SUBSET Nat /\ s \in UsedAbove(blk, b)
  BY <1>1, <1>4, <1>6 DEF UsedAbove
<1> DEFINE u == NextUsed(blk, b)
<1>8. u \in UsedAbove(blk, b) /\ \A x \in UsedAbove(blk, b) : u <= x
  BY <1>7, MinNat DEF NextUsed
<1>9. u <= s
  BY <1>7, <1>8
<1>10. u \in DOMAIN blk /\ blk[u].used /\ b < u /\ u \in Nat
  BY <1>1, <1>8 DEF UsedAbove
<1>11. End(blk, b) <= u
  BY <1>10 DEF WellFormed, Ordered
<1>12. \A x \in DOMAIN blk : b < x /\ blk[x].used => u <= x
  BY <1>8 DEF UsedAbove
<1>13. u + HDR <= a.hi
  BY <1>1, <1>3, <1>9, <1>10
<1> QED BY <1>2, <1>10, <1>11, <1>12, <1>13

(* Freeing a block and merging it forward keeps the heap well formed and   *)
(* disturbs no other block in use.                                         *)
LEMMA ReleaseWellFormed ==
  ASSUME NEW blk, NEW ar, WellFormed(blk, ar),
         NEW b \in DOMAIN blk, ~ Sentinel(blk, b)
  PROVE  /\ WellFormed(Release(blk, b), ar)
         /\ KeepsUsed(blk, Release(blk, b), b)
         /\ ~ UsedBlock(Release(blk, b), b)
<1> DEFINE u   == NextUsed(blk, b)
           new == Release(blk, b)
<1>1. /\ u \in DOMAIN blk /\ u \in Nat /\ blk[u].used /\ b < u
      /\ End(blk, b) <= u
      /\ \A x \in DOMAIN blk : b < x /\ blk[x].used => u <= x
      /\ \E a \in ar : a.lo <= b /\ u + HDR <= a.hi
  BY NextUsedAbove
<1>2. /\ DOMAIN blk \subseteq Nat \ {0}
      /\ \A x \in DOMAIN blk : blk[x].size \in Nat /\ blk[x].used \in BOOLEAN
      /\ ar \subseteq [lo : Nat \ {0}, hi : 0 .. HeapTop]
      /\ HDR \in Nat /\ HDR > 0 /\ HeapTop \in Nat
  BY HeapAssumption DEF WellFormed, Typed
<1>3. blk[b].size # 0 /\ u - b - HDR \in Nat /\ u - b - HDR > 0
  BY <1>1, <1>2 DEF WellFormed, Fenced, Sentinel, End
<1>4. /\ DOMAIN new = {x \in DOMAIN blk : x <= b \/ x >= u}
      /\ new[b] = [size |-> u - b - HDR, used |-> FALSE]
      /\ \A x \in DOMAIN new : x # b => new[x] = blk[x]
  BY <1>2 DEF Release
<1> HIDE DEF u, new
<1>5. Typed(new, ar)
  <2>1. ASSUME NEW x \in DOMAIN new
        PROVE  new[x] \in [size : Nat, used : BOOLEAN]
    <3>1. CASE x = b
      BY <3>1, <1>3, <1>4
    <3>2. CASE x # b
      BY <3>2, <1>4 DEF WellFormed, Typed
    <3> QED BY <3>1, <3>2
  <2> QED BY <2>1, <1>2, <1>4 DEF Typed
<1>6. End(new, b) = u
  BY <1>1, <1>2, <1>4 DEF End
<1>7. \A x \in DOMAIN new : x # b => x \in DOMAIN blk /\ End(new, x) = End(blk, x)
  BY <1>4 DEF End
<1>8. b \in DOMAIN new /\ u \in DOMAIN new
  BY <1>1, <1>2, <1>4
<1>9. Ordered(new)
  <2>1. ASSUME NEW x \in DOMAIN new, NEW h \in DOMAIN new, x < h
        PROVE  End(new, x) <= h
    <3>1. CASE x = b
      BY <3>1, <2>1, <1>2, <1>4, <1>6
    <3>2. CASE x # b
      BY <3>2, <2>1, <1>4, <1>7 DEF WellFormed, Ordered
    <3> QED BY <3>1, <3>2
  <2> QED BY <2>1 DEF Ordered
<1>10. InArena(new, ar)
  <2>1. ASSUME NEW x \in DOMAIN new
        PROVE  \E a \in ar : a.lo <= x /\ End(new, x) <= a.hi
    <3>1. CASE x = b
      <4>1. PICK a \in ar : a.lo <= b /\ u + HDR <= a.hi
        BY <1>1
      <4>2. u <= a.hi
        BY <4>1, <1>1, <1>2
      <4> QED BY <3>1, <4>1, <4>2, <1>6
    <3>2. CASE x # b
      BY <3>2, <1>7 DEF WellFormed, InArena
    <3> QED BY <3>1, <3>2
  <2> QED BY <2>1 DEF InArena
<1>11. Fenced(new, ar)
  <2>1. ASSUME NEW a \in ar
        PROVE  a.hi - HDR \in DOMAIN new /\ Sentinel(new, a.hi - HDR)
    <3> DEFINE s == a.hi - HDR
    <3>1. s \in DOMAIN blk /\ Sentinel(blk, s)
      BY DEF WellFormed, Fenced
    <3>2. s # b
      BY <3>1
    <3>3. s <= b \/ s >= u
      BY <3>1, <3>2, <1>1, <1>2 DEF Sentinel
    <3> QED BY <3>1, <3>2, <3>3, <1>4 DEF Sentinel
  <2>2. ASSUME NEW x \in DOMAIN new, new[x].size = 0
        PROVE  new[x].used
    <3>1. x # b
      BY <2>2, <1>3, <1>4
    <3> QED BY <3>1, <2>2, <1>4 DEF WellFormed, Fenced
  <2> QED BY <2>1, <2>2 DEF Fenced
<1>12. Contiguous(new)
  <2>1. ASSUME NEW x \in DOMAIN new
        PROVE  Sentinel(new, x) \/ End(new, x) \in DOMAIN new
    <3>1. CASE x = b
      BY <3>1, <1>6, <1>8
    <3>2. CASE x # b /\ Sentinel(blk, x)
      BY <3>2, <1>4 DEF Sentinel
    <3>3. CASE x # b /\ ~ Sentinel(blk, x)
      <4>1. x \in DOMAIN blk /\ End(blk, x) \in DOMAIN blk
        BY <3>3, <1>4 DEF WellFormed, Contiguous
      <4>2. End(blk, x) <= b \/ End(blk, x) >= u
        <5>1. CASE x < b
          BY <5>1, <4>1 DEF WellFormed, Ordered
        <5>2. CASE x >= u
          BY <5>2, <4>1, <1>1, <1>2 DEF End
        <5> QED BY <5>1, <5>2, <3>3, <1>4, <1>2
      <4> QED BY <3>3, <4>1, <4>2, <1>4, <1>7
    <3> QED BY <3>1, <3>2, <3>3
  <2> QED BY <2>1 DEF Contiguous
<1>13. KeepsUsed(blk, new, b)
  <2>1. ASSUME NEW x \in Nat, x # b
        PROVE  /\ UsedBlock(blk, x) <=> UsedBlock(new, x)
               /\ UsedBlock(blk, x) => new[x].size = blk[x].size
    <3>1. UsedBlock(blk, x) => x \in DOMAIN new
      BY <2>1, <1>1, <1>2, <1>4 DEF UsedBlock
    <3> QED BY <2>1, <3>1, <1>4 DEF UsedBlock
  <2> QED BY <2>1 DEF KeepsUsed
<1>14. ~ UsedBlock(new, b)
  BY <1>4 DEF UsedBlock
<1> QED BY <1>5, <1>9, <1>10, <1>11, <1>12, <1>13, <1>14 DEF WellFormed, new

(* Coalescing keeps the heap well formed and touches no block in use.      *)
LEMMA CoalescedWellFormed ==
  ASSUME NEW blk, NEW ar, WellFormed(blk, ar)
  PROVE  /\ WellFormed(Coalesced(blk), ar)
         /\ KeepsUsed(blk, Coalesced(blk), NULL)
<1> DEFINE new == Coalesced(blk)
<1>1. /\ DOMAIN blk \subseteq Nat \ {0}
      /\ \A x \in DOMAIN blk : blk[x].size \in Nat /\ blk[x].used \in BOOLEAN
      /\ ar \subseteq [lo : Nat \ {0}, hi : 0 .. HeapTop]
      /\ HDR \in Nat /\ HDR > 0 /\ HeapTop \in Nat
  BY HeapAssumption DEF WellFormed, Typed
<1>2. /\ DOMAIN new = {x \in DOMAIN blk : ~ Swallowed(blk, x)}
      /\ \A x \in DOMAIN new : blk[x].used => new[x] = blk[x]
      /\ \A x \in DOMAIN new : ~ blk[x].used =>
           new[x] = [size |-> NextUsed(blk, x) - x - HDR, used |-> FALSE]
  BY DEF Coalesced
<1>3. \A x \in DOMAIN blk : blk[x].used => x \in DOMAIN new
  BY <1>2 DEF Swallowed
<1>4. ASSUME NEW x \in DOMAIN new, ~ blk[x].used
      PROVE  /\ NextUsed(blk, x) \in DOMAIN new
             /\ NextUsed(blk, x) \in Nat
             /\ x < NextUsed(blk, x)
             /\ \A h \in DOMAIN blk : x < h /\ blk[h].used => NextUsed(blk, x) <= h
             /\ \E a \in ar : a.lo <= x /\ NextUsed(blk, x) + HDR <= a.hi
             /\ new[x].size \in Nat /\ new[x].size > 0
             /\ End(new, x) = NextUsed(blk, x)
  <2>1. x \in DOMAIN blk /\ ~ Sentinel(blk, x)
    BY <1>2, <1>4 DEF Sentinel
  <2> DEFINE u == NextUsed(blk, x)
  <2>2. /\ u \in DOMAIN blk /\ u \in Nat /\ blk[u].used /\ x < u
        /\ End(blk, x) <= u
        /\ \A h \in DOMAIN blk : x < h /\ blk[h].used => u <= h
        /\ \E a \in ar : a.lo <= x /\ u + HDR <= a.hi
    BY <2>1, NextUsedAbove
  <2>3. blk[x].size > 0
    BY <2>1, <1>1, <1>4 DEF WellFormed, Fenced
  <2>4. new[x].size = u - x - HDR
    BY <1>2, <1>4
  <2> HIDE DEF u, new
  <2>5. new[x].size \in Nat /\ new[x].size > 0
    BY <2>1, <2>2, <2>3, <2>4, <1>1 DEF End
  <2>6. End(new, x) = u
    BY <2>1, <2>2, <2>4, <1>1 DEF End
  <2> QED BY <2>2, <2>5, <2>6, <1>3 DEF u
<1>5. ASSUME NEW x \in DOMAIN new, blk[x].used
      PROVE  new[x] = blk[x] /\ x \in DOMAIN blk /\ End(new, x) = End(blk, x)
  BY <1>2, <1>5 DEF End
<1> HIDE DEF new
<1>6. Typed(new, ar)
  <2>1. ASSUME NEW x \in DOMAIN new
        PROVE  new[x] \in [size : Nat, used : BOOLEAN]
    <3>1. CASE blk[x].used
      BY <3>1, <1>5 DEF WellFormed, Typed
    <3>2. CASE ~ blk[x].used
      <4>1. new[x] = [size |-> NextUsed(blk, x) - x - HDR, used |-> FALSE]
        BY <3>2, <1>2
      <4>2. NextUsed(blk, x) - x - HDR \in Nat
        BY <4>1, <3>2, <1>4
      <4> QED BY <4>1, <4>2
    <3> QED BY <3>1, <3>2
  <2> QED BY <2>1, <1>1, <1>2 DEF Typed
<1>7. Ordered(new)
  <2>1. ASSUME NEW x \in DOMAIN new, NEW h \in DOMAIN new, x < h
        PROVE  End(new, x) <= h
    <3>1. CASE blk[x].used
      BY <3>1, <2>1, <1>2, <1>5 DEF WellFormed, Ordered
    <3>2. CASE ~ blk[x].used /\ blk[h].used
      BY <3>2, <2>1, <1>2, <1>4
    <3>3. CASE ~ blk[x].used /\ ~ blk[h].used
      <4>1. PICK w \in UsedAbove(blk, x) : ~ (w > h)
        BY <3>3, <2>1, <1>2 DEF Swallowed
      <4>2. NextUsed(blk, x) <= w
        BY <4>1, <3>3, <1>4 DEF UsedAbove
      <4>3. w \in Nat /\ h \in Nat
        BY <4>1, <1>1, <1>2 DEF UsedAbove
      <4> QED BY <4>1, <4>2, <4>3, <3>3, <1>4
    <3> QED BY <3>1, <3>2, <3>3
  <2> QED BY <2>1 DEF Ordered
<1>8. InArena(new, ar)
  <2>1. ASSUME NEW x \in DOMAIN new
        PROVE  \E a \in ar : a.lo <= x /\ End(new, x) <= a.hi
    <3>1. CASE blk[x].used
      BY <3>1, <1>5 DEF WellFormed, InArena
    <3>2. CASE ~ blk[x].used
      <4>1. PICK a \in ar : a.lo <= x /\ NextUsed(blk, x) + HDR <= a.hi
        BY <3>2, <1>4
      <4>2. NextUsed(blk, x) <= a.hi
        BY <4>1, <3>2, <1>1, <1>4
      <4> QED BY <3>2, <4>1, <4>2, <1>4
    <3> QED BY <3>1, <3>2
  <2> QED BY <2>1 DEF InArena
<1>9. Fenced(new, ar)
  <2>1. ASSUME NEW a \in ar
        PROVE  a.hi - HDR \in DOMAIN new /\ Sentinel(new, a.hi - HDR)
    <3>1. a.hi - HDR \in DOMAIN blk /\ Sentinel(blk, a.hi - HDR)
      BY DEF WellFormed, Fenced
    <3> QED BY <3>1, <1>3, <1>5 DEF Sentinel
  <2>2. ASSUME NEW x \in DOMAIN new, new[x].size = 0
        PROVE  new[x].used
    <3>1. blk[x].used
      BY <2>2, <1>4
    <3> QED BY <3>1, <1>5
  <2> QED BY <2>1, <2>2 DEF Fenced
<1>10. Contiguous(new)
  <2>1. ASSUME NEW x \in DOMAIN new
        PROVE  Sentinel(new, x) \/ End(new, x) \in DOMAIN new
    <3>1. CASE ~ blk[x].used
      BY <3>1, <1>4
    <3>2. CASE blk[x].used /\ Sentinel(blk, x)
      BY <3>2, <1>5 DEF Sentinel
    <3>3. CASE blk[x].used /\ ~ Sentinel(blk, x)
      <4> DEFINE e == End(blk, x)
      <4>1. x \in DOMAIN blk /\ e \in DOMAIN blk
        BY <3>3, <1>5 DEF WellFormed, Contiguous
      <4>2. x < e
        BY <4>1, <1>1 DEF End
      <4>3. ASSUME NEW p \in DOMAIN blk, p < e, ~ blk[p].used
            PROVE  x \in UsedAbove(blk, p)
        <5>1. ~ (x < p)
          BY <4>1, <4>3, <1>1 DEF WellFormed, Ordered
        <5>2. p # x
          BY <4>3, <3>3
        <5> QED BY <5>1, <5>2, <4>1, <3>3, <1>1 DEF UsedAbove
      <4>4. ~ (x > e)
        BY <4>1, <4>2, <1>1
      <4>5. ~ Swallowed(blk, e)
        BY <4>3, <4>4 DEF Swallowed
      <4> QED BY <4>1, <4>5, <3>3, <1>2, <1>5
    <3> QED BY <3>1, <3>2, <3>3
  <2> QED BY <2>1 DEF Contiguous
<1>11. KeepsUsed(blk, new, NULL)
  <2>1. ASSUME NEW x \in Nat
        PROVE  /\ UsedBlock(blk, x) <=> UsedBlock(new, x)
               /\ UsedBlock(blk, x) => new[x].size = blk[x].size
    <3>1. UsedBlock(blk, x) => x \in DOMAIN new /\ new[x] = blk[x]
      BY <1>3, <1>5 DEF UsedBlock
    <3>2. UsedBlock(new, x) => x \in DOMAIN blk /\ blk[x].used
      BY <1>2 DEF UsedBlock
    <3> QED BY <3>1, <3>2, <1>5 DEF UsedBlock
  <2> QED BY <2>1 DEF KeepsUsed
<1> QED BY <1>6, <1>7, <1>8, <1>9, <1>10, <1>11 DEF WellFormed, new

(* Carving `want` bytes out of a free block that can hold them makes that  *)
(* block used and touches no other.                                        *)
LEMMA CarveWellFormed ==
  ASSUME NEW blk, NEW ar, WellFormed(blk, ar), NEW want \in Nat, want > 0,
         NEW b \in Fits(blk, want)
  PROVE  /\ WellFormed(Carve(blk, b, want), ar)
         /\ KeepsUsed(blk, Carve(blk, b, want), b)
         /\ UsedBlock(Carve(blk, b, want), b)
         /\ Carve(blk, b, want)[b].size >= want
<1> DEFINE new  == Carve(blk, b, want)
           rest == b + HDR + want
<1>1. /\ DOMAIN blk \subseteq Nat \ {0}
      /\ \A x \in DOMAIN blk : blk[x].size \in Nat /\ blk[x].used \in BOOLEAN
      /\ ar \subseteq [lo : Nat \ {0}, hi : 0 .. HeapTop]
      /\ HDR \in Nat /\ HDR > 0 /\ HeapTop \in Nat /\ ALIGN \in Nat /\ ALIGN > 0
  BY HeapAssumption DEF WellFormed, Typed
<1>2. b \in DOMAIN blk /\ ~ blk[b].used /\ blk[b].size >= want
  BY DEF Fits
<1>3. CASE blk[b].size < want + HDR + ALIGN
  <2>1. /\ DOMAIN new = DOMAIN blk
        /\ new[b] = [size |-> blk[b].size, used |-> TRUE]
        /\ \A x \in DOMAIN blk : x # b => new[x] = blk[x]
    BY <1>2, <1>3 DEF Carve
  <2> HIDE DEF new
  <2>2. \A x \in DOMAIN blk : new[x].size = blk[x].size /\ End(new, x) = End(blk, x)
    BY <2>1 DEF End
  <2>3. Typed(new, ar)
    <3>1. ASSUME NEW x \in DOMAIN new
          PROVE  new[x] \in [size : Nat, used : BOOLEAN]
      <4>1. CASE x = b
        BY <4>1, <2>1, <1>1, <1>2
      <4>2. CASE x # b
        BY <4>2, <2>1 DEF WellFormed, Typed
      <4> QED BY <4>1, <4>2
    <3> QED BY <3>1, <2>1, <1>1 DEF Typed
  <2>4. Ordered(new) /\ InArena(new, ar)
    BY <2>1, <2>2 DEF WellFormed, Ordered, InArena
  <2>5. Fenced(new, ar)
    BY <2>1, <2>2, <1>2 DEF WellFormed, Fenced, Sentinel
  <2>6. Contiguous(new)
    <3>1. ASSUME NEW x \in DOMAIN new
          PROVE  Sentinel(new, x) \/ End(new, x) \in DOMAIN new
      <4>1. Sentinel(blk, x) \/ End(blk, x) \in DOMAIN blk
        BY <2>1 DEF WellFormed, Contiguous
      <4>2. Sentinel(blk, x) => x # b
        BY <1>2 DEF Sentinel
      <4> QED BY <4>1, <4>2, <2>1, <2>2 DEF Sentinel
    <3> QED BY <3>1 DEF Contiguous
  <2>7. KeepsUsed(blk, new, b)
    BY <2>1 DEF KeepsUsed, UsedBlock
  <2>8. UsedBlock(new, b) /\ new[b].size >= want
    BY <2>1, <1>1, <1>2 DEF UsedBlock
  <2> QED BY <2>3, <2>4, <2>5, <2>6, <2>7, <2>8 DEF WellFormed, new
<1>4. CASE ~ (blk[b].size < want + HDR + ALIGN)
  <2> DEFINE left == blk[b].size - want - HDR
  <2>1. /\ rest \in Nat /\ rest > b /\ left \in Nat /\ left > 0
        /\ rest + HDR + left = End(blk, b) /\ rest < End(blk, b)
    BY <1>1, <1>2, <1>4 DEF End
  <2>2. rest \notin DOMAIN blk
    BY <2>1, <1>1, <1>2 DEF WellFormed, Ordered
  <2>3. /\ DOMAIN new = DOMAIN blk \cup {rest}
        /\ new[b] = [size |-> want, used |-> TRUE]
        /\ new[rest] = [size |-> left, used |-> FALSE]
        /\ \A x \in DOMAIN blk : x # b => new[x] = blk[x]
    BY <1>2, <1>4, <2>2 DEF Carve
  <2> HIDE DEF new, rest, left
  <2>4. /\ End(new, b) = rest
        /\ End(new, rest) = End(blk, b)
        /\ \A x \in DOMAIN blk : x # b => End(new, x) = End(blk, x)
    BY <2>1, <2>3, <1>1, <1>2 DEF End, rest
  <2>5. Typed(new, ar)
    <3>1. ASSUME NEW x \in DOMAIN new
          PROVE  new[x] \in [size : Nat, used : BOOLEAN] /\ x \in Nat \ {0}
      <4>1. CASE x \in DOMAIN blk /\ x # b
        BY <4>1, <2>3 DEF WellFormed, Typed
      <4>2. CASE x = b
        BY <4>2, <2>3, <1>1, <1>2
      <4>3. CASE x = rest
        BY <4>3, <2>1, <2>3, <1>1, <1>2
      <4> QED BY <4>1, <4>2, <4>3, <2>3
    <3> QED BY <3>1, <1>1 DEF Typed
  <2>6. Ordered(new)
    <3>1. ASSUME NEW x \in DOMAIN new, NEW h \in DOMAIN new, x < h
          PROVE  End(new, x) <= h
      <4>1. CASE x \in DOMAIN blk /\ x # b /\ h \in DOMAIN blk
        BY <4>1, <3>1, <2>4 DEF WellFormed, Ordered
      <4>2. CASE x \in DOMAIN blk /\ x # b /\ h = rest
        <5>1. x < b
          <6>1. ~ (b < x)
            <7>1. b < x => End(blk, b) <= x
              BY <4>2, <1>2 DEF WellFormed, Ordered
            <7> QED BY <7>1, <4>2, <3>1, <2>1, <1>1, <1>2 DEF End
          <6> QED BY <6>1, <4>2, <1>1, <1>2
        <5>2. End(blk, x) <= b
          BY <5>1, <4>2, <1>2 DEF WellFormed, Ordered
        <5> QED BY <5>2, <4>2, <2>1, <2>4, <1>1, <1>2 DEF End
      <4>3. CASE x = b /\ h \in DOMAIN blk
        <5>1. End(blk, b) <= h
          BY <4>3, <3>1, <1>2 DEF WellFormed, Ordered
        <5> QED BY <5>1, <4>3, <2>1, <2>4, <1>1 DEF End
      <4>4. CASE x = b /\ h = rest
        BY <4>4, <2>1, <2>4
      <4>5. CASE x = rest /\ h \in DOMAIN blk
        <5>1. b < h
          BY <4>5, <3>1, <2>1, <1>1, <1>2
        <5>2. End(blk, b) <= h
          BY <5>1, <4>5, <1>2 DEF WellFormed, Ordered
        <5> QED BY <5>2, <4>5, <2>4
      <4>6. ~ (x = rest /\ h = rest)
        BY <3>1, <2>1
      <4> QED BY <4>1, <4>2, <4>3, <4>4, <4>5, <4>6, <2>3
    <3> QED BY <3>1 DEF Ordered
  <2>7. InArena(new, ar)
    <3>1. ASSUME NEW x \in DOMAIN new
          PROVE  \E a \in ar : a.lo <= x /\ End(new, x) <= a.hi
      <4>1. CASE x \in DOMAIN blk /\ x # b
        BY <4>1, <2>4 DEF WellFormed, InArena
      <4>2. CASE x = b \/ x = rest
        <5>1. PICK a \in ar : a.lo <= b /\ End(blk, b) <= a.hi
          BY <1>2 DEF WellFormed, InArena
        <5>2. a.lo \in Nat /\ a.hi \in Nat /\ b \in Nat
          BY <1>1, <1>2
        <5>3. End(blk, b) \in Nat
          BY <1>1, <1>2 DEF End
        <5>4. a.lo <= x /\ End(new, x) <= a.hi
          BY <5>1, <5>2, <5>3, <4>2, <2>1, <2>4
        <5> QED BY <5>4
      <4> QED BY <4>1, <4>2, <2>3
    <3> QED BY <3>1 DEF InArena
  <2>8. Fenced(new, ar)
    <3>1. ASSUME NEW a \in ar
          PROVE  a.hi - HDR \in DOMAIN new /\ Sentinel(new, a.hi - HDR)
      <4>1. a.hi - HDR \in DOMAIN blk /\ Sentinel(blk, a.hi - HDR)
        BY DEF WellFormed, Fenced
      <4> QED BY <4>1, <2>3, <1>2 DEF Sentinel
    <3>2. ASSUME NEW x \in DOMAIN new, new[x].size = 0
          PROVE  new[x].used
      <4>1. x # rest
        BY <3>2, <2>1, <2>3
      <4> QED BY <4>1, <3>2, <2>3 DEF WellFormed, Fenced
    <3> QED BY <3>1, <3>2 DEF Fenced
  <2>9. Contiguous(new)
    <3>1. ASSUME NEW x \in DOMAIN new
          PROVE  Sentinel(new, x) \/ End(new, x) \in DOMAIN new
      <4>1. CASE x \in DOMAIN blk /\ x # b
        BY <4>1, <2>3, <2>4 DEF WellFormed, Contiguous, Sentinel
      <4>2. CASE x = b
        BY <4>2, <2>3, <2>4
      <4>3. CASE x = rest
        <5>1. End(blk, b) \in DOMAIN blk
          BY <1>2 DEF WellFormed, Contiguous, Sentinel
        <5> QED BY <5>1, <4>3, <2>3, <2>4
      <4> QED BY <4>1, <4>2, <4>3, <2>3
    <3> QED BY <3>1 DEF Contiguous
  <2>10. KeepsUsed(blk, new, b)
    <3>1. ASSUME NEW x \in Nat, x # b
          PROVE  /\ UsedBlock(blk, x) <=> UsedBlock(new, x)
                 /\ UsedBlock(blk, x) => new[x].size = blk[x].size
      BY <3>1, <2>2, <2>3 DEF UsedBlock
    <3> QED BY <3>1 DEF KeepsUsed
  <2>11. UsedBlock(new, b) /\ new[b].size >= want
    BY <2>3, <1>2 DEF UsedBlock
  <2> QED BY <2>5, <2>6, <2>7, <2>8, <2>9, <2>10, <2>11 DEF WellFormed, new
<1> QED BY <1>3, <1>4

(* arena_new asks for room for the request, its header and the sentinel.   *)
LEMMA ArenaBytesSuffice ==
  ASSUME NEW want \in Nat
  PROVE  ArenaBytes(want) \in Nat /\ ArenaBytes(want) >= want + HDR + HDR
<1> DEFINE min == RoundUp(want) + HDR + HDR
<1>1. RoundUp(want) \in Nat /\ RoundUp(want) >= want
  BY WantCovers
<1>2. min \in Nat /\ min >= want + HDR + HDR
  BY <1>1, HeapAssumption
<1>3. RoundUp(min) \in Nat /\ RoundUp(min) >= min
  <2> HIDE DEF min
  <2> QED BY <1>2, WantCovers
<1>4. ArenaBytes(want) = IF min > ARENA_BYTES THEN RoundUp(min) ELSE ARENA_BYTES
  BY DEF ArenaBytes
<1> QED BY <1>2, <1>3, <1>4, HeapAssumption

(* A new arena above the others keeps the heap well formed, brings a free  *)
(* block for the request it was taken for, and touches no block in use.    *)
LEMMA GrownWellFormed ==
  ASSUME NEW blk, NEW ar, WellFormed(blk, ar), NEW want \in Nat, want > 0,
         NEW at \in MallocAt(ar, ArenaBytes(want))
  PROVE  LET bytes == ArenaBytes(want)
             new   == Grown(blk, at, bytes)
         IN /\ WellFormed(new, ar \cup {[lo |-> at, hi |-> at + bytes]})
            /\ KeepsUsed(blk, new, NULL)
            /\ at \in Fits(new, want)
<1> DEFINE bytes == ArenaBytes(want)
           new   == Grown(blk, at, bytes)
           end   == at + bytes - HDR
           area  == [lo |-> at, hi |-> at + bytes]
<1>1. /\ DOMAIN blk \subseteq Nat \ {0}
      /\ \A x \in DOMAIN blk : blk[x].size \in Nat /\ blk[x].used \in BOOLEAN
      /\ ar \subseteq [lo : Nat \ {0}, hi : 0 .. HeapTop]
      /\ HDR \in Nat /\ HDR > 0 /\ HeapTop \in Nat
  BY HeapAssumption DEF WellFormed, Typed
<1>2. bytes \in Nat /\ bytes >= want + HDR + HDR
  BY ArenaBytesSuffice
<1>3. /\ at \in Nat /\ at > 0 /\ at + bytes <= HeapTop
      /\ \A a \in ar : a.hi <= at
  BY HeapAssumption DEF MallocAt
<1> HIDE DEF bytes
<1>4. ASSUME NEW x \in DOMAIN blk
      PROVE  x < at /\ End(blk, x) <= at /\ x \in Nat /\ End(blk, x) \in Nat
  <2>1. PICK a \in ar : a.lo <= x /\ End(blk, x) <= a.hi
    BY DEF WellFormed, InArena
  <2>2. a.hi \in Nat /\ x \in Nat /\ End(blk, x) \in Nat
    BY <1>1 DEF End
  <2> QED BY <2>1, <2>2, <1>1, <1>3 DEF End
<1>5. /\ end \in Nat /\ at < end /\ end < at + bytes
      /\ bytes - HDR - HDR \in Nat /\ bytes - HDR - HDR >= want
  BY <1>1, <1>2, <1>3
<1>6. /\ DOMAIN new = DOMAIN blk \cup {at, end}
      /\ new[end] = [size |-> 0, used |-> TRUE]
      /\ new[at] = [size |-> bytes - HDR - HDR, used |-> FALSE]
      /\ \A x \in DOMAIN blk : new[x] = blk[x]
  <2>1. \A x \in DOMAIN blk : x # at /\ x # end
    BY <1>3, <1>4, <1>5
  <2> QED BY <2>1, <1>3, <1>5 DEF Grown
<1> HIDE DEF new
<1>7. /\ End(new, at) = end
      /\ End(new, end) = at + bytes
      /\ \A x \in DOMAIN blk : End(new, x) = End(blk, x)
  BY <1>1, <1>2, <1>3, <1>6 DEF End
<1> HIDE DEF end
<1>8. Typed(new, ar \cup {area})
  <2>1. ASSUME NEW x \in DOMAIN new
        PROVE  new[x] \in [size : Nat, used : BOOLEAN] /\ x \in Nat \ {0}
    <3>1. CASE x \in DOMAIN blk
      BY <3>1, <1>6 DEF WellFormed, Typed
    <3>2. CASE x = at
      BY <3>2, <1>3, <1>5, <1>6
    <3>3. CASE x = end
      BY <3>3, <1>3, <1>5, <1>6
    <3> QED BY <3>1, <3>2, <3>3, <1>6
  <2>2. area \in [lo : Nat \ {0}, hi : 0 .. HeapTop]
    BY <1>1, <1>2, <1>3
  <2> QED BY <2>1, <2>2, <1>1 DEF Typed
<1>9. Ordered(new)
  <2>1. ASSUME NEW x \in DOMAIN new, NEW h \in DOMAIN new, x < h
        PROVE  End(new, x) <= h
    <3>1. CASE x \in DOMAIN blk /\ h \in DOMAIN blk
      BY <3>1, <2>1, <1>7 DEF WellFormed, Ordered
    <3>2. CASE x \in DOMAIN blk /\ h \in {at, end}
      BY <3>2, <1>3, <1>4, <1>5, <1>7
    <3>3. CASE x \in {at, end} /\ h \in DOMAIN blk
      BY <3>3, <2>1, <1>3, <1>4, <1>5
    <3>4. CASE x \in {at, end} /\ h \in {at, end}
      BY <3>4, <2>1, <1>3, <1>5, <1>7
    <3> QED BY <3>1, <3>2, <3>3, <3>4, <1>6
  <2> QED BY <2>1 DEF Ordered
<1>10. InArena(new, ar \cup {area})
  <2>1. ASSUME NEW x \in DOMAIN new
        PROVE  \E a \in ar \cup {area} : a.lo <= x /\ End(new, x) <= a.hi
    <3>1. CASE x \in DOMAIN blk
      BY <3>1, <1>7 DEF WellFormed, InArena
    <3>2. CASE x \in {at, end}
      <4>1. area.lo <= x /\ End(new, x) <= area.hi
        BY <3>2, <1>2, <1>3, <1>5, <1>7
      <4> QED BY <4>1
    <3> QED BY <3>1, <3>2, <1>6
  <2> QED BY <2>1 DEF InArena
<1>11. Fenced(new, ar \cup {area})
  <2>1. ASSUME NEW a \in ar \cup {area}
        PROVE  a.hi - HDR \in DOMAIN new /\ Sentinel(new, a.hi - HDR)
    <3>1. CASE a \in ar
      BY <3>1, <1>6 DEF WellFormed, Fenced, Sentinel
    <3>2. CASE a = area
      <4>1. a.hi = at + bytes
        BY <3>2
      <4>2. a.hi - HDR = end
        BY <4>1, <1>1, <1>2, <1>3 DEF end
      <4> QED BY <4>2, <1>6 DEF Sentinel
    <3> QED BY <3>1, <3>2
  <2>2. ASSUME NEW x \in DOMAIN new, new[x].size = 0
        PROVE  new[x].used
    <3>1. x # at
      BY <2>2, <1>5, <1>6
    <3>2. x \in DOMAIN blk => new[x].used
      BY <2>2, <1>6 DEF WellFormed, Fenced
    <3> QED BY <3>1, <3>2, <1>6
  <2> QED BY <2>1, <2>2 DEF Fenced
<1>12. Contiguous(new)
  <2>1. ASSUME NEW x \in DOMAIN new
        PROVE  Sentinel(new, x) \/ End(new, x) \in DOMAIN new
    <3>1. CASE x \in DOMAIN blk
      BY <3>1, <1>6, <1>7 DEF WellFormed, Contiguous, Sentinel
    <3>2. CASE x = at
      BY <3>2, <1>6, <1>7
    <3>3. CASE x = end
      BY <3>3, <1>6 DEF Sentinel
    <3> QED BY <3>1, <3>2, <3>3, <1>6
  <2> QED BY <2>1 DEF Contiguous
<1>13. KeepsUsed(blk, new, NULL)
  <2>1. ASSUME NEW x \in Nat
        PROVE  /\ UsedBlock(blk, x) <=> UsedBlock(new, x)
               /\ UsedBlock(blk, x) => new[x].size = blk[x].size
    <3>1. ~ UsedBlock(new, at) /\ ~ UsedBlock(new, end)
      BY <1>6 DEF UsedBlock
    <3> QED BY <3>1, <1>6 DEF UsedBlock
  <2> QED BY <2>1 DEF KeepsUsed
<1>14. at \in Fits(new, want)
  BY <1>5, <1>6 DEF Fits
<1> QED BY <1>8, <1>9, <1>10, <1>11, <1>12, <1>13, <1>14 DEF WellFormed, new, bytes

(* first_fit finds one of the blocks that fit.                             *)
LEMMA FirstFitFits ==
  ASSUME NEW blk, DOMAIN blk \subseteq Nat, NEW want, Fits(blk, want) # {}
  PROVE  FirstFit(blk, want) \in Fits(blk, want)
<1>1. Fits(blk, want) \in SUBSET Nat
  BY DEF Fits
<1> QED BY <1>1, MinNat DEF FirstFit

(* However mem_alloc ends, the heap is well formed; a block it took was    *)
(* not in use before, is now, and holds the request; no other one in use   *)
(* has changed.                                                            *)
LEMMA AllocOutcome ==
  ASSUME WellFormed(block, arenas), NEW want \in Nat, want > 0,
         NEW out \in AllocOutcomes(want)
  PROVE  /\ WellFormed(out.heap.blk, out.heap.arenas)
         /\ KeepsUsed(block, out.heap.blk, out.at)
         /\ out.at # NULL => /\ ~ UsedBlock(block, out.at)
                             /\ UsedBlock(out.heap.blk, out.at)
                             /\ out.heap.blk[out.at].size >= want
                             /\ out.at \in Nat \ {0}
<1> DEFINE tidy  == Coalesced(block)
           bytes == ArenaBytes(want)
<1>1. WellFormed(tidy, arenas) /\ KeepsUsed(block, tidy, NULL)
  BY CoalescedWellFormed
<1>2. KeepsUsed(block, block, NULL)
  BY DEF KeepsUsed
<1>3. ASSUME NEW blk, NEW ar, WellFormed(blk, ar), KeepsUsed(block, blk, NULL),
             Fits(blk, want) # {}, out = Taken(blk, ar, want)
      PROVE  /\ WellFormed(out.heap.blk, out.heap.arenas)
             /\ KeepsUsed(block, out.heap.blk, out.at)
             /\ ~ UsedBlock(block, out.at)
             /\ UsedBlock(out.heap.blk, out.at)
             /\ out.heap.blk[out.at].size >= want
             /\ out.at \in Nat \ {0}
  <2> DEFINE b == FirstFit(blk, want)
  <2>1. /\ out.at = b /\ out.heap.blk = Carve(blk, b, want)
        /\ out.heap.arenas = ar
    BY <1>3 DEF Taken, Heap
  <2>2. DOMAIN blk \subseteq Nat \ {0}
    BY <1>3 DEF WellFormed, Typed
  <2>3. b \in Fits(blk, want)
    BY <1>3, <2>2, FirstFitFits
  <2> HIDE DEF b
  <2>4. /\ WellFormed(Carve(blk, b, want), ar)
        /\ KeepsUsed(blk, Carve(blk, b, want), b)
        /\ UsedBlock(Carve(blk, b, want), b)
        /\ Carve(blk, b, want)[b].size >= want
    BY <1>3, <2>3, CarveWellFormed
  <2>5. b \in Nat \ {0} /\ ~ UsedBlock(blk, b)
    BY <2>2, <2>3 DEF Fits, UsedBlock
  <2>6. ~ UsedBlock(block, b)
    BY <2>5, <1>3 DEF KeepsUsed, NULL
  <2>7. KeepsUsed(block, Carve(blk, b, want), b)
    <3> DEFINE new == Carve(blk, b, want)
    <3>1. ~ UsedBlock(block, 0) /\ ~ UsedBlock(new, 0)
      BY <2>4 DEF WellFormed, Typed, UsedBlock
    <3> HIDE DEF new
    <3>2. KeepsUsed(blk, new, b)
      BY <2>4 DEF new
    <3>3. ASSUME NEW x \in Nat, x # b
          PROVE  /\ UsedBlock(block, x) <=> UsedBlock(new, x)
                 /\ UsedBlock(block, x) => new[x].size = block[x].size
      <4>1. CASE x = 0
        BY <4>1, <3>1
      <4>2. CASE x # 0
        BY <4>2, <3>2, <3>3, <1>3 DEF KeepsUsed, NULL
      <4> QED BY <4>1, <4>2
    <3> QED BY <3>3 DEF KeepsUsed, new
  <2> QED BY <2>1, <2>4, <2>5, <2>6, <2>7
<1>4. CASE Fits(block, want) # {}
  <2>1. out = Taken(block, arenas, want)
    BY <1>4 DEF AllocOutcomes
  <2> QED BY <2>1, <1>2, <1>3, <1>4
<1>5. CASE Fits(block, want) = {} /\ Fits(tidy, want) # {}
  <2>1. out = Taken(tidy, arenas, want)
    BY <1>5 DEF AllocOutcomes
  <2> HIDE DEF tidy
  <2> QED BY <2>1, <1>1, <1>3, <1>5
<1>6. CASE Fits(block, want) = {} /\ Fits(tidy, want) = {}
  <2>1. \/ out = [heap |-> Heap(tidy, arenas), at |-> NULL]
        \/ \E at \in MallocAt(arenas, bytes) :
             out = Taken(Grown(tidy, at, bytes),
                         arenas \cup {[lo |-> at, hi |-> at + bytes]}, want)
    BY <1>6 DEF AllocOutcomes
  <2>2. CASE out = [heap |-> Heap(tidy, arenas), at |-> NULL]
    BY <2>2, <1>1 DEF Heap
  <2>3. CASE \E at \in MallocAt(arenas, bytes) :
               out = Taken(Grown(tidy, at, bytes),
                           arenas \cup {[lo |-> at, hi |-> at + bytes]}, want)
    <3>1. PICK at \in MallocAt(arenas, bytes) :
                 out = Taken(Grown(tidy, at, bytes),
                             arenas \cup {[lo |-> at, hi |-> at + bytes]}, want)
      BY <2>3
    <3> DEFINE new == Grown(tidy, at, bytes)
               ar  == arenas \cup {[lo |-> at, hi |-> at + bytes]}
    <3> HIDE DEF tidy
    <3>2. /\ WellFormed(new, ar) /\ KeepsUsed(tidy, new, NULL)
          /\ at \in Fits(new, want)
      BY <1>1, GrownWellFormed
    <3>3. KeepsUsed(block, new, NULL)
      BY <3>2, <1>1 DEF KeepsUsed
    <3> HIDE DEF new, ar
    <3>4. out = Taken(new, ar, want)
      BY <3>1 DEF new, ar
    <3> QED BY <3>2, <3>3, <3>4, <1>3
  <2> QED BY <2>1, <2>2, <2>3
<1> QED BY <1>4, <1>5, <1>6

------------------------------------------------------------------------------
(* The specification.                                                      *)

(***************************************************************************)
(* The inductive invariant: the tiling of the arenas, together with the    *)
(* agreement between the list's used blocks and what the engine holds.     *)
(* Neither half is inductive alone: mem_free is only safe on a block that  *)
(* is in use, and a block can only be found by its pointer while the       *)
(* arenas are tiled.                                                       *)
(***************************************************************************)
Agrees(blk, held) ==
  /\ DOMAIN held \subseteq Nat
  /\ \A p \in Nat : p \in DOMAIN held <=> /\ p - HDR \in Nat
                                          /\ UsedBlock(blk, p - HDR)
  /\ \A p \in DOMAIN held : held[p] \in Nat /\ held[p] <= blk[p - HDR].size

IInv ==
  /\ WellFormed(block, arenas)
  /\ Agrees(block, live)
  /\ allocs \in 0 .. CounterWidth - 1
  /\ frees \in 0 .. CounterWidth - 1

(* Agreement survives an operation that changes only what it returns.      *)
LEMMA AgreesHold ==
  ASSUME NEW old, NEW new, NEW held, Agrees(old, held),
         NEW b \in Nat, KeepsUsed(old, new, b), ~ UsedBlock(old, b),
         UsedBlock(new, b), NEW n \in Nat, n <= new[b].size
  PROVE  Agrees(new, Hold(b + HDR, n, held))
<1> DEFINE mine == Hold(b + HDR, n, held)
<1>1. HDR \in Nat
  BY HeapAssumption
<1>2. /\ DOMAIN mine = DOMAIN held \cup {b + HDR}
      /\ mine[b + HDR] = n
      /\ \A p \in DOMAIN held : p # b + HDR => mine[p] = held[p]
  BY DEF Hold
<1> HIDE DEF mine
<1>3. DOMAIN mine \subseteq Nat
  BY <1>1, <1>2 DEF Agrees
<1>4. ASSUME NEW p \in Nat
      PROVE  p \in DOMAIN mine <=> p - HDR \in Nat /\ UsedBlock(new, p - HDR)
  <2>1. CASE p = b + HDR
    <3>1. p - HDR = b
      BY <2>1, <1>1
    <3> QED BY <2>1, <3>1, <1>2
  <2>2. CASE p # b + HDR
    <3>1. p - HDR # b
      BY <2>2, <1>1
    <3>2. p - HDR \in Nat => (UsedBlock(old, p - HDR) <=> UsedBlock(new, p - HDR))
      BY <3>1 DEF KeepsUsed
    <3> QED BY <2>2, <3>2, <1>2 DEF Agrees
  <2> QED BY <2>1, <2>2
<1>5. ASSUME NEW p \in DOMAIN mine
      PROVE  mine[p] \in Nat /\ mine[p] <= new[p - HDR].size
  <2>1. CASE p = b + HDR
    <3>1. p - HDR = b
      BY <2>1, <1>1
    <3> QED BY <2>1, <3>1, <1>2
  <2>2. CASE p # b + HDR
    <3>1. p \in DOMAIN held /\ p \in Nat /\ p - HDR # b
      BY <2>2, <1>1, <1>2, <1>3
    <3>2. p - HDR \in Nat /\ UsedBlock(old, p - HDR)
      BY <3>1 DEF Agrees
    <3>3. new[p - HDR].size = old[p - HDR].size
      BY <3>1, <3>2 DEF KeepsUsed
    <3> QED BY <2>2, <3>1, <3>3, <1>2 DEF Agrees
  <2> QED BY <2>1, <2>2
<1> QED BY <1>3, <1>4, <1>5 DEF Agrees, mine

(* What is held and what is used still agree after an operation that       *)
(* leaves the used blocks alone, whatever it does to the free ones.        *)
LEMMA AgreesKept ==
  ASSUME NEW old, NEW new, NEW oldAr, NEW newAr, NEW held, Agrees(old, held),
         KeepsUsed(old, new, NULL),
         WellFormed(old, oldAr), WellFormed(new, newAr)
  PROVE  Agrees(new, held)
<1>1. ~ UsedBlock(old, 0) /\ ~ UsedBlock(new, 0)
  BY DEF WellFormed, Typed, UsedBlock
<1>2. \A x \in Nat : /\ UsedBlock(old, x) <=> UsedBlock(new, x)
                     /\ UsedBlock(old, x) => new[x].size = old[x].size
  BY <1>1 DEF KeepsUsed, NULL
<1> QED BY <1>2 DEF Agrees

(* They agree after a release: the block that is free now is the one that  *)
(* is no longer held.                                                      *)
LEMMA AgreesDrop ==
  ASSUME NEW old, NEW new, NEW held, Agrees(old, held), NEW p \in DOMAIN held,
         KeepsUsed(old, new, p - HDR), ~ UsedBlock(new, p - HDR)
  PROVE  Agrees(new, Drop(p, held))
<1> DEFINE rest == Drop(p, held)
<1>1. HDR \in Nat /\ p \in Nat
  BY HeapAssumption DEF Agrees
<1>2. /\ DOMAIN rest = DOMAIN held \ {p}
      /\ \A q \in DOMAIN rest : rest[q] = held[q]
  BY DEF Drop
<1> HIDE DEF rest
<1>3. ASSUME NEW q \in Nat
      PROVE  q \in DOMAIN rest <=> q - HDR \in Nat /\ UsedBlock(new, q - HDR)
  <2>1. CASE q = p
    BY <2>1, <1>2
  <2>2. CASE q # p
    <3>1. q - HDR # p - HDR
      BY <2>2, <1>1
    <3>2. q - HDR \in Nat => (UsedBlock(old, q - HDR) <=> UsedBlock(new, q - HDR))
      BY <3>1 DEF KeepsUsed
    <3> QED BY <2>2, <3>2, <1>2 DEF Agrees
  <2> QED BY <2>1, <2>2
<1>4. ASSUME NEW q \in DOMAIN rest
      PROVE  rest[q] \in Nat /\ rest[q] <= new[q - HDR].size
  <2>1. q \in DOMAIN held /\ q \in Nat /\ q - HDR # p - HDR
    BY <1>1, <1>2 DEF Agrees
  <2>2. q - HDR \in Nat /\ UsedBlock(old, q - HDR)
    BY <2>1 DEF Agrees
  <2>3. new[q - HDR].size = old[q - HDR].size
    BY <2>1, <2>2 DEF KeepsUsed
  <2> QED BY <2>1, <2>3, <1>2 DEF Agrees
<1>5. DOMAIN rest \subseteq Nat
  BY <1>2 DEF Agrees
<1> QED BY <1>3, <1>4, <1>5 DEF Agrees, rest

(* They agree after a resize in place, to what the block has room for.     *)
LEMMA AgreesResize ==
  ASSUME NEW blk, NEW held, Agrees(blk, held), NEW p \in DOMAIN held,
         NEW n \in Nat, n <= blk[p - HDR].size
  PROVE  Agrees(blk, Hold(p, n, held))
<1>1. /\ DOMAIN Hold(p, n, held) = DOMAIN held
      /\ \A q \in DOMAIN held :
           Hold(p, n, held)[q] = IF q = p THEN n ELSE held[q]
  BY DEF Hold
<1> QED BY <1>1 DEF Agrees

(* Taking one block and giving another back are independent.               *)
LEMMA HoldDrop ==
  ASSUME NEW held, NEW p, NEW q, p # q, NEW n
  PROVE  Drop(p, Hold(q, n, held)) = Hold(q, n, Drop(p, held))
BY DEF Drop, Hold

(* A block the engine holds is in use and is no sentinel.                  *)
LEMMA HeldIsUsed ==
  ASSUME NEW blk, NEW held, Agrees(blk, held), NEW p \in DOMAIN held
  PROVE  /\ p - HDR \in DOMAIN blk /\ p - HDR \in Nat
         /\ ~ Sentinel(blk, p - HDR)
         /\ UsedBlock(blk, p - HDR)
BY DEF Agrees, UsedBlock, Sentinel

(* A counter that wraps stays below its width.                             *)
LEMMA BumpInRange ==
  ASSUME NEW c \in 0 .. CounterWidth - 1
  PROVE  Bump(c, 1) \in 0 .. CounterWidth - 1
<1>1. CounterWidth \in Nat /\ CounterWidth > 0 /\ c + 1 \in Nat
  BY HeapAssumption
<1> QED BY <1>1 DEF Bump

(* The empty heap satisfies the invariant.                                 *)
LEMMA InitIInv == Init => IInv
<1> SUFFICES ASSUME Init PROVE IInv
  OBVIOUS
<1>1. DOMAIN block = {} /\ arenas = {} /\ DOMAIN live = {}
  BY DEF Init
<1>2. WellFormed(block, arenas)
  BY <1>1 DEF WellFormed, Typed, Ordered, InArena, Fenced, Contiguous
<1>3. Agrees(block, live)
  BY <1>1 DEF Agrees, UsedBlock
<1> QED BY <1>2, <1>3, HeapAssumption DEF Init, IInv

(* mem_alloc keeps it, whether it finds a block or not.                    *)
LEMMA AllocIInv ==
  ASSUME IInv, NEW n \in Requests, mem_alloc(n)
  PROVE  IInv'
<1>1. n \in Nat /\ Want(n) \in Nat /\ Want(n) >= n /\ Want(n) > 0
  BY HeapAssumption, WantCovers
<1>2. PICK out \in AllocOutcomes(Want(n)) :
        /\ SetHeap(out.heap)
        /\ IF out.at = NULL
           THEN UNCHANGED <<live, allocs>>
           ELSE /\ live' = Hold(out.at + HDR, n, live)
                /\ allocs' = Bump(allocs, 1)
  BY DEF mem_alloc
<1>3. block' = out.heap.blk /\ arenas' = out.heap.arenas /\ frees' = frees
  BY <1>2 DEF SetHeap, mem_alloc
<1>4. /\ WellFormed(block', arenas')
      /\ KeepsUsed(block, block', out.at)
      /\ out.at # NULL => /\ ~ UsedBlock(block, out.at)
                          /\ UsedBlock(block', out.at)
                          /\ block'[out.at].size >= Want(n)
                          /\ out.at \in Nat \ {0}
  BY <1>1, <1>3, AllocOutcome DEF IInv
<1>5. CASE out.at = NULL
  <2>1. Agrees(block', live)
    BY <1>4, <1>5, AgreesKept DEF IInv
  <2> QED BY <2>1, <1>2, <1>3, <1>4, <1>5 DEF IInv
<1>6. CASE out.at # NULL
  <2>1. n <= block'[out.at].size
    <3>1. UsedBlock(block', out.at) /\ block'[out.at].size \in Nat
      BY <1>4, <1>6 DEF UsedBlock, WellFormed, Typed
    <3> QED BY <3>1, <1>1, <1>4, <1>6
  <2>2. Agrees(block', Hold(out.at + HDR, n, live))
    BY <2>1, <1>1, <1>4, <1>6, AgreesHold DEF IInv
  <2>3. allocs' \in 0 .. CounterWidth - 1
    BY <1>2, <1>6, BumpInRange DEF IInv
  <2> QED BY <2>2, <2>3, <1>2, <1>3, <1>4, <1>6 DEF IInv
<1> QED BY <1>5, <1>6

(* mem_free keeps it.                                                      *)
LEMMA FreeIInv ==
  ASSUME IInv, NEW p \in DOMAIN live, mem_free(p)
  PROVE  IInv'
<1>1. /\ p - HDR \in DOMAIN block /\ ~ Sentinel(block, p - HDR)
      /\ UsedBlock(block, p - HDR)
  BY HeldIsUsed DEF IInv
<1>2. /\ WellFormed(block', arenas')
      /\ KeepsUsed(block, block', p - HDR)
      /\ ~ UsedBlock(block', p - HDR)
  BY <1>1, ReleaseWellFormed DEF IInv, mem_free
<1>3. Agrees(block', live')
  BY <1>2, AgreesDrop DEF IInv, mem_free
<1>4. allocs' = allocs /\ frees' \in 0 .. CounterWidth - 1
  BY BumpInRange DEF IInv, mem_free
<1> QED BY <1>2, <1>3, <1>4 DEF IInv

(* mem_realloc keeps it when the block has the room, or grows into it.     *)
LEMMA InPlaceIInv ==
  ASSUME IInv, NEW p \in DOMAIN live, NEW n \in Requests, ReallocInPlace(p, n)
  PROVE  IInv'
<1>1. n \in Nat /\ RoundUp(n) >= n /\ RoundUp(n) \in Nat
  BY HeapAssumption, WantCovers
<1>2. block[p - HDR].size \in Nat
  BY HeldIsUsed DEF IInv, WellFormed, Typed
<1>3. n <= block[p - HDR].size
  BY <1>1, <1>2 DEF ReallocInPlace
<1>4. Agrees(block, Hold(p, n, live))
  BY <1>1, <1>3, AgreesResize DEF IInv
<1> QED BY <1>4 DEF IInv, ReallocInPlace

(* mem_realloc keeps it when the block moves: an allocation, then a        *)
(* release.                                                                *)
LEMMA MovingIInv ==
  ASSUME IInv, NEW p \in DOMAIN live, NEW n \in Requests, ReallocByMoving(p, n)
  PROVE  IInv'
<1>1. n \in Nat /\ Want(n) \in Nat /\ Want(n) >= n /\ Want(n) > 0
  BY HeapAssumption, WantCovers
<1>2. PICK out \in AllocOutcomes(Want(n)) :
        IF out.at = NULL
        THEN SetHeap(out.heap) /\ UNCHANGED <<live, allocs, frees>>
        ELSE /\ SetHeap(Heap(Release(out.heap.blk, p - HDR), out.heap.arenas))
             /\ live' = Hold(out.at + HDR, n, Drop(p, live))
             /\ allocs' = Bump(allocs, 1)
             /\ frees' = Bump(frees, 1)
  BY DEF ReallocByMoving
<1> DEFINE mid == out.heap.blk
<1>3. /\ WellFormed(mid, out.heap.arenas)
      /\ KeepsUsed(block, mid, out.at)
      /\ out.at # NULL => /\ ~ UsedBlock(block, out.at)
                          /\ UsedBlock(mid, out.at)
                          /\ mid[out.at].size >= Want(n)
                          /\ out.at \in Nat \ {0}
  BY <1>1, AllocOutcome DEF IInv
<1> HIDE DEF mid
<1>4. CASE out.at = NULL
  <2>1. block' = mid /\ arenas' = out.heap.arenas
    BY <1>2, <1>4 DEF SetHeap, mid
  <2>2. Agrees(block', live)
    BY <2>1, <1>3, <1>4, AgreesKept DEF IInv
  <2> QED BY <2>1, <2>2, <1>2, <1>3, <1>4 DEF IInv
<1>5. CASE out.at # NULL
  <2> DEFINE q   == out.at + HDR
             two == Hold(q, n, live)
  <2>1. block' = Release(mid, p - HDR) /\ arenas' = out.heap.arenas
    BY <1>2, <1>5 DEF SetHeap, Heap, mid
  <2>2. n <= mid[out.at].size
    <3>1. mid[out.at].size \in Nat
      BY <1>3, <1>5 DEF UsedBlock, WellFormed, Typed
    <3> QED BY <3>1, <1>1, <1>3, <1>5
  <2>3. Agrees(mid, two)
    BY <2>2, <1>1, <1>3, <1>5, AgreesHold DEF IInv
  <2>4. p # q /\ p \in DOMAIN two
    <3>1. UsedBlock(block, p - HDR) /\ p \in Nat
      BY HeldIsUsed DEF IInv, Agrees
    <3>2. p - HDR # out.at
      BY <3>1, <1>3, <1>5
    <3>3. p # q
      BY <3>1, <3>2, <1>3, <1>5, HeapAssumption
    <3> QED BY <3>3 DEF Hold
  <2> HIDE DEF two
  <2>5. p - HDR \in DOMAIN mid /\ ~ Sentinel(mid, p - HDR)
    BY <2>3, <2>4, HeldIsUsed
  <2>6. /\ WellFormed(block', arenas')
        /\ KeepsUsed(mid, block', p - HDR)
        /\ ~ UsedBlock(block', p - HDR)
    BY <2>1, <2>5, <1>3, ReleaseWellFormed
  <2>7. Agrees(block', Drop(p, two))
    BY <2>3, <2>4, <2>6, AgreesDrop
  <2>8. live' = Drop(p, two)
    BY <2>4, <1>2, <1>5, HoldDrop DEF two
  <2>9. allocs' \in 0 .. CounterWidth - 1 /\ frees' \in 0 .. CounterWidth - 1
    BY <1>2, <1>5, BumpInRange DEF IInv
  <2> QED BY <2>6, <2>7, <2>8, <2>9 DEF IInv
<1> QED BY <1>4, <1>5

(* Every operation keeps the invariant.                                    *)
LEMMA NextIInv == IInv /\ [Next]_vars => IInv'
<1> SUFFICES ASSUME IInv, [Next]_vars PROVE IInv'
  OBVIOUS
<1>1. CASE \E n \in Requests : mem_alloc(n)
  BY <1>1, AllocIInv
<1>2. CASE \E p \in DOMAIN live : mem_free(p) \/ ReallocToNothing(p)
  BY <1>2, FreeIInv DEF ReallocToNothing
<1>3. CASE \E p \in DOMAIN live, n \in Requests : ReallocInPlace(p, n)
  BY <1>3, InPlaceIInv
<1>4. CASE \E p \in DOMAIN live, n \in Requests : ReallocByMoving(p, n)
  BY <1>4, MovingIInv
<1>5. CASE mem_atari_reset_counters
  BY <1>5, HeapAssumption DEF mem_atari_reset_counters, IInv
<1>6. CASE UNCHANGED vars
  BY <1>6 DEF vars, IInv
<1> QED BY <1>1, <1>2, <1>3, <1>4, <1>5, <1>6 DEF Next

(* So it holds in every reachable state.                                   *)
LEMMA SpecIInv == Spec => []IInv
BY InitIInv, NextIInv, PTL DEF Spec

------------------------------------------------------------------------------
(***************************************************************************)
(* Type correctness of the heap of mem_gem4xe.c.                           *)
(***************************************************************************)
THEOREM HeapTypeOK == Spec => []TypeOK
<1>1. IInv => TypeOK
  <2> SUFFICES ASSUME IInv PROVE TypeOK
    OBVIOUS
  <2>1. DOMAIN live \subseteq Nat \ {0}
    <3>1. ASSUME NEW p \in DOMAIN live PROVE p # 0
      BY HeapAssumption DEF IInv, Agrees
    <3> QED BY <3>1 DEF IInv, Agrees
  <2> QED BY <2>1 DEF IInv, WellFormed, Agrees, TypeOK
<1> QED BY <1>1, SpecIInv, PTL

(***************************************************************************)
(* Splits, merges and new arenas keep blocks and headers tiling every      *)
(* arena from its base to its sentinel: no overlap, no block across a      *)
(* join, no byte lost from the list.                                       *)
(***************************************************************************)
THEOREM HeapTiled == Spec => []ArenasTiled
<1>1. IInv => ArenasTiled
  BY DEF IInv, ArenasTiled
<1> QED BY <1>1, SpecIInv, PTL

(***************************************************************************)
(* What the engine holds and what the list marks used are the same blocks, *)
(* each with room for what was asked.                                      *)
(***************************************************************************)
THEOREM HeldBlocksUsed == Spec => []LiveBlocksUsed
<1>1. ASSUME IInv PROVE LiveBlocksUsed
  <2> DEFINE used == {h \in DOMAIN block : block[h].used /\ block[h].size # 0}
  <2>1. HDR \in Nat /\ DOMAIN live \subseteq Nat /\ DOMAIN block \subseteq Nat
    BY <1>1, HeapAssumption DEF IInv, Agrees, WellFormed, Typed
  <2>2. ASSUME NEW p \in DOMAIN live
        PROVE  p \in {b + HDR : b \in used} /\ live[p] <= block[p - HDR].size
    <3>1. p - HDR \in used /\ live[p] <= block[p - HDR].size
      BY <1>1 DEF IInv, Agrees, UsedBlock
    <3>2. p = (p - HDR) + HDR
      BY <2>1
    <3> QED BY <3>1, <3>2
  <2>3. ASSUME NEW b \in used
        PROVE  b + HDR \in DOMAIN live
    <3>1. b \in Nat /\ b + HDR \in Nat /\ (b + HDR) - HDR = b
      BY <2>1
    <3> QED BY <3>1, <1>1 DEF IInv, Agrees, UsedBlock
  <2> QED BY <2>2, <2>3 DEF LiveBlocksUsed
<1> QED BY <1>1, SpecIInv, PTL

------------------------------------------------------------------------------
(* The memory seam's promise.                                              *)

(* Where a held payload lies: between its header and the end of its block. *)
LEMMA PayloadInBlock ==
  ASSUME NEW blk, NEW ar, WellFormed(blk, ar),
         NEW held, Agrees(blk, held), NEW p \in DOMAIN held
  PROVE  /\ p - HDR \in DOMAIN blk /\ p - HDR \in Nat /\ p \in 1 .. HeapTop
         /\ p + Promise!Bytes(held[p]) <= End(blk, p - HDR)
         /\ held[p] \in Nat
<1> DEFINE b == p - HDR
<1>1. /\ b \in DOMAIN blk /\ b \in Nat /\ blk[b].size # 0 /\ p \in Nat
      /\ held[p] \in Nat /\ held[p] <= blk[b].size
  BY DEF Agrees, UsedBlock
<1>2. b > 0 /\ blk[b].size \in Nat /\ HDR \in Nat /\ HDR > 0 /\ HeapTop \in Nat
  BY <1>1, HeapAssumption DEF WellFormed, Typed
<1>3. PICK a \in ar : a.lo <= b /\ End(blk, b) <= a.hi
  BY <1>1 DEF WellFormed, InArena
<1>4. a.hi \in 0 .. HeapTop
  BY DEF WellFormed, Typed
<1>5. Promise!Bytes(held[p]) <= blk[b].size /\ Promise!Bytes(held[p]) \in Nat
  BY <1>1, <1>2 DEF Promise!Bytes
<1>6. p = b + HDR
  BY <1>1, <1>2
<1> HIDE DEF b
<1>7. p + Promise!Bytes(held[p]) <= End(blk, b)
  BY <1>1, <1>2, <1>5, <1>6 DEF End
<1>8. p >= 1 /\ p <= HeapTop
  BY <1>1, <1>2, <1>3, <1>4, <1>6 DEF End
<1> QED BY <1>1, <1>7, <1>8 DEF b

(* Payloads of different blocks share no byte.                             *)
LEMMA PayloadsApart ==
  ASSUME NEW blk, NEW ar, WellFormed(blk, ar), NEW held, Agrees(blk, held),
         NEW p \in DOMAIN held, NEW q \in DOMAIN held, p # q
  PROVE  Promise!Apart(p, held[p], q, held[q])
<1>1. /\ p - HDR \in DOMAIN blk /\ p - HDR \in Nat /\ p \in Nat
      /\ p + Promise!Bytes(held[p]) <= End(blk, p - HDR)
      /\ held[p] \in Nat /\ Promise!Bytes(held[p]) \in Nat
      /\ End(blk, p - HDR) \in Nat
  BY PayloadInBlock, HeapAssumption
     DEF End, WellFormed, Typed, Promise!Bytes
<1>2. /\ q - HDR \in DOMAIN blk /\ q - HDR \in Nat /\ q \in Nat
      /\ q + Promise!Bytes(held[q]) <= End(blk, q - HDR)
      /\ held[q] \in Nat /\ Promise!Bytes(held[q]) \in Nat
      /\ End(blk, q - HDR) \in Nat
  BY PayloadInBlock, HeapAssumption
     DEF End, WellFormed, Typed, Promise!Bytes
<1>3. HDR \in Nat
  BY HeapAssumption
<1>4. CASE p < q
  <2>1. p - HDR < q - HDR
    BY <1>1, <1>2, <1>3, <1>4
  <2>2. End(blk, p - HDR) <= q - HDR
    BY <2>1, <1>1, <1>2 DEF WellFormed, Ordered
  <2>3. p + Promise!Bytes(held[p]) <= q
    BY <2>2, <1>1, <1>2, <1>3
  <2> QED BY <2>3 DEF Promise!Apart
<1>5. CASE q < p
  <2>1. q - HDR < p - HDR
    BY <1>1, <1>2, <1>3, <1>5
  <2>2. End(blk, q - HDR) <= p - HDR
    BY <2>1, <1>1, <1>2 DEF WellFormed, Ordered
  <2>3. q + Promise!Bytes(held[q]) <= p
    BY <2>2, <1>1, <1>2, <1>3
  <2> QED BY <2>3 DEF Promise!Apart
<1> QED BY <1>1, <1>2, <1>4, <1>5

(***************************************************************************)
(* Two allocations the engine holds never share a byte.                    *)
(***************************************************************************)
THEOREM HeldDisjoint == Spec => []LiveDisjoint
<1>1. IInv => LiveDisjoint
  BY PayloadsApart DEF IInv, LiveDisjoint, Promise!Disjoint
<1> QED BY <1>1, SpecIInv, PTL

(* What mem_alloc carves out shares no byte with what is held already - in *)
(* a moving reallocation that includes the block still being copied from.  *)
LEMMA FreshOutcome ==
  ASSUME IInv, NEW n \in Requests,
         NEW out \in AllocOutcomes(Want(n)), out.at # NULL
  PROVE  /\ out.at + HDR \in 1 .. HeapTop
         /\ out.at + HDR \notin DOMAIN live
         /\ Promise!Fresh(out.at + HDR, n)
<1> DEFINE new  == out.heap.blk
           q    == out.at + HDR
           mine == Hold(q, n, live)
<1>1. n \in Nat /\ Want(n) \in Nat /\ Want(n) >= n /\ Want(n) > 0
  BY HeapAssumption, WantCovers
<1>2. /\ WellFormed(new, out.heap.arenas)
      /\ KeepsUsed(block, new, out.at)
      /\ ~ UsedBlock(block, out.at) /\ UsedBlock(new, out.at)
      /\ new[out.at].size >= Want(n)
      /\ out.at \in Nat \ {0}
  BY <1>1, AllocOutcome DEF IInv
<1> HIDE DEF new
<1>3. n <= new[out.at].size
  <2>1. new[out.at].size \in Nat
    BY <1>2 DEF UsedBlock, WellFormed, Typed
  <2> QED BY <2>1, <1>1, <1>2
<1>4. Agrees(new, mine)
  BY <1>1, <1>2, <1>3, AgreesHold DEF IInv
<1>5. q \notin DOMAIN live
  <2>1. q \in Nat /\ q - HDR = out.at
    BY <1>2, HeapAssumption
  <2> QED BY <2>1, <1>2 DEF IInv, Agrees
<1>6. /\ DOMAIN mine = DOMAIN live \cup {q}
      /\ mine[q] = n
      /\ \A p \in DOMAIN live : mine[p] = live[p]
  BY <1>5 DEF Hold
<1> HIDE DEF mine
<1>7. q \in 1 .. HeapTop
  BY <1>2, <1>4, <1>6, PayloadInBlock
<1>8. ASSUME NEW p \in DOMAIN live
      PROVE  Promise!Apart(q, n, p, live[p])
  <2>1. p # q
    BY <1>5
  <2>2. Promise!Apart(q, mine[q], p, mine[p])
    BY <2>1, <1>2, <1>4, <1>6, PayloadsApart
  <2> QED BY <2>2, <1>6
<1>9. Promise!Fresh(q, n)
  BY <1>8 DEF Promise!Fresh
<1> QED BY <1>5, <1>7, <1>9

(* The allocator's Hold and Drop are the heap's.                           *)
LEMMA SameBooks ==
  ASSUME NEW p, NEW n, NEW held
  PROVE  /\ Promise!Hold(p, n, held) = Hold(p, n, held)
         /\ Promise!Drop(p, held) = Drop(p, held)
BY DEF Hold, Drop, Promise!Hold, Promise!Drop

(* mem_alloc is a step of Allocator.                                       *)
LEMMA AllocPromised ==
  ASSUME IInv, NEW n \in Requests, mem_alloc(n)
  PROVE  Promise!Next
<1>1. PICK out \in AllocOutcomes(Want(n)) :
        IF out.at = NULL THEN UNCHANGED live
        ELSE live' = Hold(out.at + HDR, n, live)
  BY DEF mem_alloc
<1>2. CASE out.at = NULL
  BY <1>1, <1>2 DEF Promise!Next, Promise!Alloc
<1>3. CASE out.at # NULL
  <2>1. Promise!Fresh(out.at + HDR, n) /\ out.at + HDR \in 1 .. HeapTop
    BY <1>3, FreshOutcome
  <2>2. live' = Promise!Hold(out.at + HDR, n, live)
    BY <1>1, <1>3, SameBooks
  <2>3. Promise!Alloc(n)
    BY <2>1, <2>2 DEF Promise!Alloc
  <2> QED BY <2>3 DEF Promise!Next
<1> QED BY <1>2, <1>3

(* mem_free is a step of Allocator.                                        *)
LEMMA FreePromised ==
  ASSUME NEW p \in DOMAIN live, mem_free(p)
  PROVE  Promise!Next
BY SameBooks DEF mem_free, Promise!Next, Promise!Free

(* mem_realloc is a step of Allocator.                                     *)
LEMMA ReallocPromised ==
  ASSUME IInv, NEW p \in DOMAIN live, NEW n \in Requests,
         ReallocInPlace(p, n) \/ ReallocByMoving(p, n)
  PROVE  Promise!Next
<1>1. ASSUME Promise!Realloc(p, n) PROVE Promise!Next
  BY <1>1 DEF Promise!Next
<1>2. CASE ReallocInPlace(p, n)
  BY <1>1, <1>2, SameBooks DEF ReallocInPlace, Promise!Realloc
<1>3. CASE ReallocByMoving(p, n)
  <2>1. PICK out \in AllocOutcomes(Want(n)) :
          IF out.at = NULL THEN UNCHANGED live
          ELSE live' = Hold(out.at + HDR, n, Drop(p, live))
    BY <1>3 DEF ReallocByMoving
  <2>2. n # 0
    BY <1>3 DEF ReallocByMoving
  <2>3. CASE out.at = NULL
    BY <1>1, <2>1, <2>2, <2>3 DEF Promise!Realloc
  <2>4. CASE out.at # NULL
    <3>1. Promise!Fresh(out.at + HDR, n) /\ out.at + HDR \in 1 .. HeapTop
      BY <2>4, FreshOutcome
    <3>2. live' = Promise!Hold(out.at + HDR, n, Promise!Drop(p, live))
      BY <2>1, <2>4, SameBooks
    <3>3. Promise!Realloc(p, n)
      BY <2>2, <3>1, <3>2 DEF Promise!Realloc
    <3> QED BY <1>1, <3>3
  <2> QED BY <2>3, <2>4
<1> QED BY <1>2, <1>3

(***************************************************************************)
(* The heap of mem_gem4xe.c implements the memory seam of platform.h:      *)
(* every step allocates bytes that overlap nothing held, frees, resizes or *)
(* moves as the Allocator allows, or changes nothing the engine can see.   *)
(***************************************************************************)
THEOREM HeapImplementsAllocator == Spec => ImplementsAllocator
<1>1. Init => Promise!Init
  BY DEF Init, Promise!Init
<1>2. IInv /\ [Next]_vars => [Promise!Next]_live
  <2> SUFFICES ASSUME IInv, [Next]_vars PROVE Promise!Next \/ live' = live
    OBVIOUS
  <2>1. CASE \E n \in Requests : mem_alloc(n)
    BY <2>1, AllocPromised
  <2>2. CASE \E p \in DOMAIN live : mem_free(p) \/ ReallocToNothing(p)
    BY <2>2, FreePromised DEF ReallocToNothing
  <2>3. CASE \E p \in DOMAIN live, n \in Requests :
               ReallocInPlace(p, n) \/ ReallocByMoving(p, n)
    BY <2>3, ReallocPromised
  <2>4. CASE mem_atari_reset_counters
    BY <2>4 DEF mem_atari_reset_counters
  <2>5. CASE UNCHANGED vars
    BY <2>5 DEF vars
  <2> QED BY <2>1, <2>2, <2>3, <2>4, <2>5 DEF Next
<1> QED
  BY <1>1, <1>2, SpecIInv, PTL DEF Spec, ImplementsAllocator, Promise!Spec

------------------------------------------------------------------------------
(* Alignment: what a split leaves over, and where.                         *)

(* A number is a multiple of d and a remainder below d.                    *)
LEMMA ModOf ==
  ASSUME NEW x \in Int, NEW d \in Nat \ {0}
  PROVE  (x % d) \in 0 .. d - 1 /\ \E k \in Int : x = d * k + (x % d)
<1>1. (x % d) \in 0 .. d - 1
  OBVIOUS
<1>2. x \div d \in Int
  OBVIOUS
<1>3. x = d * (x \div d) + (x % d)
  OBVIOUS
<1> QED BY <1>1, <1>2, <1>3

(* ... and the remainder is the only one there is.                         *)
LEMMA ModUnique ==
  ASSUME NEW d \in Nat \ {0}, NEW k \in Int, NEW r \in 0 .. d - 1
  PROVE  (d * k + r) % d = r
OBVIOUS

(* Two multiples of d taken together.                                      *)
LEMMA Distribute ==
  ASSUME NEW d \in Int, NEW j \in Int, NEW k \in Int, NEW r \in Int
  PROVE  /\ d * j + (d * k + r) = d * (j + k) + r
         /\ (d * k + r) - d * j = d * (k - j) + r
OBVIOUS

(* Adding or taking off a multiple of d leaves the remainder alone.        *)
LEMMA ModZero ==
  ASSUME NEW d \in Nat \ {0}, NEW x \in Int, NEW y \in Int, x % d = 0
  PROVE  (x + y) % d = y % d /\ (y - x) % d = y % d
<1>1. PICK j \in Int : x = d * j
  <2>1. PICK j \in Int : x = d * j + (x % d)
    BY ModOf
  <2>2. d * j \in Int
    OBVIOUS
  <2> QED BY <2>1, <2>2
<1>2. PICK k \in Int : y = d * k + (y % d)
  BY ModOf
<1>3. y % d \in 0 .. d - 1
  BY ModOf
<1> DEFINE r == y % d
<1> HIDE DEF r
<1>5. x + y = d * (j + k) + r /\ y - x = d * (k - j) + r
  <2>1. r \in Int
    BY <1>3 DEF r
  <2>2. y = d * k + r
    BY <1>2 DEF r
  <2> QED BY <1>1, <2>1, <2>2, Distribute
<1>6. j + k \in Int /\ k - j \in Int /\ r \in 0 .. d - 1
  BY <1>3 DEF r
<1>7. (d * (j + k) + r) % d = r
  BY <1>6, ModUnique
<1>8. (d * (k - j) + r) % d = r
  BY <1>6, ModUnique
<1> QED BY <1>5, <1>7, <1>8 DEF r

(* Without its remainder a number is a multiple of d.                      *)
LEMMA ModSame ==
  ASSUME NEW d \in Nat \ {0}, NEW x \in Int
  PROVE  /\ x % d \in Int /\ (x - (x % d)) \in Int
         /\ (x - (x % d)) % d = 0
<1>1. PICK k \in Int : x = d * k + (x % d)
  BY ModOf
<1>2. (x % d) \in 0 .. d - 1
  BY ModOf
<1>3. x - (x % d) = d * k + 0
  <2>1. d * k \in Int /\ x % d \in Int
    BY <1>2
  <2> QED BY <1>1, <2>1
<1>4. (d * k + 0) % d = 0
  BY ModUnique
<1>5. x - (x % d) \in Int
  BY <1>2
<1> QED BY <1>2, <1>3, <1>4, <1>5
(* A multiple of d above zero is at least d.                               *)
LEMMA AtLeastOne ==
  ASSUME NEW d \in Nat \ {0}, NEW x \in Int, x > 0, x % d = 0
  PROVE  x >= d
<1>1. PICK k \in Int : x = d * k + (x % d)
  BY ModOf
<1>2. d * k > 0
  <2>1. d * k \in Int
    OBVIOUS
  <2> QED BY <1>1, <2>1
<1>3. k >= 1
  BY <1>2
<1>4. d * k >= d
  BY <1>3
<1>5. d * k \in Int
  OBVIOUS
<1> QED BY <1>1, <1>4, <1>5

(***************************************************************************)
(* What NoScraps needs of every state to survive the next one: a block in  *)
(* use is released later, so its size matters as much as a free one's, and *)
(* a free block is carved later, so its address does.  Only the sentinels, *)
(* whose place depends on ARENA_BYTES, are exempt.                         *)
(***************************************************************************)
Sized(blk) == \A b \in DOMAIN blk : blk[b].size # 0 => blk[b].size >= ALIGN
OnGrid(blk, ar) ==
  (\A a \in ar : a.lo % ALIGN = 0) =>
    \A b \in DOMAIN blk : blk[b].size # 0 => b % ALIGN = 0
Neat(blk, ar) == Sized(blk) /\ OnGrid(blk, ar)

(* What mem_alloc looks for is a whole, nonzero number of units.           *)
LEMMA WantOnGrid ==
  ASSUME NEW n \in Nat
  PROVE  Want(n) \in Nat /\ Want(n) % ALIGN = 0 /\ Want(n) >= ALIGN
<1> DEFINE k == IF n = 0 THEN 1 ELSE n
           m == k + (ALIGN - 1)
<1>1. ALIGN \in Nat \ {0} /\ m \in Int
  BY HeapAssumption
<1>2. Want(n) = m - (m % ALIGN)
  BY DEF Want, RoundUp
<1> HIDE DEF m
<1>3. Want(n) % ALIGN = 0
  BY <1>1, <1>2, ModSame
<1>4. Want(n) \in Nat /\ Want(n) > 0
  BY WantCovers
<1> QED BY <1>1, <1>3, <1>4, AtLeastOne

(* Merging keeps headers where they are and makes blocks larger.           *)
LEMMA NeatMerged ==
  ASSUME NEW blk, NEW ar, WellFormed(blk, ar), Neat(blk, ar),
         NEW new, DOMAIN new \subseteq DOMAIN blk,
         \A x \in DOMAIN new : /\ new[x].size \in Nat
                               /\ new[x].size # 0 =>
                                    /\ blk[x].size # 0
                                    /\ blk[x].size <= new[x].size
  PROVE  Neat(new, ar)
<1>1. ALIGN \in Nat /\ \A x \in DOMAIN blk : blk[x].size \in Nat
  BY HeapAssumption DEF WellFormed, Typed
<1>2. Sized(new)
  <2>1. ASSUME NEW x \in DOMAIN new, new[x].size # 0
        PROVE  new[x].size >= ALIGN
    <3>1. blk[x].size >= ALIGN /\ blk[x].size <= new[x].size
      BY <2>1 DEF Neat, Sized
    <3> QED BY <3>1, <1>1
  <2> QED BY <2>1 DEF Sized
<1>3. OnGrid(new, ar)
  BY DEF Neat, OnGrid
<1> QED BY <1>2, <1>3 DEF Neat

(* A release leaves no scrap and no block off the grid.                    *)
LEMMA NeatReleased ==
  ASSUME NEW blk, NEW ar, WellFormed(blk, ar), Neat(blk, ar),
         NEW b \in DOMAIN blk, ~ Sentinel(blk, b)
  PROVE  Neat(Release(blk, b), ar)
<1> DEFINE u   == NextUsed(blk, b)
           new == Release(blk, b)
<1>1. u \in Nat /\ End(blk, b) <= u
  BY NextUsedAbove
<1>2. /\ b \in Nat /\ HDR \in Nat /\ ALIGN \in Nat
      /\ \A x \in DOMAIN blk : blk[x].size \in Nat
      /\ blk[b].size # 0
  BY HeapAssumption DEF WellFormed, Typed, Fenced, Sentinel
<1>3. /\ DOMAIN new \subseteq DOMAIN blk
      /\ b \in DOMAIN new => new[b].size = u - b - HDR
      /\ \A x \in DOMAIN new : x # b => new[x] = blk[x]
  BY DEF Release
<1> HIDE DEF u, new
<1>4. u - b - HDR \in Nat /\ blk[b].size <= u - b - HDR
  BY <1>1, <1>2 DEF End
<1>5. \A x \in DOMAIN new : /\ new[x].size \in Nat
                            /\ new[x].size # 0 =>
                                 blk[x].size # 0 /\ blk[x].size <= new[x].size
  BY <1>2, <1>3, <1>4
<1> QED BY <1>3, <1>5, NeatMerged DEF new

(* Nor does coalescing.                                                    *)
LEMMA NeatCoalesced ==
  ASSUME NEW blk, NEW ar, WellFormed(blk, ar), Neat(blk, ar)
  PROVE  Neat(Coalesced(blk), ar)
<1> DEFINE new == Coalesced(blk)
<1>1. /\ DOMAIN blk \subseteq Nat /\ HDR \in Nat /\ ALIGN \in Nat
      /\ \A x \in DOMAIN blk : blk[x].size \in Nat
  BY HeapAssumption DEF WellFormed, Typed
<1>2. /\ DOMAIN new \subseteq DOMAIN blk
      /\ \A x \in DOMAIN new : blk[x].used => new[x] = blk[x]
      /\ \A x \in DOMAIN new : ~ blk[x].used =>
           new[x].size = NextUsed(blk, x) - x - HDR
  BY DEF Coalesced
<1> HIDE DEF new
<1>3. ASSUME NEW x \in DOMAIN new
      PROVE  /\ new[x].size \in Nat
             /\ new[x].size # 0 => blk[x].size # 0 /\ blk[x].size <= new[x].size
  <2>1. CASE blk[x].used
    BY <2>1, <1>1, <1>2
  <2>2. CASE ~ blk[x].used
    <3>1. x \in DOMAIN blk /\ ~ Sentinel(blk, x)
      BY <2>2, <1>2 DEF Sentinel
    <3>2. NextUsed(blk, x) \in Nat /\ End(blk, x) <= NextUsed(blk, x)
      BY <3>1, NextUsedAbove
    <3>3. blk[x].size # 0
      BY <2>2, <3>1 DEF WellFormed, Fenced
    <3> QED BY <2>2, <3>1, <3>2, <3>3, <1>1, <1>2 DEF End
  <2> QED BY <2>1, <2>2
<1> QED BY <1>2, <1>3, NeatMerged DEF new

(* A split leaves either nothing or a block of ALIGN bytes and more, and   *)
(* the header of that block lies a whole number of units further on.       *)
LEMMA NeatCarved ==
  ASSUME NEW blk, NEW ar, WellFormed(blk, ar), Neat(blk, ar),
         NEW want \in Nat, want >= ALIGN, want % ALIGN = 0,
         NEW b \in Fits(blk, want)
  PROVE  Neat(Carve(blk, b, want), ar)
<1> DEFINE new  == Carve(blk, b, want)
           rest == b + HDR + want
           left == blk[b].size - want - HDR
<1>1. /\ DOMAIN blk \subseteq Nat
      /\ \A x \in DOMAIN blk : blk[x].size \in Nat
      /\ HDR \in Nat /\ ALIGN \in Nat \ {0} /\ HDR % ALIGN = 0
  BY HeapAssumption DEF WellFormed, Typed
<1>2. b \in DOMAIN blk /\ blk[b].size >= want /\ blk[b].size # 0
  BY <1>1 DEF Fits
<1>3. CASE blk[b].size < want + HDR + ALIGN
  <2>1. /\ DOMAIN new = DOMAIN blk
        /\ \A x \in DOMAIN blk : new[x].size = blk[x].size
    BY <1>2, <1>3 DEF Carve
  <2> HIDE DEF new
  <2> QED BY <2>1 DEF Neat, Sized, OnGrid, new
<1>4. CASE ~ (blk[b].size < want + HDR + ALIGN)
  <2>1. /\ DOMAIN new \subseteq DOMAIN blk \cup {rest}
        /\ rest # b /\ new[b].size = want
        /\ new[rest].size = left
        /\ \A x \in DOMAIN new : x # b /\ x # rest => new[x] = blk[x]
    BY <1>1, <1>2, <1>4 DEF Carve
  <2>2. left >= ALIGN
    BY <1>1, <1>2, <1>4
  <2> HIDE DEF new, left
  <2>3. Sized(new)
    <3>1. ASSUME NEW x \in DOMAIN new, new[x].size # 0
          PROVE  new[x].size >= ALIGN
      <4>1. CASE x = b \/ x = rest
        BY <4>1, <2>1, <2>2
      <4>2. CASE x # b /\ x # rest
        BY <4>2, <3>1, <2>1 DEF Neat, Sized
      <4> QED BY <4>1, <4>2
    <3> QED BY <3>1 DEF Sized
  <2>4. ASSUME \A a \in ar : a.lo % ALIGN = 0
        PROVE  \A x \in DOMAIN new : new[x].size # 0 => x % ALIGN = 0
    <3>1. b % ALIGN = 0
      BY <2>4, <1>2 DEF Neat, OnGrid
    <3>2. rest % ALIGN = 0
      <4>1. (HDR + want) % ALIGN = 0
        <5>1. HDR \in Int /\ want \in Int
          BY <1>1
        <5> QED BY <5>1, <1>1, ModZero
      <4>2. HDR + want \in Int /\ b \in Int /\ rest = b + (HDR + want)
        BY <1>1, <1>2
      <4> HIDE DEF rest
      <4> QED BY <4>1, <4>2, <3>1, <1>1, ModZero
    <3>3. ASSUME NEW x \in DOMAIN new, new[x].size # 0
          PROVE  x % ALIGN = 0
      <4>1. CASE x = b \/ x = rest
        BY <4>1, <3>1, <3>2
      <4>2. CASE x # b /\ x # rest
        BY <4>2, <3>3, <2>1, <2>4 DEF Neat, OnGrid
      <4> QED BY <4>1, <4>2
    <3> QED BY <3>3
  <2> QED BY <2>3, <2>4 DEF Neat, OnGrid, new
<1> QED BY <1>3, <1>4

(* The block of a new arena is large enough, and starts where Malloc said. *)
LEMMA NeatGrown ==
  ASSUME NEW blk, NEW ar, WellFormed(blk, ar), Neat(blk, ar),
         NEW want \in Nat, want >= ALIGN,
         NEW at \in MallocAt(ar, ArenaBytes(want))
  PROVE  Neat(Grown(blk, at, ArenaBytes(want)),
              ar \cup {[lo |-> at, hi |-> at + ArenaBytes(want)]})
<1> DEFINE bytes == ArenaBytes(want)
           new   == Grown(blk, at, bytes)
           end   == at + bytes - HDR
           area  == [lo |-> at, hi |-> at + bytes]
           all   == ar \cup {area}
<1>1. HDR \in Nat /\ ALIGN \in Nat /\ bytes \in Nat /\ bytes >= want + HDR + HDR
  BY ArenaBytesSuffice, HeapAssumption
<1> HIDE DEF bytes
<1>2. bytes - HDR - HDR >= ALIGN
  BY <1>1
<1>3. ASSUME NEW x \in DOMAIN new
      PROVE  \/ x = end /\ new[x].size = 0
             \/ x = at /\ new[x].size = bytes - HDR - HDR
             \/ x \in DOMAIN blk /\ new[x] = blk[x]
  BY DEF Grown
<1> HIDE DEF new, end
<1>4. Sized(new)
  BY <1>2, <1>3 DEF Neat, Sized
<1>5. ASSUME \A a \in all : a.lo % ALIGN = 0
      PROVE  \A x \in DOMAIN new : new[x].size # 0 => x % ALIGN = 0
  <2>1. area.lo % ALIGN = 0 /\ area.lo = at
    BY <1>5
  <2>2. \A a \in ar : a.lo % ALIGN = 0
    BY <1>5
  <2> QED BY <1>3, <2>1, <2>2 DEF Neat, OnGrid
<1> QED BY <1>4, <1>5 DEF Neat, OnGrid, new, bytes

(* However mem_alloc ends, the heap it leaves is neat.                     *)
LEMMA NeatOutcome ==
  ASSUME WellFormed(block, arenas), Neat(block, arenas),
         NEW want \in Nat, want >= ALIGN, want % ALIGN = 0,
         NEW out \in AllocOutcomes(want)
  PROVE  Neat(out.heap.blk, out.heap.arenas)
<1> DEFINE tidy  == Coalesced(block)
           bytes == ArenaBytes(want)
<1>1. WellFormed(tidy, arenas) /\ Neat(tidy, arenas)
  BY CoalescedWellFormed, NeatCoalesced
<1>2. want > 0
  BY HeapAssumption
<1>3. ASSUME NEW blk, NEW ar, WellFormed(blk, ar), Neat(blk, ar),
             Fits(blk, want) # {}, out = Taken(blk, ar, want)
      PROVE  Neat(out.heap.blk, out.heap.arenas)
  <2>1. /\ out.heap.blk = Carve(blk, FirstFit(blk, want), want)
        /\ out.heap.arenas = ar
    BY <1>3 DEF Taken, Heap
  <2>2. FirstFit(blk, want) \in Fits(blk, want)
    BY <1>3, FirstFitFits DEF WellFormed, Typed
  <2> QED BY <2>1, <2>2, <1>3, NeatCarved
<1>4. CASE Fits(block, want) # {}
  <2>1. out = Taken(block, arenas, want)
    BY <1>4 DEF AllocOutcomes
  <2> QED BY <2>1, <1>3, <1>4
<1>5. CASE Fits(block, want) = {} /\ Fits(tidy, want) # {}
  <2>1. out = Taken(tidy, arenas, want)
    BY <1>5 DEF AllocOutcomes
  <2> HIDE DEF tidy
  <2> QED BY <2>1, <1>1, <1>3, <1>5
<1>6. CASE Fits(block, want) = {} /\ Fits(tidy, want) = {}
  <2>1. \/ out = [heap |-> Heap(tidy, arenas), at |-> NULL]
        \/ \E at \in MallocAt(arenas, bytes) :
             out = Taken(Grown(tidy, at, bytes),
                         arenas \cup {[lo |-> at, hi |-> at + bytes]}, want)
    BY <1>6 DEF AllocOutcomes
  <2>2. CASE out = [heap |-> Heap(tidy, arenas), at |-> NULL]
    BY <2>2, <1>1 DEF Heap
  <2>3. ASSUME NEW at \in MallocAt(arenas, bytes),
               out = Taken(Grown(tidy, at, bytes),
                           arenas \cup {[lo |-> at, hi |-> at + bytes]}, want)
        PROVE  Neat(out.heap.blk, out.heap.arenas)
    <3> DEFINE new == Grown(tidy, at, bytes)
               ar  == arenas \cup {[lo |-> at, hi |-> at + bytes]}
    <3> HIDE DEF tidy
    <3>1. /\ WellFormed(new, ar) /\ at \in Fits(new, want)
      BY <1>1, <1>2, GrownWellFormed
    <3>2. Neat(new, ar)
      BY <1>1, NeatGrown
    <3> HIDE DEF new, ar
    <3>3. out = Taken(new, ar, want)
      BY <2>3 DEF new, ar
    <3> QED BY <3>1, <3>2, <3>3, <1>3
  <2> QED BY <2>1, <2>2, <2>3
<1> QED BY <1>4, <1>5, <1>6

(* Nor does any operation.                                                 *)
LEMMA NextNeat ==
  ASSUME IInv, Neat(block, arenas), [Next]_vars
  PROVE  Neat(block', arenas')
<1>1. ASSUME NEW n \in Requests, NEW out \in AllocOutcomes(Want(n))
      PROVE  /\ WellFormed(out.heap.blk, out.heap.arenas)
             /\ Neat(out.heap.blk, out.heap.arenas)
  <2>1. n \in Nat
    BY HeapAssumption
  <2>2. Want(n) \in Nat /\ Want(n) > 0 /\ Want(n) % ALIGN = 0 /\ Want(n) >= ALIGN
    BY <2>1, WantOnGrid, WantCovers
  <2> QED BY <2>2, AllocOutcome, NeatOutcome DEF IInv
<1>2. ASSUME NEW n \in Requests, mem_alloc(n)
      PROVE  Neat(block', arenas')
  BY <1>1, <1>2 DEF mem_alloc, SetHeap
<1>3. ASSUME NEW p \in DOMAIN live, mem_free(p)
      PROVE  Neat(block', arenas')
  <2>1. p - HDR \in DOMAIN block /\ ~ Sentinel(block, p - HDR)
    BY HeldIsUsed DEF IInv
  <2> QED BY <2>1, <1>3, NeatReleased DEF IInv, mem_free
<1>4. ASSUME NEW p \in DOMAIN live, NEW n \in Requests, ReallocByMoving(p, n)
      PROVE  Neat(block', arenas')
  <2>1. PICK out \in AllocOutcomes(Want(n)) :
          IF out.at = NULL THEN SetHeap(out.heap)
          ELSE SetHeap(Heap(Release(out.heap.blk, p - HDR), out.heap.arenas))
    BY <1>4 DEF ReallocByMoving
  <2>2. CASE out.at = NULL
    BY <2>1, <2>2, <1>1 DEF SetHeap
  <2>3. CASE out.at # NULL
    <3> DEFINE mid == out.heap.blk
    <3>1. block' = Release(mid, p - HDR) /\ arenas' = out.heap.arenas
      BY <2>1, <2>3 DEF SetHeap, Heap
    <3>2. p - HDR \in DOMAIN mid /\ ~ Sentinel(mid, p - HDR)
      <4>1. n \in Nat /\ Want(n) \in Nat /\ Want(n) > 0
        BY HeapAssumption, WantCovers
      <4>2. /\ KeepsUsed(block, mid, out.at) /\ ~ UsedBlock(block, out.at)
        BY <4>1, <2>3, AllocOutcome DEF IInv
      <4>3. UsedBlock(block, p - HDR) /\ p - HDR \in Nat
        BY HeldIsUsed DEF IInv
      <4>4. UsedBlock(mid, p - HDR)
        BY <4>2, <4>3 DEF KeepsUsed
      <4> QED BY <4>4 DEF UsedBlock, Sentinel
    <3> QED BY <3>1, <3>2, <1>1, NeatReleased
  <2> QED BY <2>2, <2>3
<1>5. CASE \/ \E p \in DOMAIN live, n \in Requests : ReallocInPlace(p, n)
           \/ mem_atari_reset_counters
           \/ UNCHANGED vars
  BY <1>5 DEF ReallocInPlace, mem_atari_reset_counters, vars
<1> QED BY <1>2, <1>3, <1>4, <1>5 DEF Next, ReallocToNothing

(***************************************************************************)
(* Every free block of mem_gem4xe.c can carry a payload (the comment above *)
(* split), and while Malloc's addresses are aligned so is every pointer    *)
(* the engine is given.                                                    *)
(***************************************************************************)
THEOREM LeftoversCarry == Spec => []NoScraps
<1> DEFINE NInv == IInv /\ Neat(block, arenas)
<1>1. Init => Neat(block, arenas)
  BY DEF Init, Neat, Sized, OnGrid
<1>2. NInv /\ [Next]_vars => NInv'
  BY NextNeat, NextIInv
<1>3. ASSUME NInv PROVE NoScraps
  <2>1. /\ DOMAIN block \subseteq Nat
        /\ HDR \in Nat /\ ALIGN \in Nat \ {0} /\ HDR % ALIGN = 0
    BY <1>3, HeapAssumption DEF IInv, WellFormed, Typed
  <2>2. \A b \in DOMAIN block : ~ block[b].used => block[b].size >= ALIGN
    BY <1>3 DEF IInv, WellFormed, Fenced, Neat, Sized
  <2>3. ASSUME \A a \in arenas : a.lo % ALIGN = 0, NEW p \in DOMAIN live
        PROVE  p % ALIGN = 0
    <3>1. p - HDR \in DOMAIN block /\ block[p - HDR].size # 0 /\ p \in Nat
      BY <1>3, HeldIsUsed DEF IInv, Agrees, UsedBlock
    <3>2. (p - HDR) % ALIGN = 0
      BY <3>1, <2>3, <1>3 DEF Neat, OnGrid
    <3> DEFINE b == p - HDR
    <3>3. p = b + HDR /\ b \in Int /\ HDR \in Int
      BY <3>1, <2>1
    <3> HIDE DEF b
    <3>4. (b + HDR) % ALIGN = 0
      BY <3>2, <3>3, <2>1, ModZero DEF b
    <3> QED BY <3>3, <3>4
  <2> QED BY <2>2, <2>3 DEF NoScraps
<1>4. Spec => []NInv
  BY <1>1, <1>2, InitIInv, PTL DEF Spec
<1> QED BY <1>3, <1>4, PTL

------------------------------------------------------------------------------
(* The leak check: the counters against the number of pointers held.       *)

(* A remainder may be taken now or later.                                  *)
LEMMA ModDrop ==
  ASSUME NEW d \in Nat \ {0}, NEW x \in Int, NEW y \in Int
  PROVE  /\ ((x % d) - y) % d = (x - y) % d
         /\ (x - (y % d)) % d = (x - y) % d
<1>1. /\ x % d \in Int /\ x - (x % d) \in Int /\ (x - (x % d)) % d = 0
      /\ y % d \in Int /\ y - (y % d) \in Int /\ (y - (y % d)) % d = 0
  BY ModSame
<1> DEFINE r == x % d
           q == y % d
           u == x - r
           v == y - q
           w == x - y
<1> HIDE DEF r, q
<1>2. r \in Int /\ q \in Int
  BY <1>1 DEF r, q
<1>3. w \in Int /\ r - y = w - u /\ x - q = v + w
  BY <1>2
<1>4. u \in Int /\ v \in Int /\ u % d = 0 /\ v % d = 0
  BY <1>1 DEF r, q
<1> HIDE DEF u, v, w
<1>5. (w - u) % d = w % d /\ (v + w) % d = w % d
  BY <1>3, <1>4, ModZero
<1> QED BY <1>3, <1>5 DEF w, r, q

(* mem_atari_live_count, of any two counters.                              *)
CountOf(a, f) == (a - f) % CounterWidth

(* The live count moves by the difference of what the counters moved by,   *)
(* also across the wrap of either counter.                                 *)
LEMMA CountMoves ==
  ASSUME NEW a \in Int, NEW f \in Int, NEW i \in Int, NEW j \in Int
  PROVE  (CountOf(Bump(a, i), Bump(f, j)) - CountOf(a, f)) % CounterWidth
           = (i - j) % CounterWidth
<1> DEFINE d == CounterWidth
           X == Bump(a, i)
           Y == Bump(f, j)
<1>1. d \in Nat \ {0}
  BY HeapAssumption
<1> HIDE DEF d
<1>2. /\ X = (a + i) % d /\ X \in Int
      /\ Y = (f + j) % d /\ Y \in Int
      /\ CountOf(a, f) = (a - f) % d /\ CountOf(a, f) \in Int
      /\ CountOf(X, Y) = (X - Y) % d
  <2>1. /\ a + i \in Int /\ f + j \in Int /\ a - f \in Int
    OBVIOUS
  <2>2. X = (a + i) % d /\ Y = (f + j) % d /\ CountOf(a, f) = (a - f) % d
        /\ CountOf(X, Y) = (X - Y) % d
    BY DEF Bump, CountOf, d
  <2>3. (a + i) % d \in Int /\ (f + j) % d \in Int /\ (a - f) % d \in Int
    BY <1>1, <2>1, ModSame
  <2> QED BY <2>2, <2>3
<1> DEFINE A == a + i
           F == f + j
           D == X - Y
           E == a - f
           L == CountOf(a, f)
<1>3. A \in Int /\ F \in Int /\ D \in Int /\ E \in Int /\ L \in Int
  BY <1>2
<1> HIDE DEF X, Y
<1>4. X = A % d /\ Y = F % d /\ L = E % d /\ CountOf(X, Y) = D % d
  BY <1>2
<1>5. (CountOf(X, Y) - L) % d = (D - E) % d
  <2> HIDE DEF D, E, L, A, F
  <2>1. ((D % d) - L) % d = (D - L) % d
    BY <1>1, <1>3, ModDrop
  <2>2. (D - (E % d)) % d = (D - E) % d
    BY <1>1, <1>3, ModDrop
  <2> QED BY <2>1, <2>2, <1>4
<1>6. (D - E) % d = (A - (Y + E)) % d
  <2>1. D - E = X - (Y + E) /\ Y + E \in Int
    BY <1>2
  <2> HIDE DEF D, E, L, A, F
  <2> DEFINE Z == Y + E
  <2> HIDE DEF Z
  <2>2. ((A % d) - Z) % d = (A - Z) % d
    BY <2>1, <1>1, <1>3, ModDrop DEF Z
  <2> QED BY <2>1, <2>2, <1>4 DEF Z
<1>7. (A - (Y + E)) % d = ((A - E) - F) % d
  <2>1. A - (Y + E) = (A - E) - Y /\ A - E \in Int
    BY <1>2, <1>3
  <2> HIDE DEF D, E, L, A, F
  <2> DEFINE Z == A - E
  <2> HIDE DEF Z
  <2>2. (Z - (F % d)) % d = (Z - F) % d
    BY <2>1, <1>1, <1>3, ModDrop DEF Z
  <2> QED BY <2>1, <2>2, <1>4 DEF Z
<1>8. (A - E) - F = i - j
  OBVIOUS
<1> HIDE DEF A, F, D, E
<1> QED BY <1>5, <1>6, <1>7, <1>8 DEF d, X, Y

(* A counter that nothing is added to stays.                               *)
LEMMA BumpNone ==
  ASSUME NEW c \in 0 .. CounterWidth - 1
  PROVE  Bump(c, 0) = c
<1>1. CounterWidth \in Nat \ {0}
  BY HeapAssumption
<1>2. (CounterWidth * 0 + c) % CounterWidth = c
  BY <1>1, ModUnique
<1>3. CounterWidth * 0 + c = c + 0
  BY <1>1
<1> QED BY <1>2, <1>3 DEF Bump

(* A step that moves the live count as it moves what is held.              *)
Tracks ==
  (mem_atari_live_count' - mem_atari_live_count) % CounterWidth =
    (Cardinality(DOMAIN live') - Cardinality(DOMAIN live)) % CounterWidth

(* The counters move by as much as the number of blocks held.              *)
LEMMA TracksMoves ==
  ASSUME IInv, NEW i \in Int, NEW j \in Int,
         allocs' = Bump(allocs, i), frees' = Bump(frees, j),
         Cardinality(DOMAIN live') - Cardinality(DOMAIN live) = i - j
  PROVE  Tracks
<1>1. allocs \in Int /\ frees \in Int
  BY HeapAssumption DEF IInv
<1>2. (CountOf(allocs', frees') - CountOf(allocs, frees)) % CounterWidth
        = (i - j) % CounterWidth
  BY <1>1, CountMoves
<1> QED BY <1>2 DEF Tracks, CountOf, mem_atari_live_count

(* Holding a pointer that was not held makes one more.                     *)
LEMMA HoldCounts ==
  ASSUME NEW held, NEW p, NEW n, IsFiniteSet(DOMAIN held)
  PROVE  /\ IsFiniteSet(DOMAIN Hold(p, n, held))
         /\ Cardinality(DOMAIN Hold(p, n, held)) - Cardinality(DOMAIN held) =
              IF p \in DOMAIN held THEN 0 ELSE 1
<1>1. DOMAIN Hold(p, n, held) = DOMAIN held \cup {p}
  BY DEF Hold
<1>2. Cardinality(DOMAIN held) \in Nat
  BY FS_CardinalityType
<1> QED BY <1>1, <1>2, FS_AddElement

(* A block given back is one less.                                         *)
LEMMA DropCounts ==
  ASSUME NEW held, NEW p \in DOMAIN held, IsFiniteSet(DOMAIN held)
  PROVE  /\ IsFiniteSet(DOMAIN Drop(p, held))
         /\ Cardinality(DOMAIN Drop(p, held)) - Cardinality(DOMAIN held) = -1
<1>1. DOMAIN Drop(p, held) = DOMAIN held \ {p}
  BY DEF Drop
<1>2. Cardinality(DOMAIN held) \in Nat
  BY FS_CardinalityType
<1>3. Cardinality(DOMAIN held \ {p}) = Cardinality(DOMAIN held) - 1
  BY FS_RemoveElement
<1> QED BY <1>1, <1>2, <1>3, FS_RemoveElement

(* Every operation moves the live count as it moves the number of blocks   *)
(* held, or resets both counters.                                          *)
LEMMA NextTracks ==
  ASSUME IInv, IsFiniteSet(DOMAIN live), [Next]_vars
  PROVE  /\ IsFiniteSet(DOMAIN live')
         /\ (allocs' = 0 /\ frees' = 0) \/ Tracks
<1> DEFINE card == Cardinality(DOMAIN live)
<1>1. card \in Nat
  BY FS_CardinalityType
<1>2. allocs = Bump(allocs, 0) /\ frees = Bump(frees, 0)
  BY BumpNone DEF IInv
<1>3. ASSUME live' = live, allocs' = allocs, frees' = frees
      PROVE  IsFiniteSet(DOMAIN live') /\ Tracks
  <2>1. Cardinality(DOMAIN live') - card = 0 - 0
    BY <1>1, <1>3
  <2> QED BY <2>1, <1>2, <1>3, TracksMoves
<1>4. ASSUME NEW n \in Requests, mem_alloc(n)
      PROVE  IsFiniteSet(DOMAIN live') /\ Tracks
  <2>1. PICK out \in AllocOutcomes(Want(n)) :
          IF out.at = NULL THEN live' = live /\ allocs' = allocs
          ELSE live' = Hold(out.at + HDR, n, live) /\ allocs' = Bump(allocs, 1)
    BY <1>4 DEF mem_alloc
  <2>2. frees' = frees
    BY <1>4 DEF mem_alloc
  <2>3. CASE out.at = NULL
    BY <2>1, <2>2, <2>3, <1>3
  <2>4. CASE out.at # NULL
    <3>1. out.at + HDR \notin DOMAIN live
      BY <2>4, FreshOutcome
    <3>2. IsFiniteSet(DOMAIN live') /\ Cardinality(DOMAIN live') - card = 1 - 0
      BY <3>1, <2>1, <2>4, HoldCounts
    <3> QED BY <3>2, <2>1, <2>2, <2>4, <1>2, TracksMoves
  <2> QED BY <2>3, <2>4
<1>5. ASSUME NEW p \in DOMAIN live, mem_free(p)
      PROVE  IsFiniteSet(DOMAIN live') /\ Tracks
  <2>1. live' = Drop(p, live) /\ allocs' = allocs /\ frees' = Bump(frees, 1)
    BY <1>5 DEF mem_free
  <2>2. IsFiniteSet(DOMAIN live') /\ Cardinality(DOMAIN live') - card = 0 - 1
    BY <2>1, DropCounts
  <2> QED BY <2>1, <2>2, <1>2, TracksMoves
<1>6. ASSUME NEW p \in DOMAIN live, NEW n \in Requests, ReallocInPlace(p, n)
      PROVE  IsFiniteSet(DOMAIN live') /\ Tracks
  <2>1. live' = Hold(p, n, live) /\ allocs' = allocs /\ frees' = frees
    BY <1>6 DEF ReallocInPlace
  <2>2. IsFiniteSet(DOMAIN live') /\ Cardinality(DOMAIN live') - card = 0 - 0
    BY <2>1, HoldCounts
  <2> QED BY <2>1, <2>2, <1>2, TracksMoves
<1>7. ASSUME NEW p \in DOMAIN live, NEW n \in Requests, ReallocByMoving(p, n)
      PROVE  IsFiniteSet(DOMAIN live') /\ Tracks
  <2>1. PICK out \in AllocOutcomes(Want(n)) :
          IF out.at = NULL
          THEN live' = live /\ allocs' = allocs /\ frees' = frees
          ELSE /\ live' = Hold(out.at + HDR, n, Drop(p, live))
               /\ allocs' = Bump(allocs, 1)
               /\ frees' = Bump(frees, 1)
    BY <1>7 DEF ReallocByMoving
  <2>2. CASE out.at = NULL
    BY <2>1, <2>2, <1>3
  <2>3. CASE out.at # NULL
    <3> DEFINE rest == Drop(p, live)
               q    == out.at + HDR
    <3>1. q \notin DOMAIN rest
      BY <2>3, FreshOutcome DEF Drop
    <3>2. /\ IsFiniteSet(DOMAIN rest)
          /\ Cardinality(DOMAIN rest) - card = -1
      BY DropCounts
    <3> HIDE DEF rest, q
    <3>3. /\ IsFiniteSet(DOMAIN Hold(q, n, rest))
          /\ Cardinality(DOMAIN Hold(q, n, rest)) - Cardinality(DOMAIN rest) = 1
      BY <3>1, <3>2, HoldCounts
    <3>4. live' = Hold(q, n, rest)
      BY <2>1, <2>3 DEF q, rest
    <3>5. /\ Cardinality(DOMAIN rest) \in Nat
          /\ Cardinality(DOMAIN live') \in Nat
      BY <3>2, <3>3, <3>4, FS_CardinalityType
    <3>6. Cardinality(DOMAIN live') - card = 1 - 1
      BY <3>2, <3>3, <3>4, <3>5, <1>1
    <3> QED BY <3>3, <3>4, <3>6, <2>1, <2>3, TracksMoves
  <2> QED BY <2>2, <2>3
<1>8. CASE mem_atari_reset_counters
  BY <1>8 DEF mem_atari_reset_counters
<1>9. CASE UNCHANGED vars
  BY <1>9, <1>3 DEF vars
<1> HIDE DEF card
<1> QED BY <1>4, <1>5, <1>6, <1>7, <1>8, <1>9 DEF Next, ReallocToNothing

(***************************************************************************)
(* Between resets mem_atari_live_count moves exactly as the number of      *)
(* allocations held does, also over failed and moving reallocations and    *)
(* over the wrap of either counter: the tests' leak check can rely on it.  *)
(***************************************************************************)
THEOREM LeakCheckExact == Spec => LiveCountTracks
<1> DEFINE Counted == IInv /\ IsFiniteSet(DOMAIN live)
<1>1. Init => Counted
  <2> SUFFICES ASSUME Init PROVE Counted
    OBVIOUS
  <2>1. DOMAIN live = {}
    BY DEF Init
  <2> QED BY <2>1, InitIInv, FS_EmptySet
<1>2. Counted /\ [Next]_vars => Counted'
  BY NextIInv, NextTracks
<1>3. Counted /\ [Next]_vars =>
        [(allocs' = 0 /\ frees' = 0) \/ Tracks]_vars
  BY NextTracks
<1> QED BY <1>1, <1>2, <1>3, PTL DEF Spec, LiveCountTracks, Tracks
==============================================================================
