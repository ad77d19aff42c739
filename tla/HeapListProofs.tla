---------------------------- MODULE HeapListProofs -----------------------------
(***************************************************************************)
(* Theorems about HeapList: the list with its pointers, loops and u32      *)
(* arithmetic implements Gem4xeHeap, so that what is proved there holds of *)
(* it; and what its clients have stored stays where they have put it.      *)
(* First what each loop comes to, then the operations, then the clients.   *)
(***************************************************************************)
EXTENDS HeapList, TLAPS

(* The theorems about Gem4xeHeap, of the heap that the list stands for.    *)
H == INSTANCE Gem4xeHeapProofs WITH
  block  <- [b \in DOMAIN mem |-> [size |-> mem[b].size, used |-> mem[b].used]],
  live   <- [p \in {held[c].ptr : c \in Holders} |->
               held[CHOOSE c \in Holders : held[c].ptr = p].req],
  allocs <- g_alloc_count,
  frees  <- g_free_count

(* Memory and requests that 32 bits can count: no sum of sizes wraps.      *)
Countable ==
  /\ HeapTop < WORD
  /\ \A n \in Requests : n + 3 * ALIGN + 2 * HDR < WORD

(* What Gem4xeHeap assumes of its constants is assumed here.               *)
LEMMA HeapAssumed == H!HeapAssumption
BY ListAssumption DEF H!HeapAssumption

------------------------------------------------------------------------------
(* The loops.                                                              *)

(* What holds at first, and after each pass if it did before, holds after  *)
(* all of them.                                                            *)
LEMMA Upwards ==
  ASSUME NEW S, 0 \in S, NEW top \in Nat,
         \A n \in 0 .. top - 1 : n \in S => n + 1 \in S
  PROVE  0 .. top \subseteq S
<1> DEFINE T == {n \in 0 .. top : n \notin S}
<1>1. SUFFICES ASSUME T # {} PROVE FALSE
  OBVIOUS
<1>2. PICK x \in T : \A y \in T : x <= y
  <2>1. T \in SUBSET (0 .. top)
    OBVIOUS
  <2> HIDE DEF T
  <2> QED BY <1>1, <2>1, HeapAssumed, H!LeastBelow DEF H!HasLeast
<1>3. x \in 0 .. top /\ \A y \in T : x <= y
  BY <1>2
<1>4. x # 0 /\ x - 1 \in 0 .. top - 1 /\ x - 1 \notin T
  BY <1>3
<1>5. x - 1 \in S
  BY <1>4
<1> QED BY <1>4, <1>5

(* A loop's passes follow on one another: first_fit,                       *)
FitPasses(l, want, f) ==
  /\ f[0] = l.head
  /\ \A n \in 0 .. HeapTop - 1 : f[n + 1] = FitPass(l.mem, want, f[n])

LEMMA FitPassesAre ==
  ASSUME NEW l, NEW want
  PROVE  \E f : FitPasses(l, want, f) /\ first_fit(l, want) = f[HeapTop]
<1> DEFINE Body(f, n) == IF n = 0 THEN l.head ELSE FitPass(l.mem, want, f[n - 1])
           S == {k \in Nat : \E f : \A n \in 0 .. k : f[n] = Body(f, n)}
           F == CHOOSE f : f = [n \in Passes |-> Body(f, n)]
<1>1. 0 \in S
  <2>1. \A n \in 0 .. 0 : [i \in {0} |-> l.head][n] = Body([i \in {0} |-> l.head], n)
    OBVIOUS
  <2> QED BY <2>1
<1>2. ASSUME NEW k \in 0 .. HeapTop - 1, k \in S
      PROVE  k + 1 \in S
  <2>1. PICK f : \A n \in 0 .. k : f[n] = Body(f, n)
    BY <1>2
  <2> DEFINE g == [n \in 0 .. k + 1 |-> IF n <= k THEN f[n] ELSE FitPass(l.mem, want, f[k])]
  <2>2. ASSUME NEW n \in 0 .. k + 1 PROVE g[n] = Body(g, n)
    <3>1. CASE n = k + 1
      <4>1. g[n] = FitPass(l.mem, want, f[k]) /\ n # 0 /\ n - 1 = k
        BY <3>1
      <4>2. g[n - 1] = f[k]
        BY <4>1
      <4> HIDE DEF g
      <4> QED BY <4>1, <4>2
    <3>2. CASE n \in 0 .. k
      <4>1. g[n] = f[n] /\ f[n] = Body(f, n)
        BY <2>1, <3>2
      <4>2. n # 0 => g[n - 1] = f[n - 1]
        BY <3>2
      <4> HIDE DEF g
      <4> QED BY <4>1, <4>2
    <3> QED BY <3>1, <3>2
  <2> HIDE DEF g, Body
  <2>3. \A n \in 0 .. k + 1 : g[n] = Body(g, n)
    BY <2>2
  <2> QED BY <2>3
<1>3. HeapTop \in Nat
  BY ListAssumption
<1>4. HeapTop \in S
  <2> HIDE DEF S
  <2> QED BY <1>1, <1>2, <1>3, Upwards
<1>5. PICK f : \A n \in Passes : f[n] = Body(f, n)
  BY <1>4 DEF Passes
<1> DEFINE g == [n \in Passes |-> f[n]]
<1>6. g = [n \in Passes |-> Body(g, n)]
  <2>1. \A n \in Passes : n # 0 => n - 1 \in Passes
    BY <1>3 DEF Passes
  <2>2. \A n \in Passes : Body(g, n) = Body(f, n)
    BY <2>1
  <2> HIDE DEF Body
  <2> QED BY <1>5, <2>2
<1>7. F = [n \in Passes |-> Body(F, n)]
  <2> HIDE DEF Body, g
  <2> QED BY <1>6
<1>8. first_fit(l, want) = F[HeapTop]
  BY DEF first_fit
<1>9. FitPasses(l, want, F)
  <2> HIDE DEF F
  <2>1. 0 \in Passes /\ \A n \in 0 .. HeapTop - 1 : n + 1 \in Passes /\ n + 1 # 0 /\ (n + 1) - 1 = n
    BY <1>3 DEF Passes
  <2>2. F[0] = l.head
    BY <1>7, <2>1
  <2>3. ASSUME NEW n \in 0 .. HeapTop - 1 PROVE F[n + 1] = FitPass(l.mem, want, F[n])
    <3>1. F[n + 1] = Body(F, n + 1)
      <4> HIDE DEF Body
      <4> QED BY <1>7, <2>1
    <3> QED BY <2>1, <3>1
  <2> QED BY <2>2, <2>3 DEF FitPasses
<1> HIDE DEF F
<1> QED BY <1>8, <1>9
(* the merging of mem_free,                                                *)
Unused(m, b) == [m EXCEPT ![b] = [@ EXCEPT !.used = FALSE]]
FreePasses(l, b, f) ==
  /\ f[0] = Unused(l.mem, b)
  /\ \A n \in 0 .. HeapTop - 1 : f[n + 1] = FreePass(f[n], b)

LEMMA FreePassesAre ==
  ASSUME NEW l, NEW b
  PROVE  \E f : FreePasses(l, b, f) /\ Freed(l, b) = [l EXCEPT !.mem = f[HeapTop]]
<1> DEFINE Body(f, n) == IF n = 0 THEN Unused(l.mem, b) ELSE FreePass(f[n - 1], b)
           S == {k \in Nat : \E f : \A n \in 0 .. k : f[n] = Body(f, n)}
           F == CHOOSE f : f = [n \in Passes |-> Body(f, n)]
<1>1. 0 \in S
  <2>1. \A n \in 0 .. 0 : [i \in {0} |-> Unused(l.mem, b)][n] = Body([i \in {0} |-> Unused(l.mem, b)], n)
    OBVIOUS
  <2> QED BY <2>1
<1>2. ASSUME NEW k \in 0 .. HeapTop - 1, k \in S
      PROVE  k + 1 \in S
  <2>1. PICK f : \A n \in 0 .. k : f[n] = Body(f, n)
    BY <1>2
  <2> DEFINE g == [n \in 0 .. k + 1 |-> IF n <= k THEN f[n] ELSE FreePass(f[k], b)]
  <2>2. ASSUME NEW n \in 0 .. k + 1 PROVE g[n] = Body(g, n)
    <3>1. CASE n = k + 1
      <4>1. g[n] = FreePass(f[k], b) /\ n # 0 /\ n - 1 = k
        BY <3>1
      <4>2. g[n - 1] = f[k]
        BY <4>1
      <4> HIDE DEF g
      <4> QED BY <4>1, <4>2
    <3>2. CASE n \in 0 .. k
      <4>1. g[n] = f[n] /\ f[n] = Body(f, n)
        BY <2>1, <3>2
      <4>2. n # 0 => g[n - 1] = f[n - 1]
        BY <3>2
      <4> HIDE DEF g
      <4> QED BY <4>1, <4>2
    <3> QED BY <3>1, <3>2
  <2> HIDE DEF g, Body
  <2>3. \A n \in 0 .. k + 1 : g[n] = Body(g, n)
    BY <2>2
  <2> QED BY <2>3
<1>3. HeapTop \in Nat
  BY ListAssumption
<1>4. HeapTop \in S
  <2> HIDE DEF S
  <2> QED BY <1>1, <1>2, <1>3, Upwards
<1>5. PICK f : \A n \in Passes : f[n] = Body(f, n)
  BY <1>4 DEF Passes
<1> DEFINE g == [n \in Passes |-> f[n]]
<1>6. g = [n \in Passes |-> Body(g, n)]
  <2>1. \A n \in Passes : n # 0 => n - 1 \in Passes
    BY <1>3 DEF Passes
  <2>2. \A n \in Passes : Body(g, n) = Body(f, n)
    BY <2>1
  <2> HIDE DEF Body
  <2> QED BY <1>5, <2>2
<1>7. F = [n \in Passes |-> Body(F, n)]
  <2> HIDE DEF Body, g
  <2> QED BY <1>6
<1>8. Freed(l, b) = [l EXCEPT !.mem = F[HeapTop]]
  BY DEF Freed, Unused
<1>9. FreePasses(l, b, F)
  <2> HIDE DEF F
  <2>1. 0 \in Passes /\ \A n \in 0 .. HeapTop - 1 : n + 1 \in Passes /\ n + 1 # 0 /\ (n + 1) - 1 = n
    BY <1>3 DEF Passes
  <2>2. F[0] = Unused(l.mem, b)
    BY <1>7, <2>1
  <2>3. ASSUME NEW n \in 0 .. HeapTop - 1 PROVE F[n + 1] = FreePass(F[n], b)
    <3>1. F[n + 1] = Body(F, n + 1)
      <4> HIDE DEF Body
      <4> QED BY <1>7, <2>1
    <3> QED BY <2>1, <3>1
  <2> QED BY <2>2, <2>3 DEF FreePasses
<1> HIDE DEF F
<1> QED BY <1>8, <1>9
(* and coalesce_all.                                                       *)
Start(l) == [mem |-> l.mem, at |-> l.head]
CoalescePasses(l, f) ==
  /\ f[0] = Start(l)
  /\ \A n \in 0 .. HeapTop - 1 : f[n + 1] = CoalescePass(f[n])

LEMMA CoalescePassesAre ==
  ASSUME NEW l
  PROVE  \E f : CoalescePasses(l, f) /\ coalesce_all(l) = [l EXCEPT !.mem = f[HeapTop].mem]
<1> DEFINE Body(f, n) == IF n = 0 THEN Start(l) ELSE CoalescePass(f[n - 1])
           S == {k \in Nat : \E f : \A n \in 0 .. k : f[n] = Body(f, n)}
           F == CHOOSE f : f = [n \in Passes |-> Body(f, n)]
<1>1. 0 \in S
  <2>1. \A n \in 0 .. 0 : [i \in {0} |-> Start(l)][n] = Body([i \in {0} |-> Start(l)], n)
    OBVIOUS
  <2> QED BY <2>1
<1>2. ASSUME NEW k \in 0 .. HeapTop - 1, k \in S
      PROVE  k + 1 \in S
  <2>1. PICK f : \A n \in 0 .. k : f[n] = Body(f, n)
    BY <1>2
  <2> DEFINE g == [n \in 0 .. k + 1 |-> IF n <= k THEN f[n] ELSE CoalescePass(f[k])]
  <2>2. ASSUME NEW n \in 0 .. k + 1 PROVE g[n] = Body(g, n)
    <3>1. CASE n = k + 1
      <4>1. g[n] = CoalescePass(f[k]) /\ n # 0 /\ n - 1 = k
        BY <3>1
      <4>2. g[n - 1] = f[k]
        BY <4>1
      <4> HIDE DEF g
      <4> QED BY <4>1, <4>2
    <3>2. CASE n \in 0 .. k
      <4>1. g[n] = f[n] /\ f[n] = Body(f, n)
        BY <2>1, <3>2
      <4>2. n # 0 => g[n - 1] = f[n - 1]
        BY <3>2
      <4> HIDE DEF g
      <4> QED BY <4>1, <4>2
    <3> QED BY <3>1, <3>2
  <2> HIDE DEF g, Body
  <2>3. \A n \in 0 .. k + 1 : g[n] = Body(g, n)
    BY <2>2
  <2> QED BY <2>3
<1>3. HeapTop \in Nat
  BY ListAssumption
<1>4. HeapTop \in S
  <2> HIDE DEF S
  <2> QED BY <1>1, <1>2, <1>3, Upwards
<1>5. PICK f : \A n \in Passes : f[n] = Body(f, n)
  BY <1>4 DEF Passes
<1> DEFINE g == [n \in Passes |-> f[n]]
<1>6. g = [n \in Passes |-> Body(g, n)]
  <2>1. \A n \in Passes : n # 0 => n - 1 \in Passes
    BY <1>3 DEF Passes
  <2>2. \A n \in Passes : Body(g, n) = Body(f, n)
    BY <2>1
  <2> HIDE DEF Body
  <2> QED BY <1>5, <2>2
<1>7. F = [n \in Passes |-> Body(F, n)]
  <2> HIDE DEF Body, g
  <2> QED BY <1>6
<1>8. coalesce_all(l) = [l EXCEPT !.mem = F[HeapTop].mem]
  BY DEF coalesce_all, Start
<1>9. CoalescePasses(l, F)
  <2> HIDE DEF F
  <2>1. 0 \in Passes /\ \A n \in 0 .. HeapTop - 1 : n + 1 \in Passes /\ n + 1 # 0 /\ (n + 1) - 1 = n
    BY <1>3 DEF Passes
  <2>2. F[0] = Start(l)
    BY <1>7, <2>1
  <2>3. ASSUME NEW n \in 0 .. HeapTop - 1 PROVE F[n + 1] = CoalescePass(F[n])
    <3>1. F[n + 1] = Body(F, n + 1)
      <4> HIDE DEF Body
      <4> QED BY <1>7, <2>1
    <3> QED BY <2>1, <3>1
  <2> QED BY <2>2, <2>3 DEF CoalescePasses
<1> HIDE DEF F
<1> QED BY <1>8, <1>9

------------------------------------------------------------------------------
(* The list, and the heap that it stands for.                              *)

Blk(m) == [b \in DOMAIN m |-> [size |-> m[b].size, used |-> m[b].used]]

(* Each header names the one above it, the last one none.                  *)
NextIn(D, b, n) ==
  IF n = NULL THEN \A x \in D : x <= b
  ELSE n \in D /\ b < n /\ \A x \in D : x <= b \/ n <= x
IsMap(m) == m = [b \in DOMAIN m |-> m[b]]
Linked(m) ==
  /\ IsMap(m)
  /\ \A b \in DOMAIN m :
       /\ m[b] = [next |-> m[b].next, size |-> m[b].size, used |-> m[b].used]
       /\ NextIn(DOMAIN m, b, m[b].next)

Whole(m, ar) == H!WellFormed(Blk(m), ar) /\ Linked(m)

(* A whole list's headers and payloads lie one above the other.            *)
Tiled(m) ==
  /\ DOMAIN m \subseteq Nat \ {0}
  /\ \A b \in DOMAIN m :
       /\ m[b].size \in Nat /\ m[b].used \in BOOLEAN
       /\ b + HDR + m[b].size <= HeapTop
       /\ m[b].size = 0 => m[b].used
       /\ ~ (m[b].used /\ m[b].size = 0) =>
            b + HDR + m[b].size \in DOMAIN m /\ m[b].next = b + HDR + m[b].size
  /\ \A b, h \in DOMAIN m : b < h => b + HDR + m[b].size <= h

LEMMA WholeTiled ==
  ASSUME NEW m, NEW ar, Whole(m, ar)
  PROVE  Tiled(m)
<1> DEFINE B == Blk(m)
<1>1. DOMAIN B = DOMAIN m /\ \A b \in DOMAIN m : B[b].size = m[b].size /\ B[b].used = m[b].used
  BY DEF Blk
<1>2. H!WellFormed(B, ar)
  BY DEF Whole
<1> HIDE DEF B
<1>3. /\ DOMAIN m \subseteq Nat \ {0}
      /\ \A b \in DOMAIN m : m[b].size \in Nat /\ m[b].used \in BOOLEAN
      /\ \A a \in ar : a.hi \in 0 .. HeapTop
  BY <1>1, <1>2 DEF H!WellFormed, H!Typed
<1>4. \A b, h \in DOMAIN m : b < h => b + HDR + m[b].size <= h
  BY <1>1, <1>2 DEF H!WellFormed, H!Ordered, H!End
<1>5. ASSUME NEW b \in DOMAIN m
      PROVE  b + HDR + m[b].size <= HeapTop
  <2>1. PICK a \in ar : b + HDR + m[b].size <= a.hi
    BY <1>1, <1>2 DEF H!WellFormed, H!InArena, H!End
  <2> QED BY <2>1, <1>3, ListAssumption
<1>6. \A b \in DOMAIN m : m[b].size = 0 => m[b].used
  BY <1>1, <1>2 DEF H!WellFormed, H!Fenced
<1>7. ASSUME NEW b \in DOMAIN m, ~ (m[b].used /\ m[b].size = 0)
      PROVE  b + HDR + m[b].size \in DOMAIN m /\ m[b].next = b + HDR + m[b].size
  <2> DEFINE e == b + HDR + m[b].size
  <2>1. e \in DOMAIN m
    BY <1>1, <1>2, <1>7 DEF H!WellFormed, H!Contiguous, H!Sentinel, H!End
  <2>2. NextIn(DOMAIN m, b, m[b].next)
    BY DEF Whole, Linked
  <2>3. HDR \in Nat /\ HDR > 0 /\ b \in Nat /\ m[b].size \in Nat /\ b < e
    BY <1>3, ListAssumption
  <2>4. m[b].next # NULL
    BY <1>3, <2>1, <2>2, <2>3 DEF NextIn
  <2>5. m[b].next \in DOMAIN m /\ b < m[b].next /\ m[b].next <= e
    BY <2>1, <2>2, <2>3, <2>4, <1>3 DEF NextIn
  <2>6. e <= m[b].next
    BY <1>4, <2>5
  <2>7. m[b].next = e
    BY <2>5, <2>6, <2>1, <1>3
  <2> QED BY <2>1, <2>7
<1> QED BY <1>3, <1>4, <1>5, <1>6, <1>7 DEF Tiled

(* Swallowing the next header leaves the others linked.                    *)
LEMMA SwallowLinked ==
  ASSUME NEW m, Linked(m), DOMAIN m \subseteq Nat \ {0},
         NEW b \in DOMAIN m, m[b].next # NULL
  PROVE  /\ Linked(Swallow(m, b))
         /\ DOMAIN Swallow(m, b) = DOMAIN m \ {m[b].next}
         /\ Swallow(m, b)[b] =
              [next |-> m[m[b].next].next,
               size |-> U32(m[b].size + HDR + m[m[b].next].size), used |-> m[b].used]
         /\ \A x \in DOMAIN m \ {b, m[b].next} : Swallow(m, b)[x] = m[x]
         /\ b \in DOMAIN Swallow(m, b)
<1> DEFINE n == m[b].next
           s == Swallow(m, b)
           D == DOMAIN m \ {n}
<1>1. n \in DOMAIN m /\ b < n /\ \A x \in DOMAIN m : x <= b \/ n <= x
  BY DEF Linked, NextIn
<1>2. b # n /\ b \in D
  BY <1>1
<1>3. DOMAIN s = D
  BY DEF Swallow
<1>4. s[b] = [next |-> m[n].next, size |-> U32(m[b].size + HDR + m[n].size), used |-> m[b].used]
  BY <1>2 DEF Swallow
<1>5. \A x \in DOMAIN m \ {b, n} : s[x] = m[x]
  BY DEF Swallow
<1>6. ASSUME NEW x \in D
      PROVE  /\ s[x] = [next |-> s[x].next, size |-> s[x].size, used |-> s[x].used]
             /\ NextIn(D, x, s[x].next)
  <2> HIDE DEF s, D, n
  <2>1. CASE x = b
    <3>1. NextIn(DOMAIN m, n, m[n].next) /\ s[b].next = m[n].next
      BY <1>1, <1>4 DEF Linked
    <3>2. NextIn(D, b, m[n].next)
      BY <3>1, <1>1, <1>2 DEF NextIn, D
    <3> QED BY <2>1, <1>4, <3>1, <3>2
  <2>2. CASE x # b
    <3>1. x \in DOMAIN m /\ x # n /\ s[x] = m[x]
      BY <1>5, <2>2 DEF D
    <3>2. NextIn(DOMAIN m, x, m[x].next)
      BY <3>1 DEF Linked
    <3>3. m[x].next # n
      BY <1>1, <1>2, <2>2, <3>1, <3>2 DEF NextIn, NULL
    <3>4. NextIn(D, x, m[x].next)
      BY <3>2, <3>3, <3>1 DEF NextIn, D
    <3> QED BY <3>1, <3>4 DEF Linked
  <2> QED BY <2>1, <2>2
<1>7. IsMap(s)
  BY DEF IsMap, Swallow
<1> HIDE DEF s, D, n
<1>8. Linked(s)
  BY <1>3, <1>6, <1>7 DEF Linked
<1> QED BY <1>2, <1>3, <1>4, <1>5, <1>8 DEF s, D, n

(* The next used block, known by what it is.                               *)
LEMMA NextUsedIs ==
  ASSUME NEW m, NEW ar, Whole(m, ar), NEW b \in DOMAIN m,
         ~ (m[b].used /\ m[b].size = 0), NEW t \in DOMAIN m, m[t].used, b < t,
         \A x \in DOMAIN m : b < x /\ m[x].used => t <= x
  PROVE  H!NextUsed(Blk(m), b) = t
<1> DEFINE B == Blk(m)
           u == H!NextUsed(B, b)
<1>1. DOMAIN B = DOMAIN m /\ \A x \in DOMAIN m : B[x].size = m[x].size /\ B[x].used = m[x].used
  BY DEF Blk
<1>2. H!WellFormed(B, ar)
  BY DEF Whole
<1> HIDE DEF B
<1>3. b \in DOMAIN B /\ ~ H!Sentinel(B, b)
  BY <1>1 DEF H!Sentinel
<1>4. u \in DOMAIN B /\ B[u].used /\ b < u /\ \A x \in DOMAIN B : b < x /\ B[x].used => u <= x
  BY <1>2, <1>3, HeapAssumed, H!NextUsedAbove
<1> HIDE DEF u
<1>5. u \in DOMAIN m /\ u <= t /\ t <= u
  BY <1>1, <1>4
<1>6. DOMAIN m \subseteq Nat
  BY WholeTiled DEF Tiled
<1>7. u \in Nat /\ t \in Nat
  BY <1>5, <1>6
<1>8. u = t
  BY <1>5, <1>7
<1> QED BY <1>8 DEF u, B

(* mem_free's loop after n passes: what has been swallowed is free.        *)
FreeingTo(m, b, s, n) ==
  /\ Linked(s) /\ b \in DOMAIN s /\ s[b].used = FALSE
  /\ s[b].next \in DOMAIN m /\ b < s[b].next
  /\ DOMAIN s = {x \in DOMAIN m : x <= b \/ x >= s[b].next}
  /\ \A x \in DOMAIN m : b < x /\ x < s[b].next => ~ m[x].used
  /\ s[b].size = s[b].next - b - HDR
  /\ \A x \in DOMAIN s : x # b => s[x] = m[x]
  /\ m[s[b].next].used \/ n < s[b].next

LEMMA FreeingStarts ==
  ASSUME NEW m, Linked(m), Tiled(m), NEW b \in DOMAIN m, m[b].size # 0
  PROVE  FreeingTo(m, b, Unused(m, b), 0)
<1> DEFINE s == Unused(m, b)
           t == b + HDR + m[b].size
<1>1. t \in DOMAIN m /\ m[b].next = t /\ b \in Nat /\ m[b].size \in Nat /\ HDR \in Nat /\ HDR > 0
  BY ListAssumption DEF Tiled
<1>2. DOMAIN s = DOMAIN m /\ \A x \in DOMAIN m : x # b => s[x] = m[x]
  BY DEF Unused
<1>3. s[b] = [next |-> t, size |-> m[b].size, used |-> FALSE]
  <2>1. m[b] = [next |-> m[b].next, size |-> m[b].size, used |-> m[b].used]
    BY DEF Linked
  <2>2. s[b] = [m[b] EXCEPT !.used = FALSE]
    BY DEF Unused
  <2> HIDE DEF s, t
  <2> QED BY <1>1, <2>1, <2>2
<1>4. DOMAIN m \subseteq Nat \ {0} /\ \A x \in DOMAIN m : b < x => t <= x
  BY DEF Tiled
<1> HIDE DEF s, t
<1>5. Linked(s)
  <2>1. ASSUME NEW x \in DOMAIN s
        PROVE  /\ s[x] = [next |-> s[x].next, size |-> s[x].size, used |-> s[x].used]
               /\ NextIn(DOMAIN s, x, s[x].next)
    <3>1. s[x].next = m[x].next
      BY <1>1, <1>2, <1>3, <2>1
    <3>2. NextIn(DOMAIN m, x, m[x].next)
      BY <1>2, <2>1 DEF Linked
    <3>3. s[x] = [next |-> s[x].next, size |-> s[x].size, used |-> s[x].used]
      BY <1>2, <1>3, <2>1 DEF Linked
    <3> QED BY <1>2, <3>1, <3>2, <3>3
  <2>2. IsMap(s)
    BY DEF IsMap, s, Unused
  <2> QED BY <2>1, <2>2 DEF Linked
<1>6. b < t /\ t \in Nat /\ m[b].size = t - b - HDR
  BY <1>1 DEF t
<1> QED BY <1>1, <1>2, <1>3, <1>4, <1>5, <1>6 DEF FreeingTo, s

LEMMA FreeingGoesOn ==
  ASSUME HeapTop < WORD, NEW m, Linked(m), Tiled(m), NEW b \in DOMAIN m,
         NEW s, NEW n \in Nat, FreeingTo(m, b, s, n)
  PROVE  FreeingTo(m, b, FreePass(s, b), n + 1)
<1> DEFINE t == s[b].next
           e == t + HDR + m[t].size
           f == FreePass(s, b)
<1>1. /\ DOMAIN m \subseteq Nat \ {0} /\ HDR \in Nat /\ HDR > 0
      /\ t \in DOMAIN m /\ b < t /\ t \in DOMAIN s /\ s[t] = m[t] /\ t # NULL
  <2>1. DOMAIN m \subseteq Nat \ {0} /\ HDR \in Nat /\ HDR > 0
    BY ListAssumption DEF Tiled
  <2>2. t \in DOMAIN m /\ b < t /\ DOMAIN s = {x \in DOMAIN m : x <= b \/ x >= t}
        /\ \A x \in DOMAIN s : x # b => s[x] = m[x]
    BY DEF FreeingTo
  <2> HIDE DEF t
  <2>3. t \in Nat /\ b \in Nat /\ t # 0 /\ t # b /\ t >= t
    BY <2>1, <2>2
  <2>4. t \in DOMAIN s
    BY <2>2, <2>3
  <2> QED BY <2>1, <2>2, <2>3, <2>4 DEF NULL
<1>2. CASE m[t].used
  BY <1>1, <1>2 DEF FreeingTo, FreePass
<1>3. CASE ~ m[t].used
  <2>1. f = Swallow(s, b)
    BY <1>1, <1>3 DEF FreePass
  <2>2. /\ e \in DOMAIN m /\ m[t].next = e /\ m[t].size \in Nat /\ e <= HeapTop
        /\ \A x \in DOMAIN m : t < x => e <= x
    BY <1>1, <1>3 DEF Tiled
  <2>r. /\ s[b].used = FALSE /\ s[b].size = t - b - HDR
        /\ DOMAIN s = {x \in DOMAIN m : x <= b \/ x >= t}
        /\ \A x \in DOMAIN m : b < x /\ x < t => ~ m[x].used
        /\ \A x \in DOMAIN s : x # b => s[x] = m[x]
        /\ n < t /\ b \in Nat /\ t \in Nat /\ e \in Nat /\ t < e
    <3>1. b \in Nat /\ t \in Nat /\ e \in Nat /\ t < e
      BY <1>1, <2>2
    <3> HIDE DEF e
    <3> QED BY <1>3, <3>1 DEF FreeingTo
  <2>3. /\ Linked(f) /\ DOMAIN f = DOMAIN s \ {t} /\ b \in DOMAIN f
        /\ f[b] = [next |-> s[t].next, size |-> U32(s[b].size + HDR + s[t].size), used |-> s[b].used]
        /\ \A x \in DOMAIN s \ {b, t} : f[x] = s[x]
    <3>1. Linked(s) /\ b \in DOMAIN s
      BY DEF FreeingTo
    <3>2. DOMAIN s \subseteq Nat \ {0} /\ s[b].next # NULL
      BY <1>1, <2>r
    <3> DEFINE g == Swallow(s, b)
    <3> HIDE DEF f, t, g
    <3>3. /\ Linked(g) /\ DOMAIN g = DOMAIN s \ {s[b].next} /\ b \in DOMAIN g
          /\ g[b] = [next |-> s[s[b].next].next,
                      size |-> U32(s[b].size + HDR + s[s[b].next].size), used |-> s[b].used]
          /\ \A x \in DOMAIN s \ {b, s[b].next} : g[x] = s[x]
      BY <3>1, <3>2, SwallowLinked DEF g
    <3> QED BY <2>1, <3>3 DEF g, t
  <2>4. U32(s[b].size + HDR + s[t].size) = e - b - HDR
    <3>1. s[b].size + HDR + s[t].size = e - b - HDR /\ e - b - HDR \in 0 .. HeapTop
      <4> HIDE DEF t
      <4>1. HeapTop \in Nat /\ m[t].size \in Nat /\ t - b >= 1 /\ t - b - HDR \in Int
        BY <1>1, <2>2, <2>r, ListAssumption
      <4>2. s[t].size = m[t].size
        BY <1>1
      <4>3. e - b - HDR >= 0
        BY <4>1, <1>1, <2>r
      <4> QED BY <1>1, <2>2, <2>r, <4>1, <4>2, <4>3
    <3> DEFINE z == e - b - HDR
    <3>2. \A k \in Nat, w \in Nat \ {0} : k < w => k % w = k
      OBVIOUS
    <3>3. HeapTop \in Nat /\ WORD \in Nat \ {0}
      BY ListAssumption
    <3> HIDE DEF z
    <3> QED BY <3>1, <3>2, <3>3 DEF U32, z
  <2> HIDE DEF e, f, t
  <2>5. f[b].next = e /\ f[b].size = e - b - HDR /\ f[b].used = FALSE
    BY <1>1, <2>2, <2>r, <2>3, <2>4
  <2>6. b < e /\ n + 1 < e /\ t < e
    BY <1>1, <2>r
  <2>0. \A x \in DOMAIN m : x \in Nat /\ (x <= t \/ e <= x)
    BY <1>1, <2>2, <2>r
  <2>7. DOMAIN f = {x \in DOMAIN m : x <= b \/ x >= e}
    <3>1. ASSUME NEW x \in DOMAIN m PROVE x \in DOMAIN f <=> (x <= b \/ x >= e)
      BY <1>1, <2>0, <2>r, <2>3, <2>6
    <3> QED BY <2>3, <2>r, <3>1
  <2>8. \A x \in DOMAIN m : b < x /\ x < e => ~ m[x].used
    <3>1. ASSUME NEW x \in DOMAIN m, b < x, x < e PROVE ~ m[x].used
      <4>1. x < t \/ x = t
        BY <3>1, <2>0, <2>r
      <4> QED BY <4>1, <3>1, <2>r, <1>3
    <3> QED BY <3>1
  <2>9. \A x \in DOMAIN f : x # b => f[x] = m[x]
    BY <2>3, <2>r
  <2> QED BY <2>2, <2>3, <2>5, <2>6, <2>7, <2>8, <2>9 DEF FreeingTo, f
<1> QED BY <1>2, <1>3

(* mem_free's loop comes to what Gem4xeHeap says of it.                    *)
FreedTo(l, b, s) ==
  /\ Freed(l, b) = [l EXCEPT !.mem = s]
  /\ Linked(s) /\ Blk(s) = H!Release(Blk(l.mem), b)
  /\ b \in DOMAIN s
  /\ \E u \in DOMAIN l.mem : u \in DOMAIN s /\ b < u /\ l.mem[u].used
                             /\ DOMAIN s = {x \in DOMAIN l.mem : x <= b \/ x >= u}
LEMMA FreedIs ==
  ASSUME HeapTop < WORD, NEW l, NEW ar, Whole(l.mem, ar),
         NEW b \in DOMAIN l.mem, l.mem[b].size # 0
  PROVE  \E s : FreedTo(l, b, s)
<1> DEFINE m == l.mem
<1> HIDE DEF m
<1>1. Linked(m) /\ Tiled(m) /\ HeapTop \in Nat
  BY WholeTiled, ListAssumption DEF Whole, m
<1>2. PICK f : FreePasses(l, b, f) /\ Freed(l, b) = [l EXCEPT !.mem = f[HeapTop]]
  BY FreePassesAre
<1> DEFINE S == {n \in 0 .. HeapTop : FreeingTo(m, b, f[n], n)}
<1>3. 0 \in S
  BY <1>1, <1>2, FreeingStarts DEF FreePasses, m
<1>4. ASSUME NEW n \in 0 .. HeapTop - 1, n \in S PROVE n + 1 \in S
  <2>1. f[n + 1] = FreePass(f[n], b) /\ n \in Nat /\ n + 1 \in 0 .. HeapTop /\ FreeingTo(m, b, f[n], n)
    BY <1>1, <1>2, <1>4 DEF FreePasses
  <2>2. FreeingTo(m, b, FreePass(f[n], b), n + 1)
    BY <1>1, <2>1, FreeingGoesOn DEF m
  <2> QED BY <2>1, <2>2
<1>5. HeapTop \in S
  <2> HIDE DEF S
  <2> QED BY <1>1, <1>3, <1>4, Upwards
<1> DEFINE s == f[HeapTop]
           u == s[b].next
<1> HIDE DEF s
<1>6. FreeingTo(m, b, s, HeapTop)
  BY <1>5 DEF s
<1>7. u \in DOMAIN m /\ u <= HeapTop /\ b < u /\ u \in Nat
  <2>1. u \in DOMAIN m /\ b < u
    BY <1>6 DEF FreeingTo
  <2> HIDE DEF u
  <2> QED BY <1>1, <2>1, ListAssumption DEF Tiled
<1>8. m[u].used
  <2>1. m[s[b].next].used \/ HeapTop < s[b].next
    BY <1>6 DEF FreeingTo
  <2> QED BY <1>1, <1>7, <2>1
<1>r. /\ Linked(s) /\ b \in DOMAIN s /\ s[b].used = FALSE /\ s[b].size = u - b - HDR
      /\ DOMAIN s = {x \in DOMAIN m : x <= b \/ x >= u}
      /\ \A x \in DOMAIN m : b < x /\ x < u => ~ m[x].used
      /\ \A x \in DOMAIN s : x # b => s[x] = m[x]
  BY <1>6 DEF FreeingTo
<1>9. H!NextUsed(Blk(m), b) = u
  <2>1. \A x \in DOMAIN m : b < x /\ m[x].used => u <= x
    <3>1. DOMAIN m \subseteq Nat
      BY <1>1 DEF Tiled
    <3> HIDE DEF u
    <3> QED BY <3>1, <1>7, <1>r
  <2>2. ~ (m[b].used /\ m[b].size = 0) /\ b \in DOMAIN m /\ Whole(m, ar)
    BY DEF m
  <2> HIDE DEF u
  <2> QED BY <2>1, <2>2, <1>7, <1>8, NextUsedIs
<1>10. Blk(s) = H!Release(Blk(m), b)
  <2> DEFINE R == H!Release(Blk(m), b)
  <2>1. R = [h \in {x \in DOMAIN m : x <= b \/ x >= u} |->
               IF h = b THEN [size |-> u - b - HDR, used |-> FALSE]
               ELSE [size |-> m[h].size, used |-> m[h].used]]
    BY <1>9 DEF H!Release, Blk
  <2>2. DOMAIN s = {x \in DOMAIN m : x <= b \/ x >= u} /\ s[b].size = u - b - HDR
        /\ s[b].used = FALSE /\ \A x \in DOMAIN s : x # b => s[x] = m[x]
    BY <1>r
  <2>3. Blk(s) = [h \in DOMAIN s |-> [size |-> s[h].size, used |-> s[h].used]]
    BY DEF Blk
  <2> HIDE DEF R, u
  <2>4. \A h \in DOMAIN s : [size |-> s[h].size, used |-> s[h].used] =
               IF h = b THEN [size |-> u - b - HDR, used |-> FALSE]
               ELSE [size |-> m[h].size, used |-> m[h].used]
    BY <2>2
  <2> QED BY <2>1, <2>2, <2>3, <2>4 DEF R
<1>11. Linked(s) /\ b \in DOMAIN s /\ u \in DOMAIN s /\ DOMAIN s = {x \in DOMAIN m : x <= b \/ x >= u}
  <2> HIDE DEF u
  <2> QED BY <1>7, <1>r
<1> HIDE DEF u
<1> QED BY <1>2, <1>7, <1>8, <1>10, <1>11 DEF s, m, FreedTo

(* The least header, or the last one.                                      *)
HeadIs(D, h) == IF D = {} THEN h = NULL ELSE h \in D /\ \A x \in D : h <= x
TailIs(D, t) == IF D = {} THEN t = NULL ELSE t \in D /\ \A x \in D : x <= t

CanHold(m, want, b) == ~ m[b].used /\ m[b].size >= want

(* first_fit's loop after n passes: nothing below fits.                    *)
FittingAt(m, want, b, n) ==
  \/ b = NULL /\ \A x \in DOMAIN m : ~ CanHold(m, want, x)
  \/ /\ b \in DOMAIN m /\ \A x \in DOMAIN m : x < b => ~ CanHold(m, want, x)
     /\ CanHold(m, want, b) \/ n < b

(* first_fit finds the lowest block that can hold what is wanted, or none. *)
LEMMA FitIs ==
  ASSUME NEW l, NEW ar, Whole(l.mem, ar), HeadIs(DOMAIN l.mem, l.head), NEW want
  PROVE  \/ /\ first_fit(l, want) = NULL
            /\ \A x \in DOMAIN l.mem : ~ CanHold(l.mem, want, x)
         \/ /\ first_fit(l, want) \in DOMAIN l.mem
            /\ CanHold(l.mem, want, first_fit(l, want))
            /\ \A x \in DOMAIN l.mem : x < first_fit(l, want) => ~ CanHold(l.mem, want, x)
<1> DEFINE m == l.mem
           C(x) == CanHold(m, want, x)
<1> HIDE DEF m
<1>1. Linked(m) /\ Tiled(m) /\ HeapTop \in Nat
  BY WholeTiled, ListAssumption DEF Whole, m
<1>2. PICK f : FitPasses(l, want, f) /\ first_fit(l, want) = f[HeapTop]
  BY FitPassesAre
<1>3. DOMAIN m \subseteq Nat \ {0} /\ \A x \in DOMAIN m : x <= HeapTop
  BY <1>1, ListAssumption DEF Tiled
<1> DEFINE S == {n \in 0 .. HeapTop : FittingAt(m, want, f[n], n)}
<1>4. 0 \in S
  <2>1. f[0] = l.head /\ HeadIs(DOMAIN m, l.head)
    BY <1>2 DEF FitPasses, m
  <2>2. CASE DOMAIN m = {}
    BY <2>1, <2>2, <1>1 DEF HeadIs, FittingAt
  <2>3. CASE DOMAIN m # {}
    <3>1. l.head \in DOMAIN m /\ 0 < l.head /\ \A x \in DOMAIN m : ~ (x < l.head)
      BY <2>1, <2>3, <1>3 DEF HeadIs
    <3> QED BY <2>1, <3>1, <1>1 DEF FittingAt
  <2> QED BY <2>2, <2>3
<1>5. ASSUME NEW n \in 0 .. HeapTop - 1, n \in S PROVE n + 1 \in S
  <2> DEFINE b == f[n]
             g == f[n + 1]
  <2>1. g = FitPass(m, want, b) /\ FittingAt(m, want, b, n) /\ n + 1 \in 0 .. HeapTop /\ n \in Nat
    BY <1>1, <1>2, <1>5 DEF FitPasses, m
  <2> HIDE DEF b, g
  <2>2. CASE b = NULL
    <3>1. b \notin DOMAIN m
      BY <2>2, <1>3 DEF NULL
    <3> QED BY <2>1, <2>2, <3>1 DEF FitPass, FittingAt, g
  <2>3. CASE b # NULL
    <3>1. b \in DOMAIN m /\ (\A x \in DOMAIN m : x < b => ~ C(x)) /\ (C(b) \/ n < b)
      BY <2>1, <2>3 DEF FittingAt
    <3>2. CASE C(b)
      <4>1. g = b
        BY <2>1, <2>3, <3>2 DEF FitPass, CanHold
      <4> QED BY <2>1, <3>1, <3>2, <4>1 DEF FittingAt, g
    <3>3. CASE ~ C(b)
      <4>1. g = m[b].next /\ n < b
        BY <2>1, <2>3, <3>1, <3>3 DEF FitPass, CanHold
      <4>2. NextIn(DOMAIN m, b, g)
        BY <1>1, <3>1, <4>1 DEF Linked
      <4>3. CASE g = NULL
        <5>1. \A x \in DOMAIN m : x < b \/ x = b
          BY <4>2, <4>3, <1>3, <3>1 DEF NextIn
        <5>2. \A x \in DOMAIN m : ~ C(x)
          BY <5>1, <3>1, <3>3
        <5> QED BY <2>1, <4>3, <5>2 DEF FittingAt, g
      <4>4. CASE g # NULL
        <5>1. g \in DOMAIN m /\ b < g /\ \A x \in DOMAIN m : x < g => x < b \/ x = b
          BY <4>2, <4>4, <1>3, <3>1 DEF NextIn
        <5>2. \A x \in DOMAIN m : x < g => ~ C(x)
          BY <5>1, <3>1, <3>3
        <5>3. n + 1 < g
          BY <5>1, <4>1, <2>1, <1>3, <3>1
        <5> QED BY <2>1, <5>1, <5>2, <5>3 DEF FittingAt, g
      <4> QED BY <4>3, <4>4
    <3> QED BY <3>2, <3>3
  <2> QED BY <2>2, <2>3
<1>6. HeapTop \in S
  <2> HIDE DEF S
  <2> QED BY <1>1, <1>4, <1>5, Upwards
<1>7. FittingAt(m, want, f[HeapTop], HeapTop)
  BY <1>6
<1>8. \A x \in DOMAIN m : ~ (HeapTop < x)
  BY <1>1, <1>3
<1> QED BY <1>2, <1>7, <1>8 DEF FittingAt, m

(* In the words of Gem4xeHeap.                                             *)
LEMMA FitIsFirstFit ==
  ASSUME NEW l, NEW ar, Whole(l.mem, ar), HeadIs(DOMAIN l.mem, l.head), NEW want
  PROVE  /\ first_fit(l, want) = NULL => H!Fits(Blk(l.mem), want) = {}
         /\ first_fit(l, want) # NULL =>
              /\ H!Fits(Blk(l.mem), want) # {}
              /\ first_fit(l, want) = H!FirstFit(Blk(l.mem), want)
              /\ first_fit(l, want) \in DOMAIN l.mem
              /\ CanHold(l.mem, want, first_fit(l, want))
<1> DEFINE m == l.mem
           b == first_fit(l, want)
           T == {x \in DOMAIN m : CanHold(m, want, x)}
<1>1. H!Fits(Blk(m), want) = T
  BY DEF H!Fits, Blk, CanHold
<1>2. DOMAIN m \subseteq Nat \ {0}
  BY WholeTiled DEF Tiled
<1>3. \/ b = NULL /\ T = {}
      \/ b \in T /\ \A x \in T : ~ (x < b)
  BY FitIs
<1> HIDE DEF m, b
<1>4. CASE b = NULL
  <2>1. T = {}
    BY <1>2, <1>3, <1>4 DEF NULL
  <2> QED BY <2>1, <1>1, <1>4 DEF b, m
<1>5. CASE b # NULL
  <2>1. b \in T /\ \A x \in T : ~ (x < b)
    BY <1>3, <1>5
  <2>2. T \in SUBSET Nat
    BY <1>2
  <2> HIDE DEF T
  <2>3. H!Min(T) \in T /\ \A x \in T : H!Min(T) <= x
    BY <2>1, <2>2, H!MinNat, HeapAssumed
  <2>4. H!Min(T) = b
    <3> DEFINE z == H!Min(T)
    <3> HIDE DEF z
    <3>1. z \in T /\ z <= b /\ ~ (z < b)
      BY <2>1, <2>3 DEF z
    <3>2. z \in Nat /\ b \in Nat
      BY <3>1, <2>1, <2>2
    <3>3. z = b
      BY <3>1, <3>2
    <3> QED BY <3>3 DEF z
  <2>5. H!FirstFit(Blk(m), want) = b
    BY <2>4, <1>1 DEF H!FirstFit
  <2> QED BY <2>1, <2>5, <1>1, <1>5 DEF b, m, T
<1> QED BY <1>4, <1>5

(* coalesce_all's loop after n passes, at header b: what is below is as    *)
(* Gem4xeHeap has it, what is above as it was.                             *)
CoalescingTo(m, d, b, n) ==
  /\ Linked(d) /\ b \in DOMAIN d
  /\ d[b].next # NULL => d[b].next \in DOMAIN m /\ b < d[b].next
  /\ \A x \in DOMAIN m : x \in DOMAIN d <=>
       (x <= b /\ ~ H!Swallowed(Blk(m), x)) \/ (d[b].next # NULL /\ x >= d[b].next)
  /\ DOMAIN d \subseteq DOMAIN m
  /\ \A x \in DOMAIN m : b < x /\ (d[b].next # NULL => x < d[b].next) => ~ m[x].used
  /\ \A x \in DOMAIN d : b < x => d[x] = m[x]
  /\ \A x \in DOMAIN d : d[x].used = m[x].used
  /\ \A x \in DOMAIN d : x < b =>
       d[x].size = IF m[x].used THEN m[x].size ELSE H!NextUsed(Blk(m), x) - x - HDR
  /\ IF m[b].used THEN d[b].size = m[b].size /\ d[b].next = m[b].next
     ELSE d[b].next # NULL /\ d[b].size = d[b].next - b - HDR
  /\ d[b].next = NULL \/ n < d[b].next

(* What is swallowed, without the blocks.                                  *)
LEMMA SwallowedIs ==
  ASSUME NEW m, NEW x \in DOMAIN m
  PROVE  H!Swallowed(Blk(m), x) <=>
           /\ ~ m[x].used
           /\ \E p \in DOMAIN m : /\ p < x /\ ~ m[p].used
                                  /\ \A u \in DOMAIN m : u > p /\ m[u].used => u > x
  BY DEF H!Swallowed, H!UsedAbove, Blk

LEMMA CoalescingStarts ==
  ASSUME NEW m, Linked(m), Tiled(m), NEW h \in DOMAIN m, \A x \in DOMAIN m : h <= x
  PROVE  CoalescingTo(m, m, h, 0)
<1> DEFINE t == m[h].next
<1>1. DOMAIN m \subseteq Nat \ {0} /\ NextIn(DOMAIN m, h, t)
  BY DEF Tiled, Linked
<1>2. t # NULL => t \in DOMAIN m /\ h < t /\ \A x \in DOMAIN m : x <= h \/ t <= x
  BY <1>1 DEF NextIn
<1>3. t = NULL => \A x \in DOMAIN m : x <= h
  BY <1>1 DEF NextIn
<1>4. ~ m[h].used => t # NULL /\ m[h].size = t - h - HDR
  <2>1. ASSUME ~ m[h].used PROVE t = h + HDR + m[h].size /\ t \in DOMAIN m /\ m[h].size \in Nat
    BY <2>1 DEF Tiled
  <2>2. ASSUME ~ m[h].used PROVE t # NULL /\ m[h].size = t - h - HDR
    <3> HIDE DEF t
    <3>1. h \in Nat /\ HDR \in Nat /\ t # 0
      BY <2>1, <2>2, <1>1, ListAssumption
    <3> QED BY <3>1, <2>1, <2>2 DEF NULL
  <2> QED BY <2>2
<1>5. ~ H!Swallowed(Blk(m), h)
  <2>1. \A p \in DOMAIN m : ~ (p < h)
    BY <1>1
  <2> QED BY <2>1, SwallowedIs
<1> HIDE DEF t
<1>6. \A x \in DOMAIN m : x = h \/ (h < x /\ ~ (x < h) /\ ~ (x <= h))
  BY <1>1
<1>7. \A x \in DOMAIN m : (x <= h /\ ~ H!Swallowed(Blk(m), x)) \/ (t # NULL /\ x >= t)
  BY <1>2, <1>3, <1>5, <1>6, <1>1
<1>8. \A x \in DOMAIN m : ~ (h < x /\ (t # NULL => x < t))
  BY <1>2, <1>3, <1>6, <1>1
<1>9. t = NULL \/ 0 < t
  BY <1>1, <1>2
<1> QED BY <1>2, <1>4, <1>6, <1>7, <1>8, <1>9 DEF CoalescingTo, t

(* The loop goes past a block that it does not merge,                      *)
LEMMA CoalescingMovesOn ==
  ASSUME NEW m, NEW ar, Whole(m, ar), NEW d, NEW b, NEW n \in Nat, CoalescingTo(m, d, b, n),
         d[b].next # NULL, m[b].used \/ m[d[b].next].used
  PROVE  CoalescingTo(m, d, d[b].next, n + 1)
<1> DEFINE t == d[b].next
           Sw(x) == H!Swallowed(Blk(m), x)
           e == m[t].next
<1>1. /\ Linked(d) /\ b \in DOMAIN d /\ t \in DOMAIN m /\ b < t /\ DOMAIN d \subseteq DOMAIN m
      /\ \A x \in DOMAIN m : x \in DOMAIN d <=> (x <= b /\ ~ Sw(x)) \/ x >= t
      /\ \A x \in DOMAIN m : b < x /\ x < t => ~ m[x].used
      /\ \A x \in DOMAIN d : b < x => d[x] = m[x]
      /\ \A x \in DOMAIN d : d[x].used = m[x].used
      /\ \A x \in DOMAIN d : x < b =>
           d[x].size = IF m[x].used THEN m[x].size ELSE H!NextUsed(Blk(m), x) - x - HDR
      /\ m[b].used => d[b].size = m[b].size /\ t = m[b].next
      /\ ~ m[b].used => d[b].size = t - b - HDR
      /\ n < t
  <2> HIDE DEF Sw
  <2> QED BY DEF CoalescingTo, Sw
<1>2. DOMAIN m \subseteq Nat \ {0} /\ Linked(m) /\ Tiled(m)
  BY WholeTiled DEF Whole, Tiled
<1>3. NextIn(DOMAIN m, t, e)
  BY <1>1, <1>2 DEF Linked
<1> HIDE DEF t, Sw, e
<1>4. b \in Nat /\ t \in Nat /\ b \in DOMAIN m
  BY <1>1, <1>2
<1>5. d[t] = m[t] /\ t \in DOMAIN d
  BY <1>1, <1>4
<1>6. e # NULL => e \in DOMAIN m /\ t < e /\ \A x \in DOMAIN m : x <= t \/ e <= x
  BY <1>3 DEF NextIn
<1>7. e = NULL => \A x \in DOMAIN m : x <= t
  BY <1>3 DEF NextIn
<1>8. ~ Sw(t)
  <2>1. CASE m[t].used
    BY <2>1, <1>1, SwallowedIs DEF Sw
  <2>2. CASE ~ m[t].used
    <3>1. m[b].used /\ NextIn(DOMAIN m, b, t)
      BY <2>2, <1>1, <1>2, <1>4 DEF Linked, t
    <3>2. \A x \in DOMAIN m : x <= b \/ t <= x
      BY <3>1, <1>4, <1>2, <1>1 DEF NextIn, NULL
    <3>3. ASSUME NEW p \in DOMAIN m, p < t, ~ m[p].used,
                 \A u \in DOMAIN m : u > p /\ m[u].used => u > t
          PROVE  FALSE
      <4>1. p \in Nat /\ p <= b /\ p # b
        BY <3>1, <3>2, <3>3, <1>2, <1>4
      <4>2. b > p /\ ~ (b > t)
        BY <4>1, <1>1, <1>4
      <4> QED BY <3>1, <3>3, <4>2, <1>4
    <3> QED BY <3>3, <1>1, SwallowedIs DEF Sw
  <2> QED BY <2>1, <2>2
<1>9. ASSUME NEW x \in DOMAIN m, b < x, x < t PROVE Sw(x)
  <2>1. ~ m[b].used
    <3>1. SUFFICES ASSUME m[b].used PROVE FALSE
      OBVIOUS
    <3>2. NextIn(DOMAIN m, b, t)
      BY <3>1, <1>1, <1>2, <1>4 DEF Linked
    <3> QED BY <3>2, <1>9, <1>2, <1>4, <1>1 DEF NextIn, NULL
  <2>2. ~ m[x].used
    BY <1>1, <1>9
  <2>3. ASSUME NEW u \in DOMAIN m, u > b, m[u].used PROVE u > x
    <3>1. ~ (u < t)
      BY <1>1, <2>3, <1>2, <1>4
    <3> QED BY <3>1, <1>9, <1>2, <1>4
  <2> QED BY <2>1, <2>2, <2>3, <1>4, <1>9, SwallowedIs DEF Sw
<1>10. ASSUME NEW x \in DOMAIN m
       PROVE  x \in DOMAIN d <=> (x <= t /\ ~ Sw(x)) \/ (e # NULL /\ x >= e)
  <2>1. x \in Nat
    BY <1>2
  <2>2. CASE x <= b
    <3>1. ~ (x >= t) /\ x <= t /\ ~ (e # NULL /\ x >= e)
      BY <2>1, <2>2, <1>1, <1>4, <1>6, <1>2
    <3> QED BY <3>1, <2>2, <1>1
  <2>3. CASE b < x /\ x < t
    <3>1. ~ (x >= t) /\ ~ (x <= b) /\ ~ (e # NULL /\ x >= e)
      BY <2>1, <2>3, <1>4, <1>6, <1>2
    <3> QED BY <3>1, <1>1, <1>9, <2>3
  <2>4. CASE x = t
    BY <2>4, <1>5, <1>8, <2>1
  <2>5. CASE t < x
    <3>1. ~ (x <= t) /\ x >= t
      BY <2>1, <2>5, <1>4
    <3>2. e # NULL /\ x >= e
      BY <3>1, <1>6, <1>7, <2>1, <1>2
    <3> QED BY <3>1, <3>2, <1>1
  <2> QED BY <2>1, <2>2, <2>3, <2>4, <2>5, <1>4
<1>11. ASSUME NEW x \in DOMAIN d, x < t
       PROVE  d[x].size = IF m[x].used THEN m[x].size ELSE H!NextUsed(Blk(m), x) - x - HDR
  <2>1. x \in DOMAIN m /\ x \in Nat
    BY <1>1, <1>2
  <2>2. x <= b
    BY <2>1, <1>1, <1>4, <1>11
  <2>3. CASE x < b
    BY <2>3, <1>1
  <2>4. CASE x = b /\ m[b].used
    BY <2>4, <1>1
  <2>5. CASE x = b /\ ~ m[b].used
    <3>1. m[t].used
      BY <2>5 DEF t
    <3>2. ASSUME NEW u \in DOMAIN m, b < u, m[u].used PROVE t <= u
      <4>1. ~ (u < t)
        BY <3>2, <1>1
      <4> QED BY <4>1, <1>2, <1>4
    <3>3. H!NextUsed(Blk(m), b) = t
      BY <2>5, <3>1, <3>2, <1>1, <1>4, NextUsedIs
    <3> QED BY <2>5, <3>3, <1>1
  <2> QED BY <2>1, <2>2, <2>3, <2>4, <2>5, <1>4
<1>12. IF m[t].used THEN d[t].size = m[t].size /\ d[t].next = e
       ELSE e # NULL /\ d[t].size = e - t - HDR
  <2>1. CASE m[t].used
    BY <2>1, <1>5 DEF e
  <2>2. CASE ~ m[t].used
    <3>1. m[t].size \in Nat /\ e = t + HDR + m[t].size /\ e \in DOMAIN m
      BY <1>1, <1>2, <2>2 DEF Tiled, e
    <3>2. HDR \in Nat /\ e # 0
      BY <3>1, <1>2, ListAssumption
    <3> QED BY <2>2, <3>1, <3>2, <1>4, <1>5 DEF NULL
  <2> QED BY <2>1, <2>2
<1>13. d[t].next = e
  BY <1>5 DEF e
<1>14. \A x \in DOMAIN m : t < x /\ (e # NULL => x < e) => ~ m[x].used
  <2>1. \A x \in DOMAIN m : ~ (t < x /\ (e # NULL => x < e))
    BY <1>2, <1>4, <1>6, <1>7
  <2> QED BY <2>1
<1>15. \A x \in DOMAIN d : t < x => d[x] = m[x]
  BY <1>1, <1>2, <1>4
<1>16. e = NULL \/ n + 1 < e
  BY <1>1, <1>2, <1>4, <1>6
<1>17. CoalescingTo(m, d, t, n + 1)
  BY <1>1, <1>5, <1>6, <1>10, <1>11, <1>12, <1>13, <1>14, <1>15, <1>16 DEF CoalescingTo, Sw
<1> QED BY <1>17 DEF t

(* and stays at a free block for as long as it swallows the next.          *)
LEMMA CoalescingMerges ==
  ASSUME HeapTop < WORD, NEW m, NEW ar, Whole(m, ar), NEW d, NEW b, NEW n \in Nat,
         CoalescingTo(m, d, b, n), d[b].next # NULL, ~ m[b].used, ~ m[d[b].next].used
  PROVE  CoalescingTo(m, Swallow(d, b), b, n + 1)
<1> DEFINE t == d[b].next
           Sw(x) == H!Swallowed(Blk(m), x)
           e == m[t].next
           f == Swallow(d, b)
<1>1. /\ Linked(d) /\ b \in DOMAIN d /\ t \in DOMAIN m /\ b < t /\ DOMAIN d \subseteq DOMAIN m
      /\ \A x \in DOMAIN m : x \in DOMAIN d <=> (x <= b /\ ~ Sw(x)) \/ x >= t
      /\ \A x \in DOMAIN m : b < x /\ x < t => ~ m[x].used
      /\ \A x \in DOMAIN d : b < x => d[x] = m[x]
      /\ \A x \in DOMAIN d : d[x].used = m[x].used
      /\ \A x \in DOMAIN d : x < b =>
           d[x].size = IF m[x].used THEN m[x].size ELSE H!NextUsed(Blk(m), x) - x - HDR
      /\ d[b].size = t - b - HDR
      /\ n < t
  <2> HIDE DEF Sw
  <2> QED BY DEF CoalescingTo, Sw
<1>2. DOMAIN m \subseteq Nat \ {0} /\ Linked(m) /\ Tiled(m)
  BY WholeTiled DEF Whole, Tiled
<1>3. /\ e \in DOMAIN m /\ e = t + HDR + m[t].size /\ m[t].size \in Nat /\ e <= HeapTop
      /\ \A x \in DOMAIN m : t < x => e <= x
  BY <1>1, <1>2 DEF Tiled
<1>4. /\ Linked(f) /\ DOMAIN f = DOMAIN d \ {t} /\ b \in DOMAIN f
      /\ f[b] = [next |-> d[t].next, size |-> U32(d[b].size + HDR + d[t].size), used |-> d[b].used]
      /\ \A x \in DOMAIN d \ {b, t} : f[x] = d[x]
  <2>1. DOMAIN d \subseteq Nat \ {0} /\ d[b].next # NULL /\ Linked(d) /\ b \in DOMAIN d
    BY <1>1, <1>2
  <2> DEFINE g == Swallow(d, b)
  <2> HIDE DEF f, t, g
  <2>2. /\ Linked(g) /\ DOMAIN g = DOMAIN d \ {d[b].next} /\ b \in DOMAIN g
        /\ g[b] = [next |-> d[d[b].next].next,
                    size |-> U32(d[b].size + HDR + d[d[b].next].size), used |-> d[b].used]
        /\ \A x \in DOMAIN d \ {b, d[b].next} : g[x] = d[x]
    BY <2>1, SwallowLinked DEF g
  <2> QED BY <2>2 DEF f, g, t
<1>u. ~ m[b].used /\ ~ m[t].used
  OBVIOUS
<1> HIDE DEF t, Sw, e, f
<1>5. /\ b \in Nat /\ t \in Nat /\ b \in DOMAIN m /\ e \in Nat /\ e # 0 /\ t < e
      /\ HDR \in Nat /\ HDR > 0 /\ HeapTop \in Nat /\ WORD \in Nat \ {0}
  BY <1>1, <1>2, <1>3, ListAssumption
<1>6. d[t] = m[t] /\ t \in DOMAIN d
  BY <1>1, <1>5
<1>7. U32(d[b].size + HDR + d[t].size) = e - b - HDR
  <2> DEFINE z == e - b - HDR
  <2>1. d[b].size + HDR + d[t].size = z
    BY <1>1, <1>3, <1>5, <1>6
  <2>2. z \in Nat /\ z < WORD
    BY <1>1, <1>3, <1>5
  <2>3. \A k \in Nat, w \in Nat \ {0} : k < w => k % w = k
    OBVIOUS
  <2> HIDE DEF z
  <2>4. z % WORD = z
    BY <2>2, <2>3, <1>5
  <2> QED BY <2>1, <2>4 DEF U32, z
<1>8. f[b].next = e /\ f[b].size = e - b - HDR /\ f[b].used = m[b].used
  BY <1>1, <1>4, <1>6, <1>7 DEF e
<1>9. Sw(t)
  <2>1. ASSUME NEW u \in DOMAIN m, u > b, m[u].used PROVE u > t
    BY <2>1, <1>1, <1>2, <1>5, <1>u
  <2> QED BY <2>1, <1>1, <1>5, <1>u, SwallowedIs DEF Sw
<1>10. ASSUME NEW x \in DOMAIN m
       PROVE  x \in DOMAIN f <=> (x <= b /\ ~ Sw(x)) \/ (e # NULL /\ x >= e)
  <2>1. x \in Nat /\ e # NULL
    BY <1>2, <1>5 DEF NULL
  <2>2. CASE x <= b
    <3>1. ~ (x >= t) /\ x # t
      BY <2>1, <2>2, <1>1, <1>5
    <3>2. ~ (x >= e)
      BY <2>1, <2>2, <1>1, <1>5
    <3> QED BY <3>1, <3>2, <2>2, <1>1, <1>4
  <2>3. CASE b < x /\ x < t
    <3>1. ~ (x >= t) /\ ~ (x <= b) /\ ~ (x >= e)
      BY <2>1, <2>3, <1>5
    <3> QED BY <3>1, <1>1, <1>4
  <2>4. CASE x = t
    <3>1. ~ (x <= b) /\ ~ (x >= e)
      BY <2>1, <2>4, <1>1, <1>5
    <3> QED BY <3>1, <2>4, <1>4
  <2>5. CASE t < x
    <3>1. ~ (x <= b) /\ x >= t /\ x # t /\ x >= e
      BY <2>1, <2>5, <1>1, <1>3, <1>5
    <3> QED BY <3>1, <2>1, <1>1, <1>4
  <2> QED BY <2>1, <2>2, <2>3, <2>4, <2>5, <1>5
<1>11. \A x \in DOMAIN m : b < x /\ (e # NULL => x < e) => ~ m[x].used
  <2>1. ASSUME NEW x \in DOMAIN m, b < x, x < e PROVE ~ m[x].used
    <3>1. x < t \/ x = t
      BY <2>1, <1>2, <1>3, <1>5
    <3> QED BY <3>1, <2>1, <1>1, <1>u
  <2> QED BY <2>1, <1>5 DEF NULL
<1>12. ASSUME NEW x \in DOMAIN f
       PROVE  /\ b < x => f[x] = m[x]
              /\ f[x].used = m[x].used
              /\ x < b => f[x].size = IF m[x].used THEN m[x].size ELSE H!NextUsed(Blk(m), x) - x - HDR
  <2>1. x \in DOMAIN d /\ x \in Nat /\ x # t
    BY <1>1, <1>2, <1>4
  <2>2. CASE x = b
    BY <2>2, <1>5, <1>8
  <2>3. CASE x # b
    <3>1. f[x] = d[x]
      BY <2>1, <2>3, <1>4
    <3> QED BY <2>1, <3>1, <1>1
  <2> QED BY <2>2, <2>3
<1>13. DOMAIN f \subseteq DOMAIN m /\ b < e /\ n + 1 < e
  BY <1>1, <1>4, <1>5
<1>14. e # NULL
  BY <1>5 DEF NULL
<1>15. CoalescingTo(m, f, b, n + 1)
  BY <1>3, <1>4, <1>8, <1>10, <1>11, <1>12, <1>13, <1>14, <1>u DEF CoalescingTo, Sw
<1> QED BY <1>15 DEF f

(* coalesce_all comes to what Gem4xeHeap says of it.                       *)
LEMMA CoalescedIs ==
  ASSUME HeapTop < WORD, NEW l, NEW ar, Whole(l.mem, ar), HeadIs(DOMAIN l.mem, l.head)
  PROVE  \E d : /\ coalesce_all(l) = [l EXCEPT !.mem = d]
                /\ Linked(d) /\ Blk(d) = H!Coalesced(Blk(l.mem))
<1> DEFINE m == l.mem
<1> HIDE DEF m
<1>1. Linked(m) /\ Tiled(m) /\ HeapTop \in Nat /\ Whole(m, ar)
  BY WholeTiled, ListAssumption DEF Whole, m
<1>2. PICK f : CoalescePasses(l, f) /\ coalesce_all(l) = [l EXCEPT !.mem = f[HeapTop].mem]
  BY CoalescePassesAre
<1> DEFINE d == f[HeapTop].mem
<1>3. CASE DOMAIN m = {}
  <2> DEFINE S == {n \in 0 .. HeapTop : f[n] = Start(l)}
  <2>1. Start(l).at = NULL /\ Start(l).mem = m
    BY <1>3 DEF Start, HeadIs, m
  <2>2. 0 \in S
    BY <1>1, <1>2 DEF CoalescePasses
  <2>3. ASSUME NEW n \in 0 .. HeapTop - 1, n \in S PROVE n + 1 \in S
    <3>1. f[n + 1] = CoalescePass(f[n]) /\ f[n] = Start(l) /\ n + 1 \in 0 .. HeapTop
      BY <1>1, <1>2, <2>3 DEF CoalescePasses
    <3>2. f[n + 1] = Start(l)
      BY <3>1, <2>1 DEF CoalescePass
    <3> QED BY <3>1, <3>2
  <2>4. HeapTop \in S
    <3> HIDE DEF S
    <3> QED BY <1>1, <2>2, <2>3, Upwards
  <2>5. d = m
    BY <2>1, <2>4
  <2>6. DOMAIN H!Coalesced(Blk(m)) = {} /\ DOMAIN Blk(m) = {}
    BY <1>3 DEF H!Coalesced, Blk
  <2>7. Blk(m) = H!Coalesced(Blk(m))
    <3>1. H!Coalesced(Blk(m)) = [h \in DOMAIN m |-> H!Coalesced(Blk(m))[h]]
      BY <1>3, <2>6 DEF H!Coalesced, Blk
    <3>2. Blk(m) = [h \in DOMAIN m |-> H!Coalesced(Blk(m))[h]]
      BY <1>3 DEF Blk
    <3> QED BY <3>1, <3>2
  <2> QED BY <1>1, <1>2, <2>5, <2>7 DEF m
<1>4. CASE DOMAIN m # {}
  <2> DEFINE At(n) == CoalescingTo(m, f[n].mem, f[n].at, n)
             S == {n \in 0 .. HeapTop : At(n)}
  <2>1. 0 \in S
    <3>1. f[0].mem = m /\ f[0].at = l.head
      BY <1>2 DEF CoalescePasses, Start, m
    <3>2. l.head \in DOMAIN m /\ \A x \in DOMAIN m : l.head <= x
      BY <1>4 DEF HeadIs, m
    <3>3. At(0)
      BY <1>1, <3>1, <3>2, CoalescingStarts
    <3> QED BY <1>1, <3>3
  <2>2. ASSUME NEW n \in 0 .. HeapTop - 1, n \in S PROVE n + 1 \in S
    <3> DEFINE s == f[n]
               b == s.at
               e == s.mem
               t == e[b].next
    <3>1. f[n + 1] = CoalescePass(s) /\ CoalescingTo(m, e, b, n) /\ n + 1 \in 0 .. HeapTop /\ n \in Nat
      BY <1>1, <1>2, <2>2 DEF CoalescePasses
    <3> HIDE DEF s
    <3>2. b \in DOMAIN m /\ b \in DOMAIN e /\ DOMAIN m \subseteq Nat \ {0} /\ b # NULL
      <4>1. b \in DOMAIN e /\ DOMAIN e \subseteq DOMAIN m /\ DOMAIN m \subseteq Nat \ {0}
        BY <3>1, <1>1 DEF CoalescingTo, Tiled
      <4> QED BY <4>1 DEF NULL
    <3>3. CASE t = NULL
      <4>1. f[n + 1] = s
        BY <3>1, <3>2, <3>3 DEF CoalescePass
      <4>2. CoalescingTo(m, e, b, n + 1)
        BY <3>1, <3>3 DEF CoalescingTo
      <4> QED BY <3>1, <4>1, <4>2
    <3>4. CASE t # NULL
      <4>1. t \in DOMAIN m /\ b < t /\ e[b].used = m[b].used
        BY <3>1, <3>2, <3>4 DEF CoalescingTo
      <4>2. e[t].used = m[t].used
        <5>1. t \in DOMAIN e
          <6>1. t \in Nat /\ t >= t
            BY <4>1, <3>2
          <6> QED BY <6>1, <4>1, <3>1, <3>4 DEF CoalescingTo
        <5> QED BY <5>1, <3>1 DEF CoalescingTo
      <4>3. CASE m[b].used \/ m[t].used
        <5>1. f[n + 1] = [mem |-> e, at |-> t]
          BY <3>1, <3>2, <3>4, <4>1, <4>2, <4>3 DEF CoalescePass
        <5>2. CoalescingTo(m, e, t, n + 1)
          BY <1>1, <3>1, <3>4, <4>3, CoalescingMovesOn
        <5>3. f[n + 1].mem = e /\ f[n + 1].at = t
          BY <5>1
        <5> HIDE DEF e, t
        <5> QED BY <3>1, <5>2, <5>3
      <4>4. CASE ~ m[b].used /\ ~ m[t].used
        <5>1. f[n + 1] = [mem |-> Swallow(e, b), at |-> b]
          BY <3>1, <3>2, <3>4, <4>1, <4>2, <4>4 DEF CoalescePass
        <5>2. CoalescingTo(m, Swallow(e, b), b, n + 1)
          BY <1>1, <3>1, <3>4, <4>4, CoalescingMerges
        <5>3. f[n + 1].mem = Swallow(e, b) /\ f[n + 1].at = b
          BY <5>1
        <5> HIDE DEF e, b
        <5> QED BY <3>1, <5>2, <5>3
      <4> QED BY <4>3, <4>4
    <3> QED BY <3>3, <3>4
  <2>3. HeapTop \in S
    <3> HIDE DEF S
    <3> QED BY <1>1, <2>1, <2>2, Upwards
  <2> DEFINE b == f[HeapTop].at
  <2>4. CoalescingTo(m, d, b, HeapTop)
    BY <2>3
  <2> HIDE DEF d, b
  <2>5. d[b].next = NULL
    <3>1. d[b].next = NULL \/ (d[b].next \in DOMAIN m /\ HeapTop < d[b].next)
      BY <2>4 DEF CoalescingTo
    <3>2. \A x \in DOMAIN m : x \in Nat /\ x <= HeapTop
      BY <1>1, ListAssumption DEF Tiled
    <3> QED BY <1>1, <3>1, <3>2
  <2>6. m[b].used /\ m[b].next = NULL /\ b \in DOMAIN m /\ d[b].size = m[b].size
    BY <2>4, <2>5 DEF CoalescingTo
  <2>7. \A x \in DOMAIN m : x <= b
    BY <1>1, <2>6 DEF Linked, NextIn
  <2>8. DOMAIN d = {x \in DOMAIN m : ~ H!Swallowed(Blk(m), x)}
    BY <2>4, <2>5, <2>7 DEF CoalescingTo
  <2>9. ASSUME NEW x \in DOMAIN d
        PROVE  /\ d[x].used = m[x].used
               /\ d[x].size = IF m[x].used THEN m[x].size ELSE H!NextUsed(Blk(m), x) - x - HDR
    <3>1. x \in DOMAIN m
      BY <2>8
    <3>2. x \in Nat /\ b \in Nat /\ x <= b
      BY <3>1, <2>6, <2>7, <1>1 DEF Tiled
    <3>3. CASE x = b
      BY <3>3, <2>4, <2>6 DEF CoalescingTo
    <3>4. CASE x < b
      BY <3>4, <2>4 DEF CoalescingTo
    <3> QED BY <3>2, <3>3, <3>4
  <2>10. Linked(d)
    BY <2>4 DEF CoalescingTo
  <2>11. Blk(d) = H!Coalesced(Blk(m))
    <3>1. H!Coalesced(Blk(m)) =
            [h \in DOMAIN d |-> IF m[h].used THEN [size |-> m[h].size, used |-> m[h].used]
                                ELSE [size |-> H!NextUsed(Blk(m), h) - h - HDR, used |-> FALSE]]
      <4>1. DOMAIN Blk(m) = DOMAIN m /\ \A h \in DOMAIN m : Blk(m)[h] = [size |-> m[h].size, used |-> m[h].used]
        BY DEF Blk
      <4> DEFINE B == Blk(m)
      <4> HIDE DEF B
      <4>2. DOMAIN d = {x \in DOMAIN B : ~ H!Swallowed(B, x)}
        BY <2>8, <4>1 DEF B
      <4>3. H!Coalesced(B) = [h \in DOMAIN d |-> IF B[h].used THEN B[h]
                                ELSE [size |-> H!NextUsed(B, h) - h - HDR, used |-> FALSE]]
        BY <4>2 DEF H!Coalesced
      <4>4. \A h \in DOMAIN d : B[h] = [size |-> m[h].size, used |-> m[h].used]
        BY <4>1, <2>8 DEF B
      <4> QED BY <4>3, <4>4 DEF B
    <3>2. \A h \in DOMAIN d : m[h].used \in BOOLEAN
      BY <1>1, <2>8 DEF Tiled
    <3>3. \A h \in DOMAIN d : [size |-> d[h].size, used |-> d[h].used] =
             IF m[h].used THEN [size |-> m[h].size, used |-> m[h].used]
             ELSE [size |-> H!NextUsed(Blk(m), h) - h - HDR, used |-> FALSE]
      BY <2>9, <3>2
    <3>4. Blk(d) = [h \in DOMAIN d |-> [size |-> d[h].size, used |-> d[h].used]]
      BY DEF Blk
    <3> QED BY <3>1, <3>3, <3>4
  <2> QED BY <1>2, <2>10, <2>11 DEF d, m
<1> QED BY <1>3, <1>4
------------------------------------------------------------------------------
(* The operations on a list.                                               *)

(* An arena begins with a header, ends with the only empty used block it   *)
(* has, has room for both and shares nothing with another one.             *)
Founded(blk, ar) ==
  /\ \A a \in ar : a.lo \in DOMAIN blk /\ a.lo \in HeapAddrs /\ a.lo + HDR + HDR <= a.hi
  /\ \A b \in DOMAIN blk : H!Sentinel(blk, b) => \E a \in ar : b = a.hi - HDR
  /\ \A a, c \in ar : a = c \/ a.hi <= c.lo \/ c.hi <= a.lo

(* No merge goes past the beginning of an arena.                           *)
LEMMA NoBaseBetween ==
  ASSUME NEW blk, NEW ar, H!WellFormed(blk, ar), Founded(blk, ar),
         NEW b \in DOMAIN blk, ~ H!Sentinel(blk, b), NEW a \in ar, b < a.lo
  PROVE  H!NextUsed(blk, b) <= a.lo
<1> DEFINE u == H!NextUsed(blk, b)
<1>1. /\ u \in DOMAIN blk /\ u \in Nat /\ b < u
      /\ \E c \in ar : c.lo <= b /\ u + HDR <= c.hi
  BY H!NextUsedAbove, HeapAssumed
<1>2. PICK c \in ar : c.lo <= b /\ u + HDR <= c.hi
  BY <1>1
<1>3. /\ a.lo \in Nat /\ a.hi \in Nat /\ c.lo \in Nat /\ c.hi \in Nat /\ b \in Nat
      /\ HDR \in Nat /\ HDR > 0
  BY ListAssumption DEF H!WellFormed, H!Typed
<1>4. a = c \/ a.hi <= c.lo \/ c.hi <= a.lo
  BY DEF Founded
<1>5. a.lo + HDR + HDR <= a.hi
  BY DEF Founded
<1>6. ~ (a.hi <= c.lo) /\ a # c
  BY <1>2, <1>3, <1>5
<1>7. c.hi <= a.lo
  BY <1>4, <1>6
<1> HIDE DEF u
<1>8. u <= a.lo
  BY <1>1, <1>2, <1>3, <1>7
<1> QED BY <1>8 DEF u

(* Each of Gem4xeHeap's operations leaves the arenas founded: freeing,     *)
LEMMA FoundedReleased ==
  ASSUME NEW blk, NEW ar, H!WellFormed(blk, ar), Founded(blk, ar),
         NEW b \in DOMAIN blk, ~ H!Sentinel(blk, b)
  PROVE  Founded(H!Release(blk, b), ar)
<1> DEFINE u == H!NextUsed(blk, b)
           new == H!Release(blk, b)
<1>1. u \in Nat /\ b < u /\ b \in Nat /\ \A x \in DOMAIN blk : x \in Nat
  BY H!NextUsedAbove, HeapAssumed DEF H!WellFormed, H!Typed
<1>2. DOMAIN new = {x \in DOMAIN blk : x <= b \/ x >= u}
  BY DEF H!Release
<1>3. \A x \in DOMAIN new : IF x = b THEN new[x].used = FALSE ELSE new[x] = blk[x]
  BY DEF H!Release
<1>4. ASSUME NEW a \in ar PROVE a.lo \in DOMAIN new
  <2>1. a.lo \in DOMAIN blk
    BY DEF Founded
  <2>2. CASE b < a.lo
    <3>1. u <= a.lo
      BY <2>2, NoBaseBetween
    <3> HIDE DEF u, new
    <3> QED BY <3>1, <2>1, <1>1, <1>2
  <2>3. CASE ~ (b < a.lo)
    <3> HIDE DEF u, new
    <3> QED BY <2>1, <2>3, <1>1, <1>2
  <2> QED BY <2>2, <2>3
<1> HIDE DEF new, u
<1>5. ASSUME NEW x \in DOMAIN new, H!Sentinel(new, x)
      PROVE  \E a \in ar : x = a.hi - HDR
  <2>1. x # b /\ new[x] = blk[x] /\ x \in DOMAIN blk
    BY <1>2, <1>3, <1>5 DEF H!Sentinel
  <2>2. H!Sentinel(blk, x)
    BY <2>1, <1>5 DEF H!Sentinel
  <2> QED BY <2>1, <2>2 DEF Founded
<1>6. Founded(new, ar)
  BY <1>4, <1>5 DEF Founded
<1> QED BY <1>6 DEF new

(* coalescing,                                                             *)
LEMMA FoundedCoalesced ==
  ASSUME NEW blk, NEW ar, H!WellFormed(blk, ar), Founded(blk, ar)
  PROVE  Founded(H!Coalesced(blk), ar)
<1> DEFINE new == H!Coalesced(blk)
<1>1. DOMAIN new = {x \in DOMAIN blk : ~ H!Swallowed(blk, x)}
  BY DEF H!Coalesced
<1>2. \A x \in DOMAIN new : IF blk[x].used THEN new[x] = blk[x] ELSE new[x].used = FALSE
  BY DEF H!Coalesced
<1> HIDE DEF new
<1>3. ASSUME NEW a \in ar PROVE a.lo \in DOMAIN new
  <2>1. a.lo \in DOMAIN blk
    BY DEF Founded
  <2>2. SUFFICES ASSUME H!Swallowed(blk, a.lo) PROVE FALSE
    BY <1>1, <2>1
  <2>3. PICK p \in DOMAIN blk : /\ p < a.lo /\ ~ blk[p].used
                                /\ \A x \in H!UsedAbove(blk, p) : x > a.lo
    BY <2>2 DEF H!Swallowed
  <2>4. ~ H!Sentinel(blk, p)
    BY <2>3 DEF H!Sentinel
  <2> DEFINE u == H!NextUsed(blk, p)
  <2>5. u <= a.lo
    BY <2>3, <2>4, NoBaseBetween
  <2>6. u \in DOMAIN blk /\ blk[u].used /\ p < u /\ u \in Nat
    BY <2>4, H!NextUsedAbove, HeapAssumed
  <2> HIDE DEF u
  <2>7. u \in H!UsedAbove(blk, p)
    BY <2>3, <2>6 DEF H!UsedAbove
  <2>8. a.lo \in Nat
    BY <2>1 DEF H!WellFormed, H!Typed
  <2> QED BY <2>3, <2>5, <2>6, <2>7, <2>8
<1>4. ASSUME NEW x \in DOMAIN new, H!Sentinel(new, x)
      PROVE  \E a \in ar : x = a.hi - HDR
  <2>1. new[x] = blk[x] /\ x \in DOMAIN blk
    BY <1>1, <1>2, <1>4 DEF H!Sentinel
  <2>2. H!Sentinel(blk, x)
    BY <2>1, <1>4 DEF H!Sentinel
  <2> QED BY <2>1, <2>2 DEF Founded
<1>5. Founded(new, ar)
  BY <1>3, <1>4 DEF Founded
<1> QED BY <1>5 DEF new

(* taking a block                                                          *)
LEMMA FoundedCarved ==
  ASSUME NEW blk, NEW ar, H!WellFormed(blk, ar), Founded(blk, ar), NEW want \in Nat, want > 0,
         NEW b \in DOMAIN blk, blk[b].size >= want
  PROVE  Founded(H!Carve(blk, b, want), ar)
<1> DEFINE new == H!Carve(blk, b, want)
           rest == b + HDR + want
<1>1. /\ DOMAIN blk \subseteq DOMAIN new
      /\ \A x \in DOMAIN new :
           \/ x \in DOMAIN blk /\ new[x] = blk[x]
           \/ new[x].size = blk[b].size
           \/ new[x].size = want
           \/ new[x].used = FALSE
  <2>1. CASE blk[b].size < want + HDR + ALIGN
    <3>1. new = [blk EXCEPT ![b] = [size |-> blk[b].size, used |-> TRUE]]
      BY <2>1 DEF H!Carve
    <3> HIDE DEF new
    <3> QED BY <3>1
  <2>2. CASE ~ (blk[b].size < want + HDR + ALIGN)
    <3>1. new = [h \in DOMAIN blk \cup {rest} |->
             IF h = rest
             THEN [size |-> blk[b].size - want - HDR, used |-> FALSE]
             ELSE [blk EXCEPT ![b] = [size |-> want, used |-> TRUE]][h]]
      BY <2>2 DEF H!Carve
    <3> HIDE DEF new, rest
    <3>2. ASSUME NEW x \in DOMAIN new
          PROVE  \/ x \in DOMAIN blk /\ new[x] = blk[x]
                 \/ new[x].size = want
                 \/ new[x].used = FALSE
      BY <3>1
    <3> QED BY <3>1, <3>2
  <2> QED BY <2>1, <2>2
<1>2. blk[b].size \in Nat /\ blk[b].size # 0
  BY DEF H!WellFormed, H!Typed
<1> HIDE DEF new
<1>3. ASSUME NEW x \in DOMAIN new, H!Sentinel(new, x)
      PROVE  \E a \in ar : x = a.hi - HDR
  <2>1. x \in DOMAIN blk /\ new[x] = blk[x]
    BY <1>1, <1>2, <1>3 DEF H!Sentinel
  <2>2. H!Sentinel(blk, x)
    BY <2>1, <1>3 DEF H!Sentinel
  <2> QED BY <2>1, <2>2 DEF Founded
<1>4. Founded(new, ar)
  BY <1>1, <1>3 DEF Founded
<1> QED BY <1>4 DEF new

(* and adding an arena.                                                    *)
LEMMA FoundedGrown ==
  ASSUME NEW blk, NEW ar, H!WellFormed(blk, ar), Founded(blk, ar), NEW bytes \in Nat,
         bytes >= HDR + HDR, NEW at \in H!MallocAt(ar, bytes)
  PROVE  Founded(H!Grown(blk, at, bytes), ar \cup {[lo |-> at, hi |-> at + bytes]})
<1> DEFINE new == H!Grown(blk, at, bytes)
           end == at + bytes - HDR
           r == [lo |-> at, hi |-> at + bytes]
<1>1. at \in HeapAddrs /\ at \in Nat /\ HDR \in Nat /\ HDR > 0 /\ at # end
      /\ \A a \in ar : a.hi <= at
  BY ListAssumption DEF H!MallocAt
<1>2. /\ DOMAIN new = DOMAIN blk \cup {at, end}
      /\ \A x \in DOMAIN new : IF x = end THEN TRUE
                               ELSE IF x = at THEN new[x].used = FALSE ELSE new[x] = blk[x]
  BY DEF H!Grown
<1>3. r.lo = at /\ r.hi = at + bytes /\ end = r.hi - HDR
  BY <1>1
<1>4. at + HDR + HDR <= at + bytes
  BY <1>1
<1> HIDE DEF new, end, r
<1>5. ASSUME NEW x \in DOMAIN new, H!Sentinel(new, x)
      PROVE  \E a \in ar \cup {r} : x = a.hi - HDR
  <2>1. CASE x = end
    BY <2>1, <1>3
  <2>2. CASE x # end
    <3>1. new[x] = blk[x] /\ x \in DOMAIN blk
      BY <2>2, <1>2, <1>5 DEF H!Sentinel
    <3>2. H!Sentinel(blk, x)
      BY <3>1, <1>5 DEF H!Sentinel
    <3> QED BY <3>1, <3>2 DEF Founded
  <2> QED BY <2>1, <2>2
<1>6. \A a \in ar \cup {r} : a.lo \in DOMAIN new /\ a.lo \in HeapAddrs /\ a.lo + HDR + HDR <= a.hi
  BY <1>1, <1>2, <1>3, <1>4 DEF Founded
<1>7. \A a, c \in ar \cup {r} : a = c \/ a.hi <= c.lo \/ c.hi <= a.lo
  BY <1>1, <1>3 DEF Founded
<1>8. Founded(new, ar \cup {r})
  BY <1>5, <1>6, <1>7 DEF Founded
<1> QED BY <1>8 DEF new, r
------------------------------------------------------------------------------
(* A sound list: whole, its arenas founded, its ends where they should be. *)
Sound(l) ==
  /\ l = List(l.mem, l.head, l.tail, l.ar)
  /\ Whole(l.mem, l.ar)
  /\ Founded(Blk(l.mem), l.ar)
  /\ HeadIs(DOMAIN l.mem, l.head)
  /\ TailIs(DOMAIN l.mem, l.tail)

(* The last header is a sentinel.                                          *)
LEMMA LastUsed ==
  ASSUME NEW m, NEW ar, Whole(m, ar), NEW t \in DOMAIN m, \A x \in DOMAIN m : x <= t
  PROVE  m[t].used /\ m[t].size = 0
<1>1. Tiled(m)
  BY WholeTiled
<1>2. t \in Nat /\ m[t].size \in Nat /\ HDR \in Nat /\ HDR > 0
  BY <1>1, ListAssumption DEF Tiled
<1>3. SUFFICES ASSUME ~ (m[t].used /\ m[t].size = 0) PROVE FALSE
  OBVIOUS
<1>4. t + HDR + m[t].size \in DOMAIN m
  BY <1>1, <1>3 DEF Tiled
<1>5. t + HDR + m[t].size <= t
  BY <1>4
<1> QED BY <1>2, <1>5

LEMMA BlkSays ==
  ASSUME NEW m
  PROVE  /\ DOMAIN Blk(m) = DOMAIN m
         /\ \A b \in DOMAIN m : /\ Blk(m)[b] = [size |-> m[b].size, used |-> m[b].used]
                                /\ Blk(m)[b].size = m[b].size
                                /\ Blk(m)[b].used = m[b].used
                                /\ H!Sentinel(Blk(m), b) <=> m[b].used /\ m[b].size = 0
BY DEF Blk, H!Sentinel

(* mem_free keeps a list sound,                                            *)
LEMMA FreedSound ==
  ASSUME HeapTop < WORD, NEW l, Sound(l), NEW b \in DOMAIN l.mem, l.mem[b].size # 0
  PROVE  /\ Sound(Freed(l, b))
         /\ Freed(l, b).ar = l.ar
         /\ Blk(Freed(l, b).mem) = H!Release(Blk(l.mem), b)
<1> DEFINE m == l.mem
<1>0. Whole(l.mem, l.ar)
  BY DEF Sound
<1>f. PICK s : FreedTo(l, b, s)
  BY <1>0, FreedIs
<1>1. /\ Freed(l, b) = [l EXCEPT !.mem = s]
      /\ Linked(s) /\ Blk(s) = H!Release(Blk(m), b)
      /\ b \in DOMAIN s
      /\ \E u \in DOMAIN m : /\ u \in DOMAIN s /\ b < u /\ m[u].used
                             /\ DOMAIN s = {x \in DOMAIN m : x <= b \/ x >= u}
  BY <1>f DEF FreedTo
<1>2. l = [mem |-> m, head |-> l.head, tail |-> l.tail, ar |-> l.ar]
  BY DEF Sound, List
<1>3. /\ Whole(m, l.ar) /\ Founded(Blk(m), l.ar)
      /\ HeadIs(DOMAIN m, l.head) /\ TailIs(DOMAIN m, l.tail)
  BY DEF Sound
<1>p. b \in DOMAIN m /\ m[b].size # 0
  OBVIOUS
<1> DEFINE f == Freed(l, b)
<1> HIDE DEF m
<1>4. f = [mem |-> s, head |-> l.head, tail |-> l.tail, ar |-> l.ar]
  <2> DEFINE h == l.head
             t == l.tail
             a == l.ar
  <2> HIDE DEF f, h, t, a
  <2>1. l = [mem |-> m, head |-> h, tail |-> t, ar |-> a]
    BY <1>2 DEF h, t, a
  <2>2. f = [l EXCEPT !.mem = s]
    BY <1>1 DEF f
  <2>3. f = [mem |-> s, head |-> h, tail |-> t, ar |-> a]
    BY <2>1, <2>2
  <2> QED BY <2>3 DEF h, t, a
<1> HIDE DEF f
<1>5. /\ f.mem = s /\ f.head = l.head /\ f.tail = l.tail /\ f.ar = l.ar
      /\ f = List(f.mem, f.head, f.tail, f.ar)
  BY <1>4 DEF List
<1> DEFINE B == Blk(m)
<1>6. b \in DOMAIN B /\ ~ H!Sentinel(B, b) /\ H!WellFormed(B, l.ar)
  BY <1>p, <1>3, BlkSays DEF Whole
<1>7. H!WellFormed(H!Release(B, b), l.ar) /\ Founded(H!Release(B, b), l.ar)
  <2> HIDE DEF B
  <2> QED BY <1>3, <1>6, FoundedReleased, HeapAssumed, H!ReleaseWellFormed DEF B
<1>8. Whole(s, l.ar) /\ Founded(Blk(s), l.ar)
  BY <1>1, <1>7 DEF Whole
<1>9. \A x \in DOMAIN m : x \in Nat
  BY <1>3, WholeTiled DEF Tiled
<1>10. HeadIs(DOMAIN s, l.head) /\ TailIs(DOMAIN s, l.tail)
  BY <1>1, <1>3, <1>p, <1>9 DEF HeadIs, TailIs
<1>11. Sound(f)
  BY <1>5, <1>8, <1>10 DEF Sound
<1> QED BY <1>1, <1>5, <1>11 DEF f, m

(* coalesce_all does,                                                      *)
LEMMA CoalescedSound ==
  ASSUME HeapTop < WORD, NEW l, Sound(l)
  PROVE  /\ Sound(coalesce_all(l))
         /\ coalesce_all(l).ar = l.ar
         /\ Blk(coalesce_all(l).mem) = H!Coalesced(Blk(l.mem))
<1> DEFINE m == l.mem
<1>1. PICK s : /\ coalesce_all(l) = [l EXCEPT !.mem = s]
               /\ Linked(s) /\ Blk(s) = H!Coalesced(Blk(m))
  BY CoalescedIs DEF Sound
<1>2. l = [mem |-> m, head |-> l.head, tail |-> l.tail, ar |-> l.ar]
  BY DEF Sound, List
<1>3. /\ Whole(m, l.ar) /\ Founded(Blk(m), l.ar)
      /\ HeadIs(DOMAIN m, l.head) /\ TailIs(DOMAIN m, l.tail)
  BY DEF Sound
<1> DEFINE f == coalesce_all(l)
<1> HIDE DEF m
<1>4. f = [mem |-> s, head |-> l.head, tail |-> l.tail, ar |-> l.ar]
  <2> DEFINE h == l.head
             t == l.tail
             a == l.ar
  <2> HIDE DEF f, h, t, a
  <2>1. l = [mem |-> m, head |-> h, tail |-> t, ar |-> a]
    BY <1>2 DEF h, t, a
  <2>2. f = [l EXCEPT !.mem = s]
    BY <1>1 DEF f
  <2>3. f = [mem |-> s, head |-> h, tail |-> t, ar |-> a]
    BY <2>1, <2>2
  <2> QED BY <2>3 DEF h, t, a
<1> HIDE DEF f
<1>5. /\ f.mem = s /\ f.head = l.head /\ f.tail = l.tail /\ f.ar = l.ar
      /\ f = List(f.mem, f.head, f.tail, f.ar)
  BY <1>4 DEF List
<1> DEFINE B == Blk(m)
<1>6. H!WellFormed(B, l.ar)
  BY <1>3 DEF Whole
<1>7. H!WellFormed(H!Coalesced(B), l.ar) /\ Founded(H!Coalesced(B), l.ar)
  <2> HIDE DEF B
  <2> QED BY <1>3, <1>6, FoundedCoalesced, HeapAssumed, H!CoalescedWellFormed DEF B
<1>8. Whole(s, l.ar) /\ Founded(Blk(s), l.ar)
  BY <1>1, <1>7 DEF Whole
<1>9. \A x \in DOMAIN m : x \in Nat
  BY <1>3, WholeTiled DEF Tiled
<1>10. DOMAIN s = {x \in DOMAIN m : ~ H!Swallowed(B, x)}
  <2>1. DOMAIN Blk(s) = {x \in DOMAIN B : ~ H!Swallowed(B, x)}
    BY <1>1 DEF H!Coalesced
  <2> HIDE DEF B
  <2> QED BY <2>1, BlkSays DEF B
<1>11. \A x \in DOMAIN m : H!Swallowed(B, x) => ~ m[x].used /\ \E p \in DOMAIN m : p < x
  BY SwallowedIs
<1>12. HeadIs(DOMAIN s, l.head)
  <2>1. CASE DOMAIN m = {}
    <3>1. DOMAIN s = {}
      BY <1>10, <2>1
    <3> QED BY <2>1, <3>1, <1>3 DEF HeadIs
  <2>2. CASE DOMAIN m # {}
    <3>1. l.head \in DOMAIN m /\ \A x \in DOMAIN m : l.head <= x
      BY <1>3, <2>2 DEF HeadIs
    <3>2. ~ H!Swallowed(B, l.head)
      BY <1>9, <1>11, <3>1
    <3> HIDE DEF B
    <3> QED BY <1>10, <3>1, <3>2 DEF HeadIs
  <2> QED BY <2>1, <2>2
<1>13. TailIs(DOMAIN s, l.tail)
  <2>1. CASE DOMAIN m = {}
    <3>1. DOMAIN s = {}
      BY <1>10, <2>1
    <3> QED BY <2>1, <3>1, <1>3 DEF TailIs
  <2>2. CASE DOMAIN m # {}
    <3>1. l.tail \in DOMAIN m /\ \A x \in DOMAIN m : x <= l.tail
      BY <1>3, <2>2 DEF TailIs
    <3>2. ~ H!Swallowed(B, l.tail)
      BY <1>3, <1>11, <3>1, LastUsed
    <3> HIDE DEF B
    <3> QED BY <1>10, <3>1, <3>2 DEF TailIs
  <2> QED BY <2>1, <2>2
<1>14. Sound(f)
  BY <1>5, <1>8, <1>12, <1>13 DEF Sound
<1> QED BY <1>1, <1>5, <1>14 DEF f, m
(* Taking a block keeps a list sound:                                      *)
LEMMA TakeIs ==
  ASSUME NEW l, Sound(l), NEW b \in DOMAIN l.mem, NEW want \in Nat, want + HDR + ALIGN < WORD
  PROVE  /\ Take(l, b, want).at = b
         /\ Take(l, b, want).list = List(Take(l, b, want).list.mem, l.head, l.tail, l.ar)
         /\ IsMap(Take(l, b, want).list.mem)
         /\ LET m == l.mem
                s == Take(l, b, want).list.mem
                rest == b + HDR + want
            IN IF m[b].size < want + HDR + ALIGN
               THEN /\ DOMAIN s = DOMAIN m
                    /\ s[b] = [next |-> m[b].next, size |-> m[b].size, used |-> TRUE]
                    /\ \A x \in DOMAIN m \ {b} : s[x] = m[x]
               ELSE /\ DOMAIN s = DOMAIN m \cup {rest}
                    /\ s[b] = [next |-> rest, size |-> want, used |-> TRUE]
                    /\ s[rest] = [next |-> m[b].next, size |-> m[b].size - want - HDR,
                                  used |-> FALSE]
                    /\ \A x \in DOMAIN m \ {b, rest} : s[x] = m[x]
<1> DEFINE m == l.mem
           rest == b + HDR + want
           p == split(l, b, want)
           s == Take(l, b, want).list.mem
<1>1. /\ b \in Nat /\ HDR \in Nat /\ HDR > 0 /\ ALIGN \in Nat /\ WORD \in Nat \ {0}
      /\ b # rest
  BY WholeTiled, ListAssumption DEF Sound, Tiled
<1>2. U32(want + HDR + ALIGN) = want + HDR + ALIGN
  <2> DEFINE z == want + HDR + ALIGN
  <2>1. z \in Nat /\ z < WORD
    BY <1>1
  <2>2. \A k \in Nat, w \in Nat \ {0} : k < w => k % w = k
    OBVIOUS
  <2> HIDE DEF z
  <2>3. z % WORD = z
    BY <2>1, <2>2, <1>1
  <2> QED BY <2>3 DEF U32, z
<1>3. m[b] = [next |-> m[b].next, size |-> m[b].size, used |-> m[b].used]
  BY DEF Sound, Whole, Linked
<1>l. l = [mem |-> m, head |-> l.head, tail |-> l.tail, ar |-> l.ar]
  BY DEF Sound, List
<1>b. b \in DOMAIN m
  OBVIOUS
<1> DEFINE q == [p.mem EXCEPT ![b] = [@ EXCEPT !.used = TRUE]]
           T == Take(l, b, want).list
<1>4. Take(l, b, want).at = b /\ s = q /\ T = [p EXCEPT !.mem = q]
  <2>1. T = [p EXCEPT !.mem = q] /\ Take(l, b, want).at = b
    BY DEF Take
  <2>2. \E e, h, t, a : p = [mem |-> e, head |-> h, tail |-> t, ar |-> a]
    <3>1. CASE m[b].size < U32(want + HDR + ALIGN)
      BY <1>l, <3>1 DEF split
    <3>2. CASE ~ (m[b].size < U32(want + HDR + ALIGN))
      <4>1. \E e : p = [l EXCEPT !.mem = e]
        BY <3>2 DEF split
      <4> HIDE DEF p
      <4> QED BY <4>1, <1>l
    <3> QED BY <3>1, <3>2
  <2>3. T.mem = q
    <3> HIDE DEF p, q, T
    <3> QED BY <2>1, <2>2
  <2> QED BY <2>1, <2>3
<1>5. IsMap(s)
  <2> HIDE DEF s, p
  <2> QED BY <1>4 DEF IsMap
<1>6. CASE m[b].size < want + HDR + ALIGN
  <2>1. p = l
    BY <1>2, <1>6 DEF split
  <2>2. s = [m EXCEPT ![b] = [@ EXCEPT !.used = TRUE]]
    BY <1>4, <2>1
  <2>3. Take(l, b, want).list = List(s, l.head, l.tail, l.ar)
    <3> DEFINE h == l.head
               t == l.tail
               a == l.ar
    <3>2. l = [mem |-> m, head |-> h, tail |-> t, ar |-> a]
      BY <1>l
    <3>3. T = [l EXCEPT !.mem = s]
      BY <1>4, <2>1
    <3> HIDE DEF s, T, h, t, a
    <3>4. T = [mem |-> s, head |-> h, tail |-> t, ar |-> a]
      BY <3>2, <3>3
    <3> QED BY <3>4 DEF List, T, h, t, a
  <2> HIDE DEF s, m
  <2>4. DOMAIN s = DOMAIN m /\ \A x \in DOMAIN m \ {b} : s[x] = m[x]
    BY <2>2
  <2>5. s[b] = [m[b] EXCEPT !.used = TRUE]
    BY <2>2, <1>b
  <2>6. s[b] = [next |-> m[b].next, size |-> m[b].size, used |-> TRUE]
    BY <2>5, <1>3
  <2> QED BY <1>4, <1>5, <1>6, <2>3, <2>4, <2>6 DEF s, m
<1>7. CASE ~ (m[b].size < want + HDR + ALIGN)
  <2> DEFINE e == [x \in DOMAIN m \cup {rest} |->
                CASE x = rest -> [next |-> m[b].next, size |-> m[b].size - want - HDR, used |-> FALSE]
                  [] x = b -> [m[b] EXCEPT !.size = want, !.next = rest]
                  [] OTHER -> m[x]]
  <2>1. p = [l EXCEPT !.mem = e]
    BY <1>2, <1>7 DEF split
  <2>2. p = [mem |-> e, head |-> l.head, tail |-> l.tail, ar |-> l.ar]
    <3> DEFINE h == l.head
               t == l.tail
               a == l.ar
    <3>1. l = [mem |-> m, head |-> h, tail |-> t, ar |-> a]
      BY <1>l
    <3> HIDE DEF e, p, h, t, a
    <3>2. p = [mem |-> e, head |-> h, tail |-> t, ar |-> a]
      BY <2>1, <3>1
    <3> QED BY <3>2 DEF h, t, a
  <2>3. DOMAIN e = DOMAIN m \cup {rest} /\ \A x \in DOMAIN m \ {b, rest} : e[x] = m[x]
    OBVIOUS
  <2>4. e[rest] = [next |-> m[b].next, size |-> m[b].size - want - HDR, used |-> FALSE]
    BY <1>1
  <2>5. e[b] = [m[b] EXCEPT !.size = want, !.next = rest]
    BY <1>1
  <2>6. e[b] = [next |-> rest, size |-> want, used |-> m[b].used]
    <3> HIDE DEF e, rest
    <3> QED BY <2>5, <1>3
  <2> HIDE DEF e, rest, m
  <2>7. s = [e EXCEPT ![b] = [@ EXCEPT !.used = TRUE]]
    <3> HIDE DEF p
    <3> QED BY <1>4, <2>2
  <2>8. Take(l, b, want).list = List(s, l.head, l.tail, l.ar)
    <3> DEFINE h == l.head
               t == l.tail
               a == l.ar
    <3>2. p = [mem |-> e, head |-> h, tail |-> t, ar |-> a]
      BY <2>2
    <3> HIDE DEF p
    <3>3. T = [p EXCEPT !.mem = s]
      BY <1>4
    <3> HIDE DEF s, T, h, t, a
    <3>4. T = [mem |-> s, head |-> h, tail |-> t, ar |-> a]
      BY <3>2, <3>3
    <3> QED BY <3>4 DEF List, T, h, t, a
  <2> HIDE DEF s
  <2>9. DOMAIN s = DOMAIN m \cup {rest} /\ \A x \in DOMAIN m \cup {rest} : x # b => s[x] = e[x]
    BY <2>3, <2>7
  <2>10. s[b] = [e[b] EXCEPT !.used = TRUE]
    BY <2>3, <2>7, <1>b
  <2>11. s[b] = [next |-> rest, size |-> want, used |-> TRUE]
    <3> DEFINE u == m[b].used
               w == e[b]
               z == s[b]
    <3>1. w = [next |-> rest, size |-> want, used |-> u] /\ z = [w EXCEPT !.used = TRUE]
      BY <2>6, <2>10
    <3> HIDE DEF u, w, z
    <3>2. z = [next |-> rest, size |-> want, used |-> TRUE]
      BY <3>1
    <3> QED BY <3>2 DEF z
  <2>12. s[rest] = e[rest] /\ \A x \in DOMAIN m \ {b, rest} : s[x] = m[x]
    BY <2>3, <2>9, <1>1 DEF rest
  <2> QED BY <1>4, <1>5, <1>7, <2>4, <2>8, <2>9, <2>11, <2>12 DEF s, m, rest
<1> QED BY <1>6, <1>7

LEMMA TakeSound ==
  ASSUME NEW l, Sound(l), NEW b \in DOMAIN l.mem, NEW want \in Nat, want > 0,
         want + HDR + ALIGN < WORD, CanHold(l.mem, want, b)
  PROVE  /\ Sound(Take(l, b, want).list)
         /\ Take(l, b, want).at = b
         /\ Take(l, b, want).list.ar = l.ar
         /\ Blk(Take(l, b, want).list.mem) = H!Carve(Blk(l.mem), b, want)
<1> DEFINE m == l.mem
           B == Blk(m)
           rest == b + HDR + want
           n == Take(l, b, want).list
           s == n.mem
<1>1. /\ b \in Nat /\ HDR \in Nat /\ HDR > 0 /\ ALIGN \in Nat \ {0}
      /\ \A x \in DOMAIN m : x \in Nat \ {0}
      /\ m[b].size \in Nat /\ rest \in Nat
  BY WholeTiled, ListAssumption DEF Sound, Tiled
<1>2. /\ Take(l, b, want).at = b /\ n = List(s, l.head, l.tail, l.ar) /\ IsMap(s)
      /\ IF m[b].size < want + HDR + ALIGN
               THEN /\ DOMAIN s = DOMAIN m
                    /\ s[b] = [next |-> m[b].next, size |-> m[b].size, used |-> TRUE]
                    /\ \A x \in DOMAIN m \ {b} : s[x] = m[x]
               ELSE /\ DOMAIN s = DOMAIN m \cup {rest}
                    /\ s[b] = [next |-> rest, size |-> want, used |-> TRUE]
                    /\ s[rest] = [next |-> m[b].next, size |-> m[b].size - want - HDR,
                                  used |-> FALSE]
                    /\ \A x \in DOMAIN m \ {b, rest} : s[x] = m[x]
  BY TakeIs
<1>3. b \in DOMAIN m /\ ~ m[b].used /\ m[b].size >= want
  BY DEF CanHold
<1>4. /\ Whole(m, l.ar) /\ Founded(B, l.ar) /\ Linked(m) /\ Tiled(m)
      /\ HeadIs(DOMAIN m, l.head) /\ TailIs(DOMAIN m, l.tail)
  BY WholeTiled DEF Sound, Whole
<1> HIDE DEF s, n
<1>5. /\ n.mem = s /\ n.head = l.head /\ n.tail = l.tail /\ n.ar = l.ar
      /\ n = List(n.mem, n.head, n.tail, n.ar)
  BY <1>2 DEF List
<1> HIDE DEF m
<1> DEFINE e == b + HDR + m[b].size
<1>6. e \in DOMAIN m /\ m[b].next = e /\ e \in Nat /\ b < e /\ \A x \in DOMAIN m : b < x => e <= x
  BY <1>1, <1>3, <1>4 DEF Tiled
<1>7. ASSUME m[b].size < want + HDR + ALIGN
      PROVE  Blk(s) = H!Carve(B, b, want) /\ Linked(s)
             /\ HeadIs(DOMAIN s, l.head) /\ TailIs(DOMAIN s, l.tail)
  <2>1. /\ DOMAIN s = DOMAIN m
        /\ s[b] = [next |-> m[b].next, size |-> m[b].size, used |-> TRUE]
        /\ \A x \in DOMAIN m \ {b} : s[x] = m[x]
    BY <1>2, <1>7
  <2>2. Blk(s) = H!Carve(B, b, want)
    <3>1. H!Carve(B, b, want) = [B EXCEPT ![b] = [size |-> B[b].size, used |-> TRUE]]
      BY <1>7, <1>3, BlkSays DEF H!Carve
    <3>2. B = [x \in DOMAIN m |-> [size |-> m[x].size, used |-> m[x].used]]
      BY DEF Blk
    <3>3. Blk(s) = [x \in DOMAIN m |-> [size |-> s[x].size, used |-> s[x].used]]
      BY <2>1 DEF Blk
    <3>4. H!Carve(B, b, want) = [x \in DOMAIN m |-> IF x = b THEN [size |-> m[b].size, used |-> TRUE]
                                                     ELSE [size |-> m[x].size, used |-> m[x].used]]
      <4> HIDE DEF B
      <4>1. B[b].size = m[b].size
        BY <1>3, <3>2
      <4> QED BY <3>1, <3>2, <4>1
    <3>5. \A x \in DOMAIN m : [size |-> s[x].size, used |-> s[x].used] =
            IF x = b THEN [size |-> m[b].size, used |-> TRUE] ELSE [size |-> m[x].size, used |-> m[x].used]
      <4>1. s[b].size = m[b].size /\ s[b].used = TRUE /\ \A x \in DOMAIN m : x # b => s[x] = m[x]
        BY <2>1
      <4> QED BY <4>1
    <3> HIDE DEF B
    <3> QED BY <3>3, <3>4, <3>5
  <2>3. Linked(s)
    <3>1. ASSUME NEW x \in DOMAIN s
          PROVE  /\ s[x] = [next |-> s[x].next, size |-> s[x].size, used |-> s[x].used]
                 /\ NextIn(DOMAIN s, x, s[x].next)
      <4>1. /\ m[x] = [next |-> m[x].next, size |-> m[x].size, used |-> m[x].used]
            /\ NextIn(DOMAIN m, x, m[x].next)
        BY <2>1, <1>4 DEF Linked
      <4>2. s[x].next = m[x].next
        BY <2>1
      <4>3. s[x] = [next |-> s[x].next, size |-> s[x].size, used |-> s[x].used]
        BY <2>1, <4>1
      <4> QED BY <2>1, <4>1, <4>2, <4>3
    <3> QED BY <3>1, <1>2 DEF Linked
  <2>4. HeadIs(DOMAIN s, l.head) /\ TailIs(DOMAIN s, l.tail)
    BY <2>1, <1>4
  <2> QED BY <2>2, <2>3, <2>4
<1>8. ASSUME ~ (m[b].size < want + HDR + ALIGN)
      PROVE  Blk(s) = H!Carve(B, b, want) /\ Linked(s)
             /\ HeadIs(DOMAIN s, l.head) /\ TailIs(DOMAIN s, l.tail)
  <2>1. /\ DOMAIN s = DOMAIN m \cup {rest}
        /\ s[b] = [next |-> rest, size |-> want, used |-> TRUE]
        /\ s[rest] = [next |-> m[b].next, size |-> m[b].size - want - HDR, used |-> FALSE]
        /\ \A x \in DOMAIN m \ {b, rest} : s[x] = m[x]
    BY <1>2, <1>8
  <2>2. rest \notin DOMAIN m /\ b < rest /\ rest < e
    <3>1. b < rest /\ rest < e
      BY <1>1, <1>8
    <3>2. \A x \in DOMAIN m : x # rest
      BY <3>1, <1>1, <1>6
    <3> QED BY <3>1, <3>2
  <2>3. Blk(s) = H!Carve(B, b, want)
    <3>2. B = [x \in DOMAIN m |-> [size |-> m[x].size, used |-> m[x].used]]
      BY DEF Blk
    <3>3. Blk(s) = [x \in DOMAIN m \cup {rest} |-> [size |-> s[x].size, used |-> s[x].used]]
      BY <2>1 DEF Blk
    <3>1. H!Carve(B, b, want) = [h \in DOMAIN B \cup {rest} |->
             IF h = rest THEN [size |-> B[b].size - want - HDR, used |-> FALSE]
             ELSE [B EXCEPT ![b] = [size |-> want, used |-> TRUE]][h]]
      <4>1. ~ (B[b].size < want + HDR + ALIGN)
        BY <1>8, <1>3, BlkSays
      <4> QED BY <4>1 DEF H!Carve
    <3>4. H!Carve(B, b, want) = [x \in DOMAIN m \cup {rest} |->
              IF x = rest THEN [size |-> m[b].size - want - HDR, used |-> FALSE]
              ELSE IF x = b THEN [size |-> want, used |-> TRUE]
              ELSE [size |-> m[x].size, used |-> m[x].used]]
      <4> HIDE DEF B, rest
      <4>1. B[b].size = m[b].size /\ DOMAIN B = DOMAIN m
        BY <1>3, <3>2
      <4>2. \A x \in DOMAIN m : [B EXCEPT ![b] = [size |-> want, used |-> TRUE]][x] =
               IF x = b THEN [size |-> want, used |-> TRUE] ELSE [size |-> m[x].size, used |-> m[x].used]
        BY <3>2
      <4> QED BY <3>1, <4>1, <4>2
    <3>5. \A x \in DOMAIN m \cup {rest} : [size |-> s[x].size, used |-> s[x].used] =
              IF x = rest THEN [size |-> m[b].size - want - HDR, used |-> FALSE]
              ELSE IF x = b THEN [size |-> want, used |-> TRUE]
              ELSE [size |-> m[x].size, used |-> m[x].used]
      <4> HIDE DEF rest
      <4>1. s[b].size = want /\ s[b].used = TRUE
            /\ s[rest].size = m[b].size - want - HDR /\ s[rest].used = FALSE
        BY <2>1
      <4>2. \A x \in DOMAIN m \cup {rest} : x # b /\ x # rest => s[x] = m[x]
        BY <2>1
      <4>3. b # rest
        BY <2>2, <1>3
      <4>4. [size |-> s[b].size, used |-> s[b].used] = [size |-> want, used |-> TRUE]
            /\ [size |-> s[rest].size, used |-> s[rest].used] = [size |-> m[b].size - want - HDR, used |-> FALSE]
        BY <4>1
      <4> QED BY <4>2, <4>3, <4>4
    <3> HIDE DEF B, rest
    <3> QED BY <3>3, <3>4, <3>5
  <2>4. Linked(s)
    <3> HIDE DEF e, rest
    <3>1. ASSUME NEW x \in DOMAIN s
          PROVE  /\ s[x] = [next |-> s[x].next, size |-> s[x].size, used |-> s[x].used]
                 /\ NextIn(DOMAIN s, x, s[x].next)
      <4>1. CASE x = b
        <5>1. s[b].next = rest /\ rest # NULL
          BY <2>1, <2>2, <1>1 DEF NULL
        <5>2. NextIn(DOMAIN s, b, rest)
          <6>1. \A y \in DOMAIN s : y <= b \/ rest <= y
            BY <1>1, <1>6, <2>1, <2>2
          <6> QED BY <5>1, <6>1, <2>1, <2>2 DEF NextIn
        <5> QED BY <4>1, <5>1, <5>2, <2>1
      <4>2. CASE x = rest
        <5>1. s[rest].next = e /\ e # NULL
          BY <2>1, <1>1, <1>6 DEF NULL
        <5>2. NextIn(DOMAIN s, rest, e)
          <6>1. \A y \in DOMAIN s : y <= rest \/ e <= y
            BY <1>1, <1>6, <2>1, <2>2
          <6> QED BY <5>1, <6>1, <1>6, <2>1, <2>2 DEF NextIn
        <5> QED BY <4>2, <5>1, <5>2, <2>1
      <4>3. CASE x # b /\ x # rest
        <5>1. x \in DOMAIN m /\ s[x] = m[x]
          BY <4>3, <2>1
        <5>2. /\ m[x] = [next |-> m[x].next, size |-> m[x].size, used |-> m[x].used]
              /\ NextIn(DOMAIN m, x, m[x].next)
          BY <5>1, <1>4 DEF Linked
        <5>3. NextIn(DOMAIN s, x, m[x].next)
          <6>1. CASE m[x].next = NULL
            <7>1. \A y \in DOMAIN m : y <= x
              BY <5>2, <6>1 DEF NextIn
            <7>2. rest <= x
              BY <7>1, <5>1, <1>1, <1>6, <2>2
            <7> QED BY <6>1, <7>1, <7>2, <2>1 DEF NextIn
          <6>2. CASE m[x].next # NULL
            <7>1. m[x].next \in DOMAIN m /\ x < m[x].next /\ \A y \in DOMAIN m : y <= x \/ m[x].next <= y
              BY <5>2, <6>2 DEF NextIn
            <7>2. rest <= x \/ m[x].next <= rest
              <8>1. CASE x < b
                <9>1. m[x].next <= b
                  BY <7>1, <8>1, <5>1, <1>1, <1>3
                <9> QED BY <9>1, <7>1, <1>1, <2>2
              <8>2. CASE ~ (x < b)
                <9>1. e <= x
                  BY <8>2, <4>3, <5>1, <1>1, <1>6
                <9> QED BY <9>1, <5>1, <1>1, <1>6, <2>2
              <8> QED BY <8>1, <8>2
            <7> QED BY <6>2, <7>1, <7>2, <2>1 DEF NextIn
          <6> QED BY <6>1, <6>2
        <5> QED BY <5>1, <5>2, <5>3
      <4> QED BY <4>1, <4>2, <4>3
    <3> QED BY <3>1, <1>2 DEF Linked
  <2>5. HeadIs(DOMAIN s, l.head) /\ TailIs(DOMAIN s, l.tail)
    <3>1. DOMAIN m # {} /\ DOMAIN s # {}
      BY <1>3, <2>1
    <3>2. /\ l.head \in DOMAIN m /\ \A x \in DOMAIN m : l.head <= x
          /\ l.tail \in DOMAIN m /\ \A x \in DOMAIN m : x <= l.tail
      BY <1>4, <3>1 DEF HeadIs, TailIs
    <3>3. l.head <= rest /\ rest <= l.tail
      <4>1. l.head <= b /\ e <= l.tail
        BY <3>2, <1>3, <1>6
      <4> HIDE DEF e, rest
      <4> QED BY <4>1, <3>2, <1>1, <1>6, <2>2
    <3> HIDE DEF e, rest
    <3> QED BY <3>1, <3>2, <3>3, <2>1 DEF HeadIs, TailIs
  <2> QED BY <2>3, <2>4, <2>5
<1>9. Blk(s) = H!Carve(B, b, want) /\ Linked(s)
      /\ HeadIs(DOMAIN s, l.head) /\ TailIs(DOMAIN s, l.tail)
  BY <1>7, <1>8
<1>10. H!WellFormed(H!Carve(B, b, want), l.ar) /\ Founded(H!Carve(B, b, want), l.ar)
  <2>1. b \in H!Fits(B, want) /\ b \in DOMAIN B /\ B[b].size >= want
    BY <1>3, BlkSays DEF H!Fits
  <2>2. H!WellFormed(B, l.ar)
    BY <1>4 DEF Whole
  <2> HIDE DEF B
  <2> QED BY <2>1, <2>2, <1>4, FoundedCarved, HeapAssumed, H!CarveWellFormed
<1>11. Sound(n)
  BY <1>5, <1>9, <1>10 DEF Sound, Whole
<1> QED BY <1>2, <1>5, <1>9, <1>11 DEF n, s, m
(* and so does adding an arena.                                            *)
LEMMA NewSound ==
  ASSUME HeapTop < WORD, NEW l, Sound(l), NEW want \in Nat, want > 0,
         NEW at \in MallocAt(l.ar, H!ArenaBytes(want))
  PROVE  LET bytes == H!ArenaBytes(want)
             n == arena_new(l, at, bytes)
         IN /\ Sound(n)
            /\ n.ar = l.ar \cup {[lo |-> at, hi |-> at + bytes]}
            /\ Blk(n.mem) = H!Grown(Blk(l.mem), at, bytes)
<1> DEFINE bytes == H!ArenaBytes(want)
           n == arena_new(l, at, bytes)
           m == l.mem
           B == Blk(m)
           end == at + bytes - HDR
           D == DOMAIN m \cup {at, end}
           r == [lo |-> at, hi |-> at + bytes]
           s == n.mem
           t == l.tail
           hd == IF l.head = NULL THEN at ELSE l.head
<1>1. bytes \in Nat /\ bytes >= want + HDR + HDR
  BY HeapAssumed, H!ArenaBytesSuffice
<1>2. at \in H!MallocAt(l.ar, bytes)
  BY DEF MallocAt, H!MallocAt
<1>3. at \in Nat \ {0} /\ \A a \in l.ar : a.hi <= at
  BY ListAssumption DEF MallocAt
<1>4. /\ Whole(m, l.ar) /\ Founded(B, l.ar) /\ Linked(m) /\ Tiled(m) /\ H!WellFormed(B, l.ar)
      /\ HeadIs(DOMAIN m, l.head) /\ TailIs(DOMAIN m, t)
  BY WholeTiled DEF Sound, Whole
<1> HIDE DEF bytes
<1>5. H!WellFormed(H!Grown(B, at, bytes), l.ar \cup {r}) /\ Founded(H!Grown(B, at, bytes), l.ar \cup {r})
  <2>1. H!WellFormed(H!Grown(B, at, bytes), l.ar \cup {r})
    <3> HIDE DEF B
    <3> QED BY <1>2, <1>4, HeapAssumed, H!GrownWellFormed DEF bytes
  <2>2. bytes >= HDR + HDR
    BY <1>1, ListAssumption
  <2> HIDE DEF B
  <2>3. Founded(H!Grown(B, at, bytes), l.ar \cup {r})
    BY <2>2, <1>1, <1>2, <1>4, FoundedGrown
  <2> QED BY <2>1, <2>3
<1>6. HDR \in Nat /\ HDR > 0 /\ end \in Nat /\ at < end /\ end # 0
  BY <1>1, <1>3, ListAssumption
<1>7. \A x \in DOMAIN m : x \in Nat /\ x # 0 /\ x < at
  <2>1. ASSUME NEW x \in DOMAIN m PROVE x < at
    <3>1. PICK a \in l.ar : a.lo <= x /\ x + HDR + B[x].size <= a.hi
      <4>1. x \in DOMAIN B
        BY BlkSays
      <4> HIDE DEF B
      <4> QED BY <4>1, <1>4 DEF H!WellFormed, H!InArena, H!End
    <3>2. B[x].size \in Nat /\ x \in Nat /\ a.hi \in Nat
      <4>1. x \in DOMAIN B
        BY BlkSays
      <4> HIDE DEF B
      <4> QED BY <4>1, <1>4, ListAssumption DEF H!WellFormed, H!Typed
    <3>3. a.hi <= at
      BY <1>3
    <3> HIDE DEF B
    <3> QED BY <3>1, <3>2, <3>3, <1>3, <1>6
  <2> QED BY <2>1, <1>4 DEF Tiled
<1>e. at + HDR + (bytes - HDR - HDR) = end
  BY <1>1, <1>3, <1>6
<1> DEFINE fresh == [x \in {at, end} |->
                  IF x = end THEN [next |-> NULL, size |-> 0, used |-> TRUE]
                  ELSE [next |-> end, size |-> bytes - HDR - HDR, used |-> FALSE]]
           linked == IF l.head = NULL THEN m ELSE [m EXCEPT ![t] = [@ EXCEPT !.next = at]]
           e == [x \in D |-> IF x \in {at, end} THEN fresh[x] ELSE linked[x]]
<1>8. n = List(e, hd, end, l.ar \cup {r})
  BY <1>e DEF arena_new
<1>9. /\ s = e /\ n.head = hd /\ n.tail = end /\ n.ar = l.ar \cup {r}
      /\ n = List(n.mem, n.head, n.tail, n.ar)
  <2> HIDE DEF e, hd, end, r, n
  <2> QED BY <1>8 DEF List
<1>10. /\ DOMAIN s = D /\ IsMap(s)
       /\ s[end] = [next |-> NULL, size |-> 0, used |-> TRUE]
       /\ s[at] = [next |-> end, size |-> bytes - HDR - HDR, used |-> FALSE]
       /\ \A x \in DOMAIN m : s[x] = linked[x]
  <2>1. IsMap(e) /\ DOMAIN e = D
    BY DEF IsMap
  <2>2. e[end] = [next |-> NULL, size |-> 0, used |-> TRUE]
    BY <1>6
  <2>3. e[at] = [next |-> end, size |-> bytes - HDR - HDR, used |-> FALSE]
    BY <1>6
  <2>4. \A x \in DOMAIN m : e[x] = linked[x]
    <3>1. \A x \in DOMAIN m : x \in D /\ x \notin {at, end}
      BY <1>3, <1>6, <1>7
    <3> HIDE DEF linked, fresh, D
    <3> QED BY <3>1
  <2> HIDE DEF e, s, linked, D, end
  <2> QED BY <2>1, <2>2, <2>3, <2>4, <1>9
<1>11. ASSUME NEW x \in DOMAIN m
       PROVE  /\ s[x] = [next |-> s[x].next, size |-> m[x].size, used |-> m[x].used]
              /\ s[x].next = IF x = t THEN at ELSE m[x].next
  <2>1. l.head # NULL /\ t \in DOMAIN m
    BY <1>4, <1>7 DEF HeadIs, TailIs, NULL
  <2>2. s[x] = [m EXCEPT ![t] = [@ EXCEPT !.next = at]][x]
    BY <1>10, <2>1
  <2>3. m[x] = [next |-> m[x].next, size |-> m[x].size, used |-> m[x].used]
    BY <1>4 DEF Linked
  <2>4. CASE x = t
    <3> DEFINE u == m[x].used
               k == m[x].next
               z == m[x].size
               y == m[x]
               v == s[x]
    <3>1. y = [next |-> k, size |-> z, used |-> u] /\ v = [y EXCEPT !.next = at]
      BY <2>1, <2>2, <2>3, <2>4
    <3> HIDE DEF u, k, z, y, v
    <3>2. v = [next |-> at, size |-> z, used |-> u]
      BY <3>1
    <3>3. v.next = at /\ v = [next |-> v.next, size |-> z, used |-> u]
      BY <3>2
    <3> QED BY <3>3, <2>4 DEF v, z, u
  <2>5. CASE x # t
    <3>1. s[x] = m[x]
      BY <2>2, <2>5
    <3> QED BY <3>1, <2>3, <2>5
  <2> QED BY <2>4, <2>5
<1>12. Blk(s) = H!Grown(B, at, bytes)
  <2>1. Blk(s) = [x \in D |-> [size |-> s[x].size, used |-> s[x].used]]
    BY <1>10 DEF Blk
  <2>2. H!Grown(B, at, bytes) = [h \in D |-> IF h = end THEN [size |-> 0, used |-> TRUE]
             ELSE IF h = at THEN [size |-> bytes - HDR - HDR, used |-> FALSE] ELSE B[h]]
    <3>1. DOMAIN B = DOMAIN m
      BY BlkSays
    <3>2. H!Grown(B, at, bytes) = [h \in DOMAIN B \cup {at, end} |->
             CASE h = end -> [size |-> 0, used |-> TRUE]
               [] h = at  -> [size |-> bytes - HDR - HDR, used |-> FALSE]
               [] OTHER   -> B[h]]
      BY DEF H!Grown
    <3>3. at # end
      BY <1>6
    <3> HIDE DEF B, end
    <3> QED BY <3>1, <3>2, <3>3
  <2>3. ASSUME NEW h \in D
        PROVE  [size |-> s[h].size, used |-> s[h].used] =
                 IF h = end THEN [size |-> 0, used |-> TRUE]
                 ELSE IF h = at THEN [size |-> bytes - HDR - HDR, used |-> FALSE] ELSE B[h]
    <3> HIDE DEF s, end
    <3>1. CASE h = end
      <4>1. s[h].size = 0 /\ s[h].used = TRUE
        BY <3>1, <1>10
      <4> QED BY <3>1, <4>1
    <3>2. CASE h = at
      <4>1. s[h].size = bytes - HDR - HDR /\ s[h].used = FALSE /\ h # end
        BY <3>2, <1>6, <1>10 DEF end
      <4> QED BY <3>2, <4>1
    <3>3. CASE h # end /\ h # at
      <4>1. h \in DOMAIN m
        BY <3>3
      <4> DEFINE z == m[h].size
                 u == m[h].used
                 w == s[h]
                 k == s[h].next
      <4>2. w = [next |-> k, size |-> z, used |-> u]
        BY <4>1, <1>11
      <4>3. B[h] = [size |-> z, used |-> u]
        BY <4>1, BlkSays
      <4> HIDE DEF z, u, w, k, B
      <4>4. w.size = z /\ w.used = u
        BY <4>2
      <4>5. [size |-> w.size, used |-> w.used] = [size |-> z, used |-> u]
        BY <4>4
      <4> QED BY <3>3, <4>3, <4>5 DEF w
    <3> QED BY <3>1, <3>2, <3>3
  <2> HIDE DEF s, end, B, D
  <2> QED BY <2>1, <2>2, <2>3
<1> HIDE DEF s, n
<1>13. Linked(s)
  <2>1. ASSUME NEW x \in DOMAIN s
        PROVE  /\ s[x] = [next |-> s[x].next, size |-> s[x].size, used |-> s[x].used]
               /\ NextIn(DOMAIN s, x, s[x].next)
    <3> HIDE DEF end
    <3>1. CASE x = end
      <4>1. s[x] = [next |-> NULL, size |-> 0, used |-> TRUE]
        BY <3>1, <1>10
      <4>2. \A y \in D : y <= end
        BY <1>3, <1>6, <1>7
      <4> QED BY <3>1, <4>1, <4>2, <1>10 DEF NextIn
    <3>2. CASE x = at
      <4>1. s[x] = [next |-> end, size |-> bytes - HDR - HDR, used |-> FALSE]
        BY <3>2, <1>10
      <4>2. \A y \in D : y <= at \/ end <= y
        BY <1>3, <1>6, <1>7
      <4>3. end # NULL /\ end \in D
        BY <1>6 DEF NULL
      <4> QED BY <3>2, <4>1, <4>2, <4>3, <1>6, <1>10 DEF NextIn
    <3>3. CASE x # end /\ x # at
      <4>1. x \in DOMAIN m
        BY <3>3, <1>10
      <4>2. /\ s[x] = [next |-> s[x].next, size |-> m[x].size, used |-> m[x].used]
            /\ s[x].next = IF x = t THEN at ELSE m[x].next
        BY <4>1, <1>11
      <4>3. s[x] = [next |-> s[x].next, size |-> s[x].size, used |-> s[x].used]
        <5> DEFINE v == s[x]
                   k == s[x].next
                   z == m[x].size
                   u == m[x].used
        <5>1. v = [next |-> k, size |-> z, used |-> u]
          BY <4>2
        <5> HIDE DEF v, k, z, u
        <5>2. v = [next |-> v.next, size |-> v.size, used |-> v.used]
          BY <5>1
        <5> QED BY <5>2 DEF v
      <4>4. t \in DOMAIN m /\ \A y \in DOMAIN m : y <= t
        BY <4>1, <1>4 DEF TailIs
      <4>5. CASE x = t
        <5>1. s[x].next = at /\ at # NULL /\ at \in D
          BY <4>2, <4>5, <1>3 DEF NULL
        <5>2. \A y \in D : y <= x \/ at <= y
          BY <4>4, <4>5, <1>3, <1>6, <1>7
        <5>3. x < at
          BY <4>1, <1>7
        <5> QED BY <4>3, <5>1, <5>2, <5>3, <1>10 DEF NextIn
      <4>6. CASE x # t
        <5>1. s[x].next = m[x].next /\ NextIn(DOMAIN m, x, m[x].next)
          BY <4>1, <4>2, <4>6, <1>4 DEF Linked
        <5>2. m[x].next # NULL
          <6>1. ~ (t <= x)
            BY <4>1, <4>4, <4>6, <1>7
          <6> QED BY <5>1, <6>1, <4>4 DEF NextIn
        <5>3. m[x].next \in DOMAIN m /\ x < m[x].next /\ \A y \in DOMAIN m : y <= x \/ m[x].next <= y
          BY <5>1, <5>2 DEF NextIn
        <5>4. \A y \in D : y <= x \/ m[x].next <= y
          BY <5>3, <1>3, <1>6, <1>7
        <5> QED BY <4>3, <5>1, <5>2, <5>3, <5>4, <1>10 DEF NextIn
      <4> QED BY <4>5, <4>6
    <3> QED BY <3>1, <3>2, <3>3
  <2> QED BY <2>1, <1>10 DEF Linked
<1>14. HeadIs(DOMAIN s, hd) /\ TailIs(DOMAIN s, end)
  <2> HIDE DEF end
  <2>1. TailIs(D, end)
    BY <1>3, <1>6, <1>7 DEF TailIs
  <2>2. HeadIs(D, hd)
    <3>1. CASE DOMAIN m = {}
      <4>1. hd = at /\ D = {at, end}
        BY <3>1, <1>4 DEF HeadIs
      <4> QED BY <4>1, <1>3, <1>6 DEF HeadIs
    <3>2. CASE DOMAIN m # {}
      <4>1. l.head \in DOMAIN m /\ \A x \in DOMAIN m : l.head <= x
        BY <3>2, <1>4 DEF HeadIs
      <4>2. hd = l.head
        BY <4>1, <1>7 DEF NULL
      <4> QED BY <4>1, <4>2, <1>3, <1>6, <1>7 DEF HeadIs
    <3> QED BY <3>1, <3>2
  <2> HIDE DEF D, hd
  <2> QED BY <2>1, <2>2, <1>10
<1>15. Sound(n)
  <2> HIDE DEF hd, end, r, B, D
  <2>1. Whole(s, l.ar \cup {r}) /\ Founded(Blk(s), l.ar \cup {r})
    BY <1>5, <1>12, <1>13 DEF Whole
  <2> QED BY <1>9, <1>14, <2>1 DEF Sound, s
<1> HIDE DEF B, r
<1>16. Sound(n) /\ n.ar = l.ar \cup {r} /\ Blk(n.mem) = H!Grown(B, at, bytes)
  BY <1>9, <1>12, <1>15 DEF s
<1> QED BY <1>16 DEF n, r, B, bytes
------------------------------------------------------------------------------
(* mem_alloc.                                                              *)

(* What fits below WORD wraps nowhere: rounding is what Gem4xeHeap says,   *)
LEMMA RoundsTo ==
  ASSUME NEW w \in Nat, w + ALIGN < WORD
  PROVE  /\ round_up(w) = H!RoundUp(w) /\ round_up(w) \in Nat
         /\ round_up(w) >= w /\ round_up(w) < w + ALIGN
<1> DEFINE z == w + (ALIGN - 1)
<1>1. ALIGN \in Nat \ {0} /\ WORD \in Nat \ {0} /\ z \in Nat /\ z < WORD /\ z < w + ALIGN
  BY ListAssumption
<1>2. H!RoundUp(w) \in Nat /\ H!RoundUp(w) >= w
  BY HeapAssumed, H!WantCovers
<1>3. H!RoundUp(w) = z - (z % ALIGN)
  BY DEF H!RoundUp
<1>4. \A k \in Nat, d \in Nat \ {0} : (k < d => k % d = k) /\ k % d \in Nat
  OBVIOUS
<1> HIDE DEF z
<1>5. z % WORD = z /\ z % ALIGN \in Nat
  BY <1>1, <1>4
<1>6. round_up(w) = z - (z % ALIGN)
  <2>1. round_up(w) = (z % WORD) - ((z % WORD) % ALIGN)
    BY DEF round_up, U32, z
  <2> QED BY <2>1, <1>5
<1> DEFINE q == z % ALIGN
<1> HIDE DEF q
<1>7. q \in Nat /\ round_up(w) = z - q /\ H!RoundUp(w) = z - q
  BY <1>3, <1>5, <1>6 DEF q
<1> QED BY <1>1, <1>2, <1>7

(* and so is every size that is computed from a request.                   *)
Least1(n) == IF n = 0 THEN 1 ELSE n
LEMMA WantIs ==
  ASSUME Countable, NEW n \in Requests
  PROVE  LET want == round_up(Least1(n))
         IN /\ want = H!Want(n) /\ want \in Nat /\ want > 0 /\ want >= n
            /\ want + HDR + ALIGN < WORD
            /\ ArenaWant(want) = H!ArenaBytes(want)
            /\ n # 0 => round_up(n) = H!RoundUp(n)
<1> DEFINE k == Least1(n)
           want == round_up(k)
<1>1. n \in Nat /\ ALIGN \in Nat \ {0} /\ HDR \in Nat \ {0} /\ n + 3 * ALIGN + 2 * HDR < WORD /\ WORD \in Nat
      /\ ARENA_BYTES \in Nat
  BY ListAssumption DEF Countable
<1>2. k \in Nat /\ k >= 1 /\ k >= n /\ k <= n + 1
  BY <1>1 DEF Least1
<1>3. k + ALIGN < WORD
  BY <1>1, <1>2
<1> HIDE DEF k
<1>4. /\ want = H!RoundUp(k) /\ want \in Nat /\ want >= k /\ want < k + ALIGN
  BY <1>2, <1>3, RoundsTo
<1>5. want = H!Want(n)
  BY <1>4 DEF H!Want, k, Least1
<1> HIDE DEF want
<1>6. want + HDR + ALIGN < WORD /\ want + ALIGN < WORD
  BY <1>1, <1>2, <1>4
<1> DEFINE v == round_up(want)
           min == v + HDR + HDR
<1>7. v = H!RoundUp(want) /\ v \in Nat /\ v < want + ALIGN
  BY <1>4, <1>6, RoundsTo
<1> HIDE DEF v
<1>8. min \in Nat /\ min + ALIGN < WORD /\ min < WORD
  BY <1>1, <1>2, <1>4, <1>7
<1>9. U32(min) = min
  <2>1. \A a \in Nat, d \in Nat \ {0} : a < d => a % d = a
    OBVIOUS
  <2>2. WORD \in Nat \ {0}
    BY ListAssumption
  <2> HIDE DEF min
  <2>3. min % WORD = min
    BY <2>1, <2>2, <1>8
  <2> QED BY <2>3 DEF U32
<1>10. round_up(min) = H!RoundUp(min)
  <2> HIDE DEF min
  <2> QED BY <1>8, RoundsTo
<1>11. ArenaWant(want) = H!ArenaBytes(want)
  BY <1>7, <1>9, <1>10 DEF ArenaWant, H!ArenaBytes, v
<1>12. n # 0 => round_up(n) = H!RoundUp(n)
  BY <1>4 DEF k, Least1, want
<1>13. want > 0 /\ want >= n
  BY <1>1, <1>2, <1>4
<1> QED BY <1>4, <1>5, <1>6, <1>11, <1>12, <1>13 DEF want, k

(* The outcome in Gem4xeHeap that an outcome here stands for.              *)
Image(out) == [heap |-> H!Heap(Blk(out.list.mem), out.list.ar), at |-> out.at]

LEMMA TakeFitIs ==
  ASSUME NEW l, Sound(l), NEW want \in Nat, want > 0, want + HDR + ALIGN < WORD,
         H!Fits(Blk(l.mem), want) # {}
  PROVE  /\ Sound(TakeFit(l, want).list)
         /\ TakeFit(l, want).list.ar = l.ar
         /\ Image(TakeFit(l, want)) = H!Taken(Blk(l.mem), l.ar, want)
<1> DEFINE b == first_fit(l, want)
           n == Take(l, b, want)
<1>1. /\ b # NULL /\ b = H!FirstFit(Blk(l.mem), want)
      /\ b \in DOMAIN l.mem /\ CanHold(l.mem, want, b)
  BY FitIsFirstFit DEF Sound
<1>2. TakeFit(l, want) = n
  BY <1>1 DEF TakeFit
<1> HIDE DEF b
<1>3. /\ Sound(n.list) /\ n.at = b /\ n.list.ar = l.ar
      /\ Blk(n.list.mem) = H!Carve(Blk(l.mem), b, want)
  BY <1>1, TakeSound
<1>4. H!Taken(Blk(l.mem), l.ar, want) =
        [heap |-> H!Heap(H!Carve(Blk(l.mem), b, want), l.ar), at |-> b]
  BY <1>1 DEF H!Taken
<1> HIDE DEF n
<1> QED BY <1>2, <1>3, <1>4 DEF Image

(* Every way mem_alloc can end is one of Gem4xeHeap's, and leaves a sound  *)
(* list; a new arena is taken only when the coalesced heap has no fit.     *)
LEMMA OutcomeIs ==
  ASSUME Countable, Sound(Now), NEW n \in Requests,
         NEW out \in AllocOutcomes(round_up(Least1(n)))
  PROVE  /\ Sound(out.list)
         /\ Image(out) \in H!AllocOutcomes(H!Want(n))
         /\ out.list.ar # arenas => H!Fits(H!Coalesced(Blk(mem)), round_up(Least1(n))) = {}
<1> DEFINE want == round_up(Least1(n))
           tidy == coalesce_all(Now)
           B == Blk(mem)
           T == H!Coalesced(B)
           more == H!ArenaBytes(want)
<1>1. /\ want = H!Want(n) /\ want \in Nat /\ want > 0 /\ want + HDR + ALIGN < WORD
      /\ ArenaWant(want) = more /\ HeapTop < WORD
  BY WantIs DEF Countable
<1> HIDE DEF want
<1>2. Now.mem = mem /\ Now.ar = arenas
  BY DEF Now, List
<1>3. Sound(tidy) /\ tidy.ar = arenas /\ Blk(tidy.mem) = T
  BY <1>1, <1>2, CoalescedSound
<1>4. \A l : Sound(l) => /\ first_fit(l, want) = NULL => H!Fits(Blk(l.mem), want) = {}
                         /\ first_fit(l, want) # NULL => H!Fits(Blk(l.mem), want) # {}
  BY FitIsFirstFit DEF Sound
<1>5. H!AllocOutcomes(want) =
        CASE H!Fits(B, want) # {} -> {H!Taken(B, arenas, want)}
          [] H!Fits(B, want) = {} /\ H!Fits(T, want) # {} -> {H!Taken(T, arenas, want)}
          [] OTHER ->
               {[heap |-> H!Heap(T, arenas), at |-> NULL]}
                 \cup {H!Taken(H!Grown(T, at, more),
                               arenas \cup {[lo |-> at, hi |-> at + more]}, want)
                       : at \in H!MallocAt(arenas, more)}
  BY DEF H!AllocOutcomes, Blk, NULL, H!NULL
<1> HIDE DEF B, T, tidy, more
<1>6. CASE first_fit(Now, want) # NULL
  <2>1. H!Fits(B, want) # {}
    BY <1>2, <1>4, <1>6 DEF B
  <2>2. out = TakeFit(Now, want)
    BY <1>6 DEF AllocOutcomes, want
  <2>3. Sound(out.list) /\ Image(out) = H!Taken(B, arenas, want) /\ out.list.ar = arenas
    BY <1>1, <1>2, <2>1, <2>2, TakeFitIs DEF B
  <2>4. Image(out) \in H!AllocOutcomes(want)
    BY <1>5, <2>1, <2>3
  <2> QED BY <2>3, <2>4, <1>1
<1>7. CASE first_fit(Now, want) = NULL /\ first_fit(tidy, want) # NULL
  <2>1. H!Fits(B, want) = {} /\ H!Fits(T, want) # {}
    <3>1. H!Fits(B, want) = {}
      BY <1>2, <1>4, <1>7 DEF B
    <3>2. H!Fits(T, want) # {}
      BY <1>3, <1>4, <1>7
    <3> QED BY <3>1, <3>2
  <2>2. out = TakeFit(tidy, want)
    BY <1>7 DEF AllocOutcomes, want, tidy
  <2>3. Sound(out.list) /\ Image(out) = H!Taken(T, arenas, want) /\ out.list.ar = arenas
    BY <1>1, <1>3, <2>1, <2>2, TakeFitIs
  <2>4. Image(out) \in H!AllocOutcomes(want)
    BY <1>5, <2>1, <2>3
  <2> QED BY <2>3, <2>4, <1>1
<1>8. CASE first_fit(Now, want) = NULL /\ first_fit(tidy, want) = NULL
  <2>1. H!Fits(B, want) = {} /\ H!Fits(T, want) = {}
    <3>1. H!Fits(B, want) = {}
      BY <1>2, <1>4, <1>8 DEF B
    <3>2. H!Fits(T, want) = {}
      BY <1>3, <1>4, <1>8
    <3> QED BY <3>1, <3>2
  <2>2. \/ out = [list |-> tidy, at |-> NULL]
        \/ \E at \in MallocAt(arenas, more) : out = TakeFit(arena_new(tidy, at, more), want)
    BY <1>1, <1>8 DEF AllocOutcomes, want, tidy
  <2>3. H!AllocOutcomes(want) =
               {[heap |-> H!Heap(T, arenas), at |-> NULL]}
                 \cup {H!Taken(H!Grown(T, at, more),
                               arenas \cup {[lo |-> at, hi |-> at + more]}, want)
                       : at \in H!MallocAt(arenas, more)}
    BY <1>5, <2>1
  <2>4. CASE out = [list |-> tidy, at |-> NULL]
    <3>1. out.list = tidy /\ out.at = NULL
      BY <2>4
    <3>2. Image(out) = [heap |-> H!Heap(T, arenas), at |-> NULL]
      BY <1>3, <3>1 DEF Image
    <3>3. Image(out) \in H!AllocOutcomes(want)
      BY <2>3, <3>2
    <3> QED BY <1>1, <1>3, <2>1, <3>1, <3>3 DEF T, B, want
  <2>5. ASSUME NEW at \in MallocAt(arenas, more), out = TakeFit(arena_new(tidy, at, more), want)
        PROVE  Sound(out.list) /\ Image(out) \in H!AllocOutcomes(want)
    <3> DEFINE g == arena_new(tidy, at, more)
               r == [lo |-> at, hi |-> at + more]
    <3>1. Sound(g) /\ g.ar = arenas \cup {r} /\ Blk(g.mem) = H!Grown(T, at, more)
      BY <1>1, <1>3, NewSound DEF more
    <3>2. at \in H!MallocAt(arenas, more)
      BY DEF MallocAt, H!MallocAt
    <3>3. H!Fits(H!Grown(T, at, more), want) # {}
      <4>1. H!WellFormed(T, arenas)
        BY <1>3 DEF Sound, Whole
      <4>2. at \in H!Fits(H!Grown(T, at, more), want)
        BY <4>1, <3>2, <1>1, HeapAssumed, H!GrownWellFormed DEF more
      <4> QED BY <4>2
    <3> HIDE DEF g, r
    <3>4. out = TakeFit(g, want)
      BY <2>5 DEF g
    <3>5. Sound(out.list) /\ Image(out) = H!Taken(H!Grown(T, at, more), arenas \cup {r}, want)
      BY <1>1, <3>1, <3>3, <3>4, TakeFitIs
    <3>6. Image(out) \in H!AllocOutcomes(want)
      BY <2>3, <3>2, <3>5 DEF r
    <3> QED BY <3>5, <3>6
  <2>6. H!Fits(H!Coalesced(Blk(mem)), want) = {}
    BY <2>1 DEF T, B
  <2>7. Sound(out.list) /\ Image(out) \in H!AllocOutcomes(want)
    BY <2>2, <2>4, <2>5, <1>1
  <2> QED BY <2>6, <2>7, <1>1 DEF want
<1> QED BY <1>6, <1>7, <1>8
------------------------------------------------------------------------------
(* The clients' books: what they hold, as Gem4xeHeap keeps it.             *)

HoldersIn(h) == {c \in Clients : h[c] # None}
Live(h) == [p \in {h[c].ptr : c \in HoldersIn(h)} |->
              h[CHOOSE c \in HoldersIn(h) : h[c].ptr = p].req]

(* Each holds one allocation, and no two the same.                         *)
Books(h) ==
  /\ h = [c \in Clients |-> h[c]]
  /\ \A c \in HoldersIn(h) : h[c] = [ptr |-> h[c].ptr, req |-> h[c].req]
                             /\ h[c].ptr \in Nat /\ h[c].req \in Nat
  /\ \A c, d \in HoldersIn(h) : h[c].ptr = h[d].ptr => c = d

LEMMA LiveSays ==
  ASSUME NEW h, Books(h)
  PROVE  /\ DOMAIN Live(h) = {h[c].ptr : c \in HoldersIn(h)}
         /\ \A c \in HoldersIn(h) : Live(h)[h[c].ptr] = h[c].req
<1>1. DOMAIN Live(h) = {h[c].ptr : c \in HoldersIn(h)}
  BY DEF Live
<1>2. ASSUME NEW c \in HoldersIn(h) PROVE Live(h)[h[c].ptr] = h[c].req
  <2> DEFINE d == CHOOSE x \in HoldersIn(h) : h[x].ptr = h[c].ptr
  <2>1. d \in HoldersIn(h) /\ h[d].ptr = h[c].ptr
    OBVIOUS
  <2>2. d = c
    <3> HIDE DEF d
    <3> QED BY <2>1 DEF Books
  <2>3. Live(h)[h[c].ptr] = h[d].req
    BY DEF Live
  <2> HIDE DEF d
  <2> QED BY <2>2, <2>3
<1> QED BY <1>1, <1>2

(* Live(h) is the only function of which that is true.                     *)
LEMMA LiveIs ==
  ASSUME NEW h, Books(h), NEW f, f = [p \in DOMAIN f |-> f[p]],
         DOMAIN f = {h[c].ptr : c \in HoldersIn(h)},
         \A c \in HoldersIn(h) : f[h[c].ptr] = h[c].req
  PROVE  Live(h) = f
<1>1. Live(h) = [p \in DOMAIN f |-> Live(h)[p]]
  BY DEF Live
<1>2. ASSUME NEW p \in DOMAIN f PROVE Live(h)[p] = f[p]
  <2>1. PICK c \in HoldersIn(h) : p = h[c].ptr
    OBVIOUS
  <2>2. Live(h)[h[c].ptr] = h[c].req
    BY LiveSays
  <2>3. f[h[c].ptr] = h[c].req
    OBVIOUS
  <2> QED BY <2>1, <2>2, <2>3
<1> QED BY <1>1, <1>2

(* A client takes an allocation,                                           *)
LEMMA BooksTake ==
  ASSUME NEW h, Books(h), NEW c \in Clients, h[c] = None,
         NEW p \in Nat, NEW n \in Nat, p \notin DOMAIN Live(h)
  PROVE  LET g == [h EXCEPT ![c] = [ptr |-> p, req |-> n]]
         IN Books(g) /\ Live(g) = H!Hold(p, n, Live(h)) /\ HoldersIn(g) = HoldersIn(h) \cup {c}
            /\ g[c] = [ptr |-> p, req |-> n]
<1> DEFINE v == [ptr |-> p, req |-> n]
           g == [h EXCEPT ![c] = v]
           f == H!Hold(p, n, Live(h))
<1>1. DOMAIN h = Clients
  BY DEF Books
<1>2. v # None /\ v.ptr = p /\ v.req = n
  BY ListAssumption
<1> HIDE DEF v
<1>3. g = [d \in Clients |-> g[d]] /\ g[c] = v /\ \A d \in Clients : d # c => g[d] = h[d]
  BY <1>1
<1> HIDE DEF g
<1>4. HoldersIn(g) = HoldersIn(h) \cup {c} /\ c \notin HoldersIn(h)
  BY <1>2, <1>3 DEF HoldersIn
<1>5. ASSUME NEW d \in HoldersIn(h) PROVE g[d] = h[d] /\ h[d].ptr # p
  <2>1. h[d].ptr \in DOMAIN Live(h)
    BY LiveSays
  <2>2. d # c /\ d \in Clients
    BY <1>4 DEF HoldersIn
  <2> QED BY <2>1, <2>2, <1>3
<1>6. Books(g)
  <2>1. \A d \in HoldersIn(g) : g[d] = [ptr |-> g[d].ptr, req |-> g[d].req]
                             /\ g[d].ptr \in Nat /\ g[d].req \in Nat
    <3>1. v = [ptr |-> v.ptr, req |-> v.req]
      BY DEF v
    <3> QED BY <1>2, <1>3, <1>4, <1>5, <3>1 DEF Books
  <2>2. \A a, d \in HoldersIn(g) : g[a].ptr = g[d].ptr => a = d
    BY <1>2, <1>3, <1>4, <1>5 DEF Books
  <2> QED BY <1>3, <2>1, <2>2 DEF Books
<1>7. f = [q \in DOMAIN Live(h) \cup {p} |-> IF q = p THEN n ELSE Live(h)[q]]
  BY DEF H!Hold
<1>8. DOMAIN f = {g[d].ptr : d \in HoldersIn(g)}
  <2>1. DOMAIN f = {h[d].ptr : d \in HoldersIn(h)} \cup {p}
    BY <1>7, LiveSays
  <2> HIDE DEF f
  <2> QED BY <2>1, <1>2, <1>3, <1>4, <1>5
<1>9. \A d \in HoldersIn(g) : f[g[d].ptr] = g[d].req
  <2>1. ASSUME NEW d \in HoldersIn(h) PROVE f[g[d].ptr] = g[d].req
    <3>1. h[d].ptr \in DOMAIN Live(h) /\ Live(h)[h[d].ptr] = h[d].req /\ h[d].ptr # p
      BY LiveSays, <1>5
    <3> HIDE DEF f
    <3> QED BY <3>1, <1>5, <1>7
  <2>2. f[g[c].ptr] = g[c].req
    BY <1>2, <1>3, <1>7
  <2> HIDE DEF f
  <2> QED BY <2>1, <2>2, <1>4
<1>10. f = [q \in DOMAIN f |-> f[q]]
  BY <1>7
<1>11. Live(g) = f
  <2> HIDE DEF f
  <2> QED BY <1>6, <1>8, <1>9, <1>10, LiveIs
<1> QED BY <1>3, <1>4, <1>6, <1>11 DEF g, v

(* gives it up,                                                            *)
LEMMA BooksDrop ==
  ASSUME NEW h, Books(h), NEW c \in HoldersIn(h)
  PROVE  LET g == [h EXCEPT ![c] = None]
         IN Books(g) /\ Live(g) = H!Drop(h[c].ptr, Live(h)) /\ HoldersIn(g) = HoldersIn(h) \ {c}
            /\ g[c] = None /\ \A d \in Clients : d # c => g[d] = h[d]
<1> DEFINE g == [h EXCEPT ![c] = None]
           p == h[c].ptr
           f == H!Drop(p, Live(h))
<1>1. DOMAIN h = Clients /\ c \in Clients
  BY DEF Books, HoldersIn
<1>2. g = [d \in Clients |-> g[d]] /\ g[c] = None /\ \A d \in Clients : d # c => g[d] = h[d]
  BY <1>1
<1> HIDE DEF g
<1>3. HoldersIn(g) = HoldersIn(h) \ {c}
  BY <1>2 DEF HoldersIn
<1>4. \A d \in HoldersIn(g) : g[d] = h[d] /\ d \in HoldersIn(h) /\ h[d].ptr # p
  BY <1>2, <1>3 DEF Books, HoldersIn
<1>5. Books(g)
  <2>1. \A a, d \in HoldersIn(g) : g[a].ptr = g[d].ptr => a = d
    BY <1>4 DEF Books
  <2>2. \A d \in HoldersIn(g) : g[d] = [ptr |-> g[d].ptr, req |-> g[d].req]
                             /\ g[d].ptr \in Nat /\ g[d].req \in Nat
    BY <1>4 DEF Books
  <2> QED BY <1>2, <2>1, <2>2 DEF Books
<1>6. f = [q \in DOMAIN Live(h) \ {p} |-> Live(h)[q]]
  BY DEF H!Drop
<1>7. DOMAIN f = {g[d].ptr : d \in HoldersIn(g)}
  <2>1. DOMAIN f = {h[d].ptr : d \in HoldersIn(h)} \ {p}
    BY <1>6, LiveSays
  <2> HIDE DEF f
  <2> QED BY <2>1, <1>3, <1>4
<1>8. ASSUME NEW d \in HoldersIn(g) PROVE f[g[d].ptr] = g[d].req
  <2>1. h[d].ptr \in DOMAIN Live(h) /\ Live(h)[h[d].ptr] = h[d].req /\ h[d].ptr # p
    BY LiveSays, <1>4
  <2> HIDE DEF f, p
  <2> QED BY <2>1, <1>4, <1>6
<1>9. f = [q \in DOMAIN f |-> f[q]]
  BY <1>6
<1>10. Live(g) = f
  <2> HIDE DEF f
  <2> QED BY <1>5, <1>7, <1>8, <1>9, LiveIs
<1> QED BY <1>2, <1>3, <1>5, <1>10 DEF g

(* or keeps it with another size.                                          *)
LEMMA BooksResize ==
  ASSUME NEW h, Books(h), NEW c \in HoldersIn(h), NEW n \in Nat
  PROVE  LET g == [h EXCEPT ![c].req = n]
         IN Books(g) /\ Live(g) = H!Hold(h[c].ptr, n, Live(h)) /\ HoldersIn(g) = HoldersIn(h)
            /\ g[c] = [ptr |-> h[c].ptr, req |-> n] /\ \A d \in Clients : d # c => g[d] = h[d]
<1> DEFINE p == h[c].ptr
           v == [ptr |-> p, req |-> n]
           g == [h EXCEPT ![c].req = n]
           f == H!Hold(p, n, Live(h))
<1>1. DOMAIN h = Clients /\ c \in Clients /\ p \in Nat
  BY DEF Books, HoldersIn
<1>2. v # None /\ v.ptr = p /\ v.req = n
  BY <1>1, ListAssumption
<1>3. g = [d \in Clients |-> g[d]] /\ \A d \in Clients : d # c => g[d] = h[d]
  BY <1>1
<1>4. g[c] = v
  <2> DEFINE y == h[c]
             k == h[c].req
             w == g[c]
  <2>1. w = [y EXCEPT !.req = n]
    BY <1>1
  <2>2. y = [ptr |-> p, req |-> k]
    BY DEF Books
  <2> HIDE DEF y, k, w, p
  <2>3. w = [ptr |-> p, req |-> n]
    BY <2>1, <2>2
  <2> QED BY <2>3 DEF w, p
<1> HIDE DEF g, v
<1>5. HoldersIn(g) = HoldersIn(h)
  BY <1>1, <1>2, <1>3, <1>4 DEF HoldersIn
<1>6. \A d \in HoldersIn(h) : g[d].ptr = h[d].ptr /\ (d # c => g[d] = h[d] /\ h[d].ptr # p)
  BY <1>2, <1>3, <1>4 DEF Books, HoldersIn
<1>7. Books(g)
  <2>1. \A d \in HoldersIn(g) : g[d] = [ptr |-> g[d].ptr, req |-> g[d].req]
                             /\ g[d].ptr \in Nat /\ g[d].req \in Nat
    <3>1. v = [ptr |-> v.ptr, req |-> v.req]
      BY DEF v
    <3> QED BY <1>1, <1>2, <1>4, <1>5, <1>6, <3>1 DEF Books
  <2>2. \A a, d \in HoldersIn(g) : g[a].ptr = g[d].ptr => a = d
    BY <1>5, <1>6 DEF Books
  <2> QED BY <1>3, <2>1, <2>2 DEF Books
<1>8. f = [q \in DOMAIN Live(h) \cup {p} |-> IF q = p THEN n ELSE Live(h)[q]]
  BY DEF H!Hold
<1>9. DOMAIN f = {g[d].ptr : d \in HoldersIn(g)}
  <2>1. DOMAIN f = {h[d].ptr : d \in HoldersIn(h)} \cup {p}
    BY <1>8, LiveSays
  <2>2. p \in {h[d].ptr : d \in HoldersIn(h)}
    OBVIOUS
  <2> HIDE DEF f, p
  <2> QED BY <2>1, <2>2, <1>5, <1>6
<1>10. ASSUME NEW d \in HoldersIn(g) PROVE f[g[d].ptr] = g[d].req
  <2>1. CASE d = c
    BY <2>1, <1>2, <1>4, <1>8
  <2>2. CASE d # c
    <3>1. h[d].ptr \in DOMAIN Live(h) /\ Live(h)[h[d].ptr] = h[d].req /\ h[d].ptr # p /\ g[d] = h[d]
      BY LiveSays, <1>5, <1>6, <2>2
    <3> HIDE DEF f, p
    <3> QED BY <3>1, <1>8
  <2> QED BY <2>1, <2>2
<1>11. f = [q \in DOMAIN f |-> f[q]]
  BY <1>8
<1>12. Live(g) = f
  <2> HIDE DEF f
  <2> QED BY <1>7, <1>9, <1>10, <1>11, LiveIs
<1> QED BY <1>3, <1>4, <1>5, <1>7, <1>12 DEF g, v
------------------------------------------------------------------------------
(* The clients' bytes.                                                     *)

(* What a client holds lies in the memory, and under no header.            *)
LEMMA PayloadClear ==
  ASSUME NEW m, NEW ar, H!WellFormed(Blk(m), ar), NEW live, H!Agrees(Blk(m), live),
         NEW p \in DOMAIN live, NEW a \in Bytes(p, live[p])
  PROVE  /\ a \in 1 .. HeapTop
         /\ \A b \in DOMAIN m : a \notin Bytes(b, HDR)
<1> DEFINE B == Blk(m)
           k == p - HDR
           n == live[p]
           e == k + HDR + B[k].size
<1>1. k \in DOMAIN B /\ k \in Nat /\ n \in Nat /\ n <= B[k].size
  BY HeapAssumed, H!HeldIsUsed DEF H!Agrees
<1>2. /\ HDR \in Nat /\ HDR > 0 /\ HeapTop \in Nat
      /\ \A b \in DOMAIN B : b \in Nat \ {0} /\ B[b].size \in Nat
      /\ \A r \in ar : r.hi \in Nat /\ r.hi <= HeapTop
  BY ListAssumption DEF H!WellFormed, H!Typed
<1>3. \A b, h \in DOMAIN B : b < h => b + HDR + B[b].size <= h
  BY DEF H!WellFormed, H!Ordered, H!End
<1>4. PICK r \in ar : e <= r.hi
  BY <1>1 DEF H!WellFormed, H!InArena, H!End
<1>p. p \in Nat
  BY DEF H!Agrees
<1>d. DOMAIN B = DOMAIN m
  BY BlkSays
<1> HIDE DEF B, n
<1>5. k + HDR = p /\ a \in Nat /\ p <= a /\ a < p + n
  <2>1. a \in p .. p + n - 1
    BY DEF Bytes, n
  <2> QED BY <2>1, <1>p, <1>1, <1>2
<1>s. B[k].size \in Nat /\ k \in Nat /\ k > 0
  BY <1>1, <1>2
<1>6. a < e /\ k + HDR <= a /\ e \in Nat
  BY <1>1, <1>2, <1>5, <1>p, <1>s
<1>7. a \in 1 .. HeapTop
  BY <1>2, <1>4, <1>5, <1>6, <1>s
<1>8. ASSUME NEW b \in DOMAIN m PROVE a \notin Bytes(b, HDR)
  <2>1. b \in DOMAIN B /\ b \in Nat /\ B[b].size \in Nat
    BY <1>2, <1>d
  <2> HIDE DEF k, e
  <2>2. CASE b < k
    <3>1. b + HDR + B[b].size <= k
      BY <1>1, <1>3, <2>1, <2>2
    <3> QED BY <3>1, <2>1, <1>1, <1>2, <1>5, <1>6 DEF Bytes
  <2>3. CASE b = k
    BY <2>3, <1>1, <1>2, <1>5, <1>6 DEF Bytes
  <2>4. CASE k < b
    <3>1. e <= b
      BY <1>1, <1>3, <2>1, <2>4 DEF e
    <3> QED BY <3>1, <2>1, <1>1, <1>2, <1>5, <1>6 DEF Bytes
  <2> QED BY <2>1, <2>2, <2>3, <2>4, <1>1
<1> QED BY <1>7, <1>8

(* Two clients' bytes are apart.                                           *)
LEMMA ApartBytes ==
  ASSUME NEW p \in Nat, NEW q \in Nat, NEW i \in Nat, NEW j \in Nat,
         H!Promise!Apart(p, i, q, j), NEW a \in Bytes(p, i)
  PROVE  a \notin Bytes(q, j)
<1>1. p + (IF i = 0 THEN 1 ELSE i) <= q \/ q + (IF j = 0 THEN 1 ELSE j) <= p
  BY DEF H!Promise!Apart, H!Promise!Bytes
<1>2. p <= a /\ a < p + i /\ a \in Int
  BY DEF Bytes
<1>3. p + i <= q \/ q + j <= p
  BY <1>1
<1> QED BY <1>2, <1>3 DEF Bytes

(* StorageIntact, said of a list, of what is held and of the bytes.        *)
Intact(l, h, b) ==
  /\ \A c \in HoldersIn(h) : \A a \in Bytes(h[c].ptr, h[c].req) : b[a] = c
  /\ \A a \in Headers(l) : b[a] = None
Room(b) == b \in [1 .. HeapTop -> Clients \cup {None}]

(* Storing keeps everybody's data when what it writes is c's, what it      *)
(* gives up is nobody's, and the rest was right before.                    *)
LEMMA StoredIntact ==
  ASSUME NEW l, H!WellFormed(Blk(l.mem), l.ar), NEW h, Books(h), H!Agrees(Blk(l.mem), Live(h)),
         NEW c \in Clients, NEW mine, NEW gone, NEW old, Room(old),
         mine = {} \/ (c \in HoldersIn(h) /\ mine \subseteq Bytes(h[c].ptr, h[c].req)),
         \A d \in HoldersIn(h) : \A a \in Bytes(h[d].ptr, h[d].req) :
            IF a \in mine THEN d = c ELSE a \notin gone /\ old[a] = d
  PROVE  /\ Intact(l, h, Stored(l, c, mine, gone, old))
         /\ Room(Stored(l, c, mine, gone, old))
<1> DEFINE new == Stored(l, c, mine, gone, old)
           m == l.mem
           L == Live(h)
<1>1. DOMAIN old = 1 .. HeapTop /\ \A a \in 1 .. HeapTop : old[a] \in Clients \cup {None}
  BY DEF Room
<1>2. ASSUME NEW d \in HoldersIn(h)
      PROVE  h[d].ptr \in DOMAIN L /\ L[h[d].ptr] = h[d].req
  <2> HIDE DEF L
  <2>1. DOMAIN L = {h[x].ptr : x \in HoldersIn(h)} /\ L[h[d].ptr] = h[d].req
    BY LiveSays DEF L
  <2> QED BY <2>1
<1>3. ASSUME NEW d \in HoldersIn(h), NEW a \in Bytes(h[d].ptr, h[d].req)
      PROVE  a \in 1 .. HeapTop /\ a \notin Headers(l)
  <2>1. a \in Bytes(h[d].ptr, L[h[d].ptr]) /\ h[d].ptr \in DOMAIN L
    BY <1>2
  <2> HIDE DEF L, m
  <2>2. a \in 1 .. HeapTop /\ \A b \in DOMAIN m : a \notin Bytes(b, HDR)
    BY <2>1, PayloadClear DEF L, m
  <2> QED BY <2>2 DEF Headers, m
<1>4. \A a \in 1 .. HeapTop :
        /\ a \in mine => new[a] = c
        /\ a \notin mine /\ a \in gone \cup Headers(l) => new[a] = None
        /\ a \notin mine /\ a \notin gone \cup Headers(l) => new[a] = old[a]
  BY <1>1 DEF Stored
<1>5. ASSUME NEW d \in HoldersIn(h), NEW a \in Bytes(h[d].ptr, h[d].req)
      PROVE  new[a] = d
  <2> HIDE DEF new
  <2> QED BY <1>3, <1>4
<1>6. ASSUME NEW a \in Headers(l) PROVE new[a] = None
  <2>1. a \in 1 .. HeapTop
    <3>1. PICK b \in DOMAIN m : a \in Bytes(b, HDR)
      BY DEF Headers
    <3>2. b \in DOMAIN Blk(m) /\ Blk(m)[b].size = m[b].size
      BY BlkSays
    <3>3. b \in Nat \ {0} /\ m[b].size \in Nat /\ HDR \in Nat /\ HeapTop \in Nat
      BY <3>2, ListAssumption DEF H!WellFormed, H!Typed
    <3>4. PICK r \in l.ar : b + HDR + m[b].size <= r.hi
      BY <3>2 DEF H!WellFormed, H!InArena, H!End
    <3>5. r.hi \in Nat /\ r.hi <= HeapTop
      BY ListAssumption DEF H!WellFormed, H!Typed
    <3> QED BY <3>1, <3>3, <3>4, <3>5 DEF Bytes
  <2>2. a \notin mine
    BY <1>3
  <2> HIDE DEF new
  <2> QED BY <2>1, <2>2, <1>4
<1>7. Room(new)
  <2>1. new = [a \in 1 .. HeapTop |-> new[a]]
    BY <1>1 DEF Stored
  <2>2. \A a \in 1 .. HeapTop : new[a] \in Clients \cup {None}
    BY <1>1, <1>4
  <2> HIDE DEF new
  <2> QED BY <2>1, <2>2 DEF Room
<1> HIDE DEF new
<1>8. Intact(l, h, new)
  BY <1>5, <1>6 DEF Intact
<1> QED BY <1>7, <1>8 DEF new
------------------------------------------------------------------------------
(***************************************************************************)
(* The inductive invariant: a sound list that stands for a heap with       *)
(* Gem4xeHeap's invariant, and clients whose books and bytes are right.    *)
(***************************************************************************)
LInv ==
  /\ Sound(Now)
  /\ H!IInv
  /\ Books(held)
  /\ Room(byte)
  /\ Intact(Now, held, byte)

(* Gem4xeHeap's invariant, of what the list stands for.                    *)
Stands(m, ar, h) == H!WellFormed(Blk(m), ar) /\ H!Agrees(Blk(m), Live(h))
Counting(a, f) == a \in 0 .. CounterWidth - 1 /\ f \in 0 .. CounterWidth - 1

LEMMA InvariantIs == H!IInv <=> Stands(mem, arenas, held) /\ Counting(g_alloc_count, g_free_count)
BY DEF H!IInv, Stands, Counting, Blk, Live, HoldersIn, Holders

LEMMA InvariantIsNext ==
  H!IInv' <=> Stands(mem', arenas', held') /\ Counting(g_alloc_count', g_free_count')
BY DEF H!IInv, Stands, Counting, Blk, Live, HoldersIn, Holders

LEMMA NowIs ==
  /\ Now.mem = mem /\ Now.head = g_head /\ Now.tail = g_tail /\ Now.ar = arenas
  /\ Now'.mem = mem' /\ Now'.ar = arenas'
BY DEF Now, List

(* A step that leaves a sound list leaves this one.                        *)
LEMMA NextList ==
  ASSUME NEW l, Sound(l), SetList(l)
  PROVE  Now' = l /\ mem' = l.mem /\ arenas' = l.ar
BY DEF Sound, SetList, Now, List

(* A new allocation is nobody's and touches nobody's bytes.                *)
LEMMA OutcomeFresh ==
  ASSUME Countable, LInv, NEW n \in Requests,
         NEW out \in AllocOutcomes(round_up(Least1(n))), out.at # NULL
  PROVE  /\ out.at + HDR \in Nat /\ out.at \in Nat
         /\ out.at + HDR \notin DOMAIN Live(held)
         /\ \A p \in DOMAIN Live(held) : H!Promise!Apart(out.at + HDR, n, p, Live(held)[p])
<1> DEFINE o == Image(out)
<1>1. Image(out) \in H!AllocOutcomes(H!Want(n)) /\ o.at = out.at
  BY OutcomeIs DEF LInv, Image
<1>2. H!IInv /\ o.at # H!NULL
  BY <1>1 DEF LInv, NULL, H!NULL
<1> HIDE DEF o
<1>3. /\ o.at + HDR \in 1 .. HeapTop
      /\ o.at + HDR \notin DOMAIN [p \in {held[c].ptr : c \in Holders} |->
               held[CHOOSE c \in Holders : held[c].ptr = p].req]
      /\ H!Promise!Fresh(o.at + HDR, n)
  BY <1>1, <1>2, HeapAssumed, H!FreshOutcome DEF o
<1>4. o.at + HDR \notin DOMAIN Live(held)
  BY <1>3 DEF Live, HoldersIn, Holders
<1>5. \A p \in DOMAIN Live(held) : H!Promise!Apart(o.at + HDR, n, p, Live(held)[p])
  BY <1>3 DEF H!Promise!Fresh, Live, HoldersIn, Holders
<1>6. H!WellFormed(Blk(mem), arenas)
  BY InvariantIs DEF LInv, Stands
<1>7. o.at \in Nat
  <2>1. H!Want(n) \in Nat /\ H!Want(n) > 0
    BY WantIs
  <2>2. H!WellFormed([b \in DOMAIN mem |-> [size |-> mem[b].size, used |-> mem[b].used]], arenas)
    BY <1>6 DEF Blk
  <2> QED BY <1>1, <1>2, <2>1, <2>2, HeapAssumed, H!AllocOutcome DEF o
<1> QED BY <1>1, <1>3, <1>4, <1>5, <1>7
(* mem_alloc is Gem4xeHeap's, and keeps the invariant.                     *)
LEMMA AllocStep ==
  ASSUME Countable, LInv, NEW c \in Clients, NEW n \in Requests, mem_alloc(c, n)
  PROVE  LInv' /\ H!mem_alloc(n)
<1> DEFINE want == round_up(Least1(n))
<1>1. PICK out \in AllocOutcomes(want) :
        /\ SetList(out.list)
        /\ IF out.at = NULL
           THEN /\ byte' = Stored(out.list, c, {}, {}, byte)
                /\ UNCHANGED <<held, g_alloc_count>>
           ELSE /\ held' = [held EXCEPT ![c] = [ptr |-> out.at + HDR, req |-> n]]
                /\ byte' = Stored(out.list, c, Bytes(out.at + HDR, n), {}, byte)
                /\ g_alloc_count' = Bump(g_alloc_count)
  BY DEF mem_alloc, Least1
<1>2. held[c] = None /\ g_free_count' = g_free_count
  BY DEF mem_alloc
<1> DEFINE q == out.at + HDR
           o == Image(out)
<1>3. Sound(out.list) /\ o \in H!AllocOutcomes(H!Want(n))
  BY OutcomeIs DEF LInv
<1> HIDE DEF want
<1>4. Now' = out.list /\ mem' = out.list.mem /\ arenas' = out.list.ar
  BY <1>1, <1>3, NextList
<1>5. H!SetHeap(o.heap) /\ o.at = out.at
  <2>1. o.heap.blk = Blk(mem') /\ o.heap.arenas = arenas'
    BY <1>4 DEF Image, H!Heap
  <2> HIDE DEF o
  <2>2. H!SetHeap(o.heap)
    BY <2>1 DEF H!SetHeap, Blk
  <2>3. o.at = out.at
    BY DEF o, Image
  <2> QED BY <2>2, <2>3
<1> HIDE DEF o
<1>6. Books(held) /\ Room(byte) /\ Intact(Now, held, byte) /\ n \in Nat
  BY ListAssumption DEF LInv
<1>7. Books(held') /\ Live(held') = IF out.at = NULL THEN Live(held) ELSE H!Hold(q, n, Live(held))
  <2>1. CASE out.at = NULL
    BY <2>1, <1>1, <1>6
  <2>2. CASE out.at # NULL
    <3>1. q \in Nat /\ q \notin DOMAIN Live(held)
      BY <2>2, OutcomeFresh DEF want
    <3> HIDE DEF q
    <3>2. held' = [held EXCEPT ![c] = [ptr |-> q, req |-> n]]
      BY <2>2, <1>1 DEF q
    <3> QED BY <2>2, <3>1, <3>2, <1>2, <1>6, BooksTake
  <2> QED BY <2>1, <2>2
<1>8. H!mem_alloc(n)
  <2>1. IF o.at = H!NULL
        THEN Live(held') = Live(held) /\ g_alloc_count' = g_alloc_count
        ELSE Live(held') = H!Hold(o.at + HDR, n, Live(held)) /\ g_alloc_count' = H!Bump(g_alloc_count, 1)
    BY <1>1, <1>5, <1>7 DEF NULL, H!NULL, Bump, H!Bump
  <2>2. IF o.at = H!NULL
        THEN UNCHANGED <<[p \in {held[d].ptr : d \in Holders} |->
                            held[CHOOSE d \in Holders : held[d].ptr = p].req], g_alloc_count>>
        ELSE /\ [p \in {held[d].ptr : d \in Holders} |->
                    held[CHOOSE d \in Holders : held[d].ptr = p].req]' =
                  H!Hold(o.at + HDR, n, [p \in {held[d].ptr : d \in Holders} |->
                            held[CHOOSE d \in Holders : held[d].ptr = p].req])
             /\ g_alloc_count' = H!Bump(g_alloc_count, 1)
    BY <2>1 DEF Live, HoldersIn, Holders
  <2> QED BY <2>2, <1>2, <1>3, <1>5 DEF H!mem_alloc
<1>9. H!IInv'
  BY <1>8, HeapAssumed, H!AllocIInv DEF LInv
<1>10. Stands(mem', arenas', held')
  BY <1>9, InvariantIsNext
<1> DEFINE mine == IF out.at = NULL THEN {} ELSE Bytes(q, n)
<1>11. byte' = Stored(out.list, c, mine, {}, byte)
  BY <1>1
<1>12. Intact(out.list, held', byte') /\ Room(byte')
  <2>1. H!WellFormed(Blk(out.list.mem), out.list.ar) /\ H!Agrees(Blk(out.list.mem), Live(held'))
    BY <1>4, <1>10 DEF Stands
  <2>2. mine = {} \/ (c \in HoldersIn(held') /\ mine \subseteq Bytes(held'[c].ptr, held'[c].req))
    <3>1. CASE out.at = NULL
      BY <3>1
    <3>2. CASE out.at # NULL
      <4>1. held'[c] = [ptr |-> q, req |-> n]
        BY <1>1, <1>6, <3>2 DEF Books
      <4>2. q \in Nat
        BY <3>2, OutcomeFresh DEF want
      <4>3. held'[c].ptr = q /\ held'[c].req = n /\ held'[c] # None
        <5> HIDE DEF q
        <5> QED BY <4>1, <4>2, <1>6, ListAssumption
      <4> QED BY <3>2, <4>3 DEF HoldersIn
    <3> QED BY <3>1, <3>2
  <2>3. ASSUME NEW d \in HoldersIn(held'), NEW a \in Bytes(held'[d].ptr, held'[d].req)
        PROVE  IF a \in mine THEN d = c ELSE a \notin {} /\ byte[a] = d
    <3>1. CASE d = c
      <4>1. CASE out.at = NULL
        BY <3>1, <4>1, <1>1, <1>2 DEF HoldersIn
      <4>2. CASE out.at # NULL
        <5>1. held'[c] = [ptr |-> q, req |-> n]
          BY <1>1, <1>6, <4>2 DEF Books
        <5>2. held'[c].ptr = q /\ held'[c].req = n
          BY <5>1
        <5>3. a \in mine
          BY <3>1, <4>2, <5>2
        <5> HIDE DEF mine
        <5> QED BY <3>1, <5>3
      <4> QED BY <4>1, <4>2
    <3>2. CASE d # c
      <4>1. d \in HoldersIn(held) /\ held'[d] = held[d]
        <5>1. CASE out.at = NULL
          BY <5>1, <1>1
        <5>2. CASE out.at # NULL
          <6>1. held' = [held EXCEPT ![c] = [ptr |-> q, req |-> n]] /\ DOMAIN held = Clients
            BY <1>1, <1>6, <5>2 DEF Books
          <6> HIDE DEF q
          <6> QED BY <6>1, <3>2 DEF HoldersIn
        <5> QED BY <5>1, <5>2
      <4> DEFINE p == held[d].ptr
                 k == held[d].req
      <4>2. a \in Bytes(p, k) /\ byte[a] = d
        BY <4>1, <1>6 DEF Intact
      <4>3. a \notin mine
        <5>1. CASE out.at = NULL
          BY <5>1
        <5>2. CASE out.at # NULL
          <6>1. p \in DOMAIN Live(held) /\ Live(held)[p] = k /\ p \in Nat /\ k \in Nat
            <7>1. DOMAIN Live(held) = {held[x].ptr : x \in HoldersIn(held)} /\ Live(held)[p] = k
              BY <4>1, <1>6, LiveSays
            <7> QED BY <4>1, <7>1, <1>6 DEF Books
          <6>2. q \in Nat /\ H!Promise!Apart(q, n, p, k)
            <7> HIDE DEF p, k
            <7> QED BY <5>2, <6>1, OutcomeFresh DEF want
          <6>3. a \notin Bytes(q, n)
            <7> HIDE DEF p, q, k
            <7> QED BY <6>1, <6>2, <4>2, <1>6, ApartBytes
          <6> QED BY <5>2, <6>3
        <5> QED BY <5>1, <5>2
      <4> HIDE DEF mine
      <4> QED BY <4>2, <4>3
    <3> QED BY <3>1, <3>2
  <2> HIDE DEF mine, q
  <2> QED BY <2>1, <2>2, <2>3, <1>6, <1>7, <1>11, StoredIntact
<1>13. Sound(Now)' /\ Intact(Now, held, byte)'
  BY <1>3, <1>4, <1>12
<1> QED BY <1>7, <1>8, <1>9, <1>12, <1>13 DEF LInv
(* What a client holds is a block in use, big enough.                      *)
LEMMA HeldBlock ==
  ASSUME LInv, NEW c \in HoldersIn(held)
  PROVE  /\ held[c].ptr \in DOMAIN Live(held) /\ Live(held)[held[c].ptr] = held[c].req
         /\ held[c].ptr \in Nat /\ held[c].req \in Nat
         /\ held[c].ptr - HDR \in DOMAIN mem
         /\ H!UsedBlock(Blk(mem), held[c].ptr - HDR)
         /\ mem[held[c].ptr - HDR].size # 0
         /\ held[c].req <= mem[held[c].ptr - HDR].size
<1> DEFINE p == held[c].ptr
           L == Live(held)
           B == Blk(mem)
<1>1. Books(held) /\ H!Agrees(B, L)
  BY InvariantIs DEF LInv, Stands
<1>2. p \in DOMAIN L /\ L[p] = held[c].req
  <2>1. DOMAIN L = {held[x].ptr : x \in HoldersIn(held)} /\ L[p] = held[c].req
    BY <1>1, LiveSays
  <2> HIDE DEF L
  <2> QED BY <2>1
<1>3. p \in Nat /\ held[c].req \in Nat
  BY <1>1 DEF Books
<1> HIDE DEF L, B
<1>4. p - HDR \in DOMAIN B /\ H!UsedBlock(B, p - HDR) /\ L[p] <= B[p - HDR].size
  BY <1>1, <1>2, HeapAssumed, H!HeldIsUsed DEF H!Agrees
<1>5. p - HDR \in DOMAIN mem /\ B[p - HDR].size = mem[p - HDR].size
  BY <1>4, BlkSays DEF B
<1>6. mem[p - HDR].size # 0
  BY <1>4, <1>5 DEF H!UsedBlock
<1> QED BY <1>2, <1>3, <1>4, <1>5, <1>6 DEF L, B

(* Two clients' allocations are apart.                                     *)
LEMMA HeldApart ==
  ASSUME NEW m, NEW ar, NEW h, Stands(m, ar, h), Books(h),
         NEW c \in HoldersIn(h), NEW d \in HoldersIn(h), c # d,
         NEW a \in Bytes(h[c].ptr, h[c].req)
  PROVE  a \notin Bytes(h[d].ptr, h[d].req)
<1> DEFINE L == Live(h)
           p == h[c].ptr
           q == h[d].ptr
<1>1. DOMAIN L = {h[x].ptr : x \in HoldersIn(h)} /\ L[p] = h[c].req /\ L[q] = h[d].req
  BY LiveSays
<1>2. p \in Nat /\ q \in Nat /\ h[c].req \in Nat /\ h[d].req \in Nat /\ p # q
  BY DEF Books
<1>3. p \in DOMAIN L /\ q \in DOMAIN L
  <2> HIDE DEF L
  <2> QED BY <1>1
<1> HIDE DEF L, p, q
<1>4. H!Promise!Apart(p, L[p], q, L[q])
  BY <1>2, <1>3, HeapAssumed, H!PayloadsApart DEF Stands, L
<1>5. a \in Bytes(p, L[p]) /\ a \notin Bytes(q, L[q])
  <2>1. a \in Bytes(p, L[p])
    BY <1>1 DEF p
  <2> QED BY <2>1, <1>1, <1>2, <1>4, ApartBytes
<1> QED BY <1>1, <1>5 DEF q

(* mem_free                                                                *)
LEMMA FreeStep ==
  ASSUME Countable, LInv, NEW c \in Clients, mem_free(c)
  PROVE  /\ LInv'
         /\ \E p \in DOMAIN Live(held) : H!mem_free(p)
         /\ arenas' = arenas
<1>0. PICK p : p = held[c].ptr
  OBVIOUS
<1> DEFINE l == Freed(Now, p - HDR)
<1>1. /\ SetList(l) /\ held' = [held EXCEPT ![c] = None]
      /\ byte' = Stored(l, c, {}, Bytes(p, held[c].req), byte)
      /\ g_free_count' = Bump(g_free_count) /\ g_alloc_count' = g_alloc_count
  BY <1>0 DEF mem_free
<1>2. c \in HoldersIn(held)
  BY DEF mem_free, HoldersIn
<1>3. /\ p \in DOMAIN Live(held) /\ p - HDR \in DOMAIN mem /\ mem[p - HDR].size # 0
  BY <1>0, <1>2, HeldBlock
<1>4. Sound(l) /\ l.ar = arenas /\ Blk(l.mem) = H!Release(Blk(mem), p - HDR)
  <2> HIDE DEF l
  <2> QED BY <1>3, NowIs, FreedSound DEF LInv, Countable, l
<1> HIDE DEF l
<1>5. Now' = l /\ mem' = l.mem /\ arenas' = l.ar
  BY <1>1, <1>4, NextList
<1>6. Books(held) /\ Room(byte) /\ Intact(Now, held, byte) /\ H!IInv /\ Stands(mem, arenas, held)
  BY InvariantIs DEF LInv
<1>7. /\ Books(held') /\ Live(held') = H!Drop(p, Live(held))
      /\ HoldersIn(held') = HoldersIn(held) \ {c} /\ \A d \in Clients : d # c => held'[d] = held[d]
  <2> DEFINE h == held
             g == [h EXCEPT ![c] = None]
  <2>1. Books(h) /\ c \in HoldersIn(h)
    BY <1>2, <1>6
  <2> HIDE DEF h
  <2>2. Books(g) /\ Live(g) = H!Drop(h[c].ptr, Live(h)) /\ HoldersIn(g) = HoldersIn(h) \ {c}
            /\ g[c] = None /\ \A d \in Clients : d # c => g[d] = h[d]
    BY <2>1, BooksDrop
  <2>3. held' = g
    BY <1>1 DEF h
  <2> HIDE DEF g
  <2> QED BY <2>2, <2>3, <1>0 DEF h
<1>8. H!mem_free(p)
  <2>1. Blk(mem') = H!Release(Blk(mem), p - HDR)
    BY <1>4, <1>5
  <2>2. g_free_count' = H!Bump(g_free_count, 1)
    BY <1>1 DEF Bump, H!Bump
  <2> QED BY <2>1, <2>2, <1>1, <1>4, <1>5, <1>7 DEF H!mem_free, Blk, Live, HoldersIn, Holders
<1>9. p \in DOMAIN [x \in {held[d].ptr : d \in Holders} |->
               held[CHOOSE d \in Holders : held[d].ptr = x].req]
  BY <1>3 DEF Live, HoldersIn, Holders
<1>10. H!IInv'
  BY <1>6, <1>8, <1>9, HeapAssumed, H!FreeIInv
<1>11. Stands(mem', arenas', held')
  BY <1>10, InvariantIsNext
<1>12. Intact(l, held', byte') /\ Room(byte')
  <2>1. H!WellFormed(Blk(l.mem), l.ar) /\ H!Agrees(Blk(l.mem), Live(held'))
    BY <1>5, <1>11 DEF Stands
  <2> DEFINE gone == Bytes(p, held[c].req)
  <2>2. ASSUME NEW d \in HoldersIn(held'), NEW a \in Bytes(held'[d].ptr, held'[d].req)
        PROVE  a \notin gone /\ byte[a] = d
    <3>1. d \in HoldersIn(held) /\ d # c /\ held'[d] = held[d]
      BY <1>7 DEF HoldersIn
    <3>2. a \in Bytes(held[d].ptr, held[d].req)
      BY <3>1
    <3>3. byte[a] = d
      BY <3>1, <3>2, <1>6 DEF Intact
    <3>4. a \notin gone
      BY <3>1, <3>2, <1>0, <1>2, <1>6, HeldApart
    <3> QED BY <3>3, <3>4
  <2> HIDE DEF gone
  <2>3. byte' = Stored(l, c, {}, gone, byte)
    BY <1>1 DEF gone
  <2> DEFINE mine == {}
  <2>4. \A d \in HoldersIn(held') : \A a \in Bytes(held'[d].ptr, held'[d].req) :
            IF a \in mine THEN d = c ELSE a \notin gone /\ byte[a] = d
    BY <2>2
  <2>5. mine = {} \/ (c \in HoldersIn(held') /\ mine \subseteq Bytes(held'[c].ptr, held'[c].req))
    OBVIOUS
  <2>6. byte' = Stored(l, c, mine, gone, byte)
    BY <2>3
  <2> HIDE DEF mine
  <2> QED BY <2>1, <2>4, <2>5, <2>6, <1>6, <1>7, StoredIntact
<1>13. Sound(Now)' /\ Intact(Now, held, byte)'
  BY <1>4, <1>5, <1>12
<1>14. LInv'
  BY <1>7, <1>10, <1>12, <1>13 DEF LInv
<1> QED BY <1>3, <1>4, <1>5, <1>8, <1>14

(* and mem_realloc in place are Gem4xeHeap's too.                          *)
LEMMA InPlaceStep ==
  ASSUME Countable, LInv, NEW c \in Clients, NEW n \in Requests, ReallocInPlace(c, n)
  PROVE  /\ LInv'
         /\ \E p \in DOMAIN Live(held) : H!ReallocInPlace(p, n)
<1>0. PICK p : p = held[c].ptr
  OBVIOUS
<1> DEFINE old == held[c].req
           mine == Bytes(p, n) \ Bytes(p, old)
           gone == Bytes(p, old) \ Bytes(p, n)
<1>1. /\ n # 0 /\ mem[p - HDR].size >= round_up(n)
      /\ byte' = Stored(Now, c, mine, gone, byte)
      /\ held' = [held EXCEPT ![c].req = n]
      /\ UNCHANGED <<mem, g_head, g_tail, arenas, g_alloc_count, g_free_count>>
  BY <1>0 DEF ReallocInPlace, heapVars
<1>2. c \in HoldersIn(held) /\ n \in Nat
  BY ListAssumption DEF ReallocInPlace, HoldersIn
<1>3. p \in DOMAIN Live(held) /\ p - HDR \in DOMAIN mem
  BY <1>0, <1>2, HeldBlock
<1>4. Books(held) /\ Room(byte) /\ Intact(Now, held, byte) /\ H!IInv /\ Stands(mem, arenas, held) /\ Sound(Now)
  BY InvariantIs DEF LInv
<1>5. /\ Books(held') /\ Live(held') = H!Hold(p, n, Live(held)) /\ HoldersIn(held') = HoldersIn(held)
      /\ held'[c] = [ptr |-> p, req |-> n] /\ \A d \in Clients : d # c => held'[d] = held[d]
  <2> DEFINE h == held
             g == [h EXCEPT ![c].req = n]
  <2>1. Books(h) /\ c \in HoldersIn(h)
    BY <1>2, <1>4
  <2> HIDE DEF h
  <2>2. Books(g) /\ Live(g) = H!Hold(h[c].ptr, n, Live(h)) /\ HoldersIn(g) = HoldersIn(h)
            /\ g[c] = [ptr |-> h[c].ptr, req |-> n] /\ \A d \in Clients : d # c => g[d] = h[d]
    BY <2>1, <1>2, BooksResize
  <2>3. held' = g
    BY <1>1 DEF h
  <2> HIDE DEF g
  <2> QED BY <2>2, <2>3, <1>0 DEF h
<1> HIDE DEF old
<1>6. H!ReallocInPlace(p, n)
  <2>1. mem[p - HDR].size >= H!RoundUp(n)
    BY <1>1, WantIs
  <2>2. [b \in DOMAIN mem |-> [size |-> mem[b].size, used |-> mem[b].used]][p - HDR].size = mem[p - HDR].size
    BY <1>3
  <2>3. UNCHANGED [b \in DOMAIN mem |-> [size |-> mem[b].size, used |-> mem[b].used]]
    BY <1>1
  <2>4. [x \in {held[d].ptr : d \in Holders} |->
               held[CHOOSE d \in Holders : held[d].ptr = x].req]' =
          H!Hold(p, n, [x \in {held[d].ptr : d \in Holders} |->
               held[CHOOSE d \in Holders : held[d].ptr = x].req])
    BY <1>5 DEF Live, HoldersIn, Holders
  <2> QED BY <2>1, <2>2, <2>3, <2>4, <1>1 DEF H!ReallocInPlace
<1>7. p \in DOMAIN [x \in {held[d].ptr : d \in Holders} |->
               held[CHOOSE d \in Holders : held[d].ptr = x].req]
  BY <1>3 DEF Live, HoldersIn, Holders
<1>8. H!IInv'
  BY <1>4, <1>6, <1>7, HeapAssumed, H!InPlaceIInv
<1>9. Stands(mem', arenas', held') /\ Now' = Now
  BY <1>1, <1>8, InvariantIsNext DEF Now
<1>10. Intact(Now, held', byte') /\ Room(byte')
  <2>1. H!WellFormed(Blk(Now.mem), Now.ar) /\ H!Agrees(Blk(Now.mem), Live(held'))
    BY <1>1, <1>9, NowIs DEF Stands
  <2>2. held'[c].ptr = p /\ held'[c].req = n
    BY <1>5
  <2>3. c \in HoldersIn(held') /\ mine \subseteq Bytes(held'[c].ptr, held'[c].req)
    BY <1>2, <1>5, <2>2
  <2>4. ASSUME NEW d \in HoldersIn(held'), NEW a \in Bytes(held'[d].ptr, held'[d].req)
        PROVE  IF a \in mine THEN d = c ELSE a \notin gone /\ byte[a] = d
    <3>1. CASE d = c
      <4>1. a \in Bytes(p, n)
        BY <2>2, <3>1
      <4>2. a \in Bytes(p, old) => byte[a] = c
        BY <1>0, <1>2, <1>4 DEF Intact, old
      <4> QED BY <3>1, <4>1, <4>2
    <3>2. CASE d # c
      <4>1. d \in HoldersIn(held) /\ held'[d] = held[d]
        BY <3>2, <1>5 DEF HoldersIn
      <4>2. a \in Bytes(held[d].ptr, held[d].req) /\ byte[a] = d
        BY <4>1, <1>4 DEF Intact
      <4>3. a \notin Bytes(p, n)
        <5>1. a \notin Bytes(held'[c].ptr, held'[c].req)
          BY <3>2, <2>3, <1>5, <1>9, HeldApart
        <5> QED BY <5>1, <2>2
      <4>4. a \notin Bytes(p, old)
        BY <3>2, <4>1, <4>2, <1>0, <1>2, <1>4, HeldApart DEF old
      <4> QED BY <4>2, <4>3, <4>4
    <3> QED BY <3>1, <3>2
  <2> DEFINE s == Now
             h == held'
  <2>5. byte' = Stored(s, c, mine, gone, byte) /\ Books(h) /\ Room(byte)
    BY <1>1, <1>4, <1>5
  <2>6. mine = {} \/ (c \in HoldersIn(h) /\ mine \subseteq Bytes(h[c].ptr, h[c].req))
    BY <2>3
  <2> HIDE DEF mine, gone, s, h
  <2>7. H!WellFormed(Blk(s.mem), s.ar) /\ H!Agrees(Blk(s.mem), Live(h))
    BY <2>1 DEF s, h
  <2>8. \A d \in HoldersIn(h) : \A a \in Bytes(h[d].ptr, h[d].req) :
            IF a \in mine THEN d = c ELSE a \notin gone /\ byte[a] = d
    BY <2>4 DEF h
  <2>9. Intact(s, h, byte') /\ Room(byte')
    BY <2>5, <2>6, <2>7, <2>8, StoredIntact
  <2> QED BY <2>9 DEF s, h
<1>11. Sound(Now)' /\ Intact(Now, held, byte)'
  BY <1>4, <1>9, <1>10
<1>12. LInv'
  BY <1>5, <1>8, <1>10, <1>11 DEF LInv
<1> QED BY <1>3, <1>6, <1>12
(* mem_realloc by moving: the copy is taken from bytes that are still the  *)
(* client's, and the old block goes only then.                             *)
LEMMA MoveStep ==
  ASSUME Countable, LInv, NEW c \in Clients, NEW n \in Requests, ReallocByMoving(c, n)
  PROVE  /\ LInv'
         /\ \E p \in DOMAIN Live(held) : H!ReallocByMoving(p, n)
<1>0. PICK p : p = held[c].ptr
  OBVIOUS
<1> DEFINE old == held[c].req
           want == round_up(Least1(n))
<1>1. n # 0 /\ mem[p - HDR].size < round_up(n) /\ Least1(n) = n /\ want = round_up(n)
  BY <1>0 DEF ReallocByMoving, Least1
<1>2. c \in HoldersIn(held) /\ n \in Nat
  BY ListAssumption DEF ReallocByMoving, HoldersIn
<1>3. PICK out \in AllocOutcomes(want) :
       IF out.at = NULL
       THEN /\ SetList(out.list)
            /\ byte' = Stored(out.list, c, {}, {}, byte)
            /\ UNCHANGED <<held, g_alloc_count, g_free_count>>
       ELSE LET q     == out.at + HDR
                copy  == CopyLength(old, n, mem[p - HDR].size)
                moved == [a \in DOMAIN byte |->
                            IF a \in Bytes(q, copy) THEN byte[a - q + p]
                            ELSE byte[a]]
                l     == Freed(out.list, p - HDR)
                new   == Bytes(q, n) \ Bytes(q, Least(old, n))
            IN /\ SetList(l)
               /\ byte' = Stored(l, c, new, Bytes(p, old), moved)
               /\ held' = [held EXCEPT ![c] = [ptr |-> q, req |-> n]]
               /\ g_alloc_count' = Bump(g_alloc_count)
               /\ g_free_count' = Bump(g_free_count)
  BY <1>0, <1>1 DEF ReallocByMoving
<1>4. /\ p \in DOMAIN Live(held) /\ Live(held)[p] = old /\ p \in Nat /\ old \in Nat
      /\ p - HDR \in DOMAIN mem
      /\ H!UsedBlock(Blk(mem), p - HDR) /\ old <= mem[p - HDR].size
  BY <1>0, <1>2, HeldBlock
<1>5. Books(held) /\ Room(byte) /\ Intact(Now, held, byte) /\ H!IInv /\ Stands(mem, arenas, held) /\ Sound(Now)
  BY InvariantIs DEF LInv
<1> DEFINE o == Image(out)
<1>6. Sound(out.list) /\ o \in H!AllocOutcomes(H!Want(n))
  BY OutcomeIs DEF LInv
<1>i. o.heap.blk = Blk(out.list.mem) /\ o.heap.arenas = out.list.ar /\ o.at = out.at
  BY DEF Image, H!Heap
<1> DEFINE B == Blk(mem)
<1>7. /\ H!KeepsUsed(B, Blk(out.list.mem), out.at)
      /\ out.at # NULL => ~ H!UsedBlock(B, out.at)
  <2>1. H!Want(n) \in Nat /\ H!Want(n) > 0
    BY WantIs
  <2>2. H!WellFormed([b \in DOMAIN mem |-> [size |-> mem[b].size, used |-> mem[b].used]], arenas)
    BY <1>5 DEF Blk, Stands
  <2> HIDE DEF o
  <2>3. /\ H!KeepsUsed([b \in DOMAIN mem |-> [size |-> mem[b].size, used |-> mem[b].used]], o.heap.blk, o.at)
        /\ o.at # H!NULL => ~ H!UsedBlock([b \in DOMAIN mem |-> [size |-> mem[b].size, used |-> mem[b].used]], o.at)
    BY <2>1, <2>2, <1>6, HeapAssumed, H!AllocOutcome
  <2> QED BY <2>3, <1>i DEF Blk, NULL, H!NULL
<1> HIDE DEF want, o, B, old
<1>8. /\ [b \in DOMAIN mem |-> [size |-> mem[b].size, used |-> mem[b].used]][p - HDR].size < H!RoundUp(n)
      /\ p \in DOMAIN [x \in {held[d].ptr : d \in Holders} |->
               held[CHOOSE d \in Holders : held[d].ptr = x].req]
  <2>1. mem[p - HDR].size < H!RoundUp(n)
    BY <1>1, WantIs
  <2>2. [b \in DOMAIN mem |-> [size |-> mem[b].size, used |-> mem[b].used]][p - HDR].size = mem[p - HDR].size
    BY <1>4
  <2>3. p \in DOMAIN [x \in {held[d].ptr : d \in Holders} |->
               held[CHOOSE d \in Holders : held[d].ptr = x].req]
    BY <1>4 DEF Live, HoldersIn, Holders
  <2> QED BY <2>1, <2>2, <2>3
<1>9. CASE out.at = NULL
  <2>1. /\ SetList(out.list) /\ byte' = Stored(out.list, c, {}, {}, byte)
        /\ UNCHANGED <<held, g_alloc_count, g_free_count>>
    BY <1>3, <1>9
  <2>2. Now' = out.list /\ mem' = out.list.mem /\ arenas' = out.list.ar
    BY <2>1, <1>6, NextList
  <2>3. H!SetHeap(o.heap)
    BY <2>2, <1>i DEF H!SetHeap, Blk
  <2>4. H!ReallocByMoving(p, n)
    <3>1. o.at = H!NULL
      BY <1>9, <1>i DEF NULL, H!NULL
    <3>2. UNCHANGED <<[x \in {held[d].ptr : d \in Holders} |->
               held[CHOOSE d \in Holders : held[d].ptr = x].req], g_alloc_count, g_free_count>>
      BY <2>1 DEF Holders
    <3> QED BY <3>1, <3>2, <2>3, <1>1, <1>6, <1>8 DEF H!ReallocByMoving
  <2>5. H!IInv'
    BY <1>5, <1>8, <2>4, HeapAssumed, H!MovingIInv
  <2>6. Stands(mem', arenas', held') /\ held' = held
    BY <2>1, <2>5, InvariantIsNext
  <2>7. Intact(out.list, held, byte') /\ Room(byte')
    <3>1. H!WellFormed(Blk(out.list.mem), out.list.ar) /\ H!Agrees(Blk(out.list.mem), Live(held))
      BY <2>2, <2>6 DEF Stands
    <3> DEFINE mine == {}
               gone == {}
    <3>2. \A d \in HoldersIn(held) : \A a \in Bytes(held[d].ptr, held[d].req) :
            IF a \in mine THEN d = c ELSE a \notin gone /\ byte[a] = d
      BY <1>5 DEF Intact
    <3>3. mine = {} /\ byte' = Stored(out.list, c, mine, gone, byte)
      BY <2>1
    <3> HIDE DEF mine, gone
    <3> QED BY <3>1, <3>2, <3>3, <1>5, StoredIntact
  <2>8. Sound(Now)' /\ Intact(Now, held, byte)' /\ Books(held)'
    BY <2>2, <2>6, <2>7, <1>5, <1>6
  <2> QED BY <2>4, <2>5, <2>7, <2>8, <1>4 DEF LInv
<1>10. CASE out.at # NULL
  <2> DEFINE q == out.at + HDR
             size == mem[p - HDR].size
             copy == CopyLength(old, n, size)
             moved == [a \in DOMAIN byte |-> IF a \in Bytes(q, copy) THEN byte[a - q + p] ELSE byte[a]]
             l == Freed(out.list, p - HDR)
             mine == Bytes(q, n) \ Bytes(q, Least(old, n))
             gone == Bytes(p, old)
  <2>1. /\ SetList(l) /\ byte' = Stored(l, c, mine, gone, moved)
        /\ held' = [held EXCEPT ![c] = [ptr |-> q, req |-> n]]
        /\ g_alloc_count' = Bump(g_alloc_count) /\ g_free_count' = Bump(g_free_count)
    BY <1>3, <1>10
  <2>2. q \in Nat /\ q \notin DOMAIN Live(held) /\ \A x \in DOMAIN Live(held) : H!Promise!Apart(q, n, x, Live(held)[x])
    BY <1>10, OutcomeFresh DEF want
  <2> HIDE DEF q, l, mine, gone, moved, copy
  <2>3. p - HDR \in DOMAIN out.list.mem /\ out.list.mem[p - HDR].size # 0
    <3>1. p - HDR \in Nat
      <4>1. \A x \in DOMAIN mem : x \in Nat
        BY <1>5, WholeTiled, NowIs DEF Sound, Tiled
      <4> QED BY <4>1, <1>4
    <3>2. p - HDR # out.at
      BY <1>4, <1>7, <1>10 DEF B
    <3>3. H!UsedBlock(Blk(out.list.mem), p - HDR)
      BY <3>1, <3>2, <1>4, <1>7 DEF H!KeepsUsed, B
    <3> QED BY <3>3, BlkSays DEF H!UsedBlock
  <2>4. Sound(l) /\ l.ar = out.list.ar /\ Blk(l.mem) = H!Release(Blk(out.list.mem), p - HDR)
    BY <2>3, <1>6, FreedSound DEF Countable, l
  <2>5. Now' = l /\ mem' = l.mem /\ arenas' = l.ar
    BY <2>1, <2>4, NextList
  <2> DEFINE v == [ptr |-> q, req |-> n]
             h == held
             g == [h EXCEPT ![c] = None]
             k == [g EXCEPT ![c] = v]
  <2>6. /\ Books(held') /\ Live(held') = H!Hold(q, n, H!Drop(p, Live(held)))
        /\ held'[c] = [ptr |-> q, req |-> n] /\ \A d \in Clients : d # c => held'[d] = held[d]
        /\ c \in HoldersIn(held')
    <3>1. Books(h) /\ c \in HoldersIn(h) /\ p = h[c].ptr /\ DOMAIN h = Clients
      BY <1>0, <1>2, <1>5 DEF Books
    <3>2. q \notin DOMAIN Live(h) /\ held' = [h EXCEPT ![c] = v] /\ c \in Clients
      BY <2>1, <2>2
    <3> HIDE DEF h, v
    <3>3. held' = k
      BY <3>1, <3>2
    <3>4. /\ Books(g) /\ Live(g) = H!Drop(p, Live(h)) /\ HoldersIn(g) = HoldersIn(h) \ {c}
          /\ g[c] = None /\ \A d \in Clients : d # c => g[d] = h[d]
      BY <3>1, BooksDrop
    <3> HIDE DEF g
    <3>5. q \notin DOMAIN Live(g)
      BY <3>2, <3>4 DEF H!Drop
    <3>6. /\ Books(k) /\ Live(k) = H!Hold(q, n, Live(g)) /\ HoldersIn(k) = HoldersIn(g) \cup {c}
          /\ k[c] = [ptr |-> q, req |-> n]
      <4>1. k = [g EXCEPT ![c] = [ptr |-> q, req |-> n]]
        BY DEF v
      <4>2. Books(g) /\ g[c] = None /\ q \in Nat /\ n \in Nat
        BY <3>4, <2>2, <1>2
      <4>3. DOMAIN g = Clients
        BY <4>2 DEF Books
      <4> HIDE DEF k
      <4>4. /\ Books(k) /\ Live(k) = H!Hold(q, n, Live(g)) /\ HoldersIn(k) = HoldersIn(g) \cup {c}
        BY <4>1, <4>2, <3>5, BooksTake
      <4>5. k[c] = [ptr |-> q, req |-> n]
        BY <4>1, <4>3
      <4> QED BY <4>4, <4>5
    <3>7. \A d \in Clients : d # c => k[d] = g[d]
      OBVIOUS
    <3>8. c \in HoldersIn(k)
      BY <3>6
    <3> HIDE DEF k
    <3> QED BY <3>3, <3>4, <3>6, <3>7, <3>8 DEF h
  <2>7. H!ReallocByMoving(p, n)
    <3>1. H!SetHeap(H!Heap(H!Release(o.heap.blk, p - HDR), o.heap.arenas))
      BY <2>4, <2>5, <1>i DEF H!SetHeap, H!Heap, Blk
    <3>2. o.at # H!NULL /\ q = o.at + HDR
      BY <1>10, <1>i DEF NULL, H!NULL, q
    <3>3. [x \in {held[d].ptr : d \in Holders} |->
               held[CHOOSE d \in Holders : held[d].ptr = x].req]' =
            H!Hold(o.at + HDR, n, H!Drop(p, [x \in {held[d].ptr : d \in Holders} |->
               held[CHOOSE d \in Holders : held[d].ptr = x].req]))
      BY <2>6, <3>2 DEF Live, HoldersIn, Holders
    <3>4. g_alloc_count' = H!Bump(g_alloc_count, 1) /\ g_free_count' = H!Bump(g_free_count, 1)
      BY <2>1 DEF Bump, H!Bump
    <3> QED BY <3>1, <3>2, <3>3, <3>4, <1>1, <1>6, <1>8 DEF H!ReallocByMoving
  <2>8. H!IInv'
    BY <1>5, <1>8, <2>7, HeapAssumed, H!MovingIInv
  <2>9. Stands(mem', arenas', held')
    BY <2>8, InvariantIsNext
  <2>10. size \in Nat /\ copy \in Nat /\ copy <= n /\ Least(old, n) = copy /\ copy <= old
    <3>1. size \in Nat
      BY <1>4, <1>5, WholeTiled, NowIs DEF Sound, Tiled
    <3> HIDE DEF size
    <3> QED BY <3>1, <1>2, <1>4 DEF copy, CopyLength, Least, size
  <2>11. \A a \in Bytes(q, n) : a \notin gone
    <3>1. H!Promise!Apart(q, n, p, old)
      BY <2>2, <1>4
    <3> QED BY <3>1, <2>2, <1>2, <1>4, ApartBytes DEF gone
  <2>12. DOMAIN moved = 1 .. HeapTop
         /\ \A a \in 1 .. HeapTop : moved[a] = IF a \in Bytes(q, copy) THEN byte[a - q + p] ELSE byte[a]
    BY <1>5 DEF moved, Room
  <2>13. \A a \in Bytes(q, copy) : a - q + p \in Bytes(p, old) /\ byte[a - q + p] = c
    <3>1. ASSUME NEW a \in Bytes(q, copy) PROVE a - q + p \in Bytes(p, old)
      BY <2>2, <2>10, <1>4 DEF Bytes
    <3>2. \A x \in Bytes(p, old) : byte[x] = c
      BY <1>0, <1>2, <1>5 DEF Intact, old
    <3> QED BY <3>1, <3>2
  <2>14. Room(moved)
    <3>1. \A a \in 1 .. HeapTop : moved[a] \in Clients \cup {None}
      BY <2>12, <2>13, <1>5 DEF Room
    <3>2. moved = [a \in 1 .. HeapTop |-> moved[a]]
      BY <1>5 DEF moved, Room
    <3> QED BY <3>1, <3>2 DEF Room
  <2>15. held'[c].ptr = q /\ held'[c].req = n
    BY <2>6
  <2>16. \A a \in Bytes(q, n) : a \in 1 .. HeapTop
    <3>1. Live(held')[q] = n /\ q \in DOMAIN Live(held')
      BY <2>6 DEF H!Hold
    <3> QED BY <3>1, <2>9, PayloadClear DEF Stands
  <2>17. ASSUME NEW d \in HoldersIn(held'), NEW a \in Bytes(held'[d].ptr, held'[d].req)
         PROVE  IF a \in mine THEN d = c ELSE a \notin gone /\ moved[a] = d
    <3>1. CASE d = c
      <4>1. a \in Bytes(q, n)
        BY <3>1, <2>15
      <4>2. CASE a \in mine
        BY <3>1, <4>2
      <4>3. CASE a \notin mine
        <5>1. a \in Bytes(q, copy)
          BY <4>1, <4>3, <2>10 DEF mine
        <5>2. moved[a] = c
          BY <4>1, <5>1, <2>12, <2>13, <2>16
        <5> QED BY <3>1, <4>1, <4>3, <5>2, <2>11
      <4> QED BY <4>2, <4>3
    <3>2. CASE d # c
      <4>1. d \in HoldersIn(held) /\ held'[d] = held[d]
        BY <3>2, <2>6 DEF HoldersIn
      <4>2. a \in Bytes(held[d].ptr, held[d].req) /\ byte[a] = d
        BY <4>1, <1>5 DEF Intact
      <4>3. a \notin Bytes(q, n)
        <5>1. a \notin Bytes(held'[c].ptr, held'[c].req)
          BY <3>2, <2>6, <2>9, HeldApart
        <5> QED BY <5>1, <2>15
      <4>4. a \notin gone
        BY <3>2, <4>1, <4>2, <1>0, <1>2, <1>5, HeldApart DEF gone, old
      <4>5. a \notin Bytes(q, copy)
        BY <4>3, <2>2, <2>10, <1>2 DEF Bytes
      <4>6. a \in 1 .. HeapTop
        <5>1. held[d].ptr \in DOMAIN Live(held) /\ Live(held)[held[d].ptr] = held[d].req
          BY <4>1, HeldBlock
        <5> QED BY <5>1, <4>2, <1>5, PayloadClear DEF Stands
      <4>7. a \notin mine
        BY <4>3 DEF mine
      <4> QED BY <4>2, <4>4, <4>5, <4>6, <4>7, <2>12
    <3> QED BY <3>1, <3>2
  <2>18. Intact(l, held', byte') /\ Room(byte')
    <3> DEFINE hh == held'
    <3>1. H!WellFormed(Blk(l.mem), l.ar) /\ H!Agrees(Blk(l.mem), Live(hh))
      BY <2>5, <2>9 DEF Stands
    <3>2. mine = {} \/ (c \in HoldersIn(hh) /\ mine \subseteq Bytes(hh[c].ptr, hh[c].req))
      BY <2>6, <2>15 DEF mine
    <3>3. \A d \in HoldersIn(hh) : \A a \in Bytes(hh[d].ptr, hh[d].req) :
            IF a \in mine THEN d = c ELSE a \notin gone /\ moved[a] = d
      BY <2>17
    <3>4. Books(hh)
      BY <2>6
    <3> HIDE DEF hh
    <3>5. Intact(l, hh, Stored(l, c, mine, gone, moved)) /\ Room(Stored(l, c, mine, gone, moved))
      BY <3>1, <3>2, <3>3, <3>4, <2>14, StoredIntact
    <3> QED BY <3>5, <2>1 DEF hh
  <2>19. Sound(Now)' /\ Intact(Now, held, byte)' /\ Books(held)'
    BY <2>4, <2>5, <2>6, <2>18
  <2> QED BY <2>7, <2>8, <2>18, <2>19, <1>4 DEF LInv
<1> QED BY <1>9, <1>10
(* Nothing that the list or the clients keep changes.                      *)
LEMMA SameStep ==
  ASSUME LInv, UNCHANGED <<mem, g_head, g_tail, arenas, held, byte>>,
         Counting(g_alloc_count', g_free_count')
  PROVE  LInv'
<1>1. Now' = Now
  BY DEF Now
<1>2. Stands(mem', arenas', held')
  BY InvariantIs DEF LInv
<1>3. H!IInv'
  BY <1>2, InvariantIsNext
<1>4. Sound(Now)' /\ Intact(Now, held, byte)' /\ Books(held)' /\ Room(byte)'
  BY <1>1 DEF LInv
<1> QED BY <1>3, <1>4 DEF LInv

(* The counters' reset.                                                    *)
LEMMA ResetStep ==
  ASSUME LInv, mem_atari_reset_counters
  PROVE  LInv' /\ H!mem_atari_reset_counters
<1>1. /\ UNCHANGED <<mem, g_head, g_tail, arenas, held, byte>>
      /\ g_alloc_count' = 0 /\ g_free_count' = 0
  BY DEF mem_atari_reset_counters, heapVars
<1>2. LInv'
  BY <1>1, SameStep, ListAssumption DEF Counting
<1>3. H!mem_atari_reset_counters
  BY <1>1 DEF H!mem_atari_reset_counters, Holders
<1> QED BY <1>2, <1>3

(* Before the first allocation there is neither list nor data.             *)
LEMMA InitLInv == Init => LInv /\ H!Init
<1> SUFFICES ASSUME Init PROVE LInv /\ H!Init
  OBVIOUS
<1>1. /\ DOMAIN mem = {} /\ arenas = {} /\ g_head = NULL /\ g_tail = NULL
      /\ held = [c \in Clients |-> None] /\ byte = [a \in 1 .. HeapTop |-> None]
  BY DEF Init
<1>2. HoldersIn(held) = {} /\ Holders = {}
  BY <1>1 DEF HoldersIn, Holders
<1>3. H!Init
  <2>1. [b \in DOMAIN mem |-> [size |-> mem[b].size, used |-> mem[b].used]]
          = [h \in {} |-> [size |-> 0, used |-> FALSE]]
    BY <1>1
  <2>2. [p \in {held[c].ptr : c \in Holders} |->
               held[CHOOSE c \in Holders : held[c].ptr = p].req] = [p \in {} |-> 0]
    BY <1>2
  <2> QED BY <1>1, <2>1, <2>2 DEF H!Init, Init
<1>4. H!IInv
  BY <1>3, HeapAssumed, H!InitIInv
<1>5. Sound(Now)
  <2>1. Now.mem = mem /\ Now.ar = arenas /\ Now.head = g_head /\ Now.tail = g_tail
    BY NowIs
  <2>2. Now = List(Now.mem, Now.head, Now.tail, Now.ar)
    BY DEF Now, List
  <2>3. H!WellFormed(Blk(mem), arenas)
    BY <1>4, InvariantIs DEF Stands
  <2>4. mem = [b \in DOMAIN mem |-> mem[b]]
    BY DEF Init
  <2>5. Linked(mem)
    BY <1>1, <2>4 DEF Linked, IsMap
  <2>6. Founded(Blk(mem), arenas)
    BY <1>1, BlkSays DEF Founded
  <2>7. HeadIs(DOMAIN mem, g_head) /\ TailIs(DOMAIN mem, g_tail)
    BY <1>1 DEF HeadIs, TailIs
  <2> QED BY <2>1, <2>2, <2>3, <2>5, <2>6, <2>7 DEF Sound, Whole
<1>6. Books(held)
  BY <1>1, <1>2 DEF Books
<1>7. Room(byte)
  BY <1>1 DEF Room
<1>8. Intact(Now, held, byte)
  <2>1. Headers(Now) = {}
    BY <1>1, NowIs DEF Headers
  <2> QED BY <1>2, <2>1 DEF Intact
<1> QED BY <1>3, <1>4, <1>5, <1>6, <1>7, <1>8 DEF LInv

(* What the substitution of H makes of its `live'.                         *)
LEMMA HeldAre ==
  DOMAIN Live(held) = DOMAIN [p \in {held[c].ptr : c \in Holders} |->
               held[CHOOSE c \in Holders : held[c].ptr = p].req]
BY DEF Live, HoldersIn, Holders

(* Each step of the list keeps the invariant and is one of Gem4xeHeap's.   *)
LEMMA NextLInv == Countable /\ LInv /\ [Next]_vars => LInv' /\ [H!Next]_H!vars
<1> SUFFICES ASSUME Countable, LInv, [Next]_vars PROVE LInv' /\ [H!Next]_H!vars
  OBVIOUS
<1>1. ASSUME NEW c \in Clients, NEW n \in Requests, mem_alloc(c, n)
      PROVE  LInv' /\ H!Next
  BY <1>1, AllocStep DEF H!Next
<1>2. ASSUME NEW c \in Clients, NEW n \in Requests, ReallocInPlace(c, n)
      PROVE  LInv' /\ H!Next
  <2>1. LInv' /\ \E p \in DOMAIN Live(held) : H!ReallocInPlace(p, n)
    BY <1>2, InPlaceStep
  <2> QED BY <2>1, HeldAre DEF H!Next
<1>3. ASSUME NEW c \in Clients, NEW n \in Requests, ReallocByMoving(c, n)
      PROVE  LInv' /\ H!Next
  <2>1. LInv' /\ \E p \in DOMAIN Live(held) : H!ReallocByMoving(p, n)
    BY <1>3, MoveStep
  <2> QED BY <2>1, HeldAre DEF H!Next
<1>4. ASSUME NEW c \in Clients, mem_free(c)
      PROVE  LInv' /\ H!Next
  <2>1. LInv' /\ \E p \in DOMAIN Live(held) : H!mem_free(p)
    BY <1>4, FreeStep
  <2> QED BY <2>1, HeldAre DEF H!Next
<1>5. CASE mem_atari_reset_counters
  BY <1>5, ResetStep DEF H!Next
<1>6. CASE UNCHANGED vars
  <2>1. UNCHANGED <<mem, g_head, g_tail, arenas, held, byte, g_alloc_count, g_free_count>>
    BY <1>6 DEF vars
  <2>2. Counting(g_alloc_count', g_free_count')
    BY <2>1, InvariantIs DEF LInv
  <2>3. UNCHANGED H!vars
    BY <2>1 DEF H!vars, Holders
  <2> QED BY <2>1, <2>2, <2>3, SameStep
<1> QED BY <1>1, <1>2, <1>3, <1>4, <1>5, <1>6 DEF Next

LEMMA SpecLInv == Countable => (Spec => []LInv)
<1>1. Init => LInv
  BY InitLInv
<1>2. Countable /\ LInv /\ [Next]_vars => LInv'
  BY NextLInv
<1>3. ASSUME Countable PROVE Spec => []LInv
  <2>1. LInv /\ [Next]_vars => LInv'
    BY <1>2, <1>3
  <2> QED BY <1>1, <2>1, PTL DEF Spec
<1> QED BY <1>3

------------------------------------------------------------------------------
(***************************************************************************)
(* While no sum of sizes can wrap, the list with its loops implements      *)
(* Gem4xeHeap: every call ends as its closed form says.                    *)
(***************************************************************************)

(* The same module instantiated here and in HeapList.                      *)
LEMMA SameChain ==
  ASSUME NEW blk, NEW ar, NEW want
  PROVE  /\ Closed!NULL = H!NULL
         /\ \A n : Closed!RoundUp(n) = H!RoundUp(n) /\ Closed!Want(n) = H!Want(n)
         /\ \A b : Closed!NextUsed(blk, b) = H!NextUsed(blk, b)
         /\ Closed!Coalesced(blk) = H!Coalesced(blk)
         /\ Closed!Fits(blk, want) = H!Fits(blk, want)
         /\ Closed!ArenaBytes(want) = H!ArenaBytes(want)
         /\ Closed!MallocAt(ar, want) = H!MallocAt(ar, want)
         /\ \A at : Closed!Grown(blk, at, want) = H!Grown(blk, at, want)
         /\ \A b : Closed!Carve(blk, b, want) = H!Carve(blk, b, want)
         /\ Closed!Taken(blk, ar, want) = H!Taken(blk, ar, want)
<1>1. \A n : Closed!RoundUp(n) = H!RoundUp(n)
  BY DEF Closed!RoundUp, H!RoundUp
<1>2. \A n : Closed!Want(n) = H!Want(n)
  BY <1>1 DEF Closed!Want, H!Want
<1>3. \A b : Closed!NextUsed(blk, b) = H!NextUsed(blk, b)
  BY DEF Closed!NextUsed, H!NextUsed, Closed!UsedAbove, H!UsedAbove, Closed!Min, H!Min
<1>4. \A b : Closed!Swallowed(blk, b) <=> H!Swallowed(blk, b)
  BY DEF Closed!Swallowed, H!Swallowed, Closed!UsedAbove, H!UsedAbove
<1>5. Closed!Coalesced(blk) = H!Coalesced(blk)
  BY <1>3, <1>4 DEF Closed!Coalesced, H!Coalesced
<1>6. Closed!Fits(blk, want) = H!Fits(blk, want)
  BY DEF Closed!Fits, H!Fits
<1>7. Closed!ArenaBytes(want) = H!ArenaBytes(want)
  BY <1>1 DEF Closed!ArenaBytes, H!ArenaBytes
<1>8. Closed!MallocAt(ar, want) = H!MallocAt(ar, want)
  BY DEF Closed!MallocAt, H!MallocAt
<1>9. \A at : Closed!Grown(blk, at, want) = H!Grown(blk, at, want)
  BY DEF Closed!Grown, H!Grown
<1>10. \A b : Closed!Carve(blk, b, want) = H!Carve(blk, b, want)
  BY DEF Closed!Carve, H!Carve
<1>11. Closed!FirstFit(blk, want) = H!FirstFit(blk, want)
  BY <1>6 DEF Closed!FirstFit, H!FirstFit, Closed!Min, H!Min
<1>12. Closed!Taken(blk, ar, want) = H!Taken(blk, ar, want)
  BY <1>10, <1>11 DEF Closed!Taken, H!Taken, Closed!Heap, H!Heap
<1>13. Closed!NULL = H!NULL
  BY DEF Closed!NULL, H!NULL
<1> QED BY <1>1, <1>2, <1>3, <1>5, <1>6, <1>7, <1>8, <1>9, <1>10, <1>12, <1>13

LEMMA SameOutcomes == \A want : Closed!AllocOutcomes(want) = H!AllocOutcomes(want)
<1> SUFFICES ASSUME NEW want PROVE Closed!AllocOutcomes(want) = H!AllocOutcomes(want)
  OBVIOUS
<1> DEFINE B == Blk(mem)
           T == H!Coalesced(B)
           more == H!ArenaBytes(want)
           area(at) == arenas \cup {[lo |-> at, hi |-> at + more]}
           X == {H!Taken(B, arenas, want)}
           Y == {H!Taken(T, arenas, want)}
           Z == {H!Taken(H!Grown(T, at, more), area(at), want) : at \in H!MallocAt(arenas, more)}
           W == {Closed!Taken(Closed!Grown(T, at, more), area(at), want) : at \in Closed!MallocAt(arenas, more)}
<1>1. Closed!Coalesced(B) = T /\ Closed!ArenaBytes(want) = more
  BY SameChain
<1>2. Closed!AllocOutcomes(want) =
        CASE Closed!Fits(B, want) # {} -> {Closed!Taken(B, arenas, want)}
          [] Closed!Fits(B, want) = {} /\ Closed!Fits(T, want) # {} -> {Closed!Taken(T, arenas, want)}
          [] OTHER -> {[heap |-> Closed!Heap(T, arenas), at |-> Closed!NULL]} \cup W
  BY <1>1 DEF Closed!AllocOutcomes, Blk
<1>3. H!AllocOutcomes(want) =
        CASE H!Fits(B, want) # {} -> X
          [] H!Fits(B, want) = {} /\ H!Fits(T, want) # {} -> Y
          [] OTHER -> {[heap |-> H!Heap(T, arenas), at |-> H!NULL]} \cup Z
  BY DEF H!AllocOutcomes, Blk
<1> HIDE DEF B, T, more
<1>4. W = Z
  <2>1. Closed!MallocAt(arenas, more) = H!MallocAt(arenas, more)
    BY SameChain
  <2>2. \A at : Closed!Taken(Closed!Grown(T, at, more), area(at), want)
                = H!Taken(H!Grown(T, at, more), area(at), want)
    <3> SUFFICES ASSUME NEW at
                 PROVE  Closed!Taken(Closed!Grown(T, at, more), area(at), want)
                          = H!Taken(H!Grown(T, at, more), area(at), want)
      OBVIOUS
    <3>1. Closed!Grown(T, at, more) = H!Grown(T, at, more)
      BY SameChain
    <3> HIDE DEF area
    <3> QED BY <3>1, SameChain
  <2> HIDE DEF area
  <2> QED BY <2>1, <2>2
<1>5. Closed!Taken(B, arenas, want) = H!Taken(B, arenas, want)
      /\ Closed!Taken(T, arenas, want) = H!Taken(T, arenas, want)
      /\ Closed!Fits(B, want) = H!Fits(B, want) /\ Closed!Fits(T, want) = H!Fits(T, want)
      /\ Closed!NULL = H!NULL
  BY SameChain
<1>6. Closed!Heap(T, arenas) = H!Heap(T, arenas)
  BY DEF Closed!Heap, H!Heap
<1> HIDE DEF W, Z
<1> QED BY <1>2, <1>3, <1>4, <1>5, <1>6

LEMMA SameBump == \A x, y : /\ Closed!Bump(x, y) = H!Bump(x, y)
                            /\ \A f : Closed!Hold(x, y, f) = H!Hold(x, y, f)
                            /\ Closed!Drop(x, y) = H!Drop(x, y)
                            /\ Closed!Release(x, y) = H!Release(x, y)
                            /\ Closed!Heap(x, y) = H!Heap(x, y)
<1> SUFFICES ASSUME NEW x, NEW y
             PROVE  /\ Closed!Bump(x, y) = H!Bump(x, y)
                    /\ \A f : Closed!Hold(x, y, f) = H!Hold(x, y, f)
                    /\ Closed!Drop(x, y) = H!Drop(x, y)
                    /\ Closed!Release(x, y) = H!Release(x, y)
                    /\ Closed!Heap(x, y) = H!Heap(x, y)
  OBVIOUS
<1>1. Closed!NextUsed(x, y) = H!NextUsed(x, y)
  BY SameChain
<1> QED BY <1>1 DEF Closed!Bump, H!Bump, Closed!Hold, H!Hold, Closed!Drop, H!Drop,
     Closed!Release, H!Release, Closed!Heap, H!Heap

LEMMA SameSetHeap == \A h : Closed!SetHeap(h) <=> H!SetHeap(h)
BY DEF Closed!SetHeap, H!SetHeap

LEMMA SameInit == H!Init => Closed!Init
BY DEF H!Init, Closed!Init

LEMMA SameNext == [H!Next]_H!vars => [Closed!Next]_Closed!vars
<1> SUFFICES ASSUME [H!Next]_H!vars PROVE [Closed!Next]_Closed!vars
  OBVIOUS
<1> DEFINE D == DOMAIN [p \in {held[c].ptr : c \in Holders} |->
               held[CHOOSE c \in Holders : held[c].ptr = p].req]
<1>0. Closed!NULL = H!NULL /\ \A n : Closed!RoundUp(n) = H!RoundUp(n) /\ Closed!Want(n) = H!Want(n)
  BY SameChain
<1>1. ASSUME NEW n \in Requests, H!mem_alloc(n) PROVE Closed!mem_alloc(n)
  BY <1>0, <1>1, SameOutcomes, SameBump, SameSetHeap DEF H!mem_alloc, Closed!mem_alloc
<1>2. ASSUME NEW p \in D, H!mem_free(p) PROVE Closed!mem_free(p)
  BY <1>2, SameBump DEF H!mem_free, Closed!mem_free
<1>3. ASSUME NEW p \in D, NEW n \in Requests, H!ReallocInPlace(p, n) PROVE Closed!ReallocInPlace(p, n)
  BY <1>0, <1>3, SameBump DEF H!ReallocInPlace, Closed!ReallocInPlace
<1>4. ASSUME NEW p \in D, NEW n \in Requests, H!ReallocByMoving(p, n) PROVE Closed!ReallocByMoving(p, n)
  BY <1>0, <1>4, SameOutcomes, SameBump, SameSetHeap DEF H!ReallocByMoving, Closed!ReallocByMoving
<1>5. H!mem_atari_reset_counters => Closed!mem_atari_reset_counters
  BY DEF H!mem_atari_reset_counters, Closed!mem_atari_reset_counters
<1>6. H!Next => Closed!Next
  BY <1>1, <1>2, <1>3, <1>4, <1>5 DEF H!Next, Closed!Next, H!ReallocToNothing, Closed!ReallocToNothing
<1>7. H!vars' = H!vars => Closed!vars' = Closed!vars
  BY DEF H!vars, Closed!vars
<1> QED BY <1>6, <1>7

THEOREM ListImplementsHeap == Countable => (Spec => ImplementsHeap)
<1>1. Init => LInv /\ Closed!Init
  BY InitLInv, SameInit
<1>2. ASSUME Countable PROVE Spec => ImplementsHeap
  <2>1. LInv /\ [Next]_vars => LInv' /\ [Closed!Next]_Closed!vars
    BY <1>2, NextLInv, SameNext
  <2> QED BY <1>1, <2>1, PTL DEF Spec, ImplementsHeap, Closed!Spec
<1> QED BY <1>2

(***************************************************************************)
(* And so, by what is proved of Gem4xeHeap, the memory seam's promise:     *)
(* every call of mem_gem4xe.c as it is written is one of Allocator's.      *)
(***************************************************************************)
THEOREM ListImplementsAllocator == Countable => (Spec => H!ImplementsAllocator)
<1>1. Init => LInv /\ H!Init
  BY InitLInv
<1>2. ASSUME Countable PROVE Spec => H!ImplementsAllocator
  <2>1. LInv /\ [Next]_vars => LInv' /\ [H!Next]_H!vars
    BY <1>2, NextLInv
  <2>2. Spec => H!Spec
    BY <1>1, <2>1, PTL DEF Spec, H!Spec
  <2>3. H!Spec => H!ImplementsAllocator
    BY HeapAssumed, H!HeapImplementsAllocator
  <2> QED BY <2>2, <2>3, PTL
<1> QED BY <1>2

------------------------------------------------------------------------------
(***************************************************************************)
(* What the clients have stored is what they read back, and none of it     *)
(* lies under a header of the list.                                        *)
(***************************************************************************)
THEOREM StorageKept == Countable => (Spec => []StorageIntact)
<1>1. LInv => StorageIntact
  BY DEF LInv, Intact, StorageIntact, HoldersIn, Holders
<1> QED BY <1>1, SpecLInv, PTL

(* The least and the greatest of a set, known by what they are.            *)
LEMMA MinIs ==
  ASSUME NEW S, S \subseteq Nat, NEW m \in S, \A x \in S : m <= x
  PROVE  Min(S) = m
<1>1. \A x \in S : (\A y \in S : x <= y) => x = m
  OBVIOUS
<1> QED BY <1>1 DEF Min

LEMMA MaxIs ==
  ASSUME NEW S, S \subseteq Nat, NEW m \in S, \A x \in S : x <= m
  PROVE  Max(S) = m
<1>1. \A x \in S : (\A y \in S : x >= y) => x = m
  OBVIOUS
<1>2. \A y \in S : m >= y
  OBVIOUS
<1> QED BY <1>1, <1>2 DEF Max

(* The header above, as the least of those above.                          *)
LEMMA NextIs ==
  ASSUME NEW D, D \subseteq Nat \ {0}, NEW b \in D, NEW n, NextIn(D, b, n)
  PROVE  n = IF \A x \in D : x <= b THEN NULL ELSE Min({x \in D : x > b})
<1> DEFINE S == {x \in D : x > b}
<1>1. CASE n = NULL
  BY <1>1 DEF NextIn
<1>2. CASE n # NULL
  <2>1. n \in D /\ b < n /\ \A x \in D : x <= b \/ n <= x
    BY <1>2 DEF NextIn
  <2>2. n \in Nat /\ b \in Nat /\ ~ (n <= b)
    BY <2>1
  <2>3. n \in S /\ S \subseteq Nat
    BY <2>1, <2>2
  <2>4. ASSUME NEW x \in S PROVE n <= x
    BY <2>1, <2>2
  <2> HIDE DEF S
  <2>5. Min(S) = n
    BY <2>3, <2>4, MinIs
  <2>6. ~ \A x \in D : x <= b
    BY <2>1, <2>2
  <2> QED BY <2>5, <2>6 DEF S
<1> QED BY <1>1, <1>2

(***************************************************************************)
(* The list visits every header upwards, from the lowest to the newest     *)
(* arena's sentinel: mem_gem4xe.c's "address order".                       *)
(***************************************************************************)
THEOREM ListInOrder == Countable => (Spec => []ChainInAddressOrder)
<1>1. ASSUME LInv, mem # [x \in {} |-> 0]
      PROVE  /\ g_head = Min(DOMAIN mem)
             /\ g_tail = Max(DOMAIN mem)
             /\ mem[g_tail].used /\ mem[g_tail].size = 0
             /\ \A b \in DOMAIN mem :
                  mem[b].next = IF b = g_tail THEN NULL ELSE Min({x \in DOMAIN mem : x > b})
  <2> DEFINE D == DOMAIN mem
  <2>1. /\ Whole(mem, arenas) /\ Linked(mem) /\ Tiled(mem)
        /\ HeadIs(D, g_head) /\ TailIs(D, g_tail)
    BY <1>1, NowIs, WholeTiled DEF LInv, Sound, Whole
  <2>2. D # {}
    <3>1. mem = [x \in D |-> mem[x]]
      BY <2>1 DEF Linked, IsMap
    <3> QED BY <3>1, <1>1
  <2>3. D \subseteq Nat \ {0}
    BY <2>1 DEF Tiled
  <2>4. g_head \in D /\ (\A x \in D : g_head <= x) /\ g_tail \in D /\ \A x \in D : x <= g_tail
    BY <2>1, <2>2 DEF HeadIs, TailIs
  <2>5. g_head = Min(D) /\ g_tail = Max(D)
    BY <2>3, <2>4, MinIs, MaxIs
  <2>6. mem[g_tail].used /\ mem[g_tail].size = 0
    BY <2>1, <2>4, LastUsed
  <2>7. ASSUME NEW b \in D
        PROVE  mem[b].next = IF b = g_tail THEN NULL ELSE Min({x \in D : x > b})
    <3>1. NextIn(D, b, mem[b].next)
      BY <2>1 DEF Linked
    <3>2. (\A x \in D : x <= b) <=> b = g_tail
      BY <2>3, <2>4
    <3> QED BY <3>1, <3>2, <2>3, NextIs
  <2> QED BY <2>5, <2>6, <2>7
<1>2. LInv => ChainInAddressOrder
  BY <1>1 DEF ChainInAddressOrder
<1> QED BY <1>2, SpecLInv, PTL

(***************************************************************************)
(* Every variable of the list has its type: above all, every size is one   *)
(* that 32 bits hold.                                                      *)
(***************************************************************************)
THEOREM ListTypeOK == Countable => (Spec => []TypeOK)
<1>1. ASSUME Countable, LInv PROVE TypeOK
  <2>1. /\ Whole(mem, arenas) /\ Linked(mem) /\ Tiled(mem) /\ Founded(Blk(mem), arenas)
        /\ HeadIs(DOMAIN mem, g_head) /\ TailIs(DOMAIN mem, g_tail)
    BY <1>1, NowIs, WholeTiled DEF LInv, Sound, Whole
  <2>2. DOMAIN mem \subseteq Nat \ {0} /\ HDR \in Nat \ {0} /\ HeapTop \in Nat /\ WORD \in Nat
    BY <2>1, ListAssumption DEF Tiled
  <2>3. mem \in [DOMAIN mem -> [next : Nat, size : 0 .. WORD - 1, used : BOOLEAN]]
    <3>1. ASSUME NEW b \in DOMAIN mem
          PROVE  mem[b] \in [next : Nat, size : 0 .. WORD - 1, used : BOOLEAN]
      <4>1. mem[b] = [next |-> mem[b].next, size |-> mem[b].size, used |-> mem[b].used]
        BY <2>1 DEF Linked
      <4>2. mem[b].next \in Nat
        BY <2>1, <2>2 DEF Linked, NextIn, NULL
      <4>3. mem[b].used \in BOOLEAN /\ mem[b].size \in Nat /\ b + HDR + mem[b].size <= HeapTop
        BY <2>1 DEF Tiled
      <4>4. mem[b].size \in 0 .. WORD - 1
        BY <4>3, <2>2, <1>1 DEF Countable
      <4> QED BY <4>1, <4>2, <4>3, <4>4
    <3>2. mem = [b \in DOMAIN mem |-> mem[b]]
      BY <2>1 DEF Linked, IsMap
    <3> QED BY <3>1, <3>2
  <2>4. g_head \in Nat /\ g_tail \in Nat
    BY <2>1, <2>2 DEF HeadIs, TailIs, NULL
  <2>5. {g_alloc_count, g_free_count} \subseteq 0 .. CounterWidth - 1
    BY <1>1, InvariantIs DEF LInv, Counting
  <2>6. arenas \subseteq [lo : HeapAddrs, hi : 1 .. HeapTop]
    <3>1. arenas \subseteq [lo : Nat \ {0}, hi : 0 .. HeapTop]
      BY <2>1 DEF Whole, H!WellFormed, H!Typed
    <3>2. ASSUME NEW a \in arenas PROVE a \in [lo : HeapAddrs, hi : 1 .. HeapTop]
      <4>1. a = [lo |-> a.lo, hi |-> a.hi] /\ a.lo \in Nat /\ a.hi \in 0 .. HeapTop
        BY <3>1
      <4>2. a.lo \in HeapAddrs /\ a.lo + HDR + HDR <= a.hi
        BY <2>1 DEF Founded
      <4>3. a.hi \in 1 .. HeapTop
        BY <4>1, <4>2, <2>2
      <4> QED BY <4>1, <4>2, <4>3
    <3> QED BY <3>2
  <2>7. ASSUME NEW c \in Holders PROVE held[c] \in [ptr : 1 .. HeapTop, req : Nat]
    <3>1. c \in HoldersIn(held) /\ Books(held)
      BY <1>1 DEF LInv, HoldersIn, Holders
    <3>2. held[c] = [ptr |-> held[c].ptr, req |-> held[c].req] /\ held[c].req \in Nat
      BY <3>1 DEF Books
    <3>3. held[c].ptr \in DOMAIN Live(held)
      BY <1>1, <3>1, HeldBlock
    <3>4. H!WellFormed(Blk(mem), arenas) /\ H!Agrees(Blk(mem), Live(held))
      BY <1>1, InvariantIs DEF LInv, Stands
    <3>5. held[c].ptr \in 1 .. HeapTop
      BY <3>3, <3>4, HeapAssumed, H!PayloadInBlock
    <3> QED BY <3>2, <3>5
  <2>8. byte \in [1 .. HeapTop -> Clients \cup {None}]
    BY <1>1 DEF LInv, Room
  <2> QED BY <2>3, <2>4, <2>5, <2>6, <2>7, <2>8 DEF TypeOK
<1>2. ASSUME Countable PROVE Spec => []TypeOK
  <2>1. LInv => TypeOK
    BY <1>1, <1>2
  <2> QED BY <2>1, <1>2, SpecLInv, PTL
<1> QED BY <1>2

------------------------------------------------------------------------------
(* What coalescing leaves.                                                 *)

(* A free block of a coalesced heap reaches up to a block in use.          *)
LEMMA FreeUpToUsed ==
  ASSUME NEW B, NEW ar, H!WellFormed(B, ar), Founded(B, ar),
         NEW b \in DOMAIN H!Coalesced(B), ~ H!Coalesced(B)[b].used
  PROVE  \E u \in DOMAIN H!Coalesced(B) :
           /\ H!Coalesced(B)[u].used /\ u \in DOMAIN B /\ B[u].used
           /\ u \in Nat /\ b \in Nat /\ b < u /\ H!Coalesced(B)[b].size = u - b - HDR
           /\ \E a \in ar : a.lo <= b /\ u + HDR <= a.hi
<1> DEFINE T == H!Coalesced(B)
           u == H!NextUsed(B, b)
<1>1. /\ DOMAIN T = {x \in DOMAIN B : ~ H!Swallowed(B, x)}
      /\ \A x \in DOMAIN T : IF B[x].used THEN T[x] = B[x]
                             ELSE T[x] = [size |-> H!NextUsed(B, x) - x - HDR, used |-> FALSE]
  BY DEF H!Coalesced
<1>2. b \in DOMAIN T /\ ~ T[b].used
  OBVIOUS
<1> HIDE DEF T
<1>3. b \in DOMAIN B /\ ~ B[b].used
  BY <1>1, <1>2
<1>4. ~ H!Sentinel(B, b) /\ T[b] = [size |-> u - b - HDR, used |-> FALSE]
  BY <1>1, <1>2, <1>3 DEF H!Sentinel
<1>5. /\ u \in DOMAIN B /\ B[u].used /\ u \in Nat /\ b < u
      /\ \E a \in ar : a.lo <= b /\ u + HDR <= a.hi
  BY <1>3, <1>4, HeapAssumed, H!NextUsedAbove
<1>6. b \in Nat
  BY <1>3 DEF H!WellFormed, H!Typed
<1> HIDE DEF u
<1>7. u \in DOMAIN T /\ T[u].used
  BY <1>1, <1>5 DEF H!Swallowed
<1>8. T[b].size = u - b - HDR
  BY <1>4
<1> QED BY <1>5, <1>6, <1>7, <1>8 DEF T

(* A sentinel lies in no arena but its own.                                *)
LEMMA SentinelOf ==
  ASSUME NEW T, NEW ar, H!WellFormed(T, ar), Founded(T, ar),
         NEW u \in DOMAIN T, H!Sentinel(T, u), NEW a \in ar, a.lo <= u, u < a.hi
  PROVE  u = a.hi - HDR
<1>1. PICK c \in ar : u = c.hi - HDR
  BY DEF Founded
<1>2. /\ a.lo \in Nat /\ a.hi \in Nat /\ c.lo \in Nat /\ c.hi \in Nat /\ u \in Nat
      /\ HDR \in Nat /\ HDR > 0
  BY ListAssumption DEF H!WellFormed, H!Typed
<1>3. c.lo + HDR + HDR <= c.hi /\ (a = c \/ a.hi <= c.lo \/ c.hi <= a.lo)
  BY DEF Founded
<1>4. ~ (a.hi <= c.lo) /\ ~ (c.hi <= a.lo)
  BY <1>1, <1>2, <1>3
<1> QED BY <1>1, <1>3, <1>4

(* Nothing in use but sentinels: each arena is one block below its own.    *)
LEMMA EmptyArenas ==
  ASSUME NEW B, NEW ar, H!WellFormed(B, ar), Founded(B, ar),
         \A x \in DOMAIN B : B[x].used => B[x].size = 0
  PROVE  /\ DOMAIN H!Coalesced(B) = UNION {{a.lo, a.hi - HDR} : a \in ar}
         /\ \A a \in ar : H!Coalesced(B)[a.lo].size = a.hi - a.lo - HDR - HDR
<1> DEFINE T == H!Coalesced(B)
<1>1. H!WellFormed(T, ar) /\ Founded(T, ar)
  BY HeapAssumed, H!CoalescedWellFormed, FoundedCoalesced
<1>2. \A x \in DOMAIN T : T[x].used => H!Sentinel(T, x)
  <2>1. \A x \in DOMAIN T : IF B[x].used THEN T[x] = B[x] /\ x \in DOMAIN B
                             ELSE T[x] = [size |-> H!NextUsed(B, x) - x - HDR, used |-> FALSE]
    BY DEF H!Coalesced
  <2> HIDE DEF T
  <2>2. ASSUME NEW x \in DOMAIN T, T[x].used PROVE H!Sentinel(T, x)
    <3>1. CASE B[x].used
      BY <2>1, <2>2, <3>1 DEF H!Sentinel
    <3>2. CASE ~ B[x].used
      <4>1. T[x].used = FALSE
        BY <2>1, <3>2
      <4> QED BY <4>1, <2>2
    <3> QED BY <3>1, <3>2
  <2> QED BY <2>2
<1>3. \A b \in DOMAIN T : ~ T[b].used =>
        \E u \in DOMAIN T : /\ T[u].used /\ u \in Nat /\ b \in Nat /\ b < u
                            /\ T[b].size = u - b - HDR
                            /\ \E a \in ar : a.lo <= b /\ u + HDR <= a.hi
  BY FreeUpToUsed
<1> HIDE DEF T
<1>4. /\ \A x \in DOMAIN T : x \in Nat /\ T[x].size \in Nat
      /\ \A a \in ar : a.lo \in Nat /\ a.hi \in Nat
      /\ HDR \in Nat /\ HDR > 0
  BY <1>1, ListAssumption DEF H!WellFormed, H!Typed
<1>5. ASSUME NEW a \in ar
      PROVE  a.lo \in DOMAIN T /\ T[a.lo].size = a.hi - a.lo - HDR - HDR /\ a.hi - HDR \in DOMAIN T
  <2>1. a.lo \in DOMAIN T /\ a.lo + HDR + HDR <= a.hi
    BY <1>1 DEF Founded
  <2>2. a.hi - HDR \in DOMAIN T
    BY <1>1 DEF H!WellFormed, H!Fenced
  <2>3. ~ T[a.lo].used
    <3>1. SUFFICES ASSUME T[a.lo].used PROVE FALSE
      OBVIOUS
    <3>2. H!Sentinel(T, a.lo)
      BY <1>2, <2>1, <3>1
    <3>3. a.lo = a.hi - HDR
      BY <1>1, <1>4, <2>1, <3>2, SentinelOf
    <3> QED BY <3>3, <1>4, <2>1
  <2>4. PICK u \in DOMAIN T : /\ T[u].used /\ u \in Nat /\ a.lo < u
                              /\ T[a.lo].size = u - a.lo - HDR
                              /\ \E c \in ar : c.lo <= a.lo /\ u + HDR <= c.hi
    BY <1>3, <2>1, <2>3
  <2>5. PICK c \in ar : c.lo <= a.lo /\ u + HDR <= c.hi
    BY <2>4
  <2>6. a = c \/ a.hi <= c.lo \/ c.hi <= a.lo
    BY <1>1 DEF Founded
  <2>7. a = c
    BY <2>1, <2>4, <2>5, <2>6, <1>4
  <2>9. H!Sentinel(T, u) /\ u < a.hi
    BY <2>4, <2>5, <2>7, <1>2, <1>4
  <2>10. u = a.hi - HDR
    BY <2>4, <2>9, <1>1, <1>4, SentinelOf
  <2>11. T[a.lo].size = a.hi - a.lo - HDR - HDR
    BY <2>4, <2>10, <1>4
  <2> QED BY <2>1, <2>2, <2>11
<1>6. ASSUME NEW x \in DOMAIN T PROVE \E a \in ar : x \in {a.lo, a.hi - HDR}
  <2>1. PICK a \in ar : a.lo <= x /\ x + HDR + T[x].size <= a.hi
    BY <1>1 DEF H!WellFormed, H!InArena, H!End
  <2>2. CASE x = a.lo
    BY <2>2
  <2>3. CASE a.lo < x
    <3>1. a.lo + HDR + T[a.lo].size <= x
      BY <1>1, <1>5, <2>3 DEF H!WellFormed, H!Ordered, H!End
    <3>2. x = a.hi - HDR
      BY <3>1, <1>4, <1>5, <2>1
    <3> QED BY <3>2
  <2> QED BY <2>1, <2>2, <2>3, <1>4
<1>7. DOMAIN T = UNION {{a.lo, a.hi - HDR} : a \in ar}
  <2> DEFINE U == UNION {{a.lo, a.hi - HDR} : a \in ar}
  <2>1. \A x : x \in U <=> \E a \in ar : x \in {a.lo, a.hi - HDR}
    <3> SUFFICES ASSUME NEW x PROVE x \in U <=> \E a \in ar : x \in {a.lo, a.hi - HDR}
      OBVIOUS
    <3> QED OBVIOUS
  <2> HIDE DEF U
  <2>2. DOMAIN T \subseteq U
    BY <2>1, <1>6
  <2>3. U \subseteq DOMAIN T
    BY <2>1, <1>5
  <2> QED BY <2>2, <2>3 DEF U
<1> QED BY <1>5, <1>7 DEF T

(***************************************************************************)
(* Once nobody holds anything, a coalesced list is each arena as Malloc    *)
(* gave it: freeing and coalescing lose no byte.                           *)
(***************************************************************************)
THEOREM ListLosesNothing == Countable => (Spec => []NothingLost)
<1>1. ASSUME Countable, LInv, Holders = {}
      PROVE  LET tidy == coalesce_all(Now).mem IN
             /\ DOMAIN tidy = UNION {{a.lo, a.hi - HDR} : a \in arenas}
             /\ \A a \in arenas : tidy[a.lo].size = a.hi - a.lo - HDR - HDR
  <2> DEFINE tidy == coalesce_all(Now).mem
             B == Blk(mem)
             T == H!Coalesced(B)
  <2>1. Sound(Now) /\ H!WellFormed(B, arenas) /\ H!Agrees(B, Live(held)) /\ Founded(B, arenas)
    BY <1>1, InvariantIs, NowIs DEF LInv, Stands, Sound
  <2>2. Blk(tidy) = T
    BY <1>1, <2>1, NowIs, CoalescedSound DEF Countable
  <2>3. DOMAIN Live(held) = {}
    BY <1>1 DEF Live, HoldersIn, Holders
  <2> HIDE DEF tidy, B, T
  <2>4. ASSUME NEW x \in DOMAIN B, B[x].used PROVE B[x].size = 0
    <3>1. x \in Nat /\ HDR \in Nat
      BY <2>1, ListAssumption DEF H!WellFormed, H!Typed
    <3>2. (x + HDR) - HDR = x /\ x + HDR \in Nat
      BY <3>1
    <3>3. ~ H!UsedBlock(B, x)
      BY <3>1, <3>2, <2>1, <2>3 DEF H!Agrees
    <3> QED BY <3>3, <2>4 DEF H!UsedBlock
  <2>5. /\ DOMAIN T = UNION {{a.lo, a.hi - HDR} : a \in arenas}
        /\ \A a \in arenas : T[a.lo].size = a.hi - a.lo - HDR - HDR
    BY <2>1, <2>4, EmptyArenas DEF T
  <2>6. DOMAIN T = DOMAIN tidy /\ \A b \in DOMAIN tidy : T[b].size = tidy[b].size
    BY <2>2, BlkSays
  <2>7. \A a \in arenas : a.lo \in DOMAIN tidy
    BY <2>5, <2>6
  <2> QED BY <2>5, <2>6, <2>7 DEF tidy
<1>2. ASSUME Countable PROVE Spec => []NothingLost
  <2>1. LInv => NothingLost
    BY <1>1, <1>2 DEF NothingLost
  <2> QED BY <2>1, <1>2, SpecLInv, PTL
<1> QED BY <1>2

------------------------------------------------------------------------------
(* Where a run of unused bytes is, a coalesced heap has a block as big.    *)

(* The greatest of the numbers of a set that are at most n.                *)
LEMMA GreatestUpTo ==
  ASSUME NEW S, S \subseteq Nat, NEW n \in Nat, NEW s \in S, s <= n
  PROVE  \E g \in S : s <= g /\ g <= n /\ \A x \in S : x <= g \/ n < x
<1> DEFINE R == {k \in 0 .. n : n - k \in S}
<1>1. R \in SUBSET (0 .. n)
  OBVIOUS
<1>2. R # {}
  <2>1. n - s \in 0 .. n /\ n - (n - s) = s
    OBVIOUS
  <2> QED BY <2>1
<1>3. PICK k \in R : \A x \in R : k <= x
  <2> HIDE DEF R
  <2> QED BY <1>1, <1>2, HeapAssumed, H!LeastBelow DEF H!HasLeast
<1>4. k \in 0 .. n /\ n - k \in S
  OBVIOUS
<1>5. ASSUME NEW x \in S PROVE x <= n - k \/ n < x
  <2>1. CASE x <= n
    <3>1. n - x \in 0 .. n /\ n - (n - x) = x
      BY <2>1
    <3>2. n - x \in R
      BY <3>1
    <3>3. k <= n - x
      BY <1>3, <3>2
    <3> QED BY <3>3, <1>4
  <2>2. CASE n < x
    BY <2>2
  <2> QED BY <2>1, <2>2
<1>6. s <= n - k
  BY <1>4, <1>5
<1> QED BY <1>4, <1>5, <1>6

LEMMA RunHasFit ==
  ASSUME NEW B, NEW ar, H!WellFormed(B, ar), Founded(B, ar), NEW want \in Nat, want > 0,
         NEW r \in ar, NEW lo \in r.lo .. r.hi - HDR - want,
         \A a \in Bytes(lo, HDR + want) :
           \A b \in DOMAIN B : ~ (B[b].used /\ a \in Bytes(b, HDR + B[b].size))
  PROVE  H!Fits(H!Coalesced(B), want) # {}
<1> DEFINE T == H!Coalesced(B)
<1>1. H!WellFormed(T, ar) /\ Founded(T, ar)
  BY HeapAssumed, H!CoalescedWellFormed, FoundedCoalesced
<1>2. \A x \in DOMAIN T : x \in DOMAIN B /\ (B[x].used => T[x] = B[x]) /\ (T[x].used => B[x].used)
  <2>1. \A x \in DOMAIN T : x \in DOMAIN B
          /\ IF B[x].used THEN T[x] = B[x]
             ELSE T[x] = [size |-> H!NextUsed(B, x) - x - HDR, used |-> FALSE]
    BY DEF H!Coalesced
  <2> HIDE DEF T
  <2>2. ASSUME NEW x \in DOMAIN T, ~ B[x].used PROVE T[x].used = FALSE
    BY <2>1, <2>2
  <2>3. \A x \in DOMAIN T : T[x].used => B[x].used
    BY <2>2
  <2> QED BY <2>1, <2>3
<1>3. \A b \in DOMAIN T : ~ T[b].used =>
        \E u \in DOMAIN T : /\ u \in DOMAIN B /\ B[u].used /\ u \in Nat /\ b \in Nat /\ b < u
                            /\ T[b].size = u - b - HDR
  BY FreeUpToUsed
<1>t. H!Fits(T, want) = {b \in DOMAIN T : ~ T[b].used /\ T[b].size >= want}
  BY DEF H!Fits
<1> HIDE DEF T
<1>4. /\ \A x \in DOMAIN T : x \in Nat /\ T[x].size \in Nat
      /\ \A x \in DOMAIN B : x \in Nat /\ B[x].size \in Nat
      /\ \A a \in ar : a.lo \in Nat /\ a.hi \in Nat
      /\ HDR \in Nat /\ HDR > 0
  BY <1>1, ListAssumption DEF H!WellFormed, H!Typed
<1>5. /\ r.lo \in Nat /\ r.hi \in Nat /\ lo \in Nat /\ r.lo <= lo /\ lo + HDR + want <= r.hi
  BY <1>4
<1>6. PICK b \in DOMAIN T : r.lo <= b /\ b <= lo /\ \A x \in DOMAIN T : x <= b \/ lo < x
  <2>1. r.lo \in DOMAIN T /\ DOMAIN T \subseteq Nat
    BY <1>1, <1>4 DEF Founded
  <2> QED BY <2>1, <1>5, GreatestUpTo
<1>7. b \in Nat /\ T[b].size \in Nat
  BY <1>4
<1>8. ~ T[b].used
  <2>1. SUFFICES ASSUME T[b].used PROVE FALSE
    OBVIOUS
  <2>2. b \in DOMAIN B /\ B[b].used /\ B[b].size = T[b].size
    BY <1>2, <2>1
  <2>3. lo \in Bytes(lo, HDR + want)
    BY <1>4, <1>5 DEF Bytes
  <2>4. lo \notin Bytes(b, HDR + B[b].size)
    BY <2>2, <2>3
  <2>5. b + HDR + T[b].size <= lo
    BY <2>4, <2>2, <1>4, <1>5, <1>6, <1>7 DEF Bytes
  <2>6. CASE H!Sentinel(T, b)
    <3>1. b = r.hi - HDR
      BY <1>1, <1>4, <1>5, <1>6, <2>6, SentinelOf
    <3> QED BY <3>1, <2>5, <1>4, <1>5, <1>7
  <2>7. CASE ~ H!Sentinel(T, b)
    <3>1. b + HDR + T[b].size \in DOMAIN T
      BY <2>7, <1>1 DEF H!WellFormed, H!Contiguous, H!End
    <3> QED BY <3>1, <2>5, <1>4, <1>5, <1>6, <1>7
  <2> QED BY <2>6, <2>7
<1>9. PICK u \in DOMAIN T : /\ u \in DOMAIN B /\ B[u].used /\ u \in Nat /\ b < u
                            /\ T[b].size = u - b - HDR
  BY <1>3, <1>8
<1>10. u \in Bytes(u, HDR + B[u].size)
  BY <1>4, <1>9 DEF Bytes
<1>11. u \notin Bytes(lo, HDR + want)
  BY <1>9, <1>10
<1>12. lo < u
  BY <1>4, <1>5, <1>6, <1>7, <1>9
<1>13. lo + HDR + want <= u
  BY <1>4, <1>5, <1>9, <1>11, <1>12 DEF Bytes
<1>14. T[b].size >= want
  BY <1>4, <1>5, <1>6, <1>7, <1>9, <1>13
<1>15. b \in H!Fits(T, want)
  BY <1>8, <1>14, <1>t
<1> QED BY <1>15 DEF T

(* A heap whose coalesced form has no fit has no such run.                 *)
LEMMA FullIsFull ==
  ASSUME Countable, LInv, NEW n \in Requests,
         H!Fits(H!Coalesced(Blk(mem)), round_up(Least1(n))) = {}
  PROVE  ~ RoomFor(round_up(Least1(n)))
<1> DEFINE want == round_up(Least1(n))
           B == Blk(mem)
<1>1. want \in Nat /\ want > 0
  BY WantIs
<1>2. H!WellFormed(B, arenas) /\ Founded(B, arenas)
  BY InvariantIs, NowIs DEF LInv, Stands, Sound
<1>3. DOMAIN B = DOMAIN mem /\ \A b \in DOMAIN mem : B[b].used = mem[b].used /\ B[b].size = mem[b].size
  BY BlkSays
<1>4. H!Fits(H!Coalesced(B), want) = {}
  OBVIOUS
<1> HIDE DEF want, B
<1>5. SUFFICES ASSUME RoomFor(want) PROVE FALSE
  BY DEF want
<1>6. PICK r \in arenas : \E lo \in r.lo .. r.hi - HDR - want :
        \A a \in Bytes(lo, HDR + want) : ~ InUse(a)
  BY <1>5 DEF RoomFor
<1>7. PICK lo \in r.lo .. r.hi - HDR - want : \A a \in Bytes(lo, HDR + want) : ~ InUse(a)
  BY <1>6
<1>8. \A a \in Bytes(lo, HDR + want) :
           \A b \in DOMAIN B : ~ (B[b].used /\ a \in Bytes(b, HDR + B[b].size))
  BY <1>3, <1>7 DEF InUse
<1> QED BY <1>1, <1>2, <1>4, <1>8, RunHasFit

(* Freeing leaves the arenas alone.                                        *)
LEMMA FreedArenas ==
  ASSUME NEW l, Sound(l), NEW b
  PROVE  Freed(l, b).ar = l.ar
<1>1. l = [mem |-> l.mem, head |-> l.head, tail |-> l.tail, ar |-> l.ar]
  BY DEF Sound, List
<1>2. PICK f : Freed(l, b) = [l EXCEPT !.mem = f[HeapTop]]
  BY FreePassesAre
<1> DEFINE m == l.mem
           h == l.head
           t == l.tail
           a == l.ar
<1> HIDE DEF m, h, t, a
<1>3. l = [mem |-> m, head |-> h, tail |-> t, ar |-> a]
  BY <1>1 DEF m, h, t, a
<1>4. Freed(l, b).ar = a
  BY <1>2, <1>3
<1> QED BY <1>4 DEF a

(***************************************************************************)
(* An arena is taken only when no arena has a run of unused bytes that a   *)
(* header and the request would fit in.                                    *)
(***************************************************************************)
THEOREM ArenasTakenWhenFull == Countable => (Spec => ArenaOnlyWhenFull)
<1> DEFINE Promised ==
       arenas' # arenas =>
         \A c \in Clients : held'[c] # held[c] =>
           ~ RoomFor(round_up(IF held'[c].req = 0 THEN 1 ELSE held'[c].req))
<1>1. ASSUME Countable, LInv, [Next]_vars, arenas' # arenas,
             NEW c \in Clients, held'[c] # held[c]
      PROVE  ~ RoomFor(round_up(Least1(held'[c].req)))
  <2>0. Sound(Now) /\ Books(held)
    BY <1>1 DEF LInv
  <2>1. ASSUME NEW d \in Clients, NEW n \in Requests, NEW q,
               NEW out \in AllocOutcomes(round_up(Least1(n))),
               out.list.ar # arenas, held' = [held EXCEPT ![d] = [ptr |-> q, req |-> n]]
        PROVE  ~ RoomFor(round_up(Least1(held'[c].req)))
    <3>1. H!Fits(H!Coalesced(Blk(mem)), round_up(Least1(n))) = {}
      BY <1>1, <2>0, <2>1, OutcomeIs
    <3>2. ~ RoomFor(round_up(Least1(n)))
      BY <1>1, <3>1, FullIsFull
    <3>3. d = c
      BY <1>1, <2>0, <2>1 DEF Books
    <3>4. held'[c] = [ptr |-> q, req |-> n]
      BY <2>0, <2>1, <3>3 DEF Books
    <3>5. held'[c].req = n
      BY <3>4
    <3> QED BY <3>2, <3>5
  <2>2. ASSUME NEW d \in Clients, NEW n \in Requests, mem_alloc(d, n)
        PROVE  ~ RoomFor(round_up(Least1(held'[c].req)))
    <3>1. PICK out \in AllocOutcomes(round_up(Least1(n))) :
            /\ SetList(out.list)
            /\ IF out.at = NULL THEN UNCHANGED held
               ELSE held' = [held EXCEPT ![d] = [ptr |-> out.at + HDR, req |-> n]]
      BY <2>2 DEF mem_alloc, Least1
    <3>2. arenas' = out.list.ar /\ out.at # NULL
      BY <1>1, <3>1 DEF SetList
    <3> DEFINE q == out.at + HDR
    <3>3. held' = [held EXCEPT ![d] = [ptr |-> q, req |-> n]]
      BY <3>1, <3>2
    <3> HIDE DEF q
    <3> QED BY <1>1, <2>1, <3>2, <3>3
  <2>3. ASSUME NEW d \in Clients, NEW n \in Requests, ReallocByMoving(d, n)
        PROVE  ~ RoomFor(round_up(Least1(held'[c].req)))
    <3>1. n # 0 /\ Least1(n) = n
      BY <2>3 DEF ReallocByMoving, Least1
    <3>2. PICK out \in AllocOutcomes(round_up(n)) :
            IF out.at = NULL THEN UNCHANGED held
            ELSE /\ SetList(Freed(out.list, held[d].ptr - HDR))
                 /\ held' = [held EXCEPT ![d] = [ptr |-> out.at + HDR, req |-> n]]
      BY <2>3 DEF ReallocByMoving
    <3>3. out.at # NULL
      BY <1>1, <3>2
    <3>4. Sound(out.list)
      BY <1>1, <2>0, <3>1, OutcomeIs
    <3>5. arenas' = out.list.ar
      BY <3>2, <3>3, <3>4, FreedArenas DEF SetList
    <3> DEFINE q == out.at + HDR
    <3>6. held' = [held EXCEPT ![d] = [ptr |-> q, req |-> n]]
      BY <3>2, <3>3
    <3> HIDE DEF q
    <3> QED BY <1>1, <2>1, <3>1, <3>5, <3>6
  <2>4. ASSUME NEW d \in Clients, mem_free(d) PROVE FALSE
    BY <1>1, <2>4, FreeStep
  <2>5. ~ UNCHANGED arenas
    BY <1>1
  <2>6. /\ ~ UNCHANGED vars /\ ~ mem_atari_reset_counters
        /\ \A d \in Clients, n \in Requests : ~ ReallocInPlace(d, n)
    BY <2>5 DEF vars, mem_atari_reset_counters, ReallocInPlace, heapVars
  <2> QED BY <1>1, <2>2, <2>3, <2>4, <2>6 DEF Next
<1>2. ASSUME Countable PROVE Spec => ArenaOnlyWhenFull
  <2>1. LInv /\ [Next]_vars => Promised
    BY <1>1, <1>2 DEF Least1
  <2>2. Promised => [arenas' # arenas =>
         \A c \in Clients : held'[c] # held[c] =>
           ~ RoomFor(round_up(IF held'[c].req = 0 THEN 1 ELSE held'[c].req))]_vars
    OBVIOUS
  <2>3. Spec => []LInv
    BY <1>2, SpecLInv
  <2> HIDE DEF Promised
  <2>4. LInv /\ [Next]_vars => [arenas' # arenas =>
         \A c \in Clients : held'[c] # held[c] =>
           ~ RoomFor(round_up(IF held'[c].req = 0 THEN 1 ELSE held'[c].req))]_vars
    BY <2>1, <2>2
  <2> QED BY <2>3, <2>4, PTL DEF Spec, ArenaOnlyWhenFull
<1> QED BY <1>2

==============================================================================
