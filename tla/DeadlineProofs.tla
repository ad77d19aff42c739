---------------------------- MODULE DeadlineProofs ----------------------------
(***************************************************************************)
(* Theorems about Deadline, for every word, every rate of a counter up to  *)
(* one unit a millisecond, every step it goes up by and every timeout: as  *)
(* long as a target's arithmetic Holds, its waits and sleeps are as long   *)
(* as the ticks of its counter let them be.                                *)
(***************************************************************************)
EXTENDS Deadline, TLAPS

(* What division leaves: the quotient is the whole number below.           *)
LEMMA Below ==
  ASSUME NEW a \in Nat, NEW d \in Nat \ {0}
  PROVE  /\ a \div d \in Nat
         /\ (a \div d) * d <= a
         /\ a < (a \div d) * d + d
  BY SMT

(* A quotient is known by where its product lies.                          *)
LEMMA BelowIs ==
  ASSUME NEW a \in Int, NEW d \in Nat \ {0}, NEW q \in Int, q * d <= a, a < q * d + d
  PROVE  a \div d = q
  BY SMT

(* A number is made up of its quotient and what is left over.              *)
LEMMA MadeUp ==
  ASSUME NEW a \in Int, NEW d \in Int, d > 0
  PROVE  a = d * (a \div d) + (a % d)
  BY SMT

(* The same, of counts.                                                    *)
LEMMA LeftOver ==
  ASSUME NEW a \in Nat, NEW d \in Nat \ {0}
  PROVE  /\ a % d \in 0 .. d - 1
         /\ a = (a \div d) * d + (a % d)
  <1> DEFINE q == a \div d
             l == a % d
  <1>1. l \in 0 .. d - 1
    BY SMT
  <1>2. a = d * q + l
    BY MadeUp
  <1>3. q \in Nat
    BY Below
  <1> HIDE DEF q, l
  <1>4. d * q = q * d
    BY <1>3, SMT
  <1>5. a = q * d + l
    BY <1>2, <1>4
  <1> QED BY <1>1, <1>5 DEF q, l

(* Where nothing overflows there is no modulus.                            *)
LEMMA NoWrap ==
  ASSUME NEW a \in Nat, NEW w \in Nat \ {0}, a < w
  PROVE  a % w = a
  BY SMT

(* The order of products with the same factor.                             *)
LEMMA ProductsOrdered ==
  ASSUME NEW a \in Nat, NEW b \in Nat, NEW d \in Nat \ {0}
  PROVE  /\ a * d \in Nat
         /\ a <= b => a * d <= b * d
         /\ a * d < b * d => a < b
  BY SMT

(* A factor changes no order.                                              *)
LEMMA Stretched ==
  ASSUME NEW a \in Int, NEW b \in Int, NEW d \in Nat \ {0}
  PROVE  /\ a * d \in Int /\ b * d \in Int
         /\ a < b <=> a * d < b * d
  BY SMT

(* Two comparisons in a row.                                               *)
LEMMA Transitive ==
  ASSUME NEW a \in Int, NEW b \in Int, NEW c \in Int, a < b, b < c
  PROVE  a < c
  OBVIOUS

(* Dividing first and carrying the remainder is dividing the product.      *)
LEMMA Carried ==
  ASSUME NEW c \in Nat, NEW r \in Nat \ {0}, NEW m \in Nat
  PROVE  /\ (c * m) \div r = (c \div r) * m + ((c % r) * m) \div r
         /\ (c \div r) * m \in Nat /\ ((c % r) * m) \div r \in Nat
         /\ (c % r) * m \in Nat /\ (c % r) * m <= r * m
  <1> DEFINE q == c \div r
             l == c % r
             k == (l * m) \div r
  <1>1. q \in Nat /\ l \in 0 .. r - 1 /\ c = q * r + l
    BY Below, LeftOver
  <1> HIDE DEF q, l
  <1>2. l * m \in Nat /\ q * m \in Nat /\ l * m <= r * m
    BY <1>1, SMT
  <1>3. k \in Nat /\ k * r <= l * m /\ l * m < k * r + r
    <2> DEFINE p == l * m
    <2> HIDE DEF p
    <2>1. p \in Nat
      BY <1>2 DEF p
    <2>2. p \div r \in Nat /\ (p \div r) * r <= p /\ p < (p \div r) * r + r
      BY <2>1, Below
    <2> QED BY <2>2 DEF p
  <1> HIDE DEF k
  <1>4. c * m = (q * m) * r + l * m
    BY <1>1, SMT
  <1>5. (q * m + k) * r = (q * m) * r + k * r
    BY <1>2, <1>3, SMT
  <1>6. c * m \in Int /\ q * m + k \in Int
    BY <1>1, <1>2, <1>3, SMT
  <1>7. (q * m + k) * r <= c * m /\ c * m < (q * m + k) * r + r
    BY <1>1, <1>2, <1>3, <1>4, <1>5, <1>6, SMT
  <1>8. (c * m) \div r = q * m + k
    BY <1>6, <1>7, BelowIs
  <1> QED BY <1>2, <1>3, <1>8 DEF q, l, k

(* DivideFirst is exact as long as the milliseconds fit a word.            *)
LEMMA DivideFirstExact ==
  ASSUME NEW c \in Nat, NEW t \in Targets, (c * MS) \div Rate[t] < WORD
  PROVE  DivideFirst(c, Rate[t]) = (c * MS) \div Rate[t]
  <1> DEFINE r == Rate[t]
             a == (c \div r) * MS
             b == (c % r) * MS
  <1>1. /\ r \in Nat \ {0} /\ MS \in Nat \ {0} /\ WORD \in Nat \ {0}
        /\ r * MS < WORD /\ r * MS \in Nat
    BY DeadlineAssumption, SMT
  <1>2. /\ (c * MS) \div r = a + b \div r
        /\ a \in Nat /\ b \in Nat /\ b \div r \in Nat /\ b <= r * MS
    BY <1>1, Carried
  <1>3. DivideFirst(c, r) = ((a % WORD) + ((b % WORD) \div r)) % WORD
    BY DEF DivideFirst
  <1>4. a + b \div r < WORD
    BY <1>2
  <1> HIDE DEF a, b, r
  <1>5. a < WORD /\ b < WORD
    BY <1>1, <1>2, <1>4
  <1>6. a % WORD = a /\ b % WORD = b
    BY <1>1, <1>2, <1>5, NoWrap
  <1>7. (a + b \div r) % WORD = a + b \div r
    BY <1>1, <1>2, <1>4, NoWrap
  <1>8. DivideFirst(c, r) = a + b \div r
    BY <1>3, <1>6, <1>7
  <1> QED BY <1>2, <1>8 DEF r
(* MultiplyFirst is exact as long as the product fits a word.              *)
LEMMA MultiplyFirstExact ==
  ASSUME NEW c \in Nat, NEW r \in Nat \ {0}, c * MS < WORD
  PROVE  MultiplyFirst(c, r) = (c * MS) \div r
  <1>1. c * MS \in Nat /\ WORD \in Nat \ {0}
    BY DeadlineAssumption, SMT
  <1>2. (c * MS) % WORD = c * MS
    BY <1>1, NoWrap
  <1> QED BY <1>2 DEF MultiplyFirst

(* A sleep is as many ticks as there are whole ones in its milliseconds.   *)
LEMMA SleepTicksExact ==
  ASSUME NEW ms \in Nat, target \in Targets,
         IF target \in Relative THEN ms * rate < WORD ELSE ms < WORD
  PROVE  SleepTicks(ms) = (ms * rate) \div MS
  <1>1. /\ rate \in Nat \ {0} /\ rate <= MS /\ MS \in Nat \ {0} /\ WORD \in Nat \ {0}
        /\ rate * MS < WORD
    BY DeadlineAssumption DEF rate
  <1>2. CASE target \in Relative
    <2> DEFINE p == ms * rate
    <2>1. p \in Nat /\ p < WORD /\ SleepTicks(ms) = (p % WORD) \div MS
      BY <1>1, <1>2, SMT DEF SleepTicks
    <2> HIDE DEF p
    <2>2. p % WORD = p
      BY <1>1, <2>1, NoWrap
    <2> QED BY <2>1, <2>2 DEF p
  <1>3. CASE target \notin Relative
    <2> DEFINE a == (ms \div MS) * rate
               b == (ms % MS) * rate
    <2>1. /\ (ms * rate) \div MS = a + b \div MS
          /\ a \in Nat /\ b \in Nat /\ b \div MS \in Nat /\ b <= MS * rate
      BY <1>1, Carried
    <2>2. SleepTicks(ms) = ((a % WORD) + ((b % WORD) \div MS)) % WORD
      BY <1>3 DEF SleepTicks
    <2>3. (ms * rate) \div MS <= ms
      <3> DEFINE p == ms * rate
                 q == p \div MS
      <3>1. p \in Nat /\ p <= ms * MS
        BY <1>1, SMT
      <3> HIDE DEF p
      <3>2. q \in Nat /\ q * MS <= p
        BY <1>1, <3>1, Below
      <3> HIDE DEF q
      <3>3. q * MS <= ms * MS
        BY <1>1, <3>1, <3>2, SMT
      <3>4. q <= ms
        BY <1>1, <3>2, <3>3, SMT
      <3> QED BY <3>4 DEF p, q
    <2>4. a + b \div MS < WORD /\ MS * rate = rate * MS
      BY <1>1, <1>3, <2>1, <2>3, SMT
    <2> HIDE DEF a, b
    <2>5. a % WORD = a /\ b % WORD = b
      BY <1>1, <2>1, <2>4, NoWrap, SMT
    <2>6. (a + b \div MS) % WORD = a + b \div MS
      BY <1>1, <2>1, <2>4, NoWrap
    <2> QED BY <2>1, <2>2, <2>5, <2>6
  <1> QED BY <1>2, <1>3
------------------------------------------------------------------------------
(* The arithmetic of every target holds as long as anything is started.    *)
Lasts == Timeouts # {} /\ \A t \in Targets : Holds(t, Uptime[t])

(* What the counter may say while a wait or a sleep of ms is looked at.    *)
Within(n, ms) == n * MS < (Uptime[target] + step) * MS + ms * rate

(* What a target's constants are.                                          *)
LEMMA Constant ==
  ASSUME target \in Targets
  PROVE  /\ rate \in Nat \ {0} /\ rate <= MS /\ MS \in Nat \ {0} /\ WORD \in Nat \ {0}
         /\ step \in Nat \ {0} /\ span \in Nat \ {0} /\ second \in Nat \ {0}
         /\ second * step = rate * span
         /\ Uptime[target] \in Nat
         /\ \A ms \in Timeouts : ms \in Nat
  BY DeadlineAssumption DEF rate, step, span, second

(* Within that range nothing overflows.                                    *)
LEMMA NothingWraps ==
  ASSUME target \in Targets, Lasts, NEW ms \in Timeouts, NEW n \in Nat, Within(n, ms)
  PROVE  /\ n < WORD
         /\ IF target \in Relative THEN n * MS < WORD /\ ms * rate < WORD
            ELSE (n * MS) \div rate < WORD /\ ms < WORD
  <1> DEFINE U == Uptime[target]
             u == U * MS
             w == ms * rate
             p == n * MS
             e == step * MS
  <1>1. /\ rate \in Nat \ {0} /\ rate <= MS /\ MS \in Nat \ {0} /\ WORD \in Nat \ {0}
        /\ U \in Nat /\ ms \in Nat /\ step \in Nat \ {0}
    BY Constant
  <1>2. /\ u \in Nat /\ w \in Nat /\ p \in Nat /\ e \in Nat
        /\ (U + step) * MS = u + e /\ (U + step + 1) * MS = u + e + MS
    BY <1>1, SMT
  <1>3. p < u + e + w
    BY <1>2 DEF Within
  <1>4. n <= p
    BY <1>1, SMT
  <1>5. CASE target \in Relative
    <2>1. (U + step + 1) * MS + w < WORD
      BY <1>5 DEF Lasts, Holds, rate, step
    <2> HIDE DEF U, u, w, p, e
    <2>2. p < WORD /\ w < WORD /\ n < WORD
      BY <1>1, <1>2, <1>3, <1>4, <2>1
    <2> QED BY <1>5, <2>2 DEF p, w
  <1>6. CASE target \notin Relative
    <2> DEFINE q == (u + e) \div rate
               k == p \div rate
    <2>1. ((U + step) * MS) \div rate + ms < WORD
      BY <1>6 DEF Lasts, Holds, rate, step
    <2>2. q + ms < WORD
      BY <1>2, <2>1
    <2> HIDE DEF U, u, p, e
    <2>3. q \in Nat /\ u + e < q * rate + rate
      BY <1>1, <1>2, Below
    <2>4. k \in Nat /\ k * rate <= p /\ p < k * rate + rate
      BY <1>1, <1>2, Below
    <2> HIDE DEF q, k
    <2>5. k * rate < (q + ms + 1) * rate
      <3>1. (q + ms + 1) * rate = q * rate + w + rate
        BY <1>1, <2>3, SMT
      <3>2. q * rate \in Nat /\ k * rate \in Nat
        BY <1>1, <2>3, <2>4, SMT
      <3> HIDE DEF w
      <3> QED BY <1>1, <1>2, <1>3, <2>3, <2>4, <3>1, <3>2
    <2>6. k < q + ms + 1
      BY <1>1, <2>3, <2>4, <2>5, ProductsOrdered
    <2>7. n <= k
      <3>1. n * rate <= p
        BY <1>1, SMT DEF p
      <3>2. n * rate < (k + 1) * rate
        <4>1. (k + 1) * rate = k * rate + rate /\ n * rate \in Nat /\ k * rate \in Nat
          BY <1>1, <2>4, SMT
        <4> QED BY <1>1, <1>2, <2>4, <3>1, <4>1
      <3> QED BY <1>1, <2>4, <3>2, ProductsOrdered
    <2>8. k < WORD /\ ms < WORD /\ n < WORD
      BY <1>1, <2>2, <2>3, <2>4, <2>6, <2>7
    <2> QED BY <1>6, <2>8 DEF k, p
  <1> QED BY <1>5, <1>6
(* What a target counts from, and what its clock says after n ticks.       *)
Origin(b) == IF target \in Relative THEN b ELSE 0
Stamp(n, b) == ((n - Origin(b)) * MS) \div rate

(* Within that range the clock is exact.                                   *)
LEMMA ClockExact ==
  ASSUME target \in Targets, Lasts, NEW ms \in Timeouts, raw \in Nat, Within(raw, ms),
         NEW b \in 0 .. raw
  PROVE  /\ TicksFrom(b) = Stamp(raw, b)
         /\ raw % WORD = raw
         /\ Stamp(raw, b) \in Nat
  <1> DEFINE c == raw - b
  <1>1. /\ rate \in Nat \ {0} /\ MS \in Nat \ {0} /\ WORD \in Nat \ {0}
        /\ raw < WORD
        /\ IF target \in Relative THEN raw * MS < WORD ELSE (raw * MS) \div rate < WORD
    BY Constant, NothingWraps
  <1>2. raw % WORD = raw
    BY <1>1, NoWrap
  <1>3. CASE target \in Relative
    <2>1. c \in Nat /\ c <= raw /\ c < WORD
      BY <1>1
    <2>2. c * MS \in Nat /\ raw * MS \in Nat /\ c * MS <= raw * MS
      BY <1>1, <2>1, ProductsOrdered
    <2>3. c % WORD = c /\ c * MS < WORD
      BY <1>1, <1>3, <2>1, <2>2, NoWrap
    <2>4. MultiplyFirst(c, rate) = (c * MS) \div rate /\ (c * MS) \div rate \in Nat
      BY <1>1, <2>1, <2>2, <2>3, MultiplyFirstExact, Below
    <2> QED BY <1>2, <1>3, <2>3, <2>4 DEF TicksFrom, Stamp, Origin
  <1>4. CASE target \notin Relative
    <2>1. DivideFirst(raw, rate) = (raw * MS) \div rate
      BY <1>1, <1>4, DivideFirstExact DEF rate
    <2>2. raw * MS \in Nat /\ raw - 0 = raw
      BY <1>1, SMT
    <2>3. (raw * MS) \div rate \in Nat
      BY <1>1, <2>2, Below
    <2> QED BY <1>2, <1>4, <2>1, <2>2, <2>3 DEF TicksFrom, Stamp, Origin
  <1> QED BY <1>2, <1>3, <1>4

(* The stamps of a later and of an earlier tick, against the ticks between.*)
LEMMA StampsApart ==
  ASSUME target \in Targets, NEW n \in Nat, NEW m \in 0 .. n, NEW b \in 0 .. m, NEW ms \in Nat
  PROVE  /\ Stamp(n, b) \in Nat /\ Stamp(m, b) \in Nat
         /\ Stamp(m, b) <= Stamp(n, b)
         /\ Stamp(n, b) < Stamp(m, b) + ms => (n - m) * MS < ms * rate
         /\ Stamp(n, b) >= Stamp(m, b) + ms => (n - m) * MS > (ms - 1) * rate
  <1> DEFINE o == Origin(b)
             x == (n - o) * MS
             y == (m - o) * MS
             j == x \div rate
             k == y \div rate
  <1>1. rate \in Nat \ {0} /\ MS \in Nat \ {0} /\ o \in 0 .. m
    BY Constant DEF Origin
  <1>2. /\ x \in Nat /\ y \in Nat /\ x = y + (n - m) * MS
        /\ (n - m) * MS \in Nat /\ ms * rate \in Nat
    BY <1>1, SMT
  <1>3. j \in Nat /\ j * rate <= x /\ x < j * rate + rate
    <2> HIDE DEF x
    <2> QED BY <1>1, <1>2, Below
  <1>4. k \in Nat /\ k * rate <= y /\ y < k * rate + rate
    <2> HIDE DEF y
    <2> QED BY <1>1, <1>2, Below
  <1>5. Stamp(n, b) = j /\ Stamp(m, b) = k
    BY DEF Stamp
  <1> DEFINE d == (n - m) * MS
             w == ms * rate
  <1>6. /\ (ms - 1) * rate = w - rate
        /\ (j + 1) * rate = j * rate + rate
        /\ (k + ms) * rate = k * rate + w
        /\ j * rate \in Nat /\ k * rate \in Nat
    BY <1>1, <1>3, <1>4, SMT
  <1>7. x = y + d /\ d \in Nat /\ w \in Nat
    BY <1>2
  <1> HIDE DEF x, y, j, k, d, w, o
  <1>8. k <= j
    <2>1. k * rate < (j + 1) * rate
      BY <1>1, <1>2, <1>3, <1>4, <1>6, <1>7
    <2> QED BY <1>1, <1>3, <1>4, <2>1, ProductsOrdered
  <1>9. ASSUME j < k + ms PROVE d < w
    <2>1. (j + 1) * rate <= (k + ms) * rate
      BY <1>1, <1>3, <1>4, <1>9, ProductsOrdered
    <2> QED BY <1>1, <1>2, <1>3, <1>4, <1>6, <1>7, <2>1
  <1>10. ASSUME j >= k + ms PROVE d > w - rate
    <2>1. (k + ms) * rate <= j * rate
      BY <1>1, <1>3, <1>4, <1>10, ProductsOrdered
    <2> QED BY <1>1, <1>2, <1>3, <1>4, <1>6, <1>7, <2>1
  <1> QED BY <1>3, <1>4, <1>5, <1>6, <1>8, <1>9, <1>10 DEF d, w
------------------------------------------------------------------------------
(* The invariant.  Whatever is under way was begun in time; the counter    *)
(* has gone up by its timeout since, and by at most one more step that has *)
(* not been looked at.                                                     *)
Parts ==
  /\ target \in Targets /\ raw \in Nat /\ base \in -1 .. raw /\ looked \in BOOLEAN
  /\ mode \in {"idle", "wait", "sleep"}
  /\ phase \in 0 .. span - 1 /\ gone \in Nat
  /\ target \notin Relative => base = -1

From == IF target \in Relative THEN IF base = -1 THEN raw ELSE base ELSE 0

InTime ==
  IF mode = "idle" THEN \E ms \in Timeouts : Within(raw, ms)
  ELSE /\ timeout \in Timeouts
       /\ since \in 0 .. raw /\ since <= Uptime[target]
       /\ (raw - since) * MS < timeout * rate + step * MS

Waiting ==
  mode = "wait" =>
    /\ target \in Relative => base \in 0 .. since
    /\ deadline = Stamp(since, From) + timeout
    /\ looked => (raw - since) * MS < timeout * rate

Sleeping ==
  mode = "sleep" =>
    /\ deadline = (timeout * rate) \div MS
    /\ looked => raw - since < deadline

(* The counter has gone up for as long as something is under way, give or  *)
(* take the tick that was under way when it began.                         *)
Timed ==
  mode # "idle" =>
    /\ gone * step <= (raw - since) * span + phase * step
    /\ (raw - since) * span + phase * step < (gone + span) * step

Inv == Parts /\ InTime /\ Waiting /\ Sleeping /\ Timed

(* What is under way has not left the range of the arithmetic.             *)
LEMMA StillWithin ==
  ASSUME Parts, InTime, Lasts
  PROVE  \E ms \in Timeouts : Within(raw, ms)
  <1>1. CASE mode = "idle"
    BY <1>1 DEF InTime
  <1>2. CASE mode # "idle"
    <2> DEFINE U == Uptime[target]
               u == U * MS
               v == since * MS
               p == raw * MS
               w == timeout * rate
               e == step * MS
    <2>1. /\ timeout \in Timeouts /\ since \in 0 .. raw /\ since <= U
          /\ (raw - since) * MS < w + e
      BY <1>2 DEF InTime
    <2>2. rate \in Nat \ {0} /\ MS \in Nat \ {0} /\ U \in Nat /\ timeout \in Nat /\ raw \in Nat
          /\ since \in Nat /\ step \in Nat
      BY <2>1, Constant DEF Parts
    <2>3. /\ u \in Nat /\ v \in Nat /\ p \in Nat /\ w \in Nat
          /\ (raw - since) * MS = p - v /\ (U + step) * MS = u + e /\ e \in Nat
      BY <2>1, <2>2, SMT
    <2>4. v <= u
      BY <2>1, <2>2, ProductsOrdered
    <2> HIDE DEF U, u, v, p, w, e
    <2>5. p < u + e + w
      BY <2>1, <2>2, <2>3, <2>4
    <2>6. Within(raw, timeout)
      BY <2>2, <2>3, <2>5 DEF Within, U, u, p, w, e
    <2> QED BY <2>1, <2>6
  <1> QED BY <1>1, <1>2

(* The clock that is looked at now.                                        *)
LEMMA Reads ==
  ASSUME Parts, InTime, Lasts
  PROVE  /\ plat_ticks_ms = Stamp(raw, From) /\ Stamp(raw, From) \in Nat
         /\ From \in 0 .. raw /\ raw < WORD
         /\ Base = IF target \in Relative THEN From ELSE -1
  <1>1. PICK ms \in Timeouts : Within(raw, ms)
    BY StillWithin
  <1>2. target \in Targets /\ raw \in Nat /\ From \in 0 .. raw
    BY DEF Parts, From
  <1>3. /\ TicksFrom(From) = Stamp(raw, From) /\ raw % WORD = raw
        /\ Stamp(raw, From) \in Nat
    BY <1>1, <1>2, ClockExact
  <1>4. raw < WORD
    BY <1>1, <1>2, NothingWraps
  <1>5. Base = IF target \in Relative THEN From ELSE -1
    BY <1>3 DEF Parts, From, Base
  <1>6. plat_ticks_ms = TicksFrom(From)
    <2>1. CASE target \in Relative
      BY <1>5, <2>1 DEF plat_ticks_ms
    <2>2. CASE target \notin Relative
      BY <2>2 DEF plat_ticks_ms, TicksFrom
    <2> QED BY <2>1, <2>2
  <1> QED BY <1>2, <1>3, <1>4, <1>5, <1>6
(* The deadline of a wait begun in time fits a word.                       *)
LEMMA DeadlineFits ==
  ASSUME Parts, Lasts, raw <= Uptime[target], NEW t \in Timeouts, NEW b \in 0 .. raw
  PROVE  Stamp(raw, b) + t < WORD
  <1> DEFINE U == Uptime[target]
             u == U * MS
             w == t * rate
             x == (raw - Origin(b)) * MS
             j == x \div rate
             e == step * MS
  <1>1. /\ rate \in Nat \ {0} /\ MS \in Nat \ {0} /\ WORD \in Nat \ {0} /\ U \in Nat
        /\ t \in Nat /\ raw \in Nat /\ target \in Targets /\ Origin(b) \in 0 .. raw
        /\ step \in Nat
    BY Constant DEF Parts, Origin
  <1>2. /\ raw - Origin(b) \in Nat /\ raw - Origin(b) <= U
    BY <1>1
  <1>3. u \in Nat /\ w \in Nat /\ x \in Nat /\ x <= u
    BY <1>1, <1>2, ProductsOrdered
  <1>4. j \in Nat /\ j * rate <= x
    <2> HIDE DEF x
    <2> QED BY <1>1, <1>3, Below
  <1>5. Stamp(raw, b) = j
    BY DEF Stamp
  <1>6. (U + step) * MS = u + e /\ (U + step + 1) * MS = u + e + MS /\ e \in Nat
    BY <1>1, SMT
  <1>7. CASE target \in Relative
    <2>1. u + e + MS + w < WORD
      BY <1>6, <1>7 DEF Lasts, Holds, rate, step, Parts
    <2> HIDE DEF j, x, u, U, e
    <2>2. j <= j * rate /\ t <= w /\ j * rate \in Nat
      BY <1>1, <1>4, SMT
    <2> HIDE DEF w
    <2>3. j + t < WORD
      BY <1>1, <1>3, <1>4, <1>6, <2>1, <2>2
    <2> QED BY <1>5, <2>3
  <1>8. CASE target \notin Relative
    <2> DEFINE q == (u + e) \div rate
    <2>1. q + t < WORD
      BY <1>6, <1>8 DEF Lasts, Holds, rate, step, Parts
    <2> HIDE DEF j, x, u, U, e
    <2>2. q \in Nat /\ u + e < q * rate + rate
      BY <1>1, <1>3, <1>6, Below
    <2> HIDE DEF q
    <2>3. j * rate < (q + 1) * rate
      <3>1. (q + 1) * rate = q * rate + rate /\ q * rate \in Nat /\ j * rate \in Nat
        BY <1>1, <1>4, <2>2, SMT
      <3> QED BY <1>1, <1>3, <1>4, <1>6, <2>2, <3>1
    <2>4. j < q + 1
      BY <1>1, <1>4, <2>2, <2>3, ProductsOrdered
    <2>5. j + t < WORD
      BY <1>1, <1>4, <2>1, <2>2, <2>4
    <2> QED BY <1>5, <2>5
  <1> QED BY <1>7, <1>8

(* Nothing is under way at first.                                          *)
LEMMA InitInv == Lasts /\ Init => Inv
  <1> SUFFICES ASSUME Lasts, Init PROVE Inv
    OBVIOUS
  <1>1. PICK ms \in Timeouts : TRUE
    BY DEF Lasts
  <1>2. /\ rate \in Nat \ {0} /\ MS \in Nat \ {0} /\ Uptime[target] \in Nat /\ ms \in Nat
        /\ step \in Nat \ {0} /\ span \in Nat \ {0}
    BY Constant DEF Init
  <1>3. /\ ms * rate \in Nat /\ 0 * MS = 0
        /\ (Uptime[target] + step) * MS \in Nat \ {0}
    BY <1>2, SMT
  <1>4. Within(0, ms)
    BY <1>3, <1>2 DEF Within
  <1>5. 0 \in 0 .. span - 1
    BY <1>2
  <1> QED BY <1>4, <1>5 DEF Init, Inv, Parts, InTime, Waiting, Sleeping, Timed

(* A product with one more.                                                *)
LEMMA OneMore ==
  ASSUME NEW a \in Nat, NEW b \in Nat, NEW d \in Nat
  PROVE  /\ a * b \in Nat /\ (a + 1) * b = a * b + b
         /\ (a + d) * b = a * b + d * b /\ d * b \in Nat
  BY SMT

(* A moment goes by.                                                       *)
LEMMA MomentKeeps ==
  ASSUME Inv, Moment
  PROVE  Inv'
  <1> USE DEF Inv, Moment, TimeGoesBy
  <1>1. /\ span \in Nat \ {0} /\ step \in Nat \ {0} /\ phase \in 0 .. span - 1
        /\ gone \in Nat /\ raw \in Nat
    BY Constant DEF Parts
  <1>2. rate' = rate /\ step' = step /\ span' = span
    BY DEF rate, step, span
  <1>3. Parts'
    <2>1. phase' \in 0 .. span - 1 /\ gone' \in Nat
      BY <1>1
    <2> QED BY <1>2, <2>1 DEF Parts
  <1>4. InTime' /\ Waiting' /\ Sleeping'
    BY <1>2 DEF InTime, Waiting, Sleeping, Within, From, Stamp, Origin
  <1>5. ASSUME mode # "idle" PROVE Timed'
    <2> DEFINE g == gone * step
               f == phase * step
               c == (raw - since) * span
               p == span * step
    <2>1. since \in 0 .. raw
      BY <1>5 DEF InTime
    <2>2. /\ g \in Nat /\ f \in Nat /\ p \in Nat /\ c \in Nat
          /\ (gone + 1) * step = g + step /\ (phase + 1) * step = f + step
          /\ (gone + span) * step = g + p /\ (gone + 1 + span) * step = g + step + p
      BY <1>1, <2>1, OneMore, SMT
    <2>3. g <= c + f /\ c + f < g + p
      BY <1>5, <2>2 DEF Timed
    <2> HIDE DEF g, f, c, p
    <2>4. g + step <= c + (f + step) /\ c + (f + step) < g + step + p
      BY <1>1, <2>2, <2>3
    <2>5. gone' = gone + 1 /\ phase' = phase + 1 /\ raw' = raw /\ since' = since
      BY <1>5
    <2> QED BY <1>2, <2>2, <2>4, <2>5 DEF Timed, c
  <1> QED BY <1>3, <1>4, <1>5 DEF Timed

(* The counter goes up.                                                    *)
LEMMA TickKeeps ==
  ASSUME Inv, Lasts, Tick
  PROVE  Inv'
  <1> USE DEF Inv, Tick, TimeGoesBy
  <1>1. /\ rate \in Nat \ {0} /\ MS \in Nat \ {0} /\ Uptime[target] \in Nat
        /\ step \in Nat \ {0} /\ span \in Nat \ {0} /\ phase \in 0 .. span - 1 /\ gone \in Nat
        /\ raw \in Nat /\ target \in Targets /\ \A ms \in Timeouts : ms \in Nat
    BY Constant DEF Parts
  <1>2. rate' = rate /\ step' = step /\ span' = span
    BY DEF rate, step, span
  <1>3. Parts'
    <2>1. raw' \in Nat /\ base' \in -1 .. raw'
      BY <1>1 DEF Parts
    <2>2. phase' \in 0 .. span - 1 /\ gone' \in Nat
      BY <1>1
    <2> QED BY <1>2, <2>1, <2>2 DEF Parts
  <1> DEFINE e == step * MS
  <1>4. CASE mode = "idle"
    <2>1. PICK ms \in Timeouts : TRUE
      BY DEF Lasts
    <2>2. raw + step \in Nat /\ raw + step <= Uptime[target] /\ ms \in Nat
      BY <1>1, <1>4
    <2>3. (raw + step) * MS <= Uptime[target] * MS /\ (raw + step) * MS \in Nat
      BY <1>1, <2>2, ProductsOrdered
    <2>4. /\ ms * rate \in Nat /\ Uptime[target] * MS \in Nat /\ e \in Nat \ {0}
          /\ (Uptime[target] + step) * MS = Uptime[target] * MS + e
      BY <1>1, <2>2, SMT
    <2>5. Within(raw + step, ms)
      <3> HIDE DEF e
      <3> QED BY <1>1, <2>3, <2>4 DEF Within
    <2>6. InTime'
      BY <1>2, <1>4, <2>5 DEF InTime, Within
    <2> QED BY <1>3, <1>4, <2>6 DEF Waiting, Sleeping, Timed
  <1>5. CASE mode # "idle"
    <2> DEFINE d == (raw - since) * MS
               w == timeout * rate
    <2>1. /\ looked /\ ~ looked' /\ timeout \in Nat /\ since \in 0 .. raw
          /\ since <= Uptime[target] /\ timeout \in Timeouts
      BY <1>1, <1>5 DEF InTime
    <2>2. d \in Nat /\ w \in Nat /\ e \in Nat /\ ((raw + step) - since) * MS = d + e
      BY <1>1, <2>1, SMT
    <2>3. d < w
      <3>1. CASE mode = "wait"
        BY <2>1, <3>1 DEF Waiting
      <3>2. CASE mode = "sleep"
        <4> DEFINE k == w \div MS
        <4>1. deadline = k /\ raw - since < k
          BY <2>1, <3>2 DEF Sleeping
        <4> HIDE DEF w
        <4>2. k \in Nat /\ k * MS <= w
          BY <1>1, <2>2, Below
        <4> HIDE DEF k
        <4>3. (raw - since + 1) * MS <= k * MS
          BY <1>1, <2>1, <4>1, <4>2, ProductsOrdered
        <4>4. (raw - since + 1) * MS = d + MS /\ k * MS \in Nat
          BY <1>1, <2>1, <4>2, SMT
        <4> HIDE DEF d
        <4> QED BY <1>1, <2>2, <4>2, <4>3, <4>4
      <3> QED BY <1>5, <3>1, <3>2 DEF Parts
    <2>4. InTime'
      <3>1. ((raw + step) - since) * MS < w + e
        <4> HIDE DEF d, w, e
        <4> QED BY <1>1, <2>2, <2>3
      <3>2. since \in 0 .. raw + step
        BY <1>1, <2>1
      <3> QED BY <1>1, <1>2, <1>5, <2>1, <3>1, <3>2 DEF InTime
    <2>5. mode = "wait" => From' = From
      BY <2>1 DEF Waiting, From
    <2>6. Waiting'
      BY <1>2, <2>1, <2>5 DEF Waiting, Stamp, Origin
    <2>7. Sleeping'
      BY <1>1, <1>2, <2>1 DEF Sleeping
    <2>8. Timed'
      <3> DEFINE g == gone * step
                 f == phase * step
                 c == (raw - since) * span
                 p == span * step
      <3>1. /\ g \in Nat /\ f \in Nat /\ p \in Nat /\ c \in Nat
            /\ (gone + 1) * step = g + step /\ (phase + 1) * step = f + step
            /\ (gone + span) * step = g + p /\ (gone + 1 + span) * step = g + step + p
        BY <1>1, <2>1, OneMore, SMT
      <3>2. g <= c + f /\ c + f < g + p
        BY <1>5, <3>1 DEF Timed
      <3>3. f + step = p
        BY <1>1, <3>1
      <3>4. ((raw + step) - since) * span = c + p
        BY <1>1, <2>1, SMT
      <3> HIDE DEF g, f, c, p
      <3>5. g + step <= c + p + 0 /\ c + p + 0 < g + step + p
        BY <1>1, <3>1, <3>2, <3>3
      <3>6. gone' = gone + 1 /\ phase' = 0 /\ raw' = raw + step /\ since' = since
            /\ 0 * step = 0
        BY <1>1, <1>5, SMT
      <3>7. /\ (gone + 1) * step <= ((raw + step) - since) * span + 0 * step
            /\ ((raw + step) - since) * span + 0 * step < (gone + 1 + span) * step
        BY <3>1, <3>4, <3>5, <3>6
      <3>8. /\ gone' * step' <= (raw' - since') * span' + phase' * step'
            /\ (raw' - since') * span' + phase' * step' < (gone' + span') * step'
        BY ONLY <1>2, <3>6, <3>7, Zenon
      <3> QED BY ONLY <3>8 DEF Timed
    <2> QED BY <1>3, <2>4, <2>6, <2>7, <2>8
  <1> QED BY <1>4, <1>5
(* What is begun has lasted no time.                                       *)
LEMMA JustBegun ==
  ASSUME Parts, NEW t \in Timeouts
  PROVE  /\ (raw - raw) * MS < t * rate + step * MS
         /\ 0 * step <= (raw - raw) * span + phase * step
         /\ (raw - raw) * span + phase * step < (0 + span) * step
  <1>1. /\ rate \in Nat \ {0} /\ MS \in Nat \ {0} /\ t \in Nat /\ raw \in Nat
        /\ step \in Nat \ {0} /\ span \in Nat \ {0} /\ phase \in 0 .. span - 1
    BY Constant DEF Parts
  <1>2. t * rate \in Nat /\ (raw - raw) * MS = 0 /\ step * MS \in Nat \ {0}
    BY <1>1, SMT
  <1>3. (raw - raw) * span = 0 /\ 0 * step = 0 /\ phase * step \in Nat
    BY <1>1, SMT
  <1>4. phase * step < span * step /\ 0 + span = span
    <2>1. (phase + 1) * step = phase * step + step
      BY <1>1, OneMore
    <2>2. (phase + 1) * step <= span * step /\ span * step \in Nat
      BY <1>1, ProductsOrdered
    <2> QED BY <1>1, <1>3, <2>1, <2>2
  <1>5. (raw - raw) * MS < t * rate + step * MS
    BY <1>2
  <1>6. 0 * step <= (raw - raw) * span + phase * step
    BY <1>3
  <1>7. (raw - raw) * span + phase * step < (0 + span) * step
    BY <1>3, <1>4
  <1> QED BY <1>5, <1>6, <1>7

(* A wait begins.                                                          *)
LEMMA StartWaitKeeps ==
  ASSUME Inv, Lasts, NEW t \in Timeouts, StartWait(t)
  PROVE  Inv'
  <1> USE DEF Inv, StartWait
  <1>1. /\ plat_ticks_ms = Stamp(raw, From) /\ Stamp(raw, From) \in Nat
        /\ From \in 0 .. raw /\ raw < WORD
        /\ base' = IF target \in Relative THEN From ELSE -1
    BY Reads
  <1>2. raw \in Nat /\ t \in Nat /\ WORD \in Nat \ {0}
    BY Constant DEF Parts
  <1>3. Stamp(raw, From) + t < WORD
    BY <1>1, DeadlineFits
  <1>4. deadline' = Stamp(raw, From) + t
    <2> DEFINE n == Stamp(raw, From) + t
    <2>1. deadline' = n % WORD
      BY <1>1
    <2>2. n \in Nat /\ n < WORD
      BY <1>1, <1>2, <1>3
    <2> HIDE DEF n
    <2>3. n % WORD = n
      BY <1>2, <2>2, NoWrap
    <2> QED BY <2>1, <2>3 DEF n
  <1>5. Parts'
    <2>1. base' \in -1 .. raw
      BY <1>1, <1>2
    <2> QED BY <1>1, <2>1 DEF Parts, span
  <1>6. InTime'
    BY <1>2, JustBegun DEF InTime, rate, step
  <1>7. From' = From
    BY <1>1, <1>2 DEF From
  <1>8. Waiting'
    BY <1>1, <1>4, <1>7 DEF Waiting, Stamp, Origin, rate
  <1>9. Sleeping'
    BY DEF Sleeping
  <1>10. Timed'
    BY JustBegun DEF Timed, step, span
  <1> QED BY <1>5, <1>6, <1>8, <1>9, <1>10

(* A sleep begins.                                                         *)
LEMMA StartSleepKeeps ==
  ASSUME Inv, Lasts, NEW t \in Timeouts, StartSleep(t)
  PROVE  Inv'
  <1> USE DEF Inv, StartSleep
  <1> DEFINE w == t * rate
  <1>1. /\ raw \in Nat /\ t \in Nat /\ MS \in Nat \ {0} /\ rate \in Nat \ {0}
        /\ target \in Targets /\ Uptime[target] \in Nat /\ w \in Nat
        /\ step \in Nat \ {0}
    BY Constant, SMT DEF Parts
  <1>2. Within(raw, t)
    <2>1. raw * MS \in Nat /\ (raw + 1) * MS = raw * MS + MS
      BY <1>1, SMT
    <2>2. (raw + 1) * MS <= (Uptime[target] + step) * MS /\ (Uptime[target] + step) * MS \in Nat
      BY <1>1, ProductsOrdered
    <2> HIDE DEF w
    <2>3. raw * MS < (Uptime[target] + step) * MS + w
      BY <1>1, <2>1, <2>2
    <2> QED BY <2>3 DEF Within, w
  <1>3. IF target \in Relative THEN w < WORD ELSE t < WORD
    BY <1>1, <1>2, NothingWraps
  <1>4. deadline' = w \div MS
    BY <1>1, <1>3, SleepTicksExact
  <1>5. w \div MS \in Nat
    <2> HIDE DEF w
    <2> QED BY <1>1, Below
  <1>6. Parts'
    BY DEF Parts, span
  <1>7. InTime'
    BY <1>1, JustBegun DEF InTime, rate, step
  <1>8. Sleeping'
    BY <1>1, <1>4, <1>5 DEF Sleeping, rate
  <1>9. Timed'
    BY JustBegun DEF Timed, step, span
  <1> QED BY <1>6, <1>7, <1>8, <1>9 DEF Waiting

(* A wait or a sleep returns.                                              *)
LEMMA ReturnKeeps ==
  ASSUME Inv, Lasts, Return, UNCHANGED <<target, raw, phase, base>>, looked' \in BOOLEAN
  PROVE  Inv'
  <1>1. PICK ms \in Timeouts : Within(raw, ms)
    BY StillWithin DEF Inv
  <1>2. Parts'
    BY DEF Inv, Parts, Return, span
  <1>3. InTime'
    BY <1>1 DEF Return, InTime, Within, rate, step
  <1> QED BY <1>2, <1>3 DEF Return, Inv, Waiting, Sleeping, Timed

(* A look at the clock lets a wait go on, or not.                          *)
LEMMA LookKeeps ==
  ASSUME Inv, Lasts, LookAtClock
  PROVE  Inv'
  <1> USE DEF LookAtClock
  <1>1. CASE plat_ticks_ms >= deadline
    BY <1>1, ReturnKeeps
  <1>2. CASE ~ (plat_ticks_ms >= deadline)
    <2>1. /\ plat_ticks_ms = Stamp(raw, From) /\ Stamp(raw, From) \in Nat
          /\ From \in 0 .. raw
      BY Reads DEF Inv
    <2>2. /\ timeout \in Nat /\ since \in 0 .. raw /\ raw \in Nat /\ target \in Targets
          /\ deadline = Stamp(since, From) + timeout /\ From \in 0 .. since
      BY Constant DEF Inv, Parts, InTime, Waiting, From
    <2>3. Stamp(since, From) \in Nat
      BY <2>2, StampsApart
    <2>4. Stamp(raw, From) < Stamp(since, From) + timeout
      BY <1>2, <2>1, <2>2, <2>3
    <2>5. (raw - since) * MS < timeout * rate
      BY <2>2, <2>4, StampsApart
    <2>6. UNCHANGED <<mode, since, gone, timeout, deadline, target, raw, phase, base>> /\ looked' = TRUE
      BY <1>2 DEF GoOn
    <2>7. Parts' /\ InTime' /\ Sleeping' /\ Timed'
      BY <2>6 DEF Inv, Parts, InTime, Sleeping, Timed, Within, rate, step, span
    <2>8. Waiting'
      BY <2>5, <2>6 DEF Inv, Waiting, From, Stamp, Origin, rate
    <2> QED BY <2>7, <2>8 DEF Inv
  <1> QED BY <1>1, <1>2

(* So does the busy wait of a sleep.                                       *)
LEMMA WakeKeeps ==
  ASSUME Inv, Lasts, Wake
  PROVE  Inv'
  <1> USE DEF Wake
  <1>1. CASE (raw - since) % WORD >= deadline
    BY <1>1, ReturnKeeps
  <1>2. CASE ~ ((raw - since) % WORD >= deadline)
    <2>1. (raw - since) % WORD = raw - since
      <3>1. raw < WORD /\ raw \in Nat /\ since \in 0 .. raw /\ WORD \in Nat \ {0}
        BY Reads, Constant DEF Inv, Parts, InTime
      <3>2. raw - since \in Nat /\ raw - since < WORD
        BY <3>1
      <3> QED BY <3>1, <3>2, NoWrap
    <2>2. UNCHANGED <<mode, since, gone, timeout, deadline, target, raw, phase, base>> /\ looked' = TRUE
      BY <1>2 DEF GoOn
    <2>3. Parts' /\ InTime' /\ Waiting' /\ Timed'
      BY <2>2 DEF Inv, Parts, InTime, Waiting, Timed, Within, rate, step, span
    <2>4. raw - since < deadline
      <3> DEFINE w == timeout * rate
      <3>1. /\ timeout \in Nat /\ rate \in Nat /\ MS \in Nat \ {0}
            /\ raw \in Nat /\ since \in 0 .. raw /\ deadline = w \div MS
        BY Constant DEF Inv, Parts, InTime, Sleeping
      <3>2. w \in Nat
        BY <3>1, SMT
      <3> HIDE DEF w
      <3>3. deadline \in Nat
        BY <3>1, <3>2, Below
      <3> QED BY <1>2, <2>1, <3>1, <3>3
    <2>5. Sleeping'
      BY <2>2, <2>4 DEF Inv, Sleeping, rate
    <2> QED BY <2>3, <2>5 DEF Inv
  <1> QED BY <1>1, <1>2
(* Every step keeps the invariant.                                         *)
LEMMA NextInv == Lasts /\ Inv /\ [Next]_vars => Inv'
  <1> SUFFICES ASSUME Lasts, Inv, [Next]_vars PROVE Inv'
    OBVIOUS
  <1>1. CASE Moment \/ Tick
    BY <1>1, MomentKeeps, TickKeeps
  <1>2. CASE \E t \in Timeouts : StartWait(t) \/ StartSleep(t)
    BY <1>2, StartWaitKeeps, StartSleepKeeps
  <1>3. CASE LookAtClock
    BY <1>3, LookKeeps
  <1>4. CASE Answered
    <2>1. looked' \in BOOLEAN
      BY <1>4 DEF Answered, Inv, Parts
    <2> QED BY <1>4, <2>1, ReturnKeeps DEF Answered
  <1>5. CASE Wake
    BY <1>5, WakeKeeps
  <1>6. CASE UNCHANGED vars
    BY <1>6 DEF vars, Inv, Parts, InTime, Waiting, Sleeping, Timed, Within, From, Stamp, Origin,
                rate, step, span
  <1> QED BY <1>1, <1>2, <1>3, <1>4, <1>5, <1>6 DEF Next

(* The invariant is always true.                                           *)
LEMMA AlwaysInv ==
  ASSUME Lasts
  PROVE  Spec => []Inv
  <1>1. Init => Inv
    BY InitInv
  <1>2. Inv /\ [Next]_vars => Inv'
    BY NextInv
  <1> QED BY <1>1, <1>2, PTL DEF Spec

------------------------------------------------------------------------------
(* A word, and a quotient of one, fit a word.                              *)
LEMMA Word ==
  /\ WORD \in Nat \ {0} /\ MS \in Nat \ {0}
  /\ \A n \in Int : n % WORD \in 0 .. WORD - 1
  /\ \A n \in 0 .. WORD - 1, d \in Nat \ {0} : n \div d \in 0 .. WORD - 1
  <1>1. WORD \in Nat \ {0} /\ MS \in Nat \ {0}
    BY DeadlineAssumption
  <1>2. \A n \in Int : n % WORD \in 0 .. WORD - 1
    BY <1>1
  <1>3. ASSUME NEW n \in 0 .. WORD - 1, NEW d \in Nat \ {0}
        PROVE  n \div d \in 0 .. WORD - 1
    <2> DEFINE q == n \div d
    <2>1. q \in Nat /\ q * d <= n
      BY <1>1, Below
    <2> HIDE DEF q
    <2>2. q <= q * d /\ q * d \in Nat
      BY <2>1, SMT
    <2>3. q \in 0 .. WORD - 1
      BY <1>1, <2>1, <2>2
    <2> QED BY <2>3 DEF q
  <1> QED BY <1>1, <1>2, <1>3

(* So do the sums of two of them that are cut to one.                      *)
LEMMA SumFits ==
  ASSUME NEW a \in Int, NEW b \in Int, NEW d \in Nat \ {0}
  PROVE  ((a % WORD) + ((b % WORD) \div d)) % WORD \in 0 .. WORD - 1
  <1> DEFINE x == a % WORD
             y == (b % WORD) \div d
  <1>1. WORD \in Nat \ {0} /\ x \in 0 .. WORD - 1 /\ y \in 0 .. WORD - 1
    BY Word
  <1> HIDE DEF x, y
  <1>2. (x + y) % WORD \in 0 .. WORD - 1
    BY <1>1, Word
  <1> QED BY <1>2 DEF x, y

(* The clock answers a word.                                               *)
LEMMA TicksFit ==
  ASSUME target \in Targets, raw \in Nat, NEW b \in Int
  PROVE  TicksFrom(b) \in 0 .. WORD - 1
  <1>1. rate \in Nat \ {0} /\ MS \in Nat \ {0}
    BY Constant
  <1>2. ASSUME NEW c \in 0 .. WORD - 1
        PROVE  MultiplyFirst(c, rate) \in 0 .. WORD - 1
    <2>1. c * MS \in Int
      BY <1>1, Word, SMT
    <2> QED BY <1>1, <2>1, Word DEF MultiplyFirst
  <1>3. ASSUME NEW c \in 0 .. WORD - 1
        PROVE  DivideFirst(c, rate) \in 0 .. WORD - 1
    <2>1. c \in Nat
      BY Word
    <2>2. (c \div rate) * MS \in Int /\ (c % rate) * MS \in Int
      BY <1>1, <2>1, Carried
    <2> QED BY <1>1, <2>2, SumFits DEF DivideFirst
  <1>4. ASSUME NEW n \in Int PROVE n % WORD \in 0 .. WORD - 1
    BY Word
  <1>5. raw - b \in Int /\ raw \in Int
    OBVIOUS
  <1>6. (raw - b) % WORD \in 0 .. WORD - 1 /\ raw % WORD \in 0 .. WORD - 1
    BY <1>4, <1>5
  <1> QED BY <1>2, <1>3, <1>6 DEF TicksFrom

(* A sleep is a word of ticks.                                             *)
LEMMA SleepFits ==
  ASSUME target \in Targets, NEW ms \in Timeouts
  PROVE  SleepTicks(ms) \in 0 .. WORD - 1
  <1>1. rate \in Nat \ {0} /\ MS \in Nat \ {0} /\ ms \in Nat
    BY Constant
  <1>2. ms * rate \in Int
    BY <1>1, SMT
  <1>3. ((ms * rate) % WORD) \div MS \in 0 .. WORD - 1
    BY <1>1, <1>2, Word
  <1>4. (ms \div MS) * rate \in Int /\ (ms % MS) * rate \in Int
    BY <1>1, Carried
  <1>5. ((((ms \div MS) * rate) % WORD) + ((((ms % MS) * rate) % WORD) \div MS)) % WORD
          \in 0 .. WORD - 1
    BY <1>1, <1>4, SumFits
  <1> QED BY <1>3, <1>5 DEF SleepTicks

(* The type of the variables.                                              *)
Types ==
  /\ target \in Targets
  /\ raw \in Nat /\ since \in 0 .. raw
  /\ phase \in 0 .. span - 1 /\ gone \in Nat
  /\ base \in -1 .. WORD - 1
  /\ mode \in {"idle", "wait", "sleep"}
  /\ timeout \in Timeouts \cup {0}
  /\ deadline \in 0 .. WORD - 1
  /\ looked \in BOOLEAN

(* The base that the first call fixes is a word.                           *)
LEMMA BaseFits ==
  ASSUME Types
  PROVE  Base \in -1 .. WORD - 1 /\ Base \in Int
  <1>1. WORD \in Nat \ {0} /\ raw \in Int
    BY Word DEF Types
  <1>2. raw % WORD \in 0 .. WORD - 1
    BY <1>1, Word
  <1>3. Base \in {base, raw % WORD} /\ base \in -1 .. WORD - 1
    BY DEF Base, Types
  <1> QED BY <1>1, <1>2, <1>3

(* Every step keeps it, whether anything wraps or not.                     *)
LEMMA NextTypes == Types /\ [Next]_vars => Types'
  <1> SUFFICES ASSUME Types, [Next]_vars PROVE Types'
    OBVIOUS
  <1> USE DEF Types
  <1>0. /\ step \in Nat /\ span \in Nat \ {0}
        /\ target' = target => span' = span
    BY Constant DEF span
  <1>1. CASE Moment \/ Tick
    <2>1. raw' \in {raw, raw + step} /\ since' = since /\ gone' \in {0, gone + 1}
      BY <1>1 DEF Moment, Tick, TimeGoesBy
    <2>2. raw' \in Nat /\ since' \in 0 .. raw' /\ gone' \in Nat
      BY <1>0, <2>1
    <2>3. phase' \in 0 .. span - 1
      BY <1>0, <1>1 DEF Moment, Tick
    <2> QED BY <1>0, <1>1, <2>2, <2>3 DEF Moment, Tick, TimeGoesBy
  <1>2. ASSUME NEW t \in Timeouts, StartWait(t) PROVE Types'
    <2>1. Base \in -1 .. WORD - 1 /\ Base \in Int
      BY BaseFits
    <2>2. plat_ticks_ms \in 0 .. WORD - 1
      BY <2>1, TicksFit DEF plat_ticks_ms
    <2>3. plat_ticks_ms + t \in Int
      BY <2>2, Word, Constant
    <2>4. deadline' \in 0 .. WORD - 1
      BY <1>2, <2>3, Word DEF StartWait
    <2>5. since' \in 0 .. raw'
      BY <1>2 DEF StartWait
    <2> QED BY <1>0, <1>2, <2>1, <2>4, <2>5 DEF StartWait
  <1>3. ASSUME NEW t \in Timeouts, StartSleep(t) PROVE Types'
    <2>1. deadline' \in 0 .. WORD - 1
      BY <1>3, SleepFits DEF StartSleep
    <2>2. since' \in 0 .. raw'
      BY <1>3 DEF StartSleep
    <2> QED BY <1>0, <1>3, <2>1, <2>2 DEF StartSleep
  <1>4. ASSUME Return \/ GoOn, UNCHANGED <<target, raw, phase, base>>, looked' \in BOOLEAN
        PROVE  Types'
    <2>1. WORD \in Nat \ {0} /\ raw' = raw /\ since' \in {since, 0}
          /\ deadline' \in {deadline, 0}
      BY <1>4, Word DEF Return, GoOn
    <2>2. since' \in 0 .. raw' /\ deadline' \in 0 .. WORD - 1
      BY <2>1
    <2> QED BY <1>0, <1>4, <2>2 DEF Return, GoOn
  <1>5. CASE LookAtClock \/ Answered \/ Wake
    <2>1. (Return \/ GoOn) /\ UNCHANGED <<target, raw, phase, base>> /\ looked' \in BOOLEAN
      BY <1>5 DEF LookAtClock, Answered, Wake
    <2> QED BY <1>4, <2>1
  <1>6. CASE UNCHANGED vars
    BY <1>0, <1>6 DEF vars
  <1> QED BY <1>1, <1>2, <1>3, <1>5, <1>6 DEF Next

(***************************************************************************)
(* plat_ticks_ms and plat_sleep_ms of seven targets: every variable has    *)
(* its type, and the clock answers a u32, whether the arithmetic holds or  *)
(* not.                                                                    *)
(***************************************************************************)
THEOREM ClockTypeOK == Spec => []TypeOK
  <1>1. Init => Types
    <2> SUFFICES ASSUME Init PROVE Types
      OBVIOUS
    <2>1. span \in Nat \ {0}
      BY Constant DEF Init
    <2>2. phase \in 0 .. span - 1
      BY <2>1 DEF Init
    <2> QED BY <2>2, Word DEF Init, Types
  <1>2. Types => TypeOK
    <2> SUFFICES ASSUME Types PROVE plat_ticks_ms \in 0 .. WORD - 1
      BY DEF Types, TypeOK
    <2>1. Base \in Int
      BY BaseFits
    <2> QED BY <2>1, TicksFit DEF plat_ticks_ms, Types
  <1> QED BY <1>1, <1>2, NextTypes, PTL DEF Spec

(* The real time that has gone by, against what the counter has gone up by *)
(* and what that is in milliseconds: no more than a tick either way.       *)
LEMMA RealTime ==
  ASSUME Inv, mode # "idle"
  PROVE  /\ (raw - since) * MS < timeout * rate => (gone - span) * MS < timeout * second
         /\ (raw - since) * MS > (timeout - 1) * rate => (gone + span) * MS > (timeout - 1) * second
         /\ (raw - since + 1) * MS > timeout * rate
              => ((gone + span) * step + span) * MS > timeout * second * step
  <1> DEFINE d == raw - since
             f == phase * step
  <1>1. /\ d \in Nat /\ timeout \in Nat /\ gone \in Nat /\ phase \in Nat /\ phase <= span - 1
        /\ rate \in Nat \ {0} /\ MS \in Nat \ {0} /\ step \in Nat \ {0} /\ span \in Nat \ {0}
        /\ second \in Nat \ {0} /\ second * step = rate * span
    BY Constant DEF Inv, Parts, InTime
  <1>2. /\ gone * step <= d * span + f
        /\ d * span + f < (gone + span) * step
    BY DEF Inv, Timed
  <1>3. f \in Nat /\ f < span * step /\ span * step \in Nat
    <2>1. f \in Nat /\ (phase + 1) * step = f + step
      BY <1>1, OneMore
    <2>2. (phase + 1) * step <= span * step /\ span * step \in Nat
      BY <1>1, ProductsOrdered
    <2> QED BY <1>1, <2>1, <2>2
  <1> HIDE DEF d, f
  <1>4. (gone - span) * step < d * span
    <2>1. (gone - span) * step = gone * step - span * step /\ gone * step \in Nat /\ d * span \in Nat
      BY <1>1, SMT
    <2> QED BY <1>2, <1>3, <2>1
  <1>5. d * span < (gone + span) * step
    <2>1. d * span \in Nat /\ (gone + span) * step \in Nat
      BY <1>1, SMT
    <2> QED BY <1>2, <1>3, <2>1
  <1>6. ASSUME d * MS < timeout * rate PROVE (gone - span) * MS < timeout * second
    <2>1. (timeout * rate) * span = (timeout * second) * step
      BY <1>1, SMT
    <2>2. (d * MS) * span < (timeout * rate) * span
      BY <1>1, <1>6, Stretched
    <2>3. ((gone - span) * step) * MS < (d * span) * MS
      BY <1>1, <1>4, Stretched
    <2>4. ((gone - span) * MS) * step < (timeout * second) * step
      <3>1. ((gone - span) * MS) * step = ((gone - span) * step) * MS
        BY <1>1, SMT
      <3>2. (d * MS) * span = (d * span) * MS
        BY <1>1, SMT
      <3> QED BY <1>1, <2>1, <2>2, <2>3, <3>1, <3>2, Transitive
    <2> QED BY <1>1, <2>4, Stretched
  <1>7. ASSUME d * MS > (timeout - 1) * rate PROVE (gone + span) * MS > (timeout - 1) * second
    <2>1. ((timeout - 1) * rate) * span = ((timeout - 1) * second) * step
      BY <1>1, SMT
    <2>2. ((timeout - 1) * rate) * span < (d * MS) * span
      BY <1>1, <1>7, Stretched
    <2>3. (d * span) * MS < ((gone + span) * step) * MS
      BY <1>1, <1>5, Stretched
    <2>4. ((timeout - 1) * second) * step < ((gone + span) * MS) * step
      <3>1. ((gone + span) * MS) * step = ((gone + span) * step) * MS
        BY <1>1, SMT
      <3>2. (d * MS) * span = (d * span) * MS
        BY <1>1, SMT
      <3> QED BY <1>1, <2>1, <2>2, <2>3, <3>1, <3>2, Transitive
    <2> QED BY <1>1, <2>4, Stretched
  <1>8. ASSUME (d + 1) * MS > timeout * rate
        PROVE  ((gone + span) * step + span) * MS > timeout * second * step
    <2>1. (timeout * rate) * span = timeout * second * step
      BY <1>1, SMT
    <2>2. (timeout * rate) * span < ((d + 1) * MS) * span
      BY <1>1, <1>8, Stretched
    <2>3. (d + 1) * span < (gone + span) * step + span
      <3>1. (d + 1) * span = d * span + span /\ d * span \in Nat /\ (gone + span) * step \in Nat
        BY <1>1, SMT
      <3> QED BY <1>1, <1>5, <3>1
    <2>4. ((d + 1) * span) * MS < ((gone + span) * step + span) * MS
      BY <1>1, <2>3, Stretched
    <2>5. ((d + 1) * MS) * span = ((d + 1) * span) * MS
      BY <1>1, SMT
    <2> QED BY <1>1, <2>1, <2>2, <2>4, <2>5, Transitive
  <1> QED BY <1>6, <1>7, <1>8 DEF d

(***************************************************************************)
(* The deadline waits of every serial transport: for any word, any rate up *)
(* to a unit a millisecond, any step of the counter and any timeouts, a    *)
(* wait that is begun while the target's arithmetic holds ends when its    *)
(* time is up, by real time and but for the tick it began in.              *)
(***************************************************************************)
THEOREM WaitsEndInTime ==
  ASSUME Lasts
  PROVE  Spec => []NeverLate
  <1>1. Inv => NeverLate
    BY RealTime DEF Inv, Waiting, NeverLate
  <1> QED BY <1>1, AlwaysInv, PTL

(***************************************************************************)
(* And not before, wherever between two ticks of the counter it begins: by *)
(* real time a wait loses no more than that tick and a millisecond, and    *)
(* plat_sleep_ms no more than that tick and a unit of the counter.         *)
(***************************************************************************)
THEOREM WaitsLastLongEnough ==
  ASSUME Lasts
  PROVE  Spec => NeverEarly
  <1>1. ASSUME Inv, [Next]_vars, mode # "idle", mode' = "idle", ~ looked
        PROVE  /\ mode = "wait" => (raw - since) * MS > (timeout - 1) * rate
               /\ mode = "sleep" => (raw - since + 1) * MS > timeout * rate
    <2>1. /\ raw \in Nat /\ since \in 0 .. raw /\ timeout \in Nat /\ target \in Targets
          /\ rate \in Nat \ {0} /\ MS \in Nat \ {0} /\ WORD \in Nat \ {0} /\ raw < WORD
      BY <1>1, Constant, Reads DEF Inv, Parts, InTime
    <2>2. CASE LookAtClock
      <3>1. plat_ticks_ms >= deadline /\ mode = "wait"
        BY <1>1, <2>2 DEF LookAtClock, GoOn
      <3>2. /\ plat_ticks_ms = Stamp(raw, From) /\ From \in 0 .. since
            /\ deadline = Stamp(since, From) + timeout
        BY <1>1, <2>1, <3>1, Reads DEF Inv, Waiting, Parts, From
      <3> QED BY <2>1, <3>1, <3>2, StampsApart
    <2>3. CASE Wake
      <3> DEFINE w == timeout * rate
                 q == w \div MS
      <3>1. raw - since \in Nat /\ (raw - since) % WORD = raw - since
        <4>1. raw - since \in Nat /\ raw - since < WORD
          BY <2>1
        <4> QED BY <2>1, <4>1, NoWrap
      <3>2. mode = "sleep" /\ raw - since >= q
        BY <1>1, <2>3, <3>1 DEF Wake, GoOn, Inv, Sleeping
      <3>3. w \in Nat
        BY <2>1, SMT
      <3> HIDE DEF w
      <3>4. q \in Nat /\ w < q * MS + MS
        BY <2>1, <3>3, Below
      <3> HIDE DEF q
      <3>5. (q + 1) * MS <= (raw - since + 1) * MS
        BY <2>1, <3>1, <3>2, <3>4, ProductsOrdered
      <3>6. (q + 1) * MS = q * MS + MS /\ q * MS \in Nat /\ (raw - since + 1) * MS \in Nat
        BY <2>1, <3>1, <3>4, SMT
      <3>7. (raw - since + 1) * MS > w
        BY <2>1, <3>3, <3>4, <3>5, <3>6
      <3> QED BY <3>2, <3>7 DEF w
    <2>4. CASE Answered
      BY <1>1, <2>4 DEF Answered
    <2>5. CASE Moment \/ Tick
      BY <1>1, <2>5 DEF Moment, Tick, TimeGoesBy
    <2>6. CASE \E t \in Timeouts : StartWait(t) \/ StartSleep(t)
      BY <1>1, <2>6 DEF StartWait, StartSleep
    <2>7. CASE UNCHANGED vars
      BY <1>1, <2>7 DEF vars
    <2> QED BY <1>1, <2>2, <2>3, <2>4, <2>5, <2>6, <2>7 DEF Next
  <1>2. Inv /\ [Next]_vars =>
          [ mode # "idle" /\ mode' = "idle" /\ ~ looked =>
              /\ mode = "wait" => (gone + span) * MS > (timeout - 1) * second
              /\ mode = "sleep" =>
                   ((gone + span) * step + span) * MS > timeout * second * step ]_vars
    BY <1>1, RealTime
  <1> QED BY <1>2, AlwaysInv, PTL DEF Spec, NeverEarly

(* What the clock says is the time since its origin.                       *)
Exact == plat_ticks_ms = Stamp(raw, From) /\ Stamp(raw, From) \in Nat

(***************************************************************************)
(* timer_atari.c's "stops being monotonic" does not come true before the   *)
(* arithmetic ends: no tick, and no call, makes the clock run backwards.   *)
(***************************************************************************)
THEOREM ClockGoesOn ==
  ASSUME Lasts
  PROVE  Spec => Monotonic
  <1>1. ASSUME Inv, Exact, Exact', Next
        PROVE  plat_ticks_ms <= plat_ticks_ms'
    <2>1. /\ From \in 0 .. raw /\ raw \in Nat /\ target \in Targets
          /\ Base = IF target \in Relative THEN From ELSE -1
      BY <1>1, Reads DEF Inv, Parts
    <2>2. plat_ticks_ms = Stamp(raw, From) /\ Stamp(raw, From) \in Nat
      BY <1>1 DEF Exact
    <2>3. plat_ticks_ms' = Stamp(raw, From)' /\ Stamp(raw, From)' \in Nat
      BY <1>1 DEF Exact
    <2>4. CASE Tick
      <3>1. /\ raw' = raw + step /\ base' = base /\ target' = target /\ rate' = rate
            /\ step \in Nat
        BY <2>1, <2>4, Constant DEF Tick, TimeGoesBy, rate
      <3>2. CASE target \in Relative /\ base = -1
        <4>1. Stamp(raw, From) = 0 \div rate
          BY <2>1, <3>2, Constant DEF From, Stamp, Origin
        <4>2. 0 \div rate = 0
          BY <2>1, Constant, SMT
        <4> QED BY <2>1, <2>2, <2>3, <4>1, <4>2
      <3>3. CASE ~ (target \in Relative /\ base = -1)
        <4>1. From' = From
          BY <3>1, <3>3 DEF From
        <4>2. Stamp(raw, From)' = Stamp(raw + step, From)
          BY <3>1, <4>1 DEF Stamp, Origin
        <4>3. Stamp(raw, From) <= Stamp(raw + step, From)
          <5>1. raw + step \in Nat /\ raw \in 0 .. raw + step
            BY <2>1, <3>1
          <5> QED BY <2>1, <5>1, StampsApart
        <4> QED BY <2>2, <2>3, <4>2, <4>3
      <3> QED BY <3>2, <3>3
    <2>5. CASE ~ Tick
      <3>1. raw' = raw /\ target' = target /\ rate' = rate /\ base' \in {base, Base}
        BY <1>1, <2>5 DEF Next, Moment, TimeGoesBy, StartWait, StartSleep, LookAtClock, Answered, Wake, rate
      <3>2. From' = From
        BY <2>1, <3>1 DEF From, Inv, Parts
      <3>3. Stamp(raw, From)' = Stamp(raw, From)
        BY <3>1, <3>2 DEF Stamp, Origin
      <3> QED BY <2>2, <2>3, <3>3
    <2> QED BY <2>4, <2>5
  <1>2. Inv /\ Exact /\ Exact' /\ [Next]_vars => [plat_ticks_ms <= plat_ticks_ms']_vars
    BY <1>1
  <1>3. Inv => Exact
    BY Reads DEF Inv, Exact
  <1> QED BY <1>2, <1>3, AlwaysInv, PTL DEF Spec, Monotonic
==============================================================================
