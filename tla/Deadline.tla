------------------------------- MODULE Deadline ------------------------------
(***************************************************************************)
(* plat_ticks_ms and plat_sleep_ms over each target's tick counter, in u32 *)
(* arithmetic, and the wait every serial transport builds on them:         *)
(*                                                                         *)
(*     deadline = plat_ticks_ms() + timeout_ms;                            *)
(*     while (nothing yet) if (plat_ticks_ms() >= deadline) time out;      *)
(*                                                                         *)
(* AsyncSerial and PolledSerial take for granted that the deadline of such *)
(* a wait is reached; this module is about when that is so, and about how  *)
(* much real time goes by until then.  Real time goes by in moments; the   *)
(* counter stands still for some of them and then goes up, by one unit or, *)
(* as timer_dos.c says of its own, by many.  A call comes at any moment.   *)
(***************************************************************************)
EXTENDS Integers

CONSTANTS
  WORD,       (* 2^32                                                      *)
  MS,         (* milliseconds in a second: 1000                            *)
  Rate,       (* [target -> units of its counter the code takes a second   *)
              (* for]                                                      *)
  Step,       (* [target -> units its counter goes up by at a time]        *)
  Span,       (* [target -> moments from one such tick to the next]        *)
  Second,     (* [target -> moments in which the counter goes up by Rate]  *)
  Relative,   (* targets that count from the first call and multiply       *)
              (* before they divide: timer_amiga.c, timer_mac.c            *)
  Timeouts,   (* timeout_ms and ms arguments                               *)
  Uptime      (* bound: [target -> counter after which nothing starts]     *)

Targets == DOMAIN Rate

ASSUME DeadlineAssumption ==
  /\ WORD \in Nat \ {0} /\ MS \in Nat \ {0}
  /\ \A t \in Targets :
       /\ Rate[t] \in 1 .. MS /\ Rate[t] * MS < WORD
       /\ Step[t] \in Nat \ {0} /\ Span[t] \in Nat \ {0} /\ Second[t] \in Nat \ {0}
       /\ Second[t] * Step[t] = Rate[t] * Span[t]
  /\ Relative \subseteq Targets
  /\ Timeouts \subseteq Nat
  /\ \A t \in Targets : Uptime[t] \in Nat

VARIABLES
  target,     (* the timer that is linked in                               *)
  raw,        (* units counted since the machine, or the count, started    *)
  phase,      (* moments gone by since the counter went up                 *)
  base,       (* g_base_ticks; -1 while g_have_base is false               *)
  mode,       (* "idle", "wait" or "sleep"                                 *)
  since,      (* raw when the wait or the sleep began                      *)
  gone,       (* moments gone by since then                                *)
  timeout,    (* its argument                                              *)
  deadline,   (* u32 deadline of a wait; units to go by for a sleep        *)
  looked      (* the clock has been read since the counter went up         *)

vars == <<target, raw, phase, base, mode, since, gone, timeout, deadline, looked>>

rate == Rate[target]
step == Step[target]
span == Span[target]
second == Second[target]

(* c * 1000 / rate (Amiga, Mac)                                            *)
MultiplyFirst(c, r) == ((c * MS) % WORD) \div r

(* Variants of DivideFirst: the remainder is dropped; it is taken away.    *)
DivideOnly(c, r) == ((c \div r) * MS) % WORD
DivideSigned(c, r) == ((c \div r) * MS) - (((c % r) * MS) \div r)

(* c / CPS * 1000 + c % CPS * 1000 / CPS (Atari, gem4xe, DOS)              *)
DivideFirst(c, r) ==
  ((((c \div r) * MS) % WORD) + ((((c % r) * MS) % WORD) \div r)) % WORD

(* What plat_ticks_ms answers, given the base it counts from.              *)
TicksFrom(b) ==
  IF target \in Relative
  THEN MultiplyFirst((raw - b) % WORD, rate)
  ELSE DivideFirst(raw % WORD, rate)

(* Where there is a base, the first call fixes it.                         *)
Base == IF target \in Relative /\ base = -1 THEN raw % WORD ELSE base
plat_ticks_ms == TicksFrom(Base)

(* A variant of SleepTicks that rounds to whole seconds first.             *)
SleepSeconds(ms) == ((ms \div MS) * rate) % WORD

(* Units of the counter that plat_sleep_ms lets go by, or asks the system  *)
(* to: whole ticks of Delay (Amiga, Mac); milliseconds, which is what this *)
(* comes to at their rate, of evnt_timer, nanosleep and Sleep.             *)
SleepTicks(ms) ==
  IF target \in Relative
  THEN ((ms * rate) % WORD) \div MS
  ELSE ((((ms \div MS) * rate) % WORD)
          + ((((ms % MS) * rate) % WORD) \div MS)) % WORD

------------------------------------------------------------------------------

Init ==
  /\ target \in Targets
  /\ raw = 0 /\ phase = 0 /\ base = -1
  /\ mode = "idle" /\ since = 0 /\ gone = 0 /\ timeout = 0 /\ deadline = 0
  /\ looked = TRUE

TimeGoesBy ==
  /\ gone' = IF mode = "idle" THEN 0 ELSE gone + 1
  /\ UNCHANGED <<target, base, mode, since, timeout, deadline>>

(* A moment goes by in which the counter stands still.                     *)
Moment ==
  /\ phase + 1 < span
  /\ TimeGoesBy /\ phase' = phase + 1
  /\ UNCHANGED <<raw, looked>>

(* The counter goes up.  The loops go round at least once between two of   *)
(* its ticks.                                                              *)
Tick ==
  /\ phase + 1 = span
  /\ IF mode = "idle" THEN raw + step <= Uptime[target] ELSE looked
  /\ TimeGoesBy /\ phase' = 0
  /\ raw' = raw + step /\ looked' = FALSE

StartWait(t) ==
  /\ mode = "idle" /\ raw <= Uptime[target]
  /\ mode' = "wait" /\ timeout' = t /\ since' = raw /\ gone' = 0
  /\ base' = Base
  /\ deadline' = (plat_ticks_ms + t) % WORD
  /\ looked' = FALSE
  /\ UNCHANGED <<target, raw, phase>>

Return ==
  mode' = "idle" /\ since' = 0 /\ gone' = 0 /\ timeout' = 0 /\ deadline' = 0
GoOn == UNCHANGED <<mode, since, gone, timeout, deadline>>

(* The loop goes on, or times out.                                         *)
LookAtClock ==
  /\ mode = "wait" /\ ~ looked
  /\ IF plat_ticks_ms >= deadline THEN Return ELSE GoOn
  /\ looked' = TRUE
  /\ UNCHANGED <<target, raw, phase, base>>

(* A byte comes, or the request completes: the wait ends in time.          *)
Answered ==
  /\ mode = "wait" /\ looked
  /\ Return
  /\ UNCHANGED <<target, raw, phase, base, looked>>

(* plat_sleep_ms begins.                                                   *)
StartSleep(ms) ==
  /\ mode = "idle" /\ raw <= Uptime[target]
  /\ mode' = "sleep" /\ timeout' = ms /\ since' = raw /\ gone' = 0
  /\ deadline' = SleepTicks(ms)
  /\ looked' = FALSE
  /\ UNCHANGED <<target, raw, phase, base>>

(* The busy wait of Atari and DOS goes round, or is over.  The system's    *)
(* sleeps are taken to end where such a wait would: one that lasts longer  *)
(* is one after which nothing is called for a while.                       *)
Wake ==
  /\ mode = "sleep" /\ ~ looked
  /\ IF (raw - since) % WORD >= deadline THEN Return ELSE GoOn
  /\ looked' = TRUE
  /\ UNCHANGED <<target, raw, phase, base>>

Next ==
  \/ Moment \/ Tick
  \/ \E t \in Timeouts : StartWait(t) \/ StartSleep(t)
  \/ LookAtClock \/ Answered \/ Wake

Spec == Init /\ [][Next]_vars

------------------------------------------------------------------------------
(***************************************************************************)
(* How long the arithmetic holds, less the longest timeout and the tick it *)
(* may overshoot by.  A count that divides first lasts "until the          *)
(* millisecond count itself runs out of u32", forty-nine days              *)
(* (timer_atari.c); one that multiplies first until 1000 times the ticks   *)
(* do, which is twenty hours on the Mac and a day on the Amiga.            *)
(***************************************************************************)
Holds(t, r) ==
  \A ms \in Timeouts :
    IF t \in Relative THEN (r + Step[t] + 1) * MS + ms * Rate[t] < WORD
    ELSE (((r + Step[t]) * MS) \div Rate[t]) + ms < WORD

(***************************************************************************)
(* Every variable has its type; plat_ticks_ms answers a u32.               *)
(***************************************************************************)
TypeOK ==
  /\ target \in Targets
  /\ raw \in Nat /\ since \in 0 .. raw
  /\ phase \in 0 .. span - 1 /\ gone \in Nat
  /\ base \in -1 .. WORD - 1
  /\ mode \in {"idle", "wait", "sleep"}
  /\ timeout \in Timeouts \cup {0}
  /\ deadline \in 0 .. WORD - 1
  /\ looked \in BOOLEAN
  /\ plat_ticks_ms \in 0 .. WORD - 1

(***************************************************************************)
(* A wait ends when its time is up.  One that goes on although the clock   *)
(* has been looked at since the counter last went up has not lasted longer *)
(* than its timeout and the tick it may have begun at the end of.          *)
(***************************************************************************)
NeverLate ==
  mode = "wait" /\ looked => (gone - span) * MS < timeout * second

(***************************************************************************)
(* And not long before, in real time.  A wait lasts all of its timeout but *)
(* the tick that was under way when it began and the millisecond that      *)
(* plat_ticks_ms was into; plat_sleep_ms all of its ms but that tick and   *)
(* the unit of the counter that it rounds down by.  So on the Atari, where *)
(* a unit is a tick, a sleep may be two ticks short, and on DOS a wait or  *)
(* a sleep the 55 ms of a step and one more.  A second is the counter's    *)
(* own: the Mac's, of 60 ticks, is 60/60.15 of a real one.                 *)
(***************************************************************************)
NeverEarly ==
  [][ mode # "idle" /\ mode' = "idle" /\ ~ looked =>
        /\ mode = "wait" => (gone + span) * MS > (timeout - 1) * second
        /\ mode = "sleep" =>
             ((gone + span) * step + span) * MS > timeout * second * step
    ]_vars

(***************************************************************************)
(* plat_ticks_ms does not run backwards (timer_atari.c: without the order  *)
(* of the divisions it "stops being monotonic").                           *)
(***************************************************************************)
Monotonic == [][ plat_ticks_ms <= plat_ticks_ms' ]_vars
==============================================================================
