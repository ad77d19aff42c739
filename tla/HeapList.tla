------------------------------- MODULE HeapList ------------------------------
(***************************************************************************)
(* backends/atari/mem_gem4xe.c as it is written: blk headers linked by     *)
(* next pointers, walked by loops, sizes added up block by block, u32      *)
(* arithmetic that wraps at WORD.  On top of it, the clients whose data    *)
(* the heap carries: each fills what it is given and reads it back, so     *)
(* a merge, a split or a realloc that touches foreign bytes is seen.       *)
(*                                                                         *)
(* A loop is a function of the passes it has made.  Each pass gets further *)
(* up the memory or changes nothing any more, so that HeapTop of them are  *)
(* as many as any loop takes.                                              *)
(***************************************************************************)
EXTENDS Integers, FiniteSetsExt

CONSTANTS
  ALIGN, HDR, ARENA_BYTES,      (* as in Gem4xeHeap                        *)
  WORD,                         (* 2^32: u32 arithmetic wraps here         *)
  Requests, HeapAddrs, HeapTop, CounterWidth,
  Clients,                      (* each holds at most one allocation       *)
  None                          (* a client holding nothing; a byte nobody
                                   has stored anything in                  *)

(* Nobody's data is told from somebody's.                                  *)
ASSUME ListAssumption ==
  /\ ALIGN \in Nat \ {0}
  /\ HDR \in Nat \ {0} /\ HDR % ALIGN = 0
  /\ ARENA_BYTES \in Nat /\ WORD \in Nat \ {0}
  /\ Requests \subseteq Nat
  /\ HeapAddrs \subseteq Nat \ {0}
  /\ HeapTop \in Nat
  /\ CounterWidth \in Nat \ {0}
  /\ None \notin Clients /\ None \notin [ptr : Nat, req : Nat]

VARIABLES
  mem,            (* [header address -> [next, size, used]]                *)
  g_head, g_tail, (* first block; the last arena's sentinel                *)
  g_alloc_count, g_free_count,
  arenas,         (* what Malloc has handed out                            *)
  held,           (* [client -> [ptr, req] or None]                        *)
  byte            (* [address -> the client whose data is there, or None]  *)

vars == <<mem, g_head, g_tail, g_alloc_count, g_free_count, arenas, held, byte>>
heapVars == <<mem, g_head, g_tail, arenas>>

NULL == 0
U32(n) == n % WORD
round_up(n) == LET m == U32(n + (ALIGN - 1)) IN m - (m % ALIGN)

(* The part of the state the operations work on.                           *)
List(m, head, tail, ar) == [mem |-> m, head |-> head, tail |-> tail, ar |-> ar]
Now == List(mem, g_head, g_tail, arenas)

(* A variant of Swallow that forgets the swallowed header's own bytes.     *)
SwallowPayloadOnly(m, b) ==
  LET n == m[b].next IN
  [x \in DOMAIN m \ {n} |->
     IF x = b THEN [m[n] EXCEPT !.size = m[b].size + @, !.used = m[b].used]
     ELSE m[x]]

(* b takes its successor's header and payload; the header is no more.      *)
Swallow(m, b) ==
  LET n == m[b].next IN
  [x \in DOMAIN m \ {n} |->
     IF x = b THEN [next |-> m[n].next,
                    size |-> U32(m[b].size + HDR + m[n].size),
                    used |-> m[b].used]
     ELSE m[x]]

Passes == 0 .. HeapTop

(* A variant of CoalescePass that moves on after one merge.                *)
CoalescePairs(s) ==
  LET b == s.at
      once == Swallow(s.mem, b)
  IN IF b = NULL THEN s
     ELSE IF s.mem[b].next = NULL THEN s
     ELSE IF ~ s.mem[b].used /\ ~ s.mem[s.mem[b].next].used
          THEN [mem |-> once, at |-> once[b].next]
          ELSE [s EXCEPT !.at = s.mem[b].next]

CoalescePass(s) ==
  LET b == s.at
  IN IF b = NULL THEN s
     ELSE IF s.mem[b].next = NULL THEN s
     ELSE IF ~ s.mem[b].used /\ ~ s.mem[s.mem[b].next].used
          THEN [mem |-> Swallow(s.mem, b), at |-> b]
          ELSE [mem |-> s.mem, at |-> s.mem[b].next]

coalesce_all(l) ==
  LET after[n \in Passes] ==
        IF n = 0 THEN [mem |-> l.mem, at |-> l.head] ELSE CoalescePass(after[n - 1])
  IN [l EXCEPT !.mem = after[HeapTop].mem]

FitPass(m, want, b) ==
  IF b = NULL THEN NULL
  ELSE IF ~ m[b].used /\ m[b].size >= want THEN b
  ELSE m[b].next

first_fit(l, want) ==
  LET after[n \in Passes] ==
        IF n = 0 THEN l.head ELSE FitPass(l.mem, want, after[n - 1])
  IN after[HeapTop]

(* A variant of split that puts the leftover's header inside the payload.  *)
SplitInsidePayload(l, b, want) ==
  LET rest == b + want IN
  IF l.mem[b].size < want + HDR + ALIGN THEN l
  ELSE [l EXCEPT !.mem =
          [x \in DOMAIN l.mem \cup {rest} |->
             CASE x = rest -> [l.mem[b] EXCEPT !.size = @ - want - HDR]
               [] x = b -> [l.mem[b] EXCEPT !.size = want, !.next = rest]
               [] OTHER -> l.mem[x]]]

split(l, b, want) ==
  LET rest == b + HDR + want
      old  == l.mem[b]
  IN IF old.size < U32(want + HDR + ALIGN) THEN l
     ELSE [l EXCEPT !.mem =
             [x \in DOMAIN l.mem \cup {rest} |->
                CASE x = rest -> [next |-> old.next,
                                  size |-> old.size - want - HDR,
                                  used |-> FALSE]
                  [] x = b -> [old EXCEPT !.size = want, !.next = rest]
                  [] OTHER -> l.mem[x]]]

ArenaWant(need) ==
  LET min == U32(round_up(need) + HDR + HDR)
  IN IF min > ARENA_BYTES THEN round_up(min) ELSE ARENA_BYTES

MallocAt(ar, bytes) ==
  {at \in HeapAddrs : at + bytes <= HeapTop /\ \A a \in ar : a.hi <= at}

(* A variant of arena_new that never links the old tail to the new arena.  *)
ArenaUnlinked(l, first, want) ==
  LET end == first + want - HDR IN
  List([x \in DOMAIN l.mem \cup {first, end} |->
          CASE x = end   -> [next |-> NULL, size |-> 0, used |-> TRUE]
            [] x = first -> [next |-> end, size |-> want - HDR - HDR,
                             used |-> FALSE]
            [] OTHER     -> l.mem[x]],
       IF l.head = NULL THEN first ELSE l.head, end,
       l.ar \cup {[lo |-> first, hi |-> first + want]})

arena_new(l, first, want) ==
  LET end   == first + HDR + (want - HDR - HDR)
      fresh == [x \in {first, end} |->
                  IF x = end THEN [next |-> NULL, size |-> 0, used |-> TRUE]
                  ELSE [next |-> end, size |-> want - HDR - HDR,
                        used |-> FALSE]]
      linked == IF l.head = NULL THEN l.mem
                ELSE [l.mem EXCEPT ![l.tail] = [@ EXCEPT !.next = first]]
  IN List([x \in DOMAIN l.mem \cup {first, end} |->
             IF x \in {first, end} THEN fresh[x] ELSE linked[x]],
          IF l.head = NULL THEN first ELSE l.head,
          end,
          l.ar \cup {[lo |-> first, hi |-> first + want]})

(* split and b->used = 1.                                                  *)
Take(l, b, want) ==
  [list |-> [split(l, b, want) EXCEPT !.mem[b].used = TRUE], at |-> b]

(* Where first_fit's second and third search end in a block, or in NULL.   *)
TakeFit(l, want) ==
  LET b == first_fit(l, want)
  IN IF b = NULL THEN [list |-> l, at |-> NULL] ELSE Take(l, b, want)

AllocOutcomes(want) ==
  IF first_fit(Now, want) # NULL THEN {TakeFit(Now, want)}
  ELSE LET tidy == coalesce_all(Now)
           more == ArenaWant(want)
       IN IF first_fit(tidy, want) # NULL THEN {TakeFit(tidy, want)}
          ELSE {[list |-> tidy, at |-> NULL]}
                 \cup {TakeFit(arena_new(tidy, at, more), want)
                       : at \in MallocAt(arenas, more)}

FreePass(m, b) ==
  IF m[b].next # NULL /\ ~ m[m[b].next].used THEN Swallow(m, b) ELSE m

(* A variant of Freed that merges one neighbour only.                      *)
FreedOne(l, b) ==
  [l EXCEPT !.mem = FreePass([l.mem EXCEPT ![b] = [@ EXCEPT !.used = FALSE]], b)]

Freed(l, b) ==
  LET after[n \in Passes] ==
        IF n = 0 THEN [l.mem EXCEPT ![b] = [@ EXCEPT !.used = FALSE]]
        ELSE FreePass(after[n - 1], b)
  IN [l EXCEPT !.mem = after[HeapTop]]

SetList(l) ==
  /\ mem' = l.mem /\ g_head' = l.head /\ g_tail' = l.tail /\ arenas' = l.ar
(* A variant of Bump whose counter does not wrap.                          *)
BumpOver(n) == n + 1
Bump(n) == (n + 1) % CounterWidth

Least(a, b) == IF a <= b THEN a ELSE b
Bytes(p, n) == p .. p + n - 1

(***************************************************************************)
(* The bytes after a step that leaves list l: client c has stored its data *)
(* over `mine`, headers have been written over whatever was under them,    *)
(* and `gone` holds nothing anybody relies on.                             *)
(***************************************************************************)
Headers(l) == UNION {Bytes(b, HDR) : b \in DOMAIN l.mem}
Stored(l, c, mine, gone, old) ==
  [a \in DOMAIN old |->
     CASE a \in mine -> c
       [] a \notin mine /\ a \in gone \cup Headers(l) -> None
       [] OTHER -> old[a]]

------------------------------------------------------------------------------

Init ==
  /\ mem = [x \in {} |-> [next |-> NULL, size |-> 0, used |-> FALSE]]
  /\ g_head = NULL /\ g_tail = NULL
  /\ g_alloc_count = 0 /\ g_free_count = 0
  /\ arenas = {}
  /\ held = [c \in Clients |-> None]
  /\ byte = [a \in 1 .. HeapTop |-> None]

(* mem_alloc; the client then fills what it was given.                     *)
mem_alloc(c, n) ==
  /\ held[c] = None
  /\ \E out \in AllocOutcomes(round_up(IF n = 0 THEN 1 ELSE n)) :
       /\ SetList(out.list)
       /\ IF out.at = NULL
          THEN /\ byte' = Stored(out.list, c, {}, {}, byte)
               /\ UNCHANGED <<held, g_alloc_count>>
          ELSE /\ held' = [held EXCEPT ![c] = [ptr |-> out.at + HDR, req |-> n]]
               /\ byte' = Stored(out.list, c, Bytes(out.at + HDR, n), {}, byte)
               /\ g_alloc_count' = Bump(g_alloc_count)
  /\ UNCHANGED g_free_count

(* mem_free; what the client had stored is nobody's any more.              *)
mem_free(c) ==
  /\ held[c] # None
  /\ LET l == Freed(Now, held[c].ptr - HDR) IN
       /\ SetList(l)
       /\ byte' = Stored(l, c, {}, Bytes(held[c].ptr, held[c].req), byte)
  /\ held' = [held EXCEPT ![c] = None]
  /\ g_free_count' = Bump(g_free_count)
  /\ UNCHANGED g_alloc_count

(***************************************************************************)
(* mem_realloc(ptr, old, n), n > 0.  In place, the client keeps what fits  *)
(* and fills the rest.  By moving: `copy` bytes go from the old payload    *)
(* to the new one before the old block is freed, then the client fills     *)
(* what the call did not have to preserve.                                 *)
(***************************************************************************)
ReallocInPlace(c, n) ==
  /\ held[c] # None /\ n # 0
  /\ mem[held[c].ptr - HDR].size >= round_up(n)
  /\ LET p == held[c].ptr
         new == Bytes(p, n) \ Bytes(p, held[c].req)
     IN byte' = Stored(Now, c, new, Bytes(p, held[c].req) \ Bytes(p, n), byte)
  /\ held' = [held EXCEPT ![c].req = n]
  /\ UNCHANGED <<heapVars, g_alloc_count, g_free_count>>

CopyLength(old, new, room) == Least(Least(old, new), room)

ReallocByMoving(c, n) ==
  /\ held[c] # None /\ n # 0
  /\ mem[held[c].ptr - HDR].size < round_up(n)
  /\ \E out \in AllocOutcomes(round_up(n)) :
       IF out.at = NULL
       THEN /\ SetList(out.list)
            /\ byte' = Stored(out.list, c, {}, {}, byte)
            /\ UNCHANGED <<held, g_alloc_count, g_free_count>>
       ELSE LET p     == held[c].ptr
                old   == held[c].req
                q     == out.at + HDR
                copy  == CopyLength(old, n, mem[p - HDR].size)
                moved == [a \in DOMAIN byte |->
                            IF a \in Bytes(q, copy) THEN byte[a - q + p]
                            ELSE byte[a]]
                l     == Freed(out.list, p - HDR)
                new   == Bytes(q, n) \ Bytes(q, Least(old, n))
            IN /\ SetList(l)
               /\ byte' = Stored(l, c, new, Bytes(p, old), moved)
               /\ held' = [held EXCEPT ![c] = [ptr |-> q, req |-> n]]
               /\ g_alloc_count' = Bump(g_alloc_count)
               /\ g_free_count' = Bump(g_free_count)

mem_atari_reset_counters ==
  /\ g_alloc_count' = 0 /\ g_free_count' = 0
  /\ UNCHANGED <<heapVars, held, byte>>

Next ==
  \/ \E c \in Clients, n \in Requests :
       mem_alloc(c, n) \/ ReallocInPlace(c, n) \/ ReallocByMoving(c, n)
  \/ \E c \in Clients : mem_free(c)     (* and mem_realloc(ptr, old, 0)    *)
  \/ mem_atari_reset_counters

Spec == Init /\ [][Next]_vars

------------------------------------------------------------------------------
Holders == {c \in Clients : held[c] # None}

(***************************************************************************)
(* Every variable has its type.                                            *)
(***************************************************************************)
TypeOK ==
  /\ mem \in [DOMAIN mem ->
                [next : Nat, size : 0 .. WORD - 1, used : BOOLEAN]]
  /\ g_head \in Nat /\ g_tail \in Nat
  /\ {g_alloc_count, g_free_count} \subseteq 0 .. CounterWidth - 1
  /\ arenas \subseteq [lo : HeapAddrs, hi : 1 .. HeapTop]
  /\ \A c \in Holders : held[c] \in [ptr : 1 .. HeapTop, req : Nat]
  /\ byte \in [1 .. HeapTop -> Clients \cup {None}]

(***************************************************************************)
(* "Address order, 0 at the end of the chain" (the struct's comment): the  *)
(* list from g_head visits every header upwards and ends at g_tail, which  *)
(* is the sentinel of the newest arena.                                    *)
(***************************************************************************)
ChainInAddressOrder ==
  mem # [x \in {} |-> 0] =>
    /\ g_head = Min(DOMAIN mem)
    /\ g_tail = Max(DOMAIN mem)
    /\ mem[g_tail].used /\ mem[g_tail].size = 0
    /\ \A b \in DOMAIN mem :
         mem[b].next = IF b = g_tail THEN NULL
                       ELSE Min({x \in DOMAIN mem : x > b})

(***************************************************************************)
(* Whatever the others allocate, free and move, a client reads back what   *)
(* it stored - also through a realloc, for the bytes both sizes share -    *)
(* and no client's data lies where the list keeps a header.                *)
(***************************************************************************)
StorageIntact ==
  /\ \A c \in Holders : \A a \in Bytes(held[c].ptr, held[c].req) : byte[a] = c
  /\ \A a \in Headers(Now) : byte[a] = None

(***************************************************************************)
(* Forward merging in mem_free and coalesce_all together lose nothing:     *)
(* once nobody holds anything, a coalesced heap is each arena as Malloc    *)
(* gave it, one free block below one sentinel.                             *)
(***************************************************************************)
NothingLost ==
  Holders = {} =>
    LET tidy == coalesce_all(Now).mem IN
    /\ DOMAIN tidy = UNION {{a.lo, a.hi - HDR} : a \in arenas}
    /\ \A a \in arenas : tidy[a.lo].size = a.hi - a.lo - HDR - HDR

(***************************************************************************)
(* "When no arena can satisfy a request another is taken" (head of the     *)
(* file), and only then: Malloc's memory never comes back, so an arena     *)
(* taken while an old one had a long enough run of unused bytes is a leak. *)
(***************************************************************************)
InUse(a) == \E b \in DOMAIN mem :
  mem[b].used /\ a \in Bytes(b, HDR + mem[b].size)
RoomFor(want) ==
  \E r \in arenas : \E lo \in r.lo .. r.hi - HDR - want :
    \A a \in Bytes(lo, HDR + want) : ~ InUse(a)
ArenaOnlyWhenFull ==
  [][ arenas' # arenas =>
        \A c \in Clients : held'[c] # held[c] =>
          ~ RoomFor(round_up(IF held'[c].req = 0 THEN 1 ELSE held'[c].req))
    ]_vars

(***************************************************************************)
(* The list with its loops implements the heap whose invariants are        *)
(* proved: each walk does what its closed form says.                       *)
(***************************************************************************)
Closed == INSTANCE Gem4xeHeap WITH
  block  <- [b \in DOMAIN mem |-> [size |-> mem[b].size, used |-> mem[b].used]],
  live   <- [p \in {held[c].ptr : c \in Holders} |->
               held[CHOOSE c \in Holders : held[c].ptr = p].req],
  allocs <- g_alloc_count,
  frees  <- g_free_count
ImplementsHeap == Closed!Spec

(***************************************************************************)
(* arena_new's comment promises "a free block big enough for `need`": an   *)
(* arena is never taken from Malloc without serving the call it was taken  *)
(* for.                                                                    *)
(***************************************************************************)
ArenaServesRequest ==
  [][ arenas' # arenas => \E c \in Clients : held'[c] # held[c] ]_vars
==============================================================================
