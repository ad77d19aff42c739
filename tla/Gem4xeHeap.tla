------------------------------ MODULE Gem4xeHeap -----------------------------
(***************************************************************************)
(* The heap of backends/atari/mem_gem4xe.c: first-fit inside arenas taken  *)
(* from a Malloc that never takes anything back.                           *)
(*                                                                         *)
(* The block list is kept in address order, so it is written here as a     *)
(* function from header addresses to blocks; "b->next" is the least header *)
(* above b.  The walks of the C code appear in closed form (a merge stops  *)
(* at the next USED header).  HeapList keeps the pointers and the loops,   *)
(* and is checked to implement this module.                                *)
(*                                                                         *)
(* Sizes are those of requests whose rounding does not wrap a u32; the     *)
(* wrapping ones are looked at in HeapList.                                *)
(***************************************************************************)
EXTENDS Integers, FiniteSetsExt

CONSTANTS
  ALIGN,        (* every size is a multiple of this (4 in the code)        *)
  HDR,          (* sizeof(blk), 12 in the code                             *)
  ARENA_BYTES,  (* what arena_new asks Malloc for, unless more is needed   *)
  Requests,     (* byte counts the engine asks for                         *)
  HeapAddrs,    (* addresses GEMDOS's Malloc may return                    *)
  HeapTop,      (* end of the memory Malloc hands out                      *)
  CounterWidth  (* the counters are u32; they wrap at this                 *)

ASSUME HeapAssumption ==
  /\ ALIGN \in Nat \ {0}
  /\ HDR \in Nat \ {0} /\ HDR % ALIGN = 0   \* blk.pad is there for this
  /\ ARENA_BYTES \in Nat
  /\ Requests \subseteq Nat
  /\ HeapAddrs \subseteq Nat \ {0}
  /\ HeapTop \in Nat
  /\ CounterWidth \in Nat \ {0}

VARIABLES
  block,        (* [header address -> [size, used]]: g_head's chain        *)
  arenas,       (* [lo, hi] ranges obtained from Malloc so far             *)
  live,         (* [payload pointer the engine holds -> bytes requested]   *)
  allocs,       (* g_alloc_count                                           *)
  frees         (* g_free_count                                            *)

vars == <<block, arenas, live, allocs, frees>>

NULL == 0

(* A whole heap: the chain and the arenas it lives in.                     *)
Heap(blk, ar) == [blk |-> blk, arenas |-> ar]

RoundUp(n) == LET m == n + (ALIGN - 1) IN m - (m % ALIGN)

(* mem_alloc turns a request for nothing into a request for one byte.      *)
Want(n) == RoundUp(IF n = 0 THEN 1 ELSE n)

End(blk, b) == b + HDR + blk[b].size
Sentinel(blk, b) == blk[b].used /\ blk[b].size = 0
UsedAbove(blk, b) == {u \in DOMAIN blk : u > b /\ blk[u].used}
NextUsed(blk, b) == Min(UsedAbove(blk, b))

(* A variant of Release that adds up the sizes but leaves the swallowed    *)
(* headers in the list.                                                    *)
ReleaseKeepsHeaders(blk, b) ==
  [blk EXCEPT ![b] = [size |-> NextUsed(blk, b) - b - HDR, used |-> FALSE]]

(***************************************************************************)
(* mem_free: block b becomes free and swallows every free block up to the  *)
(* next used one.                                                          *)
(***************************************************************************)
Release(blk, b) ==
  LET top == NextUsed(blk, b) IN
  [h \in {x \in DOMAIN blk : x <= b \/ x >= top} |->
     IF h = b THEN [size |-> top - b - HDR, used |-> FALSE] ELSE blk[h]]

(***************************************************************************)
(* coalesce_all: a free block with a free block below it and no used block *)
(* between is swallowed; the lowest of such a run takes all of it.         *)
(***************************************************************************)
Swallowed(blk, h) ==
  /\ ~ blk[h].used
  /\ \E p \in DOMAIN blk :
       /\ p < h /\ ~ blk[p].used
       /\ \A u \in UsedAbove(blk, p) : u > h

Coalesced(blk) ==
  [h \in {x \in DOMAIN blk : ~ Swallowed(blk, x)} |->
     IF blk[h].used THEN blk[h]
     ELSE [size |-> NextUsed(blk, h) - h - HDR, used |-> FALSE]]

(* A variant of Fits that forgets to look at `used`.                       *)
FitsUsedToo(blk, want) == {b \in DOMAIN blk : blk[b].size >= want}

(* first_fit: the lowest free block that can hold `want` bytes.            *)
Fits(blk, want) == {b \in DOMAIN blk : ~ blk[b].used /\ blk[b].size >= want}
FirstFit(blk, want) == Min(Fits(blk, want))

(* Variants of Carve: a leftover of a bare header is split off too; the    *)
(* tail is cut off but the block is never marked used.                     *)
CarveBareHeader(blk, b, want) ==
  IF blk[b].size < want + HDR
  THEN [blk EXCEPT ![b] = [@ EXCEPT !.used = TRUE]]
  ELSE [h \in DOMAIN blk \cup {b + HDR + want} |->
          CASE h = b -> [size |-> want, used |-> TRUE]
            [] h = b + HDR + want ->
                 [size |-> blk[b].size - want - HDR, used |-> FALSE]
            [] OTHER -> blk[h]]
CarveUnmarked(blk, b, want) ==
  LET marked == CarveBareHeader(blk, b, want)
  IN [marked EXCEPT ![b] = [@ EXCEPT !.used = FALSE]]
(***************************************************************************)
(* split, then b->used = 1: the tail of b goes back as a block of its own  *)
(* when what is left over can carry a header and a payload.                *)
(***************************************************************************)
Carve(blk, b, want) ==
  LET rest == b + HDR + want
      keep == [blk EXCEPT ![b] = [size |-> want, used |-> TRUE]]
  IN IF blk[b].size < want + HDR + ALIGN
     THEN [blk EXCEPT ![b] = [size |-> blk[b].size, used |-> TRUE]]
     ELSE [h \in DOMAIN blk \cup {rest} |->
             IF h = rest
             THEN [size |-> blk[b].size - want - HDR, used |-> FALSE]
             ELSE keep[h]]

ArenaBytes(want) ==
  LET min == RoundUp(want) + HDR + HDR
  IN IF min > ARENA_BYTES THEN RoundUp(min) ELSE ARENA_BYTES

(* Malloc: a bump allocator, so every arena lies above the earlier ones.   *)
MallocAt(ar, bytes) ==
  {at \in HeapAddrs : at + bytes <= HeapTop /\ \A a \in ar : a.hi <= at}

(* arena_new: one free block and the used, empty sentinel above it.        *)
Grown(blk, at, bytes) ==
  LET end == at + bytes - HDR IN
  [h \in DOMAIN blk \cup {at, end} |->
     CASE h = end -> [size |-> 0, used |-> TRUE]
       [] h = at  -> [size |-> bytes - HDR - HDR, used |-> FALSE]
       [] OTHER   -> blk[h]]

(***************************************************************************)
(* Every way mem_alloc(want) can end: the heap it leaves and the header of *)
(* the block it took, NULL when it fails.  Only the last set depends on    *)
(* what Malloc does; a failure keeps the coalescing done on the way.       *)
(***************************************************************************)
Taken(blk, ar, want) ==
  LET b == FirstFit(blk, want)
  IN [heap |-> Heap(Carve(blk, b, want), ar), at |-> b]

AllocOutcomes(want) ==
  LET tidy  == Coalesced(block)
      bytes == ArenaBytes(want)
  IN CASE Fits(block, want) # {} -> {Taken(block, arenas, want)}
       [] Fits(block, want) = {} /\ Fits(tidy, want) # {} ->
            {Taken(tidy, arenas, want)}
       [] OTHER ->
            {[heap |-> Heap(tidy, arenas), at |-> NULL]}
              \cup {Taken(Grown(tidy, at, bytes),
                          arenas \cup {[lo |-> at, hi |-> at + bytes]}, want)
                    : at \in MallocAt(arenas, bytes)}

(* A variant of Bump whose counter does not wrap.                          *)
BumpOver(count, by) == count + by
Bump(count, by) == (count + by) % CounterWidth

------------------------------------------------------------------------------

Init ==
  /\ block = [h \in {} |-> [size |-> 0, used |-> FALSE]]
  /\ arenas = {}
  /\ live = [p \in {} |-> 0]
  /\ allocs = 0
  /\ frees = 0

Hold(p, n, held) ==
  [q \in DOMAIN held \cup {p} |-> IF q = p THEN n ELSE held[q]]
Drop(p, held) == [q \in DOMAIN held \ {p} |-> held[q]]

SetHeap(h) == block' = h.blk /\ arenas' = h.arenas

mem_alloc(n) ==
  \E out \in AllocOutcomes(Want(n)) :
    /\ SetHeap(out.heap)
    /\ IF out.at = NULL
       THEN UNCHANGED <<live, allocs>>
       ELSE /\ live' = Hold(out.at + HDR, n, live)
            /\ allocs' = Bump(allocs, 1)
    /\ UNCHANGED frees

mem_free(p) ==
  /\ block' = Release(block, p - HDR)
  /\ live' = Drop(p, live)
  /\ frees' = Bump(frees, 1)
  /\ UNCHANGED <<arenas, allocs>>

(* mem_realloc of a held pointer to 0 bytes is mem_free.                   *)
ReallocToNothing(p) == mem_free(p)

(* A variant of ReallocInPlace that never asks whether the block is big    *)
(* enough, and one of ReallocByMoving that frees without counting.         *)
ReallocOverNeighbour(p, n) ==
  /\ n # 0
  /\ live' = Hold(p, n, live)
  /\ UNCHANGED <<block, arenas, allocs, frees>>
ReallocUncounted(p, n) ==
  /\ n # 0
  /\ block[p - HDR].size < RoundUp(n)
  /\ \E out \in AllocOutcomes(Want(n)) :
       /\ out.at # NULL
       /\ SetHeap(Heap(Release(out.heap.blk, p - HDR), out.heap.arenas))
       /\ live' = Hold(out.at + HDR, n, Drop(p, live))
       /\ allocs' = Bump(allocs, 1)
  /\ UNCHANGED frees

(* The block is already big enough: same address, nothing else happens.    *)
ReallocInPlace(p, n) ==
  /\ n # 0
  /\ block[p - HDR].size >= RoundUp(n)
  /\ live' = Hold(p, n, live)
  /\ UNCHANGED <<block, arenas, allocs, frees>>

(* Allocate, copy, free the old block; on failure the old block is kept.   *)
ReallocByMoving(p, n) ==
  /\ n # 0
  /\ block[p - HDR].size < RoundUp(n)
  /\ \E out \in AllocOutcomes(Want(n)) :
       IF out.at = NULL
       THEN SetHeap(out.heap) /\ UNCHANGED <<live, allocs, frees>>
       ELSE /\ SetHeap(Heap(Release(out.heap.blk, p - HDR), out.heap.arenas))
            /\ live' = Hold(out.at + HDR, n, Drop(p, live))
            /\ allocs' = Bump(allocs, 1)
            /\ frees' = Bump(frees, 1)

mem_atari_reset_counters ==
  /\ allocs' = 0 /\ frees' = 0
  /\ UNCHANGED <<block, arenas, live>>

(***************************************************************************)
(* mem_free(NULL) does nothing and mem_realloc(NULL, 0, n) is              *)
(* mem_alloc(n), so neither needs a disjunct.                              *)
(***************************************************************************)
Next ==
  \/ \E n \in Requests : mem_alloc(n)
  \/ \E p \in DOMAIN live : mem_free(p) \/ ReallocToNothing(p)
  \/ \E p \in DOMAIN live, n \in Requests :
       ReallocInPlace(p, n) \/ ReallocByMoving(p, n)
  \/ mem_atari_reset_counters

Spec == Init /\ [][Next]_vars

mem_atari_live_count == (allocs - frees) % CounterWidth

------------------------------------------------------------------------------
(***************************************************************************)
(* The parts of the heap's invariant, over a chain and its arenas so that  *)
(* they can be said of the heaps inside an operation too.                  *)
(***************************************************************************)
Typed(blk, ar) ==
  /\ DOMAIN blk \subseteq Nat \ {0}
  /\ \A b \in DOMAIN blk : blk[b] \in [size : Nat, used : BOOLEAN]
  /\ ar \subseteq [lo : Nat \ {0}, hi : 0 .. HeapTop]

(* A block ends at or below the next header, inside one arena.             *)
Ordered(blk) == \A b, h \in DOMAIN blk : b < h => End(blk, b) <= h
InArena(blk, ar) ==
  \A b \in DOMAIN blk : \E a \in ar : a.lo <= b /\ End(blk, b) <= a.hi

(* Every arena ends in its sentinel, and nothing else is used and empty.   *)
Fenced(blk, ar) ==
  /\ \A a \in ar : /\ a.hi - HDR \in DOMAIN blk
                    /\ Sentinel(blk, a.hi - HDR)
  /\ \A b \in DOMAIN blk : blk[b].size = 0 => blk[b].used

(* No byte is lost: below a sentinel, the next header is where a block     *)
(* ends.                                                                   *)
Contiguous(blk) ==
  \A b \in DOMAIN blk : Sentinel(blk, b) \/ End(blk, b) \in DOMAIN blk

WellFormed(blk, ar) ==
  /\ Typed(blk, ar)
  /\ Ordered(blk)
  /\ InArena(blk, ar)
  /\ Fenced(blk, ar)
  /\ Contiguous(blk)

(* Every variable has its type.                                            *)
TypeOK ==
  /\ Typed(block, arenas)
  /\ DOMAIN live \subseteq Nat \ {0}
  /\ \A p \in DOMAIN live : live[p] \in Nat
  /\ allocs \in 0 .. CounterWidth - 1
  /\ frees \in 0 .. CounterWidth - 1

(***************************************************************************)
(* Blocks and headers tile every arena from its base to its sentinel: none *)
(* overlap, none straddles the join of two arenas (the sentinel's job, the *)
(* comment at the head of mem_gem4xe.c), and no byte falls out of the list *)
(* through a split or a merge.                                             *)
(***************************************************************************)
ArenasTiled == WellFormed(block, arenas)

(***************************************************************************)
(* What the engine holds and what the list marks used are the same blocks, *)
(* each with room for what was asked: nothing the engine holds can be      *)
(* handed out again, and nothing stays used once it was freed.             *)
(***************************************************************************)
LiveBlocksUsed ==
  /\ DOMAIN live =
       {b + HDR : b \in {h \in DOMAIN block : /\ block[h].used
                                             /\ block[h].size # 0}}
  /\ \A p \in DOMAIN live : live[p] <= block[p - HDR].size

(***************************************************************************)
(* The memory seam's promise: every operation is one of Allocator's.       *)
(***************************************************************************)
Promise == INSTANCE Allocator WITH Pointers <- 1 .. HeapTop
ImplementsAllocator == Promise!Spec

(***************************************************************************)
(* Two allocations the engine holds share no byte, through any history of  *)
(* splits, merges and reallocations.                                       *)
(***************************************************************************)
LiveDisjoint == Promise!Disjoint

(***************************************************************************)
(* Comment above split: what is left over "could itself carry a payload".  *)
(* Every free block can hold at least ALIGN bytes, and every payload the   *)
(* engine is given is aligned when Malloc's addresses are.                 *)
(***************************************************************************)
NoScraps ==
  /\ \A b \in DOMAIN block : ~ block[b].used => block[b].size >= ALIGN
  /\ (\A a \in arenas : a.lo % ALIGN = 0) =>
       \A p \in DOMAIN live : p % ALIGN = 0

(***************************************************************************)
(* Between resets mem_atari_live_count moves exactly as the number of      *)
(* allocations the engine holds does, also when a reallocation moves a     *)
(* block or an allocation fails: the leak check of the tests relies on it. *)
(***************************************************************************)
LiveCountTracks ==
  [][ \/ allocs' = 0 /\ frees' = 0
      \/ (mem_atari_live_count' - mem_atari_live_count) % CounterWidth =
           (Cardinality(DOMAIN live') - Cardinality(DOMAIN live))
             % CounterWidth
    ]_vars
==============================================================================
