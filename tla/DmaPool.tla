------------------------------ MODULE DmaPool ------------------------------
(***************************************************************************)
(* asic/bcm56846/bde_interface.c: the memory that packets and table writes *)
(* pass through on their way to the chip, a pool that the kernel module    *)
(* gives to edged and that edged hands out from the bottom up.             *)
(*                                                                         *)
(* The operators work on a record q:                                       *)
(*   size    dma_size, 0 where there is no pool (dma_map is NULL)          *)
(*   offset  dma_offset                                                    *)
(*   live    what the callers hold, a set of blocks [at, len, use]; the    *)
(*           code keeps no list of them                                    *)
(*                                                                         *)
(* A block is known by its offset in the pool, from which the code makes   *)
(* the virtual and the physical address; the high water mark is a figure   *)
(* for the log and is left out.                                            *)
(***************************************************************************)
EXTENDS Integers, FiniteSets

CONSTANTS
  CacheLine,  \* blocks are multiples of it, 64
  PoolSize    \* bytes of the kernel module's pool

ASSUME PoolAssumption == CacheLine \in Nat \ {0} /\ PoolSize \in Nat

Aligned(n) == ((n + CacheLine - 1) \div CacheLine) * CacheLine

Block(at, n, use) == [at |-> at, len |-> n, use |-> use]
BlockEnd(b) == b.at + Aligned(b.len)

\* dma_offset is static; bde_open finds a pool, or none.
PoolOpen(size) == [size |-> size, offset |-> 0, live |-> {}]
NoPool == PoolOpen(0)

Top(q, n, use) == Block(q.offset, n, use)

\* _bde_dma_alloc: there is a pool, and room in it.
HasRoom(q, n) == q.size > 0 /\ q.offset + Aligned(n) <= q.size

Alloc(q, n, use) ==
  [q EXCEPT !.offset = @ + Aligned(n), !.live = @ \cup {Top(q, n, use)}]

\* Mutant of Free: nothing is reclaimed, as it once was.
FreeNothing(q, b) == [q EXCEPT !.live = @ \ {b}]

\* Mutant of Free: the pool is rolled back to any block that is freed.
FreeBelow(q, b) == [q EXCEPT !.live = @ \ {b}, !.offset = b.at]

\* _bde_dma_free: only the topmost block is reclaimed.
Free(q, b) ==
  [q EXCEPT !.live = @ \ {b}, !.offset = IF BlockEnd(b) = @ THEN b.at ELSE @]

\* bde_dma_pool_reset: what callers hold they go on holding.
PoolReset(q) == [q EXCEPT !.offset = 0]
-----------------------------------------------------------------------------
Apart(b, c) == BlockEnd(b) <= c.at \/ BlockEnd(c) <= b.at

\* What callers hold lies inside the pool and below the offset, and no two of
\* them hold the same memory.
PoolOK(q) ==
  /\ q.offset <= q.size
  /\ \A b \in q.live : BlockEnd(b) <= q.offset
  /\ \A b, c \in q.live : b # c => Apart(b, c)
=============================================================================
