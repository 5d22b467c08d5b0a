----------------------------- MODULE BlockPool ------------------------------
(***************************************************************************)
(* The pool of sim_buffer.c that hands out pieces of pages and frees all   *)
(* of them at once.  Sizes are size_t: they wrap at SizeLimit.             *)
(***************************************************************************)
EXTENDS Integers, FiniteSets

CONSTANTS PoolPage,     \* NF_PAGE_SIZE
          Align,        \* 8
          Bucket,       \* 512, the entries the list of pages grows by
          SizeLimit,    \* 2^64
          Requests,     \* sizes callers ask for
          MaxCallsBP    \* bound: calls

ASSUME BlockPoolAssumption ==
    /\ PoolPage \in Nat \ {0} /\ Align \in Nat \ {0} /\ Bucket \in Nat \ {0}
    /\ SizeLimit \in Nat \ {0} /\ PoolPage % Align = 0 /\ SizeLimit % Align = 0
    /\ Requests \subseteq 0..(SizeLimit - 1)

VARIABLES slot, bucket,  \* pages in the list, and entries it has
          poff, ptr,     \* off, and the page in use, 0 if ptr is NULL
          setUp,         \* history: was init_block_pool called?
          live,          \* history: the pieces a pool set up handed out
          bpcalls

bpvars == <<slot, bucket, poff, ptr, setUp, live, bpcalls>>

Request == bpcalls < MaxCallsBP /\ bpcalls' = bpcalls + 1

\* NF_POOL_INITIALIZER
BPInit ==
    /\ slot = 0 /\ bucket = 0 /\ poff = 0 /\ ptr = 0
    /\ setUp = FALSE /\ live = {} /\ bpcalls = 0

\* The list is grown before the page is allocated, either can fail, and the
\* list grown stays grown.
GrownBucket == (IF bucket = 0 THEN Bucket ELSE bucket) + (IF slot = bucket THEN Bucket ELSE 0)
NoList == bucket' = bucket /\ UNCHANGED <<slot, ptr>>
NoPoolPage == bucket' = GrownBucket /\ UNCHANGED <<slot, ptr>>
ListedPage == bucket' = GrownBucket /\ slot' = slot + 1 /\ ptr' = slot + 1

init_block_pool ==
    /\ Request /\ slot = 0
    /\ \/ ListedPage /\ poff' = 0
       \/ (NoList \/ NoPoolPage) /\ poff' = PoolPage
    /\ setUp' = TRUE /\ UNCHANGED live

\* Nothing is done to a pool without pages.
destroy_block_pool ==
    /\ Request
    /\ IF slot = 0 THEN UNCHANGED <<slot, bucket, poff, ptr, live>>
       ELSE /\ slot' = 0 /\ bucket' = 0 /\ poff' = PoolPage /\ ptr' = 0
            /\ live' = {}
    /\ UNCHANGED setUp

Aligned(count) == (((count + Align - 1) % SizeLimit) \div Align) * Align

Mutant_Handed(count, off) ==
    /\ poff' = off + count
    /\ live' = IF count = 0 \/ ~ setUp THEN live
               ELSE live \cup {[page |-> ptr', first |-> off, len |-> count]}

\* len bytes from off on; the caller got ptr + off
Handed(count, off) ==
    /\ poff' = off + Aligned(count)
    /\ live' = IF count = 0 \/ ~ setUp THEN live
               ELSE live \cup {[page |-> ptr', first |-> off, len |-> count]}

Refused == UNCHANGED <<poff, live>>

block_pool_alloc(count) ==
    /\ Request /\ UNCHANGED setUp
    /\ IF Aligned(count) > PoolPage
       THEN Refused /\ UNCHANGED <<slot, bucket, ptr>>
       ELSE IF Aligned(count) > PoolPage - poff
       THEN \/ ListedPage /\ Handed(count, 0)
            \/ (NoList \/ NoPoolPage) /\ Refused
       ELSE UNCHANGED <<slot, bucket, ptr>> /\ Handed(count, poff)

BPNext ==
    \/ init_block_pool \/ destroy_block_pool
    \/ \E count \in Requests : block_pool_alloc(count)

BPSpec == BPInit /\ [][BPNext]_bpvars

------------------------------------------------------------------------------
(* Property *)

Apart(p, q) == p.page # q.page \/ p.first + p.len <= q.first \/ q.first + q.len <= p.first

\* block_pool_alloc (sim_buffer.c:540): whatever fails on the way, pieces that
\* callers of a pool that was set up hold never overlap, start at a multiple
\* of the alignment, and lie within a page of the list, which has an entry for
\* every page.  Left out are sizes so near to the end of size_t that aligning
\* them gives 0.
PiecesApart ==
    /\ slot <= bucket
    /\ LET pieces == {p \in live : p.len + Align - 1 < SizeLimit}
       IN  /\ \A p, q \in pieces : p = q \/ Apart(p, q)
           /\ \A p \in pieces : /\ p.page \in 1..slot
                                /\ p.first % Align = 0
                                /\ p.first + p.len <= PoolPage

=============================================================================
