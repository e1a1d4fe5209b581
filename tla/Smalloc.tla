------------------------------ MODULE Smalloc -------------------------------
(***************************************************************************)
(* The shared memory allocator (smalloc.c): pools of blocks with a bitmap, *)
(* smalloc and sfree by several threads.  Memory is counted in blocks; the *)
(* header and the red zones are part of the blocks of an allocation.       *)
(***************************************************************************)
EXTENDS Integers, FiniteSets, FiniteSetsExt

CONSTANTS Threads,
          SMALLOC_BPI,  \* blocks in a word of the bitmap
          INITIAL_SIZE, \* words in the bitmap of a pool, at least
          MAX_POOLS,
          Sizes,        \* the requests, in blocks
          MaxLive       \* bound: allocations that live at the same time

VARIABLES mp,           \* the pools
          nr_pools, last_pool,
          lock,         \* the writer of the global lock, or None
          live,         \* what has been handed out and not been freed
          call          \* of every thread, the smalloc it is in

vars == <<mp, nr_pools, last_pool, lock, live, call>>

None == 0
Idle == [pc |-> "idle"]

Blocks(pool) == 0 .. pool.nr_blocks * SMALLOC_BPI - 1
Run(first, n) == first .. first + n - 1
Word(pool, i) == pool.bitmap \cap Run(i * SMALLOC_BPI, SMALLOC_BPI)
Full(pool, i) == Cardinality(Word(pool, i)) = SMALLOC_BPI

\* A pool of enough words for a request of n blocks.
add_pool(n) ==
    LET words == Max({INITIAL_SIZE, (n + SMALLOC_BPI - 1) \div SMALLOC_BPI})
    IN [nr_blocks |-> words, free_blocks |-> words * SMALLOC_BPI,
        next_non_full |-> 0, bitmap |-> {}]

Unmapped == [nr_blocks |-> 0, free_blocks |-> 0, next_non_full |-> 0, bitmap |-> {}]

----------------------------------------------------------------------------
(* The search in one pool *)

\* What ffz answers when there is no zero: the bsf of x86 leaves its target
\* register as it was.
FfzOfNone == {-1, 0}

\* find_next_zero: word is signed, so ones are shifted in at the top of a word
\* whose last block is taken.
find_next_zero(pool, i, start) ==
    LET zeros == {k \in start .. SMALLOC_BPI - 1 : i * SMALLOC_BPI + k \notin pool.bitmap}
    IN IF zeros # {} THEN {Min(zeros)} ELSE {start + r : r \in FfzOfNone}

\* blocks_free: over as many words as it takes, all inside the pool.
blocks_free(pool, i, idx, n) ==
    LET run == Run(i * SMALLOC_BPI + idx, n)
    IN run \subseteq Blocks(pool) /\ run \cap pool.bitmap = {}

\* Where the search goes on when there is no room at idx.
SkipBlocks(c, idx) ==
    LET next == idx + c.n
    IN IF next < SMALLOC_BPI
       THEN [c EXCEPT !.last_idx = next]
       ELSE [c EXCEPT !.last_idx = 0, !.i = @ + next \div SMALLOC_BPI]

\* pool_lock: smalloc is searching this pool.
Searched(p) == \E t \in Threads : call[t].pc = "search" /\ call[t].pool = p

----------------------------------------------------------------------------
(* smalloc, under the global write lock *)

Smalloc(t) ==
    /\ call[t] = Idle /\ lock = None /\ Cardinality(live) < MaxLive
    /\ \E n \in Sizes :
         call' = [call EXCEPT ![t] = [pc |-> "pools", n |-> n, pool |-> last_pool]]
    /\ lock' = t
    /\ UNCHANGED <<mp, nr_pools, last_pool, live>>

\* __smalloc_pool up to the loop, or no pool is left: from the last pool that
\* had room to the end, and then a new pool.
NextPool(t) ==
    LET c == call[t] IN
    /\ call[t].pc = "pools"
    /\ IF c.pool < nr_pools
       THEN /\ call' = [call EXCEPT ![t] =
                 IF c.n > mp[c.pool].free_blocks
                 THEN [c EXCEPT !.pool = @ + 1]
                 ELSE [pc |-> "search", n |-> c.n, pool |-> c.pool,
                       i |-> mp[c.pool].next_non_full, last_idx |-> 0]]
            /\ UNCHANGED <<mp, nr_pools, last_pool, lock>>
       ELSE IF last_pool # 0
       THEN last_pool' = 0 /\ UNCHANGED <<mp, nr_pools, lock, call>>
       ELSE IF nr_pools + 1 > MAX_POOLS
       THEN /\ lock' = None /\ call' = [call EXCEPT ![t] = Idle]
            /\ UNCHANGED <<mp, nr_pools, last_pool>>
       ELSE \/ /\ mp' = [mp EXCEPT ![nr_pools] = add_pool(c.n)]
               /\ nr_pools' = nr_pools + 1
               /\ UNCHANGED <<last_pool, lock, call>>
            \/ /\ lock' = None /\ call' = [call EXCEPT ![t] = Idle]
               /\ UNCHANGED <<mp, nr_pools, last_pool>>
    /\ UNCHANGED live

\* One turn of the loop of __smalloc_pool, or its end.
Search(t) ==
    LET c == call[t]
        pool == mp[c.pool]
    IN /\ call[t].pc = "search"
       /\ IF c.i >= pool.nr_blocks
          THEN /\ call' = [call EXCEPT ![t] = [pc |-> "pools", n |-> c.n, pool |-> c.pool + 1]]
               /\ UNCHANGED <<mp, last_pool, lock, live>>
          ELSE IF Full(pool, c.i)
          THEN /\ call' = [call EXCEPT ![t] = [c EXCEPT !.i = @ + 1, !.last_idx = 0]]
               /\ mp' = [mp EXCEPT ![c.pool].next_non_full = c.i + 1]
               /\ UNCHANGED <<last_pool, lock, live>>
          ELSE \E idx \in find_next_zero(pool, c.i, c.last_idx) :
               IF blocks_free(pool, c.i, idx, c.n)
               THEN LET first == c.i * SMALLOC_BPI + idx IN
                    /\ mp' = [mp EXCEPT ![c.pool].bitmap = @ \cup Run(first, c.n),
                                        ![c.pool].free_blocks = @ - c.n]
                    /\ live' = live \cup {[pool |-> c.pool, first |-> first, n |-> c.n]}
                    /\ last_pool' = c.pool
                    /\ lock' = None
                    /\ call' = [call EXCEPT ![t] = Idle]
               ELSE /\ call' = [call EXCEPT ![t] = SkipBlocks(c, idx)]
                    /\ UNCHANGED <<mp, last_pool, lock, live>>
       /\ UNCHANGED nr_pools

----------------------------------------------------------------------------
(* sfree: the pool is found under the global read lock, the blocks are freed
   under the lock of the pool. *)

Sfree(t, a) ==
    /\ call[t] = Idle /\ lock = None
    /\ \A u \in Threads : call[u] # [pc |-> "free", block |-> a]
    /\ call' = [call EXCEPT ![t] = [pc |-> "free", block |-> a]]
    /\ UNCHANGED <<mp, nr_pools, last_pool, lock, live>>

\* Mutant: next_non_full is never moved back.
FreedForgotten(pool, a) ==
    [pool EXCEPT !.bitmap = @ \ Run(a.first, a.n), !.free_blocks = @ + a.n]

Freed(pool, a) ==
    LET i == a.first \div SMALLOC_BPI
    IN [pool EXCEPT !.bitmap = @ \ Run(a.first, a.n),
                    !.next_non_full = IF i < @ THEN i ELSE @,
                    !.free_blocks = @ + a.n]

sfree_pool(t) ==
    LET a == call[t].block IN
    /\ call[t].pc = "free"
    /\ ~Searched(a.pool)
    /\ mp' = [mp EXCEPT ![a.pool] = Freed(@, a)]
    /\ live' = live \ {a}
    /\ call' = [call EXCEPT ![t] = Idle]
    /\ UNCHANGED <<nr_pools, last_pool, lock>>

----------------------------------------------------------------------------
\* sinit makes the first pool.
sinit ==
    /\ mp = [p \in 0 .. MAX_POOLS - 1 |-> IF p = 0 THEN add_pool(1) ELSE Unmapped]
    /\ nr_pools = 1 /\ last_pool = 0
    /\ lock = None
    /\ live = {}
    /\ call = [t \in Threads |-> Idle]

Next ==
    \E t \in Threads :
        \/ Smalloc(t) \/ NextPool(t) \/ Search(t) \/ sfree_pool(t)
        \/ \E a \in live : Sfree(t, a)

\* A thread that has called smalloc goes on: it has all the locks it needs.
Spec == sinit /\ [][Next]_vars
        /\ \A t \in Threads : WF_vars(NextPool(t) \/ Search(t))

----------------------------------------------------------------------------
(* Properties *)

\* Live allocations never share a block.
Disjoint ==
    \A a, b \in live : a.pool = b.pool /\ a # b
                       => Run(a.first, a.n) \cap Run(b.first, b.n) = {}

\* The bitmap of a pool marks exactly the blocks of its live allocations, all
\* inside the pool, as the assertions of mask_set and mask_clear expect: none
\* is lost by freeing in any order.
MarkedExactly ==
    \A p \in DOMAIN mp :
        /\ mp[p].bitmap = UNION {Run(a.first, a.n) : a \in {b \in live : b.pool = p}}
        /\ mp[p].bitmap \subseteq Blocks(mp[p])

\* free_blocks, by which a full pool is passed over, counts the clear bits.
FreeCounted ==
    \A p \in DOMAIN mp :
        mp[p].free_blocks = Cardinality(Blocks(mp[p]) \ mp[p].bitmap)

\* When all memory has been freed the search starts at the first word of every
\* pool again, if no request is larger than a word.  A larger one finds no room
\* in an empty word in front of a full one, and next_non_full moves past both.
WordSized == \A n \in Sizes : n <= SMALLOC_BPI
NothingForgotten ==
    WordSized /\ live = {} => \A p \in DOMAIN mp : mp[p].next_non_full = 0
=============================================================================
