--------------------------- MODULE SmallocProofs ----------------------------
(***************************************************************************)
(* The memory of smalloc stays exact, for any number of threads, pools and *)
(* blocks and whatever sizes are asked for, and none is forgotten as long  *)
(* as requests are no larger than a word of the bitmap.                    *)
(***************************************************************************)
EXTENDS Smalloc, FiniteSetTheorems, WellFoundedInduction, TLAPS

\* The time a leaf may take.
USE SMTT(30), ZenonT(30)

\* What smalloc.c has as constants; a request is of at least one block.
SmallocConstants ==
    /\ SMALLOC_BPI \in Nat \ {0}
    /\ INITIAL_SIZE \in Nat \ {0}
    /\ MAX_POOLS \in Nat \ {0}
    /\ Sizes \subseteq Nat \ {0}

Pools == 0 .. MAX_POOLS - 1
Pool == [nr_blocks : Nat, free_blocks : Int, next_non_full : Nat, bitmap : SUBSET Int]
Allocation == [pool : Pools, first : Int, n : Nat \ {0}]

\* Of the allocations L one starts in the first word of pool p.
Anchored(p, L) == \E a \in L : a.pool = p /\ a.first < SMALLOC_BPI

\* What a thread's call says: smalloc goes through the nr pools that exist, a
\* search leaves the first blocks of its pool only for an allocation that is
\* there, and sfree is about something live.
AtPools(c, nr) == \E n \in Sizes, p \in 0 .. nr :
    c = [pc |-> "pools", n |-> n, pool |-> p]
AtSearch(c, nr, L) ==
    /\ c \in [pc : {"search"}, n : Sizes, pool : 0 .. nr - 1, i : Nat, last_idx : Nat]
    /\ WordSized /\ (c.i > 0 \/ c.last_idx > 0) => Anchored(c.pool, L)
AtFree(c, L) == \E a \in L : c = [pc |-> "free", block |-> a]
CallRight(c, nr, L) == c = Idle \/ AtPools(c, nr) \/ AtSearch(c, nr, L) \/ AtFree(c, L)

\* What pool m, the one of number p, says of the allocations L: a block is marked
\* exactly if it is one of theirs, the clear ones are counted, and next_non_full
\* moves only while the first word is in use.
PoolRight(m, p, L) ==
    /\ m \in Pool
    /\ \A b \in m.bitmap :
          b \in Blocks(m) /\ \E a \in L : a.pool = p /\ b \in Run(a.first, a.n)
    /\ \A a \in L : a.pool = p => Run(a.first, a.n) \subseteq m.bitmap
    /\ m.free_blocks = Cardinality(Blocks(m) \ m.bitmap)
    /\ WordSized /\ m.next_non_full > 0 => Anchored(p, L)

Types ==
    /\ DOMAIN mp = Pools /\ DOMAIN call = Threads
    /\ nr_pools \in 1 .. MAX_POOLS
    /\ last_pool \in 0 .. nr_pools - 1
    /\ live \in SUBSET Allocation

\* Allocations are in pools that exist.
InPools == \A a \in live : a.pool < nr_pools

\* No allocation is freed by two threads.
FreedOnce ==
    \A t, u \in Threads : call[t].pc = "free" /\ call[t] = call[u] => t = u

IInv == /\ Types /\ InPools /\ FreedOnce /\ Disjoint
        /\ \A t \in Threads : CallRight(call[t], nr_pools, live)
        /\ \A p \in Pools : PoolRight(mp[p], p, live)

-----------------------------------------------------------------------------
(* Numbers and sets of blocks.                                             *)

LEMMA Quotient ==
    ASSUME NEW a \in Nat, NEW b \in Nat \ {0}
    PROVE  /\ a \div b \in Nat
           /\ a < b => a \div b = 0
OBVIOUS

\* The blocks of a run.
LEMMA RunSize ==
    ASSUME NEW first \in Int, NEW n \in Nat
    PROVE  IsFiniteSet(Run(first, n)) /\ Cardinality(Run(first, n)) = n
<1>1. first + n - 1 \in Int
    OBVIOUS
<1>2. IsFiniteSet(first .. first + n - 1)
      /\ Cardinality(first .. first + n - 1) = IF first > first + n - 1 THEN 0 ELSE first + n - 1 - first + 1
    BY <1>1, FS_Interval
<1> QED
    BY <1>2 DEF Run

\* The blocks of a pool.
LEMMA BlocksFinite ==
    ASSUME SmallocConstants, NEW pool, pool.nr_blocks \in Nat
    PROVE  /\ IsFiniteSet(Blocks(pool))
           /\ Cardinality(Blocks(pool)) = pool.nr_blocks * SMALLOC_BPI
<1>1. pool.nr_blocks * SMALLOC_BPI \in Nat
    BY DEF SmallocConstants
<1> DEFINE m == pool.nr_blocks * SMALLOC_BPI
<1>2. m \in Nat
    BY <1>1
<1> HIDE DEF m
<1> DEFINE last == m - 1
<1>3. IsFiniteSet(0 .. m - 1) /\ Cardinality(0 .. m - 1) = m
    <2>1. 0 \in Int /\ last \in Int /\ (IF 0 > last THEN 0 ELSE last - 0 + 1) = m
        BY <1>2
    <2> HIDE DEF last
    <2>2. IsFiniteSet(0 .. last) /\ Cardinality(0 .. last) = IF 0 > last THEN 0 ELSE last - 0 + 1
        BY <2>1, FS_Interval
    <2> QED
        BY <2>1, <2>2 DEF last
<1> QED
    BY <1>3 DEF m, Blocks

\* Taking a run R away from the blocks C leaves as many fewer.
LEMMA RunTaken ==
    ASSUME NEW C, IsFiniteSet(C), NEW R \in SUBSET C, NEW D, D = C \ R
    PROVE  /\ Cardinality(D) = Cardinality(C) - Cardinality(R)
           /\ Cardinality(C) = Cardinality(D) + Cardinality(R)
<1>1. C \cap R = R
    OBVIOUS
<1>2. Cardinality(D) = Cardinality(C) - Cardinality(R)
    BY <1>1, FS_Difference
<1>3. Cardinality(C) \in Nat /\ Cardinality(R) \in Nat
    BY FS_Subset, FS_CardinalityType
<1> QED
    BY <1>2, <1>3

-----------------------------------------------------------------------------
(* What one call does to a pool.                                           *)

\* A pool that nobody has allocated from.
LEMMA PoolAdded ==
    ASSUME SmallocConstants, NEW n \in Nat, NEW p, NEW L,
           \A a \in L : a.pool # p
    PROVE  PoolRight(add_pool(n), p, L) /\ PoolRight(Unmapped, p, L)
<1> DEFINE k == (n + SMALLOC_BPI - 1) \div SMALLOC_BPI
           words == Max({INITIAL_SIZE, k})
<1>1. k \in Nat /\ INITIAL_SIZE \in Nat
    <2>1. n + SMALLOC_BPI - 1 \in Nat /\ SMALLOC_BPI \in Nat \ {0}
        BY DEF SmallocConstants
    <2>2. k \in Nat
        BY <2>1, Quotient
    <2> QED
        BY <2>2 DEF SmallocConstants
<1> HIDE DEF k
<1>2. words \in Nat
    <2>1. \E x \in {INITIAL_SIZE, k} : \A y \in {INITIAL_SIZE, k} : x >= y
        BY <1>1
    <2> QED
        BY <1>1, <2>1 DEF Max
<1>3. words * SMALLOC_BPI \in Nat
    BY <1>2 DEF SmallocConstants
<1> HIDE DEF words
<1>4. add_pool(n) = [nr_blocks |-> words, free_blocks |-> words * SMALLOC_BPI,
                     next_non_full |-> 0, bitmap |-> {}]
    BY DEF add_pool, words, k
<1>5. ASSUME NEW w \in Nat, NEW m,
             m = [nr_blocks |-> w, free_blocks |-> w * SMALLOC_BPI,
                  next_non_full |-> 0, bitmap |-> {}]
      PROVE  PoolRight(m, p, L)
    <2>1. m.nr_blocks = w /\ m.free_blocks = w * SMALLOC_BPI /\ m.next_non_full = 0
          /\ m.bitmap = {}
        BY <1>5
    <2>2. Cardinality(Blocks(m)) = w * SMALLOC_BPI
        BY <1>5, <2>1, BlocksFinite
    <2>3. w * SMALLOC_BPI \in Int
        BY DEF SmallocConstants
    <2>4. m \in Pool
        BY <1>5, <2>3 DEF Pool
    <2>5. Blocks(m) \ m.bitmap = Blocks(m)
        BY <2>1
    <2> QED
        BY <2>1, <2>2, <2>4, <2>5 DEF PoolRight
<1>6. 0 * SMALLOC_BPI = 0
    BY DEF SmallocConstants
<1> QED
    BY <1>2, <1>4, <1>5, <1>6 DEF Unmapped

\* An allocation in another pool.
LEMMA PoolOther ==
    ASSUME NEW m, NEW p, NEW L, PoolRight(m, p, L), NEW a, a.pool # p
    PROVE  PoolRight(m, p, L \cup {a}) /\ PoolRight(m, p, L \ {a})
<1>1. Anchored(p, L) => Anchored(p, L \cup {a}) /\ Anchored(p, L \ {a})
    BY DEF Anchored
<1> QED
    BY <1>1 DEF PoolRight

\* set_blocks marks a run that was clear.
LEMMA PoolMarked ==
    ASSUME SmallocConstants, NEW m, NEW p, NEW L, PoolRight(m, p, L),
           NEW first \in Int, NEW n \in Nat \ {0},
           Run(first, n) \subseteq Blocks(m), Run(first, n) \cap m.bitmap = {}
    PROVE  PoolRight([m EXCEPT !.bitmap = @ \cup Run(first, n), !.free_blocks = @ - n],
                     p, L \cup {[pool |-> p, first |-> first, n |-> n]})
<1> DEFINE R == Run(first, n)
           a == [pool |-> p, first |-> first, n |-> n]
           q == [m EXCEPT !.bitmap = @ \cup R, !.free_blocks = @ - n]
<1>1. m \in Pool
    BY DEF PoolRight
<1>2. R \subseteq Int
    BY DEF Run
<1>3. /\ q.nr_blocks = m.nr_blocks /\ q.next_non_full = m.next_non_full
      /\ q.bitmap = m.bitmap \cup R /\ q.free_blocks = m.free_blocks - n
      /\ q \in Pool
    <2> DEFINE M == m.bitmap \cup R
               f == m.free_blocks - n
    <2>1. m.nr_blocks \in Nat /\ f \in Int /\ m.next_non_full \in Nat
        BY <1>1 DEF Pool
    <2>2. M \in SUBSET Int
        BY <1>1, <1>2 DEF Pool
    <2>3. q = [m EXCEPT !.bitmap = M, !.free_blocks = f]
        OBVIOUS
    <2> HIDE DEF q, R, M, f
    <2>4. /\ q.nr_blocks = m.nr_blocks /\ q.next_non_full = m.next_non_full
          /\ q.bitmap = M /\ q.free_blocks = f
          /\ q \in Pool
        BY <1>1, <2>1, <2>2, <2>3 DEF Pool
    <2> QED
        BY <2>4 DEF M, f
<1>4. Blocks(q) = Blocks(m)
    BY <1>3 DEF Blocks
<1>5. a.pool = p /\ a.first = first /\ a.n = n /\ a \in L \cup {a}
    OBVIOUS
<1>6. q.free_blocks = Cardinality(Blocks(q) \ q.bitmap)
    <2>1. IsFiniteSet(Blocks(m))
        BY <1>1, BlocksFinite DEF Pool
    <2>2. IsFiniteSet(R) /\ Cardinality(R) = n
        BY RunSize
    <2> DEFINE C == Blocks(m) \ m.bitmap
               D == Blocks(q) \ q.bitmap
    <2>3. IsFiniteSet(C) /\ R \in SUBSET C /\ D = C \ R
        BY <1>3, <1>4, <2>1, FS_Difference
    <2>4. m.free_blocks = Cardinality(C)
        BY DEF PoolRight
    <2> HIDE DEF R, C, D, q
    <2>5. Cardinality(D) = Cardinality(C) - Cardinality(R)
        BY <2>3, RunTaken
    <2>6. q.free_blocks = Cardinality(D)
        BY <1>3, <2>2, <2>4, <2>5
    <2> QED
        BY <2>6 DEF D
<1>7. Anchored(p, L) => Anchored(p, L \cup {a})
    BY DEF Anchored
<1> HIDE DEF R, a, q
<1>8. \A b \in q.bitmap : /\ b \in Blocks(q)
                          /\ \E x \in L \cup {a} : x.pool = p /\ b \in Run(x.first, x.n)
    <2>1. ASSUME NEW b \in R
          PROVE  b \in Blocks(q) /\ \E x \in L \cup {a} : x.pool = p /\ b \in Run(x.first, x.n)
        BY <1>4, <1>5 DEF R
    <2>2. ASSUME NEW b \in m.bitmap
          PROVE  b \in Blocks(q) /\ \E x \in L \cup {a} : x.pool = p /\ b \in Run(x.first, x.n)
        BY <1>4 DEF PoolRight
    <2> QED
        BY <1>3, <2>1, <2>2
<1>9. \A x \in L \cup {a} : x.pool = p => Run(x.first, x.n) \subseteq q.bitmap
    <2>1. Run(a.first, a.n) = R
        BY <1>5 DEF R
    <2> QED
        BY <1>3, <2>1 DEF PoolRight
<1>10. PoolRight(q, p, L \cup {a})
    BY <1>3, <1>6, <1>7, <1>8, <1>9 DEF PoolRight
<1> QED
    BY <1>10 DEF R, a, q

\* clear_blocks clears the run of one of several allocations that share nothing.
LEMMA PoolFreed ==
    ASSUME SmallocConstants, NEW m, NEW p, NEW L, L \subseteq Allocation, PoolRight(m, p, L),
           NEW a \in L, a.pool = p,
           \A x \in L : x.pool = p /\ x # a => Run(x.first, x.n) \cap Run(a.first, a.n) = {}
    PROVE  PoolRight(Freed(m, a), p, L \ {a})
<1> DEFINE R == Run(a.first, a.n)
           q == Freed(m, a)
           i == a.first \div SMALLOC_BPI
<1>1. m \in Pool /\ a \in Allocation /\ SMALLOC_BPI \in Nat \ {0}
    BY DEF PoolRight, SmallocConstants
<1>2. R \subseteq m.bitmap /\ R \subseteq Blocks(m)
    BY DEF PoolRight
<1>3. a.first \in Nat
    <2>1. a.first \in R
        BY <1>1 DEF Allocation, Run
    <2> QED
        BY <1>1, <1>2, <2>1 DEF Blocks
<1>4. i \in Nat /\ (a.first < SMALLOC_BPI => i = 0)
    BY <1>1, <1>3, Quotient
<1> HIDE DEF i
<1>5. q = [m EXCEPT !.bitmap = @ \ R, !.next_non_full = IF i < @ THEN i ELSE @,
                    !.free_blocks = @ + a.n]
    BY DEF Freed, i
<1>6. /\ q.nr_blocks = m.nr_blocks
      /\ q.next_non_full = IF i < m.next_non_full THEN i ELSE m.next_non_full
      /\ q.bitmap = m.bitmap \ R /\ q.free_blocks = m.free_blocks + a.n
      /\ q \in Pool
    <2>1. q = [nr_blocks |-> m.nr_blocks, free_blocks |-> m.free_blocks + a.n,
               next_non_full |-> IF i < m.next_non_full THEN i ELSE m.next_non_full,
               bitmap |-> m.bitmap \ R]
        BY <1>1, <1>5 DEF Pool
    <2>2. m.nr_blocks \in Nat /\ m.free_blocks + a.n \in Int /\ m.next_non_full \in Nat
        BY <1>1 DEF Pool, Allocation
    <2>3. m.bitmap \ R \in SUBSET Int
        BY <1>1 DEF Pool
    <2> HIDE DEF q, R
    <2> QED
        BY <1>4, <2>1, <2>2, <2>3 DEF Pool
<1> HIDE DEF q
<1>7. Blocks(q) = Blocks(m)
    BY <1>6 DEF Blocks
<1>8. q.free_blocks = Cardinality(Blocks(q) \ q.bitmap)
    <2>1. IsFiniteSet(Blocks(m))
        BY <1>1, BlocksFinite DEF Pool
    <2>2. IsFiniteSet(R) /\ Cardinality(R) = a.n
        BY <1>1, RunSize DEF Allocation
    <2> DEFINE C == Blocks(m) \ m.bitmap
               D == Blocks(q) \ q.bitmap
    <2>3. IsFiniteSet(D) /\ R \in SUBSET D /\ C = D \ R
        BY <1>2, <1>6, <1>7, <2>1, FS_Difference
    <2>4. m.free_blocks = Cardinality(C)
        BY DEF PoolRight
    <2> HIDE DEF R, C, D
    <2>5. Cardinality(D) = Cardinality(C) + Cardinality(R)
        BY <2>3, RunTaken
    <2>6. q.free_blocks = Cardinality(D)
        BY <1>6, <2>2, <2>4, <2>5
    <2> QED
        BY <2>6 DEF D
<1>9. WordSized /\ q.next_non_full > 0 => Anchored(p, L \ {a})
    <2> SUFFICES ASSUME WordSized, q.next_non_full > 0
                 PROVE  Anchored(p, L \ {a})
        OBVIOUS
    <2>1. m.next_non_full > 0 /\ i > 0
        BY <1>1, <1>4, <1>6 DEF Pool
    <2>2. ~(a.first < SMALLOC_BPI)
        BY <1>4, <2>1
    <2> QED
        BY <2>1, <2>2 DEF PoolRight, Anchored
<1>10. \A b \in q.bitmap : /\ b \in Blocks(q)
                           /\ \E x \in L \ {a} : x.pool = p /\ b \in Run(x.first, x.n)
    BY <1>6, <1>7 DEF PoolRight
<1>11. \A x \in L \ {a} : x.pool = p => Run(x.first, x.n) \subseteq q.bitmap
    BY <1>6 DEF PoolRight
<1>12. PoolRight(q, p, L \ {a})
    BY <1>6, <1>8, <1>9, <1>10, <1>11 DEF PoolRight
<1> QED
    BY <1>12 DEF q

\* A search finds word i full.
LEMMA PoolPassed ==
    ASSUME NEW m, NEW p, NEW L, PoolRight(m, p, L), NEW i \in Nat, WordSized => Anchored(p, L)
    PROVE  PoolRight([m EXCEPT !.next_non_full = i + 1], p, L)
<1> DEFINE q == [m EXCEPT !.next_non_full = i + 1]
<1>1. m \in Pool
    BY DEF PoolRight
<1>2. /\ q.nr_blocks = m.nr_blocks /\ q.bitmap = m.bitmap /\ q.free_blocks = m.free_blocks
      /\ q \in Pool
    BY <1>1 DEF Pool
<1>3. Blocks(q) = Blocks(m)
    BY <1>2 DEF Blocks
<1> HIDE DEF q
<1>4. PoolRight(q, p, L)
    BY <1>2, <1>3 DEF PoolRight
<1> QED
    BY <1>4 DEF q

-----------------------------------------------------------------------------
(* The search.                                                             *)

LEMMA SmallestFound ==
    ASSUME NEW S \in SUBSET Nat, S # {}
    PROVE  Min(S) \in S /\ \A y \in S : Min(S) <= y
<1> DEFINE R == {ss \in Nat \X Nat : ss[1] < ss[2]}
<1>1. IsWellFoundedOn(R, Nat)
    BY NatLessThanWellFounded DEF OpToRel
<1>2. \A x, y \in Nat : y < x => <<y, x>> \in R
    OBVIOUS
<1> HIDE DEF R
<1>3. PICK x \in S : \A y \in S : ~(<<y, x>> \in R)
    BY <1>1, WFMin
<1>4. ASSUME NEW y \in S, ~(x <= y)
      PROVE  FALSE
    <2>1. x \in Nat /\ y \in Nat /\ y < x
        BY <1>4
    <2>2. <<y, x>> \in R
        BY <1>2, <2>1, ZenonT(30)
    <2> QED
        BY <1>3, <2>2
<1> QED
    BY <1>4 DEF Min

\* A marked block of the first word is of an allocation that starts there.
LEMMA FirstWord ==
    ASSUME SmallocConstants, NEW m, NEW p, NEW L, L \subseteq Allocation, PoolRight(m, p, L),
           NEW b \in m.bitmap, b < SMALLOC_BPI
    PROVE  Anchored(p, L)
<1>1. PICK a \in L : a.pool = p /\ b \in Run(a.first, a.n)
    BY DEF PoolRight
<1>2. a \in Allocation /\ b \in Int
    BY DEF PoolRight, Pool
<1>3. a.first <= b
    BY <1>1, <1>2 DEF Allocation, Run
<1>4. a.first < SMALLOC_BPI
    BY <1>2, <1>3 DEF Allocation, SmallocConstants
<1> QED
    BY <1>1, <1>4 DEF Anchored

\* The first word is full.
LEMMA FullAnchored ==
    ASSUME SmallocConstants, NEW m, NEW p, NEW L, L \subseteq Allocation, PoolRight(m, p, L),
           Full(m, 0)
    PROVE  Anchored(p, L)
<1>1. SMALLOC_BPI \in Nat \ {0} /\ 0 * SMALLOC_BPI = 0
    BY DEF SmallocConstants
<1>2. Word(m, 0) # {}
    BY <1>1, FS_EmptySet DEF Full
<1>3. PICK b \in m.bitmap : b \in Run(0, SMALLOC_BPI)
    BY <1>1, <1>2 DEF Word
<1>4. b < SMALLOC_BPI
    BY <1>1, <1>3 DEF Run
<1> QED
    BY <1>3, <1>4, FirstWord

\* Where find_next_zero may point in a word that is not full.
LEMMA ZeroFound ==
    ASSUME SmallocConstants, NEW m, NEW i \in Nat, NEW l \in Nat,
           NEW idx \in find_next_zero(m, i, l)
    PROVE  idx \in Int /\ idx >= -1
<1> DEFINE Z == {k \in l .. SMALLOC_BPI - 1 : i * SMALLOC_BPI + k \notin m.bitmap}
<1>1. Z \in SUBSET Nat
    BY DEF SmallocConstants
<1>2. idx \in IF Z # {} THEN {Min(Z)} ELSE {l + r : r \in FfzOfNone}
    BY DEF find_next_zero
<1> HIDE DEF Z
<1>3. CASE Z # {}
    <2>1. Min(Z) \in Z
        BY <1>1, <1>3, SmallestFound
    <2>2. idx = Min(Z)
        BY <1>2, <1>3
    <2>3. idx \in Nat
        BY <1>1, <2>1, <2>2, ZenonT(30)
    <2> QED
        BY <2>3
<1>4. CASE Z = {}
    BY <1>2, <1>4 DEF FfzOfNone
<1> QED
    BY <1>3, <1>4

\* If a request of up to a word finds no room in the first word, something there
\* is in its way.
LEMMA FirstTaken ==
    ASSUME SmallocConstants, NEW m, NEW p, NEW L, L \subseteq Allocation, PoolRight(m, p, L),
           m.nr_blocks > 0, ~Full(m, 0), NEW idx \in find_next_zero(m, 0, 0),
           NEW n \in Sizes, n <= SMALLOC_BPI, ~blocks_free(m, 0, idx, n)
    PROVE  Anchored(p, L)
<1> DEFINE Z == {k \in 0 .. SMALLOC_BPI - 1 : k \notin m.bitmap}
<1>1. /\ SMALLOC_BPI \in Nat \ {0} /\ 0 * SMALLOC_BPI = 0 /\ n \in Nat \ {0}
      /\ m \in Pool /\ m.nr_blocks \in Nat
    BY DEF SmallocConstants, PoolRight, Pool
<1>2. CASE Z = {}
    <2>1. 0 \in m.bitmap
        BY <1>1, <1>2
    <2>2. 0 < SMALLOC_BPI
        BY <1>1
    <2> QED
        BY <2>1, <2>2, FirstWord
<1>3. CASE Z # {}
    <2>1. {k \in 0 .. SMALLOC_BPI - 1 : 0 * SMALLOC_BPI + k \notin m.bitmap} = Z
        BY <1>1
    <2>2. idx = Min(Z)
        BY <1>3, <2>1 DEF find_next_zero
    <2>3. Z \in SUBSET Nat
        BY <1>1
    <2>4. idx \in Z /\ \A y \in Z : idx <= y
        BY <1>3, <2>2, <2>3, SmallestFound
    <2>5. CASE idx # 0
        <3>1. 0 \notin Z
            BY <2>3, <2>4, <2>5
        <3>2. 0 \in m.bitmap /\ 0 < SMALLOC_BPI
            BY <1>1, <3>1
        <3> QED
            BY <3>2, FirstWord
    <2>6. CASE idx = 0
        <3>1. Run(0, n) \subseteq 0 .. SMALLOC_BPI - 1
            BY <1>1 DEF Run
        <3>2. SMALLOC_BPI <= m.nr_blocks * SMALLOC_BPI
            BY <1>1
        <3>3. m.nr_blocks * SMALLOC_BPI \in Nat
            BY <1>1
        <3>4. 0 .. SMALLOC_BPI - 1 \subseteq Blocks(m)
            BY <1>1, <3>2, <3>3 DEF Blocks
        <3>5. 0 * SMALLOC_BPI + idx = 0
            BY <1>1, <2>6
        <3>6. Run(0, n) \cap m.bitmap # {}
            BY <3>1, <3>4, <3>5 DEF blocks_free
        <3>7. PICK b \in m.bitmap : b \in Run(0, n)
            BY <3>6
        <3>8. b < SMALLOC_BPI
            BY <1>1, <3>1, <3>7
        <3> QED
            BY <3>7, <3>8, FirstWord
    <2> QED
        BY <2>5, <2>6
<1> QED
    BY <1>2, <1>3

-----------------------------------------------------------------------------
(* The steps.                                                              *)

\* pc tells where a call is.
LEMMA CallPlaces ==
    ASSUME NEW c, NEW nr, NEW L
    PROVE  /\ c = Idle => c.pc = "idle"
           /\ AtPools(c, nr) => c.pc = "pools"
           /\ AtSearch(c, nr, L) => c.pc = "search"
           /\ AtFree(c, L) => c.pc = "free"
<1>1. c = Idle => c.pc = "idle"
    BY DEF Idle
<1>2. AtPools(c, nr) => c.pc = "pools"
    BY DEF AtPools
<1>3. AtSearch(c, nr, L) => c.pc = "search"
    BY DEF AtSearch
<1>4. AtFree(c, L) => c.pc = "free"
    BY DEF AtFree
<1> QED
    BY <1>1, <1>2, <1>3, <1>4

\* A call stays right while pools and allocations only become more.
LEMMA CallKept ==
    ASSUME NEW c, NEW nr \in Nat, NEW more \in Nat, nr <= more, NEW L, NEW K, L \subseteq K,
           CallRight(c, nr, L)
    PROVE  CallRight(c, more, K)
<1>1. CASE AtPools(c, nr)
    BY <1>1 DEF AtPools, CallRight
<1>2. CASE AtSearch(c, nr, L)
    <2>1. \A p : Anchored(p, L) => Anchored(p, K)
        BY DEF Anchored
    <2>2. AtSearch(c, more, K)
        BY <1>2, <2>1 DEF AtSearch
    <2> QED
        BY <2>2 DEF CallRight
<1>3. CASE AtFree(c, L)
    BY <1>3 DEF AtFree, CallRight
<1> QED
    BY <1>1, <1>2, <1>3 DEF CallRight

\* One thread's smalloc goes on.
LEMMA OneCall ==
    ASSUME IInv, NEW t \in Threads, NEW c, call' = [call EXCEPT ![t] = c],
           nr_pools' \in Nat, nr_pools <= nr_pools', live \subseteq live',
           CallRight(c, nr_pools', live'), c.pc # "free"
    PROVE  /\ DOMAIN call' = Threads /\ FreedOnce'
           /\ \A u \in Threads : CallRight(call'[u], nr_pools', live')
<1>1. DOMAIN call = Threads /\ nr_pools \in Nat
    BY DEF IInv, Types
<1>2. DOMAIN call' = Threads /\ call'[t] = c /\ \A u \in Threads : u # t => call'[u] = call[u]
    BY <1>1
<1>3. FreedOnce'
    BY <1>2 DEF IInv, FreedOnce
<1>4. ASSUME NEW u \in Threads
      PROVE  CallRight(call'[u], nr_pools', live')
    <2>1. CASE u = t
        BY <1>2, <2>1
    <2>2. CASE u # t
        <3>1. CallRight(call[u], nr_pools, live)
            BY DEF IInv
        <3>2. CallRight(call[u], nr_pools', live')
            BY <1>1, <3>1, CallKept
        <3> QED
            BY <1>2, <2>2, <3>2
    <2> QED
        BY <2>1, <2>2
<1> QED
    BY <1>2, <1>3, <1>4

\* Nothing happens to the memory.
LEMMA SameMemory ==
    ASSUME IInv, UNCHANGED <<mp, nr_pools, live>>
    PROVE  /\ DOMAIN mp' = Pools /\ nr_pools' \in 1 .. MAX_POOLS /\ live' \in SUBSET Allocation
           /\ InPools' /\ Disjoint' /\ \A p \in Pools : PoolRight(mp'[p], p, live')
BY DEF IInv, Types, InPools, Disjoint

LEMMA SmallocStep ==
    ASSUME IInv, NEW t \in Threads, Smalloc(t)
    PROVE  IInv'
<1>1. PICK n \in Sizes :
         call' = [call EXCEPT ![t] = [pc |-> "pools", n |-> n, pool |-> last_pool]]
    BY DEF Smalloc
<1>2. UNCHANGED <<mp, nr_pools, live>> /\ last_pool' = last_pool
    BY DEF Smalloc
<1>3. nr_pools \in Nat /\ last_pool \in 0 .. nr_pools
    BY DEF IInv, Types
<1> DEFINE c == [pc |-> "pools", n |-> n, pool |-> last_pool]
<1>4. CallRight(c, nr_pools, live) /\ c.pc # "free"
    BY <1>3 DEF CallRight, AtPools
<1> HIDE DEF c
<1>5. /\ DOMAIN call' = Threads /\ FreedOnce'
      /\ \A u \in Threads : CallRight(call'[u], nr_pools', live')
    <2>1. /\ call' = [call EXCEPT ![t] = c]
          /\ nr_pools' \in Nat /\ nr_pools <= nr_pools' /\ live \subseteq live'
        BY <1>1, <1>2, <1>3 DEF c
    <2>2. CallRight(c, nr_pools', live')
        BY <1>2, <1>4
    <2> QED
        BY <1>4, <2>1, <2>2, OneCall
<1>6. last_pool' \in 0 .. nr_pools' - 1
    BY <1>2 DEF IInv, Types
<1> QED
    BY <1>2, <1>5, <1>6, SameMemory DEF IInv, Types

\* No thread goes on: calls stay right as pools are added.
LEMMA SameCalls ==
    ASSUME IInv, call' = call, live' = live, nr_pools' \in Nat, nr_pools <= nr_pools'
    PROVE  /\ DOMAIN call' = Threads /\ FreedOnce'
           /\ \A u \in Threads : CallRight(call'[u], nr_pools', live')
<1>1. nr_pools \in Nat
    BY DEF IInv, Types
<1>2. ASSUME NEW u \in Threads
      PROVE  CallRight(call'[u], nr_pools', live')
    <2>1. CallRight(call[u], nr_pools, live)
        BY DEF IInv
    <2> QED
        BY <1>1, <2>1, CallKept
<1> QED
    BY <1>2 DEF IInv, Types, FreedOnce

LEMMA NextPoolStep ==
    ASSUME SmallocConstants, IInv, NEW t \in Threads, NextPool(t)
    PROVE  IInv'
<1>1. PICK n \in Sizes, p \in 0 .. nr_pools : call[t] = [pc |-> "pools", n |-> n, pool |-> p]
    <2>1. call[t].pc = "pools" /\ CallRight(call[t], nr_pools, live)
        BY DEF IInv, NextPool
    <2>2. AtPools(call[t], nr_pools)
        BY <2>1, CallPlaces DEF CallRight
    <2> QED
        BY <2>2 DEF AtPools
<1>2. /\ nr_pools \in 1 .. MAX_POOLS /\ last_pool \in 0 .. nr_pools - 1 /\ MAX_POOLS \in Nat
      /\ live' = live /\ n \in Nat
    BY DEF IInv, Types, NextPool, SmallocConstants
<1>3. call[t].n = n /\ call[t].pool = p
    BY <1>1
<1>4. CASE p < nr_pools
    <2>1. UNCHANGED <<mp, nr_pools, last_pool>>
        BY <1>3, <1>4 DEF NextPool
    <2> DEFINE c == IF n > mp[p].free_blocks
                    THEN [pc |-> "pools", n |-> n, pool |-> p + 1]
                    ELSE [pc |-> "search", n |-> n, pool |-> p,
                          i |-> mp[p].next_non_full, last_idx |-> 0]
    <2>2. call' = [call EXCEPT ![t] = c]
        <3>1. [call[t] EXCEPT !.pool = @ + 1] = [pc |-> "pools", n |-> n, pool |-> p + 1]
            BY <1>1
        <3> QED
            BY <1>3, <1>4, <3>1 DEF NextPool
    <2>3. CallRight(c, nr_pools, live) /\ c.pc # "free"
        <3>1. CASE n > mp[p].free_blocks
            <4>1. p + 1 \in 0 .. nr_pools
                BY <1>2, <1>4
            <4> QED
                BY <3>1, <4>1 DEF CallRight, AtPools
        <3>2. CASE ~(n > mp[p].free_blocks)
            <4>1. p \in Pools /\ p \in 0 .. nr_pools - 1
                BY <1>2, <1>4 DEF Pools
            <4>2. PoolRight(mp[p], p, live)
                BY <4>1 DEF IInv
            <4>3. /\ mp[p].next_non_full \in Nat
                  /\ WordSized /\ mp[p].next_non_full > 0 => Anchored(p, live)
                BY <4>2 DEF PoolRight, Pool
            <4> DEFINE i == mp[p].next_non_full
                       s == [pc |-> "search", n |-> n, pool |-> p, i |-> i, last_idx |-> 0]
            <4>4. c = s /\ i \in Nat /\ (WordSized /\ i > 0 => Anchored(p, live))
                BY <3>2, <4>3
            <4> HIDE DEF c, i
            <4>5. AtSearch(s, nr_pools, live)
                BY <1>1, <4>1, <4>4 DEF AtSearch
            <4>6. s.pc # "free"
                OBVIOUS
            <4> QED
                BY <4>4, <4>5, <4>6 DEF CallRight
        <3> QED
            BY <3>1, <3>2
    <2> HIDE DEF c
    <2>4. /\ DOMAIN call' = Threads /\ FreedOnce'
          /\ \A u \in Threads : CallRight(call'[u], nr_pools', live')
        <3>1. nr_pools' \in Nat /\ nr_pools <= nr_pools' /\ live \subseteq live'
            BY <1>2, <2>1
        <3>2. CallRight(c, nr_pools', live')
            BY <1>2, <2>1, <2>3
        <3> QED
            BY <2>2, <2>3, <3>1, <3>2, OneCall
    <2> QED
        BY <1>2, <2>1, <2>4, SameMemory DEF IInv, Types
<1>5. CASE ~(p < nr_pools) /\ UNCHANGED <<mp, nr_pools>> /\ last_pool' \in {0, last_pool}
           /\ (call' = call \/ call' = [call EXCEPT ![t] = Idle])
    <2>1. CallRight(Idle, nr_pools, live) /\ Idle.pc # "free"
        BY DEF CallRight, Idle
    <2>2. /\ DOMAIN call' = Threads /\ FreedOnce'
          /\ \A u \in Threads : CallRight(call'[u], nr_pools', live')
        BY <1>2, <1>5, <2>1, OneCall, SameCalls
    <2>3. last_pool' \in 0 .. nr_pools' - 1
        BY <1>2, <1>5
    <2> QED
        BY <1>2, <1>5, <2>2, <2>3, SameMemory DEF IInv, Types
<1>6. CASE /\ ~(p < nr_pools) /\ nr_pools < MAX_POOLS
           /\ mp' = [mp EXCEPT ![nr_pools] = add_pool(n)]
           /\ nr_pools' = nr_pools + 1 /\ last_pool' = last_pool /\ call' = call
    <2>1. /\ DOMAIN call' = Threads /\ FreedOnce'
          /\ \A u \in Threads : CallRight(call'[u], nr_pools', live')
        BY <1>2, <1>6, SameCalls
    <2>2. InPools' /\ Disjoint'
        <3>1. Disjoint'
            BY <1>2 DEF IInv, Disjoint
        <3>2. \A a \in live : a.pool \in Int /\ a.pool < nr_pools
            BY DEF IInv, Types, InPools, Allocation, Pools
        <3> QED
            BY <1>2, <1>6, <3>1, <3>2 DEF InPools
    <2>3. DOMAIN mp' = Pools
        BY <1>6 DEF IInv, Types
    <2>4. \A a \in live : a.pool # nr_pools
        BY <1>2 DEF IInv, Types, InPools, Allocation, Pools
    <2>5. ASSUME NEW q \in Pools
          PROVE  PoolRight(mp'[q], q, live')
        <3>1. CASE q = nr_pools
            <4>1. PoolRight(add_pool(n), q, live)
                BY <1>2, <2>4, <3>1, PoolAdded
            <4> QED
                BY <1>2, <1>6, <3>1, <4>1 DEF IInv, Types
        <3>2. CASE q # nr_pools
            BY <1>2, <1>6, <3>2 DEF IInv, Types
        <3> QED
            BY <3>1, <3>2
    <2>6. nr_pools' \in 1 .. MAX_POOLS /\ last_pool' \in 0 .. nr_pools' - 1
        BY <1>2, <1>6
    <2> QED
        BY <1>2, <2>1, <2>2, <2>3, <2>5, <2>6 DEF IInv, Types
<1>7. ~(p < nr_pools) =>
         \/ /\ UNCHANGED <<mp, nr_pools>> /\ last_pool' \in {0, last_pool}
            /\ (call' = call \/ call' = [call EXCEPT ![t] = Idle])
         \/ /\ nr_pools < MAX_POOLS
            /\ mp' = [mp EXCEPT ![nr_pools] = add_pool(n)]
            /\ nr_pools' = nr_pools + 1 /\ last_pool' = last_pool /\ call' = call
    BY <1>2, <1>3 DEF NextPool
<1> QED
    BY <1>4, <1>5, <1>6, <1>7

LEMMA SearchStep ==
    ASSUME SmallocConstants, IInv, NEW t \in Threads, Search(t)
    PROVE  IInv'
<1>1. AtSearch(call[t], nr_pools, live)
    <2>1. call[t].pc = "search" /\ CallRight(call[t], nr_pools, live)
        BY DEF IInv, Search
    <2> QED
        BY <2>1, CallPlaces DEF CallRight
<1>2. PICK n \in Sizes, p \in 0 .. nr_pools - 1, i \in Nat, l \in Nat :
         /\ call[t].n = n /\ call[t].pool = p /\ call[t].i = i /\ call[t].last_idx = l
         /\ WordSized /\ (i > 0 \/ l > 0) => Anchored(p, live)
    BY <1>1 DEF AtSearch
<1>3. /\ nr_pools \in 1 .. MAX_POOLS /\ last_pool \in 0 .. nr_pools - 1 /\ MAX_POOLS \in Nat
      /\ live \in SUBSET Allocation /\ n \in Nat \ {0} /\ SMALLOC_BPI \in Nat \ {0}
      /\ DOMAIN mp = Pools /\ p \in Pools
    BY DEF IInv, Types, SmallocConstants, Pools
<1>4. nr_pools' = nr_pools
    BY DEF Search
<1> DEFINE m == mp[p]
<1>5. PoolRight(m, p, live) /\ m.nr_blocks \in Nat
    BY <1>3 DEF IInv, PoolRight, Pool
<1>6. ASSUME NEW c, call' = [call EXCEPT ![t] = c], live \subseteq live',
             CallRight(c, nr_pools, live'), c.pc # "free"
      PROVE  /\ DOMAIN call' = Threads /\ FreedOnce'
             /\ \A u \in Threads : CallRight(call'[u], nr_pools', live')
    <2>1. nr_pools' \in Nat /\ nr_pools <= nr_pools' /\ CallRight(c, nr_pools', live')
        BY <1>3, <1>4, <1>6
    <2> QED
        BY <1>6, <2>1, OneCall
<1>7. CASE i >= m.nr_blocks
    <2> DEFINE c == [pc |-> "pools", n |-> n, pool |-> p + 1]
    <2>1. call' = [call EXCEPT ![t] = c] /\ UNCHANGED <<mp, last_pool, live>>
        BY <1>2, <1>7 DEF Search
    <2>2. p + 1 \in 0 .. nr_pools
        BY <1>3
    <2>3. CallRight(c, nr_pools, live') /\ c.pc # "free"
        BY <2>2 DEF CallRight, AtPools
    <2> HIDE DEF c
    <2>4. /\ DOMAIN call' = Threads /\ FreedOnce'
          /\ \A u \in Threads : CallRight(call'[u], nr_pools', live')
        BY <1>6, <2>1, <2>3
    <2> QED
        BY <1>3, <1>4, <2>1, <2>4, SameMemory DEF IInv, Types
<1>8. CASE i < m.nr_blocks /\ Full(m, i)
    <2> DEFINE c == [call[t] EXCEPT !.i = @ + 1, !.last_idx = 0]
    <2>1. WordSized => Anchored(p, live)
        <3>1. CASE i = 0
            BY <1>3, <1>5, <1>8, <3>1, FullAnchored
        <3>2. CASE i # 0
            BY <1>2, <3>2
        <3> QED
            BY <3>1, <3>2
    <2>2. c.pool = p /\ c.pc = "search"
          /\ c \in [pc : {"search"}, n : Sizes, pool : 0 .. nr_pools - 1, i : Nat, last_idx : Nat]
        <3> DEFINE k == call[t].i + 1
        <3>1. k \in Nat /\ c = [call[t] EXCEPT !.i = k, !.last_idx = 0]
            BY <1>2
        <3> HIDE DEF k, c
        <3> QED
            BY <1>1, <1>2, <3>1 DEF AtSearch
    <2>3. /\ call' = [call EXCEPT ![t] = c] /\ UNCHANGED <<last_pool, live>>
          /\ mp' = [mp EXCEPT ![p].next_non_full = i + 1]
        BY <1>2, <1>5, <1>8 DEF Search
    <2> HIDE DEF c
    <2>4. CallRight(c, nr_pools, live') /\ c.pc # "free"
        BY <2>1, <2>2, <2>3 DEF AtSearch, CallRight
    <2>5. /\ DOMAIN call' = Threads /\ FreedOnce'
          /\ \A u \in Threads : CallRight(call'[u], nr_pools', live')
        BY <1>6, <2>3, <2>4
    <2>6. ASSUME NEW q \in Pools
          PROVE  PoolRight(mp'[q], q, live')
        <3>1. CASE q = p
            <4>1. PoolRight([m EXCEPT !.next_non_full = i + 1], p, live)
                BY <1>5, <2>1, PoolPassed
            <4>2. mp'[p] = [m EXCEPT !.next_non_full = i + 1]
                BY <1>3, <2>3
            <4> QED
                BY <2>3, <3>1, <4>1, <4>2
        <3>2. CASE q # p
            BY <1>3, <2>3, <3>2 DEF IInv
        <3> QED
            BY <3>1, <3>2
    <2>7. DOMAIN mp' = Pools /\ InPools' /\ Disjoint'
        BY <1>3, <1>4, <2>3 DEF IInv, InPools, Disjoint
    <2> QED
        BY <1>3, <1>4, <2>3, <2>5, <2>6, <2>7 DEF IInv, Types
<1>9. ASSUME i < m.nr_blocks, ~Full(m, i), NEW idx \in find_next_zero(m, i, l),
             ~blocks_free(m, i, idx, n), UNCHANGED <<mp, last_pool, live>>,
             call' = [call EXCEPT ![t] = SkipBlocks(call[t], idx)]
      PROVE  IInv'
    <2> DEFINE c == SkipBlocks(call[t], idx)
               next == idx + n
               j == i + next \div SMALLOC_BPI
    <2>1. WordSized => Anchored(p, live)
        <3> SUFFICES ASSUME WordSized
                     PROVE  Anchored(p, live)
            OBVIOUS
        <3>1. CASE i = 0 /\ l = 0
            <4>1. n <= SMALLOC_BPI /\ m.nr_blocks > 0
                BY <1>5, <1>9 DEF WordSized
            <4> QED
                BY <1>3, <1>5, <1>9, <3>1, <4>1, FirstTaken
        <3>2. CASE i > 0 \/ l > 0
            BY <1>2, <3>2
        <3> QED
            BY <3>1, <3>2
    <2>2. next \in Nat
        BY <1>3, <1>9, ZeroFound
    <2>3. j \in Nat
        BY <1>3, <2>2, Quotient
    <2>4. c = IF next < SMALLOC_BPI
              THEN [call[t] EXCEPT !.last_idx = next]
              ELSE [call[t] EXCEPT !.last_idx = 0, !.i = j]
        BY <1>2 DEF SkipBlocks
    <2> HIDE DEF c, next, j
    <2>5. c.pool = p
          /\ c \in [pc : {"search"}, n : Sizes, pool : 0 .. nr_pools - 1, i : Nat, last_idx : Nat]
        BY <1>1, <1>2, <2>2, <2>3, <2>4 DEF AtSearch
    <2>6. CallRight(c, nr_pools, live') /\ c.pc # "free"
        BY <1>9, <2>1, <2>5 DEF AtSearch, CallRight
    <2>7. call' = [call EXCEPT ![t] = c]
        BY <1>9 DEF c
    <2>8. /\ DOMAIN call' = Threads /\ FreedOnce'
          /\ \A u \in Threads : CallRight(call'[u], nr_pools', live')
        BY <1>6, <1>9, <2>6, <2>7
    <2> QED
        BY <1>3, <1>4, <1>9, <2>8, SameMemory DEF IInv, Types
<1>10. ASSUME NEW idx \in find_next_zero(m, i, l), blocks_free(m, i, idx, n),
              NEW first, first = i * SMALLOC_BPI + idx,
              mp' = [mp EXCEPT ![p].bitmap = @ \cup Run(first, n), ![p].free_blocks = @ - n],
              live' = live \cup {[pool |-> p, first |-> first, n |-> n]},
              last_pool' = p, call' = [call EXCEPT ![t] = Idle]
       PROVE  IInv'
    <2> DEFINE a == [pool |-> p, first |-> first, n |-> n]
               R == Run(first, n)
    <2>1. first \in Int
        BY <1>3, <1>10, ZeroFound
    <2>2. R \subseteq Blocks(m) /\ R \cap m.bitmap = {}
        BY <1>10 DEF blocks_free
    <2>3. a \in Allocation /\ a.pool = p /\ a.first = first /\ a.n = n
        BY <1>3, <2>1 DEF Allocation
    <2>4. CallRight(Idle, nr_pools, live') /\ Idle.pc # "free"
        BY DEF CallRight, Idle
    <2>5. live \subseteq live'
        BY <1>10
    <2>6. /\ DOMAIN call' = Threads /\ FreedOnce'
          /\ \A u \in Threads : CallRight(call'[u], nr_pools', live')
        BY <1>6, <1>10, <2>4, <2>5
    <2>7. mp'[p] = [m EXCEPT !.bitmap = @ \cup R, !.free_blocks = @ - n]
          /\ DOMAIN mp' = Pools /\ \A q \in Pools : q # p => mp'[q] = mp[q]
        BY <1>3, <1>10
    <2>8. live' = live \cup {a}
        BY <1>10
    <2>9. ASSUME NEW q \in Pools
          PROVE  PoolRight(mp'[q], q, live')
        <3>1. CASE q = p
            <4>1. PoolRight([m EXCEPT !.bitmap = @ \cup R, !.free_blocks = @ - n],
                            p, live \cup {a})
                BY <1>3, <1>5, <2>1, <2>2, PoolMarked
            <4> QED
                BY <2>7, <2>8, <3>1, <4>1
        <3>2. CASE q # p
            <4>1. PoolRight(mp[q], q, live) /\ a.pool # q
                BY <2>3, <3>2 DEF IInv
            <4>2. PoolRight(mp[q], q, live \cup {a})
                BY <4>1, PoolOther
            <4> QED
                BY <2>7, <2>8, <3>2, <4>2
        <3> QED
            BY <3>1, <3>2
    <2> HIDE DEF a, R
    <2>10. \A b \in live : b.pool = p => Run(b.first, b.n) \cap R = {}
        BY <1>5, <2>2 DEF PoolRight
    <2>11. Disjoint'
        <3>1. Run(a.first, a.n) = R
            BY <2>3 DEF R
        <3> SUFFICES ASSUME NEW x \in live', NEW y \in live', x.pool = y.pool, x # y
                     PROVE  Run(x.first, x.n) \cap Run(y.first, y.n) = {}
            BY DEF Disjoint
        <3>2. CASE x \in live /\ y \in live
            BY <3>2 DEF IInv, Disjoint
        <3>3. CASE x = a /\ y \in live
            BY <2>3, <2>10, <3>1, <3>3
        <3>4. CASE y = a /\ x \in live
            BY <2>3, <2>10, <3>1, <3>4
        <3> QED
            BY <2>8, <3>2, <3>3, <3>4
    <2>12. InPools'
        BY <1>3, <1>4, <2>3, <2>8 DEF IInv, InPools
    <2>13. /\ nr_pools' \in 1 .. MAX_POOLS /\ last_pool' \in 0 .. nr_pools' - 1
           /\ live' \in SUBSET Allocation
        BY <1>3, <1>4, <1>10, <2>3, <2>8
    <2> QED
        BY <2>6, <2>7, <2>9, <2>11, <2>12, <2>13 DEF IInv, Types
<1>11. CASE i < m.nr_blocks /\ ~Full(m, i)
    <2>1. PICK idx \in find_next_zero(m, i, l) :
             IF blocks_free(m, i, idx, n)
             THEN LET first == i * SMALLOC_BPI + idx IN
                  /\ mp' = [mp EXCEPT ![p].bitmap = @ \cup Run(first, n),
                                      ![p].free_blocks = @ - n]
                  /\ live' = live \cup {[pool |-> p, first |-> first, n |-> n]}
                  /\ last_pool' = p
                  /\ call' = [call EXCEPT ![t] = Idle]
             ELSE /\ call' = [call EXCEPT ![t] = SkipBlocks(call[t], idx)]
                  /\ UNCHANGED <<mp, last_pool, live>>
        BY <1>2, <1>5, <1>11 DEF Search
    <2> QED
        BY <1>9, <1>10, <1>11, <2>1
<1> QED
    BY <1>5, <1>7, <1>8, <1>11

\* sfree looks for the pool of its block.
LEMMA SfreeStep ==
    ASSUME IInv, NEW t \in Threads, NEW a \in live, Sfree(t, a)
    PROVE  IInv'
<1> DEFINE c == [pc |-> "free", block |-> a]
<1>1. /\ call' = [call EXCEPT ![t] = c] /\ UNCHANGED <<mp, nr_pools, last_pool, live>>
      /\ \A u \in Threads : call[u] # c
    BY DEF Sfree
<1>2. CallRight(c, nr_pools, live) /\ DOMAIN call = Threads
    BY DEF CallRight, AtFree, IInv, Types
<1> HIDE DEF c
<1>3. DOMAIN call' = Threads /\ call'[t] = c /\ \A u \in Threads : u # t => call'[u] = call[u]
    BY <1>1, <1>2
<1>4. FreedOnce'
    BY <1>1, <1>3 DEF IInv, FreedOnce
<1>5. \A u \in Threads : CallRight(call'[u], nr_pools', live')
    BY <1>1, <1>2, <1>3 DEF IInv
<1> QED
    BY <1>1, <1>3, <1>4, <1>5, SameMemory DEF IInv, Types

\* sfree_pool frees it.
LEMMA FreeStep ==
    ASSUME SmallocConstants, IInv, NEW t \in Threads, sfree_pool(t)
    PROVE  IInv'
<1>1. PICK a \in live : call[t] = [pc |-> "free", block |-> a]
    <2>1. call[t].pc = "free" /\ CallRight(call[t], nr_pools, live)
        BY DEF IInv, sfree_pool
    <2>2. AtFree(call[t], live)
        BY <2>1, CallPlaces DEF CallRight
    <2> QED
        BY <2>2 DEF AtFree
<1>2. /\ mp' = [mp EXCEPT ![a.pool] = Freed(mp[a.pool], a)] /\ live' = live \ {a}
      /\ call' = [call EXCEPT ![t] = Idle] /\ UNCHANGED <<nr_pools, last_pool>>
      /\ ~Searched(a.pool)
    BY <1>1 DEF sfree_pool
<1>3. /\ DOMAIN call = Threads /\ DOMAIN mp = Pools /\ live \in SUBSET Allocation
      /\ a \in Allocation /\ a.pool \in Pools
    BY DEF IInv, Types, Allocation
<1>4. DOMAIN call' = Threads /\ call'[t] = Idle /\ \A u \in Threads : u # t => call'[u] = call[u]
    BY <1>2, <1>3
<1>5. FreedOnce'
    <2>1. Idle.pc # "free"
        BY DEF Idle
    <2> QED
        BY <1>4, <2>1 DEF IInv, FreedOnce
<1>6. ASSUME NEW u \in Threads
      PROVE  CallRight(call'[u], nr_pools', live')
    <2>1. CASE u = t
        BY <1>4, <2>1 DEF CallRight
    <2>2. CASE u # t /\ (call[u] = Idle \/ AtPools(call[u], nr_pools))
        BY <1>2, <1>4, <2>2 DEF CallRight
    <2>3. CASE u # t /\ AtSearch(call[u], nr_pools, live)
        <3>1. call[u].pc = "search" /\ call[u].pool # a.pool
            BY <1>2, <2>3, CallPlaces DEF Searched
        <3>2. Anchored(call[u].pool, live) => Anchored(call[u].pool, live')
            BY <1>2, <3>1 DEF Anchored
        <3>3. AtSearch(call[u], nr_pools, live')
            BY <2>3, <3>2 DEF AtSearch
        <3> QED
            BY <1>2, <1>4, <2>3, <3>3 DEF CallRight
    <2>4. CASE u # t /\ AtFree(call[u], live)
        <3>1. PICK b \in live : call[u] = [pc |-> "free", block |-> b]
            BY <2>4 DEF AtFree
        <3>2. call[t].pc = "free" /\ call[t] # call[u]
            <4>1. call[t].pc = "free" /\ call[u].pc = "free"
                BY <1>1, <3>1
            <4> QED
                BY <2>4, <4>1 DEF IInv, FreedOnce
        <3>3. b \in live'
            BY <1>1, <1>2, <3>1, <3>2
        <3> QED
            BY <1>2, <1>4, <2>4, <3>1, <3>3 DEF CallRight, AtFree
    <2> QED
        BY <2>1, <2>2, <2>3, <2>4 DEF IInv, CallRight
<1>7. ASSUME NEW q \in Pools
      PROVE  PoolRight(mp'[q], q, live')
    <2>1. PoolRight(mp[q], q, live)
        BY DEF IInv
    <2>2. CASE q = a.pool
        <3>1. \A x \in live : x.pool = q /\ x # a => Run(x.first, x.n) \cap Run(a.first, a.n) = {}
            BY <2>2 DEF IInv, Disjoint
        <3>2. PoolRight(Freed(mp[q], a), q, live \ {a})
            BY <1>3, <2>1, <2>2, <3>1, PoolFreed
        <3> QED
            BY <1>2, <1>3, <2>2, <3>2
    <2>3. CASE q # a.pool
        <3>1. PoolRight(mp[q], q, live \ {a})
            BY <2>1, <2>3, PoolOther
        <3> QED
            BY <1>2, <1>3, <2>3, <3>1
    <2> QED
        BY <2>2, <2>3
<1>8. Disjoint' /\ InPools'
    BY <1>2 DEF IInv, Disjoint, InPools
<1>9. DOMAIN mp' = Pools /\ nr_pools' \in 1 .. MAX_POOLS /\ last_pool' \in 0 .. nr_pools' - 1
      /\ live' \in SUBSET Allocation
    BY <1>2, <1>3 DEF IInv, Types
<1> QED
    BY <1>4, <1>5, <1>6, <1>7, <1>8, <1>9 DEF IInv, Types

-----------------------------------------------------------------------------
(* The theorems.                                                           *)

LEMMA InitIInv == ASSUME SmallocConstants PROVE sinit => IInv
<1> SUFFICES ASSUME sinit PROVE IInv
    OBVIOUS
<1>1. DOMAIN mp = Pools /\ DOMAIN call = Threads /\ live = {} /\ nr_pools = 1 /\ last_pool = 0
    BY DEF sinit, Pools
<1>2. MAX_POOLS \in Nat \ {0}
    BY DEF SmallocConstants
<1>3. ASSUME NEW p \in Pools
      PROVE  PoolRight(mp[p], p, live)
    <2>1. PoolRight(add_pool(1), p, live) /\ PoolRight(Unmapped, p, live)
        BY <1>1, PoolAdded
    <2>2. mp[p] = add_pool(1) \/ mp[p] = Unmapped
        BY DEF sinit, Pools
    <2> QED
        BY <2>1, <2>2
<1>4. \A t \in Threads : call[t] = Idle
    BY DEF sinit
<1>5. \A t \in Threads : CallRight(call[t], nr_pools, live) /\ call[t].pc # "free"
    BY <1>4 DEF CallRight, Idle
<1>6. FreedOnce /\ Disjoint /\ InPools
    BY <1>1, <1>5 DEF FreedOnce, Disjoint, InPools
<1> QED
    BY <1>1, <1>2, <1>3, <1>5, <1>6 DEF IInv, Types

LEMMA NextIInv == ASSUME SmallocConstants PROVE IInv /\ [Next]_vars => IInv'
<1> SUFFICES ASSUME IInv, [Next]_vars PROVE IInv'
    OBVIOUS
<1>1. CASE UNCHANGED vars
    <2>1. UNCHANGED <<mp, nr_pools, last_pool, live, call>>
        BY <1>1 DEF vars
    <2>2. FreedOnce' /\ \A u \in Threads : CallRight(call'[u], nr_pools', live')
        BY <2>1 DEF IInv, FreedOnce
    <2> QED
        BY <2>1, <2>2, SameMemory DEF IInv, Types
<1>2. CASE Next
    BY <1>2, SmallocStep, NextPoolStep, SearchStep, FreeStep, SfreeStep DEF Next
<1> QED
    BY <1>1, <1>2

\* The invariant the theorems rest on: each pool agrees with the live allocations
\* and each thread inside smalloc or sfree with what it has found there.
THEOREM SmallocInvariance ==
    ASSUME SmallocConstants
    PROVE  Spec => []IInv
BY InitIInv, NextIInv, PTL DEF Spec

\* For any number of threads, pools and blocks, and requests of any size: live
\* allocations never share a block, the bitmap of a pool marks exactly their
\* blocks, inside the pool (what mask_set and mask_clear assert), and free_blocks
\* counts the clear ones, however smalloc and sfree interleave.
THEOREM MemoryStaysExact ==
    ASSUME SmallocConstants
    PROVE  Spec => [](Disjoint /\ MarkedExactly /\ FreeCounted)
<1>1. IInv => Disjoint /\ MarkedExactly /\ FreeCounted
    <2> SUFFICES ASSUME IInv PROVE Disjoint /\ MarkedExactly /\ FreeCounted
        OBVIOUS
    <2>1. DOMAIN mp = Pools
        BY DEF IInv, Types
    <2>2. ASSUME NEW p \in Pools
          PROVE  /\ mp[p].bitmap = UNION {Run(a.first, a.n) : a \in {b \in live : b.pool = p}}
                 /\ mp[p].bitmap \subseteq Blocks(mp[p])
                 /\ mp[p].free_blocks = Cardinality(Blocks(mp[p]) \ mp[p].bitmap)
        <3>1. PoolRight(mp[p], p, live)
            BY DEF IInv
        <3> QED
            BY <3>1 DEF PoolRight
    <2> QED
        BY <2>1, <2>2 DEF IInv, MarkedExactly, FreeCounted
<1> QED
    BY <1>1, SmallocInvariance, PTL

\* When everything is freed the search starts at the first word of every pool, if
\* no request was larger than a word of the bitmap: next_non_full, which smalloc
\* moves on and sfree moves back, then never hides free memory for good.
THEOREM NothingIsForgotten ==
    ASSUME SmallocConstants
    PROVE  Spec => []NothingForgotten
<1>1. IInv => NothingForgotten
    <2> SUFFICES ASSUME IInv, WordSized, live = {}, NEW p \in Pools
                 PROVE  mp[p].next_non_full = 0
        BY DEF IInv, Types, NothingForgotten
    <2>1. PoolRight(mp[p], p, live)
        BY DEF IInv
    <2>2. ~Anchored(p, live)
        BY DEF Anchored
    <2>3. mp[p].next_non_full \in Nat
        BY <2>1 DEF PoolRight, Pool
    <2> QED
        BY <2>1, <2>2, <2>3 DEF PoolRight
<1> QED
    BY <1>1, SmallocInvariance, PTL
=============================================================================
