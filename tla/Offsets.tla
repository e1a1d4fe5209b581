------------------------------ MODULE Offsets -------------------------------
(***************************************************************************)
(* Where in its file a job does its next IO and how much of it (io_u.c,    *)
(* from random_map_free to fill_io_u), with the map of blocks a random job *)
(* has done (init_random_map in filesetup.c, fio_file_reset in file.h).    *)
(*                                                                         *)
(* One job with one file, until do_io has done td->o.size bytes or the     *)
(* file is done.  Bytes are counted in units of rw_min_bs, unless conf     *)
(* says that block sizes are multiples of it.  A random number x stands    *)
(* for the fraction x / RAND_MAX of the range it is scaled to.             *)
(***************************************************************************)
EXTENDS Integers, FiniteSets, Sequences, FiniteSetsExt

CONSTANTS BLOCKS_PER_MAP,  \* bits of a word of the map
          RAND_MAX,        \* random numbers are 0 .. RAND_MAX - 1
          FAILED_RANDS,    \* failed lookups after which none is tried (200)
          MaxIOs,          \* bound: IOs of a job that only time ends
          Confs            \* the options of the jobs

VARIABLES conf,
          f,         \* the file: map, last_free_lookup, failed_rands, last_pos, last_start
          td,        \* ddir_seq_nr, zone_bytes and what do_io counts
          io,        \* the io_u just filled
          times,     \* of every block, how often the pass did it
          pc         \* "get", "done" (file done), "empty" (nothing left of the IO)

vars == <<conf, f, td, io, times, pc>>

None == -1
min_bs == conf.rw_min_bs
io_end == conf.start_offset + conf.io_size
Run(offset, len) == offset .. offset + len - 1
Scaled(x, n) == (n * x) \div RAND_MAX
BlocksOf(offset, len) ==
    Run((offset - f.file_offset) \div min_bs, (len + min_bs - 1) \div min_bs)

----------------------------------------------------------------------------
(* The random map *)

num_maps ==
    LET blocks == (conf.real_file_size + min_bs - 1) \div min_bs
    IN (blocks + BLOCKS_PER_MAP - 1) \div BLOCKS_PER_MAP

file_randommap == conf.random /\ ~conf.norandommap

random_map_free(g, b) == b \notin g.map
Word(g, i) == g.map \cap Run(i * BLOCKS_PER_MAP, BLOCKS_PER_MAP)
Full(g, i) == Cardinality(Word(g, i)) = BLOCKS_PER_MAP
ffz(g, i) == Min(Run(i * BLOCKS_PER_MAP, BLOCKS_PER_MAP) \ g.map)

\* last_block: one more than the last block, in units of ba.
last_block ==
    (IF conf.zone_range > 0 THEN conf.zone_range
     ELSE Min({conf.io_size, conf.real_file_size})) \div conf.ba

\* A lookup that gives block b, or none.
Result(g, b) == [f |-> g, b |-> b]

\* Mutant: the lookup does not look beyond the word it starts with.
FreeBlockOneWord(g) ==
    LET i == g.last_free_lookup
    IN IF Full(g, i) THEN Result(g, None) ELSE Result(g, ffz(g, i))

\* get_next_free_block: the first free block from the word last_free_lookup.
get_next_free_block(g) ==
    LET Inside(i) == /\ i * BLOCKS_PER_MAP * min_bs < conf.real_file_size
                     /\ i * BLOCKS_PER_MAP * min_bs < conf.io_size
        words == {i \in g.last_free_lookup .. num_maps - 1 : Inside(i) /\ ~Full(g, i)}
    IN IF words = {} \/ last_block = 0 THEN Result(g, None)
       ELSE LET i == Min(words)
            IN IF ffz(g, i) > last_block THEN Result(g, None)
               ELSE Result([g EXCEPT !.last_free_lookup = i], ffz(g, i))

\* The search from the start, or from where the last one was.
Exhaustive(g) ==
    LET here == get_next_free_block(g)
    IN IF here.b # None THEN here
       ELSE get_next_free_block([g EXCEPT !.last_free_lookup = 0])

\* get_next_rand_offset: what it can give.  Five random blocks are tried, then
\* ten random words to search from, then the search is exhaustive.
get_next_rand_offset(g) ==
    LET Block(x) == Scaled(x, last_block - 1)
        busy == {x \in 0 .. RAND_MAX - 1 : ~random_map_free(g, Block(x))}
        anything == ~file_randommap \/ conf.randomagain
        good == {Result([g EXCEPT !.failed_rands = 0], Block(x)) :
                    x \in IF anything THEN 0 .. RAND_MAX - 1 ELSE (0 .. RAND_MAX - 1) \ busy}
        failed == [g EXCEPT !.failed_rands = @ + 1]
        From(x) == [failed EXCEPT !.last_free_lookup = Scaled(x, num_maps - 1)]
        Tried(X) == {r \in {get_next_free_block(From(x)) : x \in X} : r.b # None}
        missed == {x \in busy : get_next_free_block(From(x)).b = None}
        again == IF missed = {} THEN {}
                 ELSE Tried(0 .. RAND_MAX - 1)
                        \cup {Exhaustive([failed EXCEPT !.last_free_lookup = 0])}
    IN IF last_block = 0 THEN {Result(g, None)}
       ELSE IF g.failed_rands >= FAILED_RANDS THEN {Exhaustive(g)}
       ELSE IF anything THEN good
       ELSE good \cup Tried(busy) \cup again

fio_file_reset(g) ==
    [g EXCEPT !.last_free_lookup = 0, !.failed_rands = 0, !.last_pos = g.file_offset,
              !.last_start = None, !.map = {}]

\* get_next_rand_block: a job that runs for a time starts over.
get_next_rand_block(g) ==
    UNION {IF r.b # None \/ ~conf.time_based THEN {r}
           ELSE get_next_rand_offset(fio_file_reset(r.f)) : r \in get_next_rand_offset(g)}

----------------------------------------------------------------------------
(* The offset *)

\* get_next_seq_offset: offset is None when the file is at its end.
get_next_seq_offset(g) ==
    LET g1 == IF g.last_pos >= conf.io_size /\ conf.time_based
              THEN [g EXCEPT !.last_pos = @ - conf.io_size] ELSE g
        g2 == IF g1.last_pos = g.file_offset /\ conf.ddir_seq_add < 0
              THEN [g1 EXCEPT !.last_pos = conf.real_file_size] ELSE g1
        pos == g2.last_pos - g.file_offset
    IN IF g1.last_pos >= conf.real_file_size THEN [f |-> g1, offset |-> None]
       ELSE [f |-> g2, offset |-> IF pos # 0 THEN pos + conf.ddir_seq_add ELSE pos]

\* get_next_block: what it can give, as an offset from file_offset.
get_next_block(g, rw_seq) ==
    LET rand == {[f |-> r.f, offset |-> IF r.b = None THEN None ELSE r.b * conf.ba] :
                    r \in get_next_rand_block(g)}
        seq == get_next_seq_offset(g)
        start == IF g.last_start = None THEN 0 ELSE g.last_start - g.file_offset
    IN IF rw_seq THEN IF conf.random THEN rand ELSE {seq}
       ELSE IF conf.rw_seq = "sequential"
       THEN IF seq.offset # None THEN {seq} ELSE rand
       ELSE {[f |-> g, offset |-> start]}

\* What __get_next_offset refuses; an offset below 0 is a very large one.
Beyond(g, offset) ==
    \/ offset < 0 \/ offset >= conf.io_size
    \/ offset + g.file_offset >= conf.real_file_size

\* __get_next_buflen: the lengths it can give, none when min_bs does not fit.
__get_next_buflen(offset) ==
    IF conf.min_bs = conf.max_bs THEN {conf.min_bs}
    ELSE {n * conf.min_bs : n \in {k \in 1 .. conf.max_bs \div conf.min_bs :
                                       offset + k * conf.min_bs <= io_end}}

----------------------------------------------------------------------------
(* Marking what is done *)

\* Mutant: all of the IO is marked and none of it cut off.
MarkWhole(g, offset, len, busy_ok) ==
    [map |-> g.map \cup BlocksOf(offset, len), len |-> len]

\* mark_random_map: the IO ends before the first block that was done before.
mark_random_map(g, offset, len, busy_ok) ==
    LET blocks == BlocksOf(offset, len)
        busy == blocks \cap g.map
        free == IF busy = {} THEN blocks ELSE {b \in blocks : b < Min(busy)}
    IN IF busy_ok THEN [map |-> g.map, len |-> len]
       ELSE [map |-> g.map \cup free, len |-> Min({len, Cardinality(free) * min_bs})]

\* mark_bit_map: whether some of the IO was done before.
mark_bit_map(g, offset, len, busy_ok) ==
    LET blocks == BlocksOf(offset, len)
    IN IF busy_ok THEN [map |-> g.map, again |-> TRUE]
       ELSE [map |-> g.map \cup blocks, again |-> blocks \cap g.map # {}]

\* Marked by the map the job keeps, if any.
Marked(g, offset, len, busy_ok) ==
    LET m == mark_random_map(g, offset, len, busy_ok)
        a == mark_bit_map(g, offset, len, busy_ok)
    IN IF conf.randomagain THEN [map |-> a.map, len |-> len, again |-> a.again]
       ELSE IF file_randommap THEN [map |-> m.map, len |-> m.len, again |-> FALSE]
       ELSE [map |-> g.map, len |-> len, again |-> conf.norandommap]

----------------------------------------------------------------------------
(* fill_io_u and the rest of get_io_u *)

\* It may be time for a new zone.
NewZone(g, t) ==
    LET start == g.file_offset + conf.zone_range + conf.zone_skip
    IN IF t.zone_bytes < conf.zone_size \/ conf.zone_skip = 0 THEN [f |-> g, td |-> t]
       ELSE [f |-> [g EXCEPT !.file_offset = start, !.last_pos = start],
             td |-> [t EXCEPT !.zone_bytes = 0]]

\* The file was reset for another pass.
StartedOver(g, h) == ~(g.map \subseteq h.map)

\* The IO is given to the engine: last_start and last_pos.
Filled(g, t, m, offset) ==
    /\ f' = [g EXCEPT !.map = m.map, !.last_start = offset, !.last_pos = offset + m.len]
    /\ td' = [t EXCEPT !.zone_bytes = @ + m.len, !.bytes = @ + m.len, !.ios = @ + 1]
    /\ io' = [offset |-> offset, buflen |-> m.len, randomagain |-> m.again,
              before |-> IF StartedOver(f, g) THEN {} ELSE {b \in DOMAIN times : times[b] > 0}]
    /\ times' = [b \in DOMAIN times |->
                    (IF StartedOver(f, g) THEN 0 ELSE times[b])
                      + IF b \in Run(offset, m.len) THEN 1 ELSE 0]
    /\ pc' = "get"

FileDone(g, t) ==
    /\ f' = g /\ td' = t /\ pc' = "done"
    /\ UNCHANGED <<io, times>>

fill_io_u ==
    LET rw_seq == td.ddir_seq_nr = 1
        zone == NewZone(f, [td EXCEPT !.ddir_seq_nr = IF rw_seq THEN conf.ddir_seq_nr
                                                      ELSE @ - 1])
    IN /\ pc = "get"
       /\ IF conf.time_based THEN td.ios < MaxIOs ELSE td.bytes < conf.io_size
       /\ \E r \in get_next_block(zone.f, rw_seq) :
            LET offset == r.offset + r.f.file_offset
                lens == IF Beyond(r.f, r.offset) THEN {} ELSE __get_next_buflen(offset)
            IN IF r.offset = None \/ lens = {} THEN FileDone(r.f, zone.td)
               ELSE \E len \in lens :
                      LET m == Marked(r.f, offset, len, ~rw_seq)
                      IN IF offset + len > conf.real_file_size THEN FileDone(r.f, zone.td)
                         ELSE IF m.len = 0
                         THEN /\ f' = r.f /\ td' = zone.td /\ pc' = "empty"
                              /\ UNCHANGED <<io, times>>
                         ELSE Filled(r.f, zone.td, m, offset)
       /\ UNCHANGED conf

Init ==
    /\ conf \in Confs
    /\ f = [map |-> {}, last_free_lookup |-> 0, failed_rands |-> 0,
            file_offset |-> conf.start_offset, last_pos |-> conf.start_offset,
            last_start |-> None]
    /\ td = [ddir_seq_nr |-> 1, zone_bytes |-> 0, bytes |-> 0, ios |-> 0]
    /\ io = [offset |-> 0, buflen |-> 0, randomagain |-> FALSE, before |-> {}]
    /\ times = [b \in conf.start_offset .. conf.real_file_size - 1 |-> 0]
    /\ pc = "get"

Next == fill_io_u

Spec == Init /\ [][Next]_vars

----------------------------------------------------------------------------
(* Properties *)

Issued == td.ios > 0
Ended == pc # "get" \/ (~conf.time_based /\ td.bytes >= conf.io_size)

\* The bytes the job is to do IO to: whole blocks of them.
Wanted == Run(conf.start_offset, conf.io_size - (conf.io_size % conf.min_bs))

\* Every IO begins in the part of the file the job was given and ends in the
\* file.  It ends in that part too, unless block sizes are fixed and the part
\* is no multiple of them: then it goes beyond by less than a block.
InsideFile ==
    LET end == io.offset + io.buflen
    IN Issued =>
         /\ io.offset \in Run(conf.start_offset, conf.io_size)
         /\ end <= conf.real_file_size
         /\ end > io_end => /\ conf.min_bs = conf.max_bs
                            /\ conf.io_size % conf.min_bs # 0
                            /\ end < io_end + conf.min_bs

\* A job with a random map, and a plain sequential one, does every block
\* once and, when it ends, has done them all: neither the random lookups that
\* fail nor the lengths that are cut off leave a block out.
CoversEachOnce ==
    conf.covers =>
        /\ \A b \in DOMAIN times : times[b] <= 1
        /\ Ended => \A b \in Wanted : times[b] = 1
        /\ pc # "empty"

\* An IO that writes again what the job wrote is known to do so: only then it
\* gets a new version.
AgainKnown ==
    Issued /\ conf.randomagain /\ io.before \cap Run(io.offset, io.buflen) # {} =>
        io.randomagain

\* IO with zones stays in them.
InsideZones ==
    Issued /\ conf.zone_skip > 0 =>
        \A b \in Run(io.offset, io.buflen) :
            (b - conf.start_offset) % (conf.zone_range + conf.zone_skip) < conf.zone_range
=============================================================================
