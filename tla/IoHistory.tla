----------------------------- MODULE IoHistory ------------------------------
(***************************************************************************)
(* The history of the writes of a job, from which it verifies and trims:   *)
(* log_io_piece and prune_io_piece_log (iolog.c), get_next_verify          *)
(* (verify.c), get_next_trim (trim.c), the choice between them (io_u.c),   *)
(* the map of segments (seg_2bitsmap.c) and its hash (iohist_hash.c).      *)
(*                                                                         *)
(* One file, in blocks of rw_min_bs.  A piece is kept on a list, in the    *)
(* tree of RbTree, or on the list with a segment in the map and an entry   *)
(* in the hash.  content is what the program under test was given last.    *)
(***************************************************************************)
EXTENDS Integers, FiniteSets, Sequences, SequencesExt, FiniteSetsExt

CONSTANTS BLKS_PER_MAP2,  \* blocks in an unsigned long of the map
          INT_BLKS,       \* blocks in an int: the width of a shift in set_bit
          num_maps,       \* f->num_maps: half the words of the map
          Confs,          \* the options of the jobs
          Lens,           \* lengths of writes, in blocks
          MaxWrites       \* bound: writes in a loop of the job

VARIABLES conf,
          map2,           \* f->file_map2
          list,           \* io_hist_list
          tree,           \* io_hist_tree
          td,             \* io_hist_len, trim_list and the batches
          content,        \* of every block, the last write, or Trimmed
          verified,       \* blocks whose contents were compared
          phase,          \* "write" (do_io) or "verify" (do_verify)
          ok              \* no assertion has failed

vars == <<conf, map2, list, tree, td, content, verified, phase, ok>>

Words == 2 * num_maps
Blocks == 0 .. Words * BLKS_PER_MAP2 - 1

EMPTY == 0
START == 2
IN_ == 3   \* IN, a word of TLA+
Trimmed == -1

----------------------------------------------------------------------------
(* The map *)

\* set_bit shifts an int: its count is taken modulo the width, and the topmost
\* block of an int is extended to the upper half of the word.
set_bit(m, b, stat) ==
    LET word == b \div BLKS_PER_MAP2
        bit == (b % BLKS_PER_MAP2) % INT_BLKS
    IN [c \in Blocks |->
          IF c \div BLKS_PER_MAP2 # word THEN m[c]
          ELSE IF c % BLKS_PER_MAP2 = bit THEN stat
          ELSE IF c % BLKS_PER_MAP2 >= INT_BLKS /\ bit = INT_BLKS - 1
          THEN IF stat = EMPTY THEN EMPTY ELSE IN_
          ELSE m[c]]

\* remove_seg: the start and what follows it in the segment, through the first
\* num_maps words.
remove_seg(m, block) ==
    LET end == CHOOSE e \in Blocks \cup {Words * BLKS_PER_MAP2} :
                 /\ e > block
                 /\ \A c \in block + 1 .. e - 1 :
                        c \div BLKS_PER_MAP2 < num_maps /\ m[c] = IN_
                 /\ \/ e \div BLKS_PER_MAP2 >= num_maps
                    \/ m[e] # IN_
    IN FoldLeft(LAMBDA n, c : set_bit(n, c, EMPTY), m,
                [i \in 1 .. end - block |-> block + i - 1])

\* The place on the list of the hashed piece that begins with a block.
iohist_hash_find(l, block) == {i \in DOMAIN l : l[i].hashed /\ l[i].block = block}

\* Mutant: a piece that is overlapped at its end keeps its length.
DivideKeepsEnd(s, block, start, len) ==
    IF iohist_hash_find(s.list, block) = {} THEN [s EXCEPT !.ok = FALSE]
    ELSE LET i == Min(iohist_hash_find(s.list, block))
         IN IF start <= block
            THEN [s EXCEPT !.list = RemoveAt(@, i), !.io_hist_len = @ - 1]
            ELSE s

\* overlap_divide: what a new write at start leaves of the piece at block: its
\* end, its beginning, both, or nothing.
overlap_divide(s, block, start, len) ==
    IF iohist_hash_find(s.list, block) = {} THEN [s EXCEPT !.ok = FALSE]
    ELSE LET i == Min(iohist_hash_find(s.list, block))
             p == s.list[i]
             beyond == start + len < block + p.nr_blk
             tail == [p EXCEPT !.block = start + len,
                               !.nr_blk = block + p.nr_blk - (start + len)]
         IN IF start <= block
            THEN IF beyond
                 THEN [s EXCEPT !.list[i] = tail, !.map = set_bit(@, tail.block, START)]
                 ELSE [s EXCEPT !.list = RemoveAt(@, i), !.io_hist_len = @ - 1]
            ELSE LET s1 == [s EXCEPT !.list[i].nr_blk = start - block]
                 IN IF beyond
                    THEN [s1 EXCEPT !.list = Append(@, tail), !.io_hist_len = @ + 1,
                                    !.map = set_bit(@, tail.block, START)]
                    ELSE s1

\* insert_seg: the first block may lie in a segment that begins before it, any
\* of the others may begin one.
insert_seg(s, start, len) ==
    LET before == {b \in Blocks : b < start /\ s.map[b] = START}
        s1 == IF s.map[start] = START THEN overlap_divide(s, start, start, len)
              ELSE IF s.map[start] # IN_ THEN s
              ELSE IF before = {} THEN [s EXCEPT !.ok = FALSE]
              ELSE overlap_divide(s, Max(before), start, len)
        In(r, b) ==
            LET r1 == IF r.map[b] = START THEN overlap_divide(r, b, start, len) ELSE r
            IN [r1 EXCEPT !.map = set_bit(@, b, IN_)]
    IN FoldLeft(In, [s1 EXCEPT !.map = set_bit(@, start, START)],
                [i \in 1 .. len - 1 |-> start + i])

----------------------------------------------------------------------------
(* Writing *)

Piece(start, len, version, hashed) ==
    [block |-> start, nr_blk |-> len, version |-> version, hashed |-> hashed,
     trimmed |-> FALSE]

Covers(p) == p.block .. p.block + p.nr_blk - 1

\* Only random jobs have maps, and jobs with lengths that vary a hash only if
\* they may write a block again (init_random_map, iohist_hash_init).
file_randommap == conf.td_random /\ ~conf.norandommap
HasHash == conf.randomagain \/ conf.norandommap \/ ~conf.variable_bs

UsesMap ==
    \/ (conf.randomagain \/ ~file_randommap) /\ conf.variable_bs
    \/ conf.ddir_seq_nr > 1

\* The second test of log_io_piece; a job that logs its writes verifies.
UsesList ==
    /\ ~conf.td_random \/ ~conf.overwrite
    /\ file_randommap
    /\ ~conf.randomagain /\ conf.ddir_seq_nr < 2
    /\ ~conf.verifysort

\* Whether the piece of a write is to be trimmed later: a draw.
io_u_should_trim == {FALSE, conf.trim_backlog > 0}

\* What the job may write next: every block once, as long as the random map
\* or a sequential pattern sees to it.
MayWrite(start, len) ==
    /\ start + len - 1 \in Blocks
    /\ conf.variable_bs \/ len = 1
    /\ conf.randomagain \/ conf.norandommap \/ conf.ddir_seq_nr > 1
       \/ \A b \in start .. start + len - 1 : content[b] = 0

\* The piece goes into the tree, in place of one with the same offset, and
\* perhaps on the trim list.
LogTree(start, len, version, trim) ==
    LET same == {p \in tree : p.block = start}
        others == SelectSeq(td.trim_list, LAMBDA b : b # start)
    IN /\ tree' = (tree \ same) \cup {Piece(start, len, version, FALSE)}
       /\ td' = [td EXCEPT !.io_hist_len = @ - Cardinality(same) + 1,
                           !.writes = version, !.last_was_write = TRUE,
                           !.trim_list = IF trim THEN Append(others, start) ELSE others]
       /\ ok' = (ok /\ \A p \in same : p.nr_blk = len)
       /\ UNCHANGED <<list, map2>>

LogList(start, len, version, trim) ==
    /\ list' = Append(list, Piece(start, len, version, FALSE))
    /\ td' = [td EXCEPT !.io_hist_len = @ + 1, !.writes = version,
                        !.last_was_write = TRUE,
                        !.trim_list = IF trim THEN Append(@, start) ELSE @]
    /\ UNCHANGED <<tree, map2, ok>>

\* Without a map or a hash insert_seg and iohist_hash_add use a NULL pointer.
LogMap(start, len, version) ==
    LET s == insert_seg([map |-> map2, list |-> list, io_hist_len |-> td.io_hist_len,
                         ok |-> ok], start, len)
        hashed == iohist_hash_find(s.list, start) = {}
    IN /\ map2' = s.map /\ ok' = (s.ok /\ file_randommap /\ HasHash)
       /\ list' = Append(s.list, Piece(start, len, version, hashed))
       /\ td' = [td EXCEPT !.io_hist_len = s.io_hist_len + 1, !.writes = version,
                           !.last_was_write = TRUE]
       /\ UNCHANGED tree

\* check_get_verify and check_get_trim, the first things get_io_u does.
VerifyDue ==
    /\ conf.verify_backlog > 0 /\ td.io_hist_len > 0
    /\ \/ td.verify_batch > 0
       \/ td.io_hist_len % conf.verify_backlog = 0 /\ td.last_was_write

TrimDue ==
    /\ conf.trim_backlog > 0 /\ td.trim_list # <<>>
    /\ \/ td.trim_batch > 0
       \/ td.io_hist_len % conf.trim_backlog = 0 /\ td.last_was_write

\* A write is given to the program, completes and is logged.
log_io_piece ==
    LET version == td.writes + 1 IN
    /\ phase = "write" /\ ~VerifyDue /\ ~TrimDue /\ td.writes < MaxWrites
    /\ \E start \in Blocks, len \in Lens, trim \in io_u_should_trim :
         /\ MayWrite(start, len)
         /\ content' = [b \in Blocks |->
                IF b \in start .. start + len - 1 THEN version ELSE content[b]]
         /\ IF UsesMap THEN ~trim /\ LogMap(start, len, version)
            ELSE IF UsesList THEN LogList(start, len, version, trim)
            ELSE LogTree(start, len, version, trim)
    /\ UNCHANGED <<conf, verified, phase>>

----------------------------------------------------------------------------
(* Verifying and trimming *)

\* The piece get_next_verify takes: the first of the tree, else of the list.
NextPiece ==
    IF tree # {} THEN CHOOSE p \in tree : \A q \in tree : p.block <= q.block
    ELSE Head(list)

AfterVerify(t, batch) ==
    [t EXCEPT !.io_hist_len = @ - 1, !.verify_batch = batch, !.last_was_write = FALSE,
              !.trim_list = SelectSeq(@, LAMBDA b : b # NextPiece.block)]

get_next_verify ==
    LET p == NextPiece
        batch == IF phase = "verify" THEN td.verify_batch
                 ELSE (IF td.verify_batch > 0 THEN td.verify_batch
                       ELSE conf.verify_backlog) - 1
    IN /\ phase = "write" => VerifyDue
       /\ tree # {} \/ list # <<>>
       /\ IF tree # {} THEN tree' = tree \ {p} /\ UNCHANGED list
          ELSE list' = Tail(list) /\ UNCHANGED tree
       /\ ok' = (ok /\ (p.hashed => map2[p.block] = START))
       /\ map2' = IF p.hashed THEN remove_seg(map2, p.block) ELSE map2
       /\ td' = AfterVerify(td, batch)
       /\ verified' = verified \cup
              {<<b, IF p.trimmed THEN Trimmed ELSE p.version>> : b \in Covers(p)}
       /\ UNCHANGED <<conf, content, phase>>

\* get_next_trim: the piece is no longer to be verified, or to be zeroes.
get_next_trim ==
    LET block == Head(td.trim_list)
        Same(p) == p.block = block
        p == CHOOSE q \in tree \cup ToSet(list) : Same(q)
        Flag(q) == IF Same(q) THEN [q EXCEPT !.trimmed = TRUE] ELSE q
    IN /\ phase = "write" /\ ~VerifyDue /\ TrimDue
       /\ IF conf.trim_zero
          THEN /\ tree' = {Flag(q) : q \in tree}
               /\ list' = [i \in DOMAIN list |-> Flag(list[i])]
          ELSE /\ tree' = {q \in tree : ~Same(q)}
               /\ list' = SelectSeq(list, LAMBDA q : ~Same(q))
       /\ td' = [td EXCEPT !.trim_list = Tail(@), !.last_was_write = TRUE,
                   !.trim_batch = IF @ > 0 THEN @ - 1 ELSE conf.trim_backlog,
                   !.io_hist_len = IF conf.trim_zero THEN @ ELSE @ - 1]
       /\ content' = [b \in Blocks |-> IF b \in Covers(p) THEN Trimmed ELSE content[b]]
       /\ UNCHANGED <<conf, map2, verified, phase, ok>>

\* do_io is over: do_verify, unless the engine goes one way only.
BeginVerify ==
    /\ phase = "write" /\ ~VerifyDue /\ ~TrimDue /\ ~conf.unidir
    /\ phase' = "verify"
    /\ UNCHANGED <<conf, map2, list, tree, td, content, verified, ok>>

\* The pieces that are left are dropped, from the trim list too.
prune_io_piece_log(t) ==
    [t EXCEPT !.io_hist_len = @ - Cardinality(tree) - Len(list),
              !.trim_list = SelectSeq(@, LAMBDA b : \A p \in tree \cup ToSet(list) :
                                                        p.block # b)]

\* The next loop of the job: clear_io_state, prune_io_piece_log, and the map
\* is cleaned when the file is opened.  do_verify leaves no pieces.
NewLoop ==
    LET t == prune_io_piece_log(td)
    IN /\ \/ phase = "verify" /\ tree = {} /\ list = <<>>
          \/ phase = "write" /\ conf.unidir /\ td.writes > 0
       /\ phase' = "write" /\ tree' = {} /\ list' = <<>>
       /\ map2' = IF t.io_hist_len = 0 THEN [b \in Blocks |-> EMPTY] ELSE map2
       /\ td' = [t EXCEPT !.writes = 0]
       /\ content' = [b \in Blocks |-> 0]
       /\ verified' = {}
       /\ UNCHANGED <<conf, ok>>

Init ==
    /\ conf \in Confs
    /\ map2 = [b \in Blocks |-> EMPTY]
    /\ list = <<>> /\ tree = {}
    /\ td = [io_hist_len |-> 0, trim_list |-> <<>>, writes |-> 0, trim_batch |-> 0,
             verify_batch |-> 0, last_was_write |-> FALSE]
    /\ content = [b \in Blocks |-> 0]
    /\ verified = {} /\ phase = "write" /\ ok = TRUE

Next == \/ log_io_piece \/ get_next_verify \/ get_next_trim
        \/ BeginVerify \/ NewLoop

Spec == Init /\ [][Next]_vars

----------------------------------------------------------------------------
(* Properties *)

Pieces == tree \cup ToSet(list)

\* No assertion of the history fails: a segment in the map has its piece in
\* the hash, a piece in the hash its start in the map, pieces with the same
\* offset have the same length.
NeverAsserts == ok

\* What a piece says of its blocks is what was last written to them, whatever
\* overlaps of writes and trims came before: verification compares nothing
\* with an older write.
PiecesCurrent ==
    \A p \in Pieces : \A b \in Covers(p) :
        content[b] = IF p.trimmed THEN Trimmed ELSE p.version

\* io_hist_len, which tells when to verify and whether to clean the map, is
\* the number of pieces; and only pieces that are still there can be trimmed.
HistoryCounted ==
    /\ td.io_hist_len = Len(list) + Cardinality(tree)
    /\ \A i \in DOMAIN td.trim_list : \E p \in Pieces : p.block = td.trim_list[i]

\* Before the next loop the last write to every block has been verified.
AllVerified ==
    phase = "verify" /\ Pieces = {} =>
        \A b \in Blocks : content[b] > 0 => <<b, content[b]>> \in verified
=============================================================================
