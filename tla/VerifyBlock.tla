---------------------------- MODULE VerifyBlock -----------------------------
(***************************************************************************)
(* The contents of the blocks of a job that verifies what it writes        *)
(* (verify.c): buffers are filled, every segment of them gets a header     *)
(* and a checksum, the header may be swapped with data in the segment, and *)
(* when the block is read back all of this is checked.  With verify_inner  *)
(* the header also holds a version, a new one for every overwrite.         *)
(*                                                                         *)
(* A file is a sequence of cells.  A verify_header is a cell, the checksum *)
(* that follows it another one, the rest of a segment is data.  The device *)
(* may lose a write, keep only its beginning, put it elsewhere or spoil a  *)
(* cell; checksums do not collide.                                         *)
(***************************************************************************)
EXTENDS Integers, Sequences, SequencesExt, FiniteSets

CONSTANTS Confs,       \* options of the job
          min_bs,      \* cells of the smallest block
          Sector,      \* cells the device writes at once, a header and its checksum
          NBlocks,     \* blocks of the file
          MaxWrites,   \* bound: writes
          MaxFaults    \* bound: writes the device does not do as it was told

VARIABLES conf,
          cells,       \* what the device holds
          want,        \* what it would hold without faults
          pieces,      \* history: newest pieces, with their versions
          unique,      \* td->unique, as a number
          writes,
          faults,
          verified,    \* what verify_io_u returned for every piece, <<>> before
          terminate

vars == <<conf, cells, want, pieces, unique, writes, faults, verified, terminate>>

Junk == [kind |-> "junk"]
FileCells == 0 .. NBlocks * min_bs - 1
Cells(io) == io.offset .. io.offset + io.buflen - 1

----------------------------------------------------------------------------
(* Filling a buffer: a function from 0 .. buflen - 1 to cells *)

\* sizeof(struct verify_header) is one cell, what follows it another one.
__hdr_size == IF conf.verify = "pattern" THEN 1 ELSE 2

get_hdr_inc(buflen) ==
    CASE conf.randomagain -> min_bs
      [] ~conf.randomagain /\ conf.verify_interval > 0 /\ conf.verify_interval <= buflen ->
             conf.verify_interval
      [] OTHER -> buflen

Pattern(n) == [kind |-> "pattern", at |-> n % conf.verify_pattern_bytes]

\* fill_pattern: random bytes of their own for every write, or the pattern.
fill_pattern(write, n) ==
    IF conf.verify_pattern_bytes = 0 THEN [kind |-> "random", write |-> write, at |-> n]
    ELSE Pattern(n)

\* memswp of len cells at p with those at q; memcpy goes upwards if they overlap.
memswp(buf, p, q, len) ==
    LET first == [n \in DOMAIN buf |-> IF n \in p .. p + len - 1 THEN buf[n + q - p] ELSE buf[n]]
    IN [n \in DOMAIN buf |-> IF n \in q .. q + len - 1 THEN buf[n - (q - p)] ELSE first[n]]

Data(buf, p, inc) == [n \in 1 .. inc - __hdr_size |-> buf[p + __hdr_size + n - 1]]

\* fill_md5 and the other checksums, fill_meta.
Private(buf, p, io, inc, num) ==
    IF conf.verify = "meta"
    THEN [kind |-> "meta", offset |-> io.offset + num * conf.verify_interval]
    ELSE [kind |-> "sum", of |-> Data(buf, p, inc)]

populate_hdr(buf, io, inc, num) ==
    LET p == num * inc
        hdr == [kind |-> "header", type |-> conf.verify, offset |-> io.offset + num * inc,
                len |-> inc, version |-> io.version]
        filled == [n \in DOMAIN buf |->
                     CASE n = p -> hdr
                       [] n = p + 1 /\ __hdr_size = 2 -> Private(buf, p, io, inc, num)
                       [] OTHER -> buf[n]]
    IN IF conf.verify_offset > 0
       THEN memswp(filled, p, p + conf.verify_offset, __hdr_size) ELSE filled

\* fill_pattern_headers.
populate_verify_io_u(io, write) ==
    LET inc == get_hdr_inc(io.buflen)
        empty == [n \in 0 .. io.buflen - 1 |-> fill_pattern(write, n)]
        buf[num \in 0 .. io.buflen \div inc] ==
            IF num = 0 THEN empty ELSE populate_hdr(buf[num - 1], io, inc, num - 1)
    IN buf[io.buflen \div inc]

----------------------------------------------------------------------------
(* Verifying a buffer *)

\* verify_header: magic, length and the checksum of the header.
verify_header(hdr, buflen) == hdr.kind = "header" /\ hdr.len <= buflen

\* verify_io_u_pattern counts from the segment, fill_pattern from the buffer.
verify_io_u_pattern(buf, p, inc) ==
    \A n \in __hdr_size .. inc - 1 : buf[p + n] = Pattern(n)

\* verify_io_u_md5 and the others: the data is where the length of the header says.
verify_io_u_sum(buf, hdr, num) ==
    LET p == num * hdr.len
    IN /\ p + hdr.len - 1 \in DOMAIN buf
       /\ buf[p + 1] = [kind |-> "sum", of |-> Data(buf, p, hdr.len)]

verify_io_u_meta(buf, p, io, inc, num) ==
    /\ buf[p + 1] = [kind |-> "meta", offset |-> io.offset + num * conf.verify_interval]
    /\ conf.verify_pattern_bytes > 0 => verify_io_u_pattern(buf, p, inc)

is_match(hdr, io) == hdr.version = io.version

\* verify_io_u, one segment: "header" returns at once, "data" is the handler's result.
Segment(buf, io, inc, num) ==
    LET p == num * inc
        hdr == buf[p]
    IN CASE ~verify_header(hdr, io.buflen) -> "header"
         [] hdr.offset # io.offset + num * inc -> "header"
         [] conf.verify_inner /\ ~is_match(hdr, io) -> "header"
         [] hdr.type = "sum" -> IF verify_io_u_sum(buf, hdr, num) THEN "good" ELSE "data"
         [] hdr.type = "meta" ->
                IF verify_io_u_meta(buf, p, io, inc, num) THEN "good" ELSE "data"
         [] OTHER -> IF verify_io_u_pattern(buf, p, inc) THEN "good" ELSE "data"

Unswapped(buf, p) ==
    IF conf.verify_offset > 0
    THEN memswp(buf, p, p + conf.verify_offset, __hdr_size) ELSE buf

\* verify_io_u.  A segment's result replaces that of the segment before it, unless a
\* failure is fatal.
verify_io_u(buf, io) ==
    LET inc == get_hdr_inc(io.buflen)
        last == io.buflen \div inc
        loop[num \in 0 .. last] ==
            IF num = 0 THEN [ret |-> "good", buf |-> buf, over |-> FALSE]
            ELSE LET was == loop[num - 1]
                     swapped == Unswapped(was.buf, (num - 1) * inc)
                     now == Segment(swapped, io, inc, num - 1)
                 IN IF was.over \/ (was.ret # "good" /\ conf.verify_fatal) THEN was
                    ELSE [ret |-> now, buf |-> swapped, over |-> now = "header"]
    IN loop[last].ret

----------------------------------------------------------------------------
(* The job *)

Init ==
    /\ conf \in Confs
    /\ cells = [n \in FileCells |-> Junk]
    /\ want = cells
    /\ pieces = {}
    /\ unique = 0
    /\ writes = 0
    /\ faults = 0
    /\ verified = <<>>
    /\ terminate = FALSE

Overlaps(p, io) == Cells(p) \cap Cells(io) # {}

\* Mutant: an overwrite has the version of what it overwrites.
VersionKept(io) == unique

\* get_io_u: an overwrite is known to mark_random_map (randomagain), and takes a new
\* version (unique_ops->set).
NewVersion(io) ==
    IF conf.verify_inner /\ \E p \in pieces : Overlaps(p, io) THEN unique + 1 ELSE unique

\* What a write leaves of the pieces before it: min_bs pieces of what it did not touch.
Remaining(io) ==
    UNION {{[p EXCEPT !.offset = b * min_bs, !.buflen = min_bs] :
              b \in {b \in 0 .. NBlocks - 1 : b * min_bs \in Cells(p) \ Cells(io)}} :
           p \in {p \in pieces : Overlaps(p, io)}}

Put(file, io, buf, from, count) ==
    [n \in FileCells |-> IF n \in from .. from + count - 1 THEN buf[n - from] ELSE file[n]]

\* A write of len blocks, and what becomes of it.
Write(block, len) ==
    /\ verified = <<>> /\ writes < MaxWrites
    /\ block + len <= NBlocks
    /\ LET range == [offset |-> block * min_bs, buflen |-> len * min_bs, version |-> 0]
           io == [range EXCEPT !.version = NewVersion(range)]
           buf == populate_verify_io_u(io, writes)
       IN /\ ~conf.randomagain => \A p \in pieces : ~Overlaps(p, io)
          /\ unique' = io.version
          /\ writes' = writes + 1
          /\ pieces' = {p \in pieces : ~Overlaps(p, io)} \cup Remaining(io) \cup {io}
          /\ want' = Put(want, io, buf, io.offset, io.buflen)
          /\ \/ cells' = Put(cells, io, buf, io.offset, io.buflen) /\ UNCHANGED faults
             \/ /\ faults < MaxFaults
                /\ faults' = faults + 1
                /\ \/ \E sectors \in 0 .. io.buflen \div Sector - 1 :
                        cells' = Put(cells, io, buf, io.offset, sectors * Sector)
                   \/ \E other \in 0 .. NBlocks - len :
                        /\ other # block
                        /\ cells' = Put(cells, io, buf, other * min_bs, io.buflen)
                   \/ \E n \in Cells(io) :
                        cells' = [Put(cells, io, buf, io.offset, io.buflen) EXCEPT ![n] = Junk]
    /\ UNCHANGED <<conf, verified, terminate>>

\* Every piece of the history is read and verified.
Verify ==
    /\ verified = <<>> /\ pieces # {}
    /\ LET read(io) == [n \in 0 .. io.buflen - 1 |-> cells[io.offset + n]]
       IN verified' = [io \in pieces |-> verify_io_u(read(io), io)]
    /\ terminate' = (conf.verify_fatal /\ \E io \in pieces : verified'[io] = "data")
    /\ UNCHANGED <<conf, cells, want, pieces, unique, writes, faults>>

Next == Verify \/ \E block \in 0 .. NBlocks - 1, len \in 1 .. NBlocks : Write(block, len)

Spec == Init /\ [][Next]_vars

----------------------------------------------------------------------------
(* Properties *)

Same(io) == \A n \in Cells(io) : cells[n] = want[n]

\* What was written and read back as it was never fails to verify, wherever headers are
\* swapped to ("Its swapped back before verifying", HOWTO verify_offset) and whatever
\* pattern the buffers are filled with.
NoFalseAlarm ==
    verified # <<>> => \A io \in pieces : Same(io) => verified[io] = "good"

\* Which damage the options promise to find: with meta only that of headers.
Covered(io) ==
    \E n \in Cells(io) : cells[n] # want[n] /\
        (conf.verify = "meta" => want[n].kind \in {"header", "meta"})

\* "fio will keep checking the entire contents before quitting on a block verification
\* failure" (HOWTO verify_fatal): a piece that is not what was last written there, be it
\* spoiled, torn, misplaced or stale, does not verify.
DamageSeen ==
    verified # <<>> => \A io \in pieces : Covered(io) => verified[io] # "good"
=============================================================================
