------------------------------- MODULE Blktrace -------------------------------
(***************************************************************************)
(* Loading a blktrace file for replay: load_blktrace reads the trace        *)
(* through a ring buffer (fifo.c), skips the data that follows an entry,    *)
(* and turns every queued IO into an io_piece with the delay since the      *)
(* entry before it (blktrace.c).                                            *)
(*                                                                          *)
(* A byte of the trace file is its position in it: an entry is HEADER bytes *)
(* and then its pdu, and what the ring hands out is an entry when it is the *)
(* bytes of one, in order; anything else has a bad magic.                   *)
(***************************************************************************)
EXTENDS Integers, Sequences, SequencesExt, FiniteSetsExt

CONSTANTS
    HEADER,             \* sizeof(struct blk_io_trace)
    TRACE_FIFO_SIZE,    \* size of the ring, a power of two
    NSEC,               \* nanoseconds per microsecond
    MaxEntries,         \* entries of a trace
    Confs               \* [devs, found, redirect, earlier, cut, read_only, no_stall,
                        \* cpus, steps]: devices in the trace, those of this machine,
                        \* whether replay_redirect is set, whether a thread of this
                        \* process has loaded a trace before (with first of the
                        \* devices), bytes missing at the end of the trace, options,
                        \* the cpus traced, and the times that may pass between two entries

VARIABLES
    conf,       \* the configuration
    phase,      \* "record", "load", "loaded", "nothing" or "error"
    trace,      \* the entries of the trace file
    fifo,       \* [buffer, first, last]: the ring, out and in of struct fifo
    rd,         \* file offset of the descriptor
    nr,         \* entries that load_blktrace has taken
    ttime, cpu, \* its locals
    last,       \* static last_maj, last_min of trace_add_file
    files,      \* td->files: devices
    list        \* td->io_log_list

vars == <<conf, phase, trace, fifo, rd, nr, ttime, cpu, last, files, list>>

NoDevice == 0
Redirect == -1     \* the device replay_redirect names
Acts == {"read", "write", "discard", "complete", "notify"}

\* Bytes of the first i entries.
Start(i) == FoldSeq(LAMBDA t, s : HEADER + t.pdu + s, 0, SubSeq(trace, 1, i))
FileSize == LET whole == Start(Len(trace)) IN IF whole > conf.cut THEN whole - conf.cut ELSE 0

-------------------------------------------------------------------------------
(* fifo.c.                                                                   *)

fifo_alloc == [buffer |-> [i \in 0 .. TRACE_FIFO_SIZE - 1 |-> -1], first |-> 0, last |-> 0]
fifo_len(q) == q.last - q.first
fifo_room(q) == TRACE_FIFO_SIZE - q.last + q.first
Least(a, b) == IF a < b THEN a ELSE b

\* Mutant: what does not fit before the end of the buffer is not carried over.
FifoPutNoWrap(q, from, n) ==
    LET at == q.last % TRACE_FIFO_SIZE IN
    [q EXCEPT !.buffer = [i \in DOMAIN q.buffer |->
                            IF i >= at /\ i - at < n THEN from + i - at ELSE q.buffer[i]],
              !.last = q.last + n]

\* The n bytes from file offset "from" on go in.
fifo_put(q, from, n) ==
    LET at == q.last % TRACE_FIFO_SIZE
        len == Least(n, fifo_room(q))
        k(i) == (i - at) % TRACE_FIFO_SIZE IN
    [q EXCEPT !.buffer = [i \in DOMAIN q.buffer |-> IF k(i) < len THEN from + k(i) ELSE q.buffer[i]],
              !.last = q.last + len]

\* What fifo_get hands out, and the ring after it.
Got(q, n) == [i \in 1 .. Least(n, fifo_len(q)) |-> q.buffer[(q.first + i - 1) % TRACE_FIFO_SIZE]]
fifo_get(q, n) ==
    LET out == q.first + Least(n, fifo_len(q)) IN
    IF out = q.last THEN [q EXCEPT !.first = 0, !.last = 0] ELSE [q EXCEPT !.first = out]

-------------------------------------------------------------------------------
(* blktrace.c.  s is [fifo, rd], the ring and the descriptor.                *)

refill_fifo(s) ==
    LET got == Least(fifo_room(s.fifo), FileSize - s.rd) IN
    [fifo |-> fifo_put(s.fifo, s.rd, got), rd |-> s.rd + got]

trace_fifo_get(s, n) ==
    LET t == IF fifo_len(s.fifo) < n THEN refill_fifo(s) ELSE s IN
    [got |-> Got(t.fifo, n), fifo |-> fifo_get(t.fifo, n), rd |-> t.rd]

discard_pdu(s, t) ==
    IF t.pdu = 0 THEN [got |-> <<>>, fifo |-> s.fifo, rd |-> s.rd]
    ELSE trace_fifo_get(s, t.pdu)

\* The device whose file a lookup gives: with replay_redirect that one, if the
\* machine has any, otherwise the same, if the machine has it.
lookup_device(dev) ==
    IF conf.redirect THEN {Redirect : d \in conf.found} ELSE {dev} \cap conf.found

add_file_exclusive(name) == IF Contains(files, name) THEN files ELSE Append(files, name)

\* trace_add_file: nothing for the device of the entry before, and otherwise a
\* file for the device that is looked up, found or new, and an event that opens
\* it.  The major and minor numbers of a file are never set, so no file is
\* found by them.
trace_add_file(dev) ==
    /\ last' = dev
    /\ IF dev = last \/ lookup_device(dev) = {} THEN UNCHANGED files
       ELSE \E name \in lookup_device(dev) : files' = add_file_exclusive(name)

OpenEvent(dev) ==
    IF dev = last \/ lookup_device(dev) = {} THEN <<>>
    ELSE <<[ddir |-> "open", delay |-> 0, nr |-> 0,
            fileno |-> CHOOSE i \in 1 .. Len(files') : files'[i] \in lookup_device(dev)]>>

\* The delay that load_blktrace passes on for entry t.
Delay(t) ==
    IF conf.no_stall \/ ttime = 0 \/ cpu # t.cpu THEN 0 ELSE t.time - ttime

\* store_ipo and handle_trace_discard: the piece carries no file, so file 0.
store_ipo(t, delay) == [ddir |-> t.act, fileno |-> 1, delay |-> delay \div NSEC, nr |-> nr + 1]

Skipped(t) == conf.read_only /\ t.act \in {"write", "discard"}

handle_trace(t) ==
    IF t.act \in {"complete", "notify"} \/ Skipped(t) THEN UNCHANGED <<last, files, list>>
    ELSE /\ trace_add_file(t.dev)
         /\ list' = list \o OpenEvent(t.dev) \o <<store_ipo(t, Delay(t))>>

Init == /\ conf \in Confs
        /\ phase = "record"
        /\ trace = <<>>
        /\ fifo = fifo_alloc
        /\ rd = 0
        /\ nr = 0
        /\ ttime = 0
        /\ cpu = 0
        /\ last = IF conf.earlier THEN Min(conf.devs) ELSE NoDevice
        /\ files = <<>>
        /\ list = <<>>

Loader == <<fifo, rd, nr, ttime, cpu, last, files, list>>

\* blktrace appends an entry; notifications and completions may carry a pdu.
Record(dev, act, c, dt, pdu) ==
    /\ phase = "record"
    /\ Len(trace) < MaxEntries
    /\ act \in {"complete", "notify"} \/ pdu = 0
    /\ trace' = Append(trace, [dev |-> dev, act |-> act, cpu |-> c, pdu |-> pdu,
                               time |-> dt + IF trace = <<>> THEN 0 ELSE Last(trace).time])
    /\ UNCHANGED <<conf, phase, Loader>>

\* is_blktrace found an entry.
StartLoad ==
    /\ phase = "record"
    /\ FileSize >= HEADER
    /\ phase' = "load"
    /\ UNCHANGED <<conf, trace, Loader>>

\* The loop ends at the end of the file or at a part of an entry.
LoadEnd ==
    phase' = IF \E i \in 1 .. Len(list) : list[i].ddir # "open" THEN "loaded" ELSE "nothing"

\* One turn of the loop of load_blktrace.
LoadEntry ==
    /\ phase = "load"
    /\ LET h == trace_fifo_get([fifo |-> fifo, rd |-> rd], HEADER)
           whole == Len(h.got) = HEADER
           magic == h.got = [i \in 1 .. HEADER |-> Start(nr) + i - 1]
           t == trace[nr + 1]
           d == discard_pdu(h, t) IN
       \/ /\ ~ whole
          /\ LoadEnd
          /\ UNCHANGED Loader
       \/ /\ whole
          /\ IF magic THEN Len(d.got) < t.pdu ELSE TRUE
          /\ phase' = "error"
          /\ UNCHANGED Loader
       \/ /\ whole
          /\ magic
          /\ Len(d.got) = t.pdu
          /\ handle_trace(t)
          /\ nr' = nr + 1
          /\ fifo' = d.fifo
          /\ rd' = d.rd
          /\ ttime' = IF t.act = "notify" THEN ttime ELSE t.time
          /\ cpu' = IF t.act = "notify" THEN cpu ELSE t.cpu
          /\ UNCHANGED phase
    /\ UNCHANGED <<conf, trace>>

Next ==
    \/ \E dev \in conf.devs, act \in Acts, c \in conf.cpus, dt \in conf.steps, pdu \in {0, TRACE_FIFO_SIZE - 1} :
         Record(dev, act, c, dt, pdu)
    \/ StartLoad
    \/ LoadEntry

Spec == Init /\ [][Next]_vars

-------------------------------------------------------------------------------
\* The ring holds the next bytes of the trace file, in order, and a trace whose
\* data fits the ring is never given up for a bad magic or a lost pdu (refill_fifo,
\* fifo_put and fifo_get), unless its last pdu is cut off.
RingExact ==
    /\ Got(fifo, fifo_len(fifo)) = [i \in 1 .. fifo_len(fifo) |-> rd - fifo_len(fifo) + i - 1]
    /\ phase = "error" => conf.cut > 0 /\ nr = Len(trace) - 1

Queued(t) == t.act \in {"read", "write", "discard"} /\ ~ Skipped(t)

\* Every queued IO of the trace is replayed, in order.  When all of it is for
\* one device of this machine, whatever else the trace tells of other devices,
\* it is replayed on that device, or on the one of replay_redirect, which an
\* earlier piece of the list opens once (trace_add_file, store_ipo).
EachOnItsDevice ==
    phase = "loaded" =>
        LET ios == SelectSeq(list, LAMBDA p : p.ddir # "open")
            wanted == SelectSeq([i \in 1 .. nr |-> i], LAMBDA i : Queued(trace[i]))
            one == \E d \in conf.found : \A i \in ToSet(wanted) : trace[i].dev = d IN
        /\ [i \in 1 .. Len(ios) |-> ios[i].nr] = wanted
        /\ one => /\ Head(list).ddir = "open"
                  /\ \A i \in 1 .. Len(ios) :
                       /\ ios[i].fileno = Head(list).fileno
                       /\ files[ios[i].fileno] \in lookup_device(trace[ios[i].nr].dev)
                  /\ \A i \in 2 .. Len(list) : list[i].ddir # "open"

\* A replay takes no longer than the traced IO did: the delays add up to at
\* most the time between the first and the last entry.
NotSlower ==
    phase = "loaded" =>
        NSEC * FoldSeq(LAMBDA p, s : p.delay + s, 0, list) <= trace[nr].time - trace[1].time
===============================================================================
