-------------------------------- MODULE Replay --------------------------------
(***************************************************************************)
(* Writing an IO log (write_iolog) and replaying it (read_iolog): one job   *)
(* logs what it adds, opens, reads, writes, syncs and closes; another one   *)
(* parses the log into its list of io_pieces (iolog.c, read_iolog2) and     *)
(* takes its IO from that list (read_iolog_get).  A line is a record; the   *)
(* text of it, and the length of an IO, are left out.                       *)
(***************************************************************************)
EXTENDS Naturals, Sequences, SequencesExt

CONSTANTS
    Names,      \* the names of the files of the logging job, a sequence
    Offsets,    \* the offsets of its IO
    MaxLines,   \* lines the logging job writes after the add lines
    Confs       \* [together, acts, waits, reopens, read_only, depth, fails]:
                \* files it has open at once (one with file_service_type=
                \* sequential), the IO it does, whether someone adds wait lines
                \* to the log, whether files are opened again; whether the
                \* replay is run with --readonly, its iodepth, and whether
                \* one of its opens may fail

VARIABLES
    conf,       \* the configuration
    phase,      \* "record", "parse", "replay", "done", "refused", "failed"
                \* (an open) or "aborted"
    open,       \* of every file of the running job: references, and whether
                \* it is to be closed when the last one is dropped
    log,        \* the lines of the log
    pos,        \* lines that read_iolog2 has read
    cur,        \* [fileno, file_action] locals of read_iolog2
    files,      \* td->files of the replaying job: names
    list,       \* td->io_log_list
    replayed    \* the IO that read_iolog_get has handed out

vars == <<conf, phase, open, log, pos, cur, files, list, replayed>>

FileActs == {"add", "open", "close"}
Line(n, a, o) == [name |-> n, act |-> a, offset |-> o]

Closed == [refs |-> 0, closing |-> FALSE]
IsOpen(n) == open[n].refs > 0

\* References of IO in flight: all but the one of the open file itself.
Flight(n) == open[n].refs - (IF IsOpen(n) /\ ~open[n].closing THEN 1 ELSE 0)
AllFlight == FoldLeft(LAMBDA k, n : k + Flight(n), 0, Names)

\* put_file: the last reference closes the file.
Put(file) == IF file.refs = 1 THEN Closed ELSE [file EXCEPT !.refs = @ - 1]

-------------------------------------------------------------------------------
(* The logging job.                                                          *)

log_file(n, what) == log' = Append(log, Line(n, what, 0))
log_io_u(n, a, o) == log' = Append(log, Line(n, a, o))

\* init_iolog_write adds every file of the job to the new log.
init_iolog_write == [i \in 1 .. Len(Names) |-> Line(Names[i], "add", 0)]

Init == /\ conf \in Confs
        /\ phase = "record"
        /\ open = [n \in ToSet(Names) |-> Closed]
        /\ log = init_iolog_write
        /\ pos = 0
        /\ cur = [fileno |-> 1, file_action |-> "add"]
        /\ files = <<>>
        /\ list = <<>>
        /\ replayed = <<>>

Writing == phase = "record" /\ Len(log) < Len(Names) + MaxLines
Parser == <<pos, cur, files, list, replayed>>

RecordOpen(n) ==
    /\ Writing
    /\ ~IsOpen(n)
    /\ conf.together > Len(SelectSeq(Names, IsOpen))
    /\ conf.reopens \/ \A k \in DOMAIN log : log[k] # Line(n, "open", 0)
    /\ open' = [open EXCEPT ![n].refs = 1]
    /\ log_file(n, "open")
    /\ UNCHANGED <<conf, phase, Parser>>

RecordClose(n) ==
    /\ Writing
    /\ IsOpen(n)
    /\ open' = [open EXCEPT ![n] = Closed]
    /\ log_file(n, "close")
    /\ UNCHANGED <<conf, phase, Parser>>

\* fill_io_u: the request is logged once its file, offset and length are known.
RecordIo(n, a, o) ==
    /\ Writing
    /\ IsOpen(n)
    /\ a \in conf.acts
    /\ log_io_u(n, a, o)
    /\ UNCHANGED <<conf, phase, open, Parser>>

\* Someone edits a wait line into the log.
RecordWait(n, o) ==
    /\ Writing
    /\ conf.waits
    /\ log' = Append(log, Line(n, "wait", o))
    /\ UNCHANGED <<conf, phase, open, Parser>>

\* The job ends; another one is started with read_iolog.
RecordEnd ==
    /\ phase = "record"
    /\ phase' = "parse"
    /\ open' = [n \in ToSet(Names) |-> Closed]
    /\ UNCHANGED <<conf, log, Parser>>

-------------------------------------------------------------------------------
(* read_iolog2.                                                              *)

get_fileno(n) == IF \E i \in 1 .. Len(files) : files[i] = n
                 THEN CHOOSE i \in 1 .. Len(files) : files[i] = n
                 ELSE 0

\* Mutant: the file of an open or close line is not noted.
NotedNever(line) == [cur EXCEPT !.file_action = line.act]

\* What an open or close line leaves in the locals; an IO line leaves them.
Noted(line) == IF line.act \in {"open", "close"}
               THEN [fileno |-> get_fileno(line.name), file_action |-> line.act]
               ELSE cur

\* "sync_file_range" is not among the actions of the parser, and a trim, though
\* parsed, is a bad ddir; a write is left out with --readonly.
Kept(line) ==
    /\ line.act \notin {"sync_file_range", "trim"}
    /\ ~ (line.act = "write" /\ conf.read_only)

IoPiece(line, c) ==
    CASE line.act \in {"open", "close"} ->
             [ddir |-> "inval", fileno |-> c.fileno, file_action |-> c.file_action,
              offset |-> 0]
      [] line.act = "wait" ->
             [ddir |-> "wait", fileno |-> 1, file_action |-> "add", offset |-> line.offset]
      [] OTHER ->
             [ddir |-> line.act, fileno |-> c.fileno, file_action |-> c.file_action,
              offset |-> line.offset]

ReadLine ==
    /\ phase = "parse"
    /\ pos < Len(log)
    /\ pos' = pos + 1
    /\ LET line == log[pos + 1] IN
       IF line.act = "add"
       THEN /\ files' = Append(files, line.name)
            /\ cur' = [fileno |-> Len(files) + 1, file_action |-> "add"]
            /\ UNCHANGED list
       ELSE /\ cur' = Noted(line)
            /\ list' = IF Kept(line) THEN Append(list, IoPiece(line, cur')) ELSE list
            /\ UNCHANGED files
    /\ UNCHANGED <<conf, phase, open, log, replayed>>

\* A log without a read, a write or a wait is refused.
ReadEnd ==
    /\ phase = "parse"
    /\ pos = Len(log)
    /\ phase' = IF \E i \in 1 .. Len(list) : list[i].ddir \in {"read", "write", "wait"}
                THEN "replay" ELSE "refused"
    /\ UNCHANGED <<conf, open, log, Parser>>

-------------------------------------------------------------------------------
(* read_iolog_get, one entry of the list at a time.                          *)

\* td_io_open_file asserts that the file is not open; td_io_close_file leaves
\* it to the last IO on the file to close it.
ipo_special(ipo) ==
    LET n == files[ipo.fileno]
    IN \/ /\ ipo.file_action = "open"
          /\ phase' = IF IsOpen(n) THEN "aborted" ELSE phase
          /\ open' = [open EXCEPT ![n].refs = 1]
       \/ /\ ipo.file_action = "open" /\ conf.fails
          /\ phase' = "failed"
          /\ UNCHANGED open
       \/ /\ ipo.file_action = "close"
          /\ open' = [open EXCEPT ![n] = Put([@ EXCEPT !.closing = TRUE])]
          /\ UNCHANGED phase

\* get_file asserts that the file is open.
get_file(ipo) ==
    LET n == files[ipo.fileno]
    IN /\ phase' = IF IsOpen(n) THEN phase ELSE "aborted"
       /\ replayed' = Append(replayed, Line(n, ipo.ddir, ipo.offset))
       /\ open' = [open EXCEPT ![n].refs = @ + 1]

\* A wait sleeps until the delay, in msec, has passed since fio started.
GetPiece ==
    /\ phase = "replay" /\ AllFlight < conf.depth
    /\ list # <<>>
    /\ list' = Tail(list)
    /\ LET ipo == Head(list) IN
         \/ ipo.ddir = "inval" /\ ipo_special(ipo) /\ UNCHANGED replayed
         \/ ipo.ddir = "wait" /\ UNCHANGED <<phase, open, replayed>>
         \/ ipo.ddir \notin {"inval", "wait"} /\ get_file(ipo)
    /\ UNCHANGED <<conf, log, pos, cur, files>>

\* An IO on the file completes.
IoDone(n) ==
    /\ phase \in {"replay", "done", "failed"}
    /\ Flight(n) > 0
    /\ open' = [open EXCEPT ![n] = Put(@)]
    /\ UNCHANGED <<conf, phase, log, Parser>>

\* The list is empty: td->done is set.
GetDone ==
    /\ phase = "replay"
    /\ list = <<>> /\ AllFlight < conf.depth
    /\ phase' = "done"
    /\ UNCHANGED <<conf, open, log, Parser>>

Next ==
    \/ \E i \in 1 .. Len(Names) :
         \/ RecordOpen(Names[i])
         \/ RecordClose(Names[i])
         \/ IoDone(Names[i])
         \/ \E o \in Offsets :
              \/ \E a \in conf.acts : RecordIo(Names[i], a, o)
              \/ RecordWait(Names[i], o)
    \/ RecordEnd
    \/ ReadLine
    \/ ReadEnd
    \/ GetPiece
    \/ GetDone

Spec == Init /\ [][Next]_vars

-------------------------------------------------------------------------------
\* The IO lines of the log that a replay is to repeat.
Wanted == SelectSeq(log, LAMBDA l : /\ l.act \notin FileActs \union {"wait"}
                                    /\ ~ (l.act = "write" /\ conf.read_only))

\* The replay issues the logged IO: each one on the file it was logged for, in
\* the order of the log, and all of it when the job is done (read_iolog2 and
\* read_iolog_get).
ReplaysLog ==
    /\ phase \in {"replay", "done"} => IsPrefix(replayed, Wanted)
    /\ phase = "done" => replayed = Wanted

\* A replay takes no reference to a file that the log has not opened or has
\* closed again, and opens none that is still open: the assertions of get_file
\* and td_io_open_file.
ReplayedOpen == phase # "aborted"

\* When a replay is done, also with IO in flight when a file was to be closed,
\* the files that the log left open are open and the others closed.
FilesLeft ==
    phase = "done" /\ AllFlight = 0 =>
        \A n \in ToSet(Names) :
            LET acts == SelectSeq(log, LAMBDA l : l.name = n /\ l.act \in FileActs)
            IN IsOpen(n) <=> acts[Len(acts)].act = "open"
===============================================================================
