------------------------------- MODULE MCReplay -------------------------------
EXTENDS Replay
Two == <<"a", "b">>
\* One file open at a time, replayed one IO at a time, and variations
Plain == [together |-> 1, acts |-> {"read", "write"}, waits |-> FALSE, reopens |-> TRUE,
          read_only |-> FALSE, depth |-> 1, fails |-> FALSE]
PassConfs ==
    {[Plain EXCEPT !.waits = w, !.read_only = r] : w, r \in BOOLEAN}
    \cup {[Plain EXCEPT !.acts = {"write", "sync", "datasync"}, !.reopens = FALSE, !.depth = 2],
          [Plain EXCEPT !.fails = TRUE]}
BothConfs == {[Plain EXCEPT !.together = 2, !.acts = {"read"}]}
TrimConfs == {[Plain EXCEPT !.acts = {"read", "trim"}]}
\* Files that are opened again while IO from before is in flight.
ReopenConfs == {[Plain EXCEPT !.depth = 2]}
===============================================================================
