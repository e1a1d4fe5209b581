----------------------------- MODULE IoService ------------------------------
(***************************************************************************)
(* What the core and an IO engine together promise for every io_u: it is   *)
(* taken, given to the device at most once at a time, executed, collected, *)
(* and returned, and only what the device moved is ever reported.  How     *)
(* requests are batched, committed, polled for or requeued is left open.   *)
(***************************************************************************)
EXTENDS Integers, FiniteSets

CONSTANTS IoUs,    \* the io_us of the job
          BufLen   \* length of a transfer, in units

VARIABLES st,      \* of each io_u: "free", "held", "issued" or "done"
          owed     \* units moved and not reported yet

Move(us, from, to) ==
    /\ us # {} /\ \A u \in us : st[u] \in from
    /\ st' = [u \in IoUs |-> IF u \in us THEN to ELSE st[u]]

Take(u) == Move({u}, {"free"}, "held") /\ UNCHANGED owed

Issue(us) == Move(us, {"held"}, "issued") /\ UNCHANGED owed

\* The device executes one request.
Execute(u) ==
    /\ Move({u}, {"issued"}, "done")
    /\ owed' \in owed .. owed + BufLen

\* The engine transfers by itself what it holds.
Transfer(us) ==
    /\ us # {} /\ \A u \in us : st[u] = "held"
    /\ owed' \in owed .. owed + BufLen * Cardinality(us)
    /\ UNCHANGED st

Collect(us) == Move(us, {"done"}, "held") /\ UNCHANGED owed

\* Some are returned, and what they moved is reported.
GiveBack(us) ==
    /\ Move(us, {"held"}, "free")
    /\ owed' \in 0 .. owed

\* A request that is cancelled comes back without a report.
Recall(u) == Move({u}, {"issued", "done"}, "free") /\ UNCHANGED owed

Init == st = [u \in IoUs |-> "free"] /\ owed = 0

Next ==
    \/ \E u \in IoUs : Take(u) \/ Execute(u) \/ Recall(u)
    \/ \E us \in SUBSET IoUs :
         Issue(us) \/ Transfer(us) \/ Collect(us) \/ GiveBack(us)

vars == <<st, owed>>

Spec == Init /\ [][Next]_vars /\ \A u \in IoUs : WF_vars(Execute(u))
=============================================================================
