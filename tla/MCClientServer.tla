--------------------------- MODULE MCClientServer ---------------------------
(* The instances of ClientServer that TLC checks.                          *)
EXTENDS ClientServer

CONSTANTS h1, h2

\* The idle loop of the hosts in looping turns once while a job runs, that of the
\* others not at all.
Conf(remote, job_file, faults, etas, looping) ==
    [remote |-> remote, job_file |-> job_file, faults |-> faults, weak |-> {h1},
     etas |-> etas, turns |-> [h \in Hosts |-> IF h \in looping THEN 1 ELSE 0]]

PassConfs ==
    {Conf("none", TRUE, {"connect", "parse"}, 1, Hosts),
     Conf("none", TRUE, {"error"}, 1, {h2}), Conf("none", TRUE, {"down"}, 1, {h1}),
     Conf("none", TRUE, {"slow"}, 2, {h1}),
     Conf("none", TRUE, {"send"}, 0, {}), Conf("none", TRUE, {"int"}, 0, {h1}),
     Conf("none", TRUE, {"int", "error"}, 0, {h2}),
     Conf("options", FALSE, {"parse"}, 1, Hosts),
     Conf("job", FALSE, {"parse"}, 1, Hosts),
     [Conf("none", FALSE, {"connect"}, 0, {}) EXCEPT !.weak = Hosts]}

\* Remote arguments and a job file.
RemoteArgsConfs == {Conf("options", TRUE, {}, 1, Hosts)}
=============================================================================
