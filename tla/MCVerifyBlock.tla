--------------------------- MODULE MCVerifyBlock ----------------------------
EXTENDS VerifyBlock

Plain ==
    [verify |-> "sum", verify_interval |-> 0, verify_offset |-> 0, verify_pattern_bytes |-> 0,
     verify_inner |-> FALSE, verify_fatal |-> TRUE, randomagain |-> FALSE]

PassConfs ==
    {Plain,
     [Plain EXCEPT !.verify_fatal = FALSE],
     [Plain EXCEPT !.verify_interval = 4],
     [Plain EXCEPT !.verify_interval = 2, !.verify = "pattern", !.verify_pattern_bytes = 2],
     [Plain EXCEPT !.verify_interval = 4, !.verify_offset = 2],
     [Plain EXCEPT !.verify = "meta", !.verify_interval = 4, !.verify_pattern_bytes = 2],
     [Plain EXCEPT !.randomagain = TRUE, !.verify_inner = TRUE]}

\* Several segments, and a failure is not fatal.
SegmentConfs == {[Plain EXCEPT !.verify_interval = 4, !.verify_fatal = FALSE]}

\* A checksum and an offset that is not behind it.
SwapConfs == {[Plain EXCEPT !.verify_offset = 1]}

\* A pattern whose length does not divide the segments.
PatternConfs ==
    {[Plain EXCEPT !.verify = "pattern", !.verify_interval = 4, !.verify_pattern_bytes = 3]}
=============================================================================
