--------------------------- MODULE MCAsyncVerify ---------------------------
\* Values for the constants of AsyncVerify.
EXTENDS AsyncVerify

CONSTANTS u1, u2, t1, t2

TwoIoUs == {u1, u2}
OneThread == {t1}
TwoThreads == {t1, t2}
BothEngines == {"sync", "async"}
SyncEngine == {"sync"}
=============================================================================
