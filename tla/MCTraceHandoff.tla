--------------------------- MODULE MCTraceHandoff ---------------------------
(* TraceHandoff.tla for TLC: the main thread and two that it starts.         *)
EXTENDS TraceHandoff

CONSTANTS main, t1, t2

ThreeThreads == {main, t1, t2}
=============================================================================
