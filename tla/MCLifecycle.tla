---------------------------- MODULE MCLifecycle ----------------------------
(* Lifecycle.tla for TLC: the main thread and two that it starts.           *)
EXTENDS Lifecycle

CONSTANTS main, t1, t2

TwoThreads == {main, t1}
ThreeThreads == {main, t1, t2}
Stdout == {"stdout"}
Both == {"stdout", "stderr"}
=============================================================================
