----------------------------- MODULE MCDebugger -----------------------------
(* Debugger.tla for TLC: which breakpoints a line can hold, and symmetry.   *)
EXTENDS Debugger, TLC

CONSTANTS t1, t2, f1, f2, f3, f4, g1, g2

OneThread == {t1}
TwoThreads == {t1, t2}
TwoFrames == {f1, f2}
ThreeFrames == {f1, f2, f3}
FourFrames == {f1, f2, f3, f4}
OneFile == {g1}
TwoFiles == {g1, g2}
OneLine == {1}

PlainOnly == {<< >>, <<"plain">>}
CondOnly == {<< >>, <<"cond">>}
Mixed == {<< >>, <<"plain">>, <<"cond", "plain">>}
Conditional == {<< >>, <<"plain">>, <<"cond">>, <<"cond", "plain">>}

\* Addresses are interchangeable.
FrameSymmetry == Permutations(Frames)
=============================================================================
