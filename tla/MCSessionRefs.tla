---------------------------- MODULE MCSessionRefs ----------------------------
(* SessionRefs.tla for TLC: two threads, one code of each kind of file.     *)
EXTENDS SessionRefs, TLC

CONSTANTS t1, t2, f1, f2, c1, c2, c3, k1, d1, d2, globals

TwoThreads  == {t1, t2}
TwoFrames   == {f1, f2}
ThreeCodes  == {c1, c2, c3}
Kinds == (c1 :> "path") @@ (c2 :> "synthetic") @@ (c3 :> "zip")

OneKey   == {k1}
TwoDicts == {d1, d2}
\* What is done with dicts and with sources does not meet: they have tables of
\* their own.  The run follows a session in which one kind is looked at.
DictsOrSources ==
    last_source_id = 1 \/ (DOMAIN var_refs = {} /\ \A hk \in DOMAIN bound : bound[hk] = NoDict)

Interchangeable == Permutations(Frames) \cup Permutations(Dicts) \cup Permutations(Threads)
==============================================================================
