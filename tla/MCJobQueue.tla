------------------------------ MODULE MCJobQueue ------------------------------
(* Small instances of JobQueue for TLC. *)
EXTENDS JobQueue, TLC

CONSTANTS w1, w2, c1, c2, r1, r2, k1, k2

OneWorker == {w1}
TwoWorkers == {w1, w2}
OneCaller == {c1}
TwoCallers == {c1, c2}
OneRetrier == {r1}
TwoRetriers == {r1, r2}
OneKey == {k1}
TwoKeys == {k1, k2}
NoProcess == {}
OneOrTwo == {1, 2}
Two == {2}

\* Callers are interchangeable, and so are two workers.
CallerSymmetry == Permutations(TwoCallers)
Symmetry == CallerSymmetry \cup Permutations(TwoWorkers)
=============================================================================
