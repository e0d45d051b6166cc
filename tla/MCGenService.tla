---------------------------- MODULE MCGenService ----------------------------
(* Instantiation of GenService for TLC: two runners, three requests.      *)
EXTENDS GenService, TLC

CONSTANTS w1, w2, r1, r2, r3

MCWorkers == {w1, w2}
MCRequests == {r1, r2, r3}

\* Runners are interchangeable goroutines, and so are the handlers.
Symmetry == Permutations(MCWorkers) \cup Permutations(MCRequests)
=============================================================================
