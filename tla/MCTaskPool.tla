----------------------------- MODULE MCTaskPool -----------------------------
(* Instances of TaskPool for TLC: three callers that share two slots, two   *)
(* BMCs, a delay that doubles once before it reaches its limit.             *)
EXTENDS TaskPool, TLC

CONSTANTS p1, p2, p3, t1, t2

MCProc == {p1, p2, p3}
MCTarget == {t1, t2}
MCSymmetry == Permutations(MCProc) \cup Permutations(MCTarget)
=============================================================================
