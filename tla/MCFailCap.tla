----------------------------- MODULE MCFailCap -----------------------------
EXTENDS FailCap, TLC

\* The ring slot of one worker and the writer id of another may coincide.
CONSTANTS w1, w2
SharedId == [p \in Procs |-> IF p = Primary THEN 0 ELSE 1]
Sym == Permutations(Values)
=============================================================================
