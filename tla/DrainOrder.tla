----------------------------- MODULE DrainOrder -----------------------------
(***************************************************************************)
(* The order in which one drain applies what waits in the submission       *)
(* rings: a ring is emptied before the next one is looked at.              *)
(***************************************************************************)
EXTENDS Integers, Sequences, FiniteSets

\* The places of the records that wait, queue[w] being those of worker w.
Places(queue) == UNION {{w} \X DOMAIN queue[w] : w \in DOMAIN queue}

\* f goes through the places ring after ring, and in each from its oldest record.
RingByRing(f) ==
  \A i, j \in DOMAIN f : i < j /\ f[i][1] = f[j][1] =>
    f[i][2] < f[j][2] /\ \A m \in i .. j : f[m][1] = f[i][1]

\* Every record that waits, in each of the orders that a drain may meet them.
RingAfterRing(queue) ==
  LET n == Cardinality(Places(queue)) IN
  {[i \in 1 .. n |-> queue[f[i][1]][f[i][2]]] :
     f \in {g \in [1 .. n -> Places(queue)] : RingByRing(g)}}
=============================================================================
