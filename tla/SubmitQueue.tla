---------------------------- MODULE SubmitQueue ----------------------------
(***************************************************************************)
(* What one submission ring promises: a bounded queue that loses nothing   *)
(* it accepted, invents nothing, repeats nothing and keeps the order.      *)
(***************************************************************************)
EXTENDS Naturals, Sequences

CONSTANT Ids          \* the records that may be submitted

VARIABLES sent,       \* the records accepted so far, in order
          got         \* the records the consumer has applied, in order

Init == sent = <<>> /\ got = <<>>

Accept == /\ \E id \in Ids : sent' = Append(sent, id)
          /\ UNCHANGED got

Take == /\ Len(got) < Len(sent)
        /\ got' = Append(got, sent[Len(got) + 1])
        /\ UNCHANGED sent

Next == Accept \/ Take

Spec == Init /\ [][Next]_<<sent, got>>
=============================================================================
