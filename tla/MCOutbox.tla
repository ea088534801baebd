------------------------------ MODULE MCOutbox ------------------------------
EXTENDS Outbox

\* A worker and the successor that took its slot.
CONSTANTS w1, w2
SameSlot == [w \in Workers |-> 1]
=============================================================================
