------------------------------ MODULE L3Queue ------------------------------
(***************************************************************************)
(* The queue between one process and the L3 adapter: a chain per key with  *)
(* one operation on the wire and one waiting, a byte bound, retries and    *)
(* deadlines, and clear as a barrier across the chains.                    *)
(*                                                                         *)
(* JavaScript runs to completion between awaits: an action is one such     *)
(* stretch of push, of #run or of a timer.  Operations are numbered in the *)
(* order they are pushed and the promise of an operation has its number.   *)
(* The adapter is external: l3[k] is the number of the operation that last *)
(* took effect on k there, and the call may fail before or after it has    *)
(* taken effect, or hang until its deadline; a call given up there cannot  *)
(* be taken back and may take effect at any later time.                    *)
(***************************************************************************)
EXTENDS Integers, FiniteSets, FiniteSetsExt

CONSTANTS
  Keys,       \* the keys
  ClearId,    \* CLEAR_ID, the chain of the clears
  SetBytes,   \* what a set, and what a delete, counts against the bound
  DelBytes,
  MaxBytes,   \* l3QueueMaxBytes
  Kinds,      \* bound: key -> the kinds of operation tried on it
  Tardy,      \* bound: the chains whose calls may land after their deadline
  MaxOps      \* bound: operations pushed

ASSUME QueueAssumption ==
  /\ ClearId \notin Keys
  /\ SetBytes \in Nat /\ DelBytes \in Nat /\ MaxBytes \in Nat
  /\ Kinds \in [Keys -> SUBSET {"set", "delete"}]
  /\ Tardy \subseteq Keys \cup {ClearId} /\ MaxOps \in Nat

VARIABLES
  chains,     \* chain id -> its chain
  bytes,      \* #bytes: queued and in flight
  count,      \* #count
  clears,     \* #clears: clears pushed and not settled
  gate,       \* #clearGate: the number of the gate, 0 when there is none
  gates,      \* gates made so far
  onWire,     \* #onWire
  closed,     \* #closed
  idle,       \* #idle: the operations a drain() under way has to wait for
  result,     \* operation -> "none" | "unsettled" | "true" | "false"
  ops,        \* history: operation -> what was pushed
  l3,         \* external: key -> the operation that last took effect
  stray       \* external: an operation whose calls, given up, may land late

counters == <<bytes, count, clears, gate, gates, onWire>>
vars == <<chains, bytes, count, clears, gate, gates, onWire, closed, idle,
          result, ops, l3, stray>>

-----------------------------------------------------------------------------
Ids == Keys \cup {ClearId}
OpIds == 1 .. MaxOps
NoOp == [id |-> 0, kind |-> "none", bytes |-> 0, sup |-> {}]
Op(id, kind) ==
  [id |-> id, kind |-> kind, sup |-> {},
   bytes |-> CASE kind = "set" -> SetBytes
               [] kind = "delete" -> DelBytes
               [] OTHER -> 0]

\* A chain.  settle and sending are the promises that the pending operation and
\* the one in flight settle; stage is where its #run loop waits:
\*   "none"    there is no chain           "gate"  on the gate numbered `on`
\*   "wire"    a clear, for an empty wire  "ready" that wait is over
\*   "sent"    on the adapter              "backoff" between two attempts
NoChain == [pending |-> NoOp, settle |-> {}, inflight |-> NoOp, sending |-> {},
            stage |-> "none", on |-> 0, landed |-> FALSE]

Busy(c) == c.stage # "none"
NextId == Cardinality({i \in OpIds : result[i] # "none"}) + 1

\* The head of the #run loop, up to its next await, for the chain c: gone when
\* nothing is pending, held at the gate, or its operation claimed and sent; a
\* clear first waits for the wire to be empty (n operations are on it).
Loop(id, c, g, n) ==
  IF c.pending = NoOp THEN NoChain
  ELSE IF id # ClearId /\ g # 0 THEN [c EXCEPT !.stage = "gate", !.on = g]
  ELSE [NoChain EXCEPT
          !.inflight = c.pending, !.sending = c.settle,
          !.stage = IF id # ClearId THEN "sent" ELSE IF n = 0 THEN "ready" ELSE "wire"]

Sent(c) == IF c.stage = "sent" THEN 1 ELSE 0

-----------------------------------------------------------------------------
(* push *)

\* mutant: the bytes of the replaced operation stay counted
Replace_leak(c, op) == [chain |-> [c EXCEPT !.pending = op, !.settle = @ \cup {op.id}],
                        bytes |-> bytes + op.bytes]

\* Coalescing: the pending operation is replaced and its promises carried over.
Replace(c, op) == [chain |-> [c EXCEPT !.pending = op, !.settle = @ \cup {op.id}],
                   bytes |-> bytes - c.pending.bytes + op.bytes]

\* mutant: an operation on the wire is taken for a waiting one
Place_overwrite(id, op) ==
  LET c == chains[id] IN
  IF c.stage = "sent"
    THEN /\ chains' = [chains EXCEPT ![id].inflight = op,
                                     ![id].sending = @ \cup {op.id}]
         /\ bytes' = bytes + op.bytes - c.inflight.bytes
         /\ UNCHANGED <<count, onWire>>
    ELSE LET put == [c EXCEPT !.pending = op, !.settle = @ \cup {op.id}]
             d   == IF Busy(c) THEN put ELSE Loop(id, put, gate, onWire)
         IN
         /\ chains' = [chains EXCEPT ![id] = d]
         /\ bytes' = bytes + op.bytes - c.pending.bytes
         /\ count' = count + (IF c.pending = NoOp THEN 1 ELSE 0)
         /\ onWire' = onWire + (IF Busy(c) THEN 0 ELSE Sent(d))

\* mutant: a replaced operation stays counted
Place_recount(id, op) ==
  LET c   == chains[id]
      put == [c EXCEPT !.pending = op, !.settle = @ \cup {op.id}]
      d   == IF Busy(c) THEN put ELSE Loop(id, put, gate, onWire)
  IN
  /\ chains' = [chains EXCEPT ![id] = d]
  /\ bytes' = bytes + op.bytes - c.pending.bytes
  /\ count' = count + 1
  /\ onWire' = onWire + (IF Busy(c) THEN 0 ELSE Sent(d))

\* The waiting slot of a key takes the operation; an idle chain starts to run.
Place(id, op) ==
  LET c == chains[id] IN
  IF c.pending # NoOp
    THEN /\ chains' = [chains EXCEPT ![id] = Replace(c, op).chain]
         /\ bytes' = Replace(c, op).bytes
         /\ UNCHANGED <<count, onWire>>
    ELSE LET put == [c EXCEPT !.pending = op, !.settle = {op.id}]
             d   == IF Busy(c) THEN put ELSE Loop(id, put, gate, onWire)
         IN
         /\ chains' = [chains EXCEPT ![id] = d]
         /\ bytes' = bytes + op.bytes
         /\ count' = count + 1
         /\ onWire' = onWire + (IF Busy(c) THEN 0 ELSE Sent(d))

Push(k, kind) ==
  /\ NextId \in OpIds
  /\ bytes + Op(NextId, kind).bytes <= MaxBytes
  /\ ops' = [ops EXCEPT ![NextId] = [key |-> k, kind |-> kind]]
  /\ result' = [result EXCEPT ![NextId] = "unsettled"]
  /\ Place(k, Op(NextId, kind))
  /\ UNCHANGED <<clears, gate, gates, closed, idle, l3, stray>>

\* Past the byte bound the operation is refused on the spot.
PushShed(k, kind) ==
  /\ NextId \in OpIds
  /\ bytes + Op(NextId, kind).bytes > MaxBytes
  /\ ops' = [ops EXCEPT ![NextId] = [key |-> k, kind |-> kind]]
  /\ result' = [result EXCEPT ![NextId] = "false"]
  /\ UNCHANGED <<chains, counters, closed, idle, l3, stray>>

\* #dropPending: the chains whose unsent operation a clear supersedes.
Dropped == {k \in Keys : chains[k].pending # NoOp}

\* #pushClear: the gate closes, a clear not yet sent is replaced, the unsent
\* work of every key is dropped and will settle with the clear.
PushClear ==
  LET c    == chains[ClearId]
      swap == c.pending # NoOp
      op   == [Op(NextId, "clear") EXCEPT
                 !.sup = c.pending.sup \cup UNION {chains[k].settle : k \in Dropped}]
      put  == [c EXCEPT !.pending = op,
                        !.settle = IF swap THEN @ \cup {op.id} ELSE {op.id}]
      freed == MapThenSumSet(LAMBDA k : chains[k].pending.bytes, Dropped)
  IN
  /\ NextId \in OpIds
  /\ ops' = [ops EXCEPT ![NextId] = [key |-> ClearId, kind |-> "clear"]]
  /\ result' = [result EXCEPT ![NextId] = "unsettled"]
  /\ clears' = IF swap THEN clears ELSE clears + 1
  /\ gate' = IF gate = 0 THEN gates + 1 ELSE gate
  /\ gates' = IF gate = 0 THEN gates + 1 ELSE gates
  /\ chains' = [id \in Ids |->
       IF id = ClearId THEN (IF Busy(c) THEN put ELSE Loop(id, put, gate', onWire))
       ELSE IF id \in Dropped THEN [chains[id] EXCEPT !.pending = NoOp, !.settle = {}]
       ELSE chains[id]]
  /\ bytes' = bytes - freed
  /\ count' = count + (IF swap THEN 0 ELSE 1) - Cardinality(Dropped)
  /\ UNCHANGED <<onWire, closed, idle, l3, stray>>

-----------------------------------------------------------------------------
(* #run *)

\* The gate a chain waits on has been released: it looks again.
GateOpened(k) ==
  LET d == Loop(k, chains[k], gate, onWire) IN
  /\ chains[k].stage = "gate" /\ chains[k].on # gate
  /\ chains' = [chains EXCEPT ![k] = d]
  /\ onWire' = onWire + Sent(d)
  /\ UNCHANGED <<bytes, count, clears, gate, gates, closed, idle,
                 result, ops, l3, stray>>

\* mutant: a clear is sent without waiting for the wire
ClearSend_noWait ==
  /\ chains[ClearId].stage \in {"ready", "wire"}
  /\ chains' = [chains EXCEPT ![ClearId].stage = "sent"]
  /\ onWire' = onWire + 1
  /\ UNCHANGED <<bytes, count, clears, gate, gates, closed, idle,
                 result, ops, l3, stray>>

\* A clear, once #wireDrain has resolved.
ClearSend ==
  /\ chains[ClearId].stage = "ready"
  /\ chains' = [chains EXCEPT ![ClearId].stage = "sent"]
  /\ onWire' = onWire + 1
  /\ UNCHANGED <<bytes, count, clears, gate, gates, closed, idle,
                 result, ops, l3, stray>>

\* mutant: the callers a clear superseded are forgotten
Settled_noSuperseded(c) == c.sending

\* The promises the outcome of the operation in flight settles.
Settled(c) == c.sending \cup c.inflight.sup

\* The end of an operation: it leaves the wire and the counts, a clear opens
\* the gate, promises and drains resolve, and the loop goes round.
Finish(id, outcome) ==
  LET c    == chains[id]
      w    == onWire - 1
      n    == clears - 1
      open == IF id # ClearId THEN gate ELSE IF n > 0 THEN gate ELSE 0
      d    == Loop(id, [c EXCEPT !.inflight = NoOp], open, w)
  IN
  /\ bytes' = bytes - c.inflight.bytes
  /\ count' = count - 1
  /\ clears' = IF id = ClearId THEN n ELSE clears
  /\ gate' = open
  /\ onWire' = w + Sent(d)
  /\ chains' = [i \in Ids |->
       IF i = id THEN d
       ELSE IF w = 0 /\ chains[i].stage = "wire" THEN [chains[i] EXCEPT !.stage = "ready"]
       ELSE chains[i]]
  /\ result' = [i \in OpIds |-> IF i \in Settled(c) THEN outcome ELSE result[i]]
  /\ idle' = IF count' = 0 THEN {} ELSE idle
  /\ UNCHANGED <<gates, closed, ops>>

\* A failed attempt is tried again after a backoff, or given up: when the
\* budget is spent or the queue closed, and a clear only when it is closed.
Backoff(id) ==
  /\ ~closed
  /\ chains' = [chains EXCEPT ![id].stage = "backoff"]
  /\ UNCHANGED <<counters, closed, idle, result, ops>>

GiveUp(id) ==
  /\ closed \/ id # ClearId
  /\ Finish(id, "false")

Failed(id) == Backoff(id) \/ GiveUp(id)

\* The call resolves, or rejects, before its deadline.
Resolved(id) ==
  /\ chains[id].stage = "sent" /\ chains[id].landed
  /\ Finish(id, "true")
  /\ UNCHANGED <<l3, stray>>

Rejected(id) ==
  /\ chains[id].stage = "sent"
  /\ Failed(id)
  /\ UNCHANGED <<l3, stray>>

\* withDeadline rejects; the call itself cannot be taken back.
TimedOut(id) ==
  /\ chains[id].stage = "sent" /\ ~chains[id].landed
  /\ Failed(id)
  /\ stray' \in {stray} \cup (IF id \in Tardy /\ stray = 0 THEN {chains[id].inflight.id} ELSE {})
  /\ UNCHANGED l3

\* The backoff is over: another attempt.
Retry(id) ==
  /\ chains[id].stage = "backoff"
  /\ chains' = [chains EXCEPT ![id].stage = "sent", ![id].landed = FALSE]
  /\ UNCHANGED <<counters, closed, idle, result, ops, l3, stray>>

\* External: an operation takes effect in L3.
Effect(i) == [k \in Keys |-> IF ops[i].key \in {k, ClearId} THEN i ELSE l3[k]]

Land(id) ==
  /\ chains[id].stage = "sent" /\ ~chains[id].landed
  /\ l3' = Effect(chains[id].inflight.id)
  /\ chains' = [chains EXCEPT ![id].landed = TRUE]
  /\ UNCHANGED <<counters, closed, idle, result, ops, stray>>

LandLate ==
  /\ stray # 0
  /\ l3' = Effect(stray)
  /\ UNCHANGED <<chains, counters, closed, idle, result, ops, stray>>

Unsettled == {i \in OpIds : result[i] = "unsettled"}

\* drain(): resolves when #count next reaches zero.
Drain ==
  /\ count > 0
  /\ idle' = idle \cup Unsettled
  /\ UNCHANGED <<chains, counters, closed, result, ops, l3, stray>>

Close ==
  /\ ~closed
  /\ closed' = TRUE
  /\ UNCHANGED <<chains, counters, idle, result, ops, l3, stray>>

-----------------------------------------------------------------------------
Init ==
  /\ chains = [id \in Ids |-> NoChain]
  /\ bytes = 0 /\ count = 0 /\ clears = 0
  /\ gate = 0 /\ gates = 0 /\ onWire = 0
  /\ closed = FALSE
  /\ idle = {}
  /\ result = [i \in OpIds |-> "none"]
  /\ ops = [i \in OpIds |-> [key |-> ClearId, kind |-> "none"]]
  /\ l3 = [k \in Keys |-> 0]
  /\ stray = 0

Adapter(id) == Land(id) \/ Resolved(id) \/ Rejected(id) \/ TimedOut(id)

Next ==
  \/ \E k \in Keys : \E kind \in Kinds[k] : Push(k, kind) \/ PushShed(k, kind)
  \/ PushClear
  \/ \E k \in Keys : GateOpened(k)
  \/ ClearSend
  \/ \E id \in Ids : Adapter(id) \/ Retry(id)
  \/ LandLate
  \/ Drain
  \/ Close

Spec == Init /\ [][Next]_vars

\* Timers fire and microtasks run.  The time budget of a set or a delete runs
\* out in the end, whatever the adapter does; a clear, which has none, settles
\* only because an adapter asked again and again answers at last.
Fairness ==
  /\ \A k \in Keys : /\ WF_vars(GateOpened(k))
                     /\ SF_vars(chains[k].stage = "sent" /\ GiveUp(k) /\ UNCHANGED <<l3, stray>>)
  /\ WF_vars(ClearSend)
  /\ \A id \in Ids : WF_vars(Retry(id)) /\ WF_vars(Adapter(id))
  /\ SF_vars(Land(ClearId)) /\ SF_vars(Resolved(ClearId))

FairSpec == Spec /\ Fairness

-----------------------------------------------------------------------------
(* Properties *)

\* The types of the variables.
TypeOK ==
  /\ DOMAIN chains = Ids
  /\ \A id \in Ids : /\ chains[id].pending.id \in 0 .. MaxOps
                     /\ chains[id].inflight.id \in 0 .. MaxOps
                     /\ chains[id].stage \in {"none", "gate", "wire", "ready",
                                              "sent", "backoff"}
  /\ bytes \in Nat /\ count \in Nat /\ clears \in Nat /\ onWire \in Nat
  /\ result \in [OpIds -> {"none", "unsettled", "true", "false"}]

Held(f(_)) == MapThenSumSet(LAMBDA id : f(chains[id].pending) + f(chains[id].inflight), Ids)

\* The counters the queue steers by are what they count: a leak in #bytes would
\* shed every later write, one in #count would leave drain() waiting for ever,
\* one in #onWire a clear, one in #clears every key.  The rest is in type.
CountersExact ==
  /\ TypeOK
  /\ bytes = Held(LAMBDA op : op.bytes)
  /\ count = Held(LAMBDA op : IF op = NoOp THEN 0 ELSE 1)
  /\ onWire = Cardinality({id \in Ids : chains[id].stage \in {"sent", "backoff"}})
  /\ clears = Cardinality({chains[ClearId].pending, chains[ClearId].inflight} \ {NoOp})
  /\ (gate # 0) = (clears > 0)

\* Operation i was given up at its deadline and may land late.
Late(i) == i = stray /\ i # 0

\* What takes effect on a key in L3 takes effect in the order it was pushed, a
\* clear being an operation on every key: no write is undone by an older one,
\* and no clear is undone by a write it was meant to remove, unless by a call
\* that was given up at its deadline and lands late.
PerKeyOrder == [][\A k \in Keys : l3'[k] >= l3[k] \/ Late(l3'[k])]_vars

\* A promise that resolves true means that L3 has the operation, or a later one
\* of this process on the same key, whichever way it came to be settled: sent
\* itself, coalesced into a newer one, or superseded by a clear; or else a call
\* given up earlier has landed on top of it.
TrueMeansLanded ==
  \A i \in OpIds : result[i] = "true" =>
    \A k \in Keys : ops[i].key \in {k, ClearId} => l3[k] >= i \/ Late(l3[k])

\* A drain() resolves only after every operation pushed before it has settled,
\* those that a clear swallowed included.
DrainMeansSettled == [][idle' = {} => idle \cap Unsettled' = {}]_vars

\* Every promise the queue hands out settles and every drain() resolves, also
\* behind a clear, behind a hanging adapter and after close: once the pushes
\* stop, as MaxOps makes them, the queue comes to rest.
EveryPromiseSettles ==
  (Unsettled # {} \/ idle # {}) ~> (Unsettled = {} /\ idle = {})
=============================================================================
