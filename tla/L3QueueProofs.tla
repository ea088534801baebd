--------------------------- MODULE L3QueueProofs ---------------------------
(***************************************************************************)
(* Proofs about L3Queue, for every set of keys, every number of operations *)
(* and every byte bound: operations take effect on a key in the order they *)
(* were pushed, a promise that resolves true means its operation landed,   *)
(* a drain resolves only when everything before it has settled, and the    *)
(* counters the queue steers by are what they count.                       *)
(***************************************************************************)
EXTENDS L3Queue, FiniteSetTheorems, WellFoundedInduction, TLAPS

Stages == {"none", "gate", "wire", "ready", "sent", "backoff"}
Results == {"none", "unsettled", "true", "false"}
OpType == [id : 0 .. MaxOps, kind : {"none", "set", "delete", "clear"}, bytes : Nat,
           sup : SUBSET OpIds]
Chain == [pending : OpType, settle : SUBSET OpIds, inflight : OpType,
          sending : SUBSET OpIds, stage : Stages, on : Nat, landed : BOOLEAN]
Pushed == [key : Ids, kind : {"none", "set", "delete", "clear"}]

\* bytes, which steers what is refused and no order, has its own invariant, BytesOK.
Typed ==
  /\ chains \in [Ids -> Chain]
  /\ count \in Int /\ clears \in Nat /\ gate \in Nat /\ gates \in Nat /\ onWire \in Nat
  /\ idle \subseteq OpIds
  /\ result \in [OpIds -> Results] /\ ops \in [OpIds -> Pushed]
  /\ l3 \in [Keys -> 0 .. MaxOps] /\ stray \in 0 .. MaxOps

Issued(i) == i \in OpIds /\ result[i] # "none"
Covers(i, k) == ops[i].key \in {k, ClearId}

\* Operations are numbered without a hole.
Numbered == \E m \in 0 .. MaxOps : \A i \in OpIds : result[i] # "none" <=> i <= m

\* An operation a chain holds is one of that chain, and so are the promises it
\* settles; a clear settles those it superseded too, and none of it is younger.
OpOK(id, op, promises) ==
  op # NoOp =>
    /\ Issued(op.id) /\ ops[op.id].key = id
    /\ \A j \in promises : Issued(j) /\ j <= op.id /\ ops[j].key = id
    /\ \A j \in op.sup : Issued(j) /\ j <= op.id /\ id = ClearId

\* Only a clear waits for the wire and only a key at the gate.
ChainOK(id, c) ==
  /\ c.inflight # NoOp <=> c.stage \in {"wire", "ready", "sent", "backoff"}
  /\ c.pending # NoOp => c.stage # "none"
  /\ c.stage \in {"wire", "ready"} => id = ClearId /\ ~c.landed
  /\ OpOK(id, c.pending, c.settle) /\ OpOK(id, c.inflight, c.sending)
  /\ c.pending # NoOp /\ c.inflight # NoOp => c.inflight.id < c.pending.id

ChainsOK == \A id \in Ids : ChainOK(id, chains[id])

Waiting == {id \in Ids : chains[id].pending # NoOp}
Claimed == {id \in Ids : chains[id].inflight # NoOp}
Wire == {id \in Ids : chains[id].stage \in {"sent", "backoff"}}

\* The counters the control depends on.
CountsOK ==
  /\ IsFiniteSet(Waiting) /\ IsFiniteSet(Claimed)
  /\ count = Cardinality(Waiting) + Cardinality(Claimed)
  /\ IsFiniteSet(Wire) /\ onWire = Cardinality(Wire)
  /\ clears = (IF ClearId \in Waiting THEN 1 ELSE 0) + (IF ClearId \in Claimed THEN 1 ELSE 0)
  /\ gate # 0 <=> clears > 0

\* Past its wait a clear has the wire for itself.
Barrier ==
  chains[ClearId].stage \in {"ready", "sent", "backoff"} => Wire \subseteq {ClearId}

\* The operations that chain id holds.
Holds(id) == {chains[id].pending, chains[id].inflight} \ {NoOp}

\* What waits on a key is younger than every clear held, what is on the wire older.
ClearOrder ==
  \A k \in Keys : \A x \in Holds(ClearId) :
    /\ chains[k].pending # NoOp => x.id < chains[k].pending.id
    /\ chains[k].inflight # NoOp => chains[k].inflight.id < x.id

\* What k has seen: the operation in effect, the one given up, those acknowledged.
Past(k) == {i \in OpIds : \/ i = l3[k]
                          \/ i = stray /\ Covers(i, k)
                          \/ result[i] = "true" /\ Covers(i, k)}

\* None of that is younger than an operation still to take effect on k.
PastOrder ==
  /\ stray # 0 => Issued(stray)
  /\ \A k \in Keys : \A i \in Past(k) :
       /\ Issued(i)
       /\ \A x \in Holds(k) \cup Holds(ClearId) : i <= x.id

\* An attempt that landed is in effect, or undone by the call that was given up.
LandedOK ==
  \A id \in Ids : chains[id].stage = "sent" /\ chains[id].landed =>
    \A k \in Keys : id \in {k, ClearId} =>
      l3[k] >= chains[id].inflight.id \/ Late(l3[k])

\* Every promise that is out is kept by a chain.
Accounted ==
  \A i \in Unsettled : \E id \in Ids :
    \/ chains[id].pending # NoOp /\ i \in chains[id].settle \cup chains[id].pending.sup
    \/ chains[id].inflight # NoOp /\ i \in Settled(chains[id])

IInv ==
  /\ Typed /\ Numbered /\ ChainsOK /\ CountsOK /\ Barrier
  /\ ClearOrder /\ PastOrder /\ LandedOK /\ Accounted /\ TrueMeansLanded

-----------------------------------------------------------------------------
(* Types, and what one trip round the loop of a chain does *)

LEMMA BaseFacts ==
  /\ ClearId \notin Keys /\ ClearId \in Ids /\ MaxOps \in Nat
  /\ NoOp \in OpType /\ NoOp.id = 0 /\ NoOp.sup = {}
  /\ \A k \in Keys : k \in Ids /\ k # ClearId /\ Kinds[k] \subseteq {"set", "delete"}
  /\ \A i \in OpIds : i \in Nat /\ i > 0
BY QueueAssumption DEF NoOp, OpType, OpIds, Ids

LEMMA NoChainType ==
  /\ NoChain \in Chain /\ NoChain.pending = NoOp /\ NoChain.inflight = NoOp
  /\ NoChain.settle = {} /\ NoChain.sending = {} /\ NoChain.stage = "none"
  /\ NoChain.landed = FALSE
<1>1. NoOp \in OpType
  BY BaseFacts
<1> QED
  BY <1>1 DEF NoChain, Chain, Stages

LEMMA ChainType ==
  ASSUME Typed, NEW id \in Ids
  PROVE  /\ chains[id] \in Chain
         /\ chains[id].pending \in OpType /\ chains[id].inflight \in OpType
         /\ chains[id].settle \subseteq OpIds /\ chains[id].sending \subseteq OpIds
         /\ chains[id].stage \in Stages /\ chains[id].landed \in BOOLEAN
BY DEF Typed, Chain

LEMMA NewOpType ==
  ASSUME NEW n \in OpIds, NEW kind \in {"set", "delete", "clear"}
  PROVE  /\ Op(n, kind) \in OpType /\ Op(n, kind) # NoOp
         /\ Op(n, kind).id = n /\ Op(n, kind).sup = {}
<1> DEFINE b == CASE kind = "set" -> SetBytes [] kind = "delete" -> DelBytes [] OTHER -> 0
<1>1. b \in Nat
  BY QueueAssumption
<1>2. Op(n, kind) = [id |-> n, kind |-> kind, sup |-> {}, bytes |-> b]
  BY DEF Op
<1> HIDE DEF b
<1>3. n \in 0 .. MaxOps /\ n # 0
  BY BaseFacts DEF OpIds
<1> QED
  BY <1>1, <1>2, <1>3 DEF OpType, NoOp

\* The head of #run: the chain ends, is held at the gate, or claims what is pending.
LEMMA LoopCases ==
  ASSUME NEW id \in Ids, NEW c \in Chain, NEW g \in Nat, NEW n \in Int, NEW d,
         d = Loop(id, c, g, n)
  PROVE  /\ d \in Chain
         /\ \/ c.pending = NoOp /\ d = NoChain
            \/ /\ c.pending # NoOp /\ id # ClearId /\ g # 0
               /\ d.pending = c.pending /\ d.settle = c.settle
               /\ d.inflight = c.inflight /\ d.sending = c.sending
               /\ d.stage = "gate" /\ (d.landed <=> c.landed)
            \/ /\ c.pending # NoOp /\ (id = ClearId \/ g = 0)
               /\ d.pending = NoOp /\ d.settle = {}
               /\ d.inflight = c.pending /\ d.sending = c.settle
               /\ ~d.landed
               /\ id # ClearId => d.stage = "sent"
               /\ id = ClearId => d.stage = IF n = 0 THEN "ready" ELSE "wire"
<1>1. CASE c.pending = NoOp
  BY <1>1, NoChainType DEF Loop
<1>2. CASE c.pending # NoOp /\ id # ClearId /\ g # 0
  BY <1>2 DEF Loop, Chain, Stages
<1>3. CASE c.pending # NoOp /\ (id = ClearId \/ g = 0)
  <2> DEFINE s == IF id # ClearId THEN "sent" ELSE IF n = 0 THEN "ready" ELSE "wire"
  <2>1. Loop(id, c, g, n) = [NoChain EXCEPT !.inflight = c.pending, !.sending = c.settle,
                                            !.stage = s]
    BY <1>3 DEF Loop
  <2>2. s \in Stages
    BY DEF Stages
  <2> HIDE DEF s
  <2>3. /\ Loop(id, c, g, n) \in Chain
        /\ Loop(id, c, g, n).pending = NoOp /\ Loop(id, c, g, n).settle = {}
        /\ Loop(id, c, g, n).inflight = c.pending /\ Loop(id, c, g, n).sending = c.settle
        /\ Loop(id, c, g, n).stage = s /\ ~Loop(id, c, g, n).landed
    BY <2>1, <2>2, NoChainType DEF Chain, NoChain
  <2> QED
    BY <1>3, <2>3 DEF s
<1> QED
  BY <1>1, <1>2, <1>3

-----------------------------------------------------------------------------
(* Numbering *)

\* The next number is above every number given out.
LEMMA NextIdFresh ==
  ASSUME Typed, Numbered, NextId \in OpIds
  PROVE  \A i \in OpIds : result[i] # "none" <=> i < NextId
<1>1. PICK m \in 0 .. MaxOps : \A i \in OpIds : result[i] # "none" <=> i <= m
  BY DEF Numbered
<1>2. {i \in OpIds : result[i] # "none"} = 1 .. m
  BY <1>1, BaseFacts DEF OpIds
<1>3. Cardinality(1 .. m) = m
  BY FS_Interval
<1>4. NextId = m + 1
  BY <1>2, <1>3 DEF NextId
<1> QED
  BY <1>1, <1>4 DEF OpIds

\* What a push does to the record of what was pushed: nothing given out changes, what a
\* key has seen does not, and the new number is above all of it.
LEMMA NewNumber ==
  ASSUME IInv, NextId \in OpIds, NEW r \in {"unsettled", "false"}, NEW o \in Pushed,
         result' = [result EXCEPT ![NextId] = r], ops' = [ops EXCEPT ![NextId] = o],
         l3' = l3, stray' = stray
  PROVE  /\ result' \in [OpIds -> Results] /\ ops' \in [OpIds -> Pushed]
         /\ Numbered' /\ TrueMeansLanded'
         /\ \A i : Issued(i) => Issued(i)' /\ ops'[i] = ops[i] /\ i < NextId
         /\ result'[NextId] = r /\ ops'[NextId] = o
         /\ \A k \in Keys : Past(k)' = Past(k)
         /\ Unsettled' \subseteq Unsettled \cup (IF r = "unsettled" THEN {NextId} ELSE {})
<1> DEFINE n == NextId
<1>1. /\ n \in OpIds /\ result \in [OpIds -> Results] /\ ops \in [OpIds -> Pushed]
      /\ result' = [result EXCEPT ![n] = r] /\ ops' = [ops EXCEPT ![n] = o]
      /\ \A i \in OpIds : result[i] # "none" <=> i < n
  BY NextIdFresh DEF IInv, Typed
<1> HIDE DEF n
<1>2. /\ \A i \in OpIds : i # n => result'[i] = result[i] /\ ops'[i] = ops[i]
      /\ result'[n] = r /\ ops'[n] = o
  BY <1>1
<1>3. result' \in [OpIds -> Results] /\ ops' \in [OpIds -> Pushed]
  BY <1>1 DEF Results
<1>4. Numbered'
  <2>1. n \in 0 .. MaxOps
    BY <1>1, BaseFacts DEF OpIds
  <2>2. \A i \in OpIds : result'[i] # "none" <=> i <= n
    BY <1>1, <1>2, <2>1 DEF OpIds
  <2> QED
    BY <2>1, <2>2 DEF Numbered, OpIds
<1>5. \A i : Issued(i) => Issued(i)' /\ ops'[i] = ops[i] /\ i < n
  BY <1>1, <1>2, BaseFacts DEF Issued
<1>6. result[n] = "none" /\ ~Issued(n)
  BY <1>1, BaseFacts DEF Issued
<1>7. ASSUME NEW k \in Keys
      PROVE  Past(k)' = Past(k)
  <2>1. \A i \in Past(k) : Issued(i)
    BY DEF IInv, PastOrder
  <2>2. n # l3[k] /\ ~(n = stray /\ Covers(n, k))
    BY <1>1, <1>6, <2>1 DEF Past
  <2>3. ASSUME NEW i \in OpIds
        PROVE  i \in Past(k)' <=> i \in Past(k)
    <3>1. CASE i # n
      BY <1>2, <3>1 DEF Past, Covers
    <3>2. CASE i = n
      <4>1. n # stray
        BY <1>1, <1>6, BaseFacts DEF IInv, PastOrder
      <4> QED
        BY <1>2, <1>6, <2>2, <3>2, <4>1 DEF Past, Covers
    <3> QED
      BY <3>1, <3>2
  <2> QED
    BY <2>3 DEF Past
<1>8. TrueMeansLanded'
  <2>1. \A i \in OpIds : result'[i] = "true" => i # n
    BY <1>2
  <2> QED
    BY <1>2, <2>1 DEF IInv, TrueMeansLanded, Late
<1>9. Unsettled' \subseteq Unsettled \cup (IF r = "unsettled" THEN {n} ELSE {})
  BY <1>2 DEF Unsettled
<1> QED
  BY <1>2, <1>3, <1>4, <1>5, <1>7, <1>8, <1>9 DEF n

-----------------------------------------------------------------------------
(* Steps that move no operation *)

\* A call is sent, fails, is retried or lands: the chain's stage and landed change and
\* what it holds does not.
LEMMA StageStep ==
  ASSUME IInv, NEW id \in Ids, NEW st \in {"sent", "backoff"}, NEW ld \in BOOLEAN,
         chains[id].stage \in {"ready", "sent", "backoff"},
         chains' = [chains EXCEPT ![id] = [@ EXCEPT !.stage = st, !.landed = ld]],
         result' = result, ops' = ops
  PROVE  /\ chains' \in [Ids -> Chain]
         /\ \A i \in Ids : i # id => chains'[i] = chains[i]
         /\ chains'[id].stage = st /\ chains'[id].landed = ld
         /\ \A i \in Ids : Holds(i)' = Holds(i) /\ chains'[i].inflight = chains[i].inflight
         /\ ChainsOK' /\ ClearOrder' /\ Accounted' /\ Barrier'
         /\ Waiting' = Waiting /\ Claimed' = Claimed /\ Wire' = Wire \cup {id}
<1>1. chains \in [Ids -> Chain] /\ chains[id] \in Chain
  BY DEF IInv, Typed
<1> DEFINE d == [chains[id] EXCEPT !.stage = st, !.landed = ld]
<1>2. /\ d \in Chain /\ d.stage = st /\ d.landed = ld
      /\ d.pending = chains[id].pending /\ d.settle = chains[id].settle
      /\ d.inflight = chains[id].inflight /\ d.sending = chains[id].sending
  BY <1>1 DEF Chain, Stages
<1>3. chains' = [chains EXCEPT ![id] = d]
  BY <1>1
<1> HIDE DEF d
<1>4. /\ chains' \in [Ids -> Chain]
      /\ \A i \in Ids : i # id => chains'[i] = chains[i]
      /\ chains'[id] = d
  BY <1>1, <1>2, <1>3
<1>5. \A i \in Ids : /\ chains'[i].pending = chains[i].pending
                     /\ chains'[i].settle = chains[i].settle
                     /\ chains'[i].inflight = chains[i].inflight
                     /\ chains'[i].sending = chains[i].sending
  BY <1>2, <1>4
<1>6. /\ Waiting' = Waiting /\ Claimed' = Claimed
      /\ \A i \in Ids : Holds(i)' = Holds(i)
  BY <1>5 DEF Waiting, Claimed, Holds
<1>7. Wire' = Wire \cup {id}
  BY <1>2, <1>4 DEF Wire
<1>8. ChainsOK'
  <2>1. \A i \in Ids : OpOK(i, chains[i].pending, chains[i].settle)
                       /\ OpOK(i, chains[i].inflight, chains[i].sending)
    BY DEF IInv, ChainsOK, ChainOK
  <2>2. \A i \in Ids : OpOK(i, chains[i].pending, chains[i].settle)'
                       /\ OpOK(i, chains[i].inflight, chains[i].sending)'
    BY <1>5, <2>1 DEF OpOK, Issued
  <2>3. ASSUME NEW i \in Ids PROVE ChainOK(i, chains[i])'
    <3>1. ChainOK(i, chains[i])
      BY DEF IInv, ChainsOK
    <3>2. CASE i # id
      BY <1>4, <2>2, <3>1, <3>2 DEF ChainOK
    <3>3. CASE i = id
      BY <1>2, <1>4, <2>2, <3>1, <3>3 DEF ChainOK
    <3> QED
      BY <3>2, <3>3
  <2> QED
    BY <2>3 DEF ChainsOK
<1>9. ClearOrder'
  <2>1. \A k \in Keys : k \in Ids
    BY BaseFacts
  <2> QED
    BY <1>5, <1>6, <2>1, BaseFacts DEF IInv, ClearOrder
<1>10. Accounted'
  BY <1>5 DEF IInv, Accounted, Unsettled, Settled
<1>11. Barrier'
  <2>1. CASE id = ClearId
    BY <1>7, <2>1 DEF IInv, Barrier
  <2>2. CASE id # ClearId
    <3>1. chains[id].stage \in {"sent", "backoff"}
      BY <2>2 DEF IInv, ChainsOK, ChainOK
    <3>2. Wire' = Wire
      BY <1>7, <3>1 DEF Wire
    <3> QED
      BY <1>4, <2>2, <3>2, BaseFacts DEF IInv, Barrier
  <2> QED
    BY <2>1, <2>2
<1> QED
  BY <1>2, <1>4, <1>5, <1>6, <1>7, <1>8, <1>9, <1>10, <1>11

\* What a key has seen grows by the operation that lands, or that is given up on the
\* wire, at most: nothing still to take effect on the key is older.
LEMMA FlightOrder ==
  ASSUME IInv, NEW id \in Ids, chains[id].stage \in {"sent", "backoff"},
         NEW k \in Keys, Covers(chains[id].inflight.id, k)
  PROVE  /\ id \in {k, ClearId}
         /\ \A x \in Holds(k) \cup Holds(ClearId) : chains[id].inflight.id <= x.id
<1> DEFINE n == chains[id].inflight.id
<1>1. ChainOK(id, chains[id]) /\ ChainOK(k, chains[k]) /\ ChainOK(ClearId, chains[ClearId])
  BY BaseFacts DEF IInv, ChainsOK
<1>2. chains[id].inflight # NoOp /\ Issued(n) /\ ops[n].key = id
  BY <1>1 DEF ChainOK, OpOK
<1>3. id \in {k, ClearId}
  BY <1>2 DEF Covers
<1>4. /\ n \in Nat
      /\ \A i \in Ids : chains[i].pending.id \in Nat /\ chains[i].inflight.id \in Nat
  BY ChainType, BaseFacts DEF IInv, OpType
<1>5. CASE id = k
  <2>1. \A x \in Holds(ClearId) : n < x.id
    BY <1>2, <1>5 DEF IInv, ClearOrder
  <2>2. \A x \in Holds(k) : n <= x.id
    BY <1>1, <1>2, <1>4, <1>5, BaseFacts DEF Holds, ChainOK
  <2> QED
    BY <1>3, <1>4, <2>1, <2>2, BaseFacts DEF Holds
<1>6. CASE id = ClearId
  <2>1. chains[k].inflight = NoOp
    <3>1. Wire \subseteq {ClearId}
      BY <1>6 DEF IInv, Barrier
    <3>2. chains[k].stage \notin {"sent", "backoff"}
      BY <3>1, BaseFacts DEF Wire
    <3>3. chains[k].stage \notin {"wire", "ready"}
      BY <1>1, BaseFacts DEF ChainOK
    <3> QED
      BY <1>1, <3>2, <3>3 DEF ChainOK
  <2>2. chains[id].inflight \in Holds(ClearId)
    BY <1>2, <1>6 DEF Holds
  <2>3. \A x \in Holds(k) : n < x.id
    BY <2>1, <2>2 DEF Holds, IInv, ClearOrder
  <2>4. \A x \in Holds(ClearId) : n <= x.id
    BY <1>1, <1>2, <1>4, <1>6, BaseFacts DEF Holds, ChainOK
  <2> QED
    BY <1>3, <1>4, <2>3, <2>4, BaseFacts DEF Holds
<1> QED
  BY <1>3, <1>5, <1>6

\* The order is kept when what a key has seen grows by nothing younger than an operation
\* on the wire of that key, and nothing new is held.
LEMMA PastStep ==
  ASSUME IInv, NEW id \in Ids, chains[id].stage \in {"sent", "backoff"},
         \A k \in Keys : \A i \in Past(k)' :
           \/ i \in Past(k)
           \/ Issued(i) /\ i <= chains[id].inflight.id /\ Covers(chains[id].inflight.id, k),
         \A i : Issued(i) => Issued(i)',
         \A i \in Ids : Holds(i)' \subseteq Holds(i),
         stray' \in {stray, chains[id].inflight.id}
  PROVE  PastOrder'
<1> DEFINE n == chains[id].inflight.id
<1>1. Issued(n) /\ n \in Nat
  BY BaseFacts DEF IInv, ChainsOK, ChainOK, OpOK, Issued
<1>2. stray' # 0 => Issued(stray')
  BY <1>1 DEF IInv, PastOrder
<1>3. ASSUME NEW k \in Keys, NEW i \in Past(k)'
      PROVE  /\ Issued(i)
             /\ \A x \in Holds(k) \cup Holds(ClearId) : i <= x.id
  <2>1. CASE i \in Past(k)
    BY <2>1 DEF IInv, PastOrder
  <2>2. CASE Issued(i) /\ i <= n /\ Covers(n, k)
    <3>1. \A x \in Holds(k) \cup Holds(ClearId) : n <= x.id
      BY <2>2, FlightOrder
    <3>2. \A x \in Holds(k) \cup Holds(ClearId) : x.id \in Nat
      BY ChainType, BaseFacts DEF IInv, OpType, Holds
    <3> QED
      BY <1>1, <2>2, <3>1, <3>2, BaseFacts DEF Issued
  <2> QED
    BY <1>3, <2>1, <2>2
<1>4. \A k \in Keys : k \in Ids
  BY BaseFacts
<1>5. ASSUME NEW k \in Keys, NEW i \in Past(k)'
      PROVE  /\ Issued(i)'
             /\ \A x \in Holds(k)' \cup Holds(ClearId)' : i <= x.id
  <2>1. Holds(k)' \subseteq Holds(k) /\ Holds(ClearId)' \subseteq Holds(ClearId)
    BY <1>4, BaseFacts
  <2> QED
    BY <1>3, <1>5, <2>1
<1>6. stray' # 0 => Issued(stray)'
  BY <1>2 DEF Issued
<1> QED
  BY <1>5, <1>6 DEF PastOrder

\* A call may be given up once, and then stays so; until it lands nothing has changed.
LEMMA StrayStep ==
  ASSUME IInv, NEW id \in Ids, chains[id].stage \in {"sent", "backoff"},
         l3' = l3, result' = result, ops' = ops,
         stray' = stray \/ (stray = 0 /\ stray' = chains[id].inflight.id)
  PROVE  /\ stray' \in 0 .. MaxOps
         /\ \A k \in Keys : Late(l3[k]) => Late(l3[k])'
         /\ TrueMeansLanded'
         /\ \A k \in Keys : \A i \in Past(k)' :
              \/ i \in Past(k)
              \/ Issued(i) /\ i <= chains[id].inflight.id
                 /\ Covers(chains[id].inflight.id, k)
<1> DEFINE n == chains[id].inflight.id
<1>1. Issued(n) /\ n \in 0 .. MaxOps /\ n \in Nat
  BY BaseFacts DEF IInv, ChainsOK, ChainOK, OpOK, Issued, OpIds
<1>2. stray' \in 0 .. MaxOps
  BY <1>1 DEF IInv, Typed
<1> HIDE DEF n
<1>3. \A k \in Keys : Late(l3[k]) => Late(l3[k])'
  BY DEF Late
<1>4. TrueMeansLanded'
  BY <1>3 DEF IInv, TrueMeansLanded, Late
<1>5. stray' = stray \/ stray' = n
  BY DEF n
<1>6. ASSUME NEW k \in Keys, NEW i \in Past(k)'
      PROVE  i \in Past(k) \/ (Issued(i) /\ i <= n /\ Covers(n, k))
  <2>1. i \in OpIds
    BY DEF Past
  <2>2. \/ i = l3[k] \/ (i = stray' /\ Covers(i, k)) \/ (result[i] = "true" /\ Covers(i, k))
    BY DEF Past, Covers
  <2>3. CASE i = stray' /\ Covers(i, k) /\ stray' = n
    BY <1>1, <2>3
  <2>4. CASE ~(i = stray' /\ Covers(i, k) /\ stray' = n)
    BY <1>5, <2>1, <2>2, <2>4 DEF Past
  <2> QED
    BY <2>3, <2>4
<1> QED
  BY <1>2, <1>3, <1>4, <1>6 DEF n

\* A failed attempt is put off.
LEMMA BackoffIInv ==
  ASSUME IInv, NEW id \in Ids, chains[id].stage = "sent", Backoff(id), l3' = l3,
         stray' = stray \/ (stray = 0 /\ stray' = chains[id].inflight.id)
  PROVE  IInv'
<1>1. chains[id] \in Chain /\ chains[id].landed \in BOOLEAN
  BY ChainType DEF IInv
<1> DEFINE ld == chains[id].landed
<1>2. /\ chains' = [chains EXCEPT ![id] = [@ EXCEPT !.stage = "backoff", !.landed = ld]]
      /\ result' = result /\ ops' = ops /\ UNCHANGED <<counters, closed, idle>>
  BY <1>1 DEF Backoff, IInv, Typed, Chain
<1> HIDE DEF ld
<1>3. ld \in BOOLEAN
  BY <1>1 DEF ld
<1>4. /\ chains' \in [Ids -> Chain]
      /\ \A i \in Ids : i # id => chains'[i] = chains[i]
      /\ chains'[id].stage = "backoff"
      /\ \A i \in Ids : Holds(i)' = Holds(i) /\ chains'[i].inflight = chains[i].inflight
      /\ ChainsOK' /\ ClearOrder' /\ Accounted' /\ Barrier'
      /\ Waiting' = Waiting /\ Claimed' = Claimed /\ Wire' = Wire \cup {id}
  BY <1>2, <1>3, StageStep
<1>5. /\ stray' \in 0 .. MaxOps
      /\ \A k \in Keys : Late(l3[k]) => Late(l3[k])'
      /\ TrueMeansLanded'
      /\ \A k \in Keys : \A i \in Past(k)' :
           \/ i \in Past(k)
           \/ Issued(i) /\ i <= chains[id].inflight.id /\ Covers(chains[id].inflight.id, k)
  BY <1>2, StrayStep
<1>6. Typed' /\ Numbered'
  BY <1>2, <1>4, <1>5 DEF IInv, Typed, Numbered, counters, Ids, OpIds, Results, Pushed
<1>7. CountsOK'
  <2>1. Wire' = Wire
    BY <1>4 DEF Wire
  <2> QED
    BY <1>2, <1>4, <2>1 DEF IInv, CountsOK, counters
<1>8. PastOrder'
  BY <1>2, <1>4, <1>5, PastStep DEF Issued
<1>9. LandedOK'
  BY <1>2, <1>4, <1>5 DEF IInv, LandedOK, Late
<1> QED
  BY <1>4, <1>5, <1>6, <1>7, <1>8, <1>9 DEF IInv

\* The next attempt.
LEMMA RetryIInv ==
  ASSUME IInv, NEW id \in Ids, Retry(id)
  PROVE  IInv'
<1>1. chains[id] \in Chain /\ chains[id].stage = "backoff"
  BY ChainType DEF IInv, Retry
<1>2. /\ chains' = [chains EXCEPT ![id] = [@ EXCEPT !.stage = "sent", !.landed = FALSE]]
      /\ UNCHANGED <<counters, closed, idle, result, ops, l3, stray>>
  BY <1>1 DEF Retry, IInv, Typed, Chain
<1>3. /\ chains' \in [Ids -> Chain]
      /\ \A i \in Ids : i # id => chains'[i] = chains[i]
      /\ chains'[id].stage = "sent" /\ chains'[id].landed = FALSE
      /\ \A i \in Ids : Holds(i)' = Holds(i) /\ chains'[i].inflight = chains[i].inflight
      /\ ChainsOK' /\ ClearOrder' /\ Accounted' /\ Barrier'
      /\ Waiting' = Waiting /\ Claimed' = Claimed /\ Wire' = Wire \cup {id}
  BY <1>1, <1>2, StageStep
<1>4. Typed' /\ Numbered'
  BY <1>2, <1>3 DEF IInv, Typed, Numbered, counters
<1>5. CountsOK'
  <2>1. Wire' = Wire
    BY <1>1, <1>3 DEF Wire
  <2> QED
    BY <1>2, <1>3, <2>1 DEF IInv, CountsOK, counters
<1>6. PastOrder'
  <2>1. \A k \in Keys : Past(k)' = Past(k)
    BY <1>2 DEF Past, Covers
  <2> QED
    BY <1>1, <1>2, <1>3, <2>1, PastStep DEF Issued
<1>7. LandedOK' /\ TrueMeansLanded'
  BY <1>2, <1>3 DEF IInv, LandedOK, TrueMeansLanded, Late
<1> QED
  BY <1>3, <1>4, <1>5, <1>6, <1>7 DEF IInv

\* A clear leaves for the adapter when the wire is empty.
LEMMA ClearSendIInv ==
  ASSUME IInv, ClearSend
  PROVE  IInv'
<1> DEFINE ld == chains[ClearId].landed
<1>1. /\ ClearId \in Ids /\ chains[ClearId] \in Chain /\ chains[ClearId].stage = "ready"
      /\ ld = FALSE
  BY ChainType, BaseFacts DEF IInv, ClearSend, ChainsOK, ChainOK
<1>2. /\ chains' = [chains EXCEPT ![ClearId] = [@ EXCEPT !.stage = "sent", !.landed = FALSE]]
      /\ onWire' = onWire + 1
      /\ UNCHANGED <<bytes, count, clears, gate, gates, closed, idle, result, ops, l3, stray>>
  BY <1>1 DEF ClearSend, IInv, Typed, Chain
<1>3. /\ chains' \in [Ids -> Chain]
      /\ \A i \in Ids : i # ClearId => chains'[i] = chains[i]
      /\ chains'[ClearId].stage = "sent" /\ chains'[ClearId].landed = FALSE
      /\ \A i \in Ids : Holds(i)' = Holds(i) /\ chains'[i].inflight = chains[i].inflight
      /\ ChainsOK' /\ ClearOrder' /\ Accounted' /\ Barrier'
      /\ Waiting' = Waiting /\ Claimed' = Claimed /\ Wire' = Wire \cup {ClearId}
  BY <1>1, <1>2, StageStep
<1>4. Typed' /\ Numbered'
  BY <1>2, <1>3 DEF IInv, Typed, Numbered
<1>5. CountsOK'
  <2>1. ClearId \notin Wire
    BY <1>1 DEF Wire
  <2>2. IsFiniteSet(Wire) /\ onWire = Cardinality(Wire)
    BY DEF IInv, CountsOK
  <2>3. IsFiniteSet(Wire') /\ onWire' = Cardinality(Wire')
    BY <1>2, <1>3, <2>1, <2>2, FS_AddElement
  <2> QED
    BY <1>2, <1>3, <2>3 DEF IInv, CountsOK
<1>6. PastOrder'
  <2>1. \A k \in Keys : Past(k)' = Past(k)
    BY <1>2 DEF Past, Covers
  <2> QED
    BY <1>2, <1>3, <2>1, BaseFacts DEF IInv, PastOrder, Issued
<1>7. LandedOK' /\ TrueMeansLanded'
  BY <1>2, <1>3 DEF IInv, LandedOK, TrueMeansLanded, Late
<1> QED
  BY <1>3, <1>4, <1>5, <1>6, <1>7 DEF IInv

\* A call takes effect in L3: nothing younger has, and nothing acknowledged is undone.
LEMMA LandIInv ==
  ASSUME IInv, NEW id \in Ids, Land(id)
  PROVE  /\ IInv'
         /\ \A k \in Keys : l3'[k] >= l3[k]
<1> DEFINE n == chains[id].inflight.id
<1>1. /\ chains[id] \in Chain /\ chains[id].stage = "sent"
      /\ chains[id].inflight # NoOp /\ Issued(n) /\ ops[n].key = id
      /\ n \in OpIds /\ n \in 0 .. MaxOps /\ n \in Nat /\ n # 0
  BY ChainType, BaseFacts DEF IInv, Land, ChainsOK, ChainOK, OpOK, Issued, OpIds
<1>2. /\ chains' = [chains EXCEPT ![id] = [@ EXCEPT !.stage = "sent", !.landed = TRUE]]
      /\ UNCHANGED <<counters, closed, idle, result, ops, stray>>
  BY <1>1 DEF Land, IInv, Typed, Chain
<1>3. l3' = [k \in Keys |-> IF Covers(n, k) THEN n ELSE l3[k]]
  BY DEF Land, Effect, Covers
<1>4. /\ chains' \in [Ids -> Chain]
      /\ \A i \in Ids : i # id => chains'[i] = chains[i]
      /\ chains'[id].stage = "sent"
      /\ \A i \in Ids : Holds(i)' = Holds(i) /\ chains'[i].inflight = chains[i].inflight
      /\ ChainsOK' /\ ClearOrder' /\ Accounted' /\ Barrier'
      /\ Waiting' = Waiting /\ Claimed' = Claimed /\ Wire' = Wire \cup {id}
  BY <1>1, <1>2, StageStep
<1>5. \A k \in Keys : Covers(n, k) => id \in {k, ClearId}
  BY <1>1 DEF Covers
<1>6. \A k \in Keys : l3[k] \in 0 .. MaxOps
  BY DEF IInv, Typed
<1>7. ASSUME NEW k \in Keys, Covers(n, k), NEW i \in Past(k)
      PROVE  i <= n
  <2>1. chains[id].inflight \in Holds(k) \cup Holds(ClearId)
    BY <1>1, <1>5, <1>7 DEF Holds
  <2> QED
    BY <2>1, <1>7 DEF IInv, PastOrder
<1> HIDE DEF n
<1>8. \A k \in Keys : l3'[k] >= l3[k]
  <2> SUFFICES ASSUME NEW k \in Keys, Covers(n, k) PROVE n >= l3[k]
    BY <1>3, <1>6
  <2>1. CASE l3[k] = 0
    BY <1>1, <2>1
  <2>2. CASE l3[k] # 0
    <3>1. l3[k] \in OpIds
      BY <1>6, <2>2, BaseFacts DEF OpIds
    <3>2. l3[k] \in Past(k)
      BY <3>1 DEF Past
    <3>3. l3[k] <= n
      BY <1>7, <3>2
    <3> QED
      BY <1>1, <1>6, <3>3
  <2> QED
    BY <2>1, <2>2
<1>9. Typed' /\ Numbered'
  <2>1. l3' \in [Keys -> 0 .. MaxOps]
    BY <1>1, <1>3, <1>6
  <2> QED
    BY <1>2, <1>4, <2>1 DEF IInv, Typed, Numbered, counters
<1>10. CountsOK'
  <2>1. Wire' = Wire
    BY <1>1, <1>4 DEF Wire
  <2> QED
    BY <1>2, <1>4, <2>1 DEF IInv, CountsOK, counters
<1>11. PastOrder'
  <2>1. ASSUME NEW k \in Keys, NEW i \in Past(k)'
        PROVE  i \in Past(k) \/ (Issued(i) /\ i <= n /\ Covers(n, k))
    <3>1. i \in OpIds
      BY DEF Past
    <3>2. \/ i = l3'[k] \/ (i = stray /\ Covers(i, k)) \/ (result[i] = "true" /\ Covers(i, k))
      BY <1>2 DEF Past, Covers
    <3>3. i = l3'[k] => i = l3[k] \/ (i = n /\ Covers(n, k))
      BY <1>3
    <3> QED
      BY <1>1, <3>1, <3>2, <3>3 DEF Past
  <2>2. /\ \A k \in Keys : \A i \in Past(k)' :
             \/ i \in Past(k)
             \/ Issued(i) /\ i <= chains[id].inflight.id /\ Covers(chains[id].inflight.id, k)
        /\ \A i : Issued(i) => Issued(i)'
        /\ \A i \in Ids : Holds(i)' \subseteq Holds(i)
        /\ stray' \in {stray, chains[id].inflight.id}
    BY <1>2, <1>4, <2>1 DEF Issued, n
  <2>3. chains[id].stage \in {"sent", "backoff"}
    BY <1>1
  <2> QED
    BY <2>2, <2>3, PastStep
<1>12. LandedOK'
  <2> SUFFICES ASSUME NEW i \in Ids, chains'[i].stage = "sent", chains'[i].landed,
                      NEW k \in Keys, i \in {k, ClearId}
               PROVE  l3'[k] >= chains[i].inflight.id \/ (l3'[k] = stray /\ l3'[k] # 0)
    BY <1>2, <1>4 DEF LandedOK, Late
  <2>1. CASE i = id
    <3>1. Covers(n, k)
      BY <1>1, <2>1 DEF Covers
    <3> QED
      BY <1>1, <1>3, <2>1, <3>1 DEF n
  <2>2. CASE i # id
    <3>1. chains[i].stage = "sent" /\ chains[i].landed
      BY <1>4, <2>2
    <3>2. {i, id} \subseteq Wire
      BY <1>1, <3>1 DEF Wire
    <3>3. ~Covers(n, k)
      <4> SUFFICES ASSUME id \in {k, ClearId} PROVE FALSE
        BY <1>5
      <4>1. ClearId \in {i, id}
        BY <2>2
      <4>2. chains[ClearId].stage = "sent"
        BY <1>1, <3>1, <4>1
      <4>3. Wire \subseteq {ClearId}
        BY <4>2 DEF IInv, Barrier
      <4> QED
        BY <2>2, <3>2, <4>3
    <3>4. l3'[k] = l3[k]
      BY <1>3, <3>3
    <3> QED
      BY <3>1, <3>4 DEF IInv, LandedOK, Late
  <2> QED
    BY <2>1, <2>2
<1>13. TrueMeansLanded'
  <2> SUFFICES ASSUME NEW i \in OpIds, result[i] = "true", NEW k \in Keys, Covers(i, k)
               PROVE  l3'[k] >= i \/ (l3'[k] = stray /\ l3'[k] # 0)
    BY <1>2 DEF TrueMeansLanded, Late, Covers
  <2>1. CASE Covers(n, k)
    <3>1. i \in Past(k)
      BY DEF Past
    <3>2. i <= n /\ l3'[k] = n
      BY <1>3, <1>7, <2>1, <3>1
    <3> QED
      BY <1>1, <3>2, BaseFacts
  <2>2. CASE ~Covers(n, k)
    <3>1. l3'[k] = l3[k]
      BY <1>3, <2>2
    <3> QED
      BY <3>1 DEF IInv, TrueMeansLanded, Late, Covers
  <2> QED
    BY <2>1, <2>2
<1> QED
  BY <1>4, <1>8, <1>9, <1>10, <1>11, <1>12, <1>13 DEF IInv

\* The call that was given up takes effect, perhaps on top of a younger one.
LEMMA LandLateIInv ==
  ASSUME IInv, LandLate
  PROVE  /\ IInv'
         /\ \A k \in Keys : l3'[k] >= l3[k] \/ Late(l3'[k])
<1>1. /\ stray # 0 /\ UNCHANGED <<chains, counters, closed, idle, result, ops, stray>>
      /\ l3' = [k \in Keys |-> IF Covers(stray, k) THEN stray ELSE l3[k]]
  BY DEF LandLate, Effect, Covers
<1>2. stray \in 0 .. MaxOps /\ \A k \in Keys : l3[k] \in 0 .. MaxOps
  BY DEF IInv, Typed
<1>3. Typed'
  <2>1. l3' \in [Keys -> 0 .. MaxOps]
    BY <1>1, <1>2
  <2> QED
    BY <1>1, <2>1 DEF IInv, Typed, counters
<1>4. \A k \in Keys : l3'[k] = l3[k] \/ (l3'[k] = stray /\ stray # 0 /\ Covers(stray, k))
  BY <1>1
<1>5. \A k \in Keys : l3'[k] >= l3[k] \/ Late(l3'[k])
  BY <1>2, <1>4 DEF Late
<1>6. /\ Numbered' /\ CountsOK' /\ Barrier' /\ ClearOrder' /\ Accounted'
  BY <1>1 DEF IInv, Numbered, CountsOK, Barrier, ClearOrder, Accounted, counters, Waiting,
     Claimed, Wire, Holds, Unsettled, Settled
<1>7. ChainsOK'
  BY <1>1 DEF IInv, ChainsOK, ChainOK, OpOK, Issued
<1>8. PastOrder'
  <2>1. \A k \in Keys : Past(k)' \subseteq Past(k)
    BY <1>1, <1>4 DEF Past, Covers
  <2> QED
    BY <1>1, <2>1 DEF IInv, PastOrder, Issued, Holds
<1>9. LandedOK' /\ TrueMeansLanded'
  BY <1>1, <1>4 DEF IInv, LandedOK, TrueMeansLanded, Late
<1> QED
  BY <1>3, <1>5, <1>6, <1>7, <1>8, <1>9 DEF IInv

\* A drain(), close(), and every step that changes neither.
LEMMA QuietIInv ==
  ASSUME IInv,
         UNCHANGED <<chains, count, clears, gate, gates, onWire, result, ops, l3, stray>>,
         idle' \subseteq OpIds
  PROVE  IInv'
<1>1. Typed' /\ Numbered'
  BY DEF IInv, Typed, Numbered
<1>2. /\ CountsOK' /\ Barrier' /\ ClearOrder' /\ Accounted'
  BY DEF IInv, CountsOK, Barrier, ClearOrder, Accounted, Waiting,
     Claimed, Wire, Holds, Unsettled, Settled
<1>3. ChainsOK'
  BY DEF IInv, ChainsOK, ChainOK, OpOK, Issued
<1>4. PastOrder' /\ LandedOK' /\ TrueMeansLanded'
  BY DEF IInv, PastOrder, Past, Covers, Issued, Holds, LandedOK, TrueMeansLanded, Late
<1> QED
  BY <1>1, <1>2, <1>3, <1>4 DEF IInv

-----------------------------------------------------------------------------
(* Pushes *)

\* A push past the byte bound is refused.
LEMMA PushShedIInv ==
  ASSUME IInv, NEW k \in Keys, NEW kind \in Kinds[k], PushShed(k, kind)
  PROVE  IInv'
<1> DEFINE o == [key |-> k, kind |-> kind]
<1>1. /\ o \in Pushed /\ NextId \in OpIds
      /\ result' = [result EXCEPT ![NextId] = "false"] /\ ops' = [ops EXCEPT ![NextId] = o]
      /\ l3' = l3 /\ stray' = stray
      /\ UNCHANGED <<chains, counters, closed, idle>>
  BY BaseFacts DEF PushShed, Pushed
<1> HIDE DEF o
<1>2. /\ result' \in [OpIds -> Results] /\ ops' \in [OpIds -> Pushed]
      /\ Numbered' /\ TrueMeansLanded'
      /\ \A i : Issued(i) => Issued(i)' /\ ops'[i] = ops[i] /\ i < NextId
      /\ \A i \in Keys : Past(i)' = Past(i)
      /\ Unsettled' \subseteq Unsettled \cup {}
  BY <1>1, NewNumber
<1>3. Typed'
  BY <1>1, <1>2 DEF IInv, Typed, counters
<1>4. CountsOK' /\ Barrier' /\ ClearOrder'
  BY <1>1 DEF IInv, CountsOK, Barrier, ClearOrder, counters, Waiting, Claimed, Wire, Holds
<1>5. Accounted'
  BY <1>1, <1>2 DEF IInv, Accounted, Settled
<1>6. ChainsOK'
  <2>1. \A id \in Ids : OpOK(id, chains[id].pending, chains[id].settle)'
                        /\ OpOK(id, chains[id].inflight, chains[id].sending)'
    BY <1>1, <1>2 DEF IInv, ChainsOK, ChainOK, OpOK
  <2> QED
    BY <1>1, <2>1 DEF IInv, ChainsOK, ChainOK
<1>7. PastOrder'
  <2>1. stray' # 0 => Issued(stray)'
    BY <1>1, <1>2 DEF IInv, PastOrder
  <2> QED
    BY <1>1, <1>2, <2>1 DEF IInv, PastOrder, Holds
<1>8. LandedOK'
  BY <1>1 DEF IInv, LandedOK, Late
<1> QED
  BY <1>2, <1>3, <1>4, <1>5, <1>6, <1>7, <1>8 DEF IInv

\* A push puts the operation behind what its chain does, replacing what waits there, or
\* sends it at once.
LEMMA PlaceShape ==
  ASSUME IInv, NEW k \in Keys, NEW op \in OpType, op # NoOp, op.id \in OpIds, Place(k, op)
  PROVE  \E d \in Chain :
    /\ chains' = [chains EXCEPT ![k] = d]
    /\ \/ /\ d.pending = op
          /\ d.settle = IF chains[k].pending = NoOp THEN {op.id}
                                                    ELSE chains[k].settle \cup {op.id}
          /\ d.inflight = chains[k].inflight /\ d.sending = chains[k].sending
          /\ (d.landed <=> chains[k].landed)
          /\ \/ d.stage = chains[k].stage /\ d.stage # "none"
             \/ d.stage = "gate" /\ chains[k].stage = "none"
          /\ onWire' = onWire
          /\ count' = IF chains[k].pending = NoOp THEN count + 1 ELSE count
       \/ /\ chains[k].pending = NoOp /\ chains[k].stage = "none" /\ gate = 0
          /\ d.pending = NoOp /\ d.settle = {}
          /\ d.inflight = op /\ d.sending = {op.id}
          /\ d.stage = "sent" /\ ~d.landed
          /\ onWire' = onWire + 1 /\ count' = count + 1
<1> DEFINE c == chains[k]
<1>1. /\ k \in Ids /\ k # ClearId /\ c \in Chain /\ gate \in Nat /\ onWire \in Nat
      /\ count \in Int /\ ChainOK(k, c)
  BY ChainType, BaseFacts DEF IInv, Typed, ChainsOK
<1>2. CASE c.pending # NoOp
  <2> DEFINE d == [c EXCEPT !.pending = op, !.settle = @ \cup {op.id}]
  <2>1. /\ chains' = [chains EXCEPT ![k] = d] /\ count' = count /\ onWire' = onWire
    BY <1>2 DEF Place, Replace
  <2>2. /\ d \in Chain /\ d.pending = op /\ d.settle = c.settle \cup {op.id}
        /\ d.inflight = c.inflight /\ d.sending = c.sending /\ (d.landed <=> c.landed)
        /\ d.stage = c.stage
    BY <1>1 DEF Chain
  <2>3. c.stage # "none"
    BY <1>1, <1>2 DEF ChainOK
  <2> QED
    BY <1>2, <2>1, <2>2, <2>3
<1>3. CASE c.pending = NoOp
  <2> DEFINE put == [c EXCEPT !.pending = op, !.settle = {op.id}]
             d == IF Busy(c) THEN put ELSE Loop(k, put, gate, onWire)
  <2>1. /\ chains' = [chains EXCEPT ![k] = d] /\ count' = count + 1
        /\ onWire' = onWire + (IF Busy(c) THEN 0 ELSE Sent(d))
    BY <1>3 DEF Place
  <2>2. /\ put \in Chain /\ put.pending = op /\ put.settle = {op.id}
        /\ put.inflight = c.inflight /\ put.sending = c.sending /\ (put.landed <=> c.landed)
        /\ put.stage = c.stage
    BY <1>1 DEF Chain
  <2> HIDE DEF put
  <2>3. CASE c.stage # "none"
    <3>1. d = put /\ onWire' = onWire
      BY <1>1, <2>1, <2>3 DEF Busy
    <3> QED
      BY <1>3, <2>1, <2>2, <2>3, <3>1
  <2>4. CASE c.stage = "none"
    <3> DEFINE e == Loop(k, put, gate, onWire)
    <3>1. d = e
      BY <2>4 DEF Busy
    <3>2. onWire' = onWire + Sent(e)
      BY <2>1, <2>4, <3>1 DEF Busy
    <3>3. /\ e \in Chain
          /\ \/ /\ gate # 0 /\ e.pending = op /\ e.settle = {op.id}
                /\ e.inflight = c.inflight /\ e.sending = c.sending
                /\ e.stage = "gate" /\ (e.landed <=> c.landed)
             \/ /\ gate = 0 /\ e.pending = NoOp /\ e.settle = {}
                /\ e.inflight = op /\ e.sending = {op.id}
                /\ ~e.landed /\ e.stage = "sent"
      <4>1. e = Loop(k, put, gate, onWire)
        OBVIOUS
      <4> HIDE DEF e
      <4>2. /\ e \in Chain
            /\ \/ put.pending = NoOp /\ e = NoChain
               \/ /\ put.pending # NoOp /\ k # ClearId /\ gate # 0
                  /\ e.pending = put.pending /\ e.settle = put.settle
                  /\ e.inflight = put.inflight /\ e.sending = put.sending
                  /\ e.stage = "gate" /\ (e.landed <=> put.landed)
               \/ /\ put.pending # NoOp /\ (k = ClearId \/ gate = 0)
                  /\ e.pending = NoOp /\ e.settle = {}
                  /\ e.inflight = put.pending /\ e.sending = put.settle
                  /\ ~e.landed
                  /\ k # ClearId => e.stage = "sent"
        BY <1>1, <2>2, <4>1, LoopCases
      <4> QED
        BY <1>1, <2>2, <4>2
    <3>4. chains' = [chains EXCEPT ![k] = e]
      BY <2>1, <3>1
    <3> HIDE DEF e
    <3>5. /\ e.stage = "gate" => onWire' = onWire
          /\ e.stage = "sent" => onWire' = onWire + 1
      BY <1>1, <3>2 DEF Sent
    <3>6. CASE e.stage = "gate"
      BY <1>3, <2>1, <2>4, <3>3, <3>4, <3>5, <3>6
    <3>7. CASE e.stage = "sent"
      BY <1>3, <2>1, <2>4, <3>3, <3>4, <3>5, <3>7
    <3> QED
      BY <3>3, <3>6, <3>7
  <2> QED
    BY <2>3, <2>4
<1> QED
  BY <1>2, <1>3

\* No clear is held while the gate is open.
LEMMA GateOpen ==
  ASSUME IInv, gate = 0
  PROVE  /\ Holds(ClearId) = {}
         /\ chains[ClearId].pending = NoOp /\ chains[ClearId].inflight = NoOp
         /\ chains[ClearId].stage \notin {"wire", "ready", "sent", "backoff"}
<1>1. clears = 0
  BY DEF IInv, CountsOK, Typed
<1>2. ClearId \notin Waiting /\ ClearId \notin Claimed
  BY <1>1 DEF IInv, CountsOK
<1>3. chains[ClearId].pending = NoOp /\ chains[ClearId].inflight = NoOp
  BY <1>2, BaseFacts DEF Waiting, Claimed
<1> QED
  BY <1>3, BaseFacts DEF Holds, IInv, ChainsOK, ChainOK

\* A set or a delete is queued.
LEMMA PushIInv ==
  ASSUME IInv, NEW k \in Keys, NEW kind \in Kinds[k], Push(k, kind)
  PROVE  IInv'
<1> DEFINE o == [key |-> k, kind |-> kind]
           c == chains[k]
<1>1. PICK n \in OpIds : n = NextId
  BY DEF Push
<1>2. /\ o \in Pushed /\ o.key = k /\ NextId \in OpIds
      /\ result' = [result EXCEPT ![NextId] = "unsettled"]
      /\ ops' = [ops EXCEPT ![NextId] = o]
      /\ l3' = l3 /\ stray' = stray
      /\ UNCHANGED <<clears, gate, gates, closed, idle>>
      /\ Place(k, Op(NextId, kind))
  BY BaseFacts DEF Push, Pushed
<1> HIDE DEF o
<1>3. PICK op \in OpType : op # NoOp /\ op.id = n /\ op.sup = {} /\ Place(k, op)
  <2>1. /\ Op(n, kind) \in OpType /\ Op(n, kind) # NoOp
        /\ Op(n, kind).id = n /\ Op(n, kind).sup = {}
    BY NewOpType, BaseFacts
  <2>2. Place(k, Op(n, kind))
    BY <1>1, <1>2
  <2> QED
    BY <2>1, <2>2
<1>4. /\ result' \in [OpIds -> Results] /\ ops' \in [OpIds -> Pushed]
      /\ Numbered' /\ TrueMeansLanded'
      /\ \A i : Issued(i) => Issued(i)' /\ ops'[i] = ops[i] /\ i < n
      /\ result'[n] = "unsettled" /\ ops'[n].key = k
      /\ \A i \in Keys : Past(i)' = Past(i)
      /\ Unsettled' \subseteq Unsettled \cup {n}
  BY <1>1, <1>2, NewNumber
<1>5. PICK d \in Chain :
    /\ chains' = [chains EXCEPT ![k] = d]
    /\ \/ /\ d.pending = op
          /\ d.settle = IF c.pending = NoOp THEN {op.id} ELSE c.settle \cup {op.id}
          /\ d.inflight = c.inflight /\ d.sending = c.sending
          /\ (d.landed <=> c.landed)
          /\ \/ d.stage = c.stage /\ d.stage # "none"
             \/ d.stage = "gate" /\ c.stage = "none"
          /\ onWire' = onWire
          /\ count' = IF c.pending = NoOp THEN count + 1 ELSE count
       \/ /\ c.pending = NoOp /\ c.stage = "none" /\ gate = 0
          /\ d.pending = NoOp /\ d.settle = {}
          /\ d.inflight = op /\ d.sending = {op.id}
          /\ d.stage = "sent" /\ ~d.landed
          /\ onWire' = onWire + 1 /\ count' = count + 1
  <2>1. op.id \in OpIds
    BY <1>3
  <2> QED
    BY <1>3, <2>1, PlaceShape, Zenon
<1>6. /\ k \in Ids /\ k # ClearId /\ ClearId \in Ids /\ chains \in [Ids -> Chain]
      /\ ChainOK(k, c) /\ onWire \in Nat /\ count \in Int
  BY BaseFacts DEF IInv, Typed, ChainsOK
<1>7. /\ chains' \in [Ids -> Chain] /\ chains'[k] = d
      /\ \A i \in Ids : i # k => chains'[i] = chains[i]
      /\ chains'[ClearId] = chains[ClearId]
  BY <1>5, <1>6
<1>8. Typed'
  BY <1>2, <1>4, <1>5, <1>6, <1>7 DEF IInv, Typed
<1>9. n \in Nat /\ result'[n] # "none"
  BY <1>4, BaseFacts
<1>10. OpOK(k, c.pending, c.settle) /\ OpOK(k, c.inflight, c.sending)
  BY <1>6 DEF ChainOK
<1>11. \A id \in Ids : \A x \in Holds(id) : Issued(x.id) /\ x.id < n
  BY <1>4 DEF IInv, ChainsOK, ChainOK, OpOK, Holds
<1>12. \A id \in Ids : id # k => ChainOK(id, chains[id])'
  <2> SUFFICES ASSUME NEW id \in Ids, id # k PROVE ChainOK(id, chains[id])'
    OBVIOUS
  <2>1. ChainOK(id, chains[id]) /\ chains'[id] = chains[id]
    BY <1>7 DEF IInv, ChainsOK
  <2>2. /\ OpOK(id, chains[id].pending, chains[id].settle)'
        /\ OpOK(id, chains[id].inflight, chains[id].sending)'
    BY <1>4, <2>1 DEF ChainOK, OpOK
  <2> QED
    BY <2>1, <2>2 DEF ChainOK
<1>13. \A i \in Keys : \A x \in Past(i) : x < n
  BY <1>4 DEF IInv, PastOrder
<1>14. stray' # 0 => Issued(stray)'
  BY <1>2, <1>4 DEF IInv, PastOrder
<1>15. \A id \in Ids : id # k => Holds(id)' = Holds(id)
  BY <1>7 DEF Holds
<1>16. ASSUME NEW i \in Unsettled, NEW id \in Ids, id # k,
              \/ chains[id].pending # NoOp /\ i \in chains[id].settle \cup chains[id].pending.sup
              \/ chains[id].inflight # NoOp /\ i \in Settled(chains[id])
       PROVE  \/ chains'[id].pending # NoOp /\ i \in chains'[id].settle \cup chains'[id].pending.sup
              \/ chains'[id].inflight # NoOp /\ i \in Settled(chains'[id])
  BY <1>7, <1>16
<1>17. CASE d.pending = op
  <2>1. /\ d.settle = IF c.pending = NoOp THEN {n} ELSE c.settle \cup {n}
        /\ d.inflight = c.inflight /\ d.sending = c.sending
        /\ (d.landed <=> c.landed)
        /\ \/ d.stage = c.stage /\ d.stage # "none"
           \/ d.stage = "gate" /\ c.stage = "none"
        /\ onWire' = onWire
        /\ count' = IF c.pending = NoOp THEN count + 1 ELSE count
    BY <1>3, <1>5, <1>17
  <2>2. ChainOK(k, chains[k])'
    <3>1. OpOK(k, d.pending, d.settle)'
      <4>1. \A j \in d.settle : Issued(j)' /\ j <= n /\ ops'[j].key = k
        <5> SUFFICES ASSUME NEW j \in d.settle
                     PROVE  Issued(j)' /\ j <= n /\ ops'[j].key = k
          OBVIOUS
        <5>1. CASE j = n
          BY <1>4, <1>9, <5>1 DEF Issued
        <5>2. CASE c.pending # NoOp /\ j \in c.settle
          <6>1. Issued(j) /\ ops[j].key = k
            BY <1>10, <5>2 DEF OpOK
          <6>2. Issued(j)' /\ ops'[j] = ops[j] /\ j < n
            BY <1>4, <6>1
          <6> QED
            BY <1>9, <6>1, <6>2, BaseFacts DEF Issued
        <5> QED
          BY <2>1, <5>1, <5>2
      <4> QED
        BY <1>3, <1>4, <1>7, <1>9, <1>17, <4>1 DEF OpOK, Issued
    <3>2. OpOK(k, d.inflight, d.sending)'
      BY <1>4, <1>10, <2>1 DEF OpOK
    <3>3. d.inflight # NoOp => d.inflight.id < n
      BY <1>4, <1>10, <2>1 DEF OpOK
    <3> QED
      BY <1>3, <1>6, <1>7, <1>17, <2>1, <3>1, <3>2, <3>3 DEF ChainOK
  <2>3. ChainsOK'
    BY <1>12, <2>2 DEF ChainsOK
  <2>4. Waiting' = Waiting \cup {k} /\ Claimed' = Claimed /\ Wire' = Wire
    <3>1. c.stage = "none" => c.inflight = NoOp
      BY <1>6 DEF ChainOK
    <3> QED
      BY <1>3, <1>6, <1>7, <1>17, <2>1, <3>1 DEF Waiting, Claimed, Wire
  <2>5. CountsOK'
    <3>1. IsFiniteSet(Waiting) /\ count = Cardinality(Waiting) + Cardinality(Claimed)
      BY DEF IInv, CountsOK
    <3>2. /\ IsFiniteSet(Waiting')
          /\ Cardinality(Waiting') = IF k \in Waiting THEN Cardinality(Waiting)
                                                      ELSE Cardinality(Waiting) + 1
      BY <2>4, <3>1, FS_AddElement
    <3>3. k \in Waiting <=> c.pending # NoOp
      BY <1>6 DEF Waiting
    <3>4. Cardinality(Waiting) \in Nat /\ Cardinality(Claimed) \in Nat
      BY FS_CardinalityType DEF IInv, CountsOK
    <3>5. count' = Cardinality(Waiting') + Cardinality(Claimed')
      BY <2>1, <2>4, <3>1, <3>2, <3>3, <3>4
    <3>6. ClearId \in Waiting' <=> ClearId \in Waiting
      BY <1>6, <2>4
    <3> QED
      BY <1>2, <2>1, <2>4, <3>2, <3>5, <3>6 DEF IInv, CountsOK
  <2>6. Barrier'
    BY <1>7, <2>4 DEF IInv, Barrier
  <2>7. ClearOrder'
    <3> SUFFICES ASSUME NEW i \in Keys, NEW x \in Holds(ClearId)
                 PROVE  /\ chains'[i].pending # NoOp => x.id < chains'[i].pending.id
                        /\ chains'[i].inflight # NoOp => chains'[i].inflight.id < x.id
      BY <1>6, <1>15 DEF ClearOrder
    <3>1. CASE i # k
      BY <1>7, <3>1, BaseFacts DEF IInv, ClearOrder
    <3>2. CASE i = k
      BY <1>3, <1>6, <1>7, <1>11, <1>17, <2>1, <3>2 DEF IInv, ClearOrder
    <3> QED
      BY <3>1, <3>2
  <2>8. PastOrder'
    <3>1. Holds(k)' \subseteq Holds(k) \cup {op}
      BY <1>7, <1>17, <2>1 DEF Holds
    <3>2. ASSUME NEW i \in Keys, NEW x \in Past(i)
          PROVE  /\ Issued(x)'
                 /\ \A y \in Holds(i)' \cup Holds(ClearId)' : x <= y.id
      <4>1. \A y \in Holds(i) \cup Holds(ClearId) : x <= y.id
        BY <3>2 DEF IInv, PastOrder
      <4>2. x <= n
        BY <1>9, <1>13, <3>2, BaseFacts DEF Past
      <4>3. Holds(i)' \cup Holds(ClearId)' \subseteq Holds(i) \cup Holds(ClearId) \cup {op}
        BY <1>6, <1>15, <3>1, BaseFacts
      <4>4. Issued(x)'
        BY <1>4, <3>2 DEF IInv, PastOrder
      <4> QED
        BY <1>3, <4>1, <4>2, <4>3, <4>4
    <3> QED
      BY <1>4, <1>14, <3>2 DEF PastOrder
  <2>9. LandedOK'
    BY <1>2, <1>7, <2>1 DEF IInv, LandedOK, Late
  <2>10. Accounted'
    <3> SUFFICES ASSUME NEW i \in Unsettled'
                 PROVE  \E id \in Ids :
           \/ chains'[id].pending # NoOp /\ i \in chains'[id].settle \cup chains'[id].pending.sup
           \/ chains'[id].inflight # NoOp /\ i \in Settled(chains'[id])
      BY DEF Accounted
    <3>1. CASE i = n
      BY <1>3, <1>6, <1>7, <1>17, <2>1, <3>1
    <3>2. CASE i \in Unsettled
      <4>1. PICK id \in Ids :
              \/ chains[id].pending # NoOp /\ i \in chains[id].settle \cup chains[id].pending.sup
              \/ chains[id].inflight # NoOp /\ i \in Settled(chains[id])
        BY <3>2 DEF IInv, Accounted
      <4>2. CASE id # k
        BY <1>16, <3>2, <4>1, <4>2
      <4>3. CASE id = k
        <5>1. c.pending # NoOp => c.pending.sup = {}
          BY <1>6, <1>10 DEF OpOK
        <5> QED
          BY <1>3, <1>6, <1>7, <1>17, <2>1, <4>1, <4>3, <5>1 DEF Settled
      <4> QED
        BY <4>2, <4>3
    <3> QED
      BY <1>4, <3>1, <3>2
  <2> QED
    BY <1>4, <1>8, <2>3, <2>5, <2>6, <2>7, <2>8, <2>9, <2>10 DEF IInv
<1>18. CASE d.pending = NoOp
  <2>1. /\ c.pending = NoOp /\ c.stage = "none" /\ gate = 0
        /\ d.settle = {} /\ d.inflight = op /\ d.sending = {n}
        /\ d.stage = "sent" /\ ~d.landed
        /\ onWire' = onWire + 1 /\ count' = count + 1
    BY <1>3, <1>5, <1>18
  <2>2. ChainOK(k, chains[k])'
    <3>1. OpOK(k, d.inflight, d.sending)'
      BY <1>3, <1>4, <1>7, <1>9, <2>1 DEF OpOK, Issued
    <3>2. OpOK(k, d.pending, d.settle)'
      BY <1>18 DEF OpOK
    <3> QED
      BY <1>3, <1>6, <1>7, <1>18, <2>1, <3>1, <3>2 DEF ChainOK
  <2>3. ChainsOK'
    BY <1>12, <2>2 DEF ChainsOK
  <2>4. /\ Waiting' = Waiting /\ Claimed' = Claimed \cup {k} /\ Wire' = Wire \cup {k}
        /\ k \notin Claimed /\ k \notin Wire
    <3>1. c.inflight = NoOp
      BY <1>6, <2>1 DEF ChainOK
    <3> QED
      BY <1>3, <1>6, <1>7, <1>18, <2>1, <3>1 DEF Waiting, Claimed, Wire
  <2>5. CountsOK'
    <3>1. /\ IsFiniteSet(Claimed) /\ IsFiniteSet(Wire) /\ onWire = Cardinality(Wire)
          /\ count = Cardinality(Waiting) + Cardinality(Claimed)
      BY DEF IInv, CountsOK
    <3>2. /\ IsFiniteSet(Claimed') /\ Cardinality(Claimed') = Cardinality(Claimed) + 1
      BY <2>4, <3>1, FS_AddElement
    <3>3. /\ IsFiniteSet(Wire') /\ Cardinality(Wire') = Cardinality(Wire) + 1
      BY <2>4, <3>1, FS_AddElement
    <3>4. Cardinality(Waiting) \in Nat /\ Cardinality(Claimed) \in Nat
      BY FS_CardinalityType DEF IInv, CountsOK
    <3>5. count' = Cardinality(Waiting') + Cardinality(Claimed')
      BY <2>1, <2>4, <3>1, <3>2, <3>4
    <3>6. ClearId \in Claimed' <=> ClearId \in Claimed
      BY <1>6, <2>4
    <3>7. onWire' = Cardinality(Wire')
      BY <2>1, <3>1, <3>3
    <3> QED
      BY <1>2, <2>4, <3>2, <3>3, <3>5, <3>6, <3>7 DEF IInv, CountsOK
  <2>6. Barrier' /\ ClearOrder'
    <3>1. /\ Holds(ClearId)' = {}
          /\ chains'[ClearId].stage \notin {"wire", "ready", "sent", "backoff"}
      BY <1>6, <1>7, <1>15, <2>1, GateOpen
    <3> QED
      BY <3>1 DEF Barrier, ClearOrder
  <2>7. PastOrder'
    <3>1. Holds(k)' \subseteq {op}
      BY <1>7, <1>18, <2>1 DEF Holds
    <3>2. ASSUME NEW i \in Keys, NEW x \in Past(i)
          PROVE  /\ Issued(x)'
                 /\ \A y \in Holds(i)' \cup Holds(ClearId)' : x <= y.id
      <4>1. \A y \in Holds(i) \cup Holds(ClearId) : x <= y.id
        BY <3>2 DEF IInv, PastOrder
      <4>2. x <= n
        BY <1>9, <1>13, <3>2, BaseFacts DEF Past
      <4>3. Holds(i)' \cup Holds(ClearId)' \subseteq Holds(i) \cup Holds(ClearId) \cup {op}
        BY <1>6, <1>15, <3>1, BaseFacts
      <4>4. Issued(x)'
        BY <1>4, <3>2 DEF IInv, PastOrder
      <4> QED
        BY <1>3, <4>1, <4>2, <4>3, <4>4
    <3> QED
      BY <1>4, <1>14, <3>2 DEF PastOrder
  <2>8. LandedOK'
    BY <1>2, <1>7, <2>1 DEF IInv, LandedOK, Late
  <2>9. Accounted'
    <3> SUFFICES ASSUME NEW i \in Unsettled'
                 PROVE  \E id \in Ids :
           \/ chains'[id].pending # NoOp /\ i \in chains'[id].settle \cup chains'[id].pending.sup
           \/ chains'[id].inflight # NoOp /\ i \in Settled(chains'[id])
      BY DEF Accounted
    <3>1. CASE i = n
      BY <1>3, <1>6, <1>7, <2>1, <3>1 DEF Settled
    <3>2. CASE i \in Unsettled
      <4>1. PICK id \in Ids :
              \/ chains[id].pending # NoOp /\ i \in chains[id].settle \cup chains[id].pending.sup
              \/ chains[id].inflight # NoOp /\ i \in Settled(chains[id])
        BY <3>2 DEF IInv, Accounted
      <4>2. id # k
        BY <2>1, <1>6, <4>1 DEF ChainOK
      <4> QED
        BY <1>16, <3>2, <4>1, <4>2
    <3> QED
      BY <1>4, <3>1, <3>2
  <2> QED
    BY <1>4, <1>8, <2>3, <2>5, <2>6, <2>7, <2>8, <2>9 DEF IInv
<1> QED
  BY <1>5, <1>17, <1>18

-----------------------------------------------------------------------------
(* The loop of a chain goes round *)

\* A chain with nothing on the wire: after the head of its loop it holds what it held,
\* still waiting or claimed, and is in order.
LEMMA LoopOK ==
  ASSUME NEW id \in Ids, NEW c \in Chain, c.inflight = NoOp, OpOK(id, c.pending, c.settle),
         NEW g \in Nat, NEW n \in Int, NEW d, d = Loop(id, c, g, n)
  PROVE  /\ d \in Chain /\ ChainOK(id, d)
         /\ \/ /\ d.inflight = NoOp /\ d.pending = c.pending
               /\ c.pending # NoOp => d.settle = c.settle
               /\ \/ d.stage = "none" /\ c.pending = NoOp
                  \/ d.stage = "gate" /\ c.pending # NoOp /\ g # 0 /\ id # ClearId
            \/ /\ c.pending # NoOp /\ (id = ClearId \/ g = 0)
               /\ d.pending = NoOp /\ d.inflight = c.pending /\ d.sending = c.settle
               /\ ~d.landed
               /\ id # ClearId => d.stage = "sent"
               /\ id = ClearId => d.stage = IF n = 0 THEN "ready" ELSE "wire"
<1>1. /\ d \in Chain
      /\ \/ c.pending = NoOp /\ d = NoChain
         \/ /\ c.pending # NoOp /\ id # ClearId /\ g # 0
            /\ d.pending = c.pending /\ d.settle = c.settle
            /\ d.inflight = c.inflight /\ d.sending = c.sending
            /\ d.stage = "gate" /\ (d.landed <=> c.landed)
         \/ /\ c.pending # NoOp /\ (id = ClearId \/ g = 0)
            /\ d.pending = NoOp /\ d.settle = {}
            /\ d.inflight = c.pending /\ d.sending = c.settle
            /\ ~d.landed
            /\ id # ClearId => d.stage = "sent"
            /\ id = ClearId => d.stage = IF n = 0 THEN "ready" ELSE "wire"
  BY LoopCases
<1>2. CASE c.pending = NoOp /\ d = NoChain
  BY <1>1, <1>2, NoChainType DEF ChainOK, OpOK
<1>3. CASE d.stage = "gate" /\ c.pending # NoOp /\ id # ClearId /\ g # 0
  BY <1>1, <1>3, NoChainType DEF ChainOK, OpOK
<1>4. CASE /\ c.pending # NoOp /\ (id = ClearId \/ g = 0)
           /\ d.pending = NoOp /\ d.settle = {}
           /\ d.inflight = c.pending /\ d.sending = c.settle
           /\ ~d.landed
           /\ id # ClearId => d.stage = "sent"
           /\ id = ClearId => d.stage = IF n = 0 THEN "ready" ELSE "wire"
  <2>1. d.stage \in {"wire", "ready", "sent"} /\ (d.stage \in {"wire", "ready"} => id = ClearId)
    BY <1>4
  <2>2. OpOK(id, d.pending, d.settle) /\ OpOK(id, d.inflight, d.sending)
    BY <1>4 DEF OpOK
  <2>3. ChainOK(id, d)
    BY <1>4, <2>1, <2>2 DEF ChainOK
  <2> QED
    BY <1>1, <1>4, <2>3
<1> QED
  BY <1>1, <1>2, <1>3, <1>4

\* A chain looks again when its gate was opened.
LEMMA GateOpenedIInv ==
  ASSUME IInv, NEW k \in Keys, GateOpened(k)
  PROVE  IInv'
<1> DEFINE c == chains[k]
<1>1. PICK d : d = Loop(k, c, gate, onWire)
  OBVIOUS
<1>2. /\ c.stage = "gate" /\ chains' = [chains EXCEPT ![k] = d]
      /\ onWire' = onWire + Sent(d)
      /\ UNCHANGED <<bytes, count, clears, gate, gates, closed, idle, result, ops, l3, stray>>
  BY <1>1 DEF GateOpened
<1>3. /\ k \in Ids /\ k # ClearId /\ ClearId \in Ids /\ chains \in [Ids -> Chain]
      /\ c \in Chain /\ gate \in Nat /\ onWire \in Nat /\ count \in Int /\ ChainOK(k, c)
  BY BaseFacts DEF IInv, Typed, ChainsOK
<1>4. c.inflight = NoOp /\ OpOK(k, c.pending, c.settle)
  BY <1>2, <1>3 DEF ChainOK
<1>5. /\ d \in Chain /\ ChainOK(k, d)
      /\ \/ /\ d.inflight = NoOp /\ d.pending = c.pending
            /\ c.pending # NoOp => d.settle = c.settle
            /\ d.stage \in {"none", "gate"}
         \/ /\ c.pending # NoOp /\ gate = 0
            /\ d.pending = NoOp /\ d.inflight = c.pending /\ d.sending = c.settle
            /\ ~d.landed /\ d.stage = "sent"
  BY <1>1, <1>3, <1>4, LoopOK
<1>6. /\ chains' \in [Ids -> Chain] /\ chains'[k] = d
      /\ \A i \in Ids : i # k => chains'[i] = chains[i]
      /\ chains'[ClearId] = chains[ClearId]
  BY <1>2, <1>3, <1>5
<1>7. ChainsOK'
  <2>1. \A i \in Ids : ChainOK(i, chains'[i])
    BY <1>5, <1>6 DEF IInv, ChainsOK
  <2> QED
    BY <1>2, <2>1 DEF ChainsOK, ChainOK, OpOK, Issued
<1>8. \A i \in Ids : Holds(i)' = Holds(i)
  BY <1>4, <1>5, <1>6 DEF Holds
<1>9. PastOrder'
  <2>1. \A i \in Keys : Past(i)' = Past(i)
    BY <1>2 DEF Past, Covers
  <2> QED
    BY <1>2, <1>8, <2>1, BaseFacts DEF IInv, PastOrder, Issued
<1>10. LandedOK' /\ TrueMeansLanded'
  <2>1. ~(chains'[k].stage = "sent" /\ chains'[k].landed)
    BY <1>5, <1>6
  <2> QED
    BY <1>2, <1>6, <2>1 DEF IInv, LandedOK, TrueMeansLanded, Late
<1>11. Accounted'
  <2> SUFFICES ASSUME NEW i \in Unsettled
               PROVE  \E id \in Ids :
         \/ chains'[id].pending # NoOp /\ i \in chains'[id].settle \cup chains'[id].pending.sup
         \/ chains'[id].inflight # NoOp /\ i \in Settled(chains'[id])
    BY <1>2 DEF Accounted, Unsettled
  <2>1. PICK id \in Ids :
          \/ chains[id].pending # NoOp /\ i \in chains[id].settle \cup chains[id].pending.sup
          \/ chains[id].inflight # NoOp /\ i \in Settled(chains[id])
    BY DEF IInv, Accounted
  <2>2. CASE id # k
    BY <1>6, <2>1, <2>2
  <2>3. CASE id = k
    <3>1. c.pending # NoOp /\ i \in c.settle \cup c.pending.sup
      BY <1>4, <2>1, <2>3
    <3> QED
      BY <1>3, <1>5, <1>6, <3>1 DEF Settled
  <2> QED
    BY <2>2, <2>3
<1>12. Typed' /\ Numbered'
  <2>1. Sent(d) \in Nat
    BY DEF Sent
  <2>2. onWire' \in Nat
    BY <1>2, <1>3, <2>1
  <2> QED
    BY <1>2, <1>6, <2>2 DEF IInv, Typed, Numbered
<1>13. CASE d.inflight = NoOp
  <2>1. /\ d.pending = c.pending /\ d.stage \in {"none", "gate"}
    BY <1>5, <1>13
  <2>2. onWire' = onWire
    BY <1>2, <1>3, <2>1 DEF Sent
  <2>3. Waiting' = Waiting /\ Claimed' = Claimed /\ Wire' = Wire
    BY <1>2, <1>4, <1>6, <1>13, <2>1 DEF Waiting, Claimed, Wire
  <2>4. CountsOK'
    BY <1>2, <2>2, <2>3 DEF IInv, CountsOK
  <2>5. Barrier'
    BY <1>6, <2>3 DEF IInv, Barrier
  <2>6. ClearOrder'
    <3>1. \A i \in Keys : /\ chains'[i].pending = chains[i].pending
                          /\ chains'[i].inflight = chains[i].inflight
      BY <1>4, <1>6, <1>13, <2>1, BaseFacts
    <3> QED
      BY <1>3, <1>8, <3>1 DEF IInv, ClearOrder
  <2> QED
    BY <1>7, <1>9, <1>10, <1>11, <1>12, <2>4, <2>5, <2>6 DEF IInv
<1>14. CASE d.inflight # NoOp
  <2>1. /\ c.pending # NoOp /\ gate = 0 /\ d.pending = NoOp /\ d.stage = "sent"
    BY <1>5, <1>14
  <2>2. onWire' = onWire + 1
    BY <1>2, <1>3, <2>1 DEF Sent
  <2>3. /\ Waiting' = Waiting \ {k} /\ Claimed' = Claimed \cup {k} /\ Wire' = Wire \cup {k}
        /\ k \in Waiting /\ k \notin Claimed /\ k \notin Wire
    BY <1>2, <1>3, <1>4, <1>6, <1>14, <2>1 DEF Waiting, Claimed, Wire
  <2>4. CountsOK'
    <3>1. /\ IsFiniteSet(Waiting) /\ IsFiniteSet(Claimed) /\ IsFiniteSet(Wire)
          /\ onWire = Cardinality(Wire)
          /\ count = Cardinality(Waiting) + Cardinality(Claimed)
      BY DEF IInv, CountsOK
    <3>2. IsFiniteSet(Waiting') /\ Cardinality(Waiting') = Cardinality(Waiting) - 1
      BY <2>3, <3>1, FS_RemoveElement
    <3>3. IsFiniteSet(Claimed') /\ Cardinality(Claimed') = Cardinality(Claimed) + 1
      BY <2>3, <3>1, FS_AddElement
    <3>4. IsFiniteSet(Wire') /\ Cardinality(Wire') = Cardinality(Wire) + 1
      BY <2>3, <3>1, FS_AddElement
    <3>5. Cardinality(Waiting) \in Nat /\ Cardinality(Claimed) \in Nat
      BY <3>1, FS_CardinalityType
    <3>6. count' = Cardinality(Waiting') + Cardinality(Claimed')
      BY <1>2, <3>1, <3>2, <3>3, <3>5
    <3>7. (ClearId \in Waiting' <=> ClearId \in Waiting)
          /\ (ClearId \in Claimed' <=> ClearId \in Claimed)
      BY <1>3, <2>3
    <3>8. onWire' = Cardinality(Wire')
      BY <2>2, <3>1, <3>4
    <3> QED
      BY <1>2, <3>2, <3>3, <3>4, <3>6, <3>7, <3>8 DEF IInv, CountsOK
  <2>5. Barrier' /\ ClearOrder'
    <3>1. /\ Holds(ClearId)' = {}
          /\ chains'[ClearId].stage \notin {"wire", "ready", "sent", "backoff"}
      BY <1>3, <1>6, <1>8, <2>1, GateOpen
    <3> QED
      BY <3>1 DEF Barrier, ClearOrder
  <2> QED
    BY <1>7, <1>9, <1>10, <1>11, <1>12, <2>4, <2>5 DEF IInv
<1> QED
  BY <1>13, <1>14

LEMMA SameButOne ==
  ASSUME NEW S, NEW T, NEW x, S \ {x} = T \ {x}, x \in S, x \in T
  PROVE  S = T
OBVIOUS

\* An operation ends, acknowledged or given up, and its chain goes round; a clear that
\* waits for the wire has it when this was the last operation on it.
LEMMA FinishIInv ==
  ASSUME IInv, NEW id \in Ids, chains[id].stage = "sent",
         NEW outcome \in {"true", "false"}, outcome = "true" => chains[id].landed,
         Finish(id, outcome), l3' = l3,
         stray' = stray \/ (stray = 0 /\ stray' = chains[id].inflight.id)
  PROVE  IInv'
<1> DEFINE c == chains[id]
           w == onWire - 1
           open == IF id # ClearId THEN gate ELSE IF clears - 1 > 0 THEN gate ELSE 0
           m == c.inflight.id
<1>1. PICK b : b = [c EXCEPT !.inflight = NoOp]
  OBVIOUS
<1>2. PICK d : d = Loop(id, b, open, w)
  OBVIOUS
<1>3. /\ count' = count - 1
      /\ clears' = IF id = ClearId THEN clears - 1 ELSE clears
      /\ gate' = open
      /\ onWire' = w + Sent(d)
      /\ chains' = [i \in Ids |->
           IF i = id THEN d
           ELSE IF w = 0 /\ chains[i].stage = "wire" THEN [chains[i] EXCEPT !.stage = "ready"]
           ELSE chains[i]]
      /\ result' = [i \in OpIds |-> IF i \in Settled(c) THEN outcome ELSE result[i]]
      /\ idle' = idle \/ idle' = {}
      /\ UNCHANGED <<gates, closed, ops>>
  BY <1>1, <1>2 DEF Finish
<1>4. /\ ClearId \in Ids /\ chains \in [Ids -> Chain] /\ c \in Chain
      /\ gate \in Nat /\ onWire \in Nat /\ clears \in Nat /\ count \in Int /\ w \in Int
      /\ open \in Nat /\ ChainOK(id, c)
  BY BaseFacts DEF IInv, Typed, ChainsOK
<1>5. /\ b \in Chain /\ b.inflight = NoOp /\ b.pending = c.pending /\ b.settle = c.settle
  BY <1>1, <1>4, BaseFacts DEF Chain
<1>6. /\ OpOK(id, c.pending, c.settle) /\ OpOK(id, c.inflight, c.sending)
      /\ c.inflight # NoOp /\ Issued(m) /\ ops[m].key = id /\ m \in Nat
  BY <1>4, BaseFacts DEF ChainOK, OpOK, Issued
<1>7. /\ d \in Chain /\ ChainOK(id, d)
      /\ \/ /\ d.inflight = NoOp /\ d.pending = c.pending
            /\ c.pending # NoOp => d.settle = c.settle
            /\ \/ d.stage = "none" /\ c.pending = NoOp
               \/ d.stage = "gate" /\ c.pending # NoOp /\ id # ClearId
         \/ /\ c.pending # NoOp /\ (id = ClearId \/ open = 0)
            /\ d.pending = NoOp /\ d.inflight = c.pending /\ d.sending = c.settle
            /\ ~d.landed
            /\ id # ClearId => d.stage = "sent"
            /\ id = ClearId => d.stage = IF w = 0 THEN "ready" ELSE "wire"
  <2>1. OpOK(id, b.pending, b.settle)
    BY <1>5, <1>6
  <2> HIDE DEF open, w
  <2> QED
    BY <1>2, <1>4, <1>5, <2>1, LoopOK
<1>8. /\ chains'[id] = d
      /\ \A i \in Ids : i # id =>
           /\ chains'[i] \in Chain
           /\ chains'[i].pending = chains[i].pending /\ chains'[i].settle = chains[i].settle
           /\ chains'[i].inflight = chains[i].inflight
           /\ chains'[i].sending = chains[i].sending
           /\ (chains'[i].landed <=> chains[i].landed)
           /\ \/ chains'[i].stage = chains[i].stage
              \/ w = 0 /\ chains[i].stage = "wire" /\ chains'[i].stage = "ready"
  <2>1. \A i \in Ids : chains[i] \in Chain
    BY <1>4
  <2> HIDE DEF w
  <2>2. ASSUME NEW i \in Ids, i # id
        PROVE  /\ chains'[i] \in Chain
               /\ chains'[i].pending = chains[i].pending /\ chains'[i].settle = chains[i].settle
               /\ chains'[i].inflight = chains[i].inflight
               /\ chains'[i].sending = chains[i].sending
               /\ (chains'[i].landed <=> chains[i].landed)
               /\ \/ chains'[i].stage = chains[i].stage
                  \/ w = 0 /\ chains[i].stage = "wire" /\ chains'[i].stage = "ready"
    <3>1. CASE w = 0 /\ chains[i].stage = "wire"
      <4>1. chains'[i] = [chains[i] EXCEPT !.stage = "ready"]
        BY <1>3, <2>2, <3>1
      <4> QED
        BY <2>1, <3>1, <4>1 DEF Chain, Stages
    <3>2. CASE ~(w = 0 /\ chains[i].stage = "wire")
      <4>1. chains'[i] = chains[i]
        BY <1>3, <2>2, <3>2
      <4> QED
        BY <2>1, <4>1
    <3> QED
      BY <3>1, <3>2
  <2> QED
    BY <1>3, <2>2
<1>9. \A i \in Settled(c) : /\ i \in OpIds /\ Issued(i) /\ i <= m
                            /\ ops[i].key = id \/ id = ClearId
  BY <1>6 DEF Settled, OpOK, Issued
<1>10. /\ result' \in [OpIds -> Results]
       /\ \A i \in OpIds : /\ result'[i] = "none" <=> result[i] = "none"
                           /\ i \notin Settled(c) => result'[i] = result[i]
                           /\ i \in Settled(c) => result'[i] = outcome
       /\ \A i : Issued(i)' <=> Issued(i)
  <2>1. \A i \in Settled(c) : i \in OpIds /\ result[i] # "none"
    BY <1>9 DEF Issued
  <2>2. result \in [OpIds -> Results]
    BY DEF IInv, Typed
  <2> HIDE DEF c
  <2>3. /\ result' \in [OpIds -> Results]
        /\ \A i \in OpIds : /\ result'[i] = "none" <=> result[i] = "none"
                            /\ i \notin Settled(c) => result'[i] = result[i]
                            /\ i \in Settled(c) => result'[i] = outcome
    BY <1>3, <2>1, <2>2 DEF Results
  <2> QED
    BY <2>3 DEF Issued
<1>11. stray' \in 0 .. MaxOps
  BY <1>6, BaseFacts DEF IInv, Typed, Issued, OpIds
<1>12. Typed' /\ Numbered'
  <2>1. clears' \in Nat /\ onWire' \in Nat
    <3>1. id \in Wire
      BY DEF Wire
    <3>2. onWire # 0
      BY <3>1, FS_EmptySet DEF IInv, CountsOK
    <3>3. id = ClearId => clears # 0
      BY <1>4, <1>6 DEF IInv, CountsOK, Claimed
    <3>4. Sent(d) \in Nat
      BY DEF Sent
    <3> QED
      BY <1>3, <1>4, <3>2, <3>3, <3>4
  <2>2. chains' \in [Ids -> Chain]
    <3>1. \A i \in Ids : chains'[i] \in Chain
      BY <1>7, <1>8
    <3>2. chains' = [i \in Ids |-> chains'[i]]
      BY <1>3
    <3> QED
      BY <3>1, <3>2
  <2>3. count' \in Int /\ gate' \in Nat /\ idle' \subseteq OpIds
    BY <1>3, <1>4 DEF IInv, Typed
  <2>4. Typed'
    BY <1>3, <1>10, <1>11, <2>1, <2>2, <2>3 DEF IInv, Typed
  <2>5. Numbered'
    BY <1>10 DEF IInv, Numbered
  <2> QED
    BY <2>4, <2>5
<1>13. ChainsOK'
  <2>1. ASSUME NEW i \in Ids PROVE ChainOK(i, chains'[i])
    <3>1. CASE i = id
      BY <1>7, <1>8, <3>1
    <3>2. CASE i # id
      <4>1. ChainOK(i, chains[i])
        BY DEF IInv, ChainsOK
      <4> QED
        BY <1>8, <3>2, <4>1 DEF ChainOK
    <3> QED
      BY <3>1, <3>2
  <2> QED
    BY <1>3, <1>10, <2>1 DEF ChainsOK, ChainOK, OpOK
<1>14. \A i \in Ids : Holds(i)' \subseteq Holds(i)
  BY <1>7, <1>8 DEF Holds
<1>15. PastOrder'
  <2>1. ASSUME NEW k \in Keys, NEW i \in Past(k)'
        PROVE  i \in Past(k) \/ (Issued(i) /\ i <= m /\ Covers(m, k))
    <3>1. i \in OpIds
      BY DEF Past
    <3>2. \/ i = l3[k] \/ (i = stray' /\ Covers(i, k)) \/ (result'[i] = "true" /\ Covers(i, k))
      BY <1>3 DEF Past, Covers
    <3>3. CASE i = l3[k]
      BY <3>1, <3>3 DEF Past
    <3>4. CASE i = stray' /\ Covers(i, k)
      BY <1>6, <3>1, <3>4 DEF Past
    <3>5. CASE result'[i] = "true" /\ Covers(i, k)
      <4>1. CASE i \notin Settled(c)
        BY <1>10, <3>1, <3>5, <4>1 DEF Past
      <4>2. CASE i \in Settled(c)
        BY <1>6, <1>9, <3>5, <4>2 DEF Covers
      <4> QED
        BY <4>1, <4>2
    <3> QED
      BY <3>2, <3>3, <3>4, <3>5
  <2>2. /\ chains[id].stage \in {"sent", "backoff"}
        /\ stray' \in {stray, chains[id].inflight.id}
        /\ \A i : Issued(i) => Issued(i)'
    BY <1>10
  <2> QED
    BY <1>14, <2>1, <2>2, PastStep
<1>16. LandedOK'
  <2> SUFFICES ASSUME NEW i \in Ids, chains'[i].stage = "sent", chains'[i].landed,
                      NEW k \in Keys, i \in {k, ClearId}
               PROVE  l3[k] >= chains'[i].inflight.id \/ (l3[k] = stray' /\ l3[k] # 0)
    BY DEF LandedOK, Late
  <2>1. i # id
    BY <1>7, <1>8
  <2>2. chains[i].stage = "sent" /\ chains[i].landed
    BY <1>8, <2>1
  <2>3. l3[k] >= chains[i].inflight.id \/ (l3[k] = stray /\ l3[k] # 0)
    BY <2>2 DEF IInv, LandedOK, Late
  <2> QED
    BY <1>8, <2>1, <2>3
<1>17. TrueMeansLanded'
  <2> SUFFICES ASSUME NEW i \in OpIds, result'[i] = "true", NEW k \in Keys, Covers(i, k)
               PROVE  l3[k] >= i \/ (l3[k] = stray' /\ l3[k] # 0)
    BY <1>3 DEF TrueMeansLanded, Late, Covers
  <2>1. CASE i \notin Settled(c)
    <3>1. l3[k] >= i \/ (l3[k] = stray /\ l3[k] # 0)
      BY <1>10, <2>1 DEF IInv, TrueMeansLanded, Late, Covers
    <3> QED
      BY <3>1
  <2>2. CASE i \in Settled(c)
    <3>1. c.landed /\ i <= m /\ id \in {k, ClearId}
      BY <1>9, <1>10, <2>2 DEF Covers
    <3>2. l3[k] >= m \/ (l3[k] = stray /\ l3[k] # 0)
      BY <3>1 DEF IInv, LandedOK, Late
    <3>3. l3[k] \in Nat /\ i \in Nat
      BY BaseFacts DEF IInv, Typed
    <3> QED
      BY <1>6, <3>1, <3>2, <3>3
  <2> QED
    BY <2>1, <2>2
<1>18. Accounted'
  <2> SUFFICES ASSUME NEW i \in Unsettled'
               PROVE  \E j \in Ids :
         \/ chains'[j].pending # NoOp /\ i \in chains'[j].settle \cup chains'[j].pending.sup
         \/ chains'[j].inflight # NoOp /\ i \in Settled(chains'[j])
    BY DEF Accounted
  <2>1. i \in Unsettled /\ i \notin Settled(c)
    BY <1>10 DEF Unsettled
  <2>2. PICK j \in Ids :
          \/ chains[j].pending # NoOp /\ i \in chains[j].settle \cup chains[j].pending.sup
          \/ chains[j].inflight # NoOp /\ i \in Settled(chains[j])
    BY <2>1 DEF IInv, Accounted
  <2>3. CASE j # id
    BY <1>8, <2>2, <2>3 DEF Settled
  <2>4. CASE j = id
    <3>1. c.pending # NoOp /\ i \in c.settle \cup c.pending.sup
      BY <2>1, <2>2, <2>4
    <3>2. \/ d.pending # NoOp /\ i \in d.settle \cup d.pending.sup
          \/ d.inflight # NoOp /\ i \in Settled(d)
      BY <1>7, <3>1 DEF Settled
    <3> QED
      BY <1>8, <3>2
  <2> QED
    BY <2>3, <2>4
<1>19. /\ IsFiniteSet(Waiting) /\ IsFiniteSet(Claimed) /\ IsFiniteSet(Wire)
       /\ onWire = Cardinality(Wire) /\ count = Cardinality(Waiting) + Cardinality(Claimed)
       /\ Cardinality(Waiting) \in Nat /\ Cardinality(Claimed) \in Nat
       /\ IsFiniteSet(Wire \ {id}) /\ Cardinality(Wire \ {id}) = w
       /\ id \in Claimed /\ id \in Wire
       /\ Wire \subseteq Ids /\ Waiting \subseteq Ids /\ Claimed \subseteq Ids
  <2>1. /\ IsFiniteSet(Waiting) /\ IsFiniteSet(Claimed) /\ IsFiniteSet(Wire)
        /\ onWire = Cardinality(Wire) /\ count = Cardinality(Waiting) + Cardinality(Claimed)
    BY DEF IInv, CountsOK
  <2>2. id \in Claimed /\ id \in Wire
    BY <1>6 DEF Claimed, Wire
  <2> QED
    BY <2>1, <2>2, FS_RemoveElement, FS_CardinalityType DEF Wire, Waiting, Claimed
<1>20. /\ w = 0 => Wire \ {id} = {}
       /\ Wire' \ {id} = Wire \ {id}
       /\ Waiting' \ {id} = Waiting \ {id} /\ Claimed' \ {id} = Claimed \ {id}
  <2>1. w = 0 => Wire \ {id} = {}
    BY <1>19, FS_EmptySet
  <2>2. Wire' \ {id} = Wire \ {id}
    BY <1>8 DEF Wire
  <2>3. Waiting' \ {id} = Waiting \ {id} /\ Claimed' \ {id} = Claimed \ {id}
    BY <1>8 DEF Waiting, Claimed
  <2> QED
    BY <2>1, <2>2, <2>3
<1>21. CASE d.inflight = NoOp
  <2>1. /\ d.pending = c.pending /\ d.stage \in {"none", "gate"}
        /\ id = ClearId => c.pending = NoOp
    BY <1>6, <1>7, <1>21
  <2>2. /\ Waiting' = Waiting /\ Claimed' = Claimed \ {id} /\ Wire' = Wire \ {id}
    <3>1. id \notin Claimed' /\ id \notin Wire'
      BY <1>8, <1>21, <2>1 DEF Claimed, Wire
    <3>2. id \in Waiting' <=> id \in Waiting
      BY <1>8, <2>1 DEF Waiting
    <3> QED
      BY <1>20, <3>1, <3>2
  <2>3. Barrier'
    <3>1. CASE id = ClearId
      BY <1>8, <2>1, <3>1 DEF Barrier
    <3>2. CASE id # ClearId
      <4>1. chains[ClearId].stage \notin {"ready", "sent", "backoff"}
        BY <1>19, <3>2 DEF IInv, Barrier
      <4>2. chains'[ClearId].stage \in {"ready", "sent", "backoff"} => w = 0
        BY <1>4, <1>8, <3>2, <4>1
      <4> QED
        BY <1>20, <2>2, <4>2 DEF Barrier
    <3> QED
      BY <3>1, <3>2
  <2>4. ClearOrder'
    <3>1. \A k \in Keys : /\ k \in Ids
                          /\ chains'[k].pending = chains[k].pending
                          /\ chains'[k].inflight \in {NoOp, chains[k].inflight}
      BY <1>8, <1>21, <2>1, BaseFacts
    <3> QED
      BY <1>4, <1>14, <3>1 DEF IInv, ClearOrder
  <2>5. CountsOK'
    <3>1. IsFiniteSet(Claimed') /\ Cardinality(Claimed') = Cardinality(Claimed) - 1
      BY <1>19, <2>2, FS_RemoveElement
    <3>2. count' = Cardinality(Waiting') + Cardinality(Claimed')
      BY <1>3, <1>19, <2>2, <3>1
    <3>3. Sent(d) = 0
      BY <2>1 DEF Sent
    <3>4. onWire' = Cardinality(Wire') /\ IsFiniteSet(Wire')
      BY <1>3, <1>4, <1>19, <2>2, <3>3
    <3>5. /\ clears = (IF ClearId \in Waiting THEN 1 ELSE 0) + (IF ClearId \in Claimed THEN 1 ELSE 0)
          /\ gate # 0 <=> clears > 0
      BY DEF IInv, CountsOK
    <3>6. /\ clears' = (IF ClearId \in Waiting' THEN 1 ELSE 0) + (IF ClearId \in Claimed' THEN 1 ELSE 0)
          /\ gate' # 0 <=> clears' > 0
      <4>1. CASE id = ClearId
        <5>1. ClearId \notin Waiting /\ ClearId \in Claimed
          BY <1>19, <2>1, <4>1 DEF Waiting
        <5> QED
          BY <1>3, <2>2, <3>5, <4>1, <5>1
      <4>2. CASE id # ClearId
        BY <1>3, <2>2, <3>5, <4>2
      <4> QED
        BY <4>1, <4>2
    <3> QED
      BY <1>19, <2>2, <3>1, <3>2, <3>4, <3>6 DEF CountsOK
  <2> QED
    BY <1>12, <1>13, <1>15, <1>16, <1>17, <1>18, <2>3, <2>4, <2>5 DEF IInv
<1>22. CASE d.inflight # NoOp
  <2>1. /\ c.pending # NoOp /\ (id = ClearId \/ gate = 0) /\ d.pending = NoOp
        /\ id # ClearId => d.stage = "sent"
        /\ id = ClearId => d.stage = IF w = 0 THEN "ready" ELSE "wire"
    BY <1>7, <1>22
  <2>2. /\ Waiting' = Waiting \ {id} /\ Claimed' = Claimed /\ id \in Waiting
        /\ id # ClearId => Wire' = Wire
        /\ id = ClearId => Wire' = Wire \ {id}
    <3>1. id \in Claimed' /\ id \notin Waiting' /\ id \in Waiting
      BY <1>8, <1>22, <2>1 DEF Claimed, Waiting
    <3>2. id \in Wire' <=> id # ClearId
      BY <1>8, <2>1 DEF Wire
    <3>3. Waiting' = Waiting \ {id}
      BY <1>20, <3>1
    <3>4. Claimed' = Claimed
      BY <1>19, <1>20, <3>1, SameButOne
    <3>5. id # ClearId => Wire' = Wire
      BY <1>19, <1>20, <3>2, SameButOne
    <3>6. id = ClearId => Wire' = Wire \ {id}
      BY <1>20, <3>2
    <3> QED
      BY <3>1, <3>3, <3>4, <3>5, <3>6
  <2>3. Barrier' /\ ClearOrder'
    <3>1. CASE id = ClearId
      <4>1. Barrier'
        <5>1. chains'[ClearId].stage \in {"ready", "sent", "backoff"} => w = 0
          BY <1>8, <2>1, <3>1
        <5> QED
          BY <1>20, <2>2, <3>1, <5>1 DEF Barrier
      <4>2. \A k \in Keys : /\ k \in Ids
                            /\ chains'[k].pending = chains[k].pending
                            /\ chains'[k].inflight = chains[k].inflight
        BY <1>8, <3>1, BaseFacts
      <4> QED
        BY <1>4, <1>14, <4>1, <4>2 DEF IInv, ClearOrder
    <3>2. CASE id # ClearId
      <4>1. Holds(ClearId) = {} /\ chains[ClearId].stage \notin {"wire", "ready", "sent", "backoff"}
        BY <2>1, <3>2, GateOpen
      <4>2. Holds(ClearId)' = {} /\ chains'[ClearId].stage \notin {"ready", "sent", "backoff"}
        BY <1>4, <1>8, <1>14, <3>2, <4>1
      <4> QED
        BY <4>2 DEF Barrier, ClearOrder
    <3> QED
      BY <3>1, <3>2
  <2>4. CountsOK'
    <3>1. IsFiniteSet(Waiting') /\ Cardinality(Waiting') = Cardinality(Waiting) - 1
      BY <1>19, <2>2, FS_RemoveElement
    <3>2. count' = Cardinality(Waiting') + Cardinality(Claimed')
      BY <1>3, <1>19, <2>2, <3>1
    <3>3. Sent(d) = IF id = ClearId THEN 0 ELSE 1
      BY <2>1 DEF Sent
    <3>4. onWire' = Cardinality(Wire') /\ IsFiniteSet(Wire')
      <4>1. CASE id = ClearId
        <5>1. Wire' = Wire \ {id} /\ onWire' = w
          BY <1>3, <1>4, <2>2, <3>3, <4>1
        <5> QED
          BY <1>19, <5>1
      <4>2. CASE id # ClearId
        <5>1. Wire' = Wire /\ onWire' = w + 1
          BY <1>3, <2>2, <3>3, <4>2
        <5> QED
          BY <1>4, <1>19, <5>1
      <4> QED
        BY <4>1, <4>2
    <3>5. /\ clears = (IF ClearId \in Waiting THEN 1 ELSE 0) + (IF ClearId \in Claimed THEN 1 ELSE 0)
          /\ gate # 0 <=> clears > 0
      BY DEF IInv, CountsOK
    <3>6. /\ clears' = (IF ClearId \in Waiting' THEN 1 ELSE 0) + (IF ClearId \in Claimed' THEN 1 ELSE 0)
          /\ gate' # 0 <=> clears' > 0
      <4>1. CASE id = ClearId
        BY <1>3, <1>19, <2>2, <3>5, <4>1
      <4>2. CASE id # ClearId
        BY <1>3, <2>2, <3>5, <4>2
      <4> QED
        BY <4>1, <4>2
    <3> QED
      BY <1>19, <2>2, <3>1, <3>2, <3>4, <3>6 DEF CountsOK
  <2> QED
    BY <1>12, <1>13, <1>15, <1>16, <1>17, <1>18, <2>3, <2>4 DEF IInv
<1> QED
  BY <1>21, <1>22

-----------------------------------------------------------------------------
(* A clear *)

\* The clear of a push: it takes over the promises of all it supersedes.
LEMMA ClearOp ==
  ASSUME IInv, NEW n \in OpIds, NEW X, NEW op,
         \A j : j \in X <=> \/ j \in chains[ClearId].pending.sup
                            \/ \E k \in Dropped : j \in chains[k].settle,
         op = [Op(n, "clear") EXCEPT !.sup = X]
  PROVE  op \in OpType /\ op # NoOp /\ op.id = n /\ op.sup = X
<1> DEFINE q == Op(n, "clear")
<1>1. X \subseteq OpIds
  <2>1. chains[ClearId].pending.sup \subseteq OpIds
    BY ChainType, BaseFacts DEF IInv, OpType
  <2>2. \A k \in Dropped : chains[k].settle \subseteq OpIds
    BY ChainType, BaseFacts DEF IInv, Dropped
  <2> QED
    BY <2>1, <2>2
<1>2. q \in OpType /\ q.id = n
  BY NewOpType
<1>3. n # 0
  BY BaseFacts
<1>4. op = [q EXCEPT !.sup = X]
  OBVIOUS
<1> HIDE DEF q
<1>5. op \in OpType /\ op.id = n /\ op.sup = X
  BY <1>1, <1>2, <1>4 DEF OpType
<1> QED
  BY <1>3, <1>5, BaseFacts

\* What #pushClear leaves: the clear waiting behind another or claimed at once, and no
\* key with anything that waits.
LEMMA PushClearShape ==
  ASSUME IInv, PushClear, NEW n \in OpIds, n = NextId
  PROVE  \E op \in OpType, d \in Chain :
    /\ op # NoOp /\ op.id = n
    /\ \A j : j \in op.sup <=> \/ j \in chains[ClearId].pending.sup
                               \/ \E k \in Dropped : j \in chains[k].settle
    /\ chains' = [id \in Ids |-> chains'[id]] /\ chains'[ClearId] = d
    /\ \A k \in Keys : chains'[k] =
         IF k \in Dropped THEN [chains[k] EXCEPT !.pending = NoOp, !.settle = {}]
                          ELSE chains[k]
    /\ \/ /\ chains[ClearId].stage # "none"
          /\ d.pending = op
          /\ d.settle = IF chains[ClearId].pending = NoOp THEN {op.id}
                        ELSE chains[ClearId].settle \cup {op.id}
          /\ d.inflight = chains[ClearId].inflight /\ d.sending = chains[ClearId].sending
          /\ (d.landed <=> chains[ClearId].landed) /\ d.stage = chains[ClearId].stage
       \/ /\ chains[ClearId].stage = "none"
          /\ d.pending = NoOp /\ d.inflight = op /\ d.sending = {op.id} /\ ~d.landed
          /\ d.stage = IF onWire = 0 THEN "ready" ELSE "wire"
<1> DEFINE c == chains[ClearId]
           X == c.pending.sup \cup UNION {chains[k].settle : k \in Dropped}
           op == [Op(NextId, "clear") EXCEPT !.sup = X]
           put == [c EXCEPT !.pending = op,
                            !.settle = IF c.pending # NoOp THEN @ \cup {op.id} ELSE {op.id}]
           d == IF Busy(c) THEN put ELSE Loop(ClearId, put, gate', onWire)
<1>1. \A j : j \in X <=> j \in c.pending.sup \/ \E k \in Dropped : j \in chains[k].settle
  OBVIOUS
<1>2. chains' = [id \in Ids |->
        IF id = ClearId THEN (IF Busy(c) THEN put ELSE Loop(id, put, gate', onWire))
        ELSE IF id \in Dropped THEN [chains[id] EXCEPT !.pending = NoOp, !.settle = {}]
        ELSE chains[id]]
  BY DEF PushClear
<1> HIDE DEF X
<1>3. op \in OpType /\ op # NoOp /\ op.id = n /\ op.sup = X
  BY <1>1, ClearOp
<1>4. /\ put = [c EXCEPT !.pending = op, !.settle = IF c.pending # NoOp THEN @ \cup {op.id}
                                                    ELSE {op.id}]
      /\ d = IF Busy(c) THEN put ELSE Loop(ClearId, put, gate', onWire)
  OBVIOUS
<1> HIDE DEF op, put
<1>5. /\ chains' = [id \in Ids |-> chains'[id]] /\ chains'[ClearId] = d
      /\ \A k \in Keys : chains'[k] =
           IF k \in Dropped THEN [chains[k] EXCEPT !.pending = NoOp, !.settle = {}]
                            ELSE chains[k]
  BY <1>2, BaseFacts
<1> HIDE DEF d
<1>6. /\ ClearId \in Ids /\ c \in Chain /\ gate \in Nat /\ gates \in Nat /\ onWire \in Nat
      /\ ChainOK(ClearId, c)
  BY ChainType, BaseFacts DEF IInv, Typed, ChainsOK
<1>7. gate' \in Nat
  <2>1. gate' = IF gate = 0 THEN gates + 1 ELSE gate
    BY DEF PushClear
  <2> QED
    BY <1>6, <2>1
<1>8. /\ put \in Chain /\ put.pending = op
      /\ put.settle = IF c.pending = NoOp THEN {op.id} ELSE c.settle \cup {op.id}
      /\ put.inflight = c.inflight /\ put.sending = c.sending
      /\ (put.landed <=> c.landed) /\ put.stage = c.stage
  <2> DEFINE t == IF c.pending # NoOp THEN c.settle \cup {op.id} ELSE {op.id}
  <2>1. t \in SUBSET OpIds
    BY <1>3, <1>6, ChainType DEF IInv
  <2>2. put = [c EXCEPT !.pending = op, !.settle = t]
    BY <1>4, <1>6 DEF Chain
  <2>3. t = IF c.pending = NoOp THEN {op.id} ELSE c.settle \cup {op.id}
    OBVIOUS
  <2> HIDE DEF t, c
  <2> QED
    BY <1>3, <1>6, <2>1, <2>2, <2>3 DEF Chain
<1>9. /\ d \in Chain
       /\ \/ /\ c.stage # "none"
             /\ d.pending = op
             /\ d.settle = IF c.pending = NoOp THEN {op.id} ELSE c.settle \cup {op.id}
             /\ d.inflight = c.inflight /\ d.sending = c.sending
             /\ (d.landed <=> c.landed) /\ d.stage = c.stage
          \/ /\ c.stage = "none"
             /\ d.pending = NoOp /\ d.inflight = op /\ d.sending = {op.id} /\ ~d.landed
             /\ d.stage = IF onWire = 0 THEN "ready" ELSE "wire"
  <2>1. CASE c.stage # "none"
    <3>1. d = put
      BY <1>4, <2>1 DEF Busy
    <3> QED
      BY <1>8, <2>1, <3>1
  <2>2. CASE c.stage = "none"
    <3>1. d = Loop(ClearId, put, gate', onWire)
      BY <1>4, <2>2 DEF Busy
    <3>2. c.pending = NoOp
      BY <1>6, <2>2 DEF ChainOK
    <3>3. PICK g \in Nat : g = gate'
      BY <1>7
    <3>4. d = Loop(ClearId, put, g, onWire)
      BY <3>1, <3>3
    <3>5. /\ d \in Chain
          /\ \/ put.pending = NoOp /\ d = NoChain
             \/ /\ put.pending # NoOp /\ ClearId # ClearId
             \/ /\ put.pending # NoOp
                /\ d.pending = NoOp /\ d.inflight = put.pending /\ d.sending = put.settle
                /\ ~d.landed
                /\ d.stage = IF onWire = 0 THEN "ready" ELSE "wire"
      BY <1>6, <1>8, <3>4, LoopCases
    <3> QED
      BY <1>3, <1>8, <2>2, <3>2, <3>5
  <2> QED
    BY <2>1, <2>2
<1> QED
  BY <1>1, <1>3, <1>5, <1>9

\* A clear is pushed: what waits is dropped, so that everything held is older than it.
LEMMA PushClearIInv ==
  ASSUME IInv, PushClear
  PROVE  IInv'
<1> DEFINE c == chains[ClearId]
           o == [key |-> ClearId, kind |-> "clear"]
<1>1. PICK n \in OpIds : n = NextId
  BY DEF PushClear
<1>2. PICK op \in OpType, d \in Chain :
    /\ op # NoOp /\ op.id = n
    /\ \A j : j \in op.sup <=> \/ j \in c.pending.sup
                               \/ \E k \in Dropped : j \in chains[k].settle
    /\ chains' = [id \in Ids |-> chains'[id]] /\ chains'[ClearId] = d
    /\ \A k \in Keys : chains'[k] =
         IF k \in Dropped THEN [chains[k] EXCEPT !.pending = NoOp, !.settle = {}]
                          ELSE chains[k]
    /\ \/ /\ c.stage # "none"
          /\ d.pending = op
          /\ d.settle = IF c.pending = NoOp THEN {op.id} ELSE c.settle \cup {op.id}
          /\ d.inflight = c.inflight /\ d.sending = c.sending
          /\ (d.landed <=> c.landed) /\ d.stage = c.stage
       \/ /\ c.stage = "none"
          /\ d.pending = NoOp /\ d.inflight = op /\ d.sending = {op.id} /\ ~d.landed
          /\ d.stage = IF onWire = 0 THEN "ready" ELSE "wire"
  BY <1>1, PushClearShape, Zenon
<1>3. /\ o \in Pushed /\ o.key = ClearId
      /\ result' = [result EXCEPT ![NextId] = "unsettled"]
      /\ ops' = [ops EXCEPT ![NextId] = o]
      /\ clears' = IF c.pending # NoOp THEN clears ELSE clears + 1
      /\ gate' = IF gate = 0 THEN gates + 1 ELSE gate
      /\ gates' = IF gate = 0 THEN gates + 1 ELSE gates
      /\ count' = count + (IF c.pending # NoOp THEN 0 ELSE 1) - Cardinality(Dropped)
      /\ UNCHANGED <<onWire, closed, idle, l3, stray>>
  BY BaseFacts DEF PushClear, Pushed
<1> HIDE DEF o
<1>4. /\ result' \in [OpIds -> Results] /\ ops' \in [OpIds -> Pushed]
      /\ Numbered' /\ TrueMeansLanded'
      /\ \A i : Issued(i) => Issued(i)' /\ ops'[i] = ops[i] /\ i < n
      /\ result'[n] = "unsettled" /\ ops'[n].key = ClearId
      /\ \A i \in Keys : Past(i)' = Past(i)
      /\ Unsettled' \subseteq Unsettled \cup {n}
  BY <1>1, <1>3, NewNumber
<1>5. /\ ClearId \in Ids /\ ClearId \notin Keys /\ chains \in [Ids -> Chain]
      /\ \A k \in Keys : k \in Ids
      /\ \A id \in Ids : id = ClearId \/ id \in Keys
      /\ ChainOK(ClearId, c) /\ OpOK(ClearId, c.pending, c.settle)
      /\ OpOK(ClearId, c.inflight, c.sending)
      /\ onWire \in Nat /\ count \in Int /\ gate \in Nat /\ gates \in Nat /\ clears \in Nat
      /\ n \in Nat
  BY BaseFacts DEF IInv, Typed, ChainsOK, ChainOK, Ids
<1>6. \A k \in Keys :
        /\ chains'[k] \in Chain
        /\ chains'[k].pending = NoOp
        /\ chains'[k].inflight = chains[k].inflight /\ chains'[k].sending = chains[k].sending
        /\ chains'[k].stage = chains[k].stage /\ (chains'[k].landed <=> chains[k].landed)
        /\ k \in Dropped <=> chains[k].pending # NoOp
  <2> SUFFICES ASSUME NEW k \in Keys
               PROVE  /\ chains'[k] \in Chain
                      /\ chains'[k].pending = NoOp
                      /\ chains'[k].inflight = chains[k].inflight
                      /\ chains'[k].sending = chains[k].sending
                      /\ chains'[k].stage = chains[k].stage
                      /\ (chains'[k].landed <=> chains[k].landed)
                      /\ k \in Dropped <=> chains[k].pending # NoOp
    OBVIOUS
  <2>1. chains[k] \in Chain /\ (k \in Dropped <=> chains[k].pending # NoOp)
    BY <1>5 DEF Dropped
  <2>2. CASE k \in Dropped
    <3>1. chains'[k] = [chains[k] EXCEPT !.pending = NoOp, !.settle = {}]
      BY <1>2, <2>2
    <3> QED
      BY <2>1, <3>1, BaseFacts DEF Chain
  <2>3. CASE k \notin Dropped
    <3>1. chains'[k] = chains[k]
      BY <1>2, <2>3
    <3> QED
      BY <2>1, <2>3, <3>1
  <2> QED
    BY <2>2, <2>3
<1>7. IsFiniteSet(Dropped) /\ Cardinality(Dropped) \in Nat /\ Dropped = Waiting \ {ClearId}
  <2>1. Dropped = Waiting \ {ClearId}
    BY <1>5 DEF Dropped, Waiting
  <2>2. IsFiniteSet(Dropped)
    BY <2>1, FS_RemoveElement DEF IInv, CountsOK
  <2> QED
    BY <2>1, <2>2, FS_CardinalityType
<1>8. Typed'
  <2>1. chains' \in [Ids -> Chain]
    <3>1. \A id \in Ids : chains'[id] \in Chain
      BY <1>2, <1>5, <1>6
    <3> QED
      BY <1>2, <3>1
  <2>2. count' \in Int /\ clears' \in Nat /\ gate' \in Nat /\ gates' \in Nat
    BY <1>3, <1>5, <1>7
  <2> QED
    BY <1>3, <1>4, <2>1, <2>2 DEF IInv, Typed
<1>9. n \in OpIds /\ result'[n] # "none"
  BY <1>4
<1>10. \A j \in op.sup : Issued(j)
  <2>1. c.pending # NoOp => \A j \in c.pending.sup : Issued(j)
    BY <1>5 DEF OpOK
  <2>2. c.pending = NoOp => c.pending.sup = {}
    BY BaseFacts
  <2>3. \A k \in Dropped : \A j \in chains[k].settle : Issued(j)
    BY <1>5 DEF Dropped, IInv, ChainsOK, ChainOK, OpOK
  <2> QED
    BY <1>2, <2>1, <2>2, <2>3
<1>11. \A j : Issued(j) => j \in Nat /\ j <= n
  BY <1>4, <1>5, BaseFacts DEF Issued
<1>12. \A k \in Keys : ChainOK(k, chains[k])'
  <2> SUFFICES ASSUME NEW k \in Keys PROVE ChainOK(k, chains[k])'
    OBVIOUS
  <2>1. ChainOK(k, chains[k])
    BY <1>5 DEF IInv, ChainsOK
  <2>2. OpOK(k, chains[k].inflight, chains[k].sending)'
    BY <1>4, <1>6, <2>1 DEF ChainOK, OpOK
  <2>3. OpOK(k, chains[k].pending, chains[k].settle)'
    BY <1>6 DEF OpOK
  <2> QED
    BY <1>6, <2>1, <2>2, <2>3 DEF ChainOK
<1>13. Holds(ClearId)' \subseteq Holds(ClearId) \cup {op}
  BY <1>2 DEF Holds
<1>14. \A k \in Keys : Holds(k)' \subseteq Holds(k)
  BY <1>6 DEF Holds
<1>15. Wire' = Wire
  <2>1. ClearId \in Wire' <=> ClearId \in Wire
    <3>1. d.stage \in {"sent", "backoff"} <=> c.stage \in {"sent", "backoff"}
      BY <1>2
    <3> QED
      BY <1>2, <3>1 DEF Wire
  <2>2. \A k \in Keys : k \in Wire' <=> k \in Wire
    BY <1>6 DEF Wire
  <2> QED
    BY <1>5, <2>1, <2>2 DEF Wire
<1>16. ClearOrder'
  <2> SUFFICES ASSUME NEW k \in Keys, NEW x \in Holds(ClearId)'
               PROVE  chains[k].inflight # NoOp => chains[k].inflight.id < x.id
    BY <1>6 DEF ClearOrder
  <2>1. CASE x \in Holds(ClearId)
    BY <2>1 DEF IInv, ClearOrder
  <2>2. CASE x = op
    <3>1. chains[k].inflight # NoOp => Issued(chains[k].inflight.id)
      BY <1>5 DEF IInv, ChainsOK, ChainOK, OpOK
    <3> QED
      BY <1>2, <1>4, <2>2, <3>1
  <2> QED
    BY <1>13, <2>1, <2>2
<1>17. PastOrder'
  <2>1. stray' # 0 => Issued(stray)'
    BY <1>3, <1>4 DEF IInv, PastOrder
  <2>2. ASSUME NEW k \in Keys, NEW x \in Past(k)
        PROVE  /\ Issued(x)'
               /\ \A y \in Holds(k)' \cup Holds(ClearId)' : x <= y.id
    <3>1. Issued(x) /\ \A y \in Holds(k) \cup Holds(ClearId) : x <= y.id
      BY <2>2 DEF IInv, PastOrder
    <3>2. x <= n /\ Issued(x)'
      BY <1>4, <1>11, <3>1
    <3>3. Holds(k)' \cup Holds(ClearId)' \subseteq Holds(k) \cup Holds(ClearId) \cup {op}
      BY <1>13, <1>14
    <3> QED
      BY <1>2, <3>1, <3>2, <3>3
  <2> QED
    BY <1>4, <2>1, <2>2 DEF PastOrder
<1>18. LandedOK'
  <2>1. ASSUME NEW id \in Ids, chains'[id].stage = "sent", chains'[id].landed
        PROVE  /\ chains[id].stage = "sent" /\ chains[id].landed
               /\ chains'[id].inflight = chains[id].inflight
    <3>1. CASE id = ClearId
      BY <1>2, <2>1, <3>1
    <3>2. CASE id \in Keys
      BY <1>6, <2>1, <3>2
    <3> QED
      BY <1>5, <3>1, <3>2
  <2> QED
    BY <1>3, <2>1 DEF IInv, LandedOK, Late
<1>19. \A i \in Unsettled :
         \/ \E k \in Keys : chains[k].inflight # NoOp /\ i \in Settled(chains[k])
         \/ i \in op.sup
         \/ c.pending # NoOp /\ i \in c.settle
         \/ c.inflight # NoOp /\ i \in Settled(c)
  <2> SUFFICES ASSUME NEW i \in Unsettled
               PROVE  \/ \E k \in Keys : chains[k].inflight # NoOp /\ i \in Settled(chains[k])
                      \/ i \in op.sup
                      \/ c.pending # NoOp /\ i \in c.settle
                      \/ c.inflight # NoOp /\ i \in Settled(c)
    OBVIOUS
  <2>1. PICK id \in Ids :
          \/ chains[id].pending # NoOp /\ i \in chains[id].settle \cup chains[id].pending.sup
          \/ chains[id].inflight # NoOp /\ i \in Settled(chains[id])
    BY DEF IInv, Accounted
  <2>2. CASE id = ClearId
    BY <1>2, <2>1, <2>2
  <2>3. CASE id \in Keys
    <3>1. chains[id].pending # NoOp => chains[id].pending.sup = {} /\ id \in Dropped
      BY <1>5, <1>6, <2>3 DEF IInv, ChainsOK, ChainOK, OpOK
    <3> QED
      BY <1>2, <2>1, <2>3, <3>1
  <2> QED
    BY <1>5, <2>2, <2>3
<1>20. CASE c.stage # "none"
  <2>1. /\ d.pending = op
        /\ d.settle = IF c.pending = NoOp THEN {op.id} ELSE c.settle \cup {op.id}
        /\ d.inflight = c.inflight /\ d.sending = c.sending
        /\ (d.landed <=> c.landed) /\ d.stage = c.stage
    BY <1>2, <1>20
  <2>2. ChainsOK'
    <3>1. OpOK(ClearId, d.pending, d.settle)'
      <4>1. \A j \in d.settle : Issued(j)' /\ j <= n /\ ops'[j].key = ClearId
        <5> SUFFICES ASSUME NEW j \in d.settle
                     PROVE  Issued(j)' /\ j <= n /\ ops'[j].key = ClearId
          OBVIOUS
        <5>1. CASE j = n
          BY <1>4, <1>5, <5>1 DEF Issued
        <5>2. CASE c.pending # NoOp /\ j \in c.settle
          <6>1. Issued(j) /\ ops[j].key = ClearId
            BY <1>5, <5>2 DEF OpOK
          <6> QED
            BY <1>4, <1>11, <6>1
        <5> QED
          BY <1>2, <2>1, <5>1, <5>2
      <4>2. \A j \in op.sup : Issued(j)' /\ j <= n
        BY <1>4, <1>10, <1>11
      <4> QED
        BY <1>2, <1>4, <1>9, <2>1, <4>1, <4>2 DEF OpOK, Issued
    <3>2. OpOK(ClearId, d.inflight, d.sending)'
      BY <1>4, <1>5, <2>1 DEF OpOK
    <3>3. d.inflight # NoOp => d.inflight.id < n
      BY <1>4, <1>5, <2>1 DEF OpOK
    <3>4. ChainOK(ClearId, chains[ClearId])'
      BY <1>2, <1>5, <1>20, <2>1, <3>1, <3>2, <3>3 DEF ChainOK
    <3> QED
      BY <1>5, <1>12, <3>4 DEF ChainsOK
  <2>3. Waiting' = {ClearId} /\ Claimed' = Claimed
    <3>1. ClearId \in Waiting' /\ (ClearId \in Claimed' <=> ClearId \in Claimed)
      BY <1>2, <1>5, <2>1 DEF Waiting, Claimed
    <3>2. \A k \in Keys : k \notin Waiting' /\ (k \in Claimed' <=> k \in Claimed)
      BY <1>5, <1>6 DEF Waiting, Claimed
    <3>3. Waiting' \subseteq Ids /\ Claimed' \subseteq Ids /\ Claimed \subseteq Ids
      BY DEF Waiting, Claimed
    <3> QED
      BY <1>5, <3>1, <3>2, <3>3
  <2>4. Barrier'
    BY <1>2, <1>15, <2>1 DEF IInv, Barrier
  <2>5. CountsOK'
    <3>1. /\ IsFiniteSet(Waiting) /\ IsFiniteSet(Claimed)
          /\ count = Cardinality(Waiting) + Cardinality(Claimed)
          /\ clears = (IF ClearId \in Waiting THEN 1 ELSE 0)
                      + (IF ClearId \in Claimed THEN 1 ELSE 0)
          /\ gate # 0 <=> clears > 0
      BY DEF IInv, CountsOK
    <3>2. Cardinality(Waiting) \in Nat /\ Cardinality(Claimed) \in Nat
      BY <3>1, FS_CardinalityType
    <3>3. Cardinality(Dropped) = IF c.pending # NoOp THEN Cardinality(Waiting) - 1
                                                     ELSE Cardinality(Waiting)
      <4>1. ClearId \in Waiting <=> c.pending # NoOp
        BY <1>5 DEF Waiting
      <4> QED
        BY <1>7, <3>1, <4>1, FS_RemoveElement
    <3>4. IsFiniteSet(Waiting') /\ Cardinality(Waiting') = 1
      BY <2>3, FS_Singleton
    <3>5. count' = Cardinality(Waiting') + Cardinality(Claimed')
      BY <1>3, <2>3, <3>1, <3>2, <3>3, <3>4
    <3>6. /\ clears' = (IF ClearId \in Waiting' THEN 1 ELSE 0)
                       + (IF ClearId \in Claimed' THEN 1 ELSE 0)
          /\ gate' # 0 /\ clears' > 0
      <4>1. ClearId \in Waiting <=> c.pending # NoOp
        BY <1>5 DEF Waiting
      <4>2. clears' = 1 + (IF ClearId \in Claimed THEN 1 ELSE 0)
        BY <1>3, <3>1, <4>1
      <4> QED
        BY <1>3, <1>5, <2>3, <4>2
    <3> QED
      BY <1>3, <1>15, <2>3, <3>1, <3>4, <3>5, <3>6 DEF IInv, CountsOK
  <2>6. Accounted'
    <3> SUFFICES ASSUME NEW i \in Unsettled'
                 PROVE  \E id \in Ids :
           \/ chains'[id].pending # NoOp /\ i \in chains'[id].settle \cup chains'[id].pending.sup
           \/ chains'[id].inflight # NoOp /\ i \in Settled(chains'[id])
      BY DEF Accounted
    <3>1. CASE i = n \/ i \in op.sup \/ (c.pending # NoOp /\ i \in c.settle)
      <4>1. i \in d.settle \cup d.pending.sup
        BY <1>2, <2>1, <3>1
      <4> QED
        BY <1>2, <1>5, <2>1, <4>1
    <3>2. CASE c.inflight # NoOp /\ i \in Settled(c)
      BY <1>2, <1>5, <2>1, <3>2 DEF Settled
    <3>3. CASE \E k \in Keys : chains[k].inflight # NoOp /\ i \in Settled(chains[k])
      BY <1>5, <1>6, <3>3 DEF Settled
    <3> QED
      BY <1>4, <1>19, <3>1, <3>2, <3>3
  <2> QED
    BY <1>4, <1>8, <1>16, <1>17, <1>18, <2>2, <2>4, <2>5, <2>6 DEF IInv
<1>21. CASE c.stage = "none"
  <2>1. /\ d.pending = NoOp /\ d.inflight = op /\ d.sending = {n} /\ ~d.landed
        /\ d.stage = IF onWire = 0 THEN "ready" ELSE "wire"
        /\ c.pending = NoOp /\ c.inflight = NoOp
    BY <1>2, <1>5, <1>21 DEF ChainOK
  <2>2. ChainsOK'
    <3>1. OpOK(ClearId, d.inflight, d.sending)'
      <4>1. \A j \in op.sup : Issued(j)' /\ j <= n
        BY <1>4, <1>10, <1>11
      <4>2. \A j \in d.sending : Issued(j)' /\ j <= n /\ ops'[j].key = ClearId
        BY <1>4, <1>5, <1>9, <2>1 DEF Issued
      <4> QED
        BY <1>2, <1>4, <1>9, <2>1, <4>1, <4>2 DEF OpOK, Issued
    <3>2. OpOK(ClearId, d.pending, d.settle)'
      BY <2>1 DEF OpOK
    <3>3. ChainOK(ClearId, chains[ClearId])'
      BY <1>2, <2>1, <3>1, <3>2 DEF ChainOK
    <3> QED
      BY <1>5, <1>12, <3>3 DEF ChainsOK
  <2>3. /\ Waiting' = {} /\ Claimed' = Claimed \cup {ClearId}
        /\ ClearId \notin Claimed /\ ClearId \notin Waiting
    <3>1. /\ ClearId \notin Waiting' /\ ClearId \in Claimed'
          /\ ClearId \notin Claimed /\ ClearId \notin Waiting
      BY <1>2, <1>5, <2>1 DEF Waiting, Claimed
    <3>2. \A k \in Keys : k \notin Waiting' /\ (k \in Claimed' <=> k \in Claimed)
      BY <1>5, <1>6 DEF Waiting, Claimed
    <3>3. Waiting' \subseteq Ids /\ Claimed' \subseteq Ids /\ Claimed \subseteq Ids
      BY DEF Waiting, Claimed
    <3> QED
      BY <1>5, <3>1, <3>2, <3>3
  <2>4. Barrier'
    <3>1. onWire = 0 => Wire = {}
      BY FS_EmptySet DEF IInv, CountsOK
    <3> QED
      BY <1>2, <1>15, <2>1, <3>1 DEF Barrier
  <2>5. CountsOK'
    <3>1. /\ IsFiniteSet(Waiting) /\ IsFiniteSet(Claimed)
          /\ count = Cardinality(Waiting) + Cardinality(Claimed)
          /\ clears = 0
      BY <2>3 DEF IInv, CountsOK
    <3>2. Cardinality(Waiting) \in Nat /\ Cardinality(Claimed) \in Nat
      BY <3>1, FS_CardinalityType
    <3>3. Cardinality(Dropped) = Cardinality(Waiting)
      BY <1>7, <2>3, <3>1, FS_RemoveElement
    <3>4. IsFiniteSet(Waiting') /\ Cardinality(Waiting') = 0
      BY <2>3, FS_EmptySet
    <3>5. IsFiniteSet(Claimed') /\ Cardinality(Claimed') = Cardinality(Claimed) + 1
      BY <2>3, <3>1, FS_AddElement
    <3>6. count' = Cardinality(Waiting') + Cardinality(Claimed')
      BY <1>3, <2>1, <3>1, <3>2, <3>3, <3>4, <3>5
    <3>7. clears' = 1 /\ gate' # 0 /\ ClearId \in Claimed' /\ ClearId \notin Waiting'
      BY <1>3, <1>5, <2>1, <2>3, <3>1
    <3> QED
      BY <1>3, <1>15, <3>4, <3>5, <3>6, <3>7 DEF IInv, CountsOK
  <2>6. Accounted'
    <3> SUFFICES ASSUME NEW i \in Unsettled'
                 PROVE  \E id \in Ids :
           \/ chains'[id].pending # NoOp /\ i \in chains'[id].settle \cup chains'[id].pending.sup
           \/ chains'[id].inflight # NoOp /\ i \in Settled(chains'[id])
      BY DEF Accounted
    <3>1. CASE i = n \/ i \in op.sup
      <4>1. i \in Settled(d)
        BY <2>1, <3>1 DEF Settled
      <4> QED
        BY <1>2, <1>5, <2>1, <4>1
    <3>2. CASE \E k \in Keys : chains[k].inflight # NoOp /\ i \in Settled(chains[k])
      BY <1>5, <1>6, <3>2 DEF Settled
    <3> QED
      BY <1>4, <1>19, <2>1, <3>1, <3>2
  <2> QED
    BY <1>4, <1>8, <1>16, <1>17, <1>18, <2>2, <2>4, <2>5, <2>6 DEF IInv
<1> QED
  BY <1>20, <1>21

-----------------------------------------------------------------------------
(* The theorems *)

LEMMA InitIInv == Init => IInv
<1> SUFFICES ASSUME Init PROVE IInv
  OBVIOUS
<1>1. /\ \A id \in Ids : chains[id] = NoChain
      /\ \A i \in OpIds : result[i] = "none"
      /\ \A k \in Keys : l3[k] = 0
      /\ count = 0 /\ clears = 0 /\ gate = 0 /\ onWire = 0 /\ stray = 0
  BY DEF Init
<1>2. Typed
  BY NoChainType, BaseFacts DEF Init, Typed, Results, Pushed
<1>3. Numbered
  <2>1. 0 \in 0 .. MaxOps /\ \A i \in OpIds : ~(i <= 0)
    BY BaseFacts
  <2> QED
    BY <1>1, <2>1 DEF Numbered
<1>4. Waiting = {} /\ Claimed = {} /\ Wire = {} /\ \A id \in Ids : Holds(id) = {}
  BY <1>1, NoChainType DEF Waiting, Claimed, Wire, Holds
<1>5. ChainsOK
  BY <1>1, NoChainType DEF ChainsOK, ChainOK, OpOK
<1>6. CountsOK
  BY <1>1, <1>4, FS_EmptySet DEF CountsOK
<1>7. Barrier /\ ClearOrder /\ LandedOK
  BY <1>1, <1>4, NoChainType, BaseFacts DEF Barrier, ClearOrder, LandedOK
<1>8. PastOrder
  BY <1>1, BaseFacts DEF PastOrder, Past
<1>9. Accounted /\ TrueMeansLanded
  BY <1>1 DEF Accounted, TrueMeansLanded, Unsettled
<1> QED
  BY <1>2, <1>3, <1>5, <1>6, <1>7, <1>8, <1>9 DEF IInv

\* A call that fails is tried again or given up.
LEMMA FailedIInv ==
  ASSUME IInv, NEW id \in Ids, chains[id].stage = "sent", Failed(id), l3' = l3,
         stray' = stray \/ (stray = 0 /\ stray' = chains[id].inflight.id)
  PROVE  IInv'
<1>1. CASE Backoff(id)
  BY <1>1, BackoffIInv
<1>2. CASE GiveUp(id)
  BY <1>2, FinishIInv DEF GiveUp
<1> QED
  BY <1>1, <1>2 DEF Failed

LEMMA NextIInv == IInv /\ [Next]_vars => IInv'
<1> SUFFICES ASSUME IInv, [Next]_vars PROVE IInv'
  OBVIOUS
<1>1. ASSUME NEW k \in Keys, NEW kind \in Kinds[k], Push(k, kind) PROVE IInv'
  BY <1>1, PushIInv
<1>2. ASSUME NEW k \in Keys, NEW kind \in Kinds[k], PushShed(k, kind) PROVE IInv'
  BY <1>2, PushShedIInv
<1>3. CASE PushClear
  BY <1>3, PushClearIInv
<1>4. ASSUME NEW k \in Keys, GateOpened(k) PROVE IInv'
  BY <1>4, GateOpenedIInv
<1>5. CASE ClearSend
  BY <1>5, ClearSendIInv
<1>6. ASSUME NEW id \in Ids, Land(id) PROVE IInv'
  BY <1>6, LandIInv
<1>7. ASSUME NEW id \in Ids, Resolved(id) PROVE IInv'
  BY <1>7, FinishIInv DEF Resolved
<1>8. ASSUME NEW id \in Ids, Rejected(id) PROVE IInv'
  BY <1>8, FailedIInv DEF Rejected
<1>9. ASSUME NEW id \in Ids, TimedOut(id) PROVE IInv'
  <2>1. stray' = stray \/ (stray = 0 /\ stray' = chains[id].inflight.id)
    BY <1>9 DEF TimedOut
  <2> QED
    BY <1>9, <2>1, FailedIInv DEF TimedOut
<1>10. ASSUME NEW id \in Ids, Retry(id) PROVE IInv'
  BY <1>10, RetryIInv
<1>11. CASE LandLate
  BY <1>11, LandLateIInv
<1>12. CASE Drain
  <2>1. idle' \subseteq OpIds
    BY <1>12 DEF Drain, Unsettled, IInv, Typed
  <2> QED
    BY <1>12, <2>1, QuietIInv DEF Drain, counters
<1>13. CASE Close \/ UNCHANGED vars
  <2>1. idle' \subseteq OpIds
    BY <1>13 DEF Close, vars, IInv, Typed
  <2> QED
    BY <1>13, <2>1, QuietIInv DEF Close, counters, vars
<1> QED
  BY <1>1, <1>2, <1>3, <1>4, <1>5, <1>6, <1>7, <1>8, <1>9, <1>10, <1>11, <1>12, <1>13
  DEF Next, Adapter

LEMMA QueueInvariant == Spec => []IInv
BY InitIInv, NextIInv, PTL DEF Spec

\* A promise that resolves true (#run settling the callers of an operation, of
\* those coalesced into it and of those a clear superseded) means that L3 holds
\* the operation or a later one, or a call given up earlier landed on top of it.
THEOREM TrueMeansLandedHolds == Spec => []TrueMeansLanded
<1>1. IInv => TrueMeansLanded
  BY DEF IInv
<1> QED
  BY <1>1, QueueInvariant, PTL

\* The chains, the gate and the wait for an empty wire keep the effects on a key
\* in push order, clears included, but for a call given up at its deadline.
THEOREM PerKeyOrderHolds == Spec => PerKeyOrder
<1>1. ASSUME IInv, [Next]_vars
      PROVE  [\A k \in Keys : l3'[k] >= l3[k] \/ Late(l3'[k])]_vars
  <2>1. ASSUME NEW id \in Ids, Land(id)
        PROVE  \A k \in Keys : l3'[k] >= l3[k] \/ Late(l3'[k])
    BY <1>1, <2>1, LandIInv
  <2>2. CASE LandLate
    BY <1>1, <2>2, LandLateIInv
  <2>3. CASE l3' = l3
    <3>1. \A k \in Keys : l3[k] \in Int
      BY <1>1 DEF IInv, Typed
    <3> QED
      BY <2>3, <3>1
  <2>4. UNCHANGED vars => l3' = l3
    BY DEF vars
  <2>5. ASSUME NEW id \in Ids, Adapter(id) \/ Retry(id) PROVE Land(id) \/ l3' = l3
    BY <2>5 DEF Adapter, Resolved, Rejected, TimedOut, Retry
  <2>6. ASSUME NEW k \in Keys, NEW kind \in Kinds[k], Push(k, kind) \/ PushShed(k, kind)
        PROVE  l3' = l3
    BY <2>6 DEF Push, PushShed
  <2>7. PushClear \/ ClearSend \/ Drain \/ Close => l3' = l3
    BY DEF PushClear, ClearSend, Drain, Close
  <2>8. ASSUME NEW k \in Keys, GateOpened(k) PROVE l3' = l3
    BY <2>8 DEF GateOpened
  <2> QED
    BY <1>1, <2>1, <2>2, <2>3, <2>4, <2>5, <2>6, <2>7, <2>8 DEF Next
<1> QED
  BY <1>1, QueueInvariant, PTL DEF Spec, PerKeyOrder

\* When #count reaches zero no promise is left open: the chains hold nothing.
LEMMA EmptyMeansSettled == IInv /\ count = 0 => Unsettled = {}
<1> SUFFICES ASSUME IInv, count = 0 PROVE Unsettled = {}
  OBVIOUS
<1>1. IsFiniteSet(Waiting) /\ IsFiniteSet(Claimed)
  BY DEF IInv, CountsOK
<1>2. Cardinality(Waiting) \in Nat /\ Cardinality(Claimed) \in Nat
  BY <1>1, FS_CardinalityType
<1>3. Cardinality(Waiting) = 0 /\ Cardinality(Claimed) = 0
  BY <1>2 DEF IInv, CountsOK
<1>4. Waiting = {} /\ Claimed = {}
  BY <1>1, <1>3, FS_EmptySet
<1> QED
  BY <1>4 DEF IInv, Accounted, Waiting, Claimed

\* What drain() reports when #count reaches zero in #run: every operation pushed
\* before it has settled, those swallowed by a clear included.
THEOREM DrainMeansSettledHolds == Spec => DrainMeansSettled
<1>0. (IInv /\ count = 0 => Unsettled = {})'
  BY EmptyMeansSettled, PTL
<1>1. ASSUME IInv, IInv', [Next]_vars
      PROVE  [idle' = {} => idle \cap Unsettled' = {}]_vars
  <2> SUFFICES ASSUME Next, idle' = {} PROVE idle \cap Unsettled' = {}
    BY <1>1
  <2>1. CASE idle = {}
    BY <2>1
  <2>2. CASE idle # {}
    <3>1. ASSUME NEW id \in Ids, NEW outcome, Finish(id, outcome) PROVE Unsettled' = {}
      <4>1. count' = 0
        BY <2>2, <3>1 DEF Finish
      <4> QED
        BY <1>0, <1>1, <4>1
    <3>2. ASSUME NEW id \in Ids, Adapter(id) \/ Retry(id)
          PROVE  idle' = idle \/ \E outcome \in {"true", "false"} : Finish(id, outcome)
      BY <3>2 DEF Adapter, Land, Resolved, Rejected, TimedOut, Failed, Backoff, GiveUp, Retry
    <3>3. ASSUME NEW k \in Keys, NEW kind \in Kinds[k], Push(k, kind) \/ PushShed(k, kind)
          PROVE  idle' = idle
      BY <3>3 DEF Push, PushShed
    <3>4. PushClear \/ ClearSend \/ LandLate \/ Close => idle' = idle
      BY DEF PushClear, ClearSend, LandLate, Close
    <3>5. Drain => idle \subseteq idle'
      BY DEF Drain
    <3>6. ASSUME NEW k \in Keys, GateOpened(k) PROVE idle' = idle
      BY <3>6 DEF GateOpened
    <3>7. ASSUME NEW id \in Ids, Adapter(id) \/ Retry(id) PROVE Unsettled' = {}
      BY <2>2, <3>1, <3>2, <3>7
    <3> QED
      BY <2>2, <3>3, <3>4, <3>5, <3>6, <3>7 DEF Next
  <2> QED
    BY <2>1, <2>2
<1> QED
  BY <1>1, QueueInvariant, PTL DEF Spec, DrainMeansSettled

-----------------------------------------------------------------------------
(* Sums over a finite set, as MapThenSumSet folds them.                    *)

\* A non-empty set of numbers has a least.
LEMMA Least ==
  ASSUME NEW T, T \subseteq Nat, T # {}
  PROVE  \E x \in T : \A y \in T : x <= y
<1> DEFINE R == OpToRel(<, Nat)
<1>1. IsWellFoundedOn(R, Nat)
  BY NatLessThanWellFounded
<1>2. \A x, y \in Nat : <<y, x>> \in R <=> y < x
  BY DEF OpToRel
<1> HIDE DEF R
<1>3. PICK x \in T : \A y \in T : ~(<<y, x>> \in R)
  BY <1>1, WFMin
<1>4. \A y \in T : ~(y < x) /\ x \in Nat /\ y \in Nat
  BY <1>2, <1>3
<1> QED BY <1>4

Pick(s) == CHOOSE x \in s : TRUE
SumUpTo(f, g, s) == IF s = {} THEN 0 ELSE f[Pick(s)] + g[s \ {Pick(s)}]
FoldOf(S, f, g) == g = [s \in SUBSET S |-> SumUpTo(f, g, s)]

LEMMA Picked ==
  ASSUME NEW S, IsFiniteSet(S), NEW s \in SUBSET S, s # {}
  PROVE  /\ Pick(s) \in s /\ s \ {Pick(s)} \in SUBSET S
         /\ Cardinality(s) \in Nat /\ Cardinality(s) > 0
         /\ Cardinality(s \ {Pick(s)}) = Cardinality(s) - 1
<1>1. IsFiniteSet(s)
  BY FS_Subset
<1>2. Cardinality(s) \in Nat /\ Cardinality(s) # 0
  BY <1>1, FS_CardinalityType, FS_EmptySet
<1>3. Pick(s) \in s
  BY DEF Pick
<1>4. Cardinality(s \ {Pick(s)}) = Cardinality(s) - 1
  BY <1>1, <1>3, FS_RemoveElement
<1> QED BY <1>2, <1>3, <1>4

\* The fold has a solution.
LEMMA FoldExists ==
  ASSUME NEW S, IsFiniteSet(S), NEW f
  PROVE  \E g : FoldOf(S, f, g)
<1> DEFINE Good(n) == \E g : \A s \in SUBSET S : Cardinality(s) < n => g[s] = SumUpTo(f, g, s)
           Bad == {n \in Nat : ~Good(n)}
<1>1. Good(0)
  <2> SUFFICES ASSUME NEW s \in SUBSET S, Cardinality(s) < 0 PROVE FALSE
    OBVIOUS
  <2>1. IsFiniteSet(s)
    BY FS_Subset
  <2> QED BY <2>1, FS_CardinalityType
<1>2. ASSUME NEW n \in Nat, Good(n) PROVE Good(n + 1)
  <2>1. PICK g : \A s \in SUBSET S : Cardinality(s) < n => g[s] = SumUpTo(f, g, s)
    BY <1>2
  <2>2. PICK h : h = [s \in SUBSET S |-> SumUpTo(f, g, s)]
    OBVIOUS
  <2>3. ASSUME NEW s \in SUBSET S, Cardinality(s) < n + 1
        PROVE  h[s] = SumUpTo(f, h, s)
    <3>1. h[s] = SumUpTo(f, g, s)
      BY <2>2
    <3>2. CASE s = {}
      BY <3>1, <3>2 DEF SumUpTo
    <3>3. CASE s # {}
      <4>1. s \ {Pick(s)} \in SUBSET S /\ Cardinality(s \ {Pick(s)}) < n
        BY <2>3, <3>3, Picked
      <4>2. h[s \ {Pick(s)}] = g[s \ {Pick(s)}]
        BY <2>1, <2>2, <4>1
      <4> QED BY <3>1, <3>3, <4>2 DEF SumUpTo
    <3> QED BY <3>2, <3>3
  <2> QED BY <2>3
<1>3. \A n \in Nat : Good(n)
  <2> SUFFICES ASSUME Bad # {} PROVE FALSE
    OBVIOUS
  <2>1. PICK m \in Bad : \A n \in Bad : m <= n
    BY Least
  <2>2. m \in Nat /\ m # 0 /\ ~Good(m)
    BY <1>1, <2>1
  <2>3. m - 1 \in Nat /\ m - 1 < m
    BY <2>2
  <2>4. Good(m - 1)
    BY <2>1, <2>3
  <2>5. Good((m - 1) + 1)
    BY <1>2, <2>3, <2>4
  <2>6. (m - 1) + 1 = m
    BY <2>2
  <2> QED BY <2>2, <2>5, <2>6
<1> HIDE DEF Good
<1>4. Cardinality(S) + 1 \in Nat
  BY FS_CardinalityType
<1>5. Good(Cardinality(S) + 1)
  BY <1>3, <1>4
<1>6. PICK g : \A s \in SUBSET S : Cardinality(s) < Cardinality(S) + 1 => g[s] = SumUpTo(f, g, s)
  BY <1>5 DEF Good
<1>7. PICK h : h = [s \in SUBSET S |-> g[s]]
  OBVIOUS
<1>8. ASSUME NEW s \in SUBSET S PROVE h[s] = SumUpTo(f, h, s)
  <2>1. Cardinality(s) < Cardinality(S) + 1
    <3>1. IsFiniteSet(s) /\ Cardinality(s) <= Cardinality(S)
      BY FS_Subset
    <3>2. Cardinality(s) \in Nat /\ Cardinality(S) \in Nat
      BY <3>1, FS_CardinalityType
    <3> QED BY <3>1, <3>2
  <2>2. h[s] = SumUpTo(f, g, s)
    BY <1>6, <1>7, <2>1
  <2>3. s # {} => h[s \ {Pick(s)}] = g[s \ {Pick(s)}]
    BY <1>7
  <2> QED BY <2>2, <2>3 DEF SumUpTo
<1>9. h = [s \in SUBSET S |-> SumUpTo(f, h, s)]
  BY <1>7, <1>8
<1> QED BY <1>9 DEF FoldOf

\* Whatever the fold picks first, any element may be taken out first.
LEMMA FoldTakes ==
  ASSUME NEW S, IsFiniteSet(S), NEW f, \A x \in S : f[x] \in Nat, NEW g, FoldOf(S, f, g)
  PROVE  \A s \in SUBSET S : g[s] \in Nat /\ \A x \in s : g[s] = f[x] + g[s \ {x}]
<1> DEFINE Good(n) == \A s \in SUBSET S :
                        Cardinality(s) < n => g[s] \in Nat /\ \A x \in s : g[s] = f[x] + g[s \ {x}]
           Bad == {n \in Nat : ~Good(n)}
<1>0. \A s \in SUBSET S : g[s] = SumUpTo(f, g, s)
  BY DEF FoldOf
<1>1. Good(0)
  <2> SUFFICES ASSUME NEW s \in SUBSET S, Cardinality(s) < 0 PROVE FALSE
    OBVIOUS
  <2>1. IsFiniteSet(s)
    BY FS_Subset
  <2> QED BY <2>1, FS_CardinalityType
<1>2. ASSUME NEW n \in Nat, Good(n) PROVE Good(n + 1)
  <2> SUFFICES ASSUME NEW s \in SUBSET S, Cardinality(s) < n + 1
               PROVE  g[s] \in Nat /\ \A x \in s : g[s] = f[x] + g[s \ {x}]
    OBVIOUS
  <2>1. CASE s = {}
    <3>1. g[s] = SumUpTo(f, g, s)
      BY <1>0
    <3>2. g[s] = 0
      BY <2>1, <3>1 DEF SumUpTo
    <3> QED BY <2>1, <3>2
  <2>2. CASE s # {}
    <3>1. PICK c : c = Pick(s)
      OBVIOUS
    <3>2. /\ c \in s /\ s \ {c} \in SUBSET S /\ Cardinality(s) \in Nat
          /\ Cardinality(s \ {c}) < n
      BY <2>2, <3>1, Picked
    <3>3. g[s] = f[c] + g[s \ {c}]
      BY <1>0, <2>2, <3>1 DEF SumUpTo
    <3>4. g[s \ {c}] \in Nat /\ \A x \in s \ {c} : g[s \ {c}] = f[x] + g[(s \ {c}) \ {x}]
      BY <1>2, <3>2
    <3>5. ASSUME NEW x \in s, x # c PROVE g[s] = f[x] + g[s \ {x}]
      <4>1. s \ {x} \in SUBSET S /\ IsFiniteSet(s) /\ c \in s \ {x}
        BY <3>2, <3>5, FS_Subset
      <4>2. Cardinality(s \ {x}) < n
        BY <3>2, <3>5, <4>1, FS_RemoveElement
      <4>3. g[s \ {x}] = f[c] + g[(s \ {x}) \ {c}]
        BY <1>2, <4>1, <4>2
      <4>4. (s \ {x}) \ {c} = (s \ {c}) \ {x}
        OBVIOUS
      <4>5. PICK t : t = (s \ {c}) \ {x}
        OBVIOUS
      <4>6. t \in SUBSET S /\ Cardinality(t) < n
        <5>1. t \in SUBSET (s \ {x}) /\ IsFiniteSet(s \ {x})
          BY <4>1, <4>5, FS_Subset
        <5>2. /\ Cardinality(t) <= Cardinality(s \ {x}) /\ IsFiniteSet(t)
              /\ Cardinality(t) \in Nat /\ Cardinality(s \ {x}) \in Nat
          BY <5>1, FS_Subset, FS_CardinalityType
        <5>3. t \in SUBSET S
          BY <4>1, <5>1
        <5> QED BY <4>2, <5>2, <5>3
      <4>7. g[t] \in Nat
        BY <1>2, <4>6
      <4>8. g[s \ {c}] = f[x] + g[t] /\ g[s \ {x}] = f[c] + g[t]
        BY <3>4, <3>5, <4>3, <4>4, <4>5
      <4> QED BY <3>2, <3>3, <4>7, <4>8
    <3>6. g[s] \in Nat
      BY <3>2, <3>3, <3>4
    <3> QED BY <3>3, <3>5, <3>6
  <2> QED BY <2>1, <2>2
<1>3. \A n \in Nat : Good(n)
  <2> SUFFICES ASSUME Bad # {} PROVE FALSE
    OBVIOUS
  <2>1. PICK m \in Bad : \A n \in Bad : m <= n
    BY Least
  <2>2. m \in Nat /\ m # 0 /\ ~Good(m)
    BY <1>1, <2>1
  <2>3. m - 1 \in Nat /\ m - 1 < m
    BY <2>2
  <2>4. Good(m - 1)
    BY <2>1, <2>3
  <2>5. Good((m - 1) + 1)
    BY <1>2, <2>3, <2>4
  <2>6. (m - 1) + 1 = m
    BY <2>2
  <2> QED BY <2>2, <2>5, <2>6
<1> HIDE DEF Good
<1> SUFFICES ASSUME NEW s \in SUBSET S
             PROVE  g[s] \in Nat /\ \A x \in s : g[s] = f[x] + g[s \ {x}]
  OBVIOUS
<1>4. Cardinality(s) \in Nat
  BY FS_Subset, FS_CardinalityType
<1>5. Cardinality(s) + 1 \in Nat /\ Cardinality(s) < Cardinality(s) + 1
  BY <1>4
<1>6. Good(Cardinality(s) + 1)
  BY <1>3, <1>5
<1> QED BY <1>5, <1>6 DEF Good

\* The fold knows its function on the set only.
LEMMA FoldSame ==
  ASSUME NEW S, IsFiniteSet(S), NEW f, NEW g, FoldOf(S, f, g),
         NEW T, IsFiniteSet(T), NEW e, NEW h, FoldOf(T, e, h),
         NEW A, A \subseteq S, A \subseteq T, \A x \in A : f[x] = e[x]
  PROVE  g[A] = h[A]
<1> DEFINE Good(n) == \A s \in SUBSET A : Cardinality(s) < n => g[s] = h[s]
           Bad == {n \in Nat : ~Good(n)}
<1>0. /\ \A s \in SUBSET A : g[s] = SumUpTo(f, g, s) /\ h[s] = SumUpTo(e, h, s)
      /\ IsFiniteSet(A)
  BY FS_Subset DEF FoldOf
<1>1. Good(0)
  <2> SUFFICES ASSUME NEW s \in SUBSET A, Cardinality(s) < 0 PROVE FALSE
    OBVIOUS
  <2> QED BY <1>0, FS_Subset, FS_CardinalityType
<1>2. ASSUME NEW n \in Nat, Good(n) PROVE Good(n + 1)
  <2> SUFFICES ASSUME NEW s \in SUBSET A, Cardinality(s) < n + 1 PROVE g[s] = h[s]
    OBVIOUS
  <2>0. g[s] = SumUpTo(f, g, s) /\ h[s] = SumUpTo(e, h, s)
    BY <1>0
  <2>1. CASE s = {}
    BY <2>0, <2>1 DEF SumUpTo
  <2>2. CASE s # {}
    <3>1. /\ Pick(s) \in s /\ s \ {Pick(s)} \in SUBSET A /\ Cardinality(s \ {Pick(s)}) < n
      BY <1>0, <2>2, Picked
    <3>2. g[s \ {Pick(s)}] = h[s \ {Pick(s)}] /\ f[Pick(s)] = e[Pick(s)]
      BY <1>2, <3>1
    <3> QED BY <2>0, <2>2, <3>2 DEF SumUpTo
  <2> QED BY <2>1, <2>2
<1>3. \A n \in Nat : Good(n)
  <2> SUFFICES ASSUME Bad # {} PROVE FALSE
    OBVIOUS
  <2>1. PICK m \in Bad : \A n \in Bad : m <= n
    BY Least
  <2>2. m \in Nat /\ m # 0 /\ ~Good(m)
    BY <1>1, <2>1
  <2>3. m - 1 \in Nat /\ m - 1 < m
    BY <2>2
  <2>4. Good(m - 1)
    BY <2>1, <2>3
  <2>5. Good((m - 1) + 1)
    BY <1>2, <2>3, <2>4
  <2>6. (m - 1) + 1 = m
    BY <2>2
  <2> QED BY <2>2, <2>5, <2>6
<1> HIDE DEF Good
<1>4. Cardinality(A) \in Nat
  BY <1>0, FS_CardinalityType
<1>5. Cardinality(A) + 1 \in Nat /\ Cardinality(A) < Cardinality(A) + 1
  BY <1>4
<1>6. Good(Cardinality(A) + 1)
  BY <1>3, <1>5
<1> QED BY <1>5, <1>6 DEF Good

\* The sum of f over S.
Total(S, f) == MapThenSumSet(LAMBDA s : f[s], S)

LEMMA TotalFold ==
  ASSUME NEW S, IsFiniteSet(S), NEW f
  PROVE  \E g : FoldOf(S, f, g) /\ Total(S, f) = g[S]
<1> DEFINE h == CHOOSE g : FoldOf(S, f, g)
<1>1. \E g : FoldOf(S, f, g)
  BY FoldExists
<1>2. FoldOf(S, f, h)
  BY <1>1
<1>3. Total(S, f) = h[S]
  BY DEF Total, MapThenSumSet, MapThenFoldSet, FoldOf, SumUpTo, Pick
<1> QED BY <1>2, <1>3

LEMMA TotalEmpty ==
  ASSUME NEW f
  PROVE  Total({}, f) = 0
<1>1. PICK g : FoldOf({}, f, g) /\ Total({}, f) = g[{}]
  BY TotalFold, FS_EmptySet
<1>2. {} \in SUBSET {}
  OBVIOUS
<1> QED BY <1>1, <1>2 DEF FoldOf, SumUpTo

LEMMA TotalSame ==
  ASSUME NEW S, IsFiniteSet(S), NEW f, NEW e, \A x \in S : f[x] = e[x]
  PROVE  Total(S, f) = Total(S, e)
<1>1. PICK g : FoldOf(S, f, g) /\ Total(S, f) = g[S]
  BY TotalFold
<1>2. PICK h : FoldOf(S, e, h) /\ Total(S, e) = h[S]
  BY TotalFold
<1> QED BY <1>1, <1>2, FoldSame

LEMMA TotalType ==
  ASSUME NEW S, IsFiniteSet(S), NEW f, \A x \in S : f[x] \in Nat
  PROVE  Total(S, f) \in Nat
<1>1. PICK g : FoldOf(S, f, g) /\ Total(S, f) = g[S]
  BY TotalFold
<1> QED BY <1>1, FoldTakes

LEMMA TotalTakes ==
  ASSUME NEW S, IsFiniteSet(S), NEW f, \A x \in S : f[x] \in Nat, NEW x \in S
  PROVE  Total(S, f) = f[x] + Total(S \ {x}, f)
<1>1. PICK g : FoldOf(S, f, g) /\ Total(S, f) = g[S]
  BY TotalFold
<1>2. IsFiniteSet(S \ {x})
  BY FS_Subset
<1>3. PICK h : FoldOf(S \ {x}, f, h) /\ Total(S \ {x}, f) = h[S \ {x}]
  BY <1>2, TotalFold
<1>4. g[S \ {x}] = h[S \ {x}]
  BY <1>1, <1>2, <1>3, FoldSame
<1>5. g[S] = f[x] + g[S \ {x}]
  BY <1>1, FoldTakes
<1> QED BY <1>1, <1>3, <1>4, <1>5

\* A function that is larger by p on D sums to that much more.
LEMMA TotalRest ==
  ASSUME NEW S, IsFiniteSet(S), NEW D \in SUBSET S, NEW f, NEW g, NEW p,
         \A x \in S : f[x] \in Nat /\ g[x] \in Nat,
         \A x \in D : p[x] \in Nat /\ f[x] = g[x] + p[x],
         \A x \in S \ D : f[x] = g[x]
  PROVE  Total(S, f) = Total(S, g) + Total(D, p)
<1> DEFINE Rest(E, e) == /\ E \in SUBSET D /\ e \in [S -> Nat]
                         /\ \A x \in E : e[x] = g[x] + p[x]
                         /\ \A x \in S \ E : e[x] = g[x]
           Good(n) == \A E \in SUBSET D : \A e \in [S -> Nat] :
                        Cardinality(E) < n /\ Rest(E, e) => Total(S, e) = Total(S, g) + Total(E, p)
           Bad == {n \in Nat : ~Good(n)}
<1>0. /\ \A E \in SUBSET D : IsFiniteSet(E) /\ Cardinality(E) \in Nat
      /\ Total(S, g) \in Nat /\ \A E \in SUBSET D : Total(E, p) \in Nat
  <2>1. \A E \in SUBSET D : IsFiniteSet(E)
    BY FS_Subset
  <2> QED BY <2>1, FS_CardinalityType, TotalType
<1>1. Good(0)
  BY <1>0
<1>2. ASSUME NEW n \in Nat, Good(n) PROVE Good(n + 1)
  <2> SUFFICES ASSUME NEW E \in SUBSET D, NEW e \in [S -> Nat], Cardinality(E) < n + 1,
                      Rest(E, e)
               PROVE  Total(S, e) = Total(S, g) + Total(E, p)
    OBVIOUS
  <2>1. CASE E = {}
    <3>1. Total(S, e) = Total(S, g)
      BY <2>1, TotalSame
    <3>2. Total(E, p) = 0
      BY <2>1, TotalEmpty
    <3> QED BY <1>0, <3>1, <3>2
  <2>2. CASE E # {}
    <3>1. PICK x \in E : TRUE
      BY <2>2
    <3>2. PICK h : h = [e EXCEPT ![x] = g[x]]
      OBVIOUS
    <3>3. /\ x \in S /\ h \in [S -> Nat] /\ h[x] = g[x] /\ e[x] = g[x] + p[x]
          /\ \A y \in S \ {x} : h[y] = e[y]
      BY <3>1, <3>2
    <3>4. Rest(E \ {x}, h)
      BY <3>1, <3>3
    <3>5. Cardinality(E \ {x}) < n
      <4>1. Cardinality(E \ {x}) = Cardinality(E) - 1 /\ Cardinality(E) \in Nat
        BY <1>0, <3>1, FS_RemoveElement
      <4> QED BY <4>1
    <3>6. Total(S, h) = Total(S, g) + Total(E \ {x}, p)
      BY <1>2, <3>3, <3>4, <3>5
    <3>7. Total(E, p) = p[x] + Total(E \ {x}, p)
      <4>1. IsFiniteSet(E) /\ \A y \in E : p[y] \in Nat
        BY <1>0
      <4> QED BY <3>1, <4>1, TotalTakes
    <3>8. Total(S, h) = g[x] + Total(S \ {x}, h) /\ Total(S, e) = e[x] + Total(S \ {x}, e)
      BY <3>3, TotalTakes
    <3>9. Total(S \ {x}, h) = Total(S \ {x}, e) /\ Total(S \ {x}, e) \in Nat
      <4>1. IsFiniteSet(S \ {x})
        BY FS_Subset
      <4> QED BY <3>3, <4>1, TotalSame, TotalType
    <3>10. g[x] \in Nat /\ p[x] \in Nat /\ Total(E \ {x}, p) \in Nat
      BY <1>0, <3>1, <3>3
    <3> QED BY <1>0, <3>3, <3>6, <3>7, <3>8, <3>9, <3>10
  <2> QED BY <2>1, <2>2
<1>3. \A n \in Nat : Good(n)
  <2> SUFFICES ASSUME Bad # {} PROVE FALSE
    OBVIOUS
  <2>1. PICK m \in Bad : \A n \in Bad : m <= n
    BY Least
  <2>2. m \in Nat /\ m # 0 /\ ~Good(m)
    BY <1>1, <2>1
  <2>3. m - 1 \in Nat /\ m - 1 < m
    BY <2>2
  <2>4. Good(m - 1)
    BY <2>1, <2>3
  <2>5. Good((m - 1) + 1)
    BY <1>2, <2>3, <2>4
  <2>6. (m - 1) + 1 = m
    BY <2>2
  <2> QED BY <2>2, <2>5, <2>6
<1> HIDE DEF Good
<1>4. PICK e : e = [x \in S |-> f[x]]
  OBVIOUS
<1>5. Rest(D, e) /\ e \in [S -> Nat]
  BY <1>4
<1>6. Cardinality(D) \in Nat /\ Cardinality(D) < Cardinality(D) + 1
  BY <1>0
<1>7. Good(Cardinality(D) + 1)
  BY <1>3, <1>6
<1>8. Total(S, e) = Total(S, g) + Total(D, p)
  BY <1>5, <1>6, <1>7 DEF Good
<1>9. Total(S, f) = Total(S, e)
  BY <1>4, TotalSame
<1> QED BY <1>8, <1>9

\* A sum of ones counts, and one of zeroes is zero.
LEMMA TotalZero ==
  ASSUME NEW S, IsFiniteSet(S), NEW f, \A x \in S : f[x] = 0
  PROVE  Total(S, f) = 0
<1>1. Total(S, f) = Total(S, f) + Total(S, f)
  <2>1. S \in SUBSET S /\ \A x \in S : f[x] \in Nat /\ f[x] = f[x] + f[x]
    OBVIOUS
  <2> QED BY <2>1, TotalRest
<1>2. \A x \in S : f[x] \in Nat
  OBVIOUS
<1>3. PICK n : n = Total(S, f)
  OBVIOUS
<1>4. n \in Nat /\ n = n + n
  BY <1>1, <1>2, <1>3, TotalType
<1>5. n = 0
  BY <1>4
<1> QED BY <1>3, <1>5

LEMMA TotalOnes ==
  ASSUME NEW S, IsFiniteSet(S), NEW f, \A x \in S : f[x] = 1
  PROVE  Total(S, f) = Cardinality(S)
<1> DEFINE Good(n) == \A E \in SUBSET S : Cardinality(E) < n => Total(E, f) = Cardinality(E)
           Bad == {n \in Nat : ~Good(n)}
<1>0. \A E \in SUBSET S : IsFiniteSet(E) /\ Cardinality(E) \in Nat
  BY FS_Subset, FS_CardinalityType
<1>1. Good(0)
  BY <1>0
<1>2. ASSUME NEW n \in Nat, Good(n) PROVE Good(n + 1)
  <2> SUFFICES ASSUME NEW E \in SUBSET S, Cardinality(E) < n + 1
               PROVE  Total(E, f) = Cardinality(E)
    OBVIOUS
  <2>1. CASE E = {}
    BY <2>1, TotalEmpty, FS_EmptySet
  <2>2. CASE E # {}
    <3>1. PICK x \in E : TRUE
      BY <2>2
    <3>2. /\ Cardinality(E \ {x}) = Cardinality(E) - 1 /\ Cardinality(E) \in Nat
          /\ IsFiniteSet(E)
      BY <1>0, <3>1, FS_RemoveElement
    <3>3. Total(E \ {x}, f) = Cardinality(E \ {x})
      BY <1>2, <3>2
    <3>4. Total(E, f) = f[x] + Total(E \ {x}, f)
      <4>1. \A y \in E : f[y] \in Nat
        OBVIOUS
      <4> QED BY <3>1, <3>2, <4>1, TotalTakes
    <3> QED BY <3>1, <3>2, <3>3, <3>4
  <2> QED BY <2>1, <2>2
<1>3. \A n \in Nat : Good(n)
  <2> SUFFICES ASSUME Bad # {} PROVE FALSE
    OBVIOUS
  <2>1. PICK m \in Bad : \A n \in Bad : m <= n
    BY Least
  <2>2. m \in Nat /\ m # 0 /\ ~Good(m)
    BY <1>1, <2>1
  <2>3. m - 1 \in Nat /\ m - 1 < m
    BY <2>2
  <2>4. Good(m - 1)
    BY <2>1, <2>3
  <2>5. Good((m - 1) + 1)
    BY <1>2, <2>3, <2>4
  <2>6. (m - 1) + 1 = m
    BY <2>2
  <2> QED BY <2>2, <2>5, <2>6
<1> HIDE DEF Good
<1>4. Cardinality(S) + 1 \in Nat /\ Cardinality(S) < Cardinality(S) + 1
  BY <1>0
<1>5. Good(Cardinality(S) + 1)
  BY <1>3, <1>4
<1> QED BY <1>4, <1>5 DEF Good

\* When one term changes, the sum changes by as much.
LEMMA TotalShift ==
  ASSUME NEW S, IsFiniteSet(S), NEW f, NEW e, NEW x \in S,
         \A y \in S : f[y] \in Nat /\ e[y] \in Nat,
         \A y \in S \ {x} : e[y] = f[y]
  PROVE  Total(S, e) = Total(S, f) - f[x] + e[x]
<1>1. IsFiniteSet(S \ {x})
  BY FS_Subset
<1>2. Total(S, f) = f[x] + Total(S \ {x}, f) /\ Total(S, e) = e[x] + Total(S \ {x}, e)
  BY TotalTakes
<1>3. Total(S \ {x}, e) = Total(S \ {x}, f) /\ Total(S \ {x}, f) \in Nat
  BY <1>1, TotalSame, TotalType
<1> QED BY <1>2, <1>3

-----------------------------------------------------------------------------
(* The counters.                                                           *)

\* What each chain counts against the byte bound, and how many operations it holds.
WeightOf == [id \in Ids |-> chains[id].pending.bytes + chains[id].inflight.bytes]
LoadOf == [id \in Ids |-> (IF chains[id].pending = NoOp THEN 0 ELSE 1)
                          + (IF chains[id].inflight = NoOp THEN 0 ELSE 1)]
WaitBytes == [id \in Ids |-> chains[id].pending.bytes]

\* #bytes is the sum over the chains; a clear counts for nothing.
BytesOK ==
  /\ bytes = Total(Ids, WeightOf)
  /\ chains[ClearId].pending.bytes = 0 /\ chains[ClearId].inflight.bytes = 0

LEMMA WeightTypes ==
  ASSUME Typed, IsFiniteSet(Keys)
  PROVE  /\ IsFiniteSet(Ids)
         /\ \A id \in Ids : /\ chains[id].pending.bytes \in Nat
                            /\ chains[id].inflight.bytes \in Nat
                            /\ WeightOf[id] = chains[id].pending.bytes + chains[id].inflight.bytes
                            /\ WeightOf[id] \in Nat
                            /\ WaitBytes[id] = chains[id].pending.bytes
         /\ Total(Ids, WeightOf) \in Nat
<1>1. IsFiniteSet(Ids)
  BY FS_AddElement DEF Ids
<1>2. ASSUME NEW id \in Ids
      PROVE  /\ chains[id].pending.bytes \in Nat /\ chains[id].inflight.bytes \in Nat
             /\ WeightOf[id] = chains[id].pending.bytes + chains[id].inflight.bytes
             /\ WeightOf[id] \in Nat
             /\ WaitBytes[id] = chains[id].pending.bytes
  <2>1. chains[id].pending \in OpType /\ chains[id].inflight \in OpType
    BY ChainType
  <2>2. chains[id].pending.bytes \in Nat /\ chains[id].inflight.bytes \in Nat
    BY <2>1 DEF OpType
  <2> QED BY <2>2 DEF WeightOf, WaitBytes
<1>3. Total(Ids, WeightOf) \in Nat
  BY <1>1, <1>2, TotalType
<1> QED BY <1>1, <1>2, <1>3

LEMMA WeightsNext ==
  /\ Total(Ids, WeightOf)' = Total(Ids, WeightOf')
  /\ \A id \in Ids : WeightOf'[id] = chains'[id].pending.bytes + chains'[id].inflight.bytes
<1>1. Total(Ids, WeightOf)' = Total(Ids, WeightOf')
  BY DEF Total, MapThenSumSet, MapThenFoldSet, Ids
<1> QED BY <1>1 DEF WeightOf

\* No chain changes what it holds, or one does.
LEMMA SameWeight ==
  ASSUME Typed, IsFiniteSet(Keys), BytesOK, bytes' = bytes,
         \A id \in Ids : /\ chains'[id].pending.bytes = chains[id].pending.bytes
                         /\ chains'[id].inflight.bytes = chains[id].inflight.bytes
  PROVE  BytesOK'
<1>1. \A id \in Ids : WeightOf'[id] = WeightOf[id]
  BY WeightTypes, WeightsNext
<1>2. Total(Ids, WeightOf') = Total(Ids, WeightOf)
  BY <1>1, WeightTypes, TotalSame
<1> QED BY <1>2, WeightsNext, BaseFacts DEF BytesOK

LEMMA OneWeight ==
  ASSUME Typed, Typed', IsFiniteSet(Keys), BytesOK, NEW id \in Ids, NEW n \in Int,
         bytes' = bytes + n,
         chains'[id].pending.bytes + chains'[id].inflight.bytes =
           chains[id].pending.bytes + chains[id].inflight.bytes + n,
         id = ClearId => chains'[id].pending.bytes = 0 /\ chains'[id].inflight.bytes = 0,
         \A i \in Ids : i # id => /\ chains'[i].pending.bytes = chains[i].pending.bytes
                                  /\ chains'[i].inflight.bytes = chains[i].inflight.bytes
  PROVE  BytesOK'
<1>1. \A i \in Ids : WeightOf[i] \in Nat /\ WeightOf'[i] \in Nat
  <2>1. ASSUME NEW i \in Ids PROVE WeightOf'[i] \in Nat
    <3>1. chains'[i].pending \in OpType /\ chains'[i].inflight \in OpType
      BY DEF Typed, Chain
    <3>2. chains'[i].pending.bytes \in Nat /\ chains'[i].inflight.bytes \in Nat
      BY <3>1 DEF OpType
    <3> QED BY <3>2, WeightsNext
  <2> QED BY <2>1, WeightTypes
<1>2. \A i \in Ids \ {id} : WeightOf'[i] = WeightOf[i]
  BY WeightTypes, WeightsNext
<1>3. Total(Ids, WeightOf') = Total(Ids, WeightOf) - WeightOf[id] + WeightOf'[id]
  BY <1>1, <1>2, WeightTypes, TotalShift
<1>4. WeightOf'[id] = WeightOf[id] + n
  BY WeightTypes, WeightsNext
<1>5. Total(Ids, WeightOf') = bytes'
  BY <1>1, <1>3, <1>4, WeightTypes DEF BytesOK
<1> QED BY <1>5, WeightsNext, BaseFacts DEF BytesOK

LEMMA PushBytes ==
  ASSUME IInv, Typed', IsFiniteSet(Keys), BytesOK, NEW k \in Keys, NEW kind \in Kinds[k],
         Push(k, kind)
  PROVE  BytesOK'
<1>1. PICK op \in OpType : op # NoOp /\ op.id \in OpIds /\ Place(k, op)
  <2>1. NextId \in OpIds /\ Place(k, Op(NextId, kind))
    BY DEF Push
  <2>2. /\ Op(NextId, kind) \in OpType /\ Op(NextId, kind) # NoOp
        /\ Op(NextId, kind).id = NextId
    BY <2>1, NewOpType, BaseFacts
  <2> QED BY <2>1, <2>2
<1>2. PICK d \in Chain :
    /\ chains' = [chains EXCEPT ![k] = d]
    /\ \/ /\ d.pending = op
          /\ d.settle = IF chains[k].pending = NoOp THEN {op.id}
                                                    ELSE chains[k].settle \cup {op.id}
          /\ d.inflight = chains[k].inflight /\ d.sending = chains[k].sending
          /\ (d.landed <=> chains[k].landed)
          /\ \/ d.stage = chains[k].stage /\ d.stage # "none"
             \/ d.stage = "gate" /\ chains[k].stage = "none"
          /\ onWire' = onWire
          /\ count' = IF chains[k].pending = NoOp THEN count + 1 ELSE count
       \/ /\ chains[k].pending = NoOp /\ chains[k].stage = "none" /\ gate = 0
          /\ d.pending = NoOp /\ d.settle = {}
          /\ d.inflight = op /\ d.sending = {op.id}
          /\ d.stage = "sent" /\ ~d.landed
          /\ onWire' = onWire + 1 /\ count' = count + 1
  BY <1>1, PlaceShape, Zenon
<1>3. k \in Ids /\ k # ClearId /\ ChainOK(k, chains[k]) /\ chains \in [Ids -> Chain]
  BY BaseFacts DEF IInv, ChainsOK, Typed
<1>4. chains[k].stage = "none" => chains[k].inflight = NoOp
  BY <1>3 DEF ChainOK
<1>5. bytes' = bytes - chains[k].pending.bytes + op.bytes
  <2>1. CASE chains[k].pending # NoOp
    BY <1>1, <2>1 DEF Place, Replace
  <2>2. CASE chains[k].pending = NoOp
    <3>1. bytes' = bytes + op.bytes
      BY <1>1, <2>2 DEF Place
    <3>2. bytes \in Nat /\ op.bytes \in Nat
      BY WeightTypes DEF IInv, BytesOK, OpType
    <3> QED BY <2>2, <3>1, <3>2 DEF NoOp
  <2> QED BY <2>1, <2>2
<1>6. /\ bytes \in Nat /\ op.bytes \in Nat /\ NoOp.bytes = 0
      /\ chains[k].pending.bytes \in Nat /\ chains[k].inflight.bytes \in Nat
  BY <1>3, WeightTypes DEF IInv, BytesOK, OpType, NoOp
<1>7. chains'[k] = d /\ \A i \in Ids : i # k => chains'[i] = chains[i]
  BY <1>2, <1>3
<1>8. PICK n \in Int : n = op.bytes - chains[k].pending.bytes
  BY <1>6
<1>9. d.pending.bytes + d.inflight.bytes =
        chains[k].pending.bytes + chains[k].inflight.bytes + n
  <2>1. CASE d.pending = op /\ d.inflight = chains[k].inflight
    BY <1>6, <1>8, <2>1
  <2>2. CASE d.pending = NoOp /\ d.inflight = op /\ chains[k].pending = NoOp
             /\ chains[k].inflight = NoOp
    BY <1>6, <1>8, <2>2
  <2> QED BY <1>2, <1>4, <2>1, <2>2
<1>10. bytes' = bytes + n
  BY <1>5, <1>6, <1>8
<1> QED BY <1>3, <1>7, <1>9, <1>10, OneWeight DEF IInv

LEMMA FinishBytes ==
  ASSUME IInv, Typed', IsFiniteSet(Keys), BytesOK, NEW id \in Ids, NEW outcome,
         Finish(id, outcome)
  PROVE  BytesOK'
<1> DEFINE w == onWire - 1
           g == IF id # ClearId THEN gate ELSE IF clears - 1 > 0 THEN gate ELSE 0
<1>1. PICK b : b = [chains[id] EXCEPT !.inflight = NoOp]
  OBVIOUS
<1>2. PICK d : d = Loop(id, b, g, w)
  OBVIOUS
<1>3. /\ bytes' = bytes - chains[id].inflight.bytes
      /\ chains' = [i \in Ids |->
           IF i = id THEN d
           ELSE IF w = 0 /\ chains[i].stage = "wire" THEN [chains[i] EXCEPT !.stage = "ready"]
           ELSE chains[i]]
  BY <1>1, <1>2 DEF Finish
<1> HIDE DEF g, w
<1>4. \A i \in Ids : chains[i] \in Chain
  BY ChainType DEF IInv
<1>5. b \in Chain /\ b.pending = chains[id].pending /\ b.inflight = NoOp
  BY <1>1, <1>4, BaseFacts DEF Chain
<1>6. /\ d.pending \in {b.pending, NoOp} /\ d.inflight \in {b.pending, NoOp}
      /\ d.pending = b.pending <=> (d.inflight = NoOp \/ b.pending = NoOp)
      /\ d.pending = NoOp => d.inflight = b.pending
  <2>1. CASE b.pending = NoOp
    BY <1>2, <2>1, NoChainType DEF Loop
  <2>2. CASE b.pending # NoOp /\ id # ClearId /\ g # 0
    <3>1. d = [b EXCEPT !.stage = "gate", !.on = g]
      BY <1>2, <2>2 DEF Loop
    <3> QED BY <1>5, <2>2, <3>1 DEF Chain
  <2>3. CASE b.pending # NoOp /\ (id = ClearId \/ g = 0)
    <3>1. PICK s : d = [NoChain EXCEPT !.inflight = b.pending, !.sending = b.settle, !.stage = s]
      BY <1>2, <2>3 DEF Loop
    <3> QED BY <2>3, <3>1, NoChainType DEF Chain, NoChain
  <2> QED BY <2>1, <2>2, <2>3
<1>7. /\ bytes \in Nat /\ NoOp.bytes = 0
      /\ chains[id].pending.bytes \in Nat /\ chains[id].inflight.bytes \in Nat
  BY WeightTypes DEF IInv, BytesOK, NoOp
<1>8. d.pending.bytes + d.inflight.bytes = chains[id].pending.bytes
  BY <1>5, <1>6, <1>7
<1>9. /\ chains'[id] = d
      /\ \A i \in Ids : i # id => /\ chains'[i].pending = chains[i].pending
                                  /\ chains'[i].inflight = chains[i].inflight
  <2>1. ASSUME NEW i \in Ids, i # id
        PROVE chains'[i].pending = chains[i].pending /\ chains'[i].inflight = chains[i].inflight
    <3>1. chains'[i] = chains[i] \/ chains'[i] = [chains[i] EXCEPT !.stage = "ready"]
      BY <1>3, <2>1
    <3> QED BY <1>4, <3>1 DEF Chain
  <2> QED BY <1>3, <2>1
<1>10. PICK n \in Int : n = 0 - chains[id].inflight.bytes
  BY <1>7
<1>11. /\ bytes' = bytes + n
      /\ d.pending.bytes + d.inflight.bytes =
           chains[id].pending.bytes + chains[id].inflight.bytes + n
  BY <1>3, <1>7, <1>8, <1>10
<1>12. id = ClearId => d.pending.bytes = 0 /\ d.inflight.bytes = 0
  BY <1>5, <1>6, <1>7 DEF BytesOK
<1> QED BY <1>9, <1>11, <1>12, OneWeight DEF IInv

\* A sum over the chains is a total.
LEMMA WaitTotal ==
  ASSUME NEW C, C \subseteq Ids, IsFiniteSet(C)
  PROVE  MapThenSumSet(LAMBDA k : chains[k].pending.bytes, C) = Total(C, WaitBytes)
<1> DEFINE Sums(g) == g = [s \in SUBSET C |->
                            IF s = {} THEN 0 ELSE chains[Pick(s)].pending.bytes + g[s \ {Pick(s)}]]
           h == CHOOSE g : Sums(g)
<1>1. ASSUME NEW g PROVE FoldOf(C, WaitBytes, g) <=> Sums(g)
  <2>1. \A s \in SUBSET C : s # {} => Pick(s) \in Ids
    BY DEF Pick
  <2>2. \A s \in SUBSET C : s # {} => WaitBytes[Pick(s)] = chains[Pick(s)].pending.bytes
    BY <2>1 DEF WaitBytes
  <2>3. [s \in SUBSET C |-> SumUpTo(WaitBytes, g, s)] =
        [s \in SUBSET C |-> IF s = {} THEN 0 ELSE chains[Pick(s)].pending.bytes + g[s \ {Pick(s)}]]
    BY <2>2 DEF SumUpTo
  <2> QED BY <2>3 DEF FoldOf
<1>2. PICK g : FoldOf(C, WaitBytes, g) /\ Total(C, WaitBytes) = g[C]
  BY TotalFold
<1>3. Sums(h)
  BY <1>1, <1>2
<1>4. FoldOf(C, WaitBytes, h)
  BY <1>1, <1>3
<1>5. MapThenSumSet(LAMBDA k : chains[k].pending.bytes, C) = h[C]
  BY DEF MapThenSumSet, MapThenFoldSet, Pick
<1> HIDE DEF h
<1>6. h[C] = g[C]
  BY <1>2, <1>4, FoldSame
<1> QED BY <1>2, <1>5, <1>6

LEMMA BytesHeld ==
  ASSUME IsFiniteSet(Keys)
  PROVE  Held(LAMBDA op : op.bytes) = Total(Ids, WeightOf)
<1>0. IsFiniteSet(Ids)
  BY FS_AddElement DEF Ids
<1> DEFINE Term(x) == chains[x].pending.bytes + chains[x].inflight.bytes
           Sums(g) == g = [s \in SUBSET Ids |->
                            IF s = {} THEN 0 ELSE Term(Pick(s)) + g[s \ {Pick(s)}]]
           h == CHOOSE g : Sums(g)
<1>1. ASSUME NEW g PROVE FoldOf(Ids, WeightOf, g) <=> Sums(g)
  <2>1. \A s \in SUBSET Ids : s # {} => WeightOf[Pick(s)] = Term(Pick(s))
    BY DEF WeightOf, Pick
  <2> HIDE DEF Term
  <2>2. [s \in SUBSET Ids |-> SumUpTo(WeightOf, g, s)] =
        [s \in SUBSET Ids |-> IF s = {} THEN 0 ELSE Term(Pick(s)) + g[s \ {Pick(s)}]]
    BY <2>1 DEF SumUpTo
  <2> QED BY <2>2 DEF FoldOf
<1>2. PICK g : FoldOf(Ids, WeightOf, g) /\ Total(Ids, WeightOf) = g[Ids]
  BY <1>0, TotalFold
<1>3. Sums(h)
  <2> HIDE DEF Sums
  <2> QED BY <1>1, <1>2
<1>4. FoldOf(Ids, WeightOf, h)
  BY <1>1, <1>3
<1>5. Held(LAMBDA op : op.bytes) = h[Ids]
  BY DEF Held, MapThenSumSet, MapThenFoldSet, Pick
<1> HIDE DEF h
<1>6. h[Ids] = g[Ids]
  BY <1>0, <1>2, <1>4, FoldSame
<1> QED BY <1>2, <1>5, <1>6

LEMMA LoadHeld ==
  ASSUME IsFiniteSet(Keys)
  PROVE  Held(LAMBDA op : IF op = NoOp THEN 0 ELSE 1) = Total(Ids, LoadOf)
<1>0. IsFiniteSet(Ids)
  BY FS_AddElement DEF Ids
<1> DEFINE Term(x) == (IF chains[x].pending = NoOp THEN 0 ELSE 1)
                      + (IF chains[x].inflight = NoOp THEN 0 ELSE 1)
           Sums(g) == g = [s \in SUBSET Ids |->
                            IF s = {} THEN 0 ELSE Term(Pick(s)) + g[s \ {Pick(s)}]]
           h == CHOOSE g : Sums(g)
<1>1. ASSUME NEW g PROVE FoldOf(Ids, LoadOf, g) <=> Sums(g)
  <2>1. \A s \in SUBSET Ids : s # {} => LoadOf[Pick(s)] = Term(Pick(s))
    BY DEF LoadOf, Pick
  <2> HIDE DEF Term
  <2>2. [s \in SUBSET Ids |-> SumUpTo(LoadOf, g, s)] =
        [s \in SUBSET Ids |-> IF s = {} THEN 0 ELSE Term(Pick(s)) + g[s \ {Pick(s)}]]
    BY <2>1 DEF SumUpTo
  <2> QED BY <2>2 DEF FoldOf
<1>2. PICK g : FoldOf(Ids, LoadOf, g) /\ Total(Ids, LoadOf) = g[Ids]
  BY <1>0, TotalFold
<1>3. Sums(h)
  <2> HIDE DEF Sums
  <2> QED BY <1>1, <1>2
<1>4. FoldOf(Ids, LoadOf, h)
  BY <1>1, <1>3
<1>5. Held(LAMBDA op : IF op = NoOp THEN 0 ELSE 1) = h[Ids]
  BY DEF Held, MapThenSumSet, MapThenFoldSet, Pick
<1> HIDE DEF h
<1>6. h[Ids] = g[Ids]
  BY <1>0, <1>2, <1>4, FoldSame
<1> QED BY <1>2, <1>5, <1>6

\* A clear counts for no bytes, and drops what waits on every key.
LEMMA PushClearBytes ==
  ASSUME IInv, Typed', IsFiniteSet(Keys), BytesOK, PushClear
  PROVE  BytesOK'
<1>1. PICK op : /\ op.bytes = 0
                /\ \/ /\ chains'[ClearId].pending = op
                      /\ chains'[ClearId].inflight = chains[ClearId].inflight
                   \/ chains'[ClearId].pending = NoOp /\ chains'[ClearId].inflight = op
  <2> DEFINE c == chains[ClearId]
             X == c.pending.sup \cup UNION {chains[k].settle : k \in Dropped}
             op == [Op(NextId, "clear") EXCEPT !.sup = X]
             put == [c EXCEPT !.pending = op,
                              !.settle = IF c.pending # NoOp THEN @ \cup {op.id} ELSE {op.id}]
             d == IF Busy(c) THEN put ELSE Loop(ClearId, put, gate', onWire)
  <2>1. chains'[ClearId] = d
    BY BaseFacts DEF PushClear
  <2>2. op.bytes = 0 /\ op # NoOp
    <3>1. NextId \in OpIds
      BY DEF PushClear
    <3>2. Op(NextId, "clear") = [id |-> NextId, kind |-> "clear", sup |-> {}, bytes |-> 0]
      BY DEF Op
    <3> HIDE DEF X
    <3>3. op = [id |-> NextId, kind |-> "clear", sup |-> X, bytes |-> 0]
      BY <3>2
    <3> QED BY <3>3 DEF NoOp
  <2> HIDE DEF op
  <2>3. c \in Chain
    BY ChainType, BaseFacts DEF IInv
  <2>4. put.pending = op /\ put.inflight = c.inflight
    BY <2>3 DEF Chain
  <2> HIDE DEF put
  <2>5. CASE Busy(c)
    BY <2>1, <2>2, <2>4, <2>5
  <2>6. CASE ~Busy(c)
    <3>1. PICK s, t : d = [NoChain EXCEPT !.inflight = op, !.sending = s, !.stage = t]
      BY <2>2, <2>4, <2>6 DEF Loop
    <3>2. d.pending = NoOp /\ d.inflight = op
      BY <3>1, NoChainType DEF NoChain
    <3> QED BY <2>1, <2>2, <3>2
  <2> QED BY <2>5, <2>6
<1>2. ASSUME NEW k \in Keys
      PROVE  /\ chains'[k].inflight = chains[k].inflight
             /\ chains'[k].pending = NoOp
             /\ k \notin Dropped => chains[k].pending = NoOp
  <2>1. chains'[k] = IF k \in Dropped THEN [chains[k] EXCEPT !.pending = NoOp, !.settle = {}]
                     ELSE chains[k]
    BY BaseFacts DEF PushClear
  <2>2. chains[k] \in Chain
    BY ChainType, BaseFacts DEF IInv
  <2> QED BY <2>1, <2>2 DEF Chain, Dropped
<1>3. NoOp.bytes = 0 /\ \A id \in Ids : id = ClearId \/ id \in Keys
  BY DEF NoOp, Ids
<1>4. chains'[ClearId].pending.bytes = 0 /\ chains'[ClearId].inflight.bytes = 0
  BY <1>1, <1>3 DEF BytesOK
<1>5. IsFiniteSet(Ids) /\ Dropped \subseteq Ids /\ IsFiniteSet(Dropped) /\ ClearId \notin Dropped
  BY WeightTypes, BaseFacts, FS_Subset DEF IInv, Dropped
<1>6. \A id \in Ids : /\ WeightOf[id] \in Nat /\ WeightOf'[id] \in Nat
                      /\ id \in Dropped => /\ WaitBytes[id] \in Nat
                                           /\ WeightOf[id] = WeightOf'[id] + WaitBytes[id]
                      /\ id \notin Dropped => WeightOf[id] = WeightOf'[id]
  <2> SUFFICES ASSUME NEW id \in Ids
               PROVE  /\ WeightOf[id] \in Nat /\ WeightOf'[id] \in Nat
                      /\ id \in Dropped => /\ WaitBytes[id] \in Nat
                                           /\ WeightOf[id] = WeightOf'[id] + WaitBytes[id]
                      /\ id \notin Dropped => WeightOf[id] = WeightOf'[id]
    OBVIOUS
  <2>1. /\ chains[id].pending.bytes \in Nat /\ chains[id].inflight.bytes \in Nat
        /\ WeightOf[id] = chains[id].pending.bytes + chains[id].inflight.bytes
        /\ WaitBytes[id] = chains[id].pending.bytes
        /\ WeightOf'[id] = chains'[id].pending.bytes + chains'[id].inflight.bytes
    BY WeightTypes, WeightsNext DEF IInv
  <2>2. CASE id = ClearId
    BY <1>4, <1>5, <2>1, <2>2 DEF BytesOK
  <2>3. CASE id \in Keys
    <3>1. chains'[id].pending.bytes = 0 /\ chains'[id].inflight.bytes = chains[id].inflight.bytes
      BY <1>2, <1>3, <2>3
    <3>2. id \notin Dropped => chains[id].pending.bytes = 0
      BY <1>2, <1>3, <2>3
    <3> QED BY <2>1, <3>1, <3>2
  <2> QED BY <1>3, <2>2, <2>3
<1>7. Total(Ids, WeightOf) = Total(Ids, WeightOf') + Total(Dropped, WaitBytes)
  BY <1>5, <1>6, TotalRest
<1>8. bytes' = bytes - Total(Dropped, WaitBytes)
  BY <1>5, WaitTotal DEF PushClear
<1>9. Total(Ids, WeightOf') \in Nat /\ Total(Dropped, WaitBytes) \in Nat
  BY <1>5, <1>6, TotalType
<1>10. bytes' = Total(Ids, WeightOf')
  BY <1>7, <1>8, <1>9 DEF BytesOK
<1> QED BY <1>4, <1>10, WeightsNext DEF BytesOK

LEMMA BytesNext ==
  ASSUME IInv, IInv', IsFiniteSet(Keys), BytesOK, [Next]_vars
  PROVE  BytesOK'
<1>0. Typed /\ Typed'
  BY DEF IInv
<1>1. ASSUME NEW k \in Keys, NEW kind \in Kinds[k], Push(k, kind) PROVE BytesOK'
  BY <1>0, <1>1, PushBytes
<1>2. CASE PushClear
  BY <1>0, <1>2, PushClearBytes
<1>3. ASSUME NEW id \in Ids, NEW outcome, Finish(id, outcome) PROVE BytesOK'
  BY <1>0, <1>3, FinishBytes
<1>4. ASSUME chains' = chains, bytes' = bytes PROVE BytesOK'
  BY <1>0, <1>4, SameWeight
<1>5. ASSUME NEW id \in Ids, NEW c, bytes' = bytes, chains' = [chains EXCEPT ![id] = c],
             c.pending = chains[id].pending, c.inflight = chains[id].inflight
      PROVE  BytesOK'
  <2>1. \A i \in Ids : chains'[i].pending = chains[i].pending
                       /\ chains'[i].inflight = chains[i].inflight
    BY <1>0, <1>5 DEF Typed
  <2> QED BY <1>0, <1>5, <2>1, SameWeight
<1>6. ASSUME NEW k \in Keys, GateOpened(k) PROVE BytesOK'
  <2>1. PICK d : d = Loop(k, chains[k], gate, onWire)
    OBVIOUS
  <2>2. /\ k \in Ids /\ k # ClearId /\ chains[k] \in Chain /\ chains[k].inflight = NoOp
        /\ OpOK(k, chains[k].pending, chains[k].settle) /\ gate \in Nat /\ onWire \in Int
    <3>1. ChainOK(k, chains[k]) /\ chains[k].stage = "gate"
      BY <1>6, BaseFacts DEF IInv, ChainsOK, GateOpened
    <3>2. k \in Ids /\ k # ClearId
      BY BaseFacts
    <3> QED BY <1>0, <3>1, <3>2, ChainType DEF ChainOK, Typed
  <2>3. \/ d.inflight = NoOp /\ d.pending = chains[k].pending
        \/ d.pending = NoOp /\ d.inflight = chains[k].pending
    BY <2>1, <2>2, LoopOK
  <2>4. bytes' = bytes /\ chains' = [chains EXCEPT ![k] = d]
    BY <1>6, <2>1 DEF GateOpened
  <2>5. chains'[k] = d /\ \A i \in Ids : i # k => chains'[i] = chains[i]
    BY <1>0, <2>2, <2>4 DEF Typed
  <2>6. NoOp.bytes = 0 /\ chains[k].pending.bytes \in Nat /\ bytes \in Nat
    BY <1>0, <2>2, WeightTypes DEF NoOp, BytesOK
  <2>7. /\ d.pending.bytes + d.inflight.bytes =
             chains[k].pending.bytes + chains[k].inflight.bytes + 0
        /\ bytes' = bytes + 0
    BY <2>2, <2>3, <2>4, <2>6
  <2> QED BY <1>0, <2>2, <2>5, <2>7, OneWeight
<1>7. ASSUME NEW id \in Ids, NEW s, NEW l,
             chains' = [chains EXCEPT ![id] = [@ EXCEPT !.stage = s, !.landed = l]],
             bytes' = bytes
      PROVE  BytesOK'
  <2>1. chains[id] \in Chain
    BY <1>0, ChainType
  <2>2. PICK c : c = [chains[id] EXCEPT !.stage = s, !.landed = l]
    OBVIOUS
  <2>3. c.pending = chains[id].pending /\ c.inflight = chains[id].inflight
    BY <2>1, <2>2 DEF Chain
  <2> QED BY <1>0, <1>5, <1>7, <2>2, <2>3 DEF Typed
<1>8. ASSUME NEW id \in Ids, Backoff(id) \/ Retry(id) \/ Land(id) PROVE BytesOK'
  <2>1. chains[id] \in Chain /\ chains \in [Ids -> Chain]
    BY <1>0, ChainType DEF Typed
  <2>2. CASE Backoff(id)
    <3>1. bytes' = bytes
      BY <2>2 DEF Backoff, counters
    <3>2. chains' = [chains EXCEPT ![id] = [@ EXCEPT !.stage = "backoff"]]
      BY <2>1, <2>2 DEF Backoff
    <3>3. PICK c : c = [chains[id] EXCEPT !.stage = "backoff"]
      OBVIOUS
    <3>4. c.pending = chains[id].pending /\ c.inflight = chains[id].inflight
      BY <2>1, <3>3 DEF Chain
    <3> QED BY <1>5, <2>1, <3>1, <3>2, <3>3, <3>4
  <2>3. CASE Land(id)
    <3>1. bytes' = bytes
      BY <2>3 DEF Land, counters
    <3>2. chains' = [chains EXCEPT ![id] = [@ EXCEPT !.landed = TRUE]]
      BY <2>1, <2>3 DEF Land
    <3>3. PICK c : c = [chains[id] EXCEPT !.landed = TRUE]
      OBVIOUS
    <3>4. c.pending = chains[id].pending /\ c.inflight = chains[id].inflight
      BY <2>1, <3>3 DEF Chain
    <3> QED BY <1>5, <2>1, <3>1, <3>2, <3>3, <3>4
  <2>4. CASE Retry(id)
    <3>1. bytes' = bytes
      BY <2>4 DEF Retry, counters
    <3>2. chains' = [chains EXCEPT ![id] = [@ EXCEPT !.stage = "sent", !.landed = FALSE]]
      BY <2>1, <2>4 DEF Retry
    <3> QED BY <1>7, <3>1, <3>2
  <2> QED BY <1>8, <2>2, <2>3, <2>4
<1>9. CASE ClearSend
  <2>1. chains[ClearId] \in Chain /\ chains \in [Ids -> Chain] /\ ClearId \in Ids
    BY <1>0, ChainType, BaseFacts DEF Typed
  <2>2. bytes' = bytes /\ chains' = [chains EXCEPT ![ClearId] = [@ EXCEPT !.stage = "sent"]]
    BY <1>9, <2>1 DEF ClearSend
  <2>3. PICK c : c = [chains[ClearId] EXCEPT !.stage = "sent"]
    OBVIOUS
  <2>4. c.pending = chains[ClearId].pending /\ c.inflight = chains[ClearId].inflight
    BY <2>1, <2>3 DEF Chain
  <2> QED BY <1>5, <2>1, <2>2, <2>3, <2>4
<1>10. ASSUME NEW id \in Ids, Adapter(id) \/ Retry(id) PROVE BytesOK'
  <2>1. Land(id) \/ Retry(id) \/ Backoff(id) \/ \E o \in {"true", "false"} : Finish(id, o)
    BY <1>10 DEF Adapter, Resolved, Rejected, TimedOut, Failed, GiveUp
  <2> QED BY <1>3, <1>8, <2>1
<1>11. ASSUME NEW k \in Keys, NEW kind \in Kinds[k], PushShed(k, kind) PROVE BytesOK'
  BY <1>4, <1>11 DEF PushShed, counters
<1>12. LandLate \/ Drain \/ Close \/ UNCHANGED vars => BytesOK'
  BY <1>4 DEF LandLate, Drain, Close, counters, vars
<1> QED BY <1>1, <1>2, <1>6, <1>9, <1>10, <1>11, <1>12 DEF Next

\* What the chains hold is what is waiting and what is claimed.
LEMMA LoadCounts ==
  ASSUME IsFiniteSet(Keys)
  PROVE  Total(Ids, LoadOf) = Cardinality(Waiting) + Cardinality(Claimed)
<1>1. IsFiniteSet(Ids) /\ Waiting \in SUBSET Ids /\ Claimed \in SUBSET Ids
  BY FS_AddElement DEF Ids, Waiting, Claimed
<1>2. IsFiniteSet(Waiting) /\ IsFiniteSet(Claimed)
  BY <1>1, FS_Subset
<1>3. PICK one : one = [id \in Ids |-> 1]
  OBVIOUS
<1>4. PICK zero : zero = [id \in Ids |-> 0]
  OBVIOUS
<1>5. PICK g : g = [id \in Ids |-> IF chains[id].inflight = NoOp THEN 0 ELSE 1]
  OBVIOUS
<1>6. \A id \in Ids : /\ one[id] = 1 /\ zero[id] = 0 /\ g[id] \in Nat /\ LoadOf[id] \in Nat
                      /\ id \in Waiting => LoadOf[id] = g[id] + one[id]
                      /\ id \notin Waiting => LoadOf[id] = g[id]
                      /\ id \in Claimed => g[id] = zero[id] + one[id]
                      /\ id \notin Claimed => g[id] = zero[id]
  BY <1>3, <1>4, <1>5 DEF LoadOf, Waiting, Claimed
<1>7. Total(Ids, LoadOf) = Total(Ids, g) + Total(Waiting, one)
  BY <1>1, <1>6, TotalRest
<1>8. Total(Ids, g) = Total(Ids, zero) + Total(Claimed, one)
  BY <1>1, <1>6, TotalRest
<1>9. /\ Total(Ids, zero) = 0 /\ Total(Waiting, one) = Cardinality(Waiting)
      /\ Total(Claimed, one) = Cardinality(Claimed)
  BY <1>1, <1>2, <1>6, TotalZero, TotalOnes
<1>10. Cardinality(Waiting) \in Nat /\ Cardinality(Claimed) \in Nat
  BY <1>2, FS_CardinalityType
<1> QED BY <1>7, <1>8, <1>9, <1>10

LEMMA ExactCounters ==
  ASSUME IInv, IsFiniteSet(Keys), BytesOK
  PROVE  CountersExact
<1>1. bytes = Held(LAMBDA op : op.bytes) /\ bytes \in Nat
  BY BytesHeld, WeightTypes DEF IInv, BytesOK
<1>2. Cardinality(Waiting) \in Nat /\ Cardinality(Claimed) \in Nat
  BY FS_CardinalityType DEF IInv, CountsOK
<1>3. count = Held(LAMBDA op : IF op = NoOp THEN 0 ELSE 1) /\ count \in Nat
  <2>1. count = Cardinality(Waiting) + Cardinality(Claimed)
    BY DEF IInv, CountsOK
  <2>2. count = Total(Ids, LoadOf) /\ count \in Nat
    BY <1>2, <2>1, LoadCounts
  <2> QED BY <2>2, LoadHeld
<1>4. clears = Cardinality({chains[ClearId].pending, chains[ClearId].inflight} \ {NoOp})
  <2> DEFINE p == chains[ClearId].pending
             q == chains[ClearId].inflight
  <2>1. clears = (IF p # NoOp THEN 1 ELSE 0) + (IF q # NoOp THEN 1 ELSE 0)
    BY BaseFacts DEF IInv, CountsOK, Waiting, Claimed
  <2>2. p # NoOp /\ q # NoOp => p # q
    <3>1. ChainOK(ClearId, chains[ClearId])
      BY BaseFacts DEF IInv, ChainsOK
    <3>2. p.id \in Int
      BY ChainType, BaseFacts DEF IInv, OpType
    <3> QED BY <3>1, <3>2 DEF ChainOK
  <2> HIDE DEF p, q
  <2>3. CASE p = NoOp /\ q = NoOp
    <3>1. {p, q} \ {NoOp} = {}
      BY <2>3
    <3> QED BY <2>1, <2>3, <3>1, FS_EmptySet DEF p, q
  <2>4. CASE p # NoOp /\ q = NoOp
    <3>1. {p, q} \ {NoOp} = {p}
      BY <2>4
    <3>2. Cardinality({p}) = 1
      BY FS_Singleton
    <3> QED BY <2>1, <2>4, <3>1, <3>2 DEF p, q
  <2>5. CASE p = NoOp /\ q # NoOp
    <3>1. {p, q} \ {NoOp} = {q}
      BY <2>5
    <3>2. Cardinality({q}) = 1
      BY FS_Singleton
    <3> QED BY <2>1, <2>5, <3>1, <3>2 DEF p, q
  <2>6. CASE p # NoOp /\ q # NoOp
    <3>1. {p, q} \ {NoOp} = {p} \cup {q} /\ q \notin {p}
      BY <2>2, <2>6
    <3>2. IsFiniteSet({p}) /\ Cardinality({p}) = 1
      BY FS_Singleton
    <3>3. Cardinality({p} \cup {q}) = Cardinality({p}) + 1
      BY <3>1, <3>2, FS_AddElement
    <3> QED BY <2>1, <2>6, <3>1, <3>2, <3>3 DEF p, q
  <2> QED BY <2>3, <2>4, <2>5, <2>6
<1>5. onWire = Cardinality({id \in Ids : chains[id].stage \in {"sent", "backoff"}})
  BY DEF IInv, CountsOK, Wire
<1>6. (gate # 0) = (clears > 0)
  BY DEF IInv, CountsOK
<1>7. TypeOK
  <2>1. ASSUME NEW id \in Ids
        PROVE  /\ chains[id].pending.id \in 0 .. MaxOps
               /\ chains[id].inflight.id \in 0 .. MaxOps
               /\ chains[id].stage \in {"none", "gate", "wire", "ready", "sent", "backoff"}
    BY ChainType DEF IInv, OpType, Stages
  <2> QED BY <1>1, <1>3, <2>1 DEF TypeOK, IInv, Typed, Results
<1> QED BY <1>1, <1>3, <1>4, <1>5, <1>6, <1>7 DEF CountersExact

\* #bytes, #count, #onWire and #clears, by which push sheds, drain() resolves and a
\* clear waits, are at every moment what the chains hold, whatever is coalesced,
\* dropped by a clear, retried or given up, and the gate is closed while a clear is out.
THEOREM CountersAreExact == IsFiniteSet(Keys) => (Spec => []CountersExact)
<1> SUFFICES ASSUME IsFiniteSet(Keys) PROVE Spec => []CountersExact
  OBVIOUS
<1>1. Init => BytesOK
  <2> SUFFICES ASSUME Init PROVE BytesOK
    OBVIOUS
  <2>1. Typed
    BY InitIInv DEF IInv
  <2>2. \A id \in Ids : chains[id].pending.bytes = 0 /\ chains[id].inflight.bytes = 0
    BY NoChainType DEF Init, NoOp
  <2>3. IsFiniteSet(Ids) /\ \A id \in Ids : WeightOf[id] = 0
    BY <2>1, <2>2, WeightTypes
  <2>4. Total(Ids, WeightOf) = 0
    BY <2>3, TotalZero
  <2> QED BY <2>2, <2>4, BaseFacts DEF BytesOK, Init
<1>2. IInv /\ IInv' /\ BytesOK /\ [Next]_vars => BytesOK'
  BY BytesNext
<1>3. IInv /\ BytesOK => CountersExact
  BY ExactCounters
<1> QED BY <1>1, <1>2, <1>3, QueueInvariant, PTL DEF Spec
=============================================================================
