------------------------------ MODULE FailCap ------------------------------
(***************************************************************************)
(* What happens to a value that L3 refused (option l3FailTtlMs): it stays  *)
(* in the local tiers under a short deadline.  The process whose write was *)
(* refused re-times its L1 copy at once.  The arena is re-timed by the     *)
(* primary alone, and only while it holds the very bytes: for a worker the *)
(* request travels in an IPC batch, and until it is applied the worker     *)
(* keeps a guard over its own reads, which is judged when it is retired.   *)
(*                                                                         *)
(* One key: guards of different keys meet only in the bound of the map,    *)
(* which is a choice here.  Lifetimes are remaining lifetimes, and 0 means *)
(* none; Tick takes one unit from each.  Writes of level 2 and 3, marks    *)
(* and full submission rings are Coherence's; the batches are Outbox's.  A *)
(* worker that has lost its primary writes nothing more here.              *)
(***************************************************************************)
EXTENDS Integers, Sequences, FiniteSets, SequencesExt, DrainOrder

CONSTANTS
  Primary, Workers, Values, NoValue,
  WithL3,     \* the processes with an adapter
  WriterId,   \* process -> the id on its ring records; the primary's is 0
  FlushAll,   \* the ring record of a clear
  RingCap,
  Ttls,       \* bound: the lifetimes callers ask for, 0 for none
  FailTtl,    \* l3FailTtlMs
  Window,     \* L3_CAP_WINDOW_MS
  Mortal,     \* bound: the workers that may lose their primary
  MaxOps      \* bound: writes, removals and clears of all processes

Procs == {Primary} \cup Workers

ASSUME FailCapAssumption ==
  /\ WithL3 \subseteq Procs /\ Mortal \subseteq Workers
  /\ Primary \notin Workers /\ NoValue \notin Values /\ IsFiniteSet(Workers)
  /\ WriterId \in [Procs -> Nat] /\ FlushAll \notin Nat
  /\ \A p \in Procs : WriterId[p] = 0 <=> p = Primary
  /\ Ttls \subseteq Nat /\ {FailTtl, Window, RingCap} \subseteq Nat \ {0} /\ MaxOps \in Nat

VARIABLES
  arena,    \* [val, life, at]: at is the position of its ring record
  ring,     \* invalidation records of the key: writer ids and FlushAll
  sub,      \* worker -> records it has submitted and the primary not applied
  l1,       \* process -> [val, life, own]
  cursor,   \* worker -> its position in the ring
  owed,     \* process -> writes L3 has not answered
  guard,    \* worker -> its entry of #l3Caps
  reqs,     \* worker -> 'r' and 'c' operations on their way to the primary
  dead,     \* workers that lost their primary
  lost,     \* worker -> [unapplied, unconfirmed], counters
  nops,
  last      \* history: the newest value published in the arena, and its life

vars == <<arena, ring, sub, l1, cursor, owed, guard, reqs, dead, lost, nops, last>>

-----------------------------------------------------------------------------
None == -1
Nothing == [val |-> NoValue, life |-> 0, at |-> 0]
NoCopy == [val |-> NoValue, life |-> 0, own |-> None]
NoGuard == [val |-> NoValue, at |-> 0, due |-> 0, left |-> 0, counted |-> FALSE]
RingHead == Len(ring)
NewOp == nops < MaxOps /\ nops' = nops + 1

\* a lifetime that ends no later than another
Within(a, b) == b = 0 \/ (a # 0 /\ a <= b)

-----------------------------------------------------------------------------
(* The arena.  st is [arena, ring, last]                                   *)

State == [arena |-> arena, ring |-> ring, last |-> last]

Publish(st, writer, val, life) ==
  [arena |-> [val |-> val, life |-> life, at |-> Len(st.ring) + 1],
   ring  |-> Append(st.ring, writer),
   last  |-> [val |-> val, life |-> life]]

\* every submitted record, ring after ring
Batches == RingAfterRing(sub)

\* what the records of a batch leave: each is published, and the last one stays
Drained(s) ==
  IF s = <<>> THEN State
  ELSE LET r == Last(s) IN
       [arena |-> [val |-> r.val, life |-> r.life, at |-> RingHead + Len(s)],
        ring  |-> ring \o [i \in DOMAIN s |-> s[i].by],
        last  |-> [val |-> r.val, life |-> r.life]]

\* mutant: a new lease rather than a ceiling
CapArena_lease(st, val, cap) ==
  IF st.arena.val # val THEN st
  ELSE [st EXCEPT !.arena = [val |-> val, life |-> cap, at |-> Len(st.ring) + 1],
                  !.ring = Append(@, 0)]

\* mutant: the entry is re-timed in place, without a record
CapArena_silent(st, val, cap) ==
  IF st.arena.val # val \/ (st.arena.life > 0 /\ st.arena.life <= cap) THEN st
  ELSE [st EXCEPT !.arena.life = cap]

\* #capArena and #retimeArena: the same bytes, and longer to live than the cap
CapArena(st, val, cap) ==
  IF st.arena.val # val \/ (st.arena.life > 0 /\ st.arena.life <= cap)
    THEN st
    ELSE [st EXCEPT !.arena = [val |-> val, life |-> cap, at |-> Len(st.ring) + 1],
                    !.ring = Append(@, 0)]

Becomes(st) == arena' = st.arena /\ ring' = st.ring /\ last' = st.last

-----------------------------------------------------------------------------
(* Writes *)

Set(p, v, ttl) ==
  /\ NewOp
  /\ owed' = IF p \in WithL3 THEN [owed EXCEPT ![p] = Append(@, [val |-> v, ttl |-> ttl])]
                             ELSE owed
  /\ l1' = [l1 EXCEPT ![p] = [val |-> v, life |-> ttl,
                              own |-> IF p = Primary THEN None ELSE RingHead]]
  /\ IF p = Primary
       THEN Becomes(Publish(State, 0, v, ttl)) /\ UNCHANGED <<sub, guard>>
       ELSE /\ sub' = [sub EXCEPT ![p] =
                 Append(@, [by |-> WriterId[p], val |-> v, life |-> ttl])]
            /\ guard' = [guard EXCEPT ![p] = NoGuard]       \* #cancelCaps
            /\ UNCHANGED <<arena, ring, last>>
  /\ UNCHANGED <<cursor, reqs, dead, lost>>

Delete(p) ==
  /\ NewOp
  /\ l1' = [l1 EXCEPT ![p] = NoCopy]
  /\ IF p = Primary
       THEN Becomes(Publish(State, 0, NoValue, 0)) /\ UNCHANGED <<sub, guard>>
       ELSE /\ sub' = [sub EXCEPT ![p] =
                 Append(@, [by |-> WriterId[p], val |-> NoValue, life |-> 0])]
            /\ guard' = [guard EXCEPT ![p] = NoGuard]
            /\ UNCHANGED <<arena, ring, last>>
  /\ UNCHANGED <<cursor, owed, reqs, dead, lost>>

\* clearAll: clearLocal drops the guards uncounted, the clear supersedes them
ClearAll(p) ==
  /\ NewOp
  /\ l1' = [l1 EXCEPT ![p] = NoCopy]
  /\ IF p = Primary
       THEN Becomes(Publish(State, FlushAll, NoValue, 0)) /\ UNCHANGED <<reqs, guard>>
       ELSE /\ reqs' = [reqs EXCEPT ![p] = Append(@, [op |-> "c", val |-> NoValue, cap |-> 0])]
            /\ guard' = [guard EXCEPT ![p] = NoGuard]
            /\ UNCHANGED <<arena, ring, last>>
  /\ UNCHANGED <<sub, cursor, owed, dead, lost>>

\* the primary drains the submission rings; #primaryInvalidate drops its copy
DrainSubmissions ==
  /\ \E w \in Workers : sub[w] # <<>>
  /\ \E s \in Batches : Becomes(Drained(s))
  /\ sub' = [w \in Workers |-> <<>>]
  /\ l1' = [l1 EXCEPT ![Primary] = NoCopy]
  /\ UNCHANGED <<cursor, owed, guard, reqs, dead, lost, nops>>

-----------------------------------------------------------------------------
(* A write L3 refused *)

Count(w, bucket) == lost' = [lost EXCEPT ![w][bucket] = @ + 1]

\* #noteCap; `full` says that the map holds L3_CAP_MAX guards of other keys
NoteCap(w, val, cap, full) ==
  IF full
    THEN Count(w, "unconfirmed") /\ UNCHANGED guard
    ELSE /\ guard' = [guard EXCEPT ![w] = [val |-> val, at |-> RingHead, due |-> cap,
                                           left |-> cap + Window, counted |-> FALSE]]
         /\ UNCHANGED lost

\* #capL2AfterL3Failure: the primary caps the arena itself, a worker asks and guards
CapRequest(p, val, cap, full) ==
  CASE p = Primary ->
         Becomes(CapArena(State, val, cap)) /\ UNCHANGED <<guard, reqs, lost>>
    [] p \in dead ->
         Count(p, "unapplied") /\ UNCHANGED <<arena, ring, last, guard, reqs>>
    [] OTHER ->
         /\ NoteCap(p, val, cap, full)
         /\ reqs' = [reqs EXCEPT ![p] = Append(@, [op |-> "r", val |-> val, cap |-> cap])]
         /\ UNCHANGED <<arena, ring, last>>

\* #capAfterL3Failure: the L1 copy, then the rest
CapAfterFailure(p, f, full) ==
  LET cap == IF f.ttl > 0 /\ f.ttl < FailTtl THEN f.ttl ELSE FailTtl IN
  /\ l1' = [l1 EXCEPT ![p].life =
       IF l1[p].val # NoValue /\ ~Within(@, cap) THEN cap ELSE @]
  /\ CapRequest(p, f.val, cap, full)

\* the promise of a queued set settles; a shed one does so out of its turn
Settle(p, i, full) ==
  /\ owed' = [owed EXCEPT ![p] = RemoveAt(@, i)]
  /\ \/ CapAfterFailure(p, owed[p][i], full)
     \/ UNCHANGED <<arena, ring, last, l1, guard, reqs, lost>>
  /\ UNCHANGED <<sub, cursor, dead, nops>>

\* applyBatch for the next operation of a worker: the rings first
ApplyBatch(w) ==
  LET m == Head(reqs[w]) IN
  /\ reqs[w] # <<>>
  /\ reqs' = [reqs EXCEPT ![w] = Tail(@)]
  /\ \E s \in Batches :
       LET st  == Drained(s)
           new == IF m.op = "c" THEN Publish(st, FlushAll, NoValue, 0)
                                ELSE CapArena(st, m.val, m.cap)
       IN  /\ Becomes(new)
           /\ l1' = IF new = State THEN l1 ELSE [l1 EXCEPT ![Primary] = NoCopy]
  /\ sub' = [v \in Workers |-> <<>>]
  /\ UNCHANGED <<cursor, owed, guard, dead, lost, nops>>

\* #capLost: once per guard, and only while there is one
CapLost(w, bucket) ==
  IF guard[w] = NoGuard \/ guard[w].counted THEN UNCHANGED <<guard, lost>>
  ELSE /\ guard' = [guard EXCEPT ![w].counted = TRUE]
       /\ Count(w, bucket)

\* flush drops the batch with the request, in any of its four ways
RequestDropped(w, i) ==
  /\ reqs[w][i].op = "r"
  /\ reqs' = [reqs EXCEPT ![w] = RemoveAt(@, i)]
  /\ CapLost(w, "unapplied")
  /\ UNCHANGED <<arena, ring, sub, l1, cursor, owed, dead, nops, last>>

\* a primary that routes messages itself may lose one, and nobody is told
RequestIgnored(w) ==
  /\ reqs[w] # <<>> /\ Head(reqs[w]).op = "r"
  /\ reqs' = [reqs EXCEPT ![w] = Tail(@)]
  /\ UNCHANGED <<arena, ring, sub, l1, cursor, owed, guard, dead, lost, nops, last>>

-----------------------------------------------------------------------------
(* #runCaps, #judgeRetiredCaps, #ringWritersSince *)

Since(at) == SubSeq(ring, at + 1, RingHead)

\* mutant: records that bear this worker's id are skipped
Verdict_skipOwn(w, g) ==
  LET seen == {Since(g.at)[i] : i \in DOMAIN Since(g.at)} IN
  IF g.counted \/ arena.val # g.val \/ arena.life # 0 THEN "fine"
  ELSE IF RingHead - g.at >= RingCap THEN "unconfirmed"
  ELSE IF seen \ {WriterId[w]} # {} THEN "fine" ELSE "unapplied"

\* the same bytes, unbounded, and nobody has written the key since
Verdict(w, g) ==
  LET seen == {Since(g.at)[i] : i \in DOMAIN Since(g.at)} IN
  IF g.counted \/ arena.val # g.val \/ arena.life # 0 THEN "fine"
  ELSE IF RingHead - g.at >= RingCap THEN "unconfirmed"
  ELSE IF seen \ {WriterId[w]} # {} THEN "fine"
  ELSE IF WriterId[w] \in seen THEN "unconfirmed" ELSE "unapplied"

RunCaps(w) ==
  LET g == guard[w]
      bucket == IF w \notin dead THEN Verdict(w, g)
                ELSE IF g.counted THEN "fine" ELSE "unconfirmed"
  IN
  /\ g # NoGuard /\ (w \in dead \/ g.left = 0)
  /\ guard' = [guard EXCEPT ![w] = NoGuard]
  /\ IF bucket = "fine" THEN UNCHANGED lost ELSE Count(w, bucket)
  /\ UNCHANGED <<arena, ring, sub, l1, cursor, owed, reqs, dead, nops, last>>

-----------------------------------------------------------------------------
(* Reads *)

\* #drain: a lap or a record drops the copy, a clear the guard as well
Drain(w) ==
  LET from == cursor[w]
      wrap == RingHead - from >= RingCap
      hit(i) == ring[i] = FlushAll \/ i > l1[w].own
      flush == ~wrap /\ \E i \in (from + 1) .. RingHead : ring[i] = FlushAll
  IN  [l1    |-> IF wrap \/ \E i \in (from + 1) .. RingHead : hit(i) THEN NoCopy ELSE l1[w],
       guard |-> IF flush THEN NoGuard ELSE guard[w]]

\* lastTtlRemainingMs carried into L1
Refill(e) == [val |-> e.val, life |-> e.life, own |-> None]

\* #capExpired
CapExpired(g) == g # NoGuard /\ g.due = 0 /\ g.val = arena.val

\* get on a healthy worker
Get(w) ==
  LET d == Drain(w) IN
  /\ w \notin dead
  /\ cursor' = [cursor EXCEPT ![w] = RingHead]
  /\ guard' = [guard EXCEPT ![w] = d.guard]
  /\ l1' = [l1 EXCEPT ![w] =
       IF d.l1.val = NoValue /\ arena.val # NoValue /\ ~CapExpired(d.guard)
         THEN Refill(arena) ELSE d.l1]
  /\ UNCHANGED <<arena, ring, sub, owed, reqs, dead, lost, nops, last>>

GetPrimary ==
  /\ l1[Primary].val = NoValue /\ arena.val # NoValue
  /\ l1' = [l1 EXCEPT ![Primary] = Refill(arena)]
  /\ UNCHANGED <<arena, ring, sub, cursor, owed, guard, reqs, dead, lost, nops, last>>

\* the arena, or L1, lets the entry go
Evict ==
  /\ arena.val # NoValue
  /\ arena' = Nothing
  /\ UNCHANGED <<ring, sub, l1, cursor, owed, guard, reqs, dead, lost, nops, last>>

L1Evict(p) ==
  /\ l1[p].val # NoValue
  /\ l1' = [l1 EXCEPT ![p] = NoCopy]
  /\ UNCHANGED <<arena, ring, sub, cursor, owed, guard, reqs, dead, lost, nops, last>>

\* #degrade: the arena is unmapped
Degrade(w) ==
  /\ w \in Mortal \ dead
  /\ dead' = dead \cup {w}
  /\ UNCHANGED <<arena, ring, sub, l1, cursor, owed, guard, reqs, lost, nops, last>>

-----------------------------------------------------------------------------
Aged(e, gone) == IF e.life = 1 THEN gone ELSE [e EXCEPT !.life = IF @ = 0 THEN 0 ELSE @ - 1]
Less(n) == IF n = 0 THEN 0 ELSE n - 1

Tick ==
  /\ arena' = Aged(arena, Nothing)
  /\ last' = Aged(last, [val |-> NoValue, life |-> 0])
  /\ l1' = [p \in Procs |-> Aged(l1[p], NoCopy)]
  /\ guard' = [w \in Workers |->
       [guard[w] EXCEPT !.due = Less(@), !.left = Less(@)]]
  /\ UNCHANGED <<ring, sub, cursor, owed, reqs, dead, lost, nops>>

Init ==
  /\ arena = Nothing /\ ring = <<>> /\ last = [val |-> NoValue, life |-> 0]
  /\ sub = [w \in Workers |-> <<>>] /\ reqs = [w \in Workers |-> <<>>]
  /\ l1 = [p \in Procs |-> NoCopy] /\ cursor = [w \in Workers |-> 0]
  /\ owed = [p \in Procs |-> <<>>] /\ guard = [w \in Workers |-> NoGuard]
  /\ dead = {} /\ nops = 0
  /\ lost = [w \in Workers |-> [unapplied |-> 0, unconfirmed |-> 0]]

Operation(p) ==
  /\ p \notin dead
  /\ \/ \E v \in Values, ttl \in Ttls : Set(p, v, ttl)
     \/ Delete(p) \/ ClearAll(p)

Next ==
  \/ \E p \in Procs :
       \/ Operation(p) \/ L1Evict(p)
       \/ \E i \in DOMAIN owed[p], full \in BOOLEAN : Settle(p, i, full)
  \/ \E w \in Workers :
       \/ Get(w) \/ ApplyBatch(w) \/ RequestIgnored(w) \/ RunCaps(w) \/ Degrade(w)
       \/ \E i \in DOMAIN reqs[w] : RequestDropped(w, i)
  \/ GetPrimary \/ DrainSubmissions \/ Evict \/ Tick

Spec == Init /\ [][Next]_vars

-----------------------------------------------------------------------------
(* Properties *)

\* The variables have their types; a guard ends after its deadline.
TypeOK ==
  /\ arena.val \in Values \cup {NoValue} /\ arena.at \in 0 .. RingHead
  /\ \A p \in Procs : l1[p].val \in Values \cup {NoValue}
  /\ \A w \in Workers :
       /\ cursor[w] \in 0 .. RingHead
       /\ guard[w].due <= guard[w].left /\ guard[w].left <= FailTtl + Window

\* A cap puts nothing back and gives nothing a longer life: what the arena
\* holds is the newest value published there, for no longer than the caller of
\* that write asked, however late a request arrives and whatever was written,
\* deleted or cleared before it.  No guard outlives its cap by more than a window.
NeverResurrects ==
  /\ TypeOK
  /\ arena.val # NoValue => arena.val = last.val /\ Within(arena.life, last.life)

\* A cap reaches every tier of the box: a copy in some L1 of what the arena
\* holds lives no longer than the arena's, or a record that drops it is ahead
\* of that reader.  A worker without a primary reads no records.
CapReaches ==
  \A p \in Procs \ dead :
    l1[p].val # NoValue /\ l1[p].own = None /\ l1[p].val = arena.val =>
      \/ Within(l1[p].life, arena.life)
      \/ p \in Workers /\ RingHead > cursor[p]

\* A loss counted as proven when a guard is retired is one: the arena still
\* holds the refused bytes, without a deadline, in the copy that was there
\* when the cap was taken; the cap was not applied, nor was the key rewritten
\* with the same bytes by a process whose writer id happens to be the same.
VerdictTrue ==
  [][\A w \in Workers :
       lost'[w].unapplied # lost[w].unapplied /\ guard[w] # NoGuard /\ guard'[w] = NoGuard =>
         arena.val = guard[w].val /\ arena.life = 0 /\ arena.at <= guard[w].at]_vars
=============================================================================
