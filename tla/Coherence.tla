----------------------------- MODULE Coherence -----------------------------
(***************************************************************************)
(* How the caches of one cluster stay coherent on the default ('shm')      *)
(* transport.  The primary owns the shared arena (L2) and the invalidation *)
(* ring; every worker reads both, keeps a private L1, and submits its      *)
(* writes through a submission ring of its own.  A worker that has         *)
(* submitted an operation the arena does not show yet remembers it with a  *)
(* pending mark.                                                           *)
(*                                                                         *)
(* A value is the number of the operation that wrote it, so that two       *)
(* writes are never confused.  The arena is a map from keys to values; the *)
(* log and the index that hold it are other modules' business, and their   *)
(* eviction is the action Evict.  Positions of the invalidation ring are   *)
(* those of the code: the record at position p is ring[p + 1], and a       *)
(* reader that is RingCap records behind has been lapped.  Positions of a  *)
(* submission ring count records.                                          *)
(*                                                                         *)
(* The worker and the primary are different processes: a worker operation  *)
(* is split where it reads or writes shared memory, the primary's where it *)
(* publishes.                                                              *)
(***************************************************************************)
EXTENDS Integers, Sequences, FiniteSets

CONSTANTS
  Workers,     \* the worker processes, each the producer of one ring
  Keys,        \* the keys
  NoOne,       \* "no worker": the primary, as the writer of a record
  FlushAll,    \* the ring record of a clear (RING_FLUSH_ALL)
  RingCap,     \* capacity of the invalidation ring, in records
  ReadMax,     \* records one RingRead returns at most (512)
  QueueCap,    \* submission records a ring holds before it sheds
  MarkMax,     \* PENDING_MARK_MAX
  MarkScan,    \* PENDING_MARK_SCAN
  MaxOps       \* bound: write operations of all processes together

ASSUME ConstantsAssumption ==
  /\ NoOne \notin Workers
  /\ FlushAll \notin Keys
  /\ RingCap \in Nat \ {0} /\ ReadMax \in Nat \ {0} /\ QueueCap \in Nat \ {0}
  /\ MarkMax \in Nat \ {0} /\ MarkScan \in Nat \ {0}
  /\ MaxOps \in Nat

VARIABLES
  arena,     \* L2: key -> value, 0 when absent
  ring,      \* every invalidation record appended so far
  last,      \* history: the value of the last operation applied to a key
  sub,       \* worker -> every record it has pushed
  taken,     \* worker -> records of its ring the primary has applied
  tail,      \* worker -> the consumer index the primary has published
  clears,    \* worker -> clearAll messages on the cluster channel
  cleared,   \* history: worker -> clears of its own the primary has applied
  owed,      \* the record an arena write has yet to append, if any
  pri,       \* the primary's control state
  pl1,       \* the primary's L1: key -> value, 0 when absent
  pcursor,   \* #primaryCursor
  l1,        \* worker -> key -> L1 entry
  cursor,    \* worker -> #cursor, its position in the invalidation ring
  pendingDel, pendingWrite,    \* worker -> marks, in Map insertion order
  delOwed, writeOwed,          \* worker -> #reconcileOwed, #writeOwed
  wpc,       \* worker -> the shared-memory step it is about to take
  nops,      \* operations issued so far
  shed       \* history: the values that a full submission ring refused

workerVars == <<l1, cursor, pendingDel, pendingWrite, delOwed, writeOwed, wpc>>
primaryVars == <<arena, ring, last, taken, tail, cleared, owed, pri, pl1, pcursor>>
vars == <<arena, ring, last, sub, taken, tail, clears, cleared, owed, pri, pl1,
          pcursor, l1, cursor, pendingDel, pendingWrite, delOwed, writeOwed,
          wpc, nops, shed>>

-----------------------------------------------------------------------------
(* Values, entries and marks *)

NoVal == 0
NoEntry == [val |-> NoVal, ownAt |-> -1]
EmptyL1 == [k \in Keys |-> NoEntry]
RingHead == Len(ring)

\* The marks of s at the places in I, in their order.
Kept(s, I) ==
  LET f[i \in 0 .. Len(s)] ==
        IF i = 0 THEN <<>> ELSE IF i \in I THEN Append(f[i - 1], s[i]) ELSE f[i - 1]
  IN  f[Len(s)]

\* PendingMarks.release
MarkRelease(s, k) == Kept(s, {i \in DOMAIN s : s[i].key # k})

\* PendingMarks.mark: the newest mark goes last; at the bound the oldest goes.
MarkAdd(s, m) ==
  LET t == MarkRelease(s, m.key)
  IN  Append(IF Len(t) >= MarkMax THEN Tail(t) ELSE t, m)

Marked(s, k) == \E i \in DOMAIN s : s[i].key = k

\* The slice a reconciliation looks at, and what it leaves for the next one.
Slice(s) == SubSeq(s, 1, IF Len(s) < MarkScan THEN Len(s) ELSE MarkScan)
AfterSlice(s) == SubSeq(s, Len(Slice(s)) + 1, Len(s))

\* #reconcileRemovals: a key the arena still holds keeps its mark.
ReconcileRemovals(s) ==
  AfterSlice(s) \o Kept(s, {i \in DOMAIN Slice(s) : arena[s[i].key] # NoVal})

\* what #reconcileRemovals leaves of its own counter
RemovalsLeft(n, s) ==
  IF n - Len(Slice(s)) < 0 \/ ReconcileRemovals(s) = <<>>
    THEN 0 ELSE n - Len(Slice(s))

\* mutant: the record just before the consumer index counts as not applied
ReconcileWrites_lagging(s, w) ==
  AfterSlice(s) \o Kept(s, {i \in DOMAIN Slice(s) : tail[w] <= s[i].sub})

\* #reconcileWrites: a write the consumer index has not passed keeps its mark.
ReconcileWrites(s, w) ==
  AfterSlice(s) \o Kept(s, {i \in DOMAIN Slice(s) : tail[w] < s[i].sub})

\* mutant: the counter counts down by a slice, as the removals' does
WritesLeft_countdown(n, s, w) ==
  IF n - Len(Slice(s)) < 0 THEN 0 ELSE n - Len(Slice(s))

\* what #reconcileWrites leaves of its counter: every mark that is left, so
\* that the next slice is judged even when this one kept all of its own
WritesLeft(n, s, w) == Len(ReconcileWrites(s, w))

-----------------------------------------------------------------------------
(* RingRead: the records a reader at c gets when it loads the head as h.   *)
(* A reader lapped at the load restarts one capacity behind the head; one  *)
(* lapped while it was copying is told so by the second load of the head.  *)

Lapped(c) == RingHead - c >= RingCap

RingRead(c, h, max) ==
  LET early == h - c >= RingCap
      from  == IF early THEN h - RingCap ELSE c
      to    == IF h - from < max THEN h ELSE from + max
  IN  [wrapped |-> early \/ Lapped(c), from |-> from, to |-> to]

\* The heads the first load can have seen: the current one, or, when the
\* primary laps the reader during the call, an earlier one.
HeadsSeen(c) == {RingHead} \cup (IF Lapped(c) THEN (c + 1) .. RingHead ELSE {})

\* The positions of a read, and whether one of them is a clear.
Positions(r) == r.from .. (r.to - 1)
HasFlush(r) == \E p \in Positions(r) : ring[p + 1].key = FlushAll

\* Marks that a record at or past the position of the mark releases.
Unmatched(s, r) ==
  Kept(s, {i \in DOMAIN s :
    ~ \E p \in Positions(r) : ring[p + 1].key = s[i].key /\ p >= s[i].at})

\* mutant: the record exactly at an entry's own position is taken for older
Invalidated_offByOne(m, r) ==
  [k \in Keys |->
    IF \E p \in Positions(r) : ring[p + 1].key = k /\ p > m[k].ownAt
      THEN NoEntry ELSE m[k]]

\* L1 after the records: an entry of the worker's own survives older records.
Invalidated(m, r) ==
  [k \in Keys |->
    IF \E p \in Positions(r) : ring[p + 1].key = k /\ p >= m[k].ownAt
      THEN NoEntry ELSE m[k]]

(* #drain.  First what earlier wraps left to reconcile, then the ring.     *)
Drain(w, h) ==
  LET pd0  == IF delOwed[w] > 0 THEN ReconcileRemovals(pendingDel[w])
                                ELSE pendingDel[w]
      dow0 == IF delOwed[w] > 0 THEN RemovalsLeft(delOwed[w], pendingDel[w])
                                ELSE 0
      pw0  == IF writeOwed[w] > 0 THEN ReconcileWrites(pendingWrite[w], w)
                                  ELSE pendingWrite[w]
      wow0 == IF writeOwed[w] > 0
                THEN WritesLeft(writeOwed[w], pendingWrite[w], w) ELSE 0
      r    == RingRead(cursor[w], h, ReadMax)
      quiet == RingHead = cursor[w]
      flush == ~r.wrapped /\ HasFlush(r)
  IN
  /\ cursor' = [cursor EXCEPT ![w] = IF quiet THEN @ ELSE r.to]
  /\ l1' = [l1 EXCEPT ![w] =
        IF quiet THEN @
        ELSE IF r.wrapped \/ flush THEN EmptyL1 ELSE Invalidated(@, r)]
  /\ pendingDel' = [pendingDel EXCEPT ![w] =
        IF quiet THEN pd0
        ELSE IF r.wrapped THEN ReconcileRemovals(pd0)
        ELSE IF flush THEN <<>> ELSE Unmatched(pd0, r)]
  /\ pendingWrite' = [pendingWrite EXCEPT ![w] =
        IF quiet THEN pw0
        ELSE IF r.wrapped THEN ReconcileWrites(pw0, w)
        ELSE IF flush THEN <<>> ELSE Unmatched(pw0, r)]
  /\ delOwed' = [delOwed EXCEPT ![w] =
        IF ~quiet /\ r.wrapped THEN RemovalsLeft(Len(pd0), pd0) ELSE dow0]
  /\ writeOwed' = [writeOwed EXCEPT ![w] =
        IF ~quiet /\ r.wrapped THEN WritesLeft(Len(pw0), pw0, w) ELSE wow0]

-----------------------------------------------------------------------------
(* Worker operations *)

Idle == [op |-> "idle"]
WorkerIdle(w) == wpc[w] = Idle
NewOp == nops < MaxOps /\ nops' = nops + 1

\* get: drain, then answer from the marks or from L1, or go to the arena.
Get(w, k) ==
  /\ WorkerIdle(w)
  /\ \E h \in HeadsSeen(cursor[w]) : Drain(w, h)
  /\ wpc' = [wpc EXCEPT ![w] =
        IF \/ Marked(pendingDel'[w], k) \/ Marked(pendingWrite'[w], k)
           \/ l1'[w][k] # NoEntry
          THEN Idle
          ELSE [op |-> "fill", key |-> k]]
  /\ UNCHANGED <<primaryVars, sub, clears, nops, shed>>

\* get, the arena half: native.get, and the value goes into L1.
Fill(w) ==
  /\ wpc[w].op = "fill"
  /\ LET k == wpc[w].key IN
     l1' = IF arena[k] = NoVal THEN l1
           ELSE [l1 EXCEPT ![w][k] = [val |-> arena[k], ownAt |-> -1]]
  /\ wpc' = [wpc EXCEPT ![w] = Idle]
  /\ UNCHANGED <<primaryVars, sub, clears, cursor, pendingDel, pendingWrite,
                 delOwed, writeOwed, nops, shed>>

\* set, up to the submission: earlier marks go, the position of the
\* invalidation ring is read, and L1 takes the value or loses the key.
SetLocal(w, k, level) ==
  /\ WorkerIdle(w)
  /\ NewOp
  /\ pendingDel' = [pendingDel EXCEPT ![w] = MarkRelease(@, k)]
  /\ pendingWrite' = [pendingWrite EXCEPT ![w] = MarkRelease(@, k)]
  /\ l1' = [l1 EXCEPT ![w][k] =
        IF level = 1 THEN [val |-> nops', ownAt |-> RingHead] ELSE NoEntry]
  /\ wpc' = [wpc EXCEPT ![w] =
        [op |-> "push", kind |-> IF level = 3 THEN "del" ELSE "set", key |-> k,
         val |-> nops', at |-> RingHead,
         mark |-> IF level = 1 THEN "none" ELSE "write"]]
  /\ UNCHANGED <<primaryVars, sub, clears, cursor, delOwed, writeOwed, shed>>

\* delete, up to the submission: the removal is marked first.
DeleteLocal(w, k) ==
  /\ WorkerIdle(w)
  /\ NewOp
  /\ l1' = [l1 EXCEPT ![w][k] = NoEntry]
  /\ pendingDel' = [pendingDel EXCEPT ![w] =
        MarkAdd(@, [key |-> k, at |-> RingHead, sub |-> -1])]
  /\ wpc' = [wpc EXCEPT ![w] =
        [op |-> "push", kind |-> "del", key |-> k, val |-> nops',
         at |-> RingHead, mark |-> "del"]]
  /\ UNCHANGED <<primaryVars, sub, clears, cursor, pendingWrite, delOwed,
                 writeOwed, shed>>

\* the submission itself: submitPush, and the mark a level-2 or -3 write takes.
Push(w) ==
  /\ wpc[w].op = "push"
  /\ Len(sub[w]) - tail[w] < QueueCap
  /\ LET c == wpc[w] IN
     /\ sub' = [sub EXCEPT ![w] = Append(@,
          [kind |-> c.kind, key |-> c.key, val |-> c.val,
           epoch |-> cleared[w] + clears[w]])]
     /\ pendingWrite' = [pendingWrite EXCEPT ![w] =
          IF c.mark = "write"
            THEN MarkAdd(@, [key |-> c.key, at |-> c.at, sub |-> Len(sub[w]) + 1])
            ELSE @]
  /\ wpc' = [wpc EXCEPT ![w] = Idle]
  /\ UNCHANGED <<primaryVars, clears, l1, cursor, pendingDel, delOwed,
                 writeOwed, nops, shed>>

\* submitPush refuses: the write stays in L1, a shed delete gives its mark back.
\* The ring counts bytes, so that any record in it may leave too little room;
\* an empty one takes every record set lets through (SubmitRing).
PushShed(w) ==
  /\ wpc[w].op = "push"
  /\ Len(sub[w]) > tail[w]
  /\ shed' = shed \cup {wpc[w].val}
  /\ pendingDel' = [pendingDel EXCEPT ![w] =
        IF wpc[w].mark = "del" THEN MarkRelease(@, wpc[w].key) ELSE @]
  /\ wpc' = [wpc EXCEPT ![w] = Idle]
  /\ UNCHANGED <<primaryVars, sub, clears, l1, cursor, pendingWrite, delOwed,
                 writeOwed, nops>>

\* clearAll on a worker: its own caches now, the arena through the channel.
WorkerClear(w) ==
  /\ WorkerIdle(w)
  /\ NewOp
  /\ l1' = [l1 EXCEPT ![w] = EmptyL1]
  /\ pendingDel' = [pendingDel EXCEPT ![w] = <<>>]
  /\ pendingWrite' = [pendingWrite EXCEPT ![w] = <<>>]
  /\ clears' = [clears EXCEPT ![w] = @ + 1]
  /\ UNCHANGED <<primaryVars, sub, cursor, delOwed, writeOwed, wpc, shed>>

\* An L1 entry leaves on its own: byte budget, heap guard or expiry.
L1Evict(w, k) ==
  /\ WorkerIdle(w)
  /\ l1[w][k] # NoEntry
  /\ l1' = [l1 EXCEPT ![w][k] = NoEntry]
  /\ UNCHANGED <<primaryVars, sub, clears, cursor, pendingDel, pendingWrite,
                 delOwed, writeOwed, wpc, nops, shed>>

-----------------------------------------------------------------------------
(* The primary.  pri.mode: "idle", "drain" inside SubmitDrain on the ring  *)
(* of pri.ring, "batch" inside applyBatch for the clear of pri.batch.  An  *)
(* arena write and the record that announces it are two steps: between     *)
(* them the record is owed, and the primary does nothing else.             *)

PIdle == [mode |-> "idle", ring |-> NoOne, head |-> 0, batch |-> NoOne, empty |-> {}]
PBatch(w, done) == [PIdle EXCEPT !.mode = "batch", !.batch = w, !.empty = done]
PrimaryIdle == owed = <<>> /\ pri = PIdle

\* An arena write and the record it owes the ring.
ArenaWrite(k, v, writer) ==
  /\ owed = <<>>
  /\ arena' = [arena EXCEPT ![k] = v]
  /\ last' = [last EXCEPT ![k] = v]
  /\ owed' = <<[key |-> k, by |-> writer]>>

\* ringAppend
RingAppend ==
  /\ owed # <<>>
  /\ ring' = Append(ring, owed[1])
  /\ owed' = <<>>
  /\ UNCHANGED <<workerVars, arena, last, sub, taken, tail, clears, cleared,
                 pri, pl1, pcursor, nops, shed>>

PrimarySet(k) ==
  /\ PrimaryIdle
  /\ NewOp
  /\ pl1' = [pl1 EXCEPT ![k] = nops']
  /\ ArenaWrite(k, nops', NoOne)
  /\ UNCHANGED <<workerVars, ring, sub, taken, tail, clears, cleared, pri,
                 pcursor, shed>>

\* storeSet found no room: set returns false, L1 lets the key go.
PrimarySetRefused(k) ==
  /\ PrimaryIdle
  /\ NewOp
  /\ pl1' = [pl1 EXCEPT ![k] = NoVal]
  /\ UNCHANGED <<workerVars, arena, ring, last, sub, taken, tail, clears,
                 cleared, owed, pri, pcursor, shed>>

PrimaryDelete(k) ==
  /\ PrimaryIdle
  /\ NewOp
  /\ pl1' = [pl1 EXCEPT ![k] = NoVal]
  /\ ArenaWrite(k, NoVal, NoOne)
  /\ UNCHANGED <<workerVars, ring, sub, taken, tail, clears, cleared, pri,
                 pcursor, shed>>

\* storeClear and clearLocal of the primary's own cache.
StoreClear(writer) ==
  /\ arena' = [k \in Keys |-> NoVal]
  /\ last' = [k \in Keys |-> NoVal]
  /\ pl1' = [k \in Keys |-> NoVal]
  /\ owed' = <<[key |-> FlushAll, by |-> writer]>>

PrimaryClear ==
  /\ PrimaryIdle
  /\ NewOp
  /\ StoreClear(NoOne)
  /\ UNCHANGED <<workerVars, ring, sub, taken, tail, clears, cleared, pri,
                 pcursor, shed>>

\* get on the primary: no drain, L1 or the arena.
PrimaryGet(k) ==
  /\ PrimaryIdle
  /\ pl1[k] = NoVal /\ arena[k] # NoVal
  /\ pl1' = [pl1 EXCEPT ![k] = arena[k]]
  /\ UNCHANGED <<workerVars, arena, ring, last, sub, taken, tail, clears,
                 cleared, owed, pri, pcursor, nops, shed>>

\* The log evicts an entry to make room; no record says so.
Evict(k) ==
  /\ arena[k] # NoVal
  /\ arena' = [arena EXCEPT ![k] = NoVal]
  /\ UNCHANGED <<workerVars, ring, last, sub, taken, tail, clears, cleared,
                 owed, pri, pl1, pcursor, nops, shed>>

\* SubmitDrain turns to the ring of w and loads its head.
DrainBegin(w) ==
  /\ owed = <<>>
  /\ pri.mode \in {"idle", "batch"}
  /\ taken[w] < Len(sub[w])
  /\ pri' = [mode |-> "drain", ring |-> w, head |-> Len(sub[w]),
             batch |-> pri.batch, empty |-> {}]
  /\ UNCHANGED <<workerVars, arena, ring, last, sub, taken, tail, clears,
                 cleared, owed, pl1, pcursor, nops, shed>>

\* One record: storeSet, or storeDelete for a delete and for a refused set.
DrainApply(w) ==
  /\ pri.mode = "drain" /\ pri.ring = w
  /\ taken[w] < pri.head
  /\ LET s == sub[w][taken[w] + 1] IN
     \E stored \in BOOLEAN :
       ArenaWrite(s.key, IF s.kind = "set" /\ stored THEN s.val ELSE NoVal, w)
  /\ taken' = [taken EXCEPT ![w] = @ + 1]
  /\ UNCHANGED <<workerVars, ring, sub, tail, clears, cleared, pri, pl1, pcursor,
                 nops, shed>>

\* mutant: a wrap only moves the cursor
PrimaryInvalidate_wrapKeeps ==
  LET r == RingRead(pcursor, RingHead, ReadMax)
      all == pcursor .. (RingHead - 1)
  IN
  /\ pcursor' = IF r.wrapped THEN r.to ELSE RingHead
  /\ pl1' = IF r.wrapped THEN pl1
            ELSE [k \in Keys |->
              IF \E p \in all : ring[p + 1].key \in {k, FlushAll}
                THEN NoVal ELSE pl1[k]]

\* #primaryInvalidate: a wrap drops the whole L1 and may stop short of the
\* head; otherwise every record up to the head is read, a clear drops the
\* whole L1 too, and a record of the primary's own drops nothing.
PrimaryInvalidate ==
  LET r    == RingRead(pcursor, RingHead, ReadMax)
      all  == pcursor .. (RingHead - 1)
      none == [k \in Keys |-> NoVal]
  IN
  IF r.wrapped
    THEN pl1' = none /\ pcursor' = r.to
    ELSE /\ pl1' = IF \E p \in all : ring[p + 1].key = FlushAll THEN none
                   ELSE [k \in Keys |->
                     IF \E p \in all : ring[p + 1].key = k /\ ring[p + 1].by # NoOne
                       THEN NoVal ELSE pl1[k]]
         /\ pcursor' = RingHead

\* The end of a ring's turn, with records left when the budget ran out: the
\* consumer index is published, and the primary's own L1 is invalidated
\* before the primary reads again.
DrainEnd(w) ==
  /\ owed = <<>>
  /\ pri.mode = "drain" /\ pri.ring = w
  /\ taken[w] > tail[w]
  /\ tail' = [tail EXCEPT ![w] = taken[w]]
  /\ PrimaryInvalidate
  /\ pri' = IF pri.batch = NoOne THEN PIdle ELSE PBatch(pri.batch, {})
  /\ UNCHANGED <<workerVars, arena, ring, last, sub, taken, clears, cleared,
                 owed, nops, shed>>

\* applyBatch with the clear of w: every ring must be seen empty first.
BatchBegin(w) ==
  /\ PrimaryIdle
  /\ clears[w] > 0
  /\ pri' = PBatch(w, {})
  /\ UNCHANGED <<workerVars, arena, ring, last, sub, taken, tail, clears,
                 cleared, owed, pl1, pcursor, nops, shed>>

\* mutant: one pass over the rings stands for drained to empty
BatchRingEmpty_onePass(w) ==
  /\ owed = <<>>
  /\ pri.mode = "batch"
  /\ w \notin pri.empty
  /\ pri' = PBatch(pri.batch, pri.empty \cup {w})
  /\ UNCHANGED <<workerVars, arena, ring, last, sub, taken, tail, clears,
                 cleared, owed, pl1, pcursor, nops, shed>>

BatchRingEmpty(w) ==
  /\ owed = <<>>
  /\ pri.mode = "batch"
  /\ w \notin pri.empty
  /\ taken[w] = Len(sub[w])
  /\ pri' = PBatch(pri.batch, pri.empty \cup {w})
  /\ UNCHANGED <<workerVars, arena, ring, last, sub, taken, tail, clears,
                 cleared, owed, pl1, pcursor, nops, shed>>

BatchClear ==
  /\ owed = <<>>
  /\ pri.mode = "batch"
  /\ pri.empty = Workers
  /\ StoreClear(pri.batch)
  /\ pri' = PIdle
  /\ clears' = [clears EXCEPT ![pri.batch] = @ - 1]
  /\ cleared' = [cleared EXCEPT ![pri.batch] = @ + 1]
  /\ UNCHANGED <<workerVars, ring, sub, taken, tail, pcursor, nops, shed>>

-----------------------------------------------------------------------------
Init ==
  /\ arena = [k \in Keys |-> NoVal]
  /\ ring = <<>>
  /\ last = [k \in Keys |-> NoVal]
  /\ sub = [w \in Workers |-> <<>>]
  /\ taken = [w \in Workers |-> 0]
  /\ tail = [w \in Workers |-> 0]
  /\ clears = [w \in Workers |-> 0]
  /\ cleared = [w \in Workers |-> 0]
  /\ owed = <<>>
  /\ pri = PIdle
  /\ pl1 = [k \in Keys |-> NoVal]
  /\ pcursor = 0
  /\ l1 = [w \in Workers |-> EmptyL1]
  /\ cursor = [w \in Workers |-> 0]
  /\ pendingDel = [w \in Workers |-> <<>>]
  /\ pendingWrite = [w \in Workers |-> <<>>]
  /\ delOwed = [w \in Workers |-> 0]
  /\ writeOwed = [w \in Workers |-> 0]
  /\ wpc = [w \in Workers |-> Idle]
  /\ nops = 0
  /\ shed = {}

WorkerStep(w) ==
  \/ \E k \in Keys : \/ Get(w, k)
                     \/ \E level \in 1 .. 3 : SetLocal(w, k, level)
                     \/ DeleteLocal(w, k)
                     \/ L1Evict(w, k)
  \/ Fill(w)
  \/ Push(w)
  \/ PushShed(w)
  \/ WorkerClear(w)

PrimaryStep ==
  \/ \E k \in Keys : \/ PrimarySet(k) \/ PrimarySetRefused(k) \/ PrimaryDelete(k)
                     \/ PrimaryGet(k) \/ Evict(k)
  \/ PrimaryClear
  \/ RingAppend
  \/ \E w \in Workers : \/ DrainBegin(w) \/ DrainApply(w) \/ DrainEnd(w)
                        \/ BatchBegin(w) \/ BatchRingEmpty(w)
  \/ BatchClear

Next == PrimaryStep \/ \E w \in Workers : WorkerStep(w)

Spec == Init /\ [][Next]_vars

\* Every process keeps running: the doorbell and the 500 ms backstop drain the
\* rings, messages are delivered, and applications keep reading.
Fairness ==
  /\ WF_vars(RingAppend) /\ WF_vars(BatchClear)
  /\ \A w \in Workers :
       /\ WF_vars(DrainBegin(w)) /\ WF_vars(DrainApply(w)) /\ WF_vars(DrainEnd(w))
       /\ SF_vars(BatchBegin(w)) /\ WF_vars(BatchRingEmpty(w))
       /\ WF_vars(Push(w)) /\ WF_vars(PushShed(w)) /\ WF_vars(Fill(w))
       /\ \A k \in Keys : SF_vars(Get(w, k))

FairSpec == Spec /\ Fairness

-----------------------------------------------------------------------------
(* Properties *)

Vals == 0 .. MaxOps
Mark == [key : Keys, at : Nat, sub : Nat \cup {-1}]
RingRec == [key : Keys \cup {FlushAll}, by : Workers \cup {NoOne}]
SubRec == [kind : {"set", "del"}, key : Keys, val : Vals, epoch : Nat]
Entry == [val : Vals, ownAt : Nat \cup {-1}]

\* The steps a worker can be about to take, and those the primary can be in.
WorkerPc ==
  {Idle} \cup [op : {"fill"}, key : Keys]
         \cup [op : {"push"}, kind : {"set", "del"}, key : Keys, val : Vals,
               at : Nat, mark : {"none", "write", "del"}]
Control ==
  [mode : {"idle", "drain", "batch"}, ring : Workers \cup {NoOne}, head : Nat,
   batch : Workers \cup {NoOne}, empty : SUBSET Workers]

PrimaryTypeOK ==
  /\ arena \in [Keys -> Vals] /\ last \in [Keys -> Vals] /\ pl1 \in [Keys -> Vals]
  /\ ring \in Seq(RingRec) /\ owed \in Seq(RingRec)
  /\ taken \in [Workers -> Nat] /\ tail \in [Workers -> Nat]
  /\ cleared \in [Workers -> Nat]
  /\ pcursor \in Nat
  /\ pri \in Control
WorkerTypeOK ==
  /\ sub \in [Workers -> Seq(SubRec)]
  /\ clears \in [Workers -> Nat]
  /\ l1 \in [Workers -> [Keys -> Entry]]
  /\ cursor \in [Workers -> Nat]
  /\ wpc \in [Workers -> WorkerPc]
  /\ nops \in Vals /\ shed \subseteq Vals

\* The positions are within what they are positions of.
PositionsOK ==
  /\ pcursor <= RingHead /\ DOMAIN owed \subseteq {1}
  /\ pri.mode = "drain" => pri.ring \in Workers /\ pri.head <= Len(sub[pri.ring])
  /\ pri.mode = "batch" => pri.batch \in Workers
  /\ pri.batch \in Workers => clears[pri.batch] > 0
  /\ \A w \in Workers :
       /\ cursor[w] <= RingHead
       /\ tail[w] <= taken[w] /\ taken[w] <= Len(sub[w])
       /\ \A k \in Keys : l1[w][k].ownAt <= RingHead

\* Every variable but the marks holds what its comment says, and the positions
\* are within what they are positions of.
StateTypeOK == PrimaryTypeOK /\ WorkerTypeOK /\ PositionsOK

\* The marks, one for a key at most and within the bound.
MarksTypeOK ==
  \A w \in Workers : \A s \in {pendingDel[w], pendingWrite[w]} :
    /\ s \in Seq(Mark) /\ Len(s) <= MarkMax
    /\ \A i, j \in DOMAIN s : s[i].key = s[j].key => i = j

\* The type invariant, with the ranges of the positions.
TypeOK ==
  /\ StateTypeOK
  /\ MarksTypeOK
  /\ delOwed \in [Workers -> Nat] /\ writeOwed \in [Workers -> Nat]

\* Something on its way will drop an entry of key k filed at position `own`:
\* an unread record at or past it, a clear, a lap, or a record still owed.
Doomed(k, c, own) ==
  \/ Lapped(c)
  \/ \E p \in c .. (RingHead - 1) :
       \/ ring[p + 1].key = k /\ p >= own
       \/ ring[p + 1].key = FlushAll
  \/ \E i \in DOMAIN owed : owed[i].key \in {k, FlushAll}

\* The worker's own write v of k has not been applied yet, or never will be.
OwnUnapplied(w, k, v) ==
  \/ wpc[w].op = "push" /\ wpc[w].key = k /\ wpc[w].val = v
  \/ \E i \in (taken[w] + 1) .. Len(sub[w]) : sub[w][i].key = k /\ sub[w][i].val = v
  \/ v \in shed

\* What L1 holds is the last value applied to the key, or the worker's own write
\* the primary has not applied, or an invalidation will remove it.
EntryFresh(w, k) ==
  l1[w][k] # NoEntry =>
    \/ l1[w][k].val = last[k]
    \/ OwnUnapplied(w, k, l1[w][k].val)
    \/ Doomed(k, cursor[w], l1[w][k].ownAt)

\* No worker is left holding a superseded value with nothing on its way to
\* drop it.
L1Fresh == \A w \in Workers, k \in Keys : EntryFresh(w, k)

\* The primary, which reads no ring before it answers, never serves a value
\* that a drain or a clear it has run superseded.
PrimaryFresh ==
  PrimaryIdle => \A k \in Keys : pl1[k] \in {NoVal, last[k]}

\* What a worker submitted before its clearAll is applied before that clear:
\* nothing submitted earlier can put a key back afterwards.
ClearCoversEarlierWrites ==
  \A w \in Workers : \A i \in (taken[w] + 1) .. Len(sub[w]) :
    sub[w][i].epoch >= cleared[w]

\* A write mark whose record this worker will never meet, because the primary
\* has applied the write and the ring has been read past it, is one the next
\* drains still owe a judgement: no key stays unreadable for want of a record.
\* The marks are one for a key and within their bound, and the rest is in type.
NoStuckWriteMark ==
  /\ TypeOK
  /\ \A w \in Workers : \A i \in DOMAIN pendingWrite[w] :
       LET m == pendingWrite[w][i] IN
         \/ taken[w] < m.sub
         \/ writeOwed[w] > 0
         \/ Doomed(m.key, cursor[w], m.at)

\* A write mark is not a stuck mark: after it is taken the key becomes readable
\* again in that worker, however often the ring is lapped in between.
WriteMarkReleased ==
  \A w \in Workers, k \in Keys :
    Marked(pendingWrite[w], k) ~> ~Marked(pendingWrite[w], k)

\* A delete is remembered "until the invalidation for it comes back around": a
\* worker does not go to the arena for a value it wrote itself while a delete
\* it submitted after that write has not been applied.
OwnDeleteHonoured ==
  \A w \in Workers : wpc[w].op = "fill" =>
    ~ \E i \in (taken[w] + 1) .. Len(sub[w]) : \E j \in 1 .. (i - 1) :
        /\ sub[w][i].kind = "del" /\ sub[w][i].key = wpc[w].key
        /\ sub[w][j].key = wpc[w].key /\ sub[w][j].val = arena[wpc[w].key]
=============================================================================
