------------------------------- MODULE Outbox -------------------------------
(***************************************************************************)
(* The cluster channel of a worker: the outbox that collects operations,   *)
(* flush and its window of bytes in flight, the four ways a batch is lost, *)
(* the pending marks that live and die with a batch, and the generation of *)
(* an L3 clear, which the primary opens and settles for its workers.       *)
(*                                                                         *)
(* A member of Workers is one attachment, that is one process; Slot gives  *)
(* the writer id it was started with, which a successor takes over.  Every *)
(* entry of the outbox counts for one byte.  A channel is "up"; "broken",  *)
(* when sends fail but process.connected does not show it yet; or "gone".  *)
(* L1, the arena's contents and lapped readers are Coherence's.            *)
(***************************************************************************)
EXTENDS Integers, Sequences, FiniteSets

CONSTANTS
  Workers, Keys, NoKey,
  Slot,          \* worker -> writer id
  FlushAll,      \* the ring record of a clear
  SetLevels,     \* bound: the minLevels of set that are tried
  Unsendable,    \* whether a value may be one process.send throws for
  OutboxMax,     \* #outboxMaxBytes
  WindowMax,     \* #maxInFlightBytes
  MaxOps,        \* bound: operations of all processes together
  MaxFaults      \* bound: channels that break and workers that die

ASSUME OutboxAssumption ==
  /\ IsFiniteSet(Workers) /\ FlushAll \notin Keys /\ NoKey \notin Keys
  /\ SetLevels \subseteq 1 .. 3 /\ Unsendable \subseteq BOOLEAN
  /\ OutboxMax \in Nat \ {0} /\ WindowMax \in Nat \ {0}
  /\ MaxOps \in Nat /\ MaxFaults \in Nat

VARIABLES
  ws,       \* worker -> its side of the channel, see FreshWorker
  chan,     \* worker -> "up", "broken" or "gone"
  told,     \* worker -> whether the primary has heard from it (install's `last`)
  over,     \* worker -> the 'exit' and 'disconnect' events still to come
  ring,     \* invalidation records
  gen, settled,   \* l3ClearGen, l3ClearSettled of the arena header
  gensOwed, \* #clearGensOwed: attachment -> generations opened, not settled
  pclr,     \* the primary's own L3 clear is outstanding
  nops, nfaults,
  applied   \* history: worker -> clears of its own that emptied the arena

primaryVars == <<ring, gen, settled, gensOwed, applied>>
vars == <<ws, chan, told, over, primaryVars, pclr, nops, nfaults>>

-----------------------------------------------------------------------------
NoMark == [seq |-> 0, at |-> 0]
NoMarks == [k \in Keys |-> NoMark]
FreshWorker ==
  [outbox |-> <<>>, bytes |-> 0,    \* #outbox, #outboxBytes
   sched |-> FALSE,                 \* #flushScheduled, a setImmediate is due
   chase |-> FALSE,                 \* #settleClearGen's timer is due
   wire |-> <<>>, window |-> 0,     \* batches sent, the oldest first, #inFlightBytes
   del |-> NoMarks, write |-> NoMarks, seq |-> 0,    \* the marks, markSeq
   cursor |-> 0,
   clears |-> 0, out |-> 0,         \* clears issued, and not yet applied by L3
   last |-> [k \in Keys |-> 0]]     \* history: newest operation on a key

Connected(w) == chan[w] # "gone"    \* process.connected
\* The entries of q at the places in I, in their order.
Kept(q, I) ==
  LET f[i \in 0 .. Len(q)] ==
        IF i = 0 THEN <<>> ELSE IF i \in I THEN Append(f[i - 1], q[i]) ELSE f[i - 1]
  IN  f[Len(q)]

NewOp == nops < MaxOps /\ nops' = nops + 1
Keyless(e) == e.op \in {"c", "+", "-"}
Entry(op, k, seq, at, bad) ==
  [op |-> op, key |-> k, seq |-> seq, at |-> at, bad |-> bad, n |-> nops + 1]

-----------------------------------------------------------------------------
(* flush *)

Carried(k, ops, op) == \E i \in DOMAIN ops : ops[i].op = op /\ ops[i].key = k

\* mutant: whatever mark the key has is released
ReleaseBatchMarks_any(s, ops, seq) ==
  [s EXCEPT !.del = [k \in Keys |-> IF Carried(k, ops, "d") THEN NoMark ELSE @[k]],
            !.write = [k \in Keys |-> IF Carried(k, ops, "s") THEN NoMark ELSE @[k]]]

\* mutant: the marks of a lost batch stay
ReleaseBatchMarks_none(s, ops, seq) == s

\* #releaseBatchMarks: by kind, and none newer than the batch
ReleaseBatchMarks(s, ops, seq) ==
  [s EXCEPT
     !.del = [k \in Keys |->
       IF Carried(k, ops, "d") /\ @[k].seq <= seq THEN NoMark ELSE @[k]],
     !.write = [k \in Keys |->
       IF Carried(k, ops, "s") /\ @[k].seq <= seq THEN NoMark ELSE @[k]]]

\* mutant: a congested channel sheds everything
Shed_all(s) == [ReleaseBatchMarks(s, s.outbox, s.seq) EXCEPT !.outbox = <<>>, !.bytes = 0]

\* window and outbox both full: the writes go, the clears stay
Shed(s) ==
  [ReleaseBatchMarks(s, s.outbox, s.seq) EXCEPT
     !.outbox = Kept(s.outbox, {i \in DOMAIN s.outbox : Keyless(s.outbox[i])}), !.bytes = 0]

\* process.send of the whole outbox; not connected or a throw loses the batch
Send(s, connected) ==
  LET t == [s EXCEPT !.outbox = <<>>, !.bytes = 0] IN
  IF ~connected \/ \E i \in DOMAIN s.outbox : s.outbox[i].bad
    THEN ReleaseBatchMarks(t, s.outbox, s.seq)
    ELSE [t EXCEPT !.window = @ + s.bytes,
                   !.wire = Append(@, [ops |-> s.outbox, seq |-> s.seq,
                                       bytes |-> s.bytes, due |-> TRUE, cb |-> TRUE])]

Flush(s, connected) ==
  LET t == [s EXCEPT !.sched = FALSE] IN
  CASE s.outbox = <<>> -> t
    [] s.outbox # <<>> /\ s.window < WindowMax -> Send(t, connected)
    [] s.outbox # <<>> /\ s.window >= WindowMax /\ s.bytes < OutboxMax -> t
    [] s.outbox # <<>> /\ s.window >= WindowMax /\ s.bytes >= OutboxMax -> Shed(t)

\* #publishOutbox, #publishOutboxOp and #schedule
Publish(s, e, connected) ==
  LET t == [s EXCEPT !.outbox = Append(@, e), !.bytes = @ + 1] IN
  IF t.bytes >= OutboxMax THEN Flush(t, connected) ELSE [t EXCEPT !.sched = TRUE]

ScheduledFlush(w) ==
  /\ ws[w].sched
  /\ ws' = [ws EXCEPT ![w] = Flush(@, Connected(w))]
  /\ UNCHANGED <<chan, told, over, primaryVars, pclr, nops, nfaults>>

-----------------------------------------------------------------------------
(* The operations of a worker on the 'ipc' transport *)

\* the marks a write gives up, and the one it takes at level 2 and 3
Set(w, k, level, bad) ==
  LET s == ws[w]
      seq == IF level = 1 THEN s.seq ELSE s.seq + 1
      mark == IF level = 1 THEN NoMark ELSE [seq |-> seq, at |-> Len(ring)]
      t == [s EXCEPT !.del[k] = NoMark, !.write[k] = mark, !.seq = seq,
                     !.last[k] = nops + 1]
  IN
  /\ NewOp
  /\ ws' = [ws EXCEPT ![w] =
       Publish(t, Entry(IF level = 3 THEN "d" ELSE "s", k, mark.seq, mark.at, bad),
               Connected(w))]
  /\ UNCHANGED <<chan, told, over, primaryVars, pclr, nfaults>>

Delete(w, k) ==
  LET s == ws[w]
      mark == [seq |-> s.seq + 1, at |-> Len(ring)]
      t == [s EXCEPT !.del[k] = mark, !.seq = @ + 1, !.last[k] = nops + 1]
  IN
  /\ NewOp
  /\ ws' = [ws EXCEPT ![w] =
       Publish(t, Entry("d", k, mark.seq, mark.at, FALSE), Connected(w))]
  /\ UNCHANGED <<chan, told, over, primaryVars, pclr, nfaults>>

Op(op) == Entry(op, NoKey, 0, 0, FALSE)

\* clearAll: clearLocal, #openClearGen, the queue, then the clear itself
ClearAll(w) ==
  LET s == [ws[w] EXCEPT !.del = NoMarks, !.write = NoMarks,
                         !.clears = @ + 1, !.out = @ + 1,
                         !.last = [k \in Keys |-> nops + 1]]
  IN
  /\ NewOp
  /\ ws' = [ws EXCEPT ![w] =
       Publish(Publish(s, Op("+"), Connected(w)), Op("c"), Connected(w))]
  /\ UNCHANGED <<chan, told, over, primaryVars, pclr, nfaults>>

\* mutant: the settle is queued and left to the next flush
Chased_not(s, connected) == Flush(s, connected)

\* #settleClearGen from the flush on: the timer is armed while entries are left
Chased(s, connected) ==
  LET t == Flush(s, connected) IN
  [t EXCEPT !.chase = t.outbox # <<>> /\ connected]

\* L3 has applied a clear of this worker
SettleClearGen(w) ==
  LET s == [ws[w] EXCEPT !.out = @ - 1] IN
  /\ ws[w].out > 0
  /\ ws' = [ws EXCEPT ![w] = Chased(Publish(s, Op("-"), Connected(w)), Connected(w))]
  /\ UNCHANGED <<chan, told, over, primaryVars, pclr, nops, nfaults>>

ChaseTimer(w) ==
  /\ ws[w].chase
  /\ ws' = [ws EXCEPT ![w] = Chased(@, Connected(w))]
  /\ UNCHANGED <<chan, told, over, primaryVars, pclr, nops, nfaults>>

\* a record at or past a mark, or a flush record, releases it (#drain)
Drain(w) ==
  LET s == ws[w]
      hit(k, m) == \E i \in (s.cursor + 1) .. Len(ring) :
                     ring[i] = FlushAll \/ (ring[i] = k /\ i > m.at)
  IN
  /\ s.cursor < Len(ring) /\ Connected(w)
  /\ ws' = [ws EXCEPT ![w] = [s EXCEPT
       !.cursor = Len(ring),
       !.del = [k \in Keys |-> IF hit(k, @[k]) THEN NoMark ELSE @[k]],
       !.write = [k \in Keys |-> IF hit(k, @[k]) THEN NoMark ELSE @[k]]]]
  /\ UNCHANGED <<chan, told, over, primaryVars, pclr, nops, nfaults>>

-----------------------------------------------------------------------------
(* The channel *)

\* the send callback without an error: the bytes leave the window
Written(w) ==
  /\ chan[w] = "up"
  /\ \E i \in DOMAIN ws[w].wire :
       /\ ws[w].wire[i].cb /\ \A j \in 1 .. (i - 1) : ~ws[w].wire[j].cb
       /\ ws' = [ws EXCEPT ![w].window = @ - ws[w].wire[i].bytes,
                           ![w].wire[i].cb = FALSE]
  /\ UNCHANGED <<chan, told, over, primaryVars, pclr, nops, nfaults>>

\* the send callback with an error: the batch will not be delivered
SendFailed(w) ==
  /\ chan[w] # "up"
  /\ \E i \in DOMAIN ws[w].wire :
       LET s == ws[w]
           b == s.wire[i]
           t == [s EXCEPT !.window = @ - b.bytes,
                          !.wire[i] = [b EXCEPT !.due = FALSE, !.cb = FALSE]]
       IN
       /\ b.cb /\ b.due
       /\ ws' = [ws EXCEPT ![w] = ReleaseBatchMarks(t, b.ops, b.seq)]
  /\ UNCHANGED <<chan, told, over, primaryVars, pclr, nops, nfaults>>

Break(w) ==
  /\ chan[w] = "up" /\ nfaults < MaxFaults
  /\ nfaults' = nfaults + 1
  /\ chan' = [chan EXCEPT ![w] = "broken"]
  /\ UNCHANGED <<ws, told, over, primaryVars, pclr, nops>>

\* the worker's process.connected turns false
Disconnected(w) ==
  /\ chan[w] = "broken"
  /\ chan' = [chan EXCEPT ![w] = "gone"]
  /\ UNCHANGED <<ws, told, over, primaryVars, pclr, nops, nfaults>>

\* the process dies; what it had written to the channel may still be read
Exit(w) ==
  /\ chan[w] # "gone" /\ nfaults < MaxFaults
  /\ nfaults' = nfaults + 1
  /\ chan' = [chan EXCEPT ![w] = "gone"]
  /\ ws' = [ws EXCEPT ![w] = [FreshWorker EXCEPT
       !.wire = [i \in DOMAIN ws[w].wire |->
         [ws[w].wire[i] EXCEPT !.due = @ /\ ~ws[w].wire[i].cb, !.cb = FALSE]]]]
  /\ UNCHANGED <<told, over, primaryVars, pclr, nops>>

-----------------------------------------------------------------------------
(* The primary *)

\* mutant: generations are counted per writer id
Attachment_byId(w) == CHOOSE v \in Workers : Slot[v] = Slot[w]

\* #attachmentOf: the nonce of the sending process
Attachment(w) == w

\* #l3ClearSettleFor settles only what this attachment opened
MaySettle(owed) == owed > 0

\* one entry of a batch: the record of a set, delete or clear, or #l3ClearOpenFor,
\* #l3ClearSettleFor and the header's counters, of which settled never passes gen
ApplyOp(a, e) ==
  CASE e.op \in {"s", "d"} -> [a EXCEPT !.ring = Append(@, e.key)]
    [] e.op = "c" -> [a EXCEPT !.ring = Append(@, FlushAll), !.applied = @ + 1]
    [] e.op = "+" -> [a EXCEPT !.gen = @ + 1, !.owed = @ + 1]
    [] e.op = "-" /\ MaySettle(a.owed) ->
         [a EXCEPT !.settled = IF @ < a.gen THEN @ + 1 ELSE @,
                   !.owed = IF @ > 0 THEN @ - 1 ELSE 0]
    [] OTHER -> a

\* the loop of applyBatch
ApplyOps(a, ops) ==
  LET f[i \in 0 .. Len(ops)] == IF i = 0 THEN a ELSE ApplyOp(f[i - 1], ops[i])
  IN  f[Len(ops)]

\* the next batch of the channel arrives
ApplyBatch(w) ==
  \E i \in DOMAIN ws[w].wire :
    LET who == Attachment(w)
        a == ApplyOps([ring |-> ring, gen |-> gen, settled |-> settled,
                       owed |-> gensOwed[who], applied |-> applied[w]], ws[w].wire[i].ops)
    IN
    /\ ws[w].wire[i].due /\ \A j \in 1 .. (i - 1) : ~ws[w].wire[j].due
    /\ ws' = [ws EXCEPT ![w].wire[i].due = FALSE]
    /\ told' = [told EXCEPT ![w] = TRUE]
    /\ ring' = a.ring /\ gen' = a.gen /\ settled' = a.settled
    /\ gensOwed' = [gensOwed EXCEPT ![who] = a.owed]
    /\ applied' = [applied EXCEPT ![w] = a.applied]
    /\ UNCHANGED <<chan, over, pclr, nops, nfaults>>

\* releaseWorker: everything the attachment still owes is settled
ReleaseWorker(w) ==
  LET who == Attachment(w) IN
  /\ settled' = IF told[w] THEN settled + gensOwed[who] ELSE settled
  /\ gensOwed' = IF told[w] THEN [gensOwed EXCEPT ![who] = 0] ELSE gensOwed

\* install's 'exit' and 'disconnect' handlers.  The exit of the process can be
\* seen before its last messages; the disconnect comes after them.
Gone(w, event) ==
  /\ chan[w] = "gone" /\ event \in over[w]
  /\ event = "disconnect" => \A i \in DOMAIN ws[w].wire : ~ws[w].wire[i].due
  /\ over' = [over EXCEPT ![w] = @ \ {event}]
  /\ ReleaseWorker(w)
  /\ UNCHANGED <<ws, chan, told, ring, gen, applied, pclr, nops, nfaults>>

\* clearAll on the primary, and L3's answer to it
PrimaryClear ==
  /\ ~pclr /\ NewOp
  /\ pclr' = TRUE /\ gen' = gen + 1 /\ ring' = Append(ring, FlushAll)
  /\ UNCHANGED <<ws, chan, told, over, settled, gensOwed, applied, nfaults>>

PrimarySettle ==
  /\ pclr
  /\ pclr' = FALSE /\ settled' = settled + 1
  /\ UNCHANGED <<ws, chan, told, over, ring, gen, gensOwed, applied, nops, nfaults>>

-----------------------------------------------------------------------------
Init ==
  /\ ws = [w \in Workers |-> FreshWorker]
  /\ chan = [w \in Workers |-> "up"]
  /\ told = [w \in Workers |-> FALSE]
  /\ over = [w \in Workers |-> {"exit", "disconnect"}]
  /\ ring = <<>> /\ gen = 0 /\ settled = 0
  /\ gensOwed = [w \in Workers |-> 0]
  /\ pclr = FALSE /\ nops = 0 /\ nfaults = 0
  /\ applied = [w \in Workers |-> 0]

\* a process that is gone from the channel issues nothing more here
Operation(w) ==
  /\ Connected(w)
  /\ \/ \E k \in Keys, level \in SetLevels, bad \in Unsendable : Set(w, k, level, bad)
     \/ \E k \in Keys : Delete(w, k)
     \/ ClearAll(w)

Next ==
  \/ \E w \in Workers :
       \/ Operation(w)
       \/ ScheduledFlush(w) \/ SettleClearGen(w) \/ ChaseTimer(w) \/ Drain(w)
       \/ Written(w) \/ SendFailed(w) \/ Break(w) \/ Disconnected(w) \/ Exit(w)
       \/ ApplyBatch(w)
       \/ \E event \in {"exit", "disconnect"} : Gone(w, event)
  \/ PrimaryClear \/ PrimarySettle

Spec == Init /\ [][Next]_vars

\* setImmediate and timers run, the channel makes progress and reports its
\* end, L3 applies a clear (the queue retries it for ever)
Fairness ==
  /\ \A w \in Workers :
       /\ WF_vars(ScheduledFlush(w)) /\ WF_vars(ChaseTimer(w))
       /\ WF_vars(SettleClearGen(w)) /\ WF_vars(Written(w))
       /\ WF_vars(SendFailed(w)) /\ WF_vars(ApplyBatch(w))
       /\ WF_vars(Disconnected(w)) /\ WF_vars(Gone(w, "exit"))
       /\ WF_vars(Gone(w, "disconnect"))
  /\ WF_vars(PrimarySettle)

FairSpec == Spec /\ Fairness

-----------------------------------------------------------------------------
(* Properties *)

Undelivered(w) ==
  {ws[w].outbox[i] : i \in DOMAIN ws[w].outbox} \cup
  UNION {LET b == ws[w].wire[i] IN IF b.due THEN {b.ops[j] : j \in DOMAIN b.ops} ELSE {} :
           i \in DOMAIN ws[w].wire}

\* The bytes of the batches whose callback has not come.
InFlight(s) ==
  UNION {{i} \X (1 .. s.wire[i].bytes) : i \in {j \in DOMAIN s.wire : s.wire[j].cb}}

\* The window is what awaits its callback, no mark is ahead of the sequence, and no
\* more is settled than was opened.
TypeOK ==
  /\ settled <= gen
  /\ \A w \in Workers :
       /\ chan[w] \in {"up", "broken", "gone"}
       /\ ws[w].window = Cardinality(InFlight(ws[w]))
       /\ \A k \in Keys : ws[w].del[k].seq <= ws[w].seq /\ ws[w].write[k].seq <= ws[w].seq

\* A marked key has something on its way that will release the mark: the
\* operation that took it is in the outbox or in the channel, or a record is
\* ahead of the reader.  Otherwise the key is unreadable from every tier for
\* the life of the worker, whatever way its batch was lost.  And the window
\* is what is in flight, so that it opens again after every kind of loss.
NoOrphanMark ==
  /\ TypeOK
  /\ \A w \in Workers, k \in Keys :
       \A m \in {ws[w].del[k], ws[w].write[k]} \ {NoMark} :
         \/ \E e \in Undelivered(w) : e.key = k /\ e.seq = m.seq
         \/ \E i \in (ws[w].cursor + 1) .. Len(ring) : ring[i] \in {k, FlushAll} /\ i > m.at

\* Losing a batch releases no mark of a later operation: the newest operation
\* on a key, while it is on its way, keeps its mark until a record of the key
\* past it, or any clear, releases it.
LiveMarkKept ==
  \A w \in Workers : \A e \in Undelivered(w) :
    e.seq > 0 /\ e.n = ws[w].last[e.key] =>
      \/ e.seq \in {ws[w].del[e.key].seq, ws[w].write[e.key].seq}
      \/ \E i \in 1 .. ws[w].cursor : ring[i] = FlushAll \/ (ring[i] = e.key /\ i > e.at)

\* While a clear that has emptied the arena is still on its way to L3, the
\* generation is open, so that no process promotes what it is erasing; no
\* settle of another process, alive, dead or replaced, closes it.
ClearGuarded ==
  gen - settled >=
    Cardinality({w \in Workers : chan[w] = "up" /\ applied[w] = ws[w].clears /\ ws[w].out > 0})
    + (IF pclr THEN 1 ELSE 0)

\* Every generation is settled in the end, also when the worker that opened it
\* is congested, loses its channel or dies.
GenerationSettles == gen # settled ~> gen = settled

\* A clearAll reaches the arena, congestion or not, unless its channel ends.
ClearReaches ==
  \A w \in Workers : applied[w] < ws[w].clears ~> applied[w] = ws[w].clears \/ chan[w] # "up"
=============================================================================
