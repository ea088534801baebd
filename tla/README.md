# TurboKV: a TLA+ model of the cache, its tiers and its failures

TurboKV is a key-value cache for a Node cluster. One primary process owns a
shared-memory arena (L2); every worker maps the arena read-only and keeps a
private L1; an optional remote store (L3) sits behind an adapter the
application supplies. This directory models the protocols that keep these
tiers consistent, checks them with TLC and proves the central ones with TLAPS.
Paths and line numbers below refer to the repository (`src/turbokv.js` etc.).

## The system

| part | state | operations | talks to |
|---|---|---|---|
| Worker front (`turbokv.js`) | L1 map, `#byHash`, `#cursor` | get, has, set (levels 1-3), delete, clearAll, drain | arena and invalidation ring (reads), submission ring (writes), IPC outbox, L3 queue |
| Pending marks (`turbokv.js` 425-507) | `#pendingDel`, `#pendingWrite`: key, ring position, submission position | mark, touch, release, reconcile | released by ring records, judged against the arena or the consumer index |
| Primary (`turbokv.js`, `binding.cc`) | its own L1, `#primaryCursor` | drainSubmissions, `#primaryInvalidate`, applyBatch, its own set/get/delete/clear | the only writer of the arena and of the invalidation ring |
| Invalidation ring (`store_ops.h`, `binding.cc`) | ring of hashes, head | ringAppend, RingRead | written by the primary, read by everybody, can be lapped |
| Submission ring (`submit.h`, `binding.cc`) | bytes, head, tail, owner | claim, push, drain, release | one producer, one consumer; the owner may die |
| Arena (`store.h`, `store_ops.h`) | log with second chance, open-addressed index, seqlocks | storeSet, storeDelete, storeClear, storeGet | read by workers without locks |
| L3 queue (`l3/queue.js`) | chains, byte and operation counts, clear gate, wire count | push, clear, run, drain, close | the adapter |
| L3 reads (`turbokv.js`) | reads in flight, `#deletedAt` | getAsync, hasAsync, promotion guard | queue, rings, adapter |
| Clear generation (`turbokv.js`, `binding.cc`) | generations opened and settled, and by whom | open, settle, releaseWorker | every reader of L3 |
| Failure caps (`turbokv.js`) | guards with deadlines, cap requests | cap, cancel, retire and judge a guard | arena, through the primary |
| IPC transport (`turbokv.js`) | outbox, bytes in flight | schedule, flush, send callback, applyBatch | cluster channel |
| Recovery (`turbokv.js`) | heartbeat age, `#primaryDead`, the poll, the ring slot | checkPrimary, degrade, recover, open, close | arena of a new primary |
| Expiry (`store_ops.h`, `binding.cc`) | 32-bit relative clock | tcExpired, SweepExpired | arena |

What is hard: the primary and the workers are different processes that meet
only in shared memory; a reader may be lapped while it is reading; a write is
in the arena some time after set has returned; a clear and a write take
different roads to the primary; a worker may die in the middle of a push; the
adapter may fail after it has done its work, or never answer; an answer of L3 is
old by the time it arrives; a batch is lost after its marks were taken; the
primary is restarted under its workers. `PROJECT.json`
lists the hazards one by one, each at its line.

## Modules

**Coherence** - the default shared-memory transport: worker fronts, marks,
invalidation ring and the primary, together. A value is the number of the
operation that wrote it. `ring` is the sequence of all records; a reader
`RingCap` behind its end is lapped. `sub[w]` is everything worker `w` pushed,
`taken[w]` what has been applied, `tail[w]` the consumer index as published.
A worker operation is split where it touches shared memory (`Get`/`Fill`,
`SetLocal`/`Push`), the primary's where it publishes (`ArenaWrite`, then
`RingAppend`, with `owed` in between; `DrainBegin`, `DrainApply`, `DrainEnd`).
`Drain` is `#drain` whole: leftover reconciliation, the read of the ring, wrap,
flush, marks, L1, cursor. The arena is a map, and `Evict` stands for its
eviction, which publishes nothing. A set the arena refuses is a choice of the
environment: `PrimarySetRefused`, and in a drain the delete that replaces it.

**SubmitQueue** - the abstract promise of a submission ring: a FIFO queue.

**SubmitRing** - one ring at the level of 8-byte words. A word remembers which
record, and which word of it, was written there, so a torn or overwritten
record is distinguishable. The producer writes word by word and publishes with
one store; the consumer copies the header, validates, and later reads the
payload from the ring. Workers claim by compare-and-swap, release, and crash
anywhere; a survivor takes over a dead worker's ring with its contents. The
history `pushed` keeps where each published record begins and ends.

**L3Queue** - the whole of `l3/queue.js`, but for `outstandingKind`, which only
reads and is `Owed` in L3Read. An action is one stretch of
JavaScript between two awaits; `Loop` is the head of `#run`, `Finish` its tail,
including the next trip round the loop, which happens in the same stretch. The
adapter is external: `l3[k]` is the number of the operation that last took
effect on `k`. `Tardy` names the keys whose calls may take effect after they
were given up; `stray` is the operation that may do so, and the properties of
order then allow for that one late effect (`Late`) and nothing else. `Kinds` says
which operations are tried on a key.

**Arena** - the log and the index behind L2 (`store.h`, `store_ops.h`), and the
sweep of `binding.cc`. The primary is the only writer, and each of its actions
is one store a reader can see: the sequence word going odd and even, `off`, then
`hash`, a slot emptied and refilled by the backward shift, the tail. A worker's
`storeGet` is one action per load (`Probe` to `CheckTail`), the copy one word at
a time. A word knows which word of which version it holds, so a mixture is
visible; where a reader takes payload for a header, or a record is half
written, it may find anything. `logAlloc` and `logDropTail` are the actions from
`DropDead` to `AllocTake`; second chance appears in its three forms (in place,
by copy, refused). The writer's program counter is `w.pc`, and `w.ret` and
`w.loop` say where `indexRemove` and `logDropTail` return to.

**Expiry** - the lifetime of one key: the clamped TTL, the expiry word of the
arena that wraps, the signed comparison, the remaining time that get hands to
L1, the L1 deadline on a clock that does not wrap, and the sweep. Each entry
carries the true time at which it is due to end, which the code does not have.

**L3Read** - reading through to L3 (`getAsync`, `hasAsync`, `#fetchFromL3`,
`#promotionBlock`) in one process beside writers in others. `Start` is
everything up to the adapter's call, `Sample` the moment L3 answers, `Reply` the
stretch after the await: the four checks in the code's order, the drain of the
submissions on the primary, then promotion. A version `l3[k]` counts the
operations that took effect on `k` in L3; an answer carries the version it was
read at, so "older than the removal" is a comparison. The L3 queue is reduced to
its lanes (what is on the wire, what waits, what a clear swallowed), the arena
and L1 to what is held and from where, and `gen`, `settled` are the clear
generation. `floor` is the oldest version a process may be handed, `Unlanded`
while a removal of its own has not reached L3. `OtherWrites` is the traffic of other keys that laps a reader.

**Outbox** - a worker on the IPC transport. `Flush` is `flush` whole: keep
batching, shed, or send; `wire` is every batch the worker has sent, in their
order: `due` says that it may still arrive, `cb` that its callback is still to
come, and `window` (`#inFlightBytes`) is the bytes of those whose callback is. A
batch is delivered, fails late (`SendFailed`), or dies with the channel.
`ApplyOps` is the loop of `applyBatch` over the entries of one batch. `SettleClearGen` and
`ChaseTimer` are the settle that must not stay behind in an outbox.
The primary keeps generations per attachment; `Slot` gives a worker and its
successor the same slot number, which is what `Attachment` must tell apart.

**DrainOrder** - the orders in which one drain may meet the submission rings: ring
after ring, each from its oldest record. FailCap and L3Read apply all that waits
in one step and take its order from here.

**FailCap** - one key whose write L3 refused. `CapAfterFailure` bounds the L1
copy, then the primary re-times the arena (`CapArena`, a compare and a write in
one step) or a worker takes a guard and sends a request; `Set`, `Delete` and
`ClearAll` cancel. `RunCaps` retires guards and `Verdict` decides what a
retired guard has shown, from the arena and the writer ids in the ring. Lives
are small numbers that `Tick` counts down.

**Recovery** - one worker process with several cache handles, and a primary that
stamps its heartbeat, stalls, crashes, closes and is created again: first the
arena, then the rings (`CreateArena`, `CreateRings`), between which a poll may
look. `seg` holds every arena ever created; `named` and `subNamed` are what the
names resolve to; `proc` is the state the handles share (`mapped`, `sub`, `idx`,
`ready`, which is `storeReady`, `degraded`, `timer`) and `inst` a handle's own.
Time is counted in gates of 500 ms. `open` looks at `storeReady` alone, and
`Reopen` is the set of openings the model allows beyond those of a process in
touch with its primary: `"outage"`, a handle opened while the process is degraded,
and `"replaced"`, one opened while the name of the rings stands for other rings
than those the process has its slot in, or than those of the arena it attaches to
(after a restart that the process has not noticed, or between the two steps of a
creation). `late` is a history: the handles opened in the outage that is going on.
Findings 2 and 3 are about these openings.

**MCL3Queue, MCArena, MCOutbox, MCFailCap** - definitions for TLC: hash, slot and
writer id functions, symmetry. The other modules are run as they are.

**CoherenceProofs, RecoveryProofs, L3QueueProofs, FailCapProofs, L3ReadProofs,
ArenaProofs, OutboxProofs** - theorems about the module each is named after.
**WrapProofs** - theorems about SubmitRing and Expiry, which share what they rest
on: a counter that wraps. (Expiry names its specification `LifeSpec`, so that one
module can extend both.)

## Runs

| run | instance | shows |
|---|---|---|
| coherence | 1 worker and the primary, 2 keys, ring of 2, reads of 1, queue of 2, 2 marks, slices of 1, 2 operations, fair | `L1Fresh`, `PrimaryFresh`, `ClearCoversEarlierWrites`, `NoStuckWriteMark`, `WriteMarkReleased` |
| submit_ring | 2 workers, 16 words, records of 5, 6, 8 and (too large) 9 words, 4 pushes, drain budget 2, fair consumer | FIFO refinement (`ImplementsQueue`), `TailMeansApplied`, `EventuallyApplied` |
| l3_queue | 2 keys, one of them with late effects, 3 operations, room for 2 sets, fair | `PerKeyOrder`, `TrueMeansLanded`, `CountersExact`, `EveryPromiseSettles`, `DrainMeansSettled` |
| arena | 3 keys, 4 slots, 10 words, blocks of 3, 4 and (too large) 6 words, sweeps of 3 slots, 5 operations | `LiveIntact`, `IndexSound`, `SweepLeavesNone` |
| arena_read | 2 keys, 2 slots, 11 words, blocks of 3, a reader, 6 operations, fair writer | `HitCurrent`, `QuietReadHits`, `TailAtRecord`, `WriterReturns` |
| expiry | 4-bit clock (`Half` = 8), TTLs 0, 1, 3, 7 and 20 (clamped), a sweep at least every 4 ticks, 40 ticks | `NeverEarly`, `ServedInTime` |
| l3_read | 2 workers and the primary, 1 key, sets at levels 1 and 3, a read at level 1 or a hasAsync, ring of 3, 2 operations, 1 of them a clear | `OwnRemovalHolds`, `ClearHolds`, `PromotionYields`, `L1Tracked`, `OwnWriteKept` |
| outbox | a worker and its successor in the same slot, 1 key, 2 operations, an outbox of 2 bytes and a window of 1, 1 broken channel or death, fair | `NoOrphanMark`, `LiveMarkKept`, `ClearGuarded`, `GenerationSettles`, `ClearReaches` |
| fail_cap | 2 workers with the same writer id and the primary, 2 values, TTLs none and 3, cap 2, ring of 2, 2 operations | `NeverResurrects`, `CapReaches`, `VerdictTrue` |
| recovery | 2 handles opened in touch (`Reopen = {}`), 2 arenas, staleness after 2 gates, 1 fault, fair | `NothingFromBefore`, `SlotOwned`, `OneFate`, `TrustBounded`, `Rejoins` |
| own_delete | violation | see findings |
| stale_claim | violation | see findings |

Each module has a type invariant `TypeOK`, with the ranges of its positions and
counters. It is a conjunct of one property of the module's run: of
`NoStuckWriteMark`, `TailMeansApplied`, `CountersExact`, `IndexSound`,
`NeverEarly`, `L1Tracked`, `NoOrphanMark`, `NeverResurrects` and `OneFate`.

**Bounds.** Every capacity is small enough to be exceeded. An invalidation ring
of 2 laps a reader that is 2 records behind, so two operations do; a submission
ring is full in bytes, so any record in it may make the next one shed; a read
limit below the ring's capacity makes a drain stop short; a slice of one mark
with two of them exercises the leftover of a reconciliation. TLC runs Coherence
with one worker; the theorems cover any number. In the 16-word ring records of 5, 6 and 8 words reach
every remainder the byte layout has: 0 words, 1 and 2 (implicit gap), 3
and more (SKIP), and exactly full. In the 10-word log blocks of 3 and 4 words leave
gaps (1 word, less than a header), pads (2 and 3) and exact fits, and two of the
three keys have the last of the four slots as their home, so clusters wrap. In
`arena_read` the index has two slots and the pressure loop a bound of one
record, so that it saturates and a set is refused. The 11-word log comes round
after three blocks, so a reader may hold a position across a whole lap; the
sequence word has 2 bits, few enough to come back to its value, which only the
published tail can then tell. Its one block size leaves one word of payload, so that
no hit mixes the words of two values rests on the theorem `HitsAreCurrent`, for any
sizes. A 4-bit clock wraps twice in 40 ticks. In
`l3_read` L3 holds the key from the start, so two operations are enough for a
removal, write or clear on each side of a read's start or of its answer, and
`OtherWrites` laps the ring in one of them. In `outbox` a
window of one byte makes every second flush defer and an outbox of two bytes
every second deferral shed. In `recovery` one fault and two arenas give every
single outage, of a process that opens its handles in touch (`Reopen = {}`); a stall that outlasts the staleness bound and ends, a restart
before and after it was noticed. Larger instances that are too slow to keep have
passed as well: Coherence's invariants with 3 operations, L3Queue's with late
effects on both keys, L3Read with 3 operations of one worker and the primary, Recovery's with 2 faults on 2 handles, all of Recovery
with 3 faults and 3 arenas on one handle, and, on the instance of the run, `OneFate`,
`NothingFromBefore` and `TrustBounded` with `Reopen = {"outage", "replaced"}` and
`Rejoins` with `Reopen = {"outage"}`. Each run may
stop once its operations are spent, so deadlock is not checked.

**Fairness.** Coherence: the doorbell and the 500 ms backstop of
`#startMaintenance` keep draining the rings, IPC messages are delivered, a
worker finishes the call it is in, and applications keep reading (a mark is
only released by a drain, which only a read runs). SubmitRing: only the
consumer is fair; workers may stop or die. It models one ring: `SubmitDrain` shares
its budget (4096 records) among the rings and starts at ring 0 on every call
(`binding.cc` 369-380), so that the consumer comes round to each ring is an assumption
about the load, true when the rings before it do not fill every budget. Arena: the primary's event loop
finishes an operation it has begun; readers are not fair. L3Queue: timers fire and microtasks
run; the time budget of a set or delete runs out; a clear, which has no budget,
settles because the adapter answers in the end (or the queue is closed).
Outbox: timers and `setImmediate` fire, the channel delivers or fails what it was
given, a dead worker's exit is seen by `install`, and L3 applies a clear in the
end, because a clear is retried for ever. Recovery: time passes, a primary that
is not stalled stamps, the poll fires, and handles are read now and then (a
worker notices the loss of its primary only in an operation). L3Read and FailCap
have no liveness property and no fairness.

## Findings

1. *own_delete.* A mark is released by the first record of its key at or past
   its position, whoever's operation that record stands for
   (`turbokv.js` 500, 1760-1770). set(k,A); delete(k): when the primary has
   applied A but not yet the delete, A's record releases the delete's mark and
   get(k) returns A from the arena, until the delete's own record arrives.
2. *stale_claim.* `submitOpen` maps the segment the name stands for now, while
   `submitClaim` hands back the slot number it has claimed in the previous one
   (`binding.cc` 296). The process then pushes into a slot of the new segment that it
   does not own; another worker may claim it, and the ring has two producers.
   The trace: the primary crashes and falls silent; c1 is opened, and its first get
   degrades the process; c2 is opened, attaches the dead primary's arena by name and
   claims a slot in its rings; the primary is created again, arena and rings; the poll
   recovers, and c1 uses the ring with the slot c2 claimed in the old segment.
   No outage is needed: with `Reopen = {"replaced"}` a cache opened in a worker after
   a restart and before the worker has noticed it has the same effect, and one opened
   between the creation of an arena and that of its rings claims a slot in the old rings.
3. *stale_claim*, the same trace. `open` (`turbokv.js` 905-944) attaches in an outage,
   since `storeReady` is FALSE, and `#degrade`, which has run, returns at its first
   line (1306). So the new handle is not dead although the process is degraded, the
   dead primary's arena is mapped again and a slot in its rings is taken: what
   `#degrade` let go of, and what DESIGN.md 1765 (decision 41) calls mandatory to let
   go of. The handle serves the frozen arena and submits to rings nobody drains, and no
   check of its own ends that; the next poll does, within a second, by detaching
   (and clears `storeReady`, so that the handle serves its L1 from then on). Each further
   opening in the same outage does it again. `OneFate`, `NothingFromBefore` and
   `TrustBounded` are stated for all handles but these (`late`); TLC finds each of the
   three violated with `Reopen = {"outage"}` when they are not excepted.

   `SlotOwned` holds with `Reopen = {}` (recovery, and proved). The other three hold for
   every `Reopen` (proved).

Noticed while modelling, and not runs of their own. Each was a trace of TLC or
follows from one line of the code.

In the worker and the primary:

- A worker's clearAll goes by IPC, its later set by the ring; the set may be
  applied first and then be removed by the clear. `applyBatch`'s comment
  (`turbokv.js` 4109-4114) says draining the rings there keeps one worker's
  operations in order. It does for operations before the clear
  (`ClearCoversEarlierWrites`, proved), not for those after it. DESIGN.md 1840-1849
  (item 7a) accepts this: "a write issued after the clear can be ordered before it in
  the arena".
- Closing the last handle of a worker that used the ring sets `submitReady` to
  null, and caches opened later run on IPC without a word.

In the L3 path:

- A call given up at its deadline cannot be taken back (`queue.js` 79). When it
  takes effect later, it may do so after the next operation of its key, or after
  a clear, though `queue.js` 4 calls the order per key a correctness
  requirement. `PerKeyOrder` and `TrueMeansLanded` allow for exactly that.
- A process other than the deleter may promote the value L3 held before the
  delete landed there, once the deleter's record has been applied before the
  read began. The comment at `turbokv.js` 3390-3411 describes a narrower case.
  `OwnRemovalHolds` is about the deleter.
- A getAsync after the caller's own acknowledged write may join an older read of
  the key in flight. `hasAsync` has no check after its await. `clearLocal` drops
  marks although the arena is untouched.
- While a worker's clear is settled locally and its `+`, `c` and `-` have not
  been applied, another process's read in flight hands out what L3 held before.
  DESIGN.md 1850-1853 (item 7a) says that "no process serves a value the clear
  removed *through L3*"; `ClearHolds` says it of clears that have emptied the arena.

In the IPC transport:

- A set with `minLevel: 3` takes a write mark but sends a `d`, whose loss does
  not release that mark (`NoOrphanMark` fails with 3 in `SetLevels`).
- A `process.send` that throws drops `+`, `c` and `-` with the batch
  (`GenerationSettles`, `ClearReaches` and `ClearGuarded` fail with `Unsendable` TRUE).
- No callback flushes an outbox that was deferred; the next operation does.

In the failure caps: a get that refills L1 shortly before the guard's deadline
gives the copy the arena's longer life (`turbokv.js` 1848), beyond what the
comment at 2822-2830 promises; a late send error may be charged to a newer guard.

In recovery: DESIGN.md 340, README.md 157 and the comment at `turbokv.js` 1327 say
that a heartbeat must advance between two polls, but `#lastHb` starts at -1, so
that the first poll accepts a recent age alone. An arena that was never stamped
is never left, so a worker must attach to a primary that has finished starting; the
model's `open` does so unless `Reopen` has `"replaced"`. `native.attach` closes
the mapping there is before it opens the next (`store.h` 281-285), and `#tryRecover`
returns when there is none of the name (`turbokv.js` 1326) without resetting
`storeReady`. A handle opened in an outage has set it; if the primary then closes, and
the handles are closed before the next one is created, `storeReady` stays TRUE with
nothing mapped, and a cache opened later shares that nothing and never attaches (2
faults, 3 arenas, `"outage"`; unreachable with `Reopen = {}`). `Rejoins` is therefore
a property of `Reopen = {}`.

In the arena and in expiry:

- `storeClear` zeroes the index, then publishes the tail. After
  set(k,A); set(k,B) a reader that has matched k's slot may load `off` between
  the two: it is 0, the tail is 0 too as long as nothing was evicted, and the
  record at position 0 is the overwritten A, whole and with an even sequence
  word. It is returned. Without clears a hit is always current (arena_read). No
  property catches this race: `Clears` is empty in arena_read and in `HitsAreCurrent`.

- The load ceiling can be passed. The pressure loop of `storeSet` stops after
  2 * indexSlots + 64 records (`store_ops.h` 284), dead ones included, so
  enough deleted records at the tail let an insert through with `live` at
  `maxLive`. The index does not corrupt: at worst a set is refused a slot
  (`TailAtRecord` holds there).
- Two keys with the same 64-bit hash: `storeGet` gives up at the first key that
  differs (`store_ops.h` 455), `findSlot` does not. The second key is stored
  and never readable. The runs give every key a hash of its own.
- A TTL that ends on a multiple of 2^32 ms after the arena's creation is stored
  as 0, no expiry (`binding.cc` 623); `ServedInTime` excludes it.
- With `maintenance: false` nothing sweeps, and an expired entry nobody removes
  reads as live again 2^31 ms after its end. In the model this would be a
  `SweepEvery` above `Half`, which `ExpiryAssumption` excludes.

## Proofs

Every proof is an induction over the steps, with one step per action. TLC checked
each inductive invariant on the instance of the module's run before it was proved.
The bounds `MaxOps`, `MaxPush`, `MaxTime` and the like are constants too, so the
theorems hold for every value of them.

**CoherenceProofs**, from `ConstantsAssumption` alone (positive capacities; the
markers differ from keys and workers), for any sets of workers and keys, finite
or not.

- `StateTypeCorrect`: types and ranges of positions; `DrainShape` and
  `RingReadRange` say what a drain may do to a cursor and an L1 entry.
- `WorkersFresh`: `L1Fresh` is inductive together with the types and
  `ArenaIsLast` (the arena holds the last value applied or nothing), which is
  needed because `Fill` copies the arena. The argument: an entry is fresh, or
  own and unapplied, or doomed; whatever makes a value superseded owes a record,
  whatever pays it leaves the record ahead of every cursor, and a drain that
  passes the record drops the entry or finds it lapped. An entry of the worker's
  own carries the position read before the push, and its record is at or past it.
- `PrimaryNeverStale`: during a drain the primary's L1 may hold superseded
  values; `PrimaryInv` says that each has a record between `#primaryCursor` and
  the head, or one owed, so `#primaryInvalidate` at the end of the drain meets it.
- `ClearIsNotUndone`: once the clearing worker's ring has been seen empty
  (`BatchInv`), everything in it was pushed after the clearAll.
- `NoStuckMarks`: `MarkInv` says of every write mark that its record is one the
  worker pushed, of its key, and that the place noted with it is one the ring has
  had (`MarkNames`), and that the write has still to be applied, the mark to be
  judged, or the record to be met (`MarkAlive`). When the primary applies the
  write it owes the ring a record of that key, which lands at the head and so past
  the mark; a drain that reads it releases the mark, and one that was lapped
  counts every mark it leaves, so that `writeOwed` is positive while there is one.
  What keeps some of the marks is `Kept`, a recursive function over the places of
  the sequence; `KeptPart` says that it takes each place it keeps once, from which
  the bound and the one mark to a key follow (`GoodMarks`).

**WrapProofs, SubmitRing**: for every capacity, header size, record length, drain budget
and set of workers: `TailMeansAppliedHolds` and `RingImplementsQueue`, the step by
step refinement of SubmitQueue. Neither is inductive: that the consumer reads back
the record that was pushed depends on every word between tail and head. `Layout`
says that the published records lie one behind the other, each in one piece and at
the place `submitPush` computes; `Intact` that the words of a record, and the SKIP
in front of one, are still there until the tail has passed them; `PushOK` what the
half-written record is so far, and that the room check made for it still holds
(the tail only grows); `ConsumerOK` that the consumer stands before the first
record it has not applied or before the padding in front of it. `SoleProducer` is
where crashes come in: only the live owner is in the middle of a push, and a
claim waiting for its compare-and-swap expects an owner that cannot come back.
That two records never share a word needs lemmas on `%`: positions less than a
capacity apart have different offsets.

**RecoveryProofs**, for any number of handles, arenas and faults and any staleness
bound: `OneFateHolds`, `SlotOwnedHolds`, `NothingFromBeforeHolds`,
`TrustBoundedHolds`. Three of them hold for every `Reopen`, that is whenever handles
are opened; they except the handles opened in the outage that is going on (`late`),
and only until it ends: the recovery resets them as it does the others.
`SlotOwnedHolds` has the hypothesis `Reopen = {}`: finding 2 is a behaviour with
`"outage"`, and there is one with `"replaced"` alone. `SegmentsOK` is the addition that matters: an arena that is named while
its rings are not has no heartbeat, so a poll between the two does not take it for
a live primary. `SlotOK`, part of the invariant only where `Reopen` is empty, ties
index, readiness and mapping together; `HandlesOK` says that a closed handle holds
nothing and that an open one has a store unless the process is degraded, and `GateOK` bounds what the heartbeat can have
aged while the 500 ms gate keeps a handle from looking.

**WrapProofs, Expiry**: for a clock of any width and any TTLs: `NeverEarlyHolds` and
`ServedInTimeHolds`. `ExpiryAssumption` asks that a full pass of the sweep, and a
pause of the event loop inside one get, take no longer than half the clock's range,
24.8 days in the code. The words compared are remainders, and a comparison of
remainders is right exactly when end and clock are less than half a range apart:
`WordOK` says so ahead of the clock (the clamp), `SweptOK` behind it in the arena
(what the last sweep left had not ended), `GetOK` for an entry a get has in hand,
and `L1OK` that an L1 deadline is at most a pause after the true end.

**L3QueueProofs**, for any set of keys, number of operations and byte bound:
`PerKeyOrderHolds`, `TrueMeansLandedHolds`, `DrainMeansSettledHolds`. `Barrier`
says that a clear past its wait is alone on the wire, `ClearOrder` that what waits
on a key is younger than every clear held and what is on the wire older,
`PastOrder` that nothing still to be sent is older than what has taken effect, and
`Accounted` that an unsettled promise is in some chain. The clear waits by asking
a counter, so `CountsOK` equates the counters with cardinalities of sets of chains.
`CountersAreExact` adds the two that are sums, `bytes` and `count`: `BytesOK` says
that each equals the total over the chains of what the chain holds (`WeightOf`,
`LoadOf`), and every action changes one chain, or, when a clear swallows the
waiting operations, each chain's share at once (`FinishBytes`, `PushClearBytes`).
A total over a set is handled by lemmas on the library's fold, proved by taking a
least counterexample. This theorem alone assumes `IsFiniteSet(Keys)`: over
infinitely many chains the sum means nothing.

**FailCapProofs**, for any finite set of workers, any values, lifetimes, ring size
and writer ids: `NeverResurrectsHolds`, `CapReachesHolds`, `VerdictTrueHolds`.
`Sound` strengthens the first: the arena, the ring and the newest value published
fit together (the entry is the newest value or gone, lives no longer than its
writer asked, and its position is in the ring). It is stated of a state record so
that one lemma serves every way the primary changes the three, a drain followed
by a cap or a clear included. `Positions` keeps cursors, guards and their
deadlines in range. Workers are finite because a drain meets their rings in some
order (DrainOrder).

**L3ReadProofs**, for any keys, any finite set of workers, any ring size and any
number of operations, clears and reads: `OwnRemovals`, `ClearsHold`,
`PromotionsYield`, `CopiesTracked` and, an action property, `OwnWritesKept`. All
are read off one invariant about the reads in flight. `GensOK` equates
`gen - settled` with the number of processes whose clear is open in the arena
header, along a channel that is a piece of `+ c - + c -`; so a read that finds the
generation it began with knows that no clear is under way (`ReadOK`). `OwedOK`: a
removal that L3 has not seen is the newest operation of its lane. `Guarded`: a
read that the process's own removal overtook finds the removal owed, marked, noted
past the read's mark, or a clear that came since; the case that needs the drain is
a mark released by a record, whose position is past the cursor and so past the
read's mark. `Noticed` and `CopyOK`: a write accepted since a read began is in a
submission ring or past the read's mark, so the primary, which drains before it
walks the ring, and the worker's next drain both meet it. `RingStep` collects what
any step may do to the ring; a flush comes only with a generation that is open or
new. The worker's marks for its writes are left out: they only keep a promotion
away.

**ArenaProofs**, for any number of index slots, any data region and header, any
block sizes, budgets and sweep slices and any assignment of hashes to keys:
`LiveRecords` (`LiveIntact`) and `TailStandsOnABlock` (`TailAtRecord`). Neither is
inductive: where the next block starts is known only from the size word of the
one before, which must still be there. The invariant says that there is a set S of
positions, the block starts, such that every block of the log, gap, pad or record,
ends where another member of S begins (`Chain`, up to `Top`: the head, or the block
a set has allocated and not yet written), and that the log is at most one lap long
(`Laid`). So a word written at the head falls on no block of S (`Apart`, from two
lemmas on remainders), and a tail that steps over its block lands on the next.
`Indexed` says that a slot in use points at a member of S that is a whole record of
its hash whose slot word names that slot, with the two exceptions the backward
shift needs (`Loose`); `AtTail` what the eviction, or the copy of the tail record to
the head, has done so far, and that no slot points at the tail when it is passed;
`AtHead` that the record a set has written is whole before `off` and `hash` publish
it; `Staged` where the writer is inside `indexRemove` and what it goes back to.
S is a bound variable of the invariant (`IInv`), and each action gives the next one:
S with the new end, or without the old tail.

`HitsAreCurrent` (`HitCurrent`) is about the worker that reads this log one load at a
time, without a lock. What the writer writes falls on no block between tail and `Top`
(`MemoryStep`), so a record the tail has not passed stays as it was, slot word apart
(`HeldStays`). `ReadInv` therefore says what the reader has under the condition
`tail <= r.pos`: its position is a record's, of a version the index has held since
the read began if it is of its key (`Right`), and the words it has copied are that
record's (`Copied`). It also covers the position a reader at a slot has not loaded
yet, which the writer may change to that of the entry the shift moves there, to the
copy at the head, or to that of a record whose hash is not yet in the slot
(`OffStep`). Where the condition fails the reader may hold anybody's words, and
`CheckTail` is what refuses them. The argument does not use the sequence word: with
loads in program order, as modelled, the published tail alone decides. The theorem
has the hypothesis `Clears = {}`, as the run has: with clears the property is false
(see "Noticed while modelling").

`IndexIsSound` (`IndexSound`) adds the index as a hash table and what is counted of it.
`Mapped` is about the entries (`Counted`: a slot that `indexRemove` is emptying holds
none): no probe for an entry meets a free slot before it, but for the hole of a shift
in progress (`Paths`); no two have one key (`OneEach`), hence a set that has unlinked
the old entry finds none of its key (`NewKey`) and takes the first free slot on its
path (`NewPath`). The delicate step is `RemoveEmpty`: `MoverSpan` says that every slot
between the hole and the one the search for a mover ends at holds an entry that must
stay, whose path (`StayArc`) does not cross the hole; so either no path crosses it, or
the one that moves in closes it. `Counts` equates `live` and `liveBytes` with the size
of `Counted` and the sum of its sizes, one entry more between a removal and its
`Uncount`; sums over a set are handled by lemmas on the library's fold (`FoldTakes`,
`FoldSame`), each proved by taking a least counterexample. That `liveBytes` stays within
the region is not arithmetic on the counter alone: when the tail drops a dead block,
the entries must fit in what is left, because they are distinct blocks of the chain
beyond the new tail (`Packed`). `StepMaps` sorts the writer's actions into those that
move no entry, begin a removal, choose a slot, shift, publish and clear, and each kind
has its lemma.

`SweepLeavesNoneBehind` (`SweepLeavesNone`) is about a scan of the index in slot order
whose removals shift entries back under it, round the end of the index too. The
slot that was emptied is looked at again, but the hole of the shift moves on and may
come to slots the scan has left behind. The invariant (`SweepInv`) says that there
is a slot c which no probe for an entry crosses (`Cut`): the shift stays on one
side of it, so that in the order that begins after c (`Lin`) the hole only moves away from
the slot under the scan, and what moves into a slot that was already met comes from another
one that was. A cut exists at any fill: a free slot is one (`FreeCut`), and in a
full index the slot last published in is, for its entry stands at the end of
every path (`CutPublished`); removals and shifts keep it (`CutKept`).

`QuietReadsHit` (`QuietReadHits`) follows a reader the writer leaves alone. `QuietInv`
says, as long as `quiet` holds: the slots its probe has passed hold other hashes
(`Unmet`), and once it stands at a slot the entry there is the key's (`AtKey`), so
what `IndexIsSound` says of the paths tells that a probe that meets a free slot has
missed nothing, and what `LiveRecords` says of the record that no check refuses the
copy. It has the hypothesis `OwnHash`, that no two keys share their 64-bit hash: `storeGet`
ends at the first entry of the hash whose key differs (`store_ops.h` 407 onwards),
while `storeHas` and the writer go on to the next slot.

**OutboxProofs**, for any finite set of workers, any slots, keys, operations and
faults and any bounds of outbox and window: `NoOrphans` (`NoOrphanMark`),
`NewestKeepsItsMark` (`LiveMarkKept`) and `ClearsAreGuarded` (`ClearGuarded`). What
a worker has on its way is seen as lots: one for every batch it has sent, in their
order, and the outbox as the last; those that may still arrive are `Due`. `Fit` is
what holds of one worker: no mark, entry or batch is ahead of the sequence (`Sane`);
lots and the operations in them are in order, and a mark with an entry's sequence
has its position too (`Ordered`); the newest operation on a key has its mark, or the
drain has passed what releases it (`Live`). A release by a lost batch takes
the marks of its own operations up to the sequence it was sent with, and by
`Ordered` no later lot's entry has one of those. A worker that has ended is `Dead`:
nothing of its own is left but batches that may still arrive. `Windowed` equates
`window` with the bytes that await a callback, so that it opens again after every
kind of loss.

`NoOrphans` adds `Anchored`: a mark's operation, of the mark's own side, is in a lot
still due, or a record past the mark is ahead of the reader. A delivery takes the
first case to the second, which needs that `applyBatch` publishes a record
for every keyed entry (`Recorded`, `Made`). `ClearsAreGuarded` adds `Balanced`
(`gen - settled` is what the attachments are owed plus the primary's own clear; so
no '-' can close another's generation) and `Fenced`: the '-' on their way and the
clears L3 has yet to apply are no more than the '+' on their way and the generations
opened, and the clears applied and on their way no more than those issued
(`done` is `applied`). `Covered`, that a 'c' comes with or after every '+' on its
way, tells that once all clears have reached the arena no '+' is
outstanding, so their generations are open. The steps are classed by what they do to
lots and marks (`Calm`, `Sent`, `Drops`, `Delivered`, `Adds`, `Writes`, `Wipes`), and
each class keeps what holds of a worker.

Two of the three have a hypothesis on the bounds, which the run satisfies: `NoOrphans`
that no set has `minLevel` 3, `ClearsAreGuarded` that no value makes `process.send`
throw. Without them the properties are false (the first two points on the IPC
transport under "Noticed while modelling"). The inductive invariant, and so
`NewestKeepsItsMark`, is proved with neither.

**What stays with TLC.** All liveness (`WriteMarkReleased`, `EventuallyApplied`,
`EveryPromiseSettles`, `WriterReturns`, `GenerationSettles`, `ClearReaches`,
`Rejoins`): the prover has no rule for fairness. Every invariant and every action
property of the passing runs is proved, under the hypotheses named above.

## Not modelled

Statistics (but for the counters a property is about), error texts and logging.
Misbehaving workers that write nonsense into their ring. `now` options that
throw in the L3 queue. Whether timers hold the process open. In the arena:
`storeHas` and `ScanKeys`, which read by the same rules, compression of values,
and the geometry checks of create and attach. The slots of the invalidation ring,
whose torn reads the second load of the head catches. Several cache instances in
the primary process (`#dropOthers`); several handles in a worker appear in
Recovery only. The lifetime L3 gives a value (`#l3Ttl`). The sharing of one read
by a herd. Components with status `not_modelled` in `PROJECT.json` are stateless
conversions, operating system calls or vendored code. Benchmarks, load tests and
build scripts have no state of the system's.

Some behaviour that looks like a flaw is decided and documented in DESIGN.md, and
the properties leave room for it: a recovered worker drops all its removal
marks; a write on the IPC transport may be promoted over for one hop; a cap
cancelled by a write that is then shed is gone; settling for a worker that was
cut off may let one of its values return; cap counters may count too few.

## Plan

Done: every component with a protocol is modelled, and all nine protocol modules
have theorems. Next: the invalidation ring slot by slot, refining the lap rule that
Coherence uses.
