------------------------------ MODULE L3Read ------------------------------
(***************************************************************************)
(* The read-through to L3.  getAsync misses locally, asks the adapter, and *)
(* when the answer comes back decides what may be done with it: hand it to *)
(* the caller, place it in L1, and, on the primary only, in the arena.     *)
(* Everything can change while the adapter is being asked: the key may be  *)
(* written or deleted here or elsewhere, the cache may be cleared, and an  *)
(* operation this process owes L3 may be queued, on the wire, landed and   *)
(* not acknowledged, or acknowledged and not yet applied to the arena.     *)
(*                                                                         *)
(* Which value a tier holds does not matter here, only whether it holds    *)
(* one and how old it is: `ver` counts the changes of a key in L3, and an  *)
(* answer carries the version it was read at.                              *)
(* Workers are on the 'shm' transport.  Submission rings are never full    *)
(* here and are drained to the end, marks are reconciled in one slice, and *)
(* no process is degraded: those are Coherence, SubmitRing and Recovery.   *)
(* The primary's own L1 is left out: every step that changes the arena     *)
(* drops its copy in the same synchronous call.                            *)
(***************************************************************************)
EXTENDS Integers, Sequences, FiniteSets, SequencesExt, DrainOrder

CONSTANTS
  Primary, Workers, Keys,
  FlushAll,   \* the ring record of a clear
  OtherKey,   \* the ring record of any other key
  RingCap,    \* capacity of the invalidation ring, in records
  SetLevels, ReadLevels,   \* bound: the minLevels tried; 0 is hasAsync
  MaxOps,     \* bound: sets, deletes and clears of all processes together
  MaxClears,  \* bound: clears among them
  MaxReads    \* bound: reads that ask L3

Procs == {Primary} \cup Workers

ASSUME L3ReadAssumption ==
  /\ Primary \notin Workers /\ {FlushAll, OtherKey} \cap Keys = {} /\ FlushAll # OtherKey
  /\ IsFiniteSet(Workers)
  /\ SetLevels \subseteq 1 .. 3 /\ ReadLevels \subseteq 0 .. 3
  /\ RingCap \in Nat \ {0}
  /\ MaxOps \in Nat /\ MaxClears \in Nat /\ MaxReads \in Nat

VARIABLES
  l3,        \* the remote store: key -> [held, ver]
  arena,     \* L2: key -> [held, ver]; ver is None for a value written here
  ring,      \* invalidation records: keys and FlushAll
  gen, settled,   \* l3ClearGen, l3ClearSettled of the arena header
  sub,       \* worker -> every record it has submitted
  taken,     \* worker -> how many of them the primary has applied
  chan,      \* worker -> "+", "c", "-" on their way to applyBatch
  l1,        \* worker -> key -> [held, ownAt, since]
  cursor,    \* worker -> its position in the invalidation ring
  pendingDel,     \* worker -> key -> ring position of the mark, or None
  pendingWrite,   \* worker -> key -> [at, sub], at is None without a mark
  deletedAt,      \* process -> key -> ring position, or None
  lane,      \* process -> key -> operations owed to L3, oldest first
  clr,       \* process -> its L3 clear: "none", "queued", "landed"
  rd,        \* process -> the read it has in flight
  nops, nclears, nreads,   \* counted against the bounds
  ans,       \* history: what the last step handed to a caller
  lastOp,    \* history: key -> the newest set or delete accepted for it
  floor,     \* history: process -> key -> oldest version it may be handed
  wiped,     \* history: the processes whose last clear has emptied the arena
  landedAt   \* history: process -> key -> version its last clear produced

localVars == <<l1, cursor, pendingDel, pendingWrite, deletedAt>>
sharedVars == <<arena, ring, gen, settled, taken>>
histVars == <<lastOp, floor, wiped, landedAt>>
vars == <<l3, localVars, sharedVars, sub, chan, lane, clr, rd, nops, nclears, nreads,
          ans, histVars>>

-----------------------------------------------------------------------------
None == -1
Unlanded == -2     \* a floor above every version
NoEntry == [held |-> FALSE, ownAt |-> None, since |-> 0]
NoWrite == [at |-> None, sub |-> 0]
NoRead == [st |-> "idle", key |-> FlushAll, level |-> 0, mark |-> 0,
           clearMark |-> 0, held |-> FALSE, ver |-> 0, start |-> 0]
NoAns == [by |-> FlushAll, key |-> FlushAll, ver |-> None, start |-> 0, put |-> FALSE]
Absent == [held |-> FALSE, ver |-> None]
RingHead == Len(ring)
Lapped(c) == RingHead - c >= RingCap
RecordAfter(x, c) == \E i \in (c + 1) .. RingHead : ring[i] = x
NewOp == nops < MaxOps /\ nops' = nops + 1 /\ ans' = NoAns

Pending(w) == SubSeq(sub[w], taken[w] + 1, Len(sub[w]))

-----------------------------------------------------------------------------
(* The queue to L3, per key: what is on the wire and what waits behind it. *)
(* `pre` marks an operation on the wire when a clear was pushed: the clear *)
(* waits for those, later operations wait for the clear.                   *)

Op(kind) == [kind |-> kind, landed |-> FALSE, pre |-> FALSE]

\* #queueSet and delete's push: a waiting operation gives way to the newest
Enqueue(p, k, op) ==
  lane' = [lane EXCEPT ![p][k] = IF @ = <<>> THEN <<op>> ELSE <<Head(@), op>>]

\* outstandingKind: the newest operation this process still owes L3 for k
Owed(p, k) == IF lane[p][k] = <<>> THEN "none" ELSE Last(lane[p][k]).kind

ClearInFlight(p) == clr[p] # "none"          \* l3ClearsInFlight > 0
SharedClearsInFlight == gen - settled        \* native.l3ClearsInFlight

OnWire(p, k) == lane[p][k] # <<>> /\ (clr[p] = "none" \/ Head(lane[p][k]).pre)

\* the adapter applies the operation on the wire; the answer is still to come
Land(p, k) ==
  /\ OnWire(p, k) /\ ~Head(lane[p][k]).landed
  /\ LET op == Head(lane[p][k]) IN
     /\ l3' = [l3 EXCEPT ![k] =
          [held |-> op.kind = "set", ver |-> @.ver + 1]]
     /\ floor' = [floor EXCEPT ![p][k] =
          IF op.kind = "delete" /\ @ = Unlanded /\ Len(lane[p][k]) = 1
            THEN l3[k].ver + 1 ELSE @]
  /\ lane' = [lane EXCEPT ![p][k][1].landed = TRUE]
  /\ ans' = NoAns
  /\ UNCHANGED <<localVars, sharedVars, sub, chan, clr, rd, nops, nclears, nreads,
                 lastOp, wiped, landedAt>>

\* the answer, or the end of the retries: the queue lets the operation go
Released(p, k) ==
  /\ OnWire(p, k)
  /\ lane' = [lane EXCEPT ![p][k] = Tail(@)]
  /\ floor' = [floor EXCEPT ![p][k] =
        IF ~Head(lane[p][k]).landed /\ Len(lane[p][k]) = 1 THEN 0 ELSE @]
  /\ ans' = NoAns
  /\ UNCHANGED <<l3, localVars, sharedVars, sub, chan, clr, rd, nops, nclears, nreads,
                 lastOp, wiped, landedAt>>

ClearLand(p) ==
  /\ clr[p] = "queued"
  /\ \A k \in Keys : lane[p][k] # <<>> => ~Head(lane[p][k]).pre
  /\ l3' = [k \in Keys |-> [held |-> FALSE, ver |-> l3[k].ver + 1]]
  /\ landedAt' = [landedAt EXCEPT ![p] = [k \in Keys |-> l3[k].ver + 1]]
  /\ clr' = [clr EXCEPT ![p] = "landed"]
  /\ ans' = NoAns
  /\ UNCHANGED <<localVars, sharedVars, sub, chan, lane, rd, nops, nclears, nreads,
                 lastOp, floor, wiped>>

\* clearAll's continuation: the counter, then #settleClearGen
ClearSettle(p) ==
  /\ clr[p] = "landed"
  /\ clr' = [clr EXCEPT ![p] = "none"]
  /\ IF p = Primary
       THEN settled' = settled + 1 /\ UNCHANGED chan
       ELSE chan' = [chan EXCEPT ![p] = Append(@, "-")] /\ UNCHANGED settled
  /\ ans' = NoAns
  /\ UNCHANGED <<l3, localVars, arena, ring, gen, taken, sub, lane, rd, nops, nclears,
                 nreads, histVars>>

-----------------------------------------------------------------------------
(* Writes.  A worker's go through its submission ring, the primary's to    *)
(* the arena; both are queued for L3.                                      *)

Submit(w, kind, k) ==
  sub' = [sub EXCEPT ![w] = Append(@, [kind |-> kind, key |-> k])]

Written(k, held) ==
  /\ arena' = [arena EXCEPT ![k] = [held |-> held, ver |-> None]]
  /\ ring' = Append(ring, k)

Set(p, k, level) ==
  /\ NewOp
  /\ Enqueue(p, k, Op("set"))
  /\ lastOp' = [lastOp EXCEPT ![k] = nops']
  /\ floor' = [floor EXCEPT ![p][k] = 0]
  /\ IF p = Primary
       THEN /\ Written(k, level < 3)
            /\ UNCHANGED <<l1, sub, pendingDel, pendingWrite>>
       ELSE /\ l1' = [l1 EXCEPT ![p][k] =
                 IF level > 1 THEN NoEntry
                 ELSE [held |-> TRUE, since |-> nops', ownAt |-> RingHead]]
            /\ Submit(p, IF level = 3 THEN "del" ELSE "set", k)
            /\ pendingDel' = [pendingDel EXCEPT ![p][k] = None]
            /\ pendingWrite' = [pendingWrite EXCEPT ![p][k] =
                 IF level = 1 THEN NoWrite
                 ELSE [at |-> RingHead, sub |-> Len(sub[p]) + 1]]
            /\ UNCHANGED <<arena, ring>>
  /\ UNCHANGED <<l3, gen, settled, taken, chan, cursor, deletedAt, clr, rd,
                 nclears, nreads, wiped, landedAt>>

\* mutant: the primary does not remember where its removal landed
NoteOwnDelete_forgets(p, k) == deletedAt' = deletedAt

\* #noteDeleted from the primary's delete; a worker notes it when it drains
NoteOwnDelete(p, k) ==
  deletedAt' = IF p = Primary THEN [deletedAt EXCEPT ![p][k] = RingHead + 1]
                              ELSE deletedAt

Delete(p, k) ==
  /\ NewOp
  /\ Enqueue(p, k, Op("delete"))
  /\ lastOp' = [lastOp EXCEPT ![k] = nops']
  /\ floor' = [floor EXCEPT ![p][k] = Unlanded]
  /\ NoteOwnDelete(p, k)
  /\ IF p = Primary
       THEN Written(k, FALSE) /\ UNCHANGED <<l1, sub, pendingDel>>
       ELSE /\ l1' = [l1 EXCEPT ![p][k] = NoEntry]
            /\ Submit(p, "del", k)
            /\ pendingDel' = [pendingDel EXCEPT ![p][k] = RingHead]
            /\ UNCHANGED <<arena, ring>>
  /\ UNCHANGED <<l3, gen, settled, taken, chan, cursor, pendingWrite, clr, rd,
                 nclears, nreads, wiped, landedAt>>

\* the primary writes so many other keys in one go that the ring is lapped
OtherWrites ==
  /\ NewOp
  /\ ring' = ring \o [i \in 1 .. RingCap |-> OtherKey]
  /\ UNCHANGED <<l3, localVars, arena, gen, settled, taken, sub, chan, lane, clr,
                 rd, nclears, nreads, histVars>>

Wiped == [k \in Keys |-> Absent]

\* clearAll with an adapter: clearLocal, the counter, the generation, the
\* queue (which drops what waits), then the arena or the cluster channel
ClearAll(p) ==
  /\ clr[p] = "none" /\ nclears < MaxClears
  /\ NewOp /\ nclears' = nclears + 1
  /\ deletedAt' = [deletedAt EXCEPT ![p] = [k \in Keys |-> None]]
  /\ floor' = [floor EXCEPT ![p] = [k \in Keys |-> 0]]
  /\ clr' = [clr EXCEPT ![p] = "queued"]
  /\ lane' = [lane EXCEPT ![p] = [k \in Keys |->
       IF @[k] = <<>> THEN <<>> ELSE <<[Head(@[k]) EXCEPT !.pre = TRUE]>>]]
  /\ IF p = Primary
       THEN /\ gen' = gen + 1 /\ arena' = Wiped /\ ring' = Append(ring, FlushAll)
            /\ wiped' = wiped \cup {p}
            /\ UNCHANGED <<chan, l1, pendingDel, pendingWrite>>
       ELSE /\ l1' = [l1 EXCEPT ![p] = [k \in Keys |-> NoEntry]]
            /\ chan' = [chan EXCEPT ![p] = @ \o <<"+", "c">>]
            /\ pendingDel' = [pendingDel EXCEPT ![p] = [k \in Keys |-> None]]
            /\ pendingWrite' = [pendingWrite EXCEPT ![p] = [k \in Keys |-> NoWrite]]
            /\ wiped' = wiped \ {p}
            /\ UNCHANGED <<gen, arena, ring>>
  /\ UNCHANGED <<l3, settled, taken, sub, cursor, rd, nreads, lastOp, landedAt>>

-----------------------------------------------------------------------------
(* The primary applies what workers sent.                                  *)

\* every submitted record, ring after ring
Batches == RingAfterRing([w \in Workers |-> Pending(w)])

ArenaAfter(s) ==
  [k \in Keys |->
    LET mine == {i \in DOMAIN s : s[i].key = k}
    IN  IF mine = {} THEN arena[k]
        ELSE [held |-> s[Max(mine)].kind = "set", ver |-> None]]

RingAfter(s) == ring \o [i \in DOMAIN s |-> s[i].key]
TakenAll == [w \in Workers |-> Len(sub[w])]

DrainSubmissions ==
  /\ \E w \in Workers : Pending(w) # <<>>
  /\ \E s \in Batches : arena' = ArenaAfter(s) /\ ring' = RingAfter(s)
  /\ taken' = TakenAll
  /\ ans' = NoAns
  /\ UNCHANGED <<l3, localVars, gen, settled, sub, chan, lane, clr, rd, nops,
                 nclears, nreads, histVars>>

\* applyBatch for one operation of a worker's batch
ApplyBatch(w) ==
  /\ chan[w] # <<>>
  /\ \E s \in Batches :
       IF Head(chan[w]) = "c"
         THEN arena' = Wiped /\ ring' = Append(RingAfter(s), FlushAll)
         ELSE arena' = ArenaAfter(s) /\ ring' = RingAfter(s)
  /\ taken' = TakenAll
  /\ gen' = IF Head(chan[w]) = "+" THEN gen + 1 ELSE gen
  /\ settled' = IF Head(chan[w]) = "-" THEN settled + 1 ELSE settled
  /\ wiped' = IF Head(chan[w]) = "c" /\ ~Contains(Tail(chan[w]), "c")
                THEN wiped \cup {w} ELSE wiped
  /\ deletedAt' = IF Head(chan[w]) = "c"
                    THEN [deletedAt EXCEPT ![Primary] = [k \in Keys |-> None]]
                    ELSE deletedAt
  /\ chan' = [chan EXCEPT ![w] = Tail(@)]
  /\ ans' = NoAns
  /\ UNCHANGED <<l3, l1, sub, cursor, pendingDel, pendingWrite, lane, clr, rd,
                 nops, nclears, nreads, lastOp, floor, landedAt>>

\* the arena lets a record go without announcing it (eviction, expiry)
Evict(k) ==
  /\ arena[k].held
  /\ arena' = [arena EXCEPT ![k] = Absent]
  /\ ans' = NoAns
  /\ UNCHANGED <<l3, localVars, ring, gen, settled, taken, sub, chan, lane, clr,
                 rd, nops, nclears, nreads, histVars>>

\* and L1 an entry: byte budget, expiry
L1Evict(w, k) ==
  /\ l1[w][k] # NoEntry
  /\ l1' = [l1 EXCEPT ![w][k] = NoEntry]
  /\ ans' = NoAns
  /\ UNCHANGED <<l3, cursor, pendingDel, pendingWrite, deletedAt, sharedVars, sub,
                 chan, lane, clr, rd, nops, nclears, nreads, histVars>>

-----------------------------------------------------------------------------
(* #drain on a worker *)

Matched(k, at, c) == \E i \in (c + 1) .. RingHead : ring[i] = k /\ i > at

\* mutant: a lapped reader keeps its L1
Outdated_unlapped(w, k) ==
  /\ ~Lapped(cursor[w])
  /\ RecordAfter(FlushAll, cursor[w]) \/ Matched(k, l1[w][k].ownAt, cursor[w])

\* an L1 entry the drain drops: the ring lapped us, was flushed, or names the
\* key, past the position an own write was taken at
Outdated(w, k) ==
  \/ Lapped(cursor[w]) \/ RecordAfter(FlushAll, cursor[w])
  \/ Matched(k, l1[w][k].ownAt, cursor[w])

Drain(w) ==
  LET c     == cursor[w]
      wrap  == Lapped(c)
      flush == ~wrap /\ RecordAfter(FlushAll, c)
      gone(k) == IF wrap THEN ~arena[k].held ELSE Matched(k, pendingDel[w][k], c)
      done(k) == IF wrap THEN taken[w] >= pendingWrite[w][k].sub
                         ELSE Matched(k, pendingWrite[w][k].at, c)
      where(k) == IF wrap THEN RingHead
                  ELSE CHOOSE i \in (c + 1) .. RingHead :
                         /\ ring[i] = k /\ i > pendingDel[w][k]
                         /\ \A j \in (c + 1) .. (i - 1) : ~(ring[j] = k /\ j > pendingDel[w][k])
      landed(k) == pendingDel[w][k] # None /\ gone(k)
  IN
  /\ cursor' = [cursor EXCEPT ![w] = RingHead]
  /\ l1' = [l1 EXCEPT ![w] = [k \in Keys |->
       IF Outdated(w, k) THEN NoEntry ELSE @[k]]]
  /\ pendingDel' = [pendingDel EXCEPT ![w] = [k \in Keys |->
       IF flush \/ landed(k) THEN None ELSE @[k]]]
  /\ pendingWrite' = [pendingWrite EXCEPT ![w] = [k \in Keys |->
       IF flush \/ (@[k] # NoWrite /\ done(k)) THEN NoWrite ELSE @[k]]]
  /\ deletedAt' = [deletedAt EXCEPT ![w] = [k \in Keys |->
       IF flush THEN None ELSE IF landed(k) THEN where(k) ELSE @[k]]]

\* get or has on a worker, for the drain it begins with
Get(w) ==
  /\ RingHead # cursor[w]
  /\ Drain(w)
  /\ ans' = NoAns
  /\ UNCHANGED <<l3, sharedVars, sub, chan, lane, clr, rd, nops, nclears, nreads, histVars>>

-----------------------------------------------------------------------------
(* getAsync and hasAsync.  One read per process is in flight; a second     *)
(* getAsync of the same key and level shares its promise.                  *)

Marked(p, k) == p \in Workers /\ (pendingDel'[p][k] # None \/ pendingWrite'[p][k] # NoWrite)
DeletedHere(p, k) == Owed(p, k) = "delete" \/ (p \in Workers /\ pendingDel'[p][k] # None)

\* get misses, the guards let the read through, and the position of the ring
\* and the clear generation are remembered before the adapter is asked.
\* Level 0 is hasAsync, which remembers nothing.
Start(p, k, level) ==
  /\ rd[p].st = "idle" /\ nreads < MaxReads
  /\ IF p = Primary THEN UNCHANGED localVars ELSE Drain(p)
  /\ Marked(p, k) \/ ~(arena[k].held \/ (p \in Workers /\ l1'[p][k].held))
  /\ ~DeletedHere(p, k)
  /\ ~ClearInFlight(p) /\ SharedClearsInFlight = 0
  /\ rd' = [rd EXCEPT ![p] =
       IF level = 0 THEN [NoRead EXCEPT !.st = "asked", !.key = k]
       ELSE [NoRead EXCEPT !.st = "asked", !.key = k, !.level = level,
               !.mark = RingHead, !.clearMark = gen, !.start = nops]]
  /\ nreads' = nreads + 1
  /\ ans' = NoAns
  /\ UNCHANGED <<l3, sharedVars, sub, chan, lane, clr, nops, nclears, histVars>>

\* the adapter reads its store, at some moment of the request
Sample(p) ==
  /\ rd[p].st = "asked" /\ rd[p].level > 0
  /\ rd' = [rd EXCEPT ![p].st = "read", ![p].held = l3[rd[p].key].held,
                      ![p].ver = l3[rd[p].key].ver]
  /\ ans' = NoAns
  /\ UNCHANGED <<l3, localVars, sharedVars, sub, chan, lane, clr, nops, nclears, nreads,
                 histVars>>

\* l3DeletedWhileReading: our removal is outstanding, or landed after the mark
Deleted(p, r) ==
  \/ Owed(p, r.key) = "delete"
  \/ p \in Workers /\ pendingDel[p][r.key] # None
  \/ deletedAt[p][r.key] > r.mark

\* mutant: only this process's own clears are asked about
Cleared_ownOnly(p, r) == ClearInFlight(p)

\* l3ClearedWhileReading: a clear of this process, or of the cluster
Cleared(p, r) ==
  ClearInFlight(p) \/ SharedClearsInFlight > 0 \/ gen # r.clearMark

\* mutant: an acknowledged write that the arena does not show is not noticed
BlockedSelf_owedOnly(p, r) == Owed(p, r.key) = "set"

\* l3PromotionsBlockedSelf: a write of our own that L3 or the arena lacks
BlockedSelf(p, r) ==
  \/ Owed(p, r.key) = "set"
  \/ p \in Workers /\ (l1[p][r.key].ownAt >= 0 \/ pendingWrite[p][r.key] # NoWrite)

\* l3PromotionsBlocked: the ring moved on this key, or cannot tell
BlockedRing(r, rg) ==
  \/ Len(rg) - r.mark >= RingCap
  \/ \E i \in (r.mark + 1) .. Len(rg) : rg[i] \in {r.key, FlushAll}

\* mutant: the primary walks the ring without draining the submissions
Drained_not(p) == {<<>>}

\* the primary drains the submission rings before it walks the ring
Drained(p) == IF p = Primary THEN Batches ELSE {<<>>}

Answer(p, r, put) == ans' = [by |-> p, key |-> r.key, ver |-> r.ver, start |-> r.start, put |-> put]

\* #publishL3Derived: only the primary puts a value of L3 into the arena
PublishL3Derived(p, r) == p = Primary /\ r.level <= 2

\* #fillFromL3: the arena from the primary alone, L1 at level 1
Promote(p, r, s) ==
  /\ arena' = IF PublishL3Derived(p, r)
                THEN [ArenaAfter(s) EXCEPT ![r.key] = [held |-> TRUE, ver |-> r.ver]]
                ELSE ArenaAfter(s)
  /\ ring' = IF PublishL3Derived(p, r) THEN Append(RingAfter(s), r.key) ELSE RingAfter(s)
  /\ l1' = IF p \in Workers /\ r.level = 1
             THEN [l1 EXCEPT ![p][r.key] = [held |-> TRUE, ownAt |-> None, since |-> r.start]]
             ELSE l1
  /\ Answer(p, r, PublishL3Derived(p, r))

\* #fetchFromL3 once the adapter has answered with a usable value
Reply(p) ==
  LET r == rd[p] IN
  /\ r.st = "read" /\ r.level > 0 /\ r.held
  /\ rd' = [rd EXCEPT ![p] = NoRead]
  /\ IF Deleted(p, r) \/ Cleared(p, r)
       THEN ans' = NoAns /\ UNCHANGED <<arena, ring, taken, l1>>
       ELSE IF BlockedSelf(p, r)
       THEN Answer(p, r, FALSE) /\ UNCHANGED <<arena, ring, taken, l1>>
       ELSE \E s \in Drained(p) :
            /\ taken' = IF p = Primary /\ s # <<>> THEN TakenAll ELSE taken
            /\ IF r.level = 3 \/ BlockedRing(r, RingAfter(s))
                 THEN /\ arena' = ArenaAfter(s) /\ ring' = RingAfter(s)
                      /\ UNCHANGED l1
                      /\ Answer(p, r, FALSE)
                 ELSE Promote(p, r, s)
  /\ UNCHANGED <<l3, gen, settled, sub, chan, cursor, pendingDel, pendingWrite,
                 deletedAt, lane, clr, nops, nclears, nreads, histVars>>

\* #acceptFromL3 has nothing to hand on: no value, an adapter that throws or
\* hangs past the deadline, a value that cannot be stored
Miss(p) ==
  /\ rd[p].st # "idle" /\ rd[p].level > 0
  /\ rd' = [rd EXCEPT ![p] = NoRead]
  /\ ans' = NoAns
  /\ UNCHANGED <<l3, localVars, sharedVars, sub, chan, lane, clr, nops, nclears, nreads,
                 histVars>>

\* hasAsync: whatever the answer, nothing is kept
HasAnswer(p) ==
  /\ rd[p].st # "idle" /\ rd[p].level = 0
  /\ rd' = [rd EXCEPT ![p] = NoRead]
  /\ ans' = NoAns
  /\ UNCHANGED <<l3, localVars, sharedVars, sub, chan, lane, clr, nops, nclears, nreads,
                 histVars>>

-----------------------------------------------------------------------------
Init ==
  /\ l3 = [k \in Keys |-> [held |-> TRUE, ver |-> 0]]
  /\ arena = Wiped
  /\ ring = <<>> /\ gen = 0 /\ settled = 0
  /\ sub = [w \in Workers |-> <<>>] /\ taken = [w \in Workers |-> 0]
  /\ chan = [w \in Workers |-> <<>>]
  /\ l1 = [w \in Workers |-> [k \in Keys |-> NoEntry]]
  /\ cursor = [w \in Workers |-> 0]
  /\ pendingDel = [w \in Workers |-> [k \in Keys |-> None]]
  /\ pendingWrite = [w \in Workers |-> [k \in Keys |-> NoWrite]]
  /\ deletedAt = [p \in Procs |-> [k \in Keys |-> None]]
  /\ lane = [p \in Procs |-> [k \in Keys |-> <<>>]]
  /\ clr = [p \in Procs |-> "none"]
  /\ rd = [p \in Procs |-> NoRead]
  /\ nops = 0 /\ nclears = 0 /\ nreads = 0 /\ ans = NoAns
  /\ lastOp = [k \in Keys |-> 0]
  /\ floor = [p \in Procs |-> [k \in Keys |-> 0]]
  /\ wiped = {} /\ landedAt = [p \in Procs |-> [k \in Keys |-> 0]]

Next ==
  \/ \E p \in Procs, k \in Keys :
       \/ \E level \in SetLevels : Set(p, k, level)
       \/ Delete(p, k)
       \/ Land(p, k) \/ Released(p, k)
       \/ \E level \in ReadLevels : Start(p, k, level)
  \/ \E p \in Procs : ClearAll(p) \/ ClearLand(p) \/ ClearSettle(p)
                      \/ Sample(p) \/ Reply(p) \/ Miss(p) \/ HasAnswer(p)
  \/ \E w \in Workers : Get(w) \/ ApplyBatch(w) \/ \E k \in Keys : L1Evict(w, k)
  \/ DrainSubmissions \/ OtherWrites
  \/ \E k \in Keys : Evict(k)

Spec == Init /\ [][Next]_vars

-----------------------------------------------------------------------------
(* Properties *)

\* The variables have their types and the counters their order.
TypeOK ==
  /\ \A k \in Keys : l3[k].ver \in Nat /\ arena[k].ver \in None .. l3[k].ver
  /\ settled <= gen
  /\ \A w \in Workers : taken[w] <= Len(sub[w]) /\ cursor[w] <= RingHead
  /\ \A p \in Procs : /\ clr[p] \in {"none", "queued", "landed"}
                      /\ rd[p].st \in {"idle", "asked", "read"}
                      /\ \A k \in Keys : Len(lane[p][k]) <= 2

\* A process that deleted a key is never handed, by an L3 read of its own, a
\* value L3 held before that removal landed there, however the removal, its
\* acknowledgement and its invalidation record interleave with the read.
OwnRemovalHolds ==
  ans.ver # None =>
    floor[ans.by][ans.key] # Unlanded /\ ans.ver >= floor[ans.by][ans.key]

\* A version that every clear that has emptied the arena has left in L3.
Surviving(k, ver) ==
  \A p \in wiped : clr[p] # "queued" /\ ver >= landedAt[p][k]

\* Once a clear has emptied the arena, no process is handed, and the arena is
\* never refilled with, what L3 held before the clear landed there, whichever
\* process issued the clear.
ClearHolds ==
  /\ ans.ver # None => Surviving(ans.key, ans.ver)
  /\ \A k \in Keys : arena[k].ver # None => Surviving(k, arena[k].ver)

\* A promotion into the arena never lands on top of a set or delete of the key
\* that any process was told had been accepted since the read began.
PromotionYields == ans.put => lastOp[ans.key] <= ans.start

\* An L1 copy that came from L3 is not left behind by a later write: the write
\* is still on its way to the arena, or its record is ahead of the reader; and
\* the lanes to L3 hold one operation on the wire and one that waits.
L1Tracked ==
  /\ TypeOK
  /\ \A w \in Workers, k \in Keys :
       l1[w][k].held /\ l1[w][k].ownAt = None /\ lastOp[k] > l1[w][k].since =>
         \/ \E v \in Workers : \E i \in DOMAIN Pending(v) : Pending(v)[i].key = k
         \/ RecordAfter(k, cursor[w]) \/ RecordAfter(FlushAll, cursor[w])
         \/ Lapped(cursor[w])

\* A worker's own write, still in its L1, is never replaced there by an L3
\* answer that is older: not after L3 acknowledged the write and the queue
\* forgot it, nor before the primary has drained its record.
OwnWriteKept ==
  [][\A w \in Workers, k \in Keys :
       l1[w][k].ownAt # None /\ l1'[w][k].held => l1'[w][k].since >= l1[w][k].since]_vars
=============================================================================
