------------------------------ MODULE Recovery ------------------------------
(***************************************************************************)
(* How a worker process loses its primary and finds the next one.  The     *)
(* primary stamps a heartbeat in the arena it created; every operation of  *)
(* a worker looks at it, at most every 500 ms, and when it is too old the  *)
(* whole process lets go of the arena and of its submission ring, serves   *)
(* its L1 and polls the arena's name.  A new primary is a new segment: the *)
(* old mapping stays readable, and is never written again.                 *)
(*                                                                         *)
(* One worker process with several cache handles (Inst), which share the   *)
(* native mapping, the ring slot and the poll; one key.  Arena segment s   *)
(* and ring segment s are created by the same primary.  A tick is 500 ms:  *)
(* one maintenance interval, and one gate of the heartbeat check.          *)
(***************************************************************************)
EXTENDS Integers, FiniteSets

CONSTANTS
  Inst,       \* cache handles of the worker process
  Stale,      \* primaryStaleMs, in ticks
  MaxSegs,    \* bound: segments created under the name
  MaxHead,    \* bound: invalidation records of one segment
  MaxFaults,  \* bound: stalls, crashes and closes of the primary
  Reopen      \* openings beyond those in touch: "outage", "replaced" (MayOpen)

ASSUME RecoveryAssumption ==
  /\ Inst # {} /\ IsFiniteSet(Inst)
  /\ Stale \in Nat /\ Stale >= 2
  /\ MaxSegs \in Nat \ {0} /\ {MaxHead, MaxFaults} \subseteq Nat
  /\ Reopen \subseteq {"outage", "replaced"}

VARIABLES
  seg,       \* segment -> [age of its heartbeat, head of its invalidation ring]
  made,      \* segments created so far
  named,     \* the arena segment the name resolves to, 0 for none
  subNamed,  \* the same for the submission rings (name_sub)
  prim,      \* the primary: "up", "stalled", "down", or "starting"
  proc,      \* the statics and native globals of the worker process
  claimed,   \* ring segments in which a slot is owned by the process
  inst,      \* handle -> its own fields
  faults,
  late       \* history: handles opened in the present outage; no guard reads it

vars == <<seg, made, named, subNamed, prim, proc, claimed, inst, faults, late>>
primary == <<seg, made, named, subNamed, prim, faults>>

Segs == 1..MaxSegs
Unstamped == -1
Half == Stale \div 2    \* #staleMsFor
Nowhere == -1           \* the segment of a removal made with nothing mapped

\* What a handle's L1 holds of the key: the segment and ring position it was
\* read at, a value written while out of touch (Local), or nothing.
NoEntry == <<-1, 0>>
Local == <<0, 0>>
Closed == [open |-> FALSE, dead |-> FALSE, ring |-> FALSE, cursor |-> 0,
           l1 |-> NoEntry, mark |-> 0, gate |-> 0]

Open == {i \in Inst : inst[i].open}

\* The variables stay in their types; a heartbeat's age saturates.
TypeOK ==
  /\ seg \in [Segs -> [age : Unstamped..Stale + 2, head : 0..MaxHead]]
  /\ made \in Segs /\ {named, subNamed} \subseteq 0..made /\ faults \in 0..MaxFaults
  /\ prim \in {"up", "stalled", "down", "starting"}
  /\ proc \in [mapped : 0..made, sub : 0..made, idx : BOOLEAN, subReady : BOOLEAN,
               degraded : BOOLEAN, timer : BOOLEAN, ready : BOOLEAN, lastHb : 0..made]
  /\ claimed \subseteq 1..made
  /\ inst \in [Inst -> [open : BOOLEAN, dead : BOOLEAN, ring : BOOLEAN, cursor : 0..MaxHead,
                        l1 : (-1..made) \X (0..MaxHead), mark : Nowhere..made,
                        gate : 0..2]]
  /\ late \subseteq Inst

Init ==
  /\ seg = [s \in Segs |-> [age |-> IF s = 1 THEN 0 ELSE Unstamped, head |-> 0]]
  /\ made = 1 /\ named = 1 /\ subNamed = 1 /\ prim = "up" /\ faults = 0
  /\ proc = [mapped |-> 0, sub |-> 0, idx |-> FALSE, subReady |-> FALSE,
             degraded |-> FALSE, timer |-> FALSE, ready |-> FALSE, lastHb |-> 0]
  /\ claimed = {} /\ late = {}
  /\ inst = [i \in Inst |-> Closed]

-----------------------------------------------------------------------------
(* The primary, and time.                                                   *)

PrimaryWrite ==
  /\ prim = "up" /\ seg[made].head < MaxHead
  /\ seg' = [seg EXCEPT ![made].head = @ + 1]
  /\ UNCHANGED <<made, named, subNamed, prim, proc, claimed, inst, faults, late>>

\* lastHb names the segment whose present stamp the last poll saw: a new
\* stamp is another number.
Stamped == [proc EXCEPT !.lastHb = IF @ = made THEN 0 ELSE @]

\* The maintenance timer of the primary.
Stamp ==
  /\ prim = "up" /\ seg[made].age >= 1
  /\ seg' = [seg EXCEPT ![made].age = 0]
  /\ proc' = Stamped
  /\ UNCHANGED <<made, named, subNamed, prim, claimed, inst, faults, late>>

Fault == faults < MaxFaults /\ faults' = faults + 1

Stall ==
  /\ prim = "up" /\ Fault /\ prim' = "stalled"
  /\ UNCHANGED <<seg, made, named, subNamed, proc, claimed, inst, late>>

Resume ==
  /\ prim = "stalled" /\ prim' = "up"
  /\ UNCHANGED <<seg, made, named, subNamed, proc, claimed, inst, faults, late>>

\* A crash leaves both names behind.
Crash ==
  /\ prim # "down" /\ Fault /\ prim' = "down"
  /\ UNCHANGED <<seg, made, named, subNamed, proc, claimed, inst, late>>

\* The primary's close() unlinks them.
PrimaryClose ==
  /\ prim = "up" /\ Fault /\ prim' = "down"
  /\ named' = 0 /\ subNamed' = 0
  /\ UNCHANGED <<seg, made, proc, claimed, inst, late>>

\* mutant: the heartbeat is stamped before the rings exist
CreateArena_stamped ==
  /\ prim = "down" /\ made < MaxSegs /\ prim' = "starting"
  /\ made' = made + 1 /\ named' = made'
  /\ seg' = [seg EXCEPT ![made'].age = 0]
  /\ UNCHANGED <<subNamed, proc, claimed, inst, faults, late>>

\* createPrimary replaces the arena first, its heartbeat not stamped yet ...
CreateArena ==
  /\ prim = "down" /\ made < MaxSegs /\ prim' = "starting"
  /\ made' = made + 1 /\ named' = made'
  /\ UNCHANGED <<seg, subNamed, proc, claimed, inst, faults, late>>

\* ... then the rings, and #startMaintenance stamps for the first time.
CreateRings ==
  /\ prim = "starting" /\ prim' = "up"
  /\ subNamed' = made
  /\ seg' = [seg EXCEPT ![made].age = 0]
  /\ proc' = Stamped
  /\ UNCHANGED <<made, named, claimed, inst, faults, late>>

\* 500 ms pass; a running primary has stamped by then.  gate counts down from
\* a check of the heartbeat: at 1 the 500 ms may or may not be over.
Tick ==
  /\ prim = "up" => seg[made].age < 1
  /\ seg' = [s \in Segs |-> [seg[s] EXCEPT !.age = IF @ \in {Unstamped, Stale + 2} THEN @ ELSE @ + 1]]
  /\ inst' = [i \in Inst |-> [inst[i] EXCEPT !.gate = IF @ = 0 THEN 0 ELSE @ - 1]]
  /\ UNCHANGED <<made, named, subNamed, prim, proc, claimed, faults, late>>

-----------------------------------------------------------------------------
(* Losing the primary.                                                      *)

Asks(i) == ~inst[i].dead /\ inst[i].gate < 2
Skips(i) == inst[i].dead \/ inst[i].gate > 0
Gone == proc.mapped # 0 /\ seg[proc.mapped].age > Stale

Released == IF proc.idx THEN claimed \ {proc.sub} ELSE claimed

\* #degrade: every handle goes dead, the slot is given back, then both
\* mappings go and the poll starts; nothing in an outage that has begun.
DegradedProc ==
  IF proc.degraded THEN proc
  ELSE [mapped |-> 0, sub |-> 0, idx |-> FALSE, subReady |-> FALSE,
        degraded |-> TRUE, timer |-> TRUE, ready |-> FALSE, lastHb |-> 0]
DegradedInst ==
  [j \in Inst |-> IF inst[j].open /\ ~proc.degraded
                  THEN [inst[j] EXCEPT !.dead = TRUE, !.ring = FALSE] ELSE inst[j]]

\* #checkPrimary: whether it finds the primary gone, and how it leaves the handle
CheckPrimary(i) ==
  LET r == IF Gone THEN DegradedInst[i] ELSE inst[i]
  IN {c \in {[gone |-> Gone, r |-> [r EXCEPT !.gate = 2]]} : Asks(i)}
       \cup {c \in {[gone |-> FALSE, r |-> inst[i]]} : Skips(i)}

\* An operation of a handle, after check c: it leaves the handle as r.
Operation(i, c, r) ==
  /\ inst[i].open
  /\ proc' = IF c.gone THEN DegradedProc ELSE proc
  /\ claimed' = IF c.gone /\ ~proc.degraded THEN Released ELSE claimed
  /\ inst' = [IF c.gone THEN DegradedInst ELSE inst EXCEPT ![i] = r]
  /\ UNCHANGED <<primary, late>>

InTouch(r) == ~r.dead /\ proc.mapped # 0
Head == seg[proc.mapped].head
Current == <<proc.mapped, Head>>

\* #drain: every record is of the key, or says that all of it changed.
Drained(r) ==
  IF r.cursor = Head THEN r
  ELSE [r EXCEPT !.cursor = Head, !.l1 = NoEntry, !.mark = 0]

\* get: an unapplied removal and a warm L1 answer first, then the arena.
Filled(r) ==
  IF ~InTouch(r) \/ r.mark # 0 \/ r.l1 # NoEntry THEN r ELSE [r EXCEPT !.l1 = Current]
Read(r) == IF InTouch(r) THEN Filled(Drained(r)) ELSE r

Write(r) == [r EXCEPT !.l1 = IF InTouch(r) THEN Current ELSE Local]

\* A removal is marked unless the handle is dead.
Remove(r) == [r EXCEPT !.l1 = NoEntry,
                       !.mark = IF r.dead THEN @
                                ELSE IF proc.mapped = 0 THEN Nowhere ELSE proc.mapped]

\* mutant: a read does not look at the heartbeat
Get_unchecked(i) ==
  /\ inst[i].open
  /\ inst' = [inst EXCEPT ![i] = Read(@)]
  /\ UNCHANGED <<primary, proc, claimed, late>>

\* With no store #drain returns before the check, and get answers from L1.  It
\* returns as well when the check finds the primary gone: a handle opened in
\* the outage, which #degrade passes by, then goes on to the arena undrained.
Get(i) == /\ proc.ready
          /\ \E c \in CheckPrimary(i) :
               Operation(i, c, IF c.gone THEN Filled(c.r) ELSE Read(c.r))
Set(i) == \E c \in CheckPrimary(i) : Operation(i, c, Write(c.r))
Delete(i) == \E c \in CheckPrimary(i) : Operation(i, c, Remove(c.r))

-----------------------------------------------------------------------------
(* Opening, closing and recovering.                                         *)

\* #useSubmissionRing for the handles users, in process state p: the others
\* asked for IPC, or found no free slot.  submitOpen maps whatever the name
\* resolves to; submitClaim answers an index it already has, and only
\* otherwise takes a slot.
WithRing(p, users) ==
  IF users = {} \/ subNamed = 0 THEN p
  ELSE [p EXCEPT !.sub = subNamed, !.idx = TRUE, !.subReady = TRUE]
ClaimedBy(p, users) ==
  IF users = {} \/ subNamed = 0 \/ p.idx THEN claimed ELSE claimed \cup {subNamed}

\* mutant: L1 survives the recovery
RecoveredHandle_warm(r, uses) ==
  [r EXCEPT !.dead = FALSE, !.ring = uses, !.cursor = seg[named].head, !.mark = 0]

\* #recovered: everything this handle believed about the arena goes.
RecoveredHandle(r, uses) ==
  [r EXCEPT !.dead = FALSE, !.ring = uses, !.cursor = seg[named].head,
            !.l1 = NoEntry, !.mark = 0]

\* mutant: a heartbeat of exactly half the limit is too old
Alive_strict(s) == s # 0 /\ proc.lastHb # s /\ seg[s].age >= 0 /\ seg[s].age < Half

\* There is such an arena, with a stamp that is new and recent.
Alive(s) == s # 0 /\ proc.lastHb # s /\ seg[s].age >= 0 /\ seg[s].age <= Half

\* Attaching closes the mapping there was, also when there is no arena of the
\* name; an arena that is not alive is let go of, and storeReady with it.
Refused ==
  IF named = 0 THEN [proc EXCEPT !.mapped = 0]
  ELSE [proc EXCEPT !.mapped = 0, !.ready = FALSE, !.lastHb = named]

\* #tryRecover, from the poll's timer: attach by name, look at the stamp,
\* and keep the mapping or let go of it again.
Poll ==
  /\ proc.timer
  /\ \/ /\ ~Alive(named)
        /\ proc' = Refused
        /\ UNCHANGED <<claimed, inst, late>>
     \/ /\ Alive(named)
        /\ \E users \in SUBSET Open :
             LET p == [proc EXCEPT !.timer = FALSE, !.degraded = FALSE, !.ready = TRUE,
                                   !.mapped = named]
             IN /\ proc' = WithRing(p, users)
                /\ claimed' = ClaimedBy(p, users)
                /\ inst' = [i \in Inst |->
                     IF i \in Open THEN RecoveredHandle(inst[i], i \in users /\ subNamed # 0)
                     ELSE inst[i]]
        /\ late' = {}
  /\ UNCHANGED primary

\* The ring name stands for the segment in which the process has its slot, and
\* at an attach for the rings of the arena.
RingsAtHand ==
  /\ proc.idx => subNamed \in {0, proc.sub}
  /\ ~proc.ready => subNamed = named

\* Neither is looked at by open, which goes by storeReady alone: Reopen says
\* which openings there are beyond those of a process in touch, "outage" while
\* it is without a primary, "replaced" while its rings are not at hand.
MayOpen ==
  /\ proc.degraded => "outage" \in Reopen
  /\ ~RingsAtHand => "replaced" \in Reopen

\* attachWorker, where the process has no store yet
Attached == IF proc.ready THEN proc ELSE [proc EXCEPT !.mapped = named, !.ready = TRUE]

\* open: share the store, or attach by name.  A later handle joins the ring
\* only while submitReady is set.
OpenHandle(i) ==
  /\ ~inst[i].open
  /\ MayOpen
  /\ proc.ready \/ named # 0
  /\ \E users \in SUBSET {i} :
       /\ (proc.ready /\ ~proc.subReady) => users = {}
       /\ proc' = WithRing(Attached, users)
       /\ claimed' = ClaimedBy(Attached, users)
       /\ inst' = [inst EXCEPT ![i] =
            [Closed EXCEPT !.open = TRUE, !.ring = users # {} /\ subNamed # 0]]
  /\ late' = IF proc.degraded THEN late \cup {i} ELSE late
  /\ UNCHANGED primary

\* mutant: a handle that closes gives the slot back
StillUsingRing_none(i) == FALSE

\* Whether a handle other than i still uses the process's ring slot.
StillUsingRing(i) == \E j \in Open \ {i} : inst[j].ring

\* mutant: the poll goes on
ClosedProc_poll(i) ==
  [proc EXCEPT !.idx = IF StillUsingRing(i) THEN @ ELSE FALSE,
               !.subReady = IF StillUsingRing(i) THEN @ ELSE FALSE]

\* Whether i is the last handle of a process that is without a primary.
EndsOutage(i) == Open = {i} /\ proc.timer

\* The last handle takes the poll with it, the last ring user the slot.
ClosedProc(i) ==
  [proc EXCEPT !.timer = IF EndsOutage(i) THEN FALSE ELSE @,
               !.degraded = IF EndsOutage(i) THEN FALSE ELSE @,
               !.idx = IF StillUsingRing(i) THEN @ ELSE FALSE,
               !.subReady = IF StillUsingRing(i) THEN @ ELSE FALSE]

\* #closeLocal.
Close(i) ==
  /\ inst[i].open
  /\ proc' = ClosedProc(i)
  /\ claimed' = IF StillUsingRing(i) THEN claimed ELSE Released
  /\ inst' = [inst EXCEPT ![i] = Closed]
  /\ late' = IF EndsOutage(i) THEN {} ELSE late
  /\ UNCHANGED primary

-----------------------------------------------------------------------------
Next ==
  \/ PrimaryWrite \/ Stamp \/ Stall \/ Resume \/ Crash \/ PrimaryClose
  \/ CreateArena \/ CreateRings \/ Tick \/ Poll
  \/ \E i \in Inst : Get(i) \/ Set(i) \/ Delete(i) \/ OpenHandle(i) \/ Close(i)

Spec == Init /\ [][Next]_vars

\* Time passes, a running primary's and the poll's timers fire, and an open
\* handle is read now and then: a worker notices only in an operation.
FairSpec ==
  /\ Spec /\ WF_vars(Tick) /\ WF_vars(Stamp) /\ WF_vars(Poll)
  /\ \A i \in Inst : WF_vars(Get(i))

-----------------------------------------------------------------------------
\* What holds of the handles holds of all but those opened in the outage that
\* is going on (late): open attaches by name to the dead primary's arena, and
\* #degrade, which has run already, passes the new handle by.  With Reopen = {}
\* there are none.

\* A handle in touch with an arena holds nothing of an earlier one: its L1 was
\* read there, at or after its cursor, and a removal it still waits for was
\* submitted there (a mark from before would hide the key for good).
NothingFromBefore ==
  \A i \in Open \ late : InTouch(inst[i]) =>
    /\ inst[i].l1 = NoEntry \/ (inst[i].l1[1] = proc.mapped /\ inst[i].l1[2] >= inst[i].cursor)
    /\ inst[i].mark \in {0, proc.mapped}
    /\ inst[i].cursor <= Head

\* A handle that submits through the ring does it in a slot its process owns:
\* a ring has one producer.  Claims, releases and re-opened segments of all
\* the handles of the process come into this.  While an arena is mapped the
\* slot is in the segment of the primary whose arena it is: writes that are
\* acknowledged go where that primary drains, also when the poll meets a
\* primary that has replaced the arena and not yet the rings.
SlotOwned ==
  \A i \in Open : inst[i].ring =>
    /\ proc.idx /\ proc.sub \in claimed
    /\ proc.mapped # 0 => proc.sub = proc.mapped

\* The handles of a process lose and find the primary together, those opened
\* in an outage being the only ones that can be alive in it; unless there are
\* such, nothing is mapped and no slot held while the process is without a
\* primary.  A poll runs exactly then, and does not outlive the handles.
\* The variables are in type.
OneFate ==
  /\ TypeOK
  /\ \A i \in Open : inst[i].dead <=> (proc.degraded /\ i \notin late)
  /\ late # {} => proc.degraded
  /\ proc.degraded <=> proc.timer
  /\ proc.degraded => Open # {}
  /\ proc.degraded /\ late = {} =>
       proc.mapped = 0 /\ proc.sub = 0 /\ ~proc.idx /\ ~proc.ready

\* A read takes a value from the arena only while the primary's heartbeat is
\* at most one gate older than primaryStaleMs, however many handles there are
\* and whatever they did before; a handle opened in the present outage reads
\* the dead arena until the next poll lets go of it.
TrustBounded ==
  [][\A i \in Inst \ late : (inst[i].l1 = NoEntry /\ inst'[i].l1[1] > 0)
                              => seg[inst'[i].l1[1]].age <= Stale + 1]_vars

\* While a primary runs, a handle that has lost it, or is left on an older
\* arena, comes to be in touch with that primary's arena.
Rejoins ==
  \A i \in Inst :
    (inst[i].open /\ prim = "up")
      ~> (~inst[i].open \/ prim # "up" \/ (~inst[i].dead /\ proc.mapped = made))
=============================================================================
