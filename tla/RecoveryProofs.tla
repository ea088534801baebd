--------------------------- MODULE RecoveryProofs ---------------------------
(***************************************************************************)
(* What Recovery guarantees for every number of handles, segments and      *)
(* faults and for every primaryStaleMs.  OneFate, NothingFromBefore and    *)
(* TrustBounded hold whenever handles are opened (every Reopen); SlotOwned *)
(* needs Reopen = {}: no handle is opened while the process is without a   *)
(* primary, or while its rings are not at hand.                            *)
(***************************************************************************)
EXTENDS Recovery, TLAPS

-----------------------------------------------------------------------------
(* The inductive invariant *)

\* The records a handle's fields make up.
Handle == [open : BOOLEAN, dead : BOOLEAN, ring : BOOLEAN, cursor : 0..MaxHead,
           l1 : (-1..made) \X (0..MaxHead), mark : Nowhere..made, gate : 0..2]

\* Only the newest segment is ever named.  A named arena whose rings are not
\* there yet has no heartbeat, so that no poll takes it for a live one.
SegmentsOK ==
  /\ named \in {0, made}
  /\ prim \in {"up", "stalled"} => named = made /\ subNamed = made
  /\ prim = "starting" => named = made
  /\ named # 0 /\ subNamed # named => seg[named].age = Unstamped
  /\ \A s \in Segs : s > made => seg[s].age = Unstamped

\* Where no handle is opened out of touch: the slot index and submitReady go
\* together, the slot is in the rings of the mapped arena, a handle that uses
\* the ring relies on that slot, and storeReady means that one is mapped.
SlotOK ==
  /\ late = {}
  /\ proc.ready <=> proc.mapped # 0
  /\ proc.idx <=> proc.subReady
  /\ proc.idx => proc.sub \in claimed /\ proc.sub = proc.mapped /\ proc.mapped # 0
  /\ \A i \in Inst : inst[i].ring => proc.idx

\* A closed handle has nothing; open handles of a process that has not lost
\* its primary have a store, and without a store nothing is mapped.
HandlesOK ==
  /\ \A i \in Inst : ~inst[i].open => inst[i] = Closed
  /\ \A i \in Inst : inst[i].open /\ ~proc.degraded => proc.ready
  /\ proc.mapped # 0 => proc.ready

\* What a handle in touch holds of the mapped arena.
Sound(r) ==
  /\ r.l1 = NoEntry \/ (r.l1[1] = proc.mapped /\ r.l1[2] >= r.cursor)
  /\ r.mark \in {0, proc.mapped}
  /\ r.cursor <= Head

\* While the gate keeps a handle from looking again, the heartbeat it saw is
\* at most as much older as the gate has run down.
GateOK(r) ==
  /\ r.gate = 2 => seg[proc.mapped].age <= Stale
  /\ r.gate = 1 => seg[proc.mapped].age <= Stale + 1

HandleOK(r) == r.open /\ InTouch(r) => Sound(r) /\ GateOK(r)

IInv ==
  /\ OneFate /\ SegmentsOK /\ HandlesOK
  /\ Reopen = {} => SlotOK
  /\ \A i \in Inst \ late : HandleOK(inst[i])

-----------------------------------------------------------------------------
(* Facts about the operators *)

\* The types of what is read most.
LEMMA TypeFacts ==
  ASSUME TypeOK
  PROVE  /\ made \in Nat /\ MaxHead \in Nat /\ Stale \in Nat /\ MaxSegs \in Nat
         /\ 1 <= made /\ made <= MaxSegs
         /\ proc.mapped \in 0..made /\ proc.sub \in 0..made /\ proc.lastHb \in 0..made
         /\ named \in 0..made /\ subNamed \in 0..made
         /\ {proc.idx, proc.subReady, proc.degraded, proc.timer, proc.ready} \subseteq BOOLEAN
         /\ \A s \in Segs : seg[s].age \in Int /\ seg[s].head \in 0..MaxHead
         /\ proc.mapped # 0 => proc.mapped \in Segs /\ Head \in 0..MaxHead
         /\ made \in Segs
         /\ \A i \in Inst : inst[i] \in Handle
<1>1. made \in Nat /\ MaxHead \in Nat /\ Stale \in Nat /\ MaxSegs \in Nat
      /\ 1 <= made /\ made <= MaxSegs /\ made \in Segs
  BY RecoveryAssumption DEF TypeOK, Segs
<1>2. /\ proc.mapped \in 0..made /\ proc.sub \in 0..made /\ proc.lastHb \in 0..made
      /\ named \in 0..made /\ subNamed \in 0..made
      /\ {proc.idx, proc.subReady, proc.degraded, proc.timer, proc.ready} \subseteq BOOLEAN
  BY DEF TypeOK
<1>3. \A s \in Segs : seg[s].age \in Int /\ seg[s].head \in 0..MaxHead
  BY <1>1 DEF TypeOK, Unstamped
<1>4. proc.mapped # 0 => proc.mapped \in Segs /\ Head \in 0..MaxHead
  BY <1>1, <1>2, <1>3 DEF Segs, Head
<1>5. \A i \in Inst : inst[i] \in Handle
  BY DEF TypeOK, Handle
<1> QED BY <1>1, <1>2, <1>3, <1>4, <1>5

\* An empty L1 slot and a local value are handle contents of their types.
LEMMA ConstantFacts ==
  ASSUME TypeOK
  PROVE  /\ NoEntry \in (-1..made) \X (0..MaxHead) /\ NoEntry[1] = -1
         /\ Local \in (-1..made) \X (0..MaxHead) /\ Local[1] = 0
         /\ Closed \in Handle /\ ~Closed.open /\ ~Closed.ring /\ ~Closed.dead
         /\ Closed.cursor = 0 /\ Closed.l1 = NoEntry /\ Closed.mark = 0 /\ Closed.gate = 0
         /\ {0, Nowhere} \subseteq Nowhere..made
<1>1. made \in Nat /\ MaxHead \in Nat
  BY TypeFacts
<1>2. /\ NoEntry \in (-1..made) \X (0..MaxHead) /\ NoEntry[1] = -1
      /\ Local \in (-1..made) \X (0..MaxHead) /\ Local[1] = 0
  BY <1>1 DEF NoEntry, Local
<1> QED
  BY <1>1, <1>2 DEF Closed, Handle, Nowhere

\* get, set and delete leave open, dead, ring and gate as #checkPrimary left
\* them; in touch they keep to what is in the mapped arena, and what they put
\* into an empty L1 slot from an arena is from the mapped one.
LEMMA HandleStep ==
  ASSUME TypeOK, NEW q \in Handle, NEW r \in {Read(q), Filled(q), Write(q), Remove(q)}
  PROVE  /\ r \in Handle
         /\ r.open = q.open /\ r.dead = q.dead /\ r.ring = q.ring /\ r.gate = q.gate
         /\ InTouch(q) /\ Sound(q) => Sound(r)
         /\ q.l1 = NoEntry /\ r.l1[1] > 0 => InTouch(q) /\ r.l1[1] = proc.mapped
<1> USE TypeFacts, ConstantFacts
<1> DEFINE L == (-1..made) \X (0..MaxHead)
<1>1. ASSUME InTouch(q)
      PROVE  /\ Current \in L /\ Current[1] = proc.mapped /\ Current[2] = Head
             /\ Head \in 0..MaxHead
  BY <1>1 DEF InTouch, Current
<1>2. /\ q.cursor \in 0..MaxHead /\ q.l1 \in L /\ q.mark \in Nowhere..made
      /\ {q.open, q.dead, q.ring} \subseteq BOOLEAN /\ q.gate \in 0..2
  BY DEF Handle
<1>3. ASSUME NEW d \in Handle
      PROVE  /\ Filled(d) \in Handle
             /\ Filled(d).open = d.open /\ Filled(d).dead = d.dead
             /\ Filled(d).ring = d.ring /\ Filled(d).gate = d.gate
             /\ InTouch(d) /\ Sound(d) => Sound(Filled(d))
             /\ Filled(d).l1 = d.l1 \/ (InTouch(d) /\ Filled(d).l1 = Current)
  <2>1. CASE Filled(d) = d
    BY <2>1
  <2>2. CASE InTouch(d) /\ Filled(d) = [d EXCEPT !.l1 = Current]
    <3>1. Current \in L /\ Current[1] = proc.mapped /\ Current[2] = Head /\ Head \in 0..MaxHead
      BY <2>2 DEF InTouch, Current
    <3> DEFINE r1 == Filled(d)
    <3>2. /\ r1.l1 = Current /\ r1.cursor = d.cursor /\ r1.mark = d.mark /\ r1.open = d.open
          /\ r1.dead = d.dead /\ r1.ring = d.ring /\ r1.gate = d.gate /\ r1 \in Handle
      BY <2>2, <3>1 DEF Handle
    <3>3. d.cursor \in 0..MaxHead
      BY DEF Handle
    <3> QED BY <2>2, <3>1, <3>2, <3>3 DEF Sound
  <2> QED BY <2>1, <2>2 DEF Filled
<1>3a. CASE r = Filled(q)
  BY <1>1, <1>3, <1>3a
<1>3b. CASE r = Read(q)
  <2>1. CASE ~InTouch(q)
    <3>1. r = q
      BY <1>3b, <2>1 DEF Read
    <3> QED BY <2>1, <3>1
  <2>2. CASE InTouch(q)
    <3> DEFINE d == Drained(q)
    <3>1. /\ d \in Handle
          /\ d.open = q.open /\ d.dead = q.dead /\ d.ring = q.ring /\ d.gate = q.gate
          /\ d.cursor = Head
          /\ d.l1 \in {q.l1, NoEntry} /\ d.mark \in {q.mark, 0}
      BY <1>1, <1>2, <2>2 DEF Drained, Handle
    <3>2. r = Filled(d) /\ InTouch(d)
      BY <1>3b, <2>2, <3>1 DEF Read, InTouch
    <3>3. Sound(q) => Sound(d)
      BY <1>1, <2>2, <3>1 DEF Sound, Drained
    <3> HIDE DEF d
    <3> QED BY <1>1, <1>3, <2>2, <3>1, <3>2, <3>3
  <2> QED BY <2>1, <2>2
<1>4. CASE r = Write(q)
  <2> DEFINE e == IF InTouch(q) THEN Current ELSE Local
  <2>1. e \in L
    BY <1>1
  <2>2. /\ r.l1 = e /\ r.cursor = q.cursor /\ r.mark = q.mark /\ r.open = q.open
        /\ r.dead = q.dead /\ r.ring = q.ring /\ r.gate = q.gate /\ r \in Handle
    BY <1>2, <1>4, <2>1 DEF Write, Handle
  <2> QED BY <1>1, <1>2, <2>2 DEF Sound
<1>5. CASE r = Remove(q)
  <2>1. /\ r.l1 = NoEntry /\ r.cursor = q.cursor /\ r.open = q.open
        /\ r.mark = IF q.dead THEN q.mark ELSE IF proc.mapped = 0 THEN Nowhere ELSE proc.mapped
        /\ r.dead = q.dead /\ r.ring = q.ring /\ r.gate = q.gate /\ r \in Handle
    <3> DEFINE m == IF q.dead THEN q.mark ELSE IF proc.mapped = 0 THEN Nowhere ELSE proc.mapped
    <3>1. m \in Nowhere..made
      BY <1>2 DEF Nowhere
    <3>2. r = [q EXCEPT !.l1 = NoEntry, !.mark = m]
      BY <1>5 DEF Remove
    <3> HIDE DEF m
    <3>3. /\ r.l1 = NoEntry /\ r.cursor = q.cursor /\ r.open = q.open /\ r.mark = m
          /\ r.dead = q.dead /\ r.ring = q.ring /\ r.gate = q.gate /\ r \in Handle
      BY <1>2, <3>1, <3>2 DEF Handle
    <3> QED BY <3>3 DEF m
  <2> QED BY <1>2, <2>1 DEF Sound, InTouch
<1> QED BY <1>3a, <1>3b, <1>4, <1>5
-----------------------------------------------------------------------------
(* The steps of the primary, and time *)

\* A step that leaves the worker process alone, except for what its poll last
\* saw, loses no invalidation record and lets no heartbeat grow old keeps the
\* invariant when it keeps the segments in order.
LEMMA PrimaryKeeps ==
  ASSUME IInv, TypeOK', SegmentsOK', claimed' = claimed, inst' = inst, late' = late,
         \E n : proc' = [proc EXCEPT !.lastHb = n],
         \A s \in Segs : seg[s].head <= seg'[s].head,
         \A s \in Segs : seg'[s].age = seg[s].age \/ seg'[s].age = 0
  PROVE  IInv'
<1>1. /\ proc'.mapped = proc.mapped /\ proc'.sub = proc.sub /\ proc'.idx = proc.idx
      /\ proc'.subReady = proc.subReady /\ proc'.degraded = proc.degraded
      /\ proc'.timer = proc.timer /\ proc'.ready = proc.ready
  BY DEF IInv, OneFate, TypeOK
<1>2. Open' = Open
  BY DEF Open
<1>3. OneFate'
  BY <1>1, <1>2 DEF IInv, OneFate
<1>4. (Reopen = {} => SlotOK') /\ HandlesOK'
  BY <1>1 DEF IInv, SlotOK, HandlesOK
<1>5. ASSUME NEW i \in Inst \ late PROVE HandleOK(inst[i])'
  <2>1. HandleOK(inst[i]) /\ inst[i] \in Handle /\ inst'[i] = inst[i]
    BY TypeFacts DEF IInv, OneFate
  <2>2. CASE inst[i].open /\ InTouch(inst[i])
    <3>1. proc.mapped \in Segs /\ Head \in Nat /\ Head' \in Nat /\ Head <= Head'
      BY <1>1, <2>2, TypeFacts DEF IInv, OneFate, InTouch, TypeOK, Head
    <3>2. Sound(inst[i])'
      BY <1>1, <2>1, <2>2, <3>1 DEF HandleOK, Sound, Handle
    <3>3. GateOK(inst[i])'
      <4>1. Stale \in Nat
        BY RecoveryAssumption
      <4> QED BY <1>1, <2>1, <2>2, <3>1, <4>1 DEF HandleOK, GateOK
    <3> QED BY <3>2, <3>3 DEF HandleOK
  <2>3. CASE ~(inst[i].open /\ InTouch(inst[i]))
    BY <1>1, <2>1, <2>3 DEF HandleOK, InTouch
  <2> QED BY <2>2, <2>3
<1> QED
  BY <1>3, <1>4, <1>5 DEF IInv

\* Every step of the primary and of time keeps the invariant.
LEMMA PrimaryStep ==
  ASSUME IInv,
         \/ PrimaryWrite \/ Stamp \/ Stall \/ Resume \/ Crash \/ PrimaryClose
         \/ CreateArena \/ CreateRings \/ Tick
  PROVE  IInv'
<1> USE RecoveryAssumption
<1>0. TypeOK /\ SegmentsOK
  BY DEF IInv, OneFate
<1>1. /\ made \in 1..MaxSegs /\ Stale \in Nat /\ MaxHead \in Nat /\ MaxSegs \in Nat
      /\ seg \in [Segs -> [age : Unstamped..Stale + 2, head : 0..MaxHead]]
      /\ Unstamped \in Int /\ Unstamped = -1 /\ made \in Segs
      /\ proc = [proc EXCEPT !.lastHb = proc.lastHb]
  BY <1>0 DEF TypeOK, Segs, Unstamped
<1>2. CASE PrimaryWrite
  <2>1. seg' \in [Segs -> [age : Unstamped..Stale + 2, head : 0..MaxHead]]
    BY <1>1, <1>2 DEF PrimaryWrite
  <2>2. \A s \in Segs : seg'[s].age = seg[s].age /\ seg[s].head <= seg'[s].head
    BY <1>1, <1>2 DEF PrimaryWrite
  <2>3. TypeOK'
    BY <1>0, <1>2, <2>1 DEF PrimaryWrite, TypeOK
  <2>4. SegmentsOK'
    BY <1>0, <1>2, <2>2 DEF PrimaryWrite, SegmentsOK, Segs, TypeOK
  <2>5. claimed' = claimed /\ inst' = inst /\ late' = late /\ proc' = proc
    BY <1>2 DEF PrimaryWrite
  <2> QED BY <1>1, <2>2, <2>3, <2>4, <2>5, PrimaryKeeps
<1>3. ASSUME Stamp \/ CreateRings PROVE IInv'
  <2>1. /\ seg' \in [Segs -> [age : Unstamped..Stale + 2, head : 0..MaxHead]]
        /\ \A s \in Segs : seg'[s].age = seg[s].age \/ seg'[s].age = 0
        /\ \A s \in Segs : seg[s].head <= seg'[s].head
        /\ \A s \in Segs : s # made => seg'[s] = seg[s]
    BY <1>1, <1>3 DEF Stamp, CreateRings
  <2>2. proc' = [proc EXCEPT !.lastHb = IF @ = made THEN 0 ELSE @] /\ made' = made
    BY <1>3 DEF Stamp, CreateRings, Stamped
  <2>3. proc' \in [mapped : 0..made, sub : 0..made, idx : BOOLEAN, subReady : BOOLEAN,
                   degraded : BOOLEAN, timer : BOOLEAN, ready : BOOLEAN, lastHb : 0..made]
    BY <1>0, <1>1, <2>2 DEF TypeOK
  <2>4. TypeOK'
    BY <1>0, <1>1, <1>3, <2>1, <2>2, <2>3 DEF Stamp, CreateRings, TypeOK
  <2>5. SegmentsOK'
    <3>1. named' = made /\ subNamed' = made /\ prim' = "up"
      BY <1>0, <1>3 DEF Stamp, CreateRings, SegmentsOK
    <3>2. \A s \in Segs : s > made => seg'[s].age = Unstamped
      BY <1>0, <1>1, <2>1 DEF SegmentsOK
    <3> QED BY <2>2, <3>1, <3>2 DEF SegmentsOK
  <2>6. \E n : proc' = [proc EXCEPT !.lastHb = n]
    BY <2>2
  <2>7. claimed' = claimed /\ inst' = inst /\ late' = late
    BY <1>3 DEF Stamp, CreateRings
  <2> QED BY <2>1, <2>4, <2>5, <2>6, <2>7, PrimaryKeeps
<1>4. ASSUME Stall \/ Resume \/ Crash \/ PrimaryClose PROVE IInv'
  <2>1. /\ seg' = seg /\ made' = made /\ proc' = proc /\ claimed' = claimed /\ inst' = inst
        /\ late' = late
        /\ (named' = named /\ subNamed' = subNamed) \/ (named' = 0 /\ subNamed' = 0)
        /\ faults' = faults \/ (faults' = faults + 1 /\ faults < MaxFaults)
        /\ prim' \in {"up", "stalled", "down", "starting"}
    BY <1>4 DEF Stall, Resume, Crash, PrimaryClose, Fault
  <2>2. TypeOK'
    BY <1>0, <1>1, <2>1 DEF TypeOK
  <2>3. SegmentsOK'
    BY <1>0, <1>4, <2>1 DEF Stall, Resume, Crash, PrimaryClose, SegmentsOK
  <2>4. \A s \in Segs : seg[s].head <= seg'[s].head
    BY <1>1, <2>1
  <2> QED BY <1>1, <2>1, <2>2, <2>3, <2>4, PrimaryKeeps
<1>5. CASE CreateArena
  <2>1. /\ made' = made + 1 /\ named' = made + 1 /\ made + 1 \in 1..MaxSegs /\ seg' = seg
        /\ subNamed' = subNamed /\ proc' = proc /\ claimed' = claimed /\ inst' = inst
        /\ late' = late
        /\ faults' = faults /\ prim' = "starting"
    BY <1>1, <1>5 DEF CreateArena
  <2>2. proc' \in [mapped : 0..made', sub : 0..made', idx : BOOLEAN, subReady : BOOLEAN,
                   degraded : BOOLEAN, timer : BOOLEAN, ready : BOOLEAN, lastHb : 0..made']
    BY <1>0, <1>1, <2>1 DEF TypeOK
  <2>3. inst' \in [Inst -> Handle']
    <3>1. Handle \subseteq Handle'
      <4>1. (-1..made) \X (0..MaxHead) \subseteq (-1..made') \X (0..MaxHead)
        BY <1>1, <2>1
      <4>2. Nowhere..made \subseteq Nowhere..made'
        BY <1>1, <2>1 DEF Nowhere
      <4> QED BY <4>1, <4>2 DEF Handle
    <3>2. inst \in [Inst -> Handle]
      BY <1>0 DEF TypeOK, Handle
    <3> QED BY <2>1, <3>1, <3>2
  <2>4. claimed' \subseteq 1..made' /\ {named', subNamed'} \subseteq 0..made' /\ made' \in Segs
    <3>1. claimed \subseteq 1..made /\ named \in 0..made /\ subNamed \in 0..made
      BY <1>0 DEF TypeOK
    <3>2. 1..made \subseteq 1..(made + 1) /\ 0..made \subseteq 0..(made + 1)
      BY <1>1
    <3> QED BY <1>1, <2>1, <3>1, <3>2 DEF Segs
  <2>5. TypeOK'
    BY <1>0, <1>1, <2>1, <2>2, <2>3, <2>4 DEF TypeOK, Handle
  <2>6. SegmentsOK'
    <3>1. made + 1 \in Segs /\ seg[made + 1].age = Unstamped
      BY <1>0, <1>1, <2>1 DEF SegmentsOK, Segs
    <3>2. \A s \in Segs : s > made + 1 => seg[s].age = Unstamped
      BY <1>0, <1>1 DEF SegmentsOK, Segs
    <3> QED BY <2>1, <3>1, <3>2 DEF SegmentsOK
  <2>7. \A s \in Segs : seg[s].head <= seg'[s].head
    BY <1>1, <2>1
  <2> QED BY <1>1, <2>1, <2>5, <2>6, <2>7, PrimaryKeeps
<1>6. CASE Tick
  <2>1. /\ seg' \in [Segs -> [age : Unstamped..Stale + 2, head : 0..MaxHead]]
        /\ \A s \in Segs : /\ seg'[s].head = seg[s].head
                           /\ seg'[s].age <= seg[s].age + 1
                           /\ seg[s].age = Unstamped => seg'[s].age = Unstamped
    BY <1>1, <1>6 DEF Tick
  <2>2. ASSUME NEW i \in Inst
        PROVE  /\ inst'[i] = [inst[i] EXCEPT !.gate = IF @ = 0 THEN 0 ELSE @ - 1]
               /\ inst[i] \in Handle
    BY <1>0, <1>6, TypeFacts DEF Tick
  <2>3. ASSUME NEW i \in Inst
        PROVE  /\ inst'[i] \in Handle /\ inst'[i].open = inst[i].open
               /\ inst'[i].dead = inst[i].dead /\ inst'[i].ring = inst[i].ring
               /\ inst'[i].cursor = inst[i].cursor /\ inst'[i].l1 = inst[i].l1
               /\ inst'[i].mark = inst[i].mark
               /\ inst'[i].gate = IF inst[i].gate = 0 THEN 0 ELSE inst[i].gate - 1
    <3> DEFINE g == IF inst[i].gate = 0 THEN 0 ELSE inst[i].gate - 1
    <3>1. inst[i].gate \in 0..2 /\ inst[i] \in Handle
      BY <2>2 DEF Handle
    <3>2. g \in 0..2
      BY <3>1
    <3>3. inst'[i] = [inst[i] EXCEPT !.gate = g]
      BY <2>2
    <3> HIDE DEF g
    <3>4. /\ inst'[i] \in Handle /\ inst'[i].open = inst[i].open
          /\ inst'[i].dead = inst[i].dead /\ inst'[i].ring = inst[i].ring
          /\ inst'[i].cursor = inst[i].cursor /\ inst'[i].l1 = inst[i].l1
          /\ inst'[i].mark = inst[i].mark /\ inst'[i].gate = g
      BY <3>1, <3>2, <3>3 DEF Handle
    <3> QED BY <3>4 DEF g
  <2>4. /\ made' = made /\ named' = named /\ subNamed' = subNamed /\ prim' = prim
        /\ proc' = proc /\ claimed' = claimed /\ faults' = faults /\ late' = late
        /\ inst' = [i \in Inst |-> inst'[i]]
    BY <1>6 DEF Tick
  <2>5. TypeOK'
    <3>1. inst' \in [Inst -> Handle]
      BY <2>3, <2>4
    <3> QED BY <1>0, <2>1, <2>4, <3>1 DEF TypeOK, Handle
  <2>6. Open' = Open
    BY <2>3 DEF Open
  <2>7. OneFate'
    BY <2>3, <2>4, <2>5, <2>6 DEF IInv, OneFate, Open
  <2>8. SegmentsOK'
    BY <1>0, <1>1, <2>1, <2>4 DEF SegmentsOK, TypeOK, Segs
  <2>9. Reopen = {} => SlotOK'
    BY <2>3, <2>4 DEF IInv, SlotOK
  <2>10. HandlesOK'
    <3>1. ASSUME NEW i \in Inst, ~inst'[i].open PROVE inst'[i] = Closed
      <4>1. inst[i] = Closed /\ inst[i].gate = 0
        BY <2>3, <3>1, <1>0, ConstantFacts DEF IInv, HandlesOK
      <4> QED BY <2>2, <4>1 DEF Closed
    <3> QED BY <2>3, <2>4, <3>1 DEF IInv, HandlesOK
  <2>11. ASSUME NEW i \in Inst \ late PROVE HandleOK(inst[i])'
    <3>1. SUFFICES ASSUME inst[i].open, InTouch(inst[i]) PROVE (Sound(inst[i]) /\ GateOK(inst[i]))'
      BY <2>3, <2>4 DEF HandleOK, InTouch
    <3>2. Sound(inst[i]) /\ GateOK(inst[i]) /\ proc.mapped \in Segs
      BY <1>0, <3>1, TypeFacts DEF IInv, HandleOK, InTouch
    <3>3. Sound(inst[i])'
      BY <2>1, <2>3, <2>4, <3>2 DEF Sound, Head
    <3>4. GateOK(inst[i])'
      <4>1. inst[i].gate \in 0..2
        BY <2>2 DEF Handle
      <4>2. seg[proc.mapped].age \in Int /\ seg'[proc.mapped].age \in Int
        BY <1>1, <2>1, <3>2
      <4> QED BY <1>1, <2>1, <2>3, <2>4, <3>2, <4>1, <4>2 DEF GateOK
    <3> QED BY <3>3, <3>4
  <2> QED BY <2>4, <2>7, <2>8, <2>9, <2>10, <2>11 DEF IInv
<1> QED
  BY <1>2, <1>3, <1>4, <1>5, <1>6
-----------------------------------------------------------------------------
(* The steps of the worker process *)

\* get, set and delete are one operation after one #checkPrimary.
LEMMA OperationShape ==
  ASSUME NEW i \in Inst, Get(i) \/ Set(i) \/ Delete(i)
  PROVE  \E c \in CheckPrimary(i) : \E r \in {Read(c.r), Filled(c.r), Write(c.r), Remove(c.r)} :
           Operation(i, c, r)
BY DEF Get, Set, Delete

\* Setting the gate leaves the other fields alone.
LEMMA GateSet ==
  ASSUME NEW q \in Handle
  PROVE  LET r == [q EXCEPT !.gate = 2] IN
         /\ r \in Handle /\ r.gate = 2 /\ r.open = q.open /\ r.dead = q.dead
         /\ r.ring = q.ring /\ r.cursor = q.cursor /\ r.l1 = q.l1 /\ r.mark = q.mark
<1>1. 2 \in 0..2
  OBVIOUS
<1> QED BY <1>1 DEF Handle

\* What #checkPrimary can answer: it finds the primary gone and the process
\* not yet aware of it, and the handle goes dead without its ring; or the
\* handle stays as it is, gate aside, and unless it was opened in the outage
\* that is going on it has either just looked or may still trust its last look.
LEMMA CheckCases ==
  ASSUME IInv, NEW i \in Inst, inst[i].open, NEW c \in CheckPrimary(i)
  PROVE  /\ c.r \in Handle /\ c.r.open /\ c.gone \in BOOLEAN
         /\ c.r.cursor = inst[i].cursor /\ c.r.l1 = inst[i].l1 /\ c.r.mark = inst[i].mark
         /\ \/ c.gone /\ proc.mapped # 0 /\ ~proc.degraded /\ c.r.dead /\ ~c.r.ring
            \/ /\ c.gone => proc.degraded
               /\ c.r.dead = inst[i].dead /\ c.r.ring = inst[i].ring
               /\ i \notin late /\ InTouch(inst[i]) => GateOK(c.r) /\ c.r.gate > 0
<1>0. /\ TypeOK /\ inst[i] \in Handle /\ (i \notin late => HandleOK(inst[i]))
      /\ inst[i].dead <=> (proc.degraded /\ i \notin late)
      /\ proc.degraded \in BOOLEAN
  BY TypeFacts DEF IInv, OneFate, Open
<1>1. CASE Skips(i) /\ c = [gone |-> FALSE, r |-> inst[i]]
  <2>1. c.gone = FALSE /\ c.r = inst[i]
    BY <1>1
  <2>2. i \notin late /\ InTouch(inst[i]) => GateOK(c.r) /\ c.r.gate > 0
    BY <1>0, <1>1, <2>1 DEF HandleOK, Skips, InTouch
  <2> QED BY <1>0, <2>1, <2>2
<1>2. CASE Asks(i) /\ ~Gone /\ c = [gone |-> Gone, r |-> [inst[i] EXCEPT !.gate = 2]]
  <2>1. ~c.gone /\ c.gone \in BOOLEAN /\ c.r = [inst[i] EXCEPT !.gate = 2]
    <3>1. c.gone = Gone /\ Gone = FALSE /\ c.r = [inst[i] EXCEPT !.gate = 2]
      BY <1>2 DEF Gone
    <3> QED BY <3>1
  <2>2. /\ c.r \in Handle /\ c.r.gate = 2 /\ c.r.open = inst[i].open
        /\ c.r.dead = inst[i].dead /\ c.r.ring = inst[i].ring
        /\ c.r.cursor = inst[i].cursor /\ c.r.l1 = inst[i].l1 /\ c.r.mark = inst[i].mark
    BY <1>0, <2>1, GateSet
  <2>3. InTouch(inst[i]) => GateOK(c.r)
    <3>1. InTouch(inst[i]) => seg[proc.mapped].age <= Stale
      BY <1>0, <1>2, TypeFacts DEF Gone, InTouch
    <3> QED BY <2>2, <3>1 DEF GateOK
  <2>4. c.r.open /\ c.r.gate > 0
    BY <2>2
  <2> QED BY <2>1, <2>2, <2>3, <2>4
<1>3. CASE Asks(i) /\ Gone /\ c = [gone |-> Gone, r |-> [DegradedInst[i] EXCEPT !.gate = 2]]
  <2>1. proc.mapped # 0 /\ c.gone = TRUE
    BY <1>3 DEF Gone
  <2>2. CASE ~proc.degraded
    <3> DEFINE q == [inst[i] EXCEPT !.dead = TRUE, !.ring = FALSE]
    <3>1. /\ q \in Handle /\ q.open = inst[i].open /\ q.dead = TRUE /\ q.ring = FALSE
          /\ q.cursor = inst[i].cursor /\ q.l1 = inst[i].l1 /\ q.mark = inst[i].mark
      BY <1>0 DEF Handle
    <3>2. c.r = [q EXCEPT !.gate = 2]
      BY <1>3, <2>2 DEF DegradedInst
    <3> HIDE DEF q
    <3> QED BY <2>1, <2>2, <3>1, <3>2, GateSet
  <2>3. CASE proc.degraded
    <3>1. i \in late
      BY <1>0, <1>3, <2>3 DEF Asks
    <3>2. c.r = [inst[i] EXCEPT !.gate = 2]
      BY <1>3, <2>3 DEF DegradedInst
    <3> QED BY <1>0, <2>1, <2>3, <3>1, <3>2, GateSet
  <2> QED BY <2>2, <2>3
<1> QED
  BY <1>1, <1>2, <1>3 DEF CheckPrimary

\* An operation of a handle keeps the invariant, also when it is the one that
\* finds the primary gone.
LEMMA OperationStep ==
  ASSUME IInv, NEW i \in Inst, Get(i) \/ Set(i) \/ Delete(i)
  PROVE  IInv'
<1>0. TypeOK /\ SegmentsOK /\ inst \in [Inst -> Handle] /\ proc.degraded \in BOOLEAN
  BY DEF IInv, OneFate, TypeOK, Handle
<1>1. PICK c \in CheckPrimary(i) : \E r \in {Read(c.r), Filled(c.r), Write(c.r), Remove(c.r)} :
             Operation(i, c, r)
  BY OperationShape
<1>2. PICK r \in {Read(c.r), Filled(c.r), Write(c.r), Remove(c.r)} : Operation(i, c, r)
  BY <1>1
<1>3. inst[i].open /\ UNCHANGED primary /\ late' = late
  BY <1>2 DEF Operation
<1>4. /\ c.r \in Handle /\ c.r.open /\ c.gone \in BOOLEAN
      /\ c.r.cursor = inst[i].cursor /\ c.r.l1 = inst[i].l1 /\ c.r.mark = inst[i].mark
      /\ \/ c.gone /\ proc.mapped # 0 /\ ~proc.degraded /\ c.r.dead /\ ~c.r.ring
         \/ /\ c.gone => proc.degraded
            /\ c.r.dead = inst[i].dead /\ c.r.ring = inst[i].ring
            /\ i \notin late /\ InTouch(inst[i]) => GateOK(c.r) /\ c.r.gate > 0
  BY <1>3, CheckCases
<1>5. i \notin late /\ InTouch(c.r) => InTouch(inst[i]) /\ Sound(c.r)
  <2>1. i \notin late => HandleOK(inst[i])
    BY DEF IInv
  <2> QED BY <1>3, <1>4, <2>1 DEF HandleOK, InTouch, Sound
<1>6. /\ r \in Handle /\ r.open /\ r.dead = c.r.dead /\ r.ring = c.r.ring /\ r.gate = c.r.gate
      /\ i \notin late /\ InTouch(c.r) => Sound(r)
  BY <1>0, <1>2, <1>4, <1>5, HandleStep
<1>7. /\ seg' = seg /\ made' = made /\ named' = named /\ subNamed' = subNamed
      /\ prim' = prim /\ faults' = faults
  BY <1>3 DEF primary
<1>8. SegmentsOK'
  BY <1>0, <1>7 DEF SegmentsOK
<1>9. CASE c.gone /\ ~proc.degraded
  <2>0. late = {}
    BY <1>9 DEF IInv, OneFate
  <2>1. ~proc.degraded /\ r.dead /\ ~r.ring
    BY <1>4, <1>6, <1>9
  <2>2. proc' = [mapped |-> 0, sub |-> 0, idx |-> FALSE, subReady |-> FALSE,
                 degraded |-> TRUE, timer |-> TRUE, ready |-> FALSE, lastHb |-> 0]
    BY <1>2, <1>9, <2>1 DEF Operation, DegradedProc
  <2>3. claimed' \subseteq claimed
    BY <1>2, <1>9, <2>1 DEF Operation, Released
  <2>4. inst' = [DegradedInst EXCEPT ![i] = r]
    BY <1>2, <1>9 DEF Operation
  <2>5. ASSUME NEW j \in Inst
        PROVE  /\ inst'[j] \in Handle /\ ~inst'[j].ring
               /\ inst'[j].open = inst[j].open
               /\ inst[j].open => inst'[j].dead
               /\ ~inst[j].open => inst'[j] = inst[j]
    <3>1. inst[j] \in Handle
      BY <1>0
    <3>2. CASE j = i
      BY <1>3, <1>6, <2>1, <2>4, <3>2 DEF DegradedInst, Handle
    <3>3. CASE j # i /\ inst[j].open
      <4>1. inst'[j] = [inst[j] EXCEPT !.dead = TRUE, !.ring = FALSE]
        BY <2>1, <2>4, <3>3 DEF DegradedInst
      <4> QED BY <3>1, <3>3, <4>1 DEF Handle
    <3>4. CASE j # i /\ ~inst[j].open
      <4>1. inst'[j] = inst[j] /\ inst[j] = Closed
        BY <2>4, <3>4 DEF DegradedInst, IInv, HandlesOK
      <4> QED BY <1>0, <3>1, <3>4, <4>1, ConstantFacts
    <3> QED BY <3>2, <3>3, <3>4
  <2>6. inst' \in [Inst -> Handle]
    BY <2>4, <2>5 DEF DegradedInst
  <2>7. TypeOK'
    <3>1. proc' \in [mapped : 0..made, sub : 0..made, idx : BOOLEAN, subReady : BOOLEAN,
                     degraded : BOOLEAN, timer : BOOLEAN, ready : BOOLEAN, lastHb : 0..made]
      BY <1>0, <2>2, TypeFacts
    <3> QED BY <1>0, <1>3, <1>7, <2>3, <2>6, <3>1 DEF TypeOK, Handle
  <2>8. OneFate'
    <3>1. Open' # {}
      BY <1>3, <2>5 DEF Open
    <3>2. \A j \in Open' : inst'[j].dead
      BY <2>5 DEF Open
    <3> QED BY <1>3, <2>0, <2>2, <2>7, <3>1, <3>2 DEF OneFate
  <2>9. SlotOK'
    BY <1>3, <2>0, <2>2, <2>5 DEF SlotOK
  <2>10. HandlesOK'
    BY <2>2, <2>5 DEF HandlesOK, IInv
  <2>11. ASSUME NEW j \in Inst PROVE HandleOK(inst[j])'
    BY <2>2 DEF HandleOK, InTouch
  <2> QED BY <1>8, <2>8, <2>9, <2>10, <2>11 DEF IInv
<1>10. CASE c.gone => proc.degraded
  <2>1. proc' = proc /\ claimed' = claimed /\ inst' = [inst EXCEPT ![i] = r]
    <3>1. proc.degraded => DegradedInst = inst
      BY <1>0 DEF DegradedInst
    <3> QED BY <1>2, <1>10, <3>1 DEF Operation, DegradedProc
  <2>2. r.dead = inst[i].dead /\ r.ring = inst[i].ring
    BY <1>4, <1>6, <1>10
  <2>3. inst' \in [Inst -> Handle] /\ inst'[i] = r
    BY <1>0, <1>6, <2>1
  <2>4. \A j \in Inst : j # i => inst'[j] = inst[j]
    BY <1>0, <2>1
  <2>5. TypeOK'
    BY <1>0, <1>3, <1>7, <2>1, <2>3 DEF TypeOK, Handle
  <2>6. Open' = Open
    BY <1>3, <1>6, <2>3, <2>4 DEF Open
  <2>7. OneFate'
    BY <1>3, <2>1, <2>2, <2>3, <2>4, <2>5, <2>6 DEF OneFate, IInv, Open
  <2>8. (Reopen = {} => SlotOK') /\ HandlesOK'
    BY <1>3, <1>6, <2>1, <2>2, <2>3, <2>4 DEF SlotOK, HandlesOK, IInv
  <2>9. ASSUME i \notin late PROVE HandleOK(inst[i])'
    <3>1. SUFFICES ASSUME InTouch(r) PROVE (Sound(inst[i]) /\ GateOK(inst[i]))'
      BY <2>1, <2>3 DEF HandleOK, InTouch
    <3>2. InTouch(c.r) /\ InTouch(inst[i])
      BY <1>6, <2>2, <3>1 DEF InTouch
    <3>3. Sound(r) /\ GateOK(r)
      BY <1>4, <1>6, <1>10, <2>9, <3>2 DEF GateOK
    <3> QED BY <1>7, <2>1, <2>3, <3>3 DEF Sound, GateOK, Head
  <2>10. ASSUME NEW j \in Inst \ late, j # i PROVE HandleOK(inst[j])'
    <3>1. HandleOK(inst[j]) /\ inst'[j] = inst[j]
      BY <2>4, <2>10 DEF IInv
    <3> QED BY <1>7, <2>1, <3>1 DEF HandleOK, InTouch, Sound, GateOK, Head
  <2> QED BY <1>3, <1>8, <2>7, <2>8, <2>9, <2>10 DEF IInv
<1> QED
  BY <1>4, <1>9, <1>10
\* The fields of the process.
Process == [mapped : 0..made, sub : 0..made, idx : BOOLEAN, subReady : BOOLEAN,
            degraded : BOOLEAN, timer : BOOLEAN, ready : BOOLEAN, lastHb : 0..made]

\* A poll keeps the invariant: the rings of an arena with a recent heartbeat
\* are the ones named, so the slot it takes is in them.
LEMMA PollStep ==
  ASSUME IInv, Poll
  PROVE  IInv'
<1> USE RecoveryAssumption
<1>0. /\ TypeOK /\ SegmentsOK /\ inst \in [Inst -> Handle] /\ proc \in Process
      /\ proc.timer /\ proc.degraded
      /\ late = {} => proc.mapped = 0 /\ ~proc.idx /\ ~proc.ready
      /\ Reopen = {} => late = {} /\ ~proc.idx /\ ~proc.subReady
  <2>1. TypeOK /\ SegmentsOK /\ proc.timer
    BY DEF Poll, IInv, OneFate
  <2>2. inst \in [Inst -> Handle] /\ proc \in Process
    BY <2>1 DEF TypeOK, Handle, Process
  <2>3. proc.degraded /\ (late = {} => proc.mapped = 0 /\ ~proc.idx /\ ~proc.ready)
    BY <2>1 DEF IInv, OneFate
  <2>4. Reopen = {} => late = {} /\ ~proc.idx /\ ~proc.subReady
    BY <2>3 DEF IInv, SlotOK
  <2> QED BY <2>1, <2>2, <2>3, <2>4
<1>1. /\ seg' = seg /\ made' = made /\ named' = named /\ subNamed' = subNamed
      /\ prim' = prim /\ faults' = faults
  BY DEF Poll, primary
<1>2. SegmentsOK'
  BY <1>0, <1>1 DEF SegmentsOK
<1>3. ASSUME proc' = Refused, UNCHANGED <<claimed, inst, late>> PROVE IInv'
  <2>1. /\ proc' \in Process /\ proc'.mapped = 0 /\ proc'.sub = proc.sub
        /\ proc'.idx = proc.idx /\ proc'.subReady = proc.subReady
        /\ proc'.degraded = proc.degraded /\ proc'.timer = proc.timer
        /\ proc'.ready => proc.ready
    <3>1. 0 \in 0..made /\ named \in 0..made
      BY <1>0, TypeFacts
    <3>2. CASE named = 0
      <4>1. proc' = [proc EXCEPT !.mapped = 0]
        BY <1>3, <3>2 DEF Refused
      <4> QED BY <1>0, <3>1, <4>1 DEF Process
    <3>3. CASE named # 0
      <4>1. proc' = [proc EXCEPT !.mapped = 0, !.ready = FALSE, !.lastHb = named]
        BY <1>3, <3>3 DEF Refused
      <4> QED BY <1>0, <3>1, <4>1 DEF Process
    <3> QED BY <3>2, <3>3
  <2>2. TypeOK'
    BY <1>0, <1>1, <1>3, <2>1 DEF TypeOK, Process
  <2>3. OneFate'
    BY <1>3, <2>1, <2>2 DEF IInv, OneFate, Open
  <2>4. Reopen = {} => SlotOK'
    BY <1>0, <1>3, <2>1 DEF IInv, SlotOK
  <2>5. HandlesOK'
    BY <1>0, <1>3, <2>1 DEF IInv, HandlesOK
  <2>6. ASSUME NEW i \in Inst PROVE HandleOK(inst[i])'
    BY <2>1 DEF HandleOK, InTouch
  <2> QED BY <1>2, <1>3, <2>3, <2>4, <2>5, <2>6 DEF IInv
<1>4. ASSUME Alive(named), NEW users \in SUBSET Open,
             LET p == [proc EXCEPT !.timer = FALSE, !.degraded = FALSE, !.ready = TRUE,
                                   !.mapped = named]
             IN /\ proc' = WithRing(p, users)
                /\ claimed' = ClaimedBy(p, users)
                /\ inst' = [i \in Inst |->
                     IF i \in Open THEN RecoveredHandle(inst[i], i \in users /\ subNamed # 0)
                     ELSE inst[i]],
             late' = {}
      PROVE  IInv'
  <2>1. named \in 1..made /\ named \in Segs
    BY <1>0, <1>4, TypeFacts DEF Alive, Segs
  <2>2. /\ subNamed = named /\ seg[named].age <= Half /\ seg[named].age \in Int
        /\ Half \in Nat /\ Half <= Stale
    <3>1. subNamed = named /\ seg[named].age <= Half /\ seg[named].age \in Int
      BY <1>0, <1>4, <2>1, TypeFacts DEF Alive, SegmentsOK, Unstamped
    <3> QED BY <3>1 DEF Half
  <2> DEFINE p == [proc EXCEPT !.timer = FALSE, !.degraded = FALSE, !.ready = TRUE,
                               !.mapped = named]
  <2>3. /\ p \in Process /\ p.mapped = named /\ p.sub = proc.sub /\ p.idx = proc.idx
        /\ p.subReady = proc.subReady /\ p.degraded = FALSE /\ p.timer = FALSE
        /\ p.ready = TRUE
    <3>1. named \in 0..made
      BY <1>0, TypeFacts
    <3> QED BY <1>0, <3>1 DEF Process
  <2> HIDE DEF p
  <2>4. /\ proc' = WithRing(p, users) /\ claimed' = ClaimedBy(p, users)
        /\ inst' = [i \in Inst |->
             IF i \in Open THEN RecoveredHandle(inst[i], i \in users /\ subNamed # 0)
             ELSE inst[i]]
    BY <1>4 DEF p
  <2>5. /\ proc' \in Process /\ proc'.mapped = named /\ proc'.degraded = FALSE
        /\ proc'.timer = FALSE /\ proc'.ready = TRUE
        /\ IF users = {} THEN proc'.idx = proc.idx /\ proc'.subReady = proc.subReady
                         ELSE /\ proc'.idx = TRUE /\ proc'.subReady = TRUE
                              /\ proc'.sub = named
    <3>1. CASE users = {}
      BY <2>3, <2>4, <3>1 DEF WithRing
    <3>2. CASE users # {}
      <4>1. proc' = [p EXCEPT !.sub = named, !.idx = TRUE, !.subReady = TRUE]
        BY <2>1, <2>2, <2>4, <3>2 DEF WithRing
      <4>2. named \in 0..made
        BY <1>0, TypeFacts
      <4> QED BY <2>3, <3>2, <4>1, <4>2 DEF Process
    <3> QED BY <3>1, <3>2
  <2>6. claimed' = IF users = {} \/ proc.idx THEN claimed ELSE claimed \cup {named}
    BY <2>1, <2>2, <2>3, <2>4 DEF ClaimedBy
  <2>7. ASSUME NEW i \in Inst
        PROVE  /\ inst'[i] \in Handle /\ inst'[i].open = inst[i].open
               /\ ~inst[i].open => inst'[i] = Closed
               /\ inst[i].open =>
                    /\ inst'[i].dead = FALSE /\ inst'[i].l1 = NoEntry /\ inst'[i].mark = 0
                    /\ inst'[i].ring = (i \in users) /\ inst'[i].cursor = seg[named].head
    <3>1. CASE inst[i].open
      <4> DEFINE q == inst[i]
                 u == i \in users
      <4>1. inst'[i] = [q EXCEPT !.dead = FALSE, !.ring = u, !.cursor = seg[named].head,
                                 !.l1 = NoEntry, !.mark = 0]
        <5>1. (i \in users /\ subNamed # 0) = (i \in users)
          BY <2>1, <2>2
        <5>2. i \in Open
          BY <3>1 DEF Open
        <5>3. inst'[i] = RecoveredHandle(inst[i], i \in users /\ subNamed # 0)
          BY <2>4, <5>2
        <5> QED BY <5>1, <5>3 DEF RecoveredHandle
      <4>2. /\ q \in Handle /\ u \in BOOLEAN /\ seg[named].head \in 0..MaxHead
            /\ NoEntry \in (-1..made) \X (0..MaxHead) /\ 0 \in Nowhere..made
        BY <1>0, <2>1, TypeFacts, ConstantFacts
      <4>3. q.open
        BY <3>1
      <4> HIDE DEF q, u
      <4>4. /\ inst'[i] \in Handle /\ inst'[i].open = q.open
            /\ inst'[i].dead = FALSE /\ inst'[i].l1 = NoEntry /\ inst'[i].mark = 0
            /\ inst'[i].ring = u /\ inst'[i].cursor = seg[named].head
        BY <4>1, <4>2 DEF Handle
      <4> QED BY <3>1, <4>4 DEF q, u
    <3>2. CASE ~inst[i].open
      BY <1>0, <2>4, <3>2 DEF IInv, HandlesOK, Open
    <3> QED BY <3>1, <3>2
  <2>8. inst' \in [Inst -> Handle] /\ Open' = Open
    BY <2>4, <2>7 DEF Open
  <2>9. TypeOK'
    <3>1. claimed' \subseteq 1..made
      BY <1>0, <2>1, <2>6 DEF TypeOK
    <3> QED BY <1>0, <1>1, <1>4, <2>5, <2>8, <3>1 DEF TypeOK, Handle, Process
  <2>10. OneFate'
    BY <1>4, <2>5, <2>7, <2>8, <2>9 DEF OneFate, Open
  <2>11. ASSUME Reopen = {} PROVE SlotOK'
    <3>1. \A i \in Inst : inst'[i].ring => i \in users
      BY <2>7, <1>0, ConstantFacts
    <3> QED BY <1>0, <1>4, <2>1, <2>5, <2>6, <2>11, <3>1 DEF SlotOK
  <2>12. HandlesOK'
    BY <2>5, <2>7 DEF HandlesOK
  <2>13. ASSUME NEW i \in Inst PROVE HandleOK(inst[i])'
    <3>1. SUFFICES ASSUME inst[i].open PROVE (Sound(inst[i]) /\ GateOK(inst[i]))'
      BY <2>7 DEF HandleOK
    <3>2. Sound(inst[i])'
      <4>1. seg[named].head \in 0..MaxHead /\ MaxHead \in Nat
        BY <1>0, <2>1, TypeFacts
      <4>2. Head' = seg[named].head
        BY <1>1, <2>5 DEF Head
      <4>3. inst'[i].cursor = seg[named].head /\ inst'[i].l1 = NoEntry /\ inst'[i].mark = 0
        BY <2>7, <3>1
      <4> QED BY <4>1, <4>2, <4>3 DEF Sound
    <3>3. GateOK(inst[i])'
      BY <1>1, <2>2, <2>5 DEF GateOK
    <3> QED BY <3>2, <3>3
  <2> QED BY <1>2, <2>10, <2>11, <2>12, <2>13 DEF IInv
<1> QED
  BY <1>3, <1>4 DEF Poll

\* Opening a handle keeps the invariant: in an outage it is one of the late,
\* otherwise it shares a store or is the first to attach.
LEMMA OpenStep ==
  ASSUME IInv, NEW i \in Inst, OpenHandle(i)
  PROVE  IInv'
<1> DEFINE p == Attached
<1>0. /\ TypeOK /\ SegmentsOK /\ inst \in [Inst -> Handle] /\ proc \in Process
      /\ ~inst[i].open /\ MayOpen /\ (proc.ready \/ named # 0)
      /\ late' = IF proc.degraded THEN late \cup {i} ELSE late
  <2>1. TypeOK /\ SegmentsOK
    BY DEF IInv, OneFate
  <2>2. inst \in [Inst -> Handle] /\ proc \in Process
    BY <2>1 DEF TypeOK, Handle, Process
  <2> QED BY <2>1, <2>2 DEF OpenHandle
<1>1. /\ seg' = seg /\ made' = made /\ named' = named /\ subNamed' = subNamed
      /\ prim' = prim /\ faults' = faults
  BY DEF OpenHandle, primary
<1>2. SegmentsOK'
  BY <1>0, <1>1 DEF SegmentsOK
<1>3. PICK users \in SUBSET {i} :
       /\ (proc.ready /\ ~proc.subReady) => users = {}
       /\ proc' = WithRing(Attached, users)
       /\ claimed' = ClaimedBy(Attached, users)
       /\ inst' = [inst EXCEPT ![i] =
            [Closed EXCEPT !.open = TRUE, !.ring = users # {} /\ subNamed # 0]]
  BY DEF OpenHandle
<1>4. /\ p \in Process /\ p.ready = TRUE
      /\ p.sub = proc.sub /\ p.idx = proc.idx /\ p.subReady = proc.subReady
      /\ p.degraded = proc.degraded /\ p.timer = proc.timer
      /\ IF proc.ready THEN p.mapped = proc.mapped ELSE p.mapped = named /\ named # 0
  <2>1. named \in 0..made
    BY <1>0, TypeFacts
  <2>2. CASE proc.ready
    BY <1>0, <2>2 DEF Attached, Process
  <2>3. CASE ~proc.ready
    <3>1. p = [proc EXCEPT !.mapped = named, !.ready = TRUE]
      BY <2>3 DEF Attached
    <3> QED BY <1>0, <2>1, <2>3, <3>1 DEF Process
  <2> QED BY <2>2, <2>3
<1> HIDE DEF p
<1>5. /\ proc' \in Process /\ proc'.mapped = p.mapped /\ proc'.ready = TRUE
      /\ proc'.degraded = proc.degraded /\ proc'.timer = proc.timer
      /\ IF users = {} \/ subNamed = 0
           THEN proc'.idx = proc.idx /\ proc'.subReady = proc.subReady /\ proc'.sub = proc.sub
           ELSE proc'.idx = TRUE /\ proc'.subReady = TRUE /\ proc'.sub = subNamed
  <2>1. CASE users = {} \/ subNamed = 0
    BY <1>3, <1>4, <2>1 DEF WithRing, p
  <2>2. CASE ~(users = {} \/ subNamed = 0)
    <3>1. proc' = [p EXCEPT !.sub = subNamed, !.idx = TRUE, !.subReady = TRUE]
      BY <1>3, <2>2 DEF WithRing, p
    <3>2. subNamed \in 0..made
      BY <1>0, TypeFacts
    <3> QED BY <1>4, <2>2, <3>1, <3>2 DEF Process
  <2> QED BY <2>1, <2>2
<1>6. /\ claimed \subseteq claimed' /\ claimed' \subseteq claimed \cup ({subNamed} \ {0})
      /\ ~(users = {} \/ subNamed = 0) /\ ~proc.idx => subNamed \in claimed'
  BY <1>3, <1>4 DEF ClaimedBy, p
<1>8. ASSUME NEW j \in Inst, j # i PROVE inst'[j] = inst[j]
  BY <1>0, <1>3, <1>8
<1>9. /\ inst'[i] \in Handle /\ inst'[i].open = TRUE /\ inst'[i].dead = FALSE
      /\ inst'[i].cursor = 0 /\ inst'[i].l1 = NoEntry /\ inst'[i].mark = 0
      /\ inst'[i].gate = 0 /\ (inst'[i].ring => ~(users = {} \/ subNamed = 0))
  <2> DEFINE u == users # {} /\ subNamed # 0
  <2>1. /\ Closed \in Handle /\ Closed.dead = FALSE /\ Closed.cursor = 0
        /\ Closed.l1 = NoEntry /\ Closed.mark = 0 /\ Closed.gate = 0
    BY <1>0, ConstantFacts DEF Closed
  <2>2. inst'[i] = [Closed EXCEPT !.open = TRUE, !.ring = u] /\ u \in BOOLEAN
    BY <1>0, <1>3
  <2> HIDE DEF u
  <2>3. /\ inst'[i] \in Handle /\ inst'[i].open = TRUE /\ inst'[i].dead = Closed.dead
        /\ inst'[i].cursor = Closed.cursor /\ inst'[i].l1 = Closed.l1
        /\ inst'[i].mark = Closed.mark /\ inst'[i].gate = Closed.gate /\ inst'[i].ring = u
    BY <2>1, <2>2 DEF Handle
  <2> QED BY <2>1, <2>3 DEF u
<1>10. inst' \in [Inst -> Handle]
  <2>1. \A j \in Inst : inst'[j] \in Handle
    BY <1>0, <1>8, <1>9
  <2> QED BY <1>0, <1>3, <2>1
<1>11. TypeOK'
  <2>1. claimed' \subseteq 1..made
    BY <1>0, <1>6, TypeFacts DEF TypeOK
  <2>2. late' \subseteq Inst
    BY <1>0 DEF TypeOK
  <2> QED BY <1>0, <1>1, <1>5, <1>10, <2>1, <2>2 DEF TypeOK, Handle, Process
<1>12. OneFate'
  <2>1. i \in Open' /\ \A j \in Open' : j # i => j \in Open
    BY <1>8, <1>9 DEF Open
  <2>2. \A j \in Open : inst[j].dead <=> (proc.degraded /\ j \notin late)
    BY DEF IInv, OneFate
  <2>3. ASSUME NEW j \in Open'
        PROVE  inst'[j].dead <=> (proc'.degraded /\ j \notin late')
    <3>1. j \in Inst
      BY DEF Open
    <3>2. CASE j = i
      BY <1>0, <1>5, <1>9, <3>2
    <3>3. CASE j # i
      BY <1>0, <1>5, <1>8, <2>1, <2>2, <3>1, <3>3
    <3> QED BY <3>2, <3>3
  <2>4. /\ late' # {} => proc'.degraded
        /\ proc'.degraded <=> proc'.timer
        /\ proc'.degraded => late' # {}
    BY <1>0, <1>5 DEF IInv, OneFate
  <2> QED BY <1>11, <2>1, <2>3, <2>4 DEF OneFate
<1>13. ASSUME Reopen = {} PROVE SlotOK'
  <2>1. /\ SlotOK /\ ~proc.degraded /\ late' = {}
        /\ proc.idx => subNamed \in {0, proc.sub}
        /\ ~proc.ready => subNamed = named
    BY <1>0, <1>13 DEF IInv, SlotOK, MayOpen, RingsAtHand
  <2>2. p.mapped # 0
    BY <1>4, <2>1 DEF SlotOK
  <2>3. ASSUME ~(users = {} \/ subNamed = 0)
        PROVE  p.mapped = subNamed /\ subNamed \in claimed'
    <3>1. CASE ~proc.ready
      BY <1>4, <1>6, <2>1, <2>3, <3>1 DEF SlotOK
    <3>2. CASE proc.ready
      <4>1. proc.subReady
        BY <1>3, <2>3, <3>2
      <4>2. proc.idx /\ proc.sub = proc.mapped /\ proc.sub \in claimed
        BY <2>1, <4>1 DEF SlotOK
      <4> QED BY <1>4, <1>6, <2>1, <2>3, <3>2, <4>2
    <3> QED BY <3>1, <3>2
  <2>4. proc'.idx => proc'.sub \in claimed' /\ proc'.sub = proc'.mapped /\ proc'.mapped # 0
    <3>1. CASE users = {} \/ subNamed = 0
      BY <1>4, <1>5, <1>6, <2>1, <3>1 DEF SlotOK
    <3>2. CASE ~(users = {} \/ subNamed = 0)
      BY <1>5, <2>2, <2>3, <3>2
    <3> QED BY <3>1, <3>2
  <2>5. \A j \in Inst : inst'[j].ring => proc'.idx
    BY <1>5, <1>8, <1>9, <2>1 DEF SlotOK
  <2>6. proc'.idx <=> proc'.subReady
    BY <1>5, <2>1 DEF SlotOK
  <2> QED BY <1>5, <2>1, <2>2, <2>4, <2>5, <2>6 DEF SlotOK
<1>14. HandlesOK'
  BY <1>5, <1>8, <1>9 DEF IInv, HandlesOK
<1>15. ASSUME NEW j \in Inst \ late' PROVE HandleOK(inst[j])'
  <2>1. CASE j = i
    <3>1. SUFFICES ASSUME proc'.mapped # 0 PROVE (Sound(inst[j]) /\ GateOK(inst[j]))'
      BY DEF HandleOK, InTouch
    <3>2. Head' \in Nat
      <4>1. proc'.mapped \in Segs
        BY <1>0, <1>5, <3>1, TypeFacts DEF Segs, Process
      <4>2. seg[proc'.mapped].head \in 0..MaxHead /\ MaxHead \in Nat
        BY <1>0, <4>1, TypeFacts
      <4> QED BY <1>1, <4>2 DEF Head
    <3>3. Sound(inst[j])'
      BY <1>9, <2>1, <3>2 DEF Sound
    <3>4. GateOK(inst[j])'
      BY <1>9, <2>1 DEF GateOK
    <3> QED BY <3>3, <3>4
  <2>2. CASE j # i /\ inst[j].open
    <3>1. j \notin late /\ HandleOK(inst[j]) /\ inst'[j] = inst[j]
      BY <1>0, <1>8, <2>2 DEF IInv
    <3>2. CASE proc.degraded
      <4>1. inst[j].dead
        BY <2>2, <3>1, <3>2 DEF IInv, OneFate, Open
      <4> QED BY <3>1, <4>1 DEF HandleOK, InTouch
    <3>3. CASE ~proc.degraded
      <4>1. proc'.mapped = proc.mapped
        BY <1>4, <1>5, <2>2, <3>3 DEF IInv, HandlesOK
      <4> QED BY <1>1, <3>1, <4>1 DEF HandleOK, InTouch, Sound, GateOK, Head
    <3> QED BY <3>2, <3>3
  <2>3. CASE j # i /\ ~inst[j].open
    BY <1>8, <2>3 DEF HandleOK
  <2> QED BY <2>1, <2>2, <2>3
<1> QED
  BY <1>2, <1>12, <1>13, <1>14, <1>15 DEF IInv

\* Closing a handle keeps the invariant: the slot goes with its last user and
\* the poll with the last handle.
LEMMA CloseStep ==
  ASSUME IInv, NEW i \in Inst, Close(i)
  PROVE  IInv'
<1>0. /\ TypeOK /\ SegmentsOK /\ inst \in [Inst -> Handle] /\ proc \in Process
      /\ inst[i].open
  <2>1. TypeOK /\ SegmentsOK
    BY DEF IInv, OneFate
  <2> QED BY <2>1 DEF TypeOK, Handle, Process, Close
<1>1. /\ seg' = seg /\ made' = made /\ named' = named /\ subNamed' = subNamed
      /\ prim' = prim /\ faults' = faults
  BY DEF Close, primary
<1>2. SegmentsOK'
  BY <1>0, <1>1 DEF SegmentsOK
<1>3. /\ proc' = ClosedProc(i) /\ inst' = [inst EXCEPT ![i] = Closed]
      /\ claimed' = IF StillUsingRing(i) THEN claimed ELSE Released
      /\ late' = IF Open = {i} /\ proc.timer THEN {} ELSE late
  BY DEF Close, EndsOutage
<1>4. /\ inst'[i] = Closed /\ inst' \in [Inst -> Handle]
      /\ \A j \in Inst : j # i => inst'[j] = inst[j]
  BY <1>0, <1>3, ConstantFacts
<1>5. /\ proc' \in Process /\ proc'.mapped = proc.mapped /\ proc'.sub = proc.sub
      /\ proc'.ready = proc.ready
      /\ IF StillUsingRing(i) THEN proc'.idx = proc.idx /\ proc'.subReady = proc.subReady
                              ELSE proc'.idx = FALSE /\ proc'.subReady = FALSE
      /\ IF Open = {i} /\ proc.timer
           THEN proc'.degraded = FALSE /\ proc'.timer = FALSE
           ELSE proc'.degraded = proc.degraded /\ proc'.timer = proc.timer
  <2> DEFINE t == IF Open = {i} /\ proc.timer THEN FALSE ELSE proc.timer
             d == IF Open = {i} /\ proc.timer THEN FALSE ELSE proc.degraded
             x == IF StillUsingRing(i) THEN proc.idx ELSE FALSE
             y == IF StillUsingRing(i) THEN proc.subReady ELSE FALSE
  <2>1. proc' = [proc EXCEPT !.timer = t, !.degraded = d, !.idx = x, !.subReady = y]
    BY <1>3 DEF ClosedProc, EndsOutage
  <2>2. {t, d, x, y} \subseteq BOOLEAN
    BY <1>0 DEF Process
  <2> HIDE DEF t, d, x, y
  <2>3. /\ proc' \in Process /\ proc'.mapped = proc.mapped /\ proc'.sub = proc.sub
        /\ proc'.ready = proc.ready /\ proc'.timer = t /\ proc'.degraded = d /\ proc'.idx = x /\ proc'.subReady = y
    BY <1>0, <2>1, <2>2 DEF Process
  <2> QED BY <2>3 DEF t, d, x, y
<1>6. claimed' \subseteq claimed
  BY <1>3 DEF Released
<1>7. TypeOK'
  <2>1. late' \subseteq Inst
    BY <1>0, <1>3 DEF TypeOK
  <2> QED BY <1>0, <1>1, <1>4, <1>5, <1>6, <2>1 DEF TypeOK, Handle, Process
<1>8. Open' = Open \ {i}
  BY <1>0, <1>4, ConstantFacts DEF Open
<1>9. OneFate'
  <2>1. (proc.degraded <=> proc.timer) /\ (late # {} => proc.degraded)
    BY DEF IInv, OneFate
  <2>2. CASE Open = {i} /\ proc.timer
    <3>1. Open' = {} /\ late' = {} /\ proc'.degraded = FALSE /\ proc'.timer = FALSE
      BY <1>3, <1>5, <1>8, <2>2
    <3> QED BY <1>7, <3>1 DEF OneFate
  <2>3. CASE ~(Open = {i} /\ proc.timer)
    <3>1. late' = late /\ proc'.degraded = proc.degraded /\ proc'.timer = proc.timer
      BY <1>3, <1>5, <2>3
    <3>2. proc'.degraded => Open' # {}
      BY <1>0, <1>8, <2>1, <2>3, <3>1 DEF Open
    <3>3. ASSUME NEW j \in Open' PROVE inst'[j].dead <=> (proc'.degraded /\ j \notin late')
      <4>1. j \in Open /\ j \in Inst /\ j # i
        BY <1>8 DEF Open
      <4> QED BY <1>4, <3>1, <4>1 DEF IInv, OneFate
    <3>4. proc'.degraded /\ late' = {} =>
            proc'.mapped = 0 /\ proc'.sub = 0 /\ ~proc'.idx /\ ~proc'.ready
      BY <1>5, <3>1 DEF IInv, OneFate
    <3> QED BY <1>7, <2>1, <3>1, <3>2, <3>3, <3>4 DEF OneFate
  <2> QED BY <2>2, <2>3
<1>10. ASSUME Reopen = {} PROVE SlotOK'
  <2>0. SlotOK /\ late' = {}
    BY <1>3, <1>10 DEF IInv, SlotOK
  <2>1. CASE StillUsingRing(i)
    BY <1>3, <1>4, <1>5, <1>0, <2>0, <2>1, ConstantFacts DEF SlotOK
  <2>2. CASE ~StillUsingRing(i)
    <3>1. \A j \in Inst : ~inst'[j].ring
      <4>1. \A j \in Inst : j # i /\ inst[j].open => ~inst[j].ring
        BY <2>2 DEF StillUsingRing, Open
      <4>2. \A j \in Inst : ~inst[j].open => ~inst[j].ring
        BY <1>0, ConstantFacts DEF IInv, HandlesOK
      <4> QED BY <1>0, <1>4, <4>1, <4>2, ConstantFacts
    <3> QED BY <1>5, <2>0, <2>2, <3>1 DEF SlotOK
  <2> QED BY <2>1, <2>2
<1>11. ASSUME NEW j \in Inst, inst'[j].open
       PROVE  j # i /\ inst[j].open /\ inst'[j] = inst[j] /\ Open # {i}
  BY <1>0, <1>4, <1>11, ConstantFacts DEF Open
<1>12. HandlesOK'
  <2>1. \A j \in Inst : ~inst'[j].open => inst'[j] = Closed
    BY <1>4 DEF IInv, HandlesOK
  <2>2. \A j \in Inst : inst'[j].open /\ ~proc'.degraded => proc'.ready
    BY <1>5, <1>11 DEF IInv, HandlesOK
  <2>3. proc'.mapped # 0 => proc'.ready
    BY <1>5 DEF IInv, HandlesOK
  <2> QED BY <2>1, <2>2, <2>3 DEF HandlesOK
<1>13. ASSUME NEW j \in Inst \ late' PROVE HandleOK(inst[j])'
  <2>1. CASE ~inst'[j].open
    BY <2>1 DEF HandleOK
  <2>2. CASE inst'[j].open
    <3>1. j \notin late /\ inst'[j] = inst[j]
      BY <1>3, <1>11, <2>2
    <3>2. HandleOK(inst[j])
      BY <3>1 DEF IInv
    <3> QED BY <1>1, <1>5, <3>1, <3>2 DEF HandleOK, InTouch, Sound, GateOK, Head
  <2> QED BY <2>1, <2>2
<1> QED
  BY <1>2, <1>9, <1>10, <1>12, <1>13 DEF IInv
-----------------------------------------------------------------------------
(* The theorems *)

\* The invariant holds at the start.
LEMMA InitIInv == Init => IInv
<1> SUFFICES ASSUME Init PROVE IInv
  OBVIOUS
<1> USE RecoveryAssumption DEF Init
<1>1. TypeOK
  <2>1. MaxSegs \in Nat /\ 1 \in Segs /\ MaxHead \in Nat /\ MaxFaults \in Nat /\ Stale \in Nat
    BY DEF Segs
  <2>2. seg \in [Segs -> [age : Unstamped..Stale + 2, head : 0..MaxHead]]
    BY <2>1 DEF Unstamped
  <2>3. inst \in [Inst -> Handle]
    BY <2>1 DEF Handle, Closed, NoEntry, Nowhere
  <2>4. /\ made \in Segs /\ {named, subNamed} \subseteq 0..made /\ claimed \subseteq 1..made
        /\ faults \in 0..MaxFaults
    BY <2>1
  <2>5. proc \in [mapped : 0..made, sub : 0..made, idx : BOOLEAN, subReady : BOOLEAN,
                  degraded : BOOLEAN, timer : BOOLEAN, ready : BOOLEAN, lastHb : 0..made]
    OBVIOUS
  <2> QED BY <2>2, <2>3, <2>4, <2>5 DEF TypeOK, Handle
<1>2. \A i \in Inst : inst[i] = Closed /\ ~inst[i].open /\ ~inst[i].ring
  BY DEF Closed
<1>3. OneFate
  BY <1>1, <1>2 DEF OneFate, Open
<1>4. SegmentsOK
  BY DEF SegmentsOK, Segs
<1>5. SlotOK /\ HandlesOK /\ \A i \in Inst : HandleOK(inst[i])
  BY <1>2 DEF SlotOK, HandlesOK, HandleOK
<1> QED BY <1>3, <1>4, <1>5 DEF IInv

\* Every step keeps the invariant.
LEMMA NextIInv ==
  ASSUME IInv, [Next]_vars
  PROVE  IInv'
<1>1. CASE UNCHANGED vars
  BY <1>1 DEF vars, IInv, OneFate, TypeOK, SegmentsOK, SlotOK, HandlesOK, HandleOK,
     InTouch, Sound, GateOK, Head, Open
<1>2. CASE Next
  BY <1>2, PrimaryStep, PollStep, OperationStep, OpenStep, CloseStep DEF Next
<1> QED BY <1>1, <1>2

\* The invariant holds throughout, whenever handles are opened.
LEMMA RecoveryInvariant == Spec => []IInv
BY InitIInv, NextIInv, PTL DEF Spec

\* The handles of a process lose and find the primary together, those opened
\* in an outage being the only ones alive in it; unless there are such nothing
\* is mapped then; and a poll runs exactly while the process is without a
\* primary (#degrade, #tryRecover, open, close).
THEOREM OneFateHolds == Spec => []OneFate
<1>1. IInv => OneFate
  BY DEF IInv
<1> QED BY <1>1, RecoveryInvariant, PTL

\* A handle submits only through a slot its process owns, in the rings of the
\* primary whose arena is mapped, across any number of crashes and restarts,
\* where no handle is opened in an outage, nor while the name of the rings
\* stands for others than those of the slot or of the arena.
THEOREM SlotOwnedHolds ==
  ASSUME Reopen = {}
  PROVE  Spec => []SlotOwned
<1>1. IInv => SlotOwned
  BY DEF IInv, SlotOK, SlotOwned, Open
<1> QED BY <1>1, RecoveryInvariant, PTL

\* After a recovery nothing a handle holds is from an earlier arena; a handle
\* opened in an outage is excepted until the outage ends.
THEOREM NothingFromBeforeHolds == Spec => []NothingFromBefore
<1>1. IInv => NothingFromBefore
  BY DEF IInv, HandleOK, Sound, NothingFromBefore, Open
<1> QED BY <1>1, RecoveryInvariant, PTL

\* A value enters L1 from an arena only while that arena's heartbeat is at
\* most one gate older than primaryStaleMs (#checkPrimary), except in a handle
\* opened in the outage that is going on.
THEOREM TrustBoundedHolds == Spec => TrustBounded
<1> DEFINE Trust == \A i \in Inst \ late : (inst[i].l1 = NoEntry /\ inst'[i].l1[1] > 0)
                                             => seg[inst'[i].l1[1]].age <= Stale + 1
<1>1. ASSUME IInv, Next PROVE Trust
  <2>0. TypeOK /\ Stale \in Nat /\ inst \in [Inst -> Handle] /\ NoEntry[1] = -1
    <3>1. TypeOK
      BY <1>1 DEF IInv, OneFate
    <3> QED BY <3>1, RecoveryAssumption, ConstantFacts DEF TypeOK, Handle
  <2>1. SUFFICES ASSUME NEW j \in Inst \ late, inst[j].l1 = NoEntry, inst'[j].l1[1] > 0
                 PROVE  seg[inst'[j].l1[1]].age <= Stale + 1
    OBVIOUS
  <2>2. inst'[j].l1 # inst[j].l1
    BY <2>0, <2>1
  <2>3. ASSUME NEW i \in Inst, Get(i) \/ Set(i) \/ Delete(i)
        PROVE  seg[inst'[j].l1[1]].age <= Stale + 1
    <3>1. PICK c \in CheckPrimary(i) : \E r \in {Read(c.r), Filled(c.r), Write(c.r), Remove(c.r)} :
                 Operation(i, c, r)
      BY <2>3, OperationShape
    <3>2. PICK r \in {Read(c.r), Filled(c.r), Write(c.r), Remove(c.r)} : Operation(i, c, r)
      BY <3>1
    <3>3. /\ inst[i].open
          /\ inst' = [IF c.gone THEN DegradedInst ELSE inst EXCEPT ![i] = r]
      BY <3>2 DEF Operation
    <3>4. j = i /\ inst'[j] = r
      <4>1. CASE j = i
        BY <2>0, <3>3, <4>1 DEF DegradedInst
      <4>2. CASE j # i
        <5>1. inst'[j] \in {inst[j], DegradedInst[j]}
          BY <2>0, <3>3, <4>2 DEF DegradedInst
        <5>2. DegradedInst[j].l1 = inst[j].l1
          BY <2>0 DEF DegradedInst, Handle
        <5> QED BY <2>2, <5>1, <5>2
      <4> QED BY <4>1, <4>2
    <3>5. /\ c.r \in Handle /\ c.r.l1 = inst[i].l1
          /\ \/ c.r.dead
             \/ /\ c.r.dead = inst[i].dead
                /\ InTouch(inst[i]) => GateOK(c.r) /\ c.r.gate > 0
      BY <1>1, <3>3, <3>4, CheckCases
    <3>6. InTouch(c.r) => InTouch(inst[i])
      BY <3>5 DEF InTouch
    <3>7. InTouch(c.r) /\ r.l1[1] = proc.mapped
      BY <2>0, <2>1, <3>2, <3>4, <3>5, HandleStep
    <3>8. GateOK(c.r) /\ c.r.gate \in 1..2
      BY <3>5, <3>6, <3>7 DEF InTouch, Handle
    <3>9. seg[proc.mapped].age \in Int
      BY <2>0, <3>7, TypeFacts DEF InTouch
    <3> QED BY <2>0, <3>4, <3>7, <3>8, <3>9 DEF GateOK
  <2>4. ASSUME \/ PrimaryWrite \/ Stamp \/ Stall \/ Resume \/ Crash \/ PrimaryClose
               \/ CreateArena \/ CreateRings \/ Tick
        PROVE  FALSE
    <3>1. CASE Tick
      BY <2>0, <2>2, <3>1 DEF Tick, Handle
    <3> QED BY <2>2, <2>4, <3>1 DEF PrimaryWrite, Stamp, Stall, Resume, Crash,
               PrimaryClose, CreateArena, CreateRings
  <2>5. ASSUME Poll PROVE FALSE
    <3>1. inst'[j].l1 \in {inst[j].l1, NoEntry}
      <4>1. inst[j] \in Handle
        BY <2>0
      <4>2. ASSUME NEW u
            PROVE  RecoveredHandle(inst[j], u).l1 = NoEntry
        BY <4>1 DEF RecoveredHandle, Handle
      <4>3. \/ inst'[j] = inst[j]
            \/ \E u : inst'[j] = RecoveredHandle(inst[j], u)
        BY <2>5 DEF Poll
      <4> QED BY <4>2, <4>3
    <3> QED BY <2>1, <2>2, <3>1
  <2>6. ASSUME NEW i \in Inst, OpenHandle(i) \/ Close(i) PROVE FALSE
    <3>1. inst'[j].l1 \in {inst[j].l1, NoEntry}
      <4>1. \/ inst'[j] = inst[j] \/ inst'[j] = Closed
            \/ \E u : inst'[j] = [Closed EXCEPT !.open = TRUE, !.ring = u]
        BY <2>0, <2>6 DEF OpenHandle, Close
      <4>2. ASSUME NEW u
            PROVE  [Closed EXCEPT !.open = TRUE, !.ring = u].l1 = NoEntry /\ Closed.l1 = NoEntry
        BY DEF Closed
      <4> QED BY <4>1, <4>2
    <3> QED BY <2>1, <2>2, <3>1
  <2> QED BY <1>1, <2>3, <2>4, <2>5, <2>6 DEF Next
<1>2. ASSUME IInv, [Next]_vars PROVE [Trust]_vars
  BY <1>1, <1>2
<1> QED BY <1>2, RecoveryInvariant, PTL DEF Spec, TrustBounded
=============================================================================
