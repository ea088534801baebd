--------------------------- MODULE FailCapProofs ---------------------------
(***************************************************************************)
(* Proofs about FailCap, for any number of workers, any values, lifetimes, *)
(* ring size and writer ids: a cap puts nothing back and prolongs nothing, *)
(* it reaches the copies in every L1, and a loss reported as proven is one.*)
(***************************************************************************)
EXTENDS FailCap, FiniteSetTheorems, SequenceTheorems, TLAPS

Vals == Values \cup {NoValue}
Writers == Nat \cup {FlushAll}
Entries == [val : Vals, life : Nat, at : Nat]
Lasts == [val : Vals, life : Nat]
Copies == [val : Vals, life : Nat, own : Int]
Submitted == [by : Nat, val : Vals, life : Nat]
Refusable == [val : Values, ttl : Nat]
Guards == [val : Vals, at : Nat, due : Nat, left : Nat, counted : BOOLEAN]
Requests == [op : {"r"}, val : Values, cap : Nat \ {0}]
            \cup [op : {"c"}, val : {NoValue}, cap : {0}]

\* Types; a guard was taken at a position of the ring, and ends in time.
Typed ==
  /\ sub \in [Workers -> Seq(Submitted)] /\ reqs \in [Workers -> Seq(Requests)]
  /\ l1 \in [Procs -> Copies] /\ owed \in [Procs -> Seq(Refusable)]
  /\ cursor \in [Workers -> Nat] /\ dead \subseteq Workers
  /\ guard \in [Workers -> Guards]
  /\ lost \in [Workers -> [unapplied : Nat, unconfirmed : Nat]]

Positions ==
  \A w \in Workers :
    /\ cursor[w] <= RingHead /\ guard[w].at <= RingHead
    /\ guard[w].due <= guard[w].left /\ guard[w].left <= FailTtl + Window

\* What the arena, the ring and the history are together: the entry is the
\* newest value published, for no longer than was asked, and has its record.
Sound(st) ==
  /\ st \in [arena : Entries, ring : Seq(Writers), last : Lasts]
  /\ st.arena.at <= Len(st.ring)
  /\ st.arena.val # NoValue =>
       st.arena.val = st.last.val /\ Within(st.arena.life, st.last.life)

\* A copy of what the arena holds ends with it.
CopyEnds(copy, entry) ==
  copy.val # NoValue /\ copy.own = None /\ copy.val = entry.val
    => Within(copy.life, entry.life)

IInv == Typed /\ Positions /\ Sound(State) /\ CapReaches

-----------------------------------------------------------------------------
(* Batches: a drain applies finitely many records, all of them submitted *)

LEMMA Places1 ==
  ASSUME NEW W, IsFiniteSet(W), NEW S, NEW queue \in [W -> Seq(S)]
  PROVE  /\ IsFiniteSet(Places(queue)) /\ Cardinality(Places(queue)) \in Nat
         /\ \A p \in Places(queue) : queue[p[1]][p[2]] \in S
<1> DEFINE part(w) == {w} \X DOMAIN queue[w]
           f == [w \in W |-> part(w)]
           T == {part(w) : w \in W}
<1>1. IsFiniteSet(T)
  <2>1. f \in [W -> T] /\ \A t \in T : \E w \in W : f[w] = t
    OBVIOUS
  <2>2. f \in Surjection(W, T)
    BY <2>1 DEF Surjection
  <2> QED
    BY <2>2, FS_Surjection
<1>2. \A w \in W : IsFiniteSet(part(w))
  <2> TAKE w \in W
  <2>1. DOMAIN queue[w] = 1 .. Len(queue[w]) /\ Len(queue[w]) \in Nat
    OBVIOUS
  <2>2. IsFiniteSet(DOMAIN queue[w])
    BY <2>1, FS_Interval
  <2> QED
    BY <2>2, FS_Singleton, FS_Product
<1>3. Places(queue) = UNION T
  BY DEF Places
<1>4. IsFiniteSet(Places(queue))
  BY <1>1, <1>2, <1>3, FS_UNION
<1>5. \A p \in Places(queue) : queue[p[1]][p[2]] \in S
  <2> SUFFICES ASSUME NEW p \in Places(queue) PROVE queue[p[1]][p[2]] \in S
    OBVIOUS
  <2>1. PICK w \in W : p \in part(w)
    BY <1>3
  <2>2. p[1] = w /\ p[2] \in DOMAIN queue[w] /\ queue[w] \in Seq(S)
    BY <2>1
  <2> QED
    BY <2>2
<1> QED
  BY <1>4, <1>5, FS_CardinalityType

LEMMA BatchType ==
  ASSUME Typed, NEW s \in Batches
  PROVE  s \in Seq(Submitted)
<1> DEFINE n == Cardinality(Places(sub))
<1>1. sub \in [Workers -> Seq(Submitted)] /\ IsFiniteSet(Workers)
  BY FailCapAssumption DEF Typed
<1>2. n \in Nat /\ \A p \in Places(sub) : sub[p[1]][p[2]] \in Submitted
  BY <1>1, Places1
<1>3. PICK f \in [1 .. n -> Places(sub)] : s = [i \in 1 .. n |-> sub[f[i][1]][f[i][2]]]
  BY DEF Batches, RingAfterRing
<1> HIDE DEF n
<1>4. \A i \in 1 .. n : sub[f[i][1]][f[i][2]] \in Submitted
  BY <1>2, <1>3
<1> QED
  BY <1>2, <1>3, <1>4, IsASeq

-----------------------------------------------------------------------------
(* What a publication, a drain and a cap make of the arena *)

LEMMA PublishSound ==
  ASSUME NEW st, Sound(st), NEW writer \in Writers, NEW val \in Vals, NEW life \in Nat
  PROVE  LET new == Publish(st, writer, val, life) IN
         /\ Sound(new) /\ Len(new.ring) = Len(st.ring) + 1
         /\ new.arena.val = val /\ new.arena.life = life
<1>1. /\ st.ring \in Seq(Writers) /\ Append(st.ring, writer) \in Seq(Writers)
      /\ Len(Append(st.ring, writer)) = Len(st.ring) + 1 /\ Len(st.ring) \in Nat
  BY DEF Sound
<1>2. Within(life, life)
  BY DEF Within
<1> QED
  BY <1>1, <1>2 DEF Publish, Sound, Entries, Lasts

LEMMA CapSound ==
  ASSUME NEW st, Sound(st), NEW val \in Values, NEW cap \in Nat \ {0}
  PROVE  LET new == CapArena(st, val, cap) IN
         /\ Sound(new)
         /\ \/ new = st
            \/ Len(new.ring) = Len(st.ring) + 1 /\ new.arena.val = val /\ new.arena.life = cap
         /\ st.arena.val = val => Within(new.arena.life, cap)
<1>1. val \in Vals /\ val # NoValue /\ 0 \in Writers
  BY FailCapAssumption DEF Vals, Writers
<1>2. /\ st.ring \in Seq(Writers) /\ Len(st.ring) \in Nat
      /\ st.arena.life \in Nat /\ st.last.life \in Nat
  BY DEF Sound, Entries, Lasts
<1>3. CASE st.arena.val # val \/ (st.arena.life > 0 /\ st.arena.life <= cap)
  BY <1>2, <1>3 DEF CapArena, Within
<1>4. CASE st.arena.val = val /\ ~(st.arena.life > 0 /\ st.arena.life <= cap)
  <2> DEFINE rg == Append(st.ring, 0)
             a == [val |-> val, life |-> cap, at |-> Len(st.ring) + 1]
  <2>1. rg \in Seq(Writers) /\ Len(rg) = Len(st.ring) + 1 /\ a \in Entries
    BY <1>1, <1>2 DEF Entries
  <2>2. CapArena(st, val, cap) = [st EXCEPT !.arena = a, !.ring = rg]
    BY <1>4 DEF CapArena
  <2> HIDE DEF rg
  <2>3. Within(cap, st.last.life) /\ val = st.last.val /\ Within(cap, cap)
    BY <1>1, <1>2, <1>4 DEF Sound, Within
  <2>4. PICK new : new = [arena |-> a, ring |-> rg, last |-> st.last]
    OBVIOUS
  <2>5. CapArena(st, val, cap) = new
    BY <2>2, <2>4 DEF Sound
  <2>6. Sound(new)
    BY <1>2, <2>1, <2>3, <2>4 DEF Sound
  <2>7. Len(new.ring) = Len(st.ring) + 1 /\ new.arena.val = val /\ new.arena.life = cap
    BY <2>1, <2>4
  <2> QED
    BY <2>3, <2>5, <2>6, <2>7
<1> QED
  BY <1>3, <1>4

LEMMA DrainedSound ==
  ASSUME Typed, Sound(State), NEW s \in Batches
  PROVE  /\ Sound(Drained(s))
         /\ Drained(s) = State \/ Len(Drained(s).ring) > RingHead
<1>1. s \in Seq(Submitted)
  BY BatchType
<1>2. State.arena = arena /\ State.ring = ring /\ State.last = last /\ ring \in Seq(Writers)
  BY DEF State, Sound
<1>3. CASE s = <<>>
  BY <1>3 DEF Drained
<1>4. CASE s # <<>>
  <2> DEFINE more == [i \in DOMAIN s |-> s[i].by]
             rg == ring \o more
             r == Last(s)
  <2>1. Len(s) \in Nat /\ Len(s) > 0 /\ DOMAIN s = 1 .. Len(s)
    BY <1>1, <1>4
  <2>2. \A i \in 1 .. Len(s) : s[i] \in Submitted
    BY <1>1, <2>1, ElementOfSeq
  <2>3. more \in Seq(Writers) /\ Len(more) = Len(s)
    <3>1. \A i \in 1 .. Len(s) : s[i].by \in Writers
      BY <2>2 DEF Submitted, Writers
    <3>2. more = [i \in 1 .. Len(s) |-> s[i].by]
      BY <2>1
    <3> HIDE DEF more
    <3>3. more \in [1 .. Len(s) -> Writers]
      BY <3>1, <3>2
    <3> QED
      BY <2>1, <3>3
  <2>4. rg \in Seq(Writers) /\ Len(rg) = RingHead + Len(s)
    <3> HIDE DEF more
    <3>1. ring \in Seq(Writers) /\ more \in Seq(Writers)
      BY <1>2, <2>3
    <3>2. ring \o more \in Seq(Writers) /\ Len(ring \o more) = Len(ring) + Len(more)
      BY <3>1, ConcatProperties
    <3> QED
      BY <2>3, <3>2 DEF RingHead
  <2>5. r \in Submitted
    BY <2>1, <2>2 DEF Last
  <2>6. Drained(s) = [arena |-> [val |-> r.val, life |-> r.life, at |-> RingHead + Len(s)],
                      ring |-> rg, last |-> [val |-> r.val, life |-> r.life]]
    BY <1>4 DEF Drained
  <2>7. RingHead \in Nat
    BY <1>2 DEF RingHead
  <2> HIDE DEF rg, r
  <2>8. Within(r.life, r.life)
    BY <2>5 DEF Submitted, Within
  <2> QED
    BY <2>1, <2>4, <2>5, <2>6, <2>7, <2>8 DEF Sound, Entries, Lasts, Submitted
<1> QED
  BY <1>3, <1>4

-----------------------------------------------------------------------------
(* What the steps have in common *)

LEMMA Basics ==
  /\ Primary \in Procs /\ Primary \notin Workers /\ \A w \in Workers : w \in Procs /\ w # Primary
  /\ \A p \in Procs : p = Primary \/ p \in Workers
  /\ NoValue \in Vals /\ NoValue \notin Values /\ \A v \in Values : v \in Vals
  /\ NoCopy \in Copies /\ NoCopy.val = NoValue
  /\ NoGuard \in Guards /\ NoGuard.at = 0 /\ NoGuard.due = 0 /\ NoGuard.left = 0
  /\ FailTtl \in Nat /\ FailTtl > 0 /\ Window \in Nat
  /\ 0 \in Writers /\ FlushAll \in Writers /\ \A p \in Procs : WriterId[p] \in Nat
BY FailCapAssumption DEF Procs, Vals, Copies, Guards, NoCopy, NoGuard, None, Writers

LEMMA RemoveType ==
  ASSUME NEW S, NEW s \in Seq(S), NEW i \in DOMAIN s
  PROVE  RemoveAt(s, i) \in Seq(S)
<1>1. /\ Len(s) \in Nat /\ i \in 1 .. Len(s) /\ i \in Int
      /\ i - 1 \in Int /\ i + 1 \in Int /\ Len(s) \in Int
      /\ \A j \in 1 .. Len(s) : s[j] \in S
  BY LenProperties, ElementOfSeq
<1>2. \A j \in 1 .. (i - 1) : s[j] \in S
  BY <1>1
<1>3. \A j \in (i + 1) .. Len(s) : s[j] \in S
  BY <1>1
<1>4. SubSeq(s, 1, i - 1) \in Seq(S)
  BY <1>1, <1>2, SubSeqProperties
<1>5. SubSeq(s, i + 1, Len(s)) \in Seq(S)
  BY <1>1, <1>3, SubSeqProperties
<1> QED
  BY <1>4, <1>5, ConcatProperties DEF RemoveAt

LEMMA AppendType ==
  ASSUME NEW D, NEW S, NEW f \in [D -> Seq(S)], NEW d \in D, NEW e \in S
  PROVE  [f EXCEPT ![d] = Append(@, e)] \in [D -> Seq(S)]
<1>1. Append(f[d], e) \in Seq(S)
  BY AppendProperties
<1> QED
  BY <1>1

LEMMA StateFacts ==
  ASSUME Sound(State)
  PROVE  /\ State.arena = arena /\ State.ring = ring /\ State.last = last
         /\ arena \in Entries /\ ring \in Seq(Writers) /\ last \in Lasts
         /\ RingHead \in Nat /\ RingHead = Len(ring) /\ arena.at <= RingHead
         /\ arena.val # NoValue => arena.val = last.val /\ Within(arena.life, last.life)
<1>1. State.arena = arena /\ State.ring = ring /\ State.last = last
  BY DEF State
<1>2. arena \in Entries /\ ring \in Seq(Writers) /\ last \in Lasts
  BY <1>1 DEF Sound
<1> QED
  BY <1>1, <1>2 DEF Sound, RingHead

LEMMA NewState ==
  ASSUME NEW st, Becomes(st), Sound(st)
  PROVE  Sound(State)' /\ RingHead' = Len(st.ring) /\ RingHead' \in Nat
<1>1. st = [arena |-> st.arena, ring |-> st.ring, last |-> st.last] /\ st.ring \in Seq(Writers)
  BY DEF Sound
<1>2. State' = st
  BY <1>1 DEF Becomes, State
<1>3. Sound(State')
  BY <1>2
<1>4. RingHead' = Len(st.ring)
  BY DEF RingHead, Becomes
<1> QED
  BY <1>1, <1>3, <1>4

LEMMA SameState ==
  ASSUME Sound(State), UNCHANGED <<arena, ring, last>>
  PROVE  Sound(State)' /\ RingHead' = RingHead
<1>1. State' = State /\ RingHead' = RingHead
  BY DEF State, RingHead
<1> QED
  BY <1>1

\* A copy that is not a new one, unless a write of the worker itself.
Remains(new, old) ==
  \/ new = old \/ new.val = NoValue \/ new.own # None
  \/ new.val = old.val /\ new.own = old.own /\ Within(new.life, old.life)

LEMMA WithinTrans ==
  ASSUME NEW a \in Nat, NEW b \in Nat, NEW c \in Nat, Within(a, b), Within(b, c)
  PROVE  Within(a, c)
BY DEF Within

\* A record is ahead of every worker once the arena has changed.
LEMMA CapReachesStep ==
  ASSUME IInv, Typed', RingHead' \in Nat, RingHead' >= RingHead,
         cursor' = cursor, dead \subseteq dead',
         arena' = arena \/ arena'.val = NoValue \/ RingHead' > RingHead,
         \A w \in Workers : Remains(l1'[w], l1[w]),
         CopyEnds(l1'[Primary], arena')
  PROVE  CapReaches'
<1>1. /\ RingHead \in Nat /\ arena \in Entries /\ l1 \in [Procs -> Copies]
      /\ l1' \in [Procs -> Copies] /\ cursor \in [Workers -> Nat]
      /\ \A w \in Workers : cursor[w] <= RingHead
  BY StateFacts DEF IInv, Typed, Positions
<1> SUFFICES ASSUME NEW p \in Procs, p \notin dead', l1'[p].val # NoValue,
                    l1'[p].own = None, l1'[p].val = arena'.val
             PROVE  Within(l1'[p].life, arena'.life) \/ (p \in Workers /\ RingHead' > cursor'[p])
  BY DEF CapReaches
<1>2. CASE p = Primary
  BY <1>2 DEF CopyEnds
<1>3. CASE p \in Workers
  <2>1. CASE RingHead' > RingHead
    BY <1>1, <1>3, <2>1
  <2>2. CASE RingHead' = RingHead /\ arena' = arena
    <3>1. l1[p].val = l1'[p].val /\ l1[p].own = None /\ Within(l1'[p].life, l1[p].life)
      BY <1>1, <1>3 DEF Remains, Within, Copies
    <3>2. Within(l1[p].life, arena.life) \/ RingHead > cursor[p]
      BY <1>3, <2>2, <3>1, Basics DEF IInv, CapReaches
    <3>3. l1'[p].life \in Nat /\ l1[p].life \in Nat /\ arena.life \in Nat
      BY <1>1 DEF Copies, Entries
    <3>4. CASE RingHead > cursor[p]
      BY <1>3, <2>2, <3>4
    <3>5. CASE Within(l1[p].life, arena.life)
      BY <2>2, <3>1, <3>3, <3>5, WithinTrans
    <3> QED
      BY <3>2, <3>4, <3>5
  <2> QED
    BY <1>1, <2>1, <2>2
<1> QED
  BY <1>2, <1>3, Basics

\* The positions keep while guards are given up or only counted.
LEMMA PositionsStep ==
  ASSUME IInv, RingHead' \in Nat, RingHead' >= RingHead, cursor' = cursor,
         \A w \in Workers :
           \/ guard'[w].at = guard[w].at /\ guard'[w].due = guard[w].due
              /\ guard'[w].left = guard[w].left
           \/ guard'[w] = NoGuard
  PROVE  Positions'
<1>1. RingHead \in Nat /\ cursor \in [Workers -> Nat] /\ guard \in [Workers -> Guards]
  BY StateFacts DEF IInv, Typed
<1> SUFFICES ASSUME NEW w \in Workers
             PROVE  /\ cursor'[w] <= RingHead' /\ guard'[w].at <= RingHead'
                    /\ guard'[w].due <= guard'[w].left
                    /\ guard'[w].left <= FailTtl + Window
  BY DEF Positions
<1>2. /\ cursor[w] <= RingHead /\ guard[w].at <= RingHead
      /\ guard[w].due <= guard[w].left /\ guard[w].left <= FailTtl + Window
      /\ cursor[w] \in Nat /\ guard[w].at \in Nat
  BY <1>1 DEF IInv, Positions, Guards
<1> QED
  BY <1>1, <1>2, Basics

-----------------------------------------------------------------------------
(* One lemma per action *)

\* Set, Delete and ClearAll on the primary: one publication, and no old copy.
LEMMA PrimaryWriteIInv ==
  ASSUME IInv, NEW writer \in Writers, NEW val \in Vals, NEW life \in Nat,
         Becomes(Publish(State, writer, val, life)),
         NEW copy \in Copies, copy.val = NoValue \/ (copy.val = val /\ copy.life = life),
         l1' = [l1 EXCEPT ![Primary] = copy],
         owed' \in [Procs -> Seq(Refusable)],
         UNCHANGED <<sub, guard, cursor, reqs, dead, lost>>
  PROVE  IInv'
<1>1. PICK st : st = Publish(State, writer, val, life)
  OBVIOUS
<1>2. /\ Sound(st) /\ Len(st.ring) = Len(State.ring) + 1
      /\ st.arena.val = val /\ st.arena.life = life
  BY <1>1, PublishSound DEF IInv
<1>3. State.ring = ring /\ RingHead = Len(ring) /\ RingHead \in Nat
  BY StateFacts DEF IInv
<1>4. Sound(State)' /\ RingHead' = RingHead + 1
  BY <1>1, <1>2, <1>3, NewState
<1>5. Typed'
  BY Basics DEF IInv, Typed
<1>6. Positions'
  BY <1>3, <1>4, PositionsStep
<1>7. CapReaches'
  <2>1. \A w \in Workers : Remains(l1'[w], l1[w])
    BY Basics DEF Remains, IInv, Typed
  <2>2. CopyEnds(l1'[Primary], arena')
    BY <1>1, <1>2, Basics DEF CopyEnds, IInv, Typed, Becomes, Within
  <2> QED
    BY <1>3, <1>4, <1>5, <2>1, <2>2, CapReachesStep
<1> QED
  BY <1>4, <1>5, <1>6, <1>7 DEF IInv

\* The same on a worker: the arena is not touched and the guard cancelled.
LEMMA WorkerWriteIInv ==
  ASSUME IInv, NEW p \in Workers, NEW copy \in Copies, copy.val = NoValue \/ copy.own # None,
         l1' = [l1 EXCEPT ![p] = copy],
         guard' = [guard EXCEPT ![p] = NoGuard],
         sub' \in [Workers -> Seq(Submitted)], reqs' \in [Workers -> Seq(Requests)],
         owed' \in [Procs -> Seq(Refusable)],
         UNCHANGED <<arena, ring, last, cursor, dead, lost>>
  PROVE  IInv'
<1>1. Sound(State)' /\ RingHead' = RingHead /\ RingHead \in Nat
  BY SameState, StateFacts DEF IInv
<1>2. Typed'
  BY Basics DEF IInv, Typed
<1>3. Positions'
  BY <1>1, PositionsStep DEF IInv, Typed
<1>4. CapReaches'
  <2>1. \A w \in Workers : Remains(l1'[w], l1[w])
    BY Basics DEF Remains, IInv, Typed
  <2>2. CopyEnds(l1'[Primary], arena')
    BY Basics, FailCapAssumption DEF CopyEnds, IInv, Typed, CapReaches
  <2> QED
    BY <1>1, <1>2, <2>1, <2>2, CapReachesStep
<1> QED
  BY <1>1, <1>2, <1>3, <1>4 DEF IInv

LEMMA SetIInv ==
  ASSUME IInv, NEW p \in Procs, NEW v \in Values, NEW ttl \in Ttls, Set(p, v, ttl)
  PROVE  IInv'
<1> DEFINE copy == [val |-> v, life |-> ttl, own |-> IF p = Primary THEN None ELSE RingHead]
           rec == [by |-> WriterId[p], val |-> v, life |-> ttl]
<1>1. ttl \in Nat /\ v \in Vals /\ RingHead \in Nat
  BY FailCapAssumption, Basics, StateFacts DEF IInv
<1>2. copy \in Copies /\ copy.val = v /\ copy.life = ttl
  BY <1>1 DEF Copies, None
<1>3. owed' \in [Procs -> Seq(Refusable)]
  <2>1. [val |-> v, ttl |-> ttl] \in Refusable
    BY <1>1 DEF Refusable
  <2> QED
    BY <2>1 DEF Set, IInv, Typed
<1>4. l1' = [l1 EXCEPT ![p] = copy] /\ UNCHANGED <<cursor, reqs, dead, lost>>
  BY DEF Set
<1>5. CASE p = Primary
  <2>1. Becomes(Publish(State, 0, v, ttl)) /\ UNCHANGED <<sub, guard>>
    BY <1>5 DEF Set
  <2> HIDE DEF copy
  <2> QED
    BY <1>1, <1>2, <1>3, <1>4, <1>5, <2>1, Basics, PrimaryWriteIInv
<1>6. CASE p \in Workers
  <2>1. rec \in Submitted /\ copy.own # None
    BY <1>1, <1>6, Basics DEF Submitted, None
  <2>2. /\ sub' = [sub EXCEPT ![p] = Append(@, rec)]
        /\ guard' = [guard EXCEPT ![p] = NoGuard] /\ UNCHANGED <<arena, ring, last>>
    BY <1>6, Basics DEF Set
  <2> HIDE DEF copy, rec
  <2>3. sub' \in [Workers -> Seq(Submitted)] /\ reqs' \in [Workers -> Seq(Requests)]
    <3>1. sub \in [Workers -> Seq(Submitted)] /\ reqs \in [Workers -> Seq(Requests)]
      BY DEF IInv, Typed
    <3> QED
      BY <1>4, <1>6, <2>1, <2>2, <3>1, AppendType
  <2> QED
    BY <1>2, <1>3, <1>4, <1>6, <2>1, <2>2, <2>3, WorkerWriteIInv
<1> QED
  BY <1>5, <1>6, Basics

LEMMA DeleteIInv ==
  ASSUME IInv, NEW p \in Procs, Delete(p)
  PROVE  IInv'
<1> DEFINE rec == [by |-> WriterId[p], val |-> NoValue, life |-> 0]
<1>1. /\ l1' = [l1 EXCEPT ![p] = NoCopy] /\ UNCHANGED <<cursor, owed, reqs, dead, lost>>
      /\ owed' \in [Procs -> Seq(Refusable)]
  BY DEF Delete, IInv, Typed
<1>2. CASE p = Primary
  <2>1. Becomes(Publish(State, 0, NoValue, 0)) /\ UNCHANGED <<sub, guard>>
    BY <1>2 DEF Delete
  <2> QED
    BY <1>1, <1>2, <2>1, Basics, PrimaryWriteIInv
<1>3. CASE p \in Workers
  <2>1. rec \in Submitted
    BY Basics DEF Submitted
  <2>2. /\ sub' = [sub EXCEPT ![p] = Append(@, rec)]
        /\ guard' = [guard EXCEPT ![p] = NoGuard] /\ UNCHANGED <<arena, ring, last>>
    BY <1>3, Basics DEF Delete
  <2> HIDE DEF rec
  <2>3. sub' \in [Workers -> Seq(Submitted)] /\ reqs' \in [Workers -> Seq(Requests)]
    <3>1. sub \in [Workers -> Seq(Submitted)] /\ reqs \in [Workers -> Seq(Requests)]
      BY DEF IInv, Typed
    <3> QED
      BY <1>1, <1>3, <2>1, <2>2, <3>1, AppendType
  <2> QED
    BY <1>1, <1>3, <2>2, <2>3, Basics, WorkerWriteIInv
<1> QED
  BY <1>2, <1>3, Basics

LEMMA ClearAllIInv ==
  ASSUME IInv, NEW p \in Procs, ClearAll(p)
  PROVE  IInv'
<1> DEFINE req == [op |-> "c", val |-> NoValue, cap |-> 0]
<1>1. /\ l1' = [l1 EXCEPT ![p] = NoCopy] /\ UNCHANGED <<sub, cursor, owed, dead, lost>>
      /\ owed' \in [Procs -> Seq(Refusable)]
  BY DEF ClearAll, IInv, Typed
<1>2. CASE p = Primary
  <2>1. Becomes(Publish(State, FlushAll, NoValue, 0)) /\ UNCHANGED <<reqs, guard>>
    BY <1>2 DEF ClearAll
  <2> QED
    BY <1>1, <1>2, <2>1, Basics, PrimaryWriteIInv
<1>3. CASE p \in Workers
  <2>1. req \in Requests
    BY DEF Requests
  <2>2. /\ reqs' = [reqs EXCEPT ![p] = Append(@, req)]
        /\ guard' = [guard EXCEPT ![p] = NoGuard] /\ UNCHANGED <<arena, ring, last>>
    BY <1>3, Basics DEF ClearAll
  <2> HIDE DEF req
  <2>3. sub' \in [Workers -> Seq(Submitted)] /\ reqs' \in [Workers -> Seq(Requests)]
    <3>1. sub \in [Workers -> Seq(Submitted)] /\ reqs \in [Workers -> Seq(Requests)]
      BY DEF IInv, Typed
    <3> QED
      BY <1>1, <1>3, <2>1, <2>2, <3>1, AppendType
  <2> QED
    BY <1>1, <1>3, <2>2, <2>3, Basics, WorkerWriteIInv
<1> QED
  BY <1>2, <1>3, Basics

\* The primary applies what was submitted; its own copy goes with any change.
LEMMA AppliedIInv ==
  ASSUME IInv, NEW st, Sound(st), Becomes(st), st = State \/ Len(st.ring) > RingHead,
         l1' = [l1 EXCEPT ![Primary] = NoCopy] \/ (st = State /\ l1' = l1),
         sub' = [w \in Workers |-> <<>>], reqs' \in [Workers -> Seq(Requests)],
         UNCHANGED <<cursor, owed, guard, dead, lost>>
  PROVE  IInv'
<1>1. RingHead \in Nat /\ State.arena = arena /\ State.ring = ring /\ RingHead = Len(ring)
  BY StateFacts DEF IInv
<1>2. /\ Sound(State)' /\ RingHead' \in Nat /\ RingHead' = Len(st.ring)
  BY NewState
<1>3. RingHead' >= RingHead /\ (arena' = arena \/ RingHead' > RingHead)
  BY <1>1, <1>2 DEF Becomes
<1>4. Typed'
  <2>1. l1' \in [Procs -> Copies]
    BY Basics DEF IInv, Typed
  <2>2. sub' \in [Workers -> Seq(Submitted)]
    BY EmptySeq
  <2> QED
    BY <2>1, <2>2 DEF IInv, Typed
<1>5. Positions'
  BY <1>2, <1>3, PositionsStep
<1>6. CapReaches'
  <2>1. \A w \in Workers : Remains(l1'[w], l1[w])
    BY Basics DEF Remains, IInv, Typed
  <2>2. CopyEnds(l1'[Primary], arena')
    <3>1. CASE l1' = [l1 EXCEPT ![Primary] = NoCopy]
      BY <3>1, Basics DEF CopyEnds, IInv, Typed
    <3>2. CASE st = State /\ l1' = l1
      <4>1. arena' = arena
        BY <1>1, <3>2 DEF Becomes
      <4>2. Primary \notin dead
        BY Basics DEF IInv, Typed
      <4> QED
        BY <3>2, <4>1, <4>2, Basics DEF CopyEnds, IInv, CapReaches
    <3> QED
      BY <3>1, <3>2
  <2> QED
    BY <1>2, <1>3, <1>4, <2>1, <2>2, CapReachesStep
<1> QED
  BY <1>2, <1>4, <1>5, <1>6 DEF IInv

LEMMA DrainSubmissionsIInv ==
  ASSUME IInv, DrainSubmissions
  PROVE  IInv'
<1>1. PICK s \in Batches : Becomes(Drained(s))
  BY DEF DrainSubmissions
<1>2. PICK st : st = Drained(s)
  OBVIOUS
<1>3. Sound(st) /\ (st = State \/ Len(st.ring) > RingHead)
  BY <1>2, DrainedSound DEF IInv
<1>4. reqs' \in [Workers -> Seq(Requests)]
  BY DEF DrainSubmissions, IInv, Typed
<1> QED
  BY <1>1, <1>2, <1>3, <1>4, AppliedIInv DEF DrainSubmissions

LEMMA ApplyBatchIInv ==
  ASSUME IInv, NEW w \in Workers, ApplyBatch(w)
  PROVE  IInv'
<1> DEFINE m == Head(reqs[w])
<1>1. reqs[w] \in Seq(Requests) /\ reqs[w] # <<>>
  BY DEF ApplyBatch, IInv, Typed
<1>2. m \in Requests /\ Tail(reqs[w]) \in Seq(Requests)
  BY <1>1, HeadTailProperties
<1> HIDE DEF m
<1>3. PICK s \in Batches :
        LET new == IF m.op = "c" THEN Publish(Drained(s), FlushAll, NoValue, 0)
                                 ELSE CapArena(Drained(s), m.val, m.cap)
        IN /\ Becomes(new)
           /\ l1' = IF new = State THEN l1 ELSE [l1 EXCEPT ![Primary] = NoCopy]
  BY DEF ApplyBatch, m
<1>4. PICK new : new = IF m.op = "c" THEN Publish(Drained(s), FlushAll, NoValue, 0)
                                     ELSE CapArena(Drained(s), m.val, m.cap)
  OBVIOUS
<1>5. /\ Becomes(new)
      /\ l1' = IF new = State THEN l1 ELSE [l1 EXCEPT ![Primary] = NoCopy]
  BY <1>3, <1>4
<1>6. PICK st : st = Drained(s)
  OBVIOUS
<1>7. Sound(st) /\ (st = State \/ Len(st.ring) > RingHead)
  BY <1>6, DrainedSound DEF IInv
<1>8. RingHead \in Nat /\ RingHead = Len(State.ring) /\ Len(st.ring) \in Nat
  BY <1>7, StateFacts DEF IInv, Sound
<1>9. Sound(new) /\ (new = State \/ Len(new.ring) > RingHead)
  <2>1. CASE m.op = "c"
    <3>1. Sound(new) /\ Len(new.ring) = Len(st.ring) + 1
      BY <1>4, <1>6, <1>7, <2>1, Basics, PublishSound
    <3> QED
      BY <1>7, <1>8, <3>1
  <2>2. CASE m.op # "c"
    <3>1. m.val \in Values /\ m.cap \in Nat \ {0}
      BY <1>2, <2>2 DEF Requests
    <3>2. Sound(new) /\ (new = st \/ Len(new.ring) = Len(st.ring) + 1)
      BY <1>4, <1>6, <1>7, <2>2, <3>1, CapSound
    <3> QED
      BY <1>7, <1>8, <3>2
  <2> QED
    BY <2>1, <2>2
<1>10. reqs' \in [Workers -> Seq(Requests)]
  BY <1>2 DEF ApplyBatch, IInv, Typed
<1> QED
  BY <1>5, <1>9, <1>10, AppliedIInv DEF ApplyBatch

\* Steps that leave the arena alone and give no copy a longer life.
LEMMA QuietIInv ==
  ASSUME IInv, UNCHANGED <<arena, ring, last, cursor>>, dead \subseteq dead', Typed',
         \A p \in Procs : l1'[p] = l1[p] \/ l1'[p] = NoCopy,
         \A w \in Workers :
           \/ guard'[w].at = guard[w].at /\ guard'[w].due = guard[w].due
              /\ guard'[w].left = guard[w].left
           \/ guard'[w] = NoGuard
  PROVE  IInv'
<1>1. Sound(State)' /\ RingHead' = RingHead /\ RingHead \in Nat
  BY SameState, StateFacts DEF IInv
<1>2. Positions'
  BY <1>1, PositionsStep
<1>3. \A w \in Workers : Remains(l1'[w], l1[w])
  BY Basics DEF Remains
<1>4. CopyEnds(l1'[Primary], arena')
  <2>1. Primary \notin dead
    BY Basics DEF IInv, Typed
  <2> QED
    BY <2>1, Basics DEF CopyEnds, IInv, CapReaches
<1> QED
  BY <1>1, <1>2, <1>3, <1>4, CapReachesStep DEF IInv

LEMMA CountType ==
  ASSUME Typed, NEW w \in Workers, NEW bucket \in {"unapplied", "unconfirmed"}, Count(w, bucket)
  PROVE  lost' \in [Workers -> [unapplied : Nat, unconfirmed : Nat]]
BY DEF Typed, Count

LEMMA RequestDroppedIInv ==
  ASSUME IInv, NEW w \in Workers, NEW i \in DOMAIN reqs[w], RequestDropped(w, i)
  PROVE  IInv'
<1>1. reqs' \in [Workers -> Seq(Requests)]
  <2>1. reqs[w] \in Seq(Requests) /\ reqs \in [Workers -> Seq(Requests)]
    BY DEF IInv, Typed
  <2>2. RemoveAt(reqs[w], i) \in Seq(Requests)
    BY <2>1, RemoveType
  <2> QED
    BY <2>1, <2>2 DEF RequestDropped
<1>2. /\ UNCHANGED <<arena, ring, sub, l1, cursor, owed, dead, last>>
      /\ \/ UNCHANGED <<guard, lost>>
         \/ guard' = [guard EXCEPT ![w].counted = TRUE] /\ Count(w, "unapplied")
  BY DEF RequestDropped, CapLost
<1>3. /\ guard' \in [Workers -> Guards]
      /\ \A v \in Workers : guard'[v].at = guard[v].at /\ guard'[v].due = guard[v].due
                            /\ guard'[v].left = guard[v].left
  <2>1. guard \in [Workers -> Guards]
    BY DEF IInv, Typed
  <2>2. CASE guard' = guard
    BY <2>1, <2>2
  <2>3. CASE guard' = [guard EXCEPT ![w].counted = TRUE]
    <3> DEFINE g == [guard[w] EXCEPT !.counted = TRUE]
    <3>1. g \in Guards /\ g.at = guard[w].at /\ g.due = guard[w].due /\ g.left = guard[w].left
      BY <2>1 DEF Guards
    <3>2. guard' = [guard EXCEPT ![w] = g]
      BY <2>3
    <3> HIDE DEF g
    <3> QED
      BY <2>1, <3>1, <3>2
  <2> QED
    BY <1>2, <2>2, <2>3
<1>4. lost' \in [Workers -> [unapplied : Nat, unconfirmed : Nat]]
  BY <1>2, CountType DEF IInv, Typed
<1>5. Typed'
  BY <1>1, <1>2, <1>3, <1>4 DEF IInv, Typed
<1> QED
  BY <1>2, <1>3, <1>5, QuietIInv

LEMMA RequestIgnoredIInv ==
  ASSUME IInv, NEW w \in Workers, RequestIgnored(w)
  PROVE  IInv'
<1>1. reqs' \in [Workers -> Seq(Requests)]
  <2>1. reqs[w] \in Seq(Requests) /\ reqs \in [Workers -> Seq(Requests)] /\ reqs[w] # <<>>
    BY DEF IInv, Typed, RequestIgnored
  <2>2. Tail(reqs[w]) \in Seq(Requests)
    BY <2>1, HeadTailProperties
  <2> QED
    BY <2>1, <2>2 DEF RequestIgnored
<1>2. UNCHANGED <<arena, ring, sub, l1, cursor, owed, guard, dead, lost, last>>
  BY DEF RequestIgnored
<1>3. Typed'
  BY <1>1, <1>2 DEF IInv, Typed
<1> QED
  BY <1>2, <1>3, QuietIInv

LEMMA RunCapsIInv ==
  ASSUME IInv, NEW w \in Workers, RunCaps(w)
  PROVE  IInv'
<1>1. /\ UNCHANGED <<arena, ring, sub, l1, cursor, owed, reqs, dead, last>>
      /\ guard' = [guard EXCEPT ![w] = NoGuard]
      /\ UNCHANGED lost \/ \E bucket \in {"unapplied", "unconfirmed"} : Count(w, bucket)
  BY DEF RunCaps, Verdict
<1>2. lost' \in [Workers -> [unapplied : Nat, unconfirmed : Nat]]
  BY <1>1, CountType DEF IInv, Typed
<1>3. guard' \in [Workers -> Guards] /\ \A v \in Workers : guard'[v] \in {guard[v], NoGuard}
  BY <1>1, Basics DEF IInv, Typed
<1>4. Typed'
  BY <1>1, <1>2, <1>3 DEF IInv, Typed
<1> QED
  BY <1>1, <1>3, <1>4, QuietIInv

LEMMA L1EvictIInv ==
  ASSUME IInv, NEW p \in Procs, L1Evict(p)
  PROVE  IInv'
<1>1. /\ l1' \in [Procs -> Copies] /\ \A q \in Procs : l1'[q] = l1[q] \/ l1'[q] = NoCopy
      /\ UNCHANGED <<arena, ring, sub, cursor, owed, guard, reqs, dead, lost, last>>
  BY Basics DEF L1Evict, IInv, Typed
<1>2. Typed'
  BY <1>1 DEF IInv, Typed
<1> QED
  BY <1>1, <1>2, QuietIInv

LEMMA DegradeIInv ==
  ASSUME IInv, NEW w \in Workers, Degrade(w)
  PROVE  IInv'
<1>1. /\ dead' = dead \cup {w}
      /\ UNCHANGED <<arena, ring, sub, l1, cursor, owed, guard, reqs, lost, last>>
  BY DEF Degrade
<1>2. Typed'
  BY <1>1 DEF IInv, Typed
<1> QED
  BY <1>1, <1>2, QuietIInv

\* #capAfterL3Failure shortens the copy of the process and takes nothing else.
LEMMA CopyCapped ==
  ASSUME Typed, NEW p \in Procs, NEW cap \in Nat \ {0},
         l1' = [l1 EXCEPT ![p].life =
           IF l1[p].val # NoValue /\ ~Within(@, cap) THEN cap ELSE @]
  PROVE  /\ l1' \in [Procs -> Copies] /\ \A q \in Procs : q # p => l1'[q] = l1[q]
         /\ l1'[p].val = l1[p].val /\ l1'[p].own = l1[p].own
         /\ Within(l1'[p].life, l1[p].life)
         /\ l1[p].val # NoValue => Within(l1'[p].life, cap)
<1> DEFINE n == IF l1[p].val # NoValue /\ ~Within(l1[p].life, cap) THEN cap ELSE l1[p].life
<1>1. l1 \in [Procs -> Copies] /\ l1[p] \in Copies /\ l1[p].life \in Nat
  BY DEF Typed, Copies
<1>2. n \in Nat /\ Within(n, l1[p].life) /\ (l1[p].val # NoValue => Within(n, cap))
  BY <1>1 DEF Within
<1>3. l1' = [l1 EXCEPT ![p] = [l1[p] EXCEPT !.life = n]]
  OBVIOUS
<1> HIDE DEF n
<1>4. [l1[p] EXCEPT !.life = n] \in Copies
  BY <1>1, <1>2 DEF Copies
<1> QED
  BY <1>1, <1>2, <1>3, <1>4 DEF Copies

LEMMA CapFailureIInv ==
  ASSUME IInv, NEW p \in Procs, NEW f \in Refusable, NEW full \in BOOLEAN,
         CapAfterFailure(p, f, full), owed' \in [Procs -> Seq(Refusable)],
         UNCHANGED <<sub, cursor, dead>>
  PROVE  IInv'
<1> DEFINE c == IF f.ttl > 0 /\ f.ttl < FailTtl THEN f.ttl ELSE FailTtl
<1>1. PICK cap : cap = c
  OBVIOUS
<1>2. /\ l1' = [l1 EXCEPT ![p].life =
           IF l1[p].val # NoValue /\ ~Within(@, cap) THEN cap ELSE @]
      /\ CapRequest(p, f.val, cap, full)
  BY <1>1 DEF CapAfterFailure
<1>3. cap \in Nat \ {0} /\ cap <= FailTtl /\ f.val \in Values
  BY <1>1, Basics DEF Refusable
<1> HIDE DEF c
<1>4. /\ l1' \in [Procs -> Copies] /\ \A q \in Procs : q # p => l1'[q] = l1[q]
      /\ l1'[p].val = l1[p].val /\ l1'[p].own = l1[p].own
      /\ Within(l1'[p].life, l1[p].life)
      /\ l1[p].val # NoValue => Within(l1'[p].life, cap)
  BY <1>2, <1>3, CopyCapped DEF IInv
<1>5. \A w \in Workers : Remains(l1'[w], l1[w])
  BY <1>4, Basics DEF Remains
<1>6. /\ RingHead \in Nat /\ RingHead = Len(State.ring) /\ State.arena = arena
      /\ arena \in Entries
  BY StateFacts DEF IInv
<1>7. CopyEnds(l1[Primary], arena) /\ CopyEnds(l1'[Primary], arena)
  <2>1. CopyEnds(l1[Primary], arena)
    BY Basics, FailCapAssumption DEF CopyEnds, IInv, Typed, CapReaches
  <2>2. CASE p # Primary
    BY <1>4, <2>1, <2>2, Basics
  <2>3. CASE p = Primary
    <3>1. l1'[p].life \in Nat /\ l1[p].life \in Nat /\ arena.life \in Nat
      BY <1>4, <1>6 DEF IInv, Typed, Copies, Entries
    <3> QED
      BY <1>4, <2>1, <2>3, <3>1, WithinTrans DEF CopyEnds
  <2> QED
    BY <2>1, <2>2, <2>3
<1>8. CASE p = Primary
  <2>1. Becomes(CapArena(State, f.val, cap)) /\ UNCHANGED <<guard, reqs, lost>>
    <3>1. Primary \notin dead
      BY Basics DEF IInv, Typed
    <3> QED
      BY <1>2, <1>8, <3>1 DEF CapRequest
  <2>2. PICK st : st = CapArena(State, f.val, cap)
    OBVIOUS
  <2>3. /\ Sound(st)
        /\ \/ st = State
           \/ Len(st.ring) = Len(State.ring) + 1 /\ st.arena.val = f.val /\ st.arena.life = cap
    BY <1>3, <2>2, CapSound DEF IInv
  <2>4. /\ Sound(State)' /\ RingHead' \in Nat /\ RingHead' = Len(st.ring)
        /\ arena' = st.arena
    BY <2>1, <2>2, <2>3, NewState DEF Becomes
  <2>5. RingHead' >= RingHead /\ (arena' = arena \/ RingHead' > RingHead)
    BY <1>6, <2>3, <2>4
  <2>6. Typed'
    BY <1>4, <2>1 DEF IInv, Typed
  <2>7. CopyEnds(l1'[Primary], arena')
    <3>1. CASE st = State
      BY <1>6, <1>7, <2>4, <3>1
    <3>2. CASE st.arena.life = cap
      BY <1>4, <1>8, <2>4, <3>2 DEF CopyEnds
    <3> QED
      BY <2>3, <3>1, <3>2
  <2>8. Positions'
    BY <2>1, <2>4, <2>5, PositionsStep
  <2> QED
    BY <1>5, <2>4, <2>5, <2>6, <2>7, <2>8, CapReachesStep DEF IInv
<1>9. CASE p # Primary
  <2>1. p \in Workers
    BY <1>9, Basics
  <2>2. UNCHANGED <<arena, ring, last>>
    BY <1>2, <1>9 DEF CapRequest
  <2>3. Sound(State)' /\ RingHead' = RingHead
    BY <2>2, SameState DEF IInv
  <2>4. \/ Count(p, "unapplied") /\ UNCHANGED <<guard, reqs>>
        \/ /\ NoteCap(p, f.val, cap, full)
           /\ reqs' = [reqs EXCEPT ![p] = Append(@, [op |-> "r", val |-> f.val, cap |-> cap])]
    BY <1>2, <1>9 DEF CapRequest
  <2>5. reqs' \in [Workers -> Seq(Requests)]
    <3> DEFINE r == [op |-> "r", val |-> f.val, cap |-> cap]
    <3>1. r \in Requests
      BY <1>3 DEF Requests
    <3>2. reqs \in [Workers -> Seq(Requests)]
      BY DEF IInv, Typed
    <3>3. reqs' = reqs \/ reqs' = [reqs EXCEPT ![p] = Append(@, r)]
      BY <2>4
    <3> HIDE DEF r
    <3>4. [reqs EXCEPT ![p] = Append(@, r)] \in [Workers -> Seq(Requests)]
      BY <2>1, <3>1, <3>2, AppendType
    <3> QED
      BY <3>2, <3>3, <3>4
  <2> DEFINE g == [val |-> f.val, at |-> RingHead, due |-> cap,
                   left |-> cap + Window, counted |-> FALSE]
  <2>6. /\ lost' = lost \/ \E bucket \in {"unapplied", "unconfirmed"} : Count(p, bucket)
        /\ guard' = guard \/ guard' = [guard EXCEPT ![p] = g]
    BY <2>4 DEF NoteCap
  <2>7. lost' \in [Workers -> [unapplied : Nat, unconfirmed : Nat]]
    BY <2>1, <2>6, CountType DEF IInv, Typed
  <2>8. g \in Guards /\ g.at = RingHead /\ g.due <= g.left /\ g.left <= FailTtl + Window
    BY <1>3, <1>6, Basics DEF Guards
  <2> HIDE DEF g
  <2>9. guard' \in [Workers -> Guards] /\ \A w \in Workers : guard'[w] = guard[w] \/ guard'[w] = g
    BY <2>6, <2>8 DEF IInv, Typed
  <2>10. Typed'
    BY <1>4, <2>5, <2>7, <2>9 DEF IInv, Typed
  <2>11. Positions'
    <3> SUFFICES ASSUME NEW w \in Workers
                 PROVE  /\ cursor'[w] <= RingHead' /\ guard'[w].at <= RingHead'
                        /\ guard'[w].due <= guard'[w].left
                        /\ guard'[w].left <= FailTtl + Window
      BY DEF Positions
    <3>1. /\ cursor[w] <= RingHead /\ guard[w].at <= RingHead
          /\ guard[w].due <= guard[w].left /\ guard[w].left <= FailTtl + Window
      BY DEF IInv, Positions
    <3> QED
      BY <1>6, <2>3, <2>8, <2>9, <3>1
  <2>12. CopyEnds(l1'[Primary], arena')
    BY <1>7, <2>2
  <2> QED
    BY <1>5, <1>6, <2>2, <2>3, <2>10, <2>11, <2>12, CapReachesStep DEF IInv
<1> QED
  BY <1>8, <1>9

LEMMA SettleIInv ==
  ASSUME IInv, NEW p \in Procs, NEW i \in DOMAIN owed[p], NEW full \in BOOLEAN,
         Settle(p, i, full)
  PROVE  IInv'
<1>1. owed[p] \in Seq(Refusable) /\ owed \in [Procs -> Seq(Refusable)]
  BY DEF IInv, Typed
<1>2. owed' \in [Procs -> Seq(Refusable)]
  <2>1. RemoveAt(owed[p], i) \in Seq(Refusable)
    BY <1>1, RemoveType
  <2> QED
    BY <1>1, <2>1 DEF Settle
<1>3. owed[p][i] \in Refusable
  BY <1>1, ElementOfSeq, LenProperties
<1>4. CASE CapAfterFailure(p, owed[p][i], full)
  BY <1>2, <1>3, <1>4, CapFailureIInv DEF Settle
<1>5. CASE UNCHANGED <<arena, ring, last, l1, guard, reqs, lost>>
  <2>1. Typed'
    BY <1>2, <1>5 DEF IInv, Typed, Settle
  <2> QED
    BY <1>5, <2>1, QuietIInv DEF Settle
<1> QED
  BY <1>4, <1>5 DEF Settle

LEMMA GetIInv ==
  ASSUME IInv, NEW w \in Workers, Get(w)
  PROVE  IInv'
<1>1. PICK d : d = Drain(w)
  OBVIOUS
<1>2. (d.l1 = NoCopy \/ d.l1 = l1[w]) /\ (d.guard = NoGuard \/ d.guard = guard[w])
  BY <1>1 DEF Drain
<1>3. /\ w \notin dead /\ cursor' = [cursor EXCEPT ![w] = RingHead]
      /\ guard' = [guard EXCEPT ![w] = d.guard]
      /\ UNCHANGED <<arena, ring, sub, owed, reqs, dead, lost, last>>
  BY <1>1 DEF Get
<1>4. PICK copy : /\ l1' = [l1 EXCEPT ![w] = copy]
                  /\ copy = Refill(arena) \/ copy = d.l1
  BY <1>1 DEF Get
<1>5. /\ RingHead \in Nat /\ arena \in Entries /\ Sound(State)' /\ RingHead' = RingHead
  BY <1>3, SameState, StateFacts DEF IInv
<1>6. copy \in Copies
  <2>1. Refill(arena) \in Copies
    BY <1>5 DEF Refill, Entries, Copies, None
  <2> QED
    BY <1>2, <1>4, <2>1, Basics DEF IInv, Typed
<1>7. d.guard \in Guards
  BY <1>2, Basics DEF IInv, Typed
<1>8. Typed'
  BY <1>3, <1>4, <1>5, <1>6, <1>7 DEF IInv, Typed
<1>9. Positions'
  <2> SUFFICES ASSUME NEW v \in Workers
               PROVE  /\ cursor'[v] <= RingHead' /\ guard'[v].at <= RingHead'
                      /\ guard'[v].due <= guard'[v].left
                      /\ guard'[v].left <= FailTtl + Window
    BY DEF Positions
  <2>1. /\ cursor[v] <= RingHead /\ guard[v].at <= RingHead
        /\ guard[v].due <= guard[v].left /\ guard[v].left <= FailTtl + Window
    BY DEF IInv, Positions
  <2>2. guard'[v] = guard[v] \/ guard'[v] = NoGuard
    BY <1>2, <1>3 DEF IInv, Typed
  <2>3. cursor'[v] = cursor[v] \/ cursor'[v] = RingHead
    BY <1>3 DEF IInv, Typed
  <2> QED
    BY <1>5, <2>1, <2>2, <2>3, Basics
<1>10. CapReaches'
  <2> SUFFICES ASSUME NEW p \in Procs, p \notin dead', l1'[p].val # NoValue,
                      l1'[p].own = None, l1'[p].val = arena'.val
               PROVE  \/ Within(l1'[p].life, arena'.life)
                      \/ p \in Workers /\ RingHead' > cursor'[p]
    BY DEF CapReaches
  <2>1. CASE p # w
    <3>1. l1'[p] = l1[p] /\ (p \in Workers => cursor'[p] = cursor[p])
      BY <1>3, <1>4, <2>1 DEF IInv, Typed
    <3> QED
      BY <1>3, <1>5, <3>1 DEF IInv, CapReaches
  <2>2. CASE p = w
    <3>1. l1'[w] = copy
      BY <1>4, Basics DEF IInv, Typed
    <3>2. CASE copy = Refill(arena)
      BY <1>3, <1>5, <2>2, <3>1, <3>2 DEF Refill, Within, Entries
    <3>3. CASE copy = l1[w]
      <4>1. CASE Within(l1[w].life, arena.life)
        BY <1>3, <2>2, <3>1, <3>3, <4>1
      <4>2. CASE RingHead > cursor[w]
        <5>1. d.l1 = l1[w] => \A i \in (cursor[w] + 1) .. RingHead : ~(i > l1[w].own)
          <6>1. d.l1 = IF \/ RingHead - cursor[w] >= RingCap
                          \/ \E i \in (cursor[w] + 1) .. RingHead :
                               ring[i] = FlushAll \/ i > l1[w].own
                       THEN NoCopy ELSE l1[w]
            BY <1>1 DEF Drain
          <6>2. l1[w] # NoCopy
            BY <2>2, <3>1, <3>3, Basics
          <6> QED
            BY <6>1, <6>2
        <5>2. cursor[w] \in Nat /\ cursor[w] + 1 \in (cursor[w] + 1) .. RingHead
          BY <1>5, <4>2 DEF IInv, Typed
        <5>3. l1[w].own = -1
          BY <2>2, <3>1, <3>3 DEF None
        <5>4. copy # d.l1
          BY <3>3, <5>1, <5>2, <5>3
        <5>5. copy = Refill(arena)
          BY <1>4, <5>4
        <5> QED
          BY <3>2, <5>5
      <4> QED
        BY <1>3, <2>2, <3>1, <3>3, <4>1, <4>2, Basics DEF IInv, CapReaches
    <3>4. CASE copy = NoCopy
      BY <2>2, <3>1, <3>4, Basics
    <3> QED
      BY <1>2, <1>4, <3>2, <3>3, <3>4
  <2> QED
    BY <2>1, <2>2
<1> QED
  BY <1>5, <1>8, <1>9, <1>10 DEF IInv

LEMMA GetPrimaryIInv ==
  ASSUME IInv, GetPrimary
  PROVE  IInv'
<1>1. /\ l1' = [l1 EXCEPT ![Primary] = Refill(arena)]
      /\ UNCHANGED <<arena, ring, sub, cursor, owed, guard, reqs, dead, lost, last>>
  BY DEF GetPrimary
<1>2. Sound(State)' /\ RingHead' = RingHead /\ RingHead \in Nat /\ arena \in Entries
  BY <1>1, SameState, StateFacts DEF IInv
<1>3. Refill(arena) \in Copies
  BY <1>2 DEF Refill, Entries, Copies, None
<1>4. Typed'
  BY <1>1, <1>3 DEF IInv, Typed
<1>5. Positions'
  BY <1>1, <1>2, PositionsStep
<1>6. \A w \in Workers : Remains(l1'[w], l1[w])
  BY <1>1, Basics DEF Remains, IInv, Typed
<1>7. CopyEnds(l1'[Primary], arena')
  BY <1>1, <1>2, Basics DEF CopyEnds, Refill, Within, Entries, IInv, Typed
<1> QED
  BY <1>1, <1>2, <1>4, <1>5, <1>6, <1>7, CapReachesStep DEF IInv

LEMMA EvictIInv ==
  ASSUME IInv, Evict
  PROVE  IInv'
<1>1. /\ arena' = Nothing
      /\ UNCHANGED <<ring, sub, l1, cursor, owed, guard, reqs, dead, lost, last>>
  BY DEF Evict
<1>2. RingHead \in Nat /\ RingHead' = RingHead /\ ring \in Seq(Writers) /\ last \in Lasts
  BY <1>1, StateFacts DEF IInv, RingHead
<1>3. Nothing \in Entries /\ Nothing.val = NoValue /\ Nothing.at = 0
  BY Basics DEF Nothing, Entries
<1>4. Sound(State')
  <2>1. State' = [arena |-> Nothing, ring |-> ring, last |-> last]
    BY <1>1 DEF State
  <2> QED
    BY <1>2, <1>3, <2>1 DEF Sound, RingHead
<1>5. Typed'
  BY <1>1 DEF IInv, Typed
<1>6. Positions'
  BY <1>1, <1>2, PositionsStep
<1>7. CapReaches'
  BY <1>1, <1>3 DEF CapReaches
<1> QED
  BY <1>4, <1>5, <1>6, <1>7 DEF IInv

\* Time takes one unit from every life, and an entry from where it ends.
LEMMA AgedTogether ==
  ASSUME NEW a \in Nat, NEW b \in Nat, Within(a, b), a # 1
  PROVE  /\ b # 1
         /\ Within(IF a = 0 THEN 0 ELSE a - 1, IF b = 0 THEN 0 ELSE b - 1)
BY DEF Within

LEMMA AgedFacts ==
  ASSUME NEW e, NEW gone, e \in [val : Vals, life : Nat] \/ e \in Entries \/ e \in Copies
  PROVE  /\ e.life = 1 => Aged(e, gone) = gone
         /\ e.life # 1 =>
              /\ e \in Lasts => Aged(e, gone) \in Lasts
              /\ e \in Entries => Aged(e, gone) \in Entries /\ Aged(e, gone).at = e.at
              /\ e \in Copies => Aged(e, gone) \in Copies /\ Aged(e, gone).own = e.own
              /\ Aged(e, gone).val = e.val
              /\ Aged(e, gone).life = IF e.life = 0 THEN 0 ELSE e.life - 1
<1> DEFINE n == IF e.life = 0 THEN 0 ELSE e.life - 1
<1>1. e.life \in Nat /\ n \in Nat
  BY DEF Entries, Copies
<1>2. e.life # 1 => Aged(e, gone) = [e EXCEPT !.life = n]
  BY DEF Aged
<1>3. e.life = 1 => Aged(e, gone) = gone
  BY DEF Aged
<1> HIDE DEF n
<1>4. CASE e \in Lasts
  BY <1>1, <1>2, <1>3, <1>4 DEF Lasts, Entries, Copies, n
<1>5. CASE e \in Entries
  BY <1>1, <1>2, <1>3, <1>5 DEF Lasts, Entries, Copies, n
<1>6. CASE e \in Copies
  BY <1>1, <1>2, <1>3, <1>6 DEF Lasts, Entries, Copies, n
<1> QED
  BY <1>4, <1>5, <1>6 DEF Lasts

LEMMA TickIInv ==
  ASSUME IInv, Tick
  PROVE  IInv'
<1> DEFINE NoLast == [val |-> NoValue, life |-> 0]
<1>1. /\ arena' = Aged(arena, Nothing) /\ last' = Aged(last, NoLast)
      /\ l1' = [p \in Procs |-> Aged(l1[p], NoCopy)]
      /\ guard' = [w \in Workers |-> [guard[w] EXCEPT !.due = Less(@), !.left = Less(@)]]
      /\ UNCHANGED <<ring, sub, cursor, owed, reqs, dead, lost>>
  BY DEF Tick
<1>2. /\ RingHead \in Nat /\ RingHead' = RingHead /\ ring \in Seq(Writers)
      /\ last \in Lasts /\ arena \in Entries /\ arena.at <= RingHead
      /\ arena.val # NoValue => arena.val = last.val /\ Within(arena.life, last.life)
  BY <1>1, StateFacts DEF IInv, RingHead
<1>3. /\ Nothing \in Entries /\ Nothing.val = NoValue /\ Nothing.at = 0
      /\ NoLast \in Lasts /\ arena.life \in Nat /\ last.life \in Nat /\ arena.at \in Nat
  BY <1>2, Basics DEF Nothing, Entries, Lasts
<1> HIDE DEF NoLast
<1>4. /\ arena.life = 1 => arena' = Nothing
      /\ arena.life # 1 => /\ arena' \in Entries /\ arena'.at = arena.at
                           /\ arena'.val = arena.val
                           /\ arena'.life = IF arena.life = 0 THEN 0 ELSE arena.life - 1
  BY <1>1, <1>2, AgedFacts
<1>5. /\ last.life = 1 => last' = NoLast
      /\ last.life # 1 => /\ last' \in Lasts /\ last'.val = last.val
                          /\ last'.life = IF last.life = 0 THEN 0 ELSE last.life - 1
  BY <1>1, <1>2, AgedFacts DEF Lasts
<1>6. Sound(State')
  <2>1. arena' \in Entries /\ last' \in Lasts /\ arena'.at <= RingHead
    BY <1>2, <1>3, <1>4, <1>5
  <2>2. arena'.val # NoValue => arena'.val = last'.val /\ Within(arena'.life, last'.life)
    <3> SUFFICES ASSUME arena'.val # NoValue
                 PROVE  arena'.val = last'.val /\ Within(arena'.life, last'.life)
      OBVIOUS
    <3>1. arena.life # 1 /\ arena.val # NoValue
      BY <1>3, <1>4
    <3>2. /\ last.life # 1
          /\ Within(IF arena.life = 0 THEN 0 ELSE arena.life - 1,
                    IF last.life = 0 THEN 0 ELSE last.life - 1)
      BY <1>2, <1>3, <3>1, AgedTogether
    <3> QED
      BY <1>2, <1>4, <1>5, <3>1, <3>2
  <2>3. State' = [arena |-> arena', ring |-> ring, last |-> last']
    BY <1>1 DEF State
  <2> QED
    BY <1>2, <2>1, <2>2, <2>3 DEF Sound, RingHead
<1>7. \A p \in Procs :
        /\ l1'[p] \in Copies
        /\ l1[p].life = 1 => l1'[p].val = NoValue
        /\ l1[p].life # 1 => /\ l1'[p].val = l1[p].val /\ l1'[p].own = l1[p].own
                             /\ l1'[p].life = IF l1[p].life = 0 THEN 0 ELSE l1[p].life - 1
  <2> SUFFICES ASSUME NEW p \in Procs
               PROVE  /\ l1'[p] \in Copies
                      /\ l1[p].life = 1 => l1'[p].val = NoValue
                      /\ l1[p].life # 1 =>
                           /\ l1'[p].val = l1[p].val /\ l1'[p].own = l1[p].own
                           /\ l1'[p].life = IF l1[p].life = 0 THEN 0 ELSE l1[p].life - 1
    OBVIOUS
  <2>1. l1[p] \in Copies /\ l1'[p] = Aged(l1[p], NoCopy)
    BY <1>1 DEF IInv, Typed
  <2> QED
    BY <2>1, AgedFacts, Basics
<1>8. \A w \in Workers :
        /\ guard'[w] \in Guards /\ guard'[w].at = guard[w].at
        /\ guard'[w].due <= guard'[w].left /\ guard'[w].left <= guard[w].left
  <2> SUFFICES ASSUME NEW w \in Workers
               PROVE  /\ guard'[w] \in Guards /\ guard'[w].at = guard[w].at
                      /\ guard'[w].due <= guard'[w].left /\ guard'[w].left <= guard[w].left
    OBVIOUS
  <2>1. PICK g : g = guard[w]
    OBVIOUS
  <2>2. g \in Guards /\ g.due \in Nat /\ g.left \in Nat /\ g.due <= g.left
    BY <2>1 DEF IInv, Typed, Positions, Guards
  <2>3. PICK a, b : a = Less(g.due) /\ b = Less(g.left)
    OBVIOUS
  <2>4. a \in Nat /\ b \in Nat /\ a <= b /\ b <= g.left
    BY <2>2, <2>3 DEF Less
  <2>5. guard'[w] = [g EXCEPT !.due = a, !.left = b]
    BY <1>1, <2>1, <2>3
  <2> QED
    BY <2>1, <2>2, <2>4, <2>5 DEF Guards
<1>9. Typed'
  <2>1. l1' \in [Procs -> Copies] /\ guard' \in [Workers -> Guards]
    BY <1>1, <1>7, <1>8
  <2> QED
    BY <1>1, <2>1 DEF IInv, Typed
<1>10. Positions'
  <2> SUFFICES ASSUME NEW w \in Workers
               PROVE  /\ cursor'[w] <= RingHead' /\ guard'[w].at <= RingHead'
                      /\ guard'[w].due <= guard'[w].left
                      /\ guard'[w].left <= FailTtl + Window
    BY DEF Positions
  <2>1. /\ cursor[w] <= RingHead /\ guard[w].at <= RingHead
        /\ guard[w].left <= FailTtl + Window
        /\ guard[w].left \in Nat /\ guard'[w].left \in Nat
    BY <1>8 DEF IInv, Typed, Positions, Guards
  <2> QED
    <3>1. /\ guard'[w].at = guard[w].at /\ guard'[w].due <= guard'[w].left
          /\ guard'[w].left <= guard[w].left
      BY <1>8
    <3>2. cursor'[w] = cursor[w]
      BY <1>1
    <3>3. FailTtl + Window \in Nat
      BY Basics
    <3> QED
      BY <1>2, <2>1, <3>1, <3>2, <3>3
<1>11. CapReaches'
  <2> SUFFICES ASSUME NEW p \in Procs, p \notin dead', l1'[p].val # NoValue,
                      l1'[p].own = None, l1'[p].val = arena'.val
               PROVE  \/ Within(l1'[p].life, arena'.life)
                      \/ p \in Workers /\ RingHead' > cursor'[p]
    BY DEF CapReaches
  <2>1. /\ l1[p].life # 1 /\ l1[p].val = l1'[p].val /\ l1[p].own = None
        /\ l1'[p].life = IF l1[p].life = 0 THEN 0 ELSE l1[p].life - 1
    BY <1>7
  <2>2. arena.life # 1 /\ arena.val = arena'.val
    BY <1>3, <1>4
  <2>3. Within(l1[p].life, arena.life) \/ (p \in Workers /\ RingHead > cursor[p])
    BY <1>1, <2>1, <2>2 DEF IInv, CapReaches
  <2>4. CASE Within(l1[p].life, arena.life)
    <3>1. l1[p].life \in Nat
      BY DEF IInv, Typed, Copies
    <3>2. Within(IF l1[p].life = 0 THEN 0 ELSE l1[p].life - 1,
                 IF arena.life = 0 THEN 0 ELSE arena.life - 1)
      BY <1>3, <2>1, <2>4, <3>1, AgedTogether
    <3> QED
      BY <1>4, <2>1, <2>2, <3>2
  <2> QED
    BY <1>1, <1>2, <2>3, <2>4
<1> QED
  BY <1>6, <1>9, <1>10, <1>11 DEF IInv

-----------------------------------------------------------------------------
(* The theorems *)

LEMMA InitIInv == Init => IInv
<1> SUFFICES ASSUME Init PROVE IInv
  OBVIOUS
<1>1. Typed
  <2>1. \A S : <<>> \in Seq(S)
    BY EmptySeq
  <2>2. [unapplied |-> 0, unconfirmed |-> 0] \in [unapplied : Nat, unconfirmed : Nat]
    OBVIOUS
  <2> QED
    BY <2>1, <2>2, Basics DEF Init, Typed
<1>2. RingHead = 0
  BY DEF Init, RingHead
<1>3. Positions
  BY <1>2, Basics DEF Init, Positions
<1>4. Nothing \in Entries /\ Nothing.val = NoValue /\ Nothing.at = 0
  BY Basics DEF Nothing, Entries
<1>5. Sound(State)
  <2>1. State = [arena |-> Nothing, ring |-> <<>>, last |-> [val |-> NoValue, life |-> 0]]
    BY DEF Init, State
  <2>2. [val |-> NoValue, life |-> 0] \in Lasts /\ <<>> \in Seq(Writers) /\ Len(<<>>) = 0
    BY Basics DEF Lasts
  <2> QED
    BY <1>4, <2>1, <2>2 DEF Sound
<1>6. CapReaches
  BY Basics DEF Init, CapReaches
<1> QED
  BY <1>1, <1>3, <1>5, <1>6 DEF IInv

LEMMA NextIInv == IInv /\ [Next]_vars => IInv'
<1> SUFFICES ASSUME IInv, [Next]_vars PROVE IInv'
  OBVIOUS
<1>1. ASSUME NEW p \in Procs, Operation(p) PROVE IInv'
  BY <1>1, SetIInv, DeleteIInv, ClearAllIInv DEF Operation
<1>2. ASSUME NEW p \in Procs, L1Evict(p) PROVE IInv'
  BY <1>2, L1EvictIInv
<1>3. ASSUME NEW p \in Procs, NEW i \in DOMAIN owed[p], NEW full \in BOOLEAN,
             Settle(p, i, full)
      PROVE  IInv'
  BY <1>3, SettleIInv
<1>4. ASSUME NEW w \in Workers, Get(w) PROVE IInv'
  BY <1>4, GetIInv
<1>5. ASSUME NEW w \in Workers, ApplyBatch(w) PROVE IInv'
  BY <1>5, ApplyBatchIInv
<1>6. ASSUME NEW w \in Workers, RequestIgnored(w) PROVE IInv'
  BY <1>6, RequestIgnoredIInv
<1>7. ASSUME NEW w \in Workers, RunCaps(w) PROVE IInv'
  BY <1>7, RunCapsIInv
<1>8. ASSUME NEW w \in Workers, Degrade(w) PROVE IInv'
  BY <1>8, DegradeIInv
<1>9. ASSUME NEW w \in Workers, NEW i \in DOMAIN reqs[w], RequestDropped(w, i) PROVE IInv'
  BY <1>9, RequestDroppedIInv
<1>10. CASE GetPrimary
  BY <1>10, GetPrimaryIInv
<1>11. CASE DrainSubmissions
  BY <1>11, DrainSubmissionsIInv
<1>12. CASE Evict
  BY <1>12, EvictIInv
<1>13. CASE Tick
  BY <1>13, TickIInv
<1>14. CASE UNCHANGED vars
  <2>1. Typed'
    BY <1>14 DEF vars, IInv, Typed
  <2> QED
    BY <1>14, <2>1, QuietIInv DEF vars
<1> QED
  BY <1>1, <1>2, <1>3, <1>4, <1>5, <1>6, <1>7, <1>8, <1>9, <1>10, <1>11, <1>12, <1>13, <1>14
  DEF Next

LEMMA CapInvariant == Spec => []IInv
BY InitIInv, NextIInv, PTL DEF Spec

\* #capArena compares before it re-times: whatever order a request, a write, a
\* delete, a clear and an eviction come in, the arena holds the newest value
\* published or nothing, and for no longer than its writer asked.
THEOREM NeverResurrectsHolds == Spec => []NeverResurrects
<1>1. IInv => NeverResurrects
  <2> SUFFICES ASSUME IInv PROVE NeverResurrects
    OBVIOUS
  <2>1. /\ arena \in Entries /\ arena.at <= RingHead /\ RingHead \in Nat
        /\ arena.val # NoValue => arena.val = last.val /\ Within(arena.life, last.life)
    BY StateFacts DEF IInv
  <2>2. TypeOK
    BY <2>1 DEF IInv, Typed, Positions, TypeOK, Entries, Copies, Vals
  <2> QED
    BY <2>1, <2>2 DEF NeverResurrects
<1> QED
  BY <1>1, CapInvariant, PTL

\* A cap is published like a write: a copy some L1 read before it ends with the
\* arena's entry, or the record that drops it is ahead of its reader.
THEOREM CapReachesHolds == Spec => []CapReaches
<1>1. IInv => CapReaches
  BY DEF IInv
<1> QED
  BY <1>1, CapInvariant, PTL

\* No record of the key since the guard was taken: the entry is the one of then.
LEMMA VerdictStep ==
  ASSUME IInv, NEW w \in Workers, RunCaps(w), w \notin dead,
         Verdict(w, guard[w]) = "unapplied"
  PROVE  arena.val = guard[w].val /\ arena.life = 0 /\ arena.at <= guard[w].at
<1> DEFINE g == guard[w]
           since == Since(g.at)
           seen == {since[i] : i \in DOMAIN since}
<1>1. /\ arena.val = g.val /\ arena.life = 0
      /\ seen \ {WriterId[w]} = {} /\ WriterId[w] \notin seen
  BY DEF Verdict
<1>2. /\ RingHead \in Nat /\ g.at \in Nat /\ g.at <= RingHead /\ arena.at <= RingHead
      /\ ring \in Seq(Writers) /\ RingHead = Len(ring) /\ arena.at \in Nat
  BY StateFacts DEF IInv, Typed, Positions, Guards, Entries
<1>3. seen = {}
  BY <1>1
<1>4. CASE g.at < RingHead
  <2>1. \A i \in (g.at + 1) .. RingHead : ring[i] \in Writers
    BY <1>2, ElementOfSeq
  <2>2. Len(since) = RingHead - (g.at + 1) + 1 /\ since \in Seq(Writers)
    <3>1. g.at + 1 \in Int /\ RingHead \in Int /\ g.at + 1 <= RingHead
      BY <1>2, <1>4
    <3> QED
      BY <2>1, <3>1, SubSeqProperties DEF Since
  <2> HIDE DEF since
  <2>3. DOMAIN since = 1 .. Len(since) /\ 1 \in 1 .. Len(since)
    BY <1>2, <1>4, <2>2, LenProperties
  <2> QED
    BY <1>3, <2>3
<1>5. CASE g.at = RingHead
  BY <1>1, <1>2, <1>5
<1> QED
  BY <1>2, <1>4, <1>5

\* What #judgeRetiredCaps counts as proven when a guard is retired is: the
\* refused bytes are still there without a deadline, in the copy of that time.
THEOREM VerdictTrueHolds == Spec => VerdictTrue
<1> DEFINE Judged(w) ==
             lost'[w].unapplied # lost[w].unapplied /\ guard[w] # NoGuard /\ guard'[w] = NoGuard
<1>1. ASSUME IInv, Next, NEW w \in Workers, Judged(w)
      PROVE  arena.val = guard[w].val /\ arena.life = 0 /\ arena.at <= guard[w].at
  <2>1. lost \in [Workers -> [unapplied : Nat, unconfirmed : Nat]] /\ guard \in [Workers -> Guards]
    BY <1>1 DEF IInv, Typed
  <2>2. ASSUME NEW v \in Workers, NEW i \in DOMAIN reqs[v], RequestDropped(v, i) PROVE FALSE
    <3>1. CASE UNCHANGED <<guard, lost>>
      BY <1>1, <3>1
    <3>2. CASE guard' = [guard EXCEPT ![v].counted = TRUE] /\ Count(v, "unapplied")
      <4>1. v = w
        BY <1>1, <2>1, <3>2 DEF Count
      <4>2. guard'[w].counted
        BY <2>1, <3>2, <4>1 DEF Guards
      <4> QED
        BY <1>1, <4>2 DEF NoGuard
    <3> QED
      BY <2>2, <3>1, <3>2 DEF RequestDropped, CapLost
  <2>3. ASSUME NEW p \in Procs, NEW i \in DOMAIN owed[p], NEW full \in BOOLEAN,
               Settle(p, i, full)
        PROVE  FALSE
    <3>1. \/ lost' = lost \/ guard' = guard
      BY <2>3 DEF Settle, CapAfterFailure, CapRequest, NoteCap
    <3> QED
      BY <1>1, <3>1
  <2>4. ASSUME NEW v \in Workers, RunCaps(v)
        PROVE  v = w /\ v \notin dead /\ Verdict(v, guard[v]) = "unapplied"
    <3>1. PICK bucket : /\ bucket = IF v \notin dead THEN Verdict(v, guard[v])
                                    ELSE IF guard[v].counted THEN "fine" ELSE "unconfirmed"
                        /\ IF bucket = "fine" THEN UNCHANGED lost ELSE Count(v, bucket)
      BY <2>4 DEF RunCaps
    <3>2. bucket # "fine" /\ Count(v, bucket)
      BY <1>1, <3>1
    <3>3. v = w /\ (bucket \in {"unapplied", "unconfirmed"} => bucket = "unapplied")
      BY <1>1, <2>1, <3>2 DEF Count
    <3>4. Verdict(v, guard[v]) \in {"fine", "unapplied", "unconfirmed"}
      BY DEF Verdict
    <3> QED
      BY <3>1, <3>2, <3>3, <3>4
  <2>5. ASSUME NEW p \in Procs, Operation(p) \/ L1Evict(p) PROVE lost' = lost
    BY <2>5 DEF Operation, Set, Delete, ClearAll, L1Evict
  <2>6. ASSUME NEW v \in Workers, Get(v) \/ ApplyBatch(v) \/ RequestIgnored(v) \/ Degrade(v)
        PROVE  lost' = lost
    BY <2>6 DEF Get, ApplyBatch, RequestIgnored, Degrade
  <2>7. GetPrimary \/ DrainSubmissions \/ Evict \/ Tick => lost' = lost
    BY DEF GetPrimary, DrainSubmissions, Evict, Tick
  <2>8. PICK v \in Workers : RunCaps(v)
    BY <1>1, <2>2, <2>3, <2>5, <2>6, <2>7 DEF Next
  <2> QED
    BY <1>1, <2>4, <2>8, VerdictStep
<1>2. ASSUME IInv, [Next]_vars
      PROVE  [\A w \in Workers : Judged(w) =>
                arena.val = guard[w].val /\ arena.life = 0 /\ arena.at <= guard[w].at]_vars
  BY <1>1, <1>2
<1> QED
  BY <1>2, CapInvariant, PTL DEF Spec, VerdictTrue
=============================================================================
