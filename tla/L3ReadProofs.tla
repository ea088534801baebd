---------------------------- MODULE L3ReadProofs ----------------------------
(***************************************************************************)
(* Proofs about L3Read, for any keys, any finite number of workers, any    *)
(* ring size and any number of operations and reads: what an answer of L3  *)
(* may be used for once it is back.                                        *)
(***************************************************************************)
EXTENDS L3Read, FiniteSetTheorems, SequenceTheorems, WellFoundedInduction, TLAPS

Records == Keys \cup {FlushAll, OtherKey}
Submitted == [kind : {"set", "del"}, key : Keys]
Entries == [held : BOOLEAN, ownAt : Nat \cup {None}, since : Nat]
Ops == [kind : {"set", "delete"}, landed : BOOLEAN, pre : BOOLEAN]
Reads == [st : {"idle", "asked", "read"}, key : Keys \cup {FlushAll}, level : 0 .. 3,
          mark : Nat, clearMark : Nat, held : BOOLEAN, ver : Nat, start : Nat]
Answers == [by : Procs \cup {FlushAll}, key : Keys \cup {FlushAll}, ver : Nat \cup {None},
            start : Nat, put : BOOLEAN]

\* pendingWrite, which only keeps a promotion away, is left out.
Typed ==
  /\ l3 \in [Keys -> [held : BOOLEAN, ver : Nat]]
  /\ arena \in [Keys -> [held : BOOLEAN, ver : Nat \cup {None}]]
  /\ ring \in Seq(Records) /\ gen \in Nat /\ settled \in Nat
  /\ sub \in [Workers -> Seq(Submitted)] /\ taken \in [Workers -> Nat]
  /\ chan \in [Workers -> Seq({"+", "c", "-"})]
  /\ l1 \in [Workers -> [Keys -> Entries]] /\ cursor \in [Workers -> Nat]
  /\ pendingDel \in [Workers -> [Keys -> Nat \cup {None}]]
  /\ deletedAt \in [Procs -> [Keys -> Nat \cup {None}]]
  /\ lane \in [Procs -> [Keys -> Seq(Ops)]]
  /\ clr \in [Procs -> {"none", "queued", "landed"}]
  /\ rd \in [Procs -> Reads] /\ nops \in Nat
  /\ ans \in Answers /\ lastOp \in [Keys -> Nat]
  /\ floor \in [Procs -> [Keys -> Nat \cup {Unlanded}]]
  /\ wiped \subseteq Procs /\ landedAt \in [Procs -> [Keys -> Nat]]

\* A getAsync that has asked the adapter; a hasAsync remembers nothing.
InFlight(p) == rd[p].st # "idle" /\ rd[p].level > 0

\* Nothing is as old as its successor: versions, positions and counts.
Versions ==
  /\ \A p \in Procs, k \in Keys :
       floor[p][k] <= l3[k].ver /\ landedAt[p][k] <= l3[k].ver
  /\ \A p \in Procs : rd[p].st = "read" => rd[p].ver <= l3[rd[p].key].ver

Positions ==
  /\ \A p \in Procs :
       /\ rd[p].st # "idle" => rd[p].key \in Keys
       /\ rd[p].mark <= RingHead /\ rd[p].clearMark <= gen /\ rd[p].start <= nops
       /\ p \in Workers => rd[p].mark <= cursor[p]
  /\ \A k \in Keys : lastOp[k] <= nops
  /\ \A w \in Workers, k \in Keys : l1[w][k].since <= nops

\* A removal that has not reached L3 is the newest operation of its lane.
OwedOK ==
  \A p \in Procs, k \in Keys : floor[p][k] = Unlanded =>
    lane[p][k] # <<>> /\ Last(lane[p][k]).kind = "delete" /\ ~Last(lane[p][k]).landed

\* A read that the process's own removal overtook will find out: the removal
\* is still marked, its record is past the read's mark, or a clear came since.
Guarded(p) ==
  LET r == rd[p] IN
  \/ floor[p][r.key] # Unlanded /\ (r.st = "read" => r.ver >= floor[p][r.key])
  \/ p \in Workers /\ pendingDel[p][r.key] # None
  \/ deletedAt[p][r.key] > r.mark
  \/ gen # r.clearMark

\* What is on its way to applyBatch is a piece of + c - + c - ..., up to the
\* point its sender has reached.
ChanOK(w) ==
  LET s == chan[w] IN
  /\ \A i \in 1 .. (Len(s) - 1) :
       s[i + 1] = IF s[i] = "+" THEN "c" ELSE IF s[i] = "c" THEN "-" ELSE "+"
  /\ s # <<>> => s[Len(s)] = IF clr[w] = "none" THEN "-" ELSE "c"

\* The generation of p's clear is open in the arena header.
Opened(p) ==
  IF p = Primary THEN clr[p] # "none"
  ELSE IF chan[p] = <<>> THEN clr[p] # "none" ELSE chan[p][1] # "+"

OpenGens == {p \in Procs : Opened(p)}

GensOK ==
  /\ \A w \in Workers : ChanOK(w)
  /\ \A w \in Workers \cap wiped : \A i \in 1 .. Len(chan[w]) : chan[w][i] # "c"
  /\ gen = settled + Cardinality(OpenGens)

\* As long as the generation is the one a read began with, no clear is under
\* way, none has been since, and what the read brings is younger than all.
ReadOK(p) ==
  LET r == rd[p] IN
  gen = r.clearMark =>
    /\ settled = gen
    /\ ~RecordAfter(FlushAll, r.mark)
    /\ r.st = "read" => \A q \in wiped : r.ver >= landedAt[q][r.key]

ArenaOK == \A k \in Keys : arena[k].ver # None => Surviving(k, arena[k].ver)

\* A set or delete of k waits in a submission ring.
Waits(k) == \E v \in Workers : \E i \in (taken[v] + 1) .. Len(sub[v]) : sub[v][i].key = k

\* A set or delete accepted since a read began waits, or is past its mark.
Noticed(p) ==
  LET r == rd[p] IN lastOp[r.key] > r.start => Waits(r.key) \/ RecordAfter(r.key, r.mark)

CopyOK(w, k) ==
  l1[w][k].held /\ l1[w][k].ownAt = None /\ lastOp[k] > l1[w][k].since =>
    \/ Waits(k) \/ RecordAfter(k, cursor[w]) \/ RecordAfter(FlushAll, cursor[w])
    \/ Lapped(cursor[w])

AnsOK == OwnRemovalHolds /\ (ans.ver # None => Surviving(ans.key, ans.ver)) /\ PromotionYields

IInv ==
  /\ Typed /\ TypeOK /\ Versions /\ Positions /\ OwedOK /\ GensOK /\ ArenaOK
  /\ \A p \in Procs : InFlight(p) => Guarded(p) /\ ReadOK(p) /\ Noticed(p)
  /\ \A w \in Workers, k \in Keys : CopyOK(w, k)
  /\ AnsOK

-----------------------------------------------------------------------------
(* Constants, and the least of a set of positions *)

LEMMA Basics ==
  /\ Primary \in Procs /\ Primary \notin Workers /\ Workers \subseteq Procs
  /\ \A p \in Procs : p = Primary \/ p \in Workers
  /\ FlushAll \notin Keys /\ OtherKey \notin Keys /\ FlushAll # OtherKey
  /\ None = -1 /\ Unlanded = -2
  /\ RingCap \in Nat /\ RingCap > 0
  /\ SetLevels \subseteq 1 .. 3 /\ ReadLevels \subseteq 0 .. 3
  /\ NoEntry \in Entries /\ NoEntry.held = FALSE /\ NoEntry.since = 0
  /\ NoRead \in Reads /\ NoRead.st = "idle" /\ NoRead.mark = 0 /\ NoRead.clearMark = 0
  /\ NoRead.start = 0 /\ NoRead.level = 0
  /\ NoAns \in Answers /\ NoAns.ver = None /\ NoAns.put = FALSE
BY L3ReadAssumption DEF Procs, None, Unlanded, NoEntry, Entries, NoRead, Reads, NoAns, Answers

LEMMA FiniteProcs == IsFiniteSet(Procs)
<1>1. Procs = Workers \cup {Primary}
  BY DEF Procs
<1> QED
  BY <1>1, L3ReadAssumption, FS_AddElement

LEMMA Least ==
  ASSUME NEW T, T \subseteq Nat, T # {}
  PROVE  \E x \in T : \A y \in T : x <= y
<1> DEFINE R == OpToRel(<, Nat)
<1>1. IsWellFoundedOn(R, Nat)
  BY NatLessThanWellFounded
<1>2. \A x, y \in Nat : <<y, x>> \in R <=> y < x
  BY DEF OpToRel
<1> HIDE DEF R
<1>3. PICK x \in T : \A y \in T : ~(<<y, x>> \in R)
  BY <1>1, WFMin
<1>4. \A y \in T : ~(y < x) /\ x \in Nat /\ y \in Nat
  BY <1>2, <1>3
<1> QED
  BY <1>4

-----------------------------------------------------------------------------
(* What one drain of the submission rings does *)

Queue == [w \in Workers |-> Pending(w)]

LEMMA PendingFacts ==
  ASSUME Typed, TypeOK, NEW w \in Workers
  PROVE  /\ Pending(w) \in Seq(Submitted)
         /\ Len(Pending(w)) = Len(sub[w]) - taken[w]
         /\ \A i \in 1 .. Len(Pending(w)) : Pending(w)[i] = sub[w][taken[w] + i]
<1>1. /\ sub[w] \in Seq(Submitted) /\ taken[w] \in Nat /\ Len(sub[w]) \in Nat
      /\ taken[w] <= Len(sub[w])
  BY DEF Typed, TypeOK
<1>2. \A i \in (taken[w] + 1) .. Len(sub[w]) : sub[w][i] \in Submitted
  BY <1>1, ElementOfSeq
<1>3. PICK m, n, s : m = taken[w] + 1 /\ n = Len(sub[w]) /\ s = sub[w]
  OBVIOUS
<1>4. m \in Int /\ n \in Int /\ \A i \in m .. n : s[i] \in Submitted
  BY <1>1, <1>2, <1>3
<1>5. /\ SubSeq(s, m, n) \in Seq(Submitted)
      /\ Len(SubSeq(s, m, n)) = IF m <= n THEN n - m + 1 ELSE 0
      /\ \A i \in 1 .. n - m + 1 : SubSeq(s, m, n)[i] = s[m + i - 1]
  BY <1>4, SubSeqProperties
<1>6. PICK t : t = SubSeq(s, m, n)
  OBVIOUS
<1>7. Pending(w) = t
  BY <1>3, <1>6 DEF Pending
<1>8. t \in Seq(Submitted) /\ Len(t) = Len(sub[w]) - taken[w]
  BY <1>1, <1>3, <1>5, <1>6
<1>9. \A i \in 1 .. Len(t) : t[i] = sub[w][taken[w] + i]
  <2> TAKE i \in 1 .. Len(t)
  <2>1. i \in 1 .. n - m + 1 /\ m + i - 1 = taken[w] + i
    BY <1>1, <1>3, <1>8
  <2> QED
    BY <1>3, <1>5, <1>6, <2>1
<1> QED
  BY <1>7, <1>8, <1>9

LEMMA PlacesFinite ==
  ASSUME NEW W, IsFiniteSet(W), NEW S, NEW queue \in [W -> Seq(S)]
  PROVE  /\ IsFiniteSet(Places(queue)) /\ Cardinality(Places(queue)) \in Nat
         /\ \A p \in Places(queue) : p[1] \in W /\ p[2] \in DOMAIN queue[p[1]]
                                     /\ p = <<p[1], p[2]>> /\ queue[p[1]][p[2]] \in S
         /\ \A w \in W : \A i \in DOMAIN queue[w] : <<w, i>> \in Places(queue)
<1> DEFINE part(w) == {w} \X DOMAIN queue[w]
           f == [w \in W |-> part(w)]
           T == {part(w) : w \in W}
<1>1. IsFiniteSet(T)
  <2>1. f \in [W -> T] /\ \A t \in T : \E w \in W : f[w] = t
    OBVIOUS
  <2>2. f \in Surjection(W, T)
    BY <2>1 DEF Surjection
  <2> QED
    BY <2>2, FS_Surjection
<1>2. \A w \in W : IsFiniteSet(part(w))
  <2> TAKE w \in W
  <2>1. DOMAIN queue[w] = 1 .. Len(queue[w]) /\ Len(queue[w]) \in Nat
    OBVIOUS
  <2>2. IsFiniteSet(DOMAIN queue[w])
    BY <2>1, FS_Interval
  <2> QED
    BY <2>2, FS_Singleton, FS_Product
<1>3. Places(queue) = UNION T
  BY DEF Places
<1>4. IsFiniteSet(Places(queue))
  BY <1>1, <1>2, <1>3, FS_UNION
<1>5. ASSUME NEW p \in Places(queue)
      PROVE  p[1] \in W /\ p[2] \in DOMAIN queue[p[1]]
             /\ p = <<p[1], p[2]>> /\ queue[p[1]][p[2]] \in S
  <2>1. PICK w \in W : p \in part(w)
    BY <1>3, <1>5
  <2>2. p[1] = w /\ p[2] \in DOMAIN queue[w] /\ queue[w] \in Seq(S) /\ p = <<p[1], p[2]>>
    BY <2>1
  <2> QED
    BY <2>2
<1>6. \A w \in W : \A i \in DOMAIN queue[w] : <<w, i>> \in Places(queue)
  BY <1>3
<1> QED
  BY <1>4, <1>5, <1>6, FS_CardinalityType

\* A batch is made of what was submitted, and leaves nothing out.
LEMMA BatchFacts ==
  ASSUME Typed, TypeOK, NEW s \in Batches
  PROVE  /\ s \in Seq(Submitted)
         /\ \A k \in Keys : Waits(k) => \E i \in 1 .. Len(s) : s[i].key = k
<1> DEFINE q == Queue
           P == Places(q)
           n == Cardinality(P)
<1>1. q \in [Workers -> Seq(Submitted)] /\ IsFiniteSet(Workers)
  BY PendingFacts, L3ReadAssumption DEF Queue
<1>2. /\ IsFiniteSet(P) /\ n \in Nat
      /\ \A p \in P : q[p[1]][p[2]] \in Submitted
      /\ \A w \in Workers : \A i \in DOMAIN q[w] : <<w, i>> \in P
  <2> HIDE DEF q
  <2> QED
    BY <1>1, PlacesFinite
<1>3. PICK f \in [1 .. n -> P] :
        RingByRing(f) /\ s = [i \in 1 .. n |-> q[f[i][1]][f[i][2]]]
  BY DEF Batches, RingAfterRing, Queue
<1> HIDE DEF P, n
<1>4. f \in Surjection(1 .. n, P)
  <2>1. \A i, j \in 1 .. n : i < j => f[i] # f[j]
    <3> SUFFICES ASSUME NEW i \in 1 .. n, NEW j \in 1 .. n, i < j, f[i] = f[j] PROVE FALSE
      OBVIOUS
    <3>1. i \in DOMAIN f /\ j \in DOMAIN f /\ f[i][1] = f[j][1]
      BY <1>3
    <3>2. f[i][2] < f[j][2]
      BY <1>3, <3>1 DEF RingByRing
    <3>3. f[i] \in P /\ f[i][2] \in DOMAIN q[f[i][1]] /\ f[i][1] \in Workers
      <4> HIDE DEF q
      <4> QED BY <1>1, <1>3, PlacesFinite DEF P
    <3>4. f[i][2] \in Nat
      <4> HIDE DEF q
      <4>1. q[f[i][1]] \in Seq(Submitted)
        BY <1>1, <3>3
      <4> QED BY <3>3, <4>1, LenProperties
    <3> QED
      BY <3>2, <3>4
  <2>2. \A i, j \in 1 .. n : f[i] = f[j] => i = j
    BY <1>2, <2>1
  <2>3. f \in Injection(1 .. n, P)
    BY <2>2 DEF Injection, IsInjective
  <2>4. Cardinality(1 .. n) = n
    BY <1>2, FS_Interval
  <2>5. Cardinality(P) = n
    BY DEF n
  <2> QED
    BY <1>2, <2>3, <2>4, <2>5, FS_Injection
<1>5. s \in Seq(Submitted) /\ Len(s) = n
  <2>1. \A i \in 1 .. n : q[f[i][1]][f[i][2]] \in Submitted
    BY <1>2, <1>3
  <2> HIDE DEF q
  <2>2. s \in [1 .. n -> Submitted]
    BY <1>3, <2>1
  <2> QED
    BY <1>2, <2>2
<1>6. ASSUME NEW k \in Keys, Waits(k) PROVE \E i \in 1 .. Len(s) : s[i].key = k
  <2>1. PICK v \in Workers : \E i \in (taken[v] + 1) .. Len(sub[v]) : sub[v][i].key = k
    BY <1>6 DEF Waits
  <2>2. PICK i \in (taken[v] + 1) .. Len(sub[v]) : sub[v][i].key = k
    BY <2>1
  <2>3. taken[v] \in Nat /\ Len(sub[v]) \in Nat
    BY DEF Typed
  <2>4. i - taken[v] \in 1 .. Len(Pending(v)) /\ taken[v] + (i - taken[v]) = i
    <3>1. Len(Pending(v)) = Len(sub[v]) - taken[v]
      BY PendingFacts
    <3> QED
      BY <2>2, <2>3, <3>1
  <2>5. Pending(v)[i - taken[v]].key = k /\ i - taken[v] \in DOMAIN Pending(v)
    BY <2>2, <2>4, PendingFacts, LenProperties
  <2>6. q[v] = Pending(v)
    BY DEF Queue
  <2>7. <<v, i - taken[v]>> \in P
    BY <1>2, <2>5, <2>6
  <2>8. PICK j \in 1 .. n : f[j] = <<v, i - taken[v]>>
    BY <1>4, <2>7 DEF Surjection
  <2>9. s[j] = q[v][i - taken[v]]
    BY <1>3, <2>8
  <2> QED
    BY <1>5, <2>5, <2>6, <2>8, <2>9
<1> QED
  BY <1>5, <1>6

\* The ring keeps what it had, and then has the keys of the batch.
LEMMA RingAfterFacts ==
  ASSUME Typed, TypeOK, NEW s \in Batches
  PROVE  /\ RingAfter(s) \in Seq(Records) /\ Len(RingAfter(s)) \in Nat
         /\ RingHead <= Len(RingAfter(s))
         /\ \A i \in 1 .. RingHead : RingAfter(s)[i] = ring[i]
         /\ \A i \in (RingHead + 1) .. Len(RingAfter(s)) : RingAfter(s)[i] \in Keys
         /\ \A k \in Keys : Waits(k) =>
              \E i \in (RingHead + 1) .. Len(RingAfter(s)) : RingAfter(s)[i] = k
<1> DEFINE more == [i \in DOMAIN s |-> s[i].key]
           rg == RingAfter(s)
<1>1. /\ s \in Seq(Submitted) /\ Len(s) \in Nat /\ DOMAIN s = 1 .. Len(s)
      /\ \A k \in Keys : Waits(k) => \E i \in 1 .. Len(s) : s[i].key = k
  BY BatchFacts
<1>2. \A i \in 1 .. Len(s) : s[i].key \in Keys
  <2> TAKE i \in 1 .. Len(s)
  <2>1. s[i] \in Submitted
    BY <1>1, ElementOfSeq
  <2> QED BY <2>1 DEF Submitted
<1>3. more \in Seq(Keys) /\ Len(more) = Len(s) /\ \A i \in 1 .. Len(s) : more[i] = s[i].key
  <2>1. more = [i \in 1 .. Len(s) |-> s[i].key]
    BY <1>1
  <2> HIDE DEF more
  <2>2. more \in [1 .. Len(s) -> Keys]
    BY <1>2, <2>1
  <2>3. more \in Seq(Keys) /\ Len(more) = Len(s)
    BY <1>1, <2>2
  <2> QED
    BY <2>1, <2>3
<1>4. ring \in Seq(Records) /\ RingHead \in Nat /\ RingHead = Len(ring)
  BY DEF Typed, RingHead
<1>5. rg = ring \o more
  BY DEF RingAfter
<1> HIDE DEF more, rg
<1>6. more \in Seq(Records)
  BY <1>3, SeqMonotonic DEF Records
<1>7. /\ rg \in Seq(Records) /\ Len(rg) = RingHead + Len(s)
      /\ \A i \in 1 .. RingHead + Len(s) :
           rg[i] = IF i <= RingHead THEN ring[i] ELSE more[i - RingHead]
  <2>1. /\ rg \in Seq(Records) /\ Len(rg) = Len(ring) + Len(more)
        /\ \A i \in 1 .. Len(ring) + Len(more) :
             rg[i] = IF i <= Len(ring) THEN ring[i] ELSE more[i - Len(ring)]
    BY <1>4, <1>5, <1>6, ConcatProperties
  <2> QED
    BY <1>3, <1>4, <2>1
<1>8. \A i \in 1 .. RingHead : rg[i] = ring[i]
  BY <1>1, <1>4, <1>7
<1>9. \A i \in (RingHead + 1) .. Len(rg) : rg[i] \in Keys
  <2> TAKE i \in (RingHead + 1) .. Len(rg)
  <2>1. i \in 1 .. RingHead + Len(s) /\ ~(i <= RingHead) /\ i - RingHead \in 1 .. Len(s)
    BY <1>1, <1>4, <1>7
  <2>2. rg[i] = s[i - RingHead].key
    BY <1>3, <1>7, <2>1
  <2> QED BY <1>2, <2>1, <2>2
<1>10. ASSUME NEW k \in Keys, Waits(k)
       PROVE  \E i \in (RingHead + 1) .. Len(rg) : rg[i] = k
  <2>1. PICK j \in 1 .. Len(s) : s[j].key = k
    BY <1>1, <1>10
  <2>2. PICK i : i = RingHead + j
    OBVIOUS
  <2>3. /\ i \in 1 .. RingHead + Len(s) /\ ~(i <= RingHead) /\ i - RingHead = j
        /\ i \in (RingHead + 1) .. Len(rg)
    BY <1>1, <1>4, <1>7, <2>2
  <2>4. rg[i] = k
    BY <1>3, <1>7, <2>1, <2>3
  <2> QED BY <2>3, <2>4
<1> QED
  BY <1>1, <1>4, <1>7, <1>8, <1>9, <1>10 DEF rg

LEMMA ArenaAfterFacts ==
  ASSUME Typed, NEW s
  PROVE  /\ ArenaAfter(s) \in [Keys -> [held : BOOLEAN, ver : Nat \cup {None}]]
         /\ \A k \in Keys : ArenaAfter(s)[k] = arena[k] \/ ArenaAfter(s)[k].ver = None
<1>1. arena \in [Keys -> [held : BOOLEAN, ver : Nat \cup {None}]]
  BY DEF Typed
<1>2. ASSUME NEW k \in Keys
      PROVE  /\ ArenaAfter(s)[k] \in [held : BOOLEAN, ver : Nat \cup {None}]
             /\ ArenaAfter(s)[k] = arena[k] \/ ArenaAfter(s)[k].ver = None
  <2> DEFINE m == {i \in DOMAIN s : s[i].key = k}
  <2>1. ArenaAfter(s)[k] = IF m = {} THEN arena[k]
                           ELSE [held |-> s[Max(m)].kind = "set", ver |-> None]
    BY DEF ArenaAfter
  <2>2. (s[Max(m)].kind = "set") \in BOOLEAN
    OBVIOUS
  <2> HIDE DEF m
  <2> QED
    BY <1>1, <2>1, <2>2
<1>3. DOMAIN ArenaAfter(s) = Keys /\ ArenaAfter(s) = [k \in Keys |-> ArenaAfter(s)[k]]
  BY DEF ArenaAfter
<1> QED
  BY <1>2, <1>3

\* Without a batch the arena and the ring stay as they are.
LEMMA NoBatch ==
  ASSUME Typed
  PROVE  RingAfter(<<>>) = ring /\ ArenaAfter(<<>>) = arena
<1>1. [i \in DOMAIN <<>> |-> <<>>[i].key] = <<>>
  OBVIOUS
<1>2. RingAfter(<<>>) = ring
  <2>1. RingAfter(<<>>) = ring \o <<>>
    BY <1>1 DEF RingAfter
  <2>2. ring \in Seq(Records)
    BY DEF Typed
  <2> QED
    BY <2>1, <2>2, ConcatEmptySeq
<1>3. \A k \in Keys : {i \in DOMAIN <<>> : <<>>[i].key = k} = {}
  OBVIOUS
<1>4. ArenaAfter(<<>>) = [k \in Keys |-> arena[k]]
  BY <1>3 DEF ArenaAfter
<1>5. arena = [k \in Keys |-> arena[k]]
  BY DEF Typed
<1> QED
  BY <1>2, <1>4, <1>5

-----------------------------------------------------------------------------
(* What a drain of the invalidation ring does *)

\* A release of a removal's mark notes a position past the cursor.
Note(w, k) ==
  \/ /\ pendingDel'[w][k] = pendingDel[w][k] /\ deletedAt'[w][k] = deletedAt[w][k]
  \/ /\ ~Lapped(cursor[w]) /\ RecordAfter(FlushAll, cursor[w])
     /\ pendingDel'[w][k] = None /\ deletedAt'[w][k] = None
  \/ /\ pendingDel'[w][k] = None
     /\ deletedAt'[w][k] \in Nat /\ deletedAt'[w][k] > cursor[w]

LEMMA FirstMatch ==
  ASSUME NEW c \in Nat, NEW at \in Nat \cup {None}, NEW k, Matched(k, at, c), RingHead \in Nat,
         NEW first, first = CHOOSE i \in (c + 1) .. RingHead :
                              /\ ring[i] = k /\ i > at
                              /\ \A j \in (c + 1) .. (i - 1) : ~(ring[j] = k /\ j > at)
  PROVE  first \in (c + 1) .. RingHead
<1> DEFINE T == {i \in (c + 1) .. RingHead : ring[i] = k /\ i > at}
<1>1. T \subseteq Nat /\ T # {}
  BY DEF Matched
<1>2. PICK x \in T : \A y \in T : x <= y
  BY <1>1, Least
<1>3. x \in (c + 1) .. RingHead /\ ring[x] = k /\ x > at
  BY <1>2
<1>4. \A j \in (c + 1) .. (x - 1) : ~(ring[j] = k /\ j > at)
  <2> SUFFICES ASSUME NEW j \in (c + 1) .. (x - 1), ring[j] = k, j > at PROVE FALSE
    OBVIOUS
  <2>1. j \in (c + 1) .. RingHead /\ j < x
    BY <1>3
  <2>2. j \in T
    BY <2>1
  <2> HIDE DEF T
  <2> QED
    BY <1>2, <1>3, <2>1, <2>2
<1> HIDE DEF T
<1>5. \E i \in (c + 1) .. RingHead :
        /\ ring[i] = k /\ i > at
        /\ \A j \in (c + 1) .. (i - 1) : ~(ring[j] = k /\ j > at)
  BY <1>3, <1>4
<1> QED
  BY <1>5

LEMMA DrainFacts ==
  ASSUME Typed, TypeOK, NEW w \in Workers, Drain(w)
  PROVE  /\ cursor' = [cursor EXCEPT ![w] = RingHead]
         /\ l1' = [l1 EXCEPT ![w] = [k \in Keys |-> IF Outdated(w, k) THEN NoEntry ELSE @[k]]]
         /\ \A k \in Keys : Note(w, k)
         /\ pendingDel' \in [Workers -> [Keys -> Nat \cup {None}]]
         /\ deletedAt' \in [Procs -> [Keys -> Nat \cup {None}]]
         /\ \A v \in Workers \ {w} : pendingDel'[v] = pendingDel[v]
         /\ \A p \in Procs \ {w} : deletedAt'[p] = deletedAt[p]
<1> DEFINE c == cursor[w]
           wrap == Lapped(c)
           flush == ~wrap /\ RecordAfter(FlushAll, c)
           gone(k) == IF wrap THEN ~arena[k].held ELSE Matched(k, pendingDel[w][k], c)
           where(k) == IF wrap THEN RingHead
                       ELSE CHOOSE i \in (c + 1) .. RingHead :
                         /\ ring[i] = k /\ i > pendingDel[w][k]
                         /\ \A j \in (c + 1) .. (i - 1) : ~(ring[j] = k /\ j > pendingDel[w][k])
           landed(k) == pendingDel[w][k] # None /\ gone(k)
           pd == [k \in Keys |-> IF flush \/ landed(k) THEN None ELSE pendingDel[w][k]]
           da == [k \in Keys |-> IF flush THEN None
                                 ELSE IF landed(k) THEN where(k) ELSE deletedAt[w][k]]
<1>1. /\ c \in Nat /\ RingHead \in Nat /\ w \in Procs /\ RingCap \in Nat /\ RingCap > 0
      /\ pendingDel \in [Workers -> [Keys -> Nat \cup {None}]]
      /\ deletedAt \in [Procs -> [Keys -> Nat \cup {None}]]
  BY Basics DEF Typed, RingHead
<1>2. /\ cursor' = [cursor EXCEPT ![w] = RingHead]
      /\ l1' = [l1 EXCEPT ![w] = [k \in Keys |-> IF Outdated(w, k) THEN NoEntry ELSE @[k]]]
  BY DEF Drain
<1>3. pendingDel' = [pendingDel EXCEPT ![w] = pd]
  BY DEF Drain
<1>4. deletedAt' = [deletedAt EXCEPT ![w] = da]
  BY DEF Drain
<1>5. ASSUME NEW k \in Keys, landed(k)
      PROVE  where(k) \in Nat /\ where(k) > c
  <2>1. CASE wrap
    BY <1>1, <2>1 DEF Lapped
  <2>2. CASE ~wrap
    <3>1. Matched(k, pendingDel[w][k], c) /\ pendingDel[w][k] \in Nat \cup {None}
      BY <1>1, <1>5, <2>2
    <3>2. where(k) \in (c + 1) .. RingHead
      <4>1. where(k) = CHOOSE i \in (c + 1) .. RingHead :
                         /\ ring[i] = k /\ i > pendingDel[w][k]
                         /\ \A j \in (c + 1) .. (i - 1) : ~(ring[j] = k /\ j > pendingDel[w][k])
        BY <2>2
      <4>2. PICK at, first : at = pendingDel[w][k] /\ first = where(k)
        OBVIOUS
      <4> HIDE DEF c, where
      <4>3. first = CHOOSE i \in (c + 1) .. RingHead :
                      /\ ring[i] = k /\ i > at
                      /\ \A j \in (c + 1) .. (i - 1) : ~(ring[j] = k /\ j > at)
        BY <4>1, <4>2
      <4>4. first \in (c + 1) .. RingHead
        BY <1>1, <3>1, <4>2, <4>3, FirstMatch
      <4> QED
        BY <4>2, <4>4
    <3> HIDE DEF where, c
    <3> QED
      BY <1>1, <3>2
  <2> QED
    BY <2>1, <2>2
<1>6. \A k \in Keys : /\ pd[k] = IF flush \/ landed(k) THEN None ELSE pendingDel[w][k]
                      /\ da[k] = IF flush THEN None
                                 ELSE IF landed(k) THEN where(k) ELSE deletedAt[w][k]
  OBVIOUS
<1>7. flush <=> ~Lapped(cursor[w]) /\ RecordAfter(FlushAll, cursor[w])
  OBVIOUS
<1>8. pd \in [Keys -> Nat \cup {None}]
  BY <1>1
<1>9. da \in [Keys -> Nat \cup {None}]
  <2> HIDE DEF where, landed, flush
  <2> QED
    BY <1>1, <1>5
<1>10. pendingDel'[w] = pd /\ deletedAt'[w] = da
  <2> HIDE DEF pd, da
  <2> QED
    BY <1>1, <1>3, <1>4
<1>11. \A k \in Keys : Note(w, k)
  <2> TAKE k \in Keys
  <2> HIDE DEF where, landed, flush, pd, da
  <2>1. CASE flush
    BY <1>6, <1>7, <1>10, <2>1 DEF Note
  <2>2. CASE ~flush /\ landed(k)
    BY <1>5, <1>6, <1>10, <2>2 DEF Note
  <2>3. CASE ~flush /\ ~landed(k)
    BY <1>6, <1>10, <2>3 DEF Note
  <2> QED
    BY <2>1, <2>2, <2>3
<1> HIDE DEF pd, da
<1>12. /\ pendingDel' \in [Workers -> [Keys -> Nat \cup {None}]]
       /\ \A v \in Workers \ {w} : pendingDel'[v] = pendingDel[v]
  BY <1>1, <1>3, <1>8
<1>13. /\ deletedAt' \in [Procs -> [Keys -> Nat \cup {None}]]
       /\ \A p \in Procs \ {w} : deletedAt'[p] = deletedAt[p]
  BY <1>1, <1>4, <1>9
<1> QED
  BY <1>2, <1>11, <1>12, <1>13

-----------------------------------------------------------------------------
(* Types *)

LEMMA Facts ==
  ASSUME Typed
  PROVE  RingHead \in Nat /\ RingHead = Len(ring)
BY DEF Typed, RingHead

LEMMA LaneFacts ==
  ASSUME NEW s \in Seq(Ops), NEW op \in Ops
  PROVE  /\ (IF s = <<>> THEN <<op>> ELSE <<Head(s), op>>) \in Seq(Ops)
         /\ Len(IF s = <<>> THEN <<op>> ELSE <<Head(s), op>>) <= 2
         /\ Last(IF s = <<>> THEN <<op>> ELSE <<Head(s), op>>) = op
<1>1. CASE s = <<>>
  BY <1>1 DEF Last
<1>2. CASE s # <<>>
  <2>1. Head(s) \in Ops
    BY <1>2, HeadTailProperties
  <2> QED
    BY <1>2, <2>1 DEF Last
<1> QED
  BY <1>1, <1>2

LEMMA EnqueueType ==
  ASSUME Typed, NEW p \in Procs, NEW k \in Keys, NEW kind \in {"set", "delete"},
         Enqueue(p, k, Op(kind))
  PROVE  /\ lane' \in [Procs -> [Keys -> Seq(Ops)]]
         /\ Len(lane'[p][k]) <= 2 /\ lane'[p][k] # <<>>
         /\ Last(lane'[p][k]).kind = kind /\ ~Last(lane'[p][k]).landed
         /\ \A q \in Procs, j \in Keys : (q = p /\ j = k) \/ lane'[q][j] = lane[q][j]
<1>1. Op(kind) \in Ops /\ Op(kind).kind = kind /\ Op(kind).landed = FALSE
  BY DEF Op, Ops
<1>2. lane[p][k] \in Seq(Ops) /\ lane \in [Procs -> [Keys -> Seq(Ops)]]
  BY DEF Typed
<1>3. PICK op, new : op = Op(kind)
        /\ new = IF lane[p][k] = <<>> THEN <<op>> ELSE <<Head(lane[p][k]), op>>
  OBVIOUS
<1>4. new \in Seq(Ops) /\ Len(new) <= 2 /\ Last(new) = op /\ new # <<>>
  BY <1>1, <1>2, <1>3, LaneFacts
<1>5. lane' = [lane EXCEPT ![p][k] = new]
  BY <1>3 DEF Enqueue
<1> QED
  BY <1>1, <1>2, <1>3, <1>4, <1>5

LEMMA SubmitType ==
  ASSUME Typed, NEW w \in Workers, NEW k \in Keys, NEW kind \in {"set", "del"},
         Submit(w, kind, k)
  PROVE  /\ sub' \in [Workers -> Seq(Submitted)]
         /\ Len(sub'[w]) = Len(sub[w]) + 1 /\ sub'[w][Len(sub[w]) + 1].key = k
         /\ \A i \in 1 .. Len(sub[w]) : sub'[w][i] = sub[w][i]
         /\ \A v \in Workers \ {w} : sub'[v] = sub[v]
<1>1. PICK new : new = [kind |-> kind, key |-> k]
  OBVIOUS
<1>2. new \in Submitted /\ new.key = k
  BY <1>1 DEF Submitted
<1>3. sub' = [sub EXCEPT ![w] = Append(@, new)] /\ sub \in [Workers -> Seq(Submitted)]
  BY <1>1 DEF Submit, Typed
<1>4. sub'[w] = Append(sub[w], new) /\ sub[w] \in Seq(Submitted)
  BY <1>3
<1> QED
  BY <1>2, <1>3, <1>4, AppendProperties

LEMMA AppendRing ==
  ASSUME Typed, NEW x \in Records, ring' = Append(ring, x)
  PROVE  /\ ring' \in Seq(Records) /\ RingHead' = RingHead + 1 /\ RingHead \in Nat
         /\ ring'[RingHead + 1] = x /\ \A i \in 1 .. RingHead : ring'[i] = ring[i]
<1>1. ring \in Seq(Records)
  BY DEF Typed
<1> QED
  BY <1>1, AppendProperties DEF RingHead

LEMMA WrittenType ==
  ASSUME Typed, NEW k \in Keys, NEW held \in BOOLEAN, Written(k, held)
  PROVE  /\ arena' \in [Keys -> [held : BOOLEAN, ver : Nat \cup {None}]]
         /\ \A j \in Keys : arena'[j] = arena[j] \/ arena'[j].ver = None
         /\ ring' \in Seq(Records) /\ ring' = Append(ring, k) /\ k \in Records
<1>1. ring' = Append(ring, k) /\ k \in Records
  BY DEF Written, Records
<1> QED
  BY <1>1, AppendRing DEF Written, Typed

LEMMA TypedSet ==
  ASSUME Typed, NEW p \in Procs, NEW k \in Keys, NEW level \in SetLevels, Set(p, k, level)
  PROVE  Typed'
<1>1. RingHead \in Nat /\ level \in 1 .. 3
  BY Facts, Basics
<1>2. lane' \in [Procs -> [Keys -> Seq(Ops)]]
  BY EnqueueType DEF Set
<1>3. /\ nops' \in Nat /\ ans' \in Answers /\ lastOp' \in [Keys -> Nat]
      /\ floor' \in [Procs -> [Keys -> Nat \cup {Unlanded}]]
  BY Basics DEF Set, NewOp, Typed
<1>4. UNCHANGED <<l3, gen, settled, taken, chan, cursor, deletedAt, clr, rd, wiped, landedAt>>
  BY DEF Set
<1>5. CASE p = Primary
  <2>1. Written(k, level < 3) /\ UNCHANGED <<l1, sub, pendingDel>>
    BY <1>5 DEF Set
  <2>2. (level < 3) \in BOOLEAN
    OBVIOUS
  <2>3. /\ arena' \in [Keys -> [held : BOOLEAN, ver : Nat \cup {None}]]
        /\ ring' \in Seq(Records)
    BY <2>1, <2>2, WrittenType
  <2> QED
    BY <1>2, <1>3, <1>4, <2>1, <2>3 DEF Typed
<1>6. CASE p # Primary
  <2>1. p \in Workers
    BY <1>6, Basics
  <2>2. /\ UNCHANGED <<arena, ring>>
        /\ l1' = [l1 EXCEPT ![p][k] =
                 IF level > 1 THEN NoEntry
                 ELSE [held |-> TRUE, since |-> nops', ownAt |-> RingHead]]
        /\ Submit(p, IF level = 3 THEN "del" ELSE "set", k)
        /\ pendingDel' = [pendingDel EXCEPT ![p][k] = None]
    BY <1>6 DEF Set
  <2>3. l1' \in [Workers -> [Keys -> Entries]]
    BY <1>1, <1>3, <2>1, <2>2, Basics DEF Typed, Entries
  <2>4. sub' \in [Workers -> Seq(Submitted)]
    <3>1. (IF level = 3 THEN "del" ELSE "set") \in {"set", "del"}
      OBVIOUS
    <3> QED
      BY <2>1, <2>2, <3>1, SubmitType
  <2>5. pendingDel' \in [Workers -> [Keys -> Nat \cup {None}]]
    BY <2>1, <2>2 DEF Typed
  <2> QED
    BY <1>2, <1>3, <1>4, <2>2, <2>3, <2>4, <2>5 DEF Typed
<1> QED
  BY <1>5, <1>6

LEMMA TypedDelete ==
  ASSUME Typed, NEW p \in Procs, NEW k \in Keys, Delete(p, k)
  PROVE  Typed'
<1>1. RingHead \in Nat
  BY Facts
<1>2. lane' \in [Procs -> [Keys -> Seq(Ops)]]
  BY EnqueueType DEF Delete
<1>3. /\ nops' \in Nat /\ ans' \in Answers /\ lastOp' \in [Keys -> Nat]
      /\ floor' \in [Procs -> [Keys -> Nat \cup {Unlanded}]]
  BY Basics DEF Delete, NewOp, Typed
<1>4. deletedAt' \in [Procs -> [Keys -> Nat \cup {None}]]
  BY <1>1 DEF Delete, NoteOwnDelete, Typed
<1>5. UNCHANGED <<l3, gen, settled, taken, chan, cursor, clr, rd, wiped, landedAt>>
  BY DEF Delete
<1>6. CASE p = Primary
  <2>1. Written(k, FALSE) /\ UNCHANGED <<l1, sub, pendingDel>>
    BY <1>6 DEF Delete
  <2>2. /\ arena' \in [Keys -> [held : BOOLEAN, ver : Nat \cup {None}]]
        /\ ring' \in Seq(Records)
    BY <2>1, WrittenType
  <2> QED
    BY <1>2, <1>3, <1>4, <1>5, <2>1, <2>2 DEF Typed
<1>7. CASE p # Primary
  <2>1. p \in Workers
    BY <1>7, Basics
  <2>2. /\ UNCHANGED <<arena, ring>>
        /\ l1' = [l1 EXCEPT ![p][k] = NoEntry] /\ Submit(p, "del", k)
        /\ pendingDel' = [pendingDel EXCEPT ![p][k] = RingHead]
    BY <1>7 DEF Delete
  <2>3. l1' \in [Workers -> [Keys -> Entries]]
    BY <2>1, <2>2, Basics DEF Typed
  <2>4. sub' \in [Workers -> Seq(Submitted)]
    BY <2>1, <2>2, SubmitType
  <2>5. pendingDel' \in [Workers -> [Keys -> Nat \cup {None}]]
    BY <1>1, <2>1, <2>2 DEF Typed
  <2> QED
    BY <1>2, <1>3, <1>4, <1>5, <2>2, <2>3, <2>4, <2>5 DEF Typed
<1> QED
  BY <1>6, <1>7

LEMMA TypedQueue ==
  ASSUME Typed, NEW p \in Procs, NEW k \in Keys, Land(p, k) \/ Released(p, k)
  PROVE  Typed'
<1>1. /\ lane \in [Procs -> [Keys -> Seq(Ops)]] /\ lane[p][k] \in Seq(Ops)
      /\ l3 \in [Keys -> [held : BOOLEAN, ver : Nat]]
      /\ floor \in [Procs -> [Keys -> Nat \cup {Unlanded}]]
  BY DEF Typed
<1>2. CASE Land(p, k)
  <2>1. lane[p][k] # <<>> /\ lane' = [lane EXCEPT ![p][k][1].landed = TRUE]
    BY <1>2 DEF Land, OnWire
  <2>2. lane' \in [Procs -> [Keys -> Seq(Ops)]]
    <3>1. PICK old : old = lane[p][k]
      OBVIOUS
    <3>2. old \in Seq(Ops) /\ 1 \in 1 .. Len(old) /\ old[1] \in Ops
      BY <1>1, <2>1, <3>1, EmptySeq, ElementOfSeq
    <3>3. PICK op : op = [old[1] EXCEPT !.landed = TRUE]
      OBVIOUS
    <3>4. op \in Ops
      BY <3>2, <3>3 DEF Ops
    <3>5. [old EXCEPT ![1] = op] \in Seq(Ops)
      BY <3>2, <3>4, ExceptSeq
    <3>6. lane' = [lane EXCEPT ![p][k] = [old EXCEPT ![1] = op]]
      BY <2>1, <3>1, <3>3
    <3> QED
      BY <1>1, <3>5, <3>6
  <2>3. l3' \in [Keys -> [held : BOOLEAN, ver : Nat]]
    <3>1. PICK h : h = (Head(lane[p][k]).kind = "set")
      OBVIOUS
    <3>2. h \in BOOLEAN /\ l3' = [l3 EXCEPT ![k] = [held |-> h, ver |-> @.ver + 1]]
      BY <1>2, <3>1 DEF Land
    <3> QED
      BY <1>1, <3>2
  <2>4. floor' \in [Procs -> [Keys -> Nat \cup {Unlanded}]]
    <3>1. l3[k].ver + 1 \in Nat
      BY <1>1
    <3> QED
      BY <1>1, <1>2, <3>1 DEF Land
  <2>5. UNCHANGED <<localVars, sharedVars, sub, chan, clr, rd, nops, lastOp, wiped, landedAt>>
        /\ ans' = NoAns
    BY <1>2 DEF Land
  <2> QED
    BY <2>2, <2>3, <2>4, <2>5, Basics DEF Typed, localVars, sharedVars
<1>3. CASE Released(p, k)
  <2>1. lane[p][k] # <<>> /\ lane' = [lane EXCEPT ![p][k] = Tail(@)]
    BY <1>3 DEF Released, OnWire
  <2>2. Tail(lane[p][k]) \in Seq(Ops)
    BY <1>1, <2>1, HeadTailProperties
  <2>3. lane' \in [Procs -> [Keys -> Seq(Ops)]]
    BY <1>1, <2>1, <2>2
  <2>4. floor' \in [Procs -> [Keys -> Nat \cup {Unlanded}]]
    BY <1>1, <1>3 DEF Released
  <2>5. UNCHANGED <<l3, localVars, sharedVars, sub, chan, clr, rd, nops, lastOp, wiped, landedAt>>
        /\ ans' = NoAns
    BY <1>3 DEF Released
  <2> QED
    BY <2>3, <2>4, <2>5, Basics DEF Typed, localVars, sharedVars
<1> QED
  BY <1>2, <1>3

LEMMA TypedClear ==
  ASSUME Typed, NEW p \in Procs, ClearAll(p) \/ ClearLand(p) \/ ClearSettle(p)
  PROVE  Typed'
<1>1. CASE ClearAll(p)
  <2>1. lane' \in [Procs -> [Keys -> Seq(Ops)]]
    <3>1. ASSUME NEW k \in Keys, lane[p][k] # <<>>
          PROVE  [Head(lane[p][k]) EXCEPT !.pre = TRUE] \in Ops
      <4>1. lane[p][k] \in Seq(Ops)
        BY DEF Typed
      <4>2. Head(lane[p][k]) \in Ops
        BY <3>1, <4>1, HeadTailProperties
      <4> QED
        BY <4>2 DEF Ops
    <3>2. PICK new : new = [k \in Keys |-> IF lane[p][k] = <<>> THEN <<>>
                                           ELSE <<[Head(lane[p][k]) EXCEPT !.pre = TRUE]>>]
      OBVIOUS
    <3>3. new \in [Keys -> Seq(Ops)]
      BY <3>1, <3>2
    <3>4. lane' = [lane EXCEPT ![p] = new]
      BY <1>1, <3>2 DEF ClearAll
    <3> QED
      BY <3>3, <3>4 DEF Typed
  <2>2. /\ nops' \in Nat /\ ans' \in Answers
        /\ deletedAt' \in [Procs -> [Keys -> Nat \cup {None}]]
        /\ floor' \in [Procs -> [Keys -> Nat \cup {Unlanded}]]
        /\ clr' \in [Procs -> {"none", "queued", "landed"}]
        /\ UNCHANGED <<l3, settled, taken, sub, cursor, rd, lastOp, landedAt>>
    BY <1>1, Basics DEF ClearAll, NewOp, Typed
  <2>3. CASE p = Primary
    <3>1. /\ gen' = gen + 1 /\ arena' = Wiped /\ ring' = Append(ring, FlushAll)
          /\ wiped' = wiped \cup {p} /\ UNCHANGED <<chan, l1, pendingDel>>
      BY <1>1, <2>3 DEF ClearAll
    <3>2. ring' \in Seq(Records)
      BY <3>1, AppendRing DEF Records
    <3>3. arena' \in [Keys -> [held : BOOLEAN, ver : Nat \cup {None}]]
      BY <3>1 DEF Wiped, Absent
    <3>4. gen' \in Nat /\ wiped' \subseteq Procs
      BY <3>1 DEF Typed
    <3> QED
      BY <2>1, <2>2, <3>1, <3>2, <3>3, <3>4 DEF Typed
  <2>4. CASE p # Primary
    <3>1. p \in Workers
      BY <2>4, Basics
    <3>2. /\ l1' = [l1 EXCEPT ![p] = [k \in Keys |-> NoEntry]]
          /\ chan' = [chan EXCEPT ![p] = @ \o <<"+", "c">>]
          /\ pendingDel' = [pendingDel EXCEPT ![p] = [k \in Keys |-> None]]
          /\ wiped' = wiped \ {p} /\ UNCHANGED <<gen, arena, ring>>
      BY <1>1, <2>4 DEF ClearAll
    <3>3. chan[p] \o <<"+", "c">> \in Seq({"+", "c", "-"})
      <4>1. chan[p] \in Seq({"+", "c", "-"}) /\ <<"+", "c">> \in Seq({"+", "c", "-"})
        BY <3>1 DEF Typed
      <4> QED
        BY <4>1, ConcatProperties
    <3>4. chan' \in [Workers -> Seq({"+", "c", "-"})]
      BY <3>2, <3>3 DEF Typed
    <3>5. /\ l1' \in [Workers -> [Keys -> Entries]] /\ wiped' \subseteq Procs
          /\ pendingDel' \in [Workers -> [Keys -> Nat \cup {None}]]
      BY <3>2, Basics DEF Typed
    <3> QED
      BY <2>1, <2>2, <3>2, <3>4, <3>5 DEF Typed
  <2> QED
    BY <2>3, <2>4
<1>2. CASE ClearLand(p)
  <2>1. /\ l3' = [k \in Keys |-> [held |-> FALSE, ver |-> l3[k].ver + 1]]
        /\ landedAt' = [landedAt EXCEPT ![p] = [k \in Keys |-> l3[k].ver + 1]]
        /\ clr' = [clr EXCEPT ![p] = "landed"] /\ ans' = NoAns
        /\ UNCHANGED <<localVars, sharedVars, sub, chan, lane, rd, nops, lastOp, floor, wiped>>
    BY <1>2 DEF ClearLand
  <2>2. \A k \in Keys : l3[k].ver + 1 \in Nat
    BY DEF Typed
  <2>3. /\ l3' \in [Keys -> [held : BOOLEAN, ver : Nat]]
        /\ landedAt' \in [Procs -> [Keys -> Nat]]
        /\ clr' \in [Procs -> {"none", "queued", "landed"}]
    BY <2>1, <2>2 DEF Typed
  <2> QED
    BY <2>1, <2>3, Basics DEF Typed, localVars, sharedVars
<1>3. CASE ClearSettle(p)
  <2>1. /\ clr' = [clr EXCEPT ![p] = "none"] /\ ans' = NoAns
        /\ UNCHANGED <<l3, localVars, arena, ring, gen, taken, sub, lane, rd, nops, histVars>>
    BY <1>3 DEF ClearSettle
  <2>2. clr' \in [Procs -> {"none", "queued", "landed"}]
    BY <2>1 DEF Typed
  <2>3. CASE p = Primary
    <3>1. settled' = settled + 1 /\ UNCHANGED chan
      BY <1>3, <2>3 DEF ClearSettle
    <3> QED
      BY <2>1, <2>2, <3>1, Basics DEF Typed, localVars, histVars
  <2>4. CASE p # Primary
    <3>1. chan' = [chan EXCEPT ![p] = Append(@, "-")] /\ UNCHANGED settled
      BY <1>3, <2>4 DEF ClearSettle
    <3>2. chan' \in [Workers -> Seq({"+", "c", "-"})]
      BY <2>4, <3>1, Basics DEF Typed
    <3> QED
      BY <2>1, <2>2, <3>1, <3>2, Basics DEF Typed, localVars, histVars
  <2> QED
    BY <2>3, <2>4
<1> QED
  BY <1>1, <1>2, <1>3

LEMMA TakenType ==
  ASSUME Typed
  PROVE  TakenAll \in [Workers -> Nat]
<1>1. \A w \in Workers : Len(sub[w]) \in Nat
  BY DEF Typed
<1> QED
  BY <1>1 DEF TakenAll

LEMMA TypedPrimary ==
  ASSUME Typed, TypeOK,
         DrainSubmissions \/ OtherWrites \/ (\E w \in Workers : ApplyBatch(w))
           \/ (\E k \in Keys : Evict(k))
  PROVE  Typed'
<1>1. CASE DrainSubmissions
  <2>1. /\ taken' = TakenAll /\ ans' = NoAns
        /\ UNCHANGED <<l3, localVars, gen, settled, sub, chan, lane, clr, rd, nops, histVars>>
    BY <1>1 DEF DrainSubmissions
  <2>2. PICK s \in Batches : arena' = ArenaAfter(s) /\ ring' = RingAfter(s)
    BY <1>1 DEF DrainSubmissions
  <2>3. arena' \in [Keys -> [held : BOOLEAN, ver : Nat \cup {None}]] /\ ring' \in Seq(Records)
    BY <2>2, ArenaAfterFacts, RingAfterFacts
  <2> QED
    BY <2>1, <2>3, TakenType, Basics DEF Typed, localVars, histVars
<1>2. CASE OtherWrites
  <2>1. /\ ring' = ring \o [i \in 1 .. RingCap |-> OtherKey]
        /\ nops' = nops + 1 /\ ans' = NoAns
        /\ UNCHANGED <<l3, localVars, arena, gen, settled, taken, sub, chan, lane, clr,
                 rd, histVars>>
    BY <1>2 DEF OtherWrites, NewOp
  <2>2. [i \in 1 .. RingCap |-> OtherKey] \in Seq(Records) /\ ring \in Seq(Records)
    BY Basics DEF Records, Typed
  <2>3. ring' \in Seq(Records)
    BY <2>1, <2>2, ConcatProperties
  <2> QED
    BY <2>1, <2>3, Basics DEF Typed, localVars, histVars
<1>3. ASSUME NEW w \in Workers, ApplyBatch(w) PROVE Typed'
  <2>1. /\ taken' = TakenAll /\ ans' = NoAns /\ chan[w] # <<>>
        /\ gen' \in {gen, gen + 1} /\ settled' \in {settled, settled + 1}
        /\ wiped' \in {wiped, wiped \cup {w}}
        /\ deletedAt' = IF Head(chan[w]) = "c"
                          THEN [deletedAt EXCEPT ![Primary] = [k \in Keys |-> None]]
                          ELSE deletedAt
        /\ chan' = [chan EXCEPT ![w] = Tail(@)]
        /\ UNCHANGED <<l3, l1, sub, cursor, pendingDel, lane, clr, rd, nops, lastOp, floor, landedAt>>
    BY <1>3 DEF ApplyBatch
  <2>2. PICK s \in Batches :
          IF Head(chan[w]) = "c"
            THEN arena' = Wiped /\ ring' = Append(RingAfter(s), FlushAll)
            ELSE arena' = ArenaAfter(s) /\ ring' = RingAfter(s)
    BY <1>3 DEF ApplyBatch
  <2>3. RingAfter(s) \in Seq(Records) /\ FlushAll \in Records
    BY RingAfterFacts DEF Records
  <2>4. ring' \in Seq(Records)
    BY <2>2, <2>3, AppendProperties
  <2>5. arena' \in [Keys -> [held : BOOLEAN, ver : Nat \cup {None}]]
    <3>1. Wiped \in [Keys -> [held : BOOLEAN, ver : Nat \cup {None}]]
      BY DEF Wiped, Absent
    <3> QED
      BY <2>2, <3>1, ArenaAfterFacts
  <2>6. chan' \in [Workers -> Seq({"+", "c", "-"})]
    <3>1. chan \in [Workers -> Seq({"+", "c", "-"})]
      BY DEF Typed
    <3>2. Tail(chan[w]) \in Seq({"+", "c", "-"})
      BY <2>1, <3>1, HeadTailProperties
    <3> QED
      BY <2>1, <3>1, <3>2
  <2>7. gen' \in Nat /\ settled' \in Nat /\ wiped' \subseteq Procs
    <3>1. gen \in Nat /\ settled \in Nat /\ wiped \subseteq Procs /\ w \in Procs
      BY Basics DEF Typed
    <3>2. wiped' \subseteq Procs
      BY <2>1, <3>1
    <3>3. gen' \in Nat /\ settled' \in Nat
      BY <2>1, <3>1
    <3> QED
      BY <3>2, <3>3
  <2>8. deletedAt' \in [Procs -> [Keys -> Nat \cup {None}]]
    BY <2>1, Basics DEF Typed
  <2> QED
    BY <2>1, <2>4, <2>5, <2>6, <2>7, <2>8, TakenType, Basics DEF Typed
<1>4. ASSUME NEW k \in Keys, Evict(k) PROVE Typed'
  <2>1. /\ arena' = [arena EXCEPT ![k] = Absent] /\ ans' = NoAns
        /\ UNCHANGED <<l3, localVars, ring, gen, settled, taken, sub, chan, lane, clr,
                 rd, nops, histVars>>
    BY <1>4 DEF Evict
  <2>2. arena' \in [Keys -> [held : BOOLEAN, ver : Nat \cup {None}]]
    BY <2>1 DEF Typed, Absent
  <2> QED
    BY <2>1, <2>2, Basics DEF Typed, localVars, histVars
<1> QED
  BY <1>1, <1>2, <1>3, <1>4

LEMMA DrainTyped ==
  ASSUME Typed, TypeOK, NEW w \in Workers, Drain(w)
  PROVE  /\ l1' \in [Workers -> [Keys -> Entries]] /\ cursor' \in [Workers -> Nat]
         /\ pendingDel' \in [Workers -> [Keys -> Nat \cup {None}]]
         /\ deletedAt' \in [Procs -> [Keys -> Nat \cup {None}]]
<1>1. PICK new : new = [k \in Keys |-> IF Outdated(w, k) THEN NoEntry ELSE l1[w][k]]
  OBVIOUS
<1>2. l1 \in [Workers -> [Keys -> Entries]] /\ cursor \in [Workers -> Nat] /\ RingHead \in Nat
  BY Facts DEF Typed
<1>3. new \in [Keys -> Entries]
  BY <1>1, <1>2, Basics
<1>4. l1' = [l1 EXCEPT ![w] = new] /\ cursor' = [cursor EXCEPT ![w] = RingHead]
  BY <1>1, DrainFacts
<1> QED
  BY <1>2, <1>3, <1>4, DrainFacts

LEMMA TypedLocal ==
  ASSUME Typed, TypeOK, NEW w \in Workers, Get(w) \/ (\E k \in Keys : L1Evict(w, k))
  PROVE  Typed'
<1>1. CASE Get(w)
  <2>1. /\ Drain(w) /\ ans' = NoAns
        /\ UNCHANGED <<l3, sharedVars, sub, chan, lane, clr, rd, nops, histVars>>
    BY <1>1 DEF Get
  <2> QED
    BY <2>1, DrainTyped, Basics DEF Typed, sharedVars, histVars
<1>2. ASSUME NEW k \in Keys, L1Evict(w, k) PROVE Typed'
  <2>1. /\ l1' = [l1 EXCEPT ![w][k] = NoEntry] /\ ans' = NoAns
        /\ UNCHANGED <<l3, cursor, pendingDel, deletedAt, sharedVars, sub,
                 chan, lane, clr, rd, nops, histVars>>
    BY <1>2 DEF L1Evict
  <2>2. l1' \in [Workers -> [Keys -> Entries]]
    BY <2>1, Basics DEF Typed
  <2> QED
    BY <2>1, <2>2, Basics DEF Typed, sharedVars, histVars
<1> QED
  BY <1>1, <1>2

\* What a read that begins remembers.
Begun(k, level) ==
  IF level = 0 THEN [NoRead EXCEPT !.st = "asked", !.key = k]
  ELSE [NoRead EXCEPT !.st = "asked", !.key = k, !.level = level,
          !.mark = RingHead, !.clearMark = gen, !.start = nops]

LEMMA BegunFacts ==
  ASSUME Typed, NEW k \in Keys, NEW level \in 0 .. 3
  PROVE  /\ Begun(k, level) \in Reads /\ Begun(k, level).st = "asked"
         /\ Begun(k, level).key = k /\ Begun(k, level).level = level
         /\ level = 0 => /\ Begun(k, level).mark = 0 /\ Begun(k, level).clearMark = 0
                         /\ Begun(k, level).start = 0
         /\ level # 0 => /\ Begun(k, level).mark = RingHead /\ Begun(k, level).clearMark = gen
                         /\ Begun(k, level).start = nops
<1>1. RingHead \in Nat /\ gen \in Nat /\ nops \in Nat
  BY Facts DEF Typed
<1> QED
  BY <1>1 DEF Begun, NoRead, Reads

LEMMA StartShape ==
  ASSUME NEW p \in Procs, NEW k \in Keys, NEW level \in ReadLevels, Start(p, k, level)
  PROVE  /\ rd[p].st = "idle" /\ rd' = [rd EXCEPT ![p] = Begun(k, level)]
         /\ level \in 0 .. 3 /\ ans' = NoAns
         /\ IF p = Primary THEN UNCHANGED localVars ELSE p \in Workers /\ Drain(p)
         /\ Owed(p, k) # "delete" /\ (p \in Workers => pendingDel'[p][k] = None)
         /\ gen - settled = 0 /\ clr[p] = "none"
         /\ UNCHANGED <<l3, sharedVars, sub, chan, lane, clr, nops, histVars>>
BY Basics DEF Start, Begun, DeletedHere, ClearInFlight, SharedClearsInFlight

\* The primary's drain at the end of a read, or none.
LEMMA ReplyBatch ==
  ASSUME Typed, TypeOK, NEW p \in Procs, NEW s \in Drained(p)
  PROVE  (s \in Batches /\ p = Primary) \/ s = <<>>
BY DEF Drained

\* The outcomes of a read: nothing is used, it is handed over, or promoted too.
ReplyNothing == ans' = NoAns /\ UNCHANGED <<arena, ring, taken, l1>>
ReplyHands(p) == Answer(p, rd[p], FALSE) /\ UNCHANGED <<arena, ring, taken, l1>>
ReplyDrains(p, s) ==
  /\ taken' = (IF p = Primary /\ s # <<>> THEN TakenAll ELSE taken)
  /\ arena' = ArenaAfter(s) /\ ring' = RingAfter(s) /\ UNCHANGED l1
  /\ Answer(p, rd[p], FALSE)
ReplyPromotes(p, s) ==
  /\ taken' = (IF p = Primary /\ s # <<>> THEN TakenAll ELSE taken)
  /\ ~BlockedRing(rd[p], RingAfter(s))
  /\ Promote(p, rd[p], s)

LEMMA ReplyShape ==
  ASSUME NEW p \in Procs, Reply(p)
  PROVE  /\ rd[p].st = "read" /\ rd[p].level > 0 /\ rd' = [rd EXCEPT ![p] = NoRead]
         /\ UNCHANGED <<l3, gen, settled, sub, chan, cursor, pendingDel, pendingWrite,
                 deletedAt, lane, clr, nops, histVars>>
         /\ \/ ReplyNothing
            \/ /\ ~Deleted(p, rd[p]) /\ ~Cleared(p, rd[p])
               /\ \/ ReplyHands(p)
                  \/ /\ ~BlockedSelf(p, rd[p])
                     /\ \E s \in Drained(p) : ReplyDrains(p, s) \/ ReplyPromotes(p, s)
<1>1. /\ rd[p].st = "read" /\ rd[p].level > 0 /\ rd' = [rd EXCEPT ![p] = NoRead]
      /\ UNCHANGED <<l3, gen, settled, sub, chan, cursor, pendingDel, pendingWrite,
                 deletedAt, lane, clr, nops, histVars>>
  BY DEF Reply
<1>2. CASE Deleted(p, rd[p]) \/ Cleared(p, rd[p])
  BY <1>1, <1>2 DEF Reply, ReplyNothing
<1>3. CASE ~(Deleted(p, rd[p]) \/ Cleared(p, rd[p])) /\ BlockedSelf(p, rd[p])
  BY <1>1, <1>3 DEF Reply, ReplyHands
<1>4. CASE ~(Deleted(p, rd[p]) \/ Cleared(p, rd[p])) /\ ~BlockedSelf(p, rd[p])
  <2>1. PICK s \in Drained(p) :
            /\ taken' = IF p = Primary /\ s # <<>> THEN TakenAll ELSE taken
            /\ IF rd[p].level = 3 \/ BlockedRing(rd[p], RingAfter(s))
                 THEN /\ arena' = ArenaAfter(s) /\ ring' = RingAfter(s)
                      /\ UNCHANGED l1
                      /\ Answer(p, rd[p], FALSE)
                 ELSE Promote(p, rd[p], s)
    BY <1>4 DEF Reply
  <2>2. ReplyDrains(p, s) \/ ReplyPromotes(p, s)
    BY <2>1 DEF ReplyDrains, ReplyPromotes
  <2> QED
    BY <1>1, <1>4, <2>2
<1> QED
  BY <1>2, <1>3, <1>4

\* The arena and the ring after a promotion.
LEMMA PromoteFacts ==
  ASSUME Typed, TypeOK, NEW p \in Procs, NEW s \in Drained(p), rd[p].key \in Keys,
         ReplyPromotes(p, s)
  PROVE  LET r == rd[p] IN
         /\ PublishL3Derived(p, r) =>
              /\ arena' = [ArenaAfter(s) EXCEPT ![r.key] = [held |-> TRUE, ver |-> r.ver]]
              /\ ring' = Append(RingAfter(s), r.key)
         /\ ~PublishL3Derived(p, r) => arena' = ArenaAfter(s) /\ ring' = RingAfter(s)
         /\ \/ l1' = l1
            \/ /\ p \in Workers
               /\ l1' = [l1 EXCEPT ![p][r.key] = [held |-> TRUE, ownAt |-> None, since |-> r.start]]
         /\ ans' = [by |-> p, key |-> r.key, ver |-> r.ver, start |-> r.start,
                    put |-> PublishL3Derived(p, r)]
BY DEF ReplyPromotes, Promote, Answer

LEMMA AnswerType ==
  ASSUME Typed, NEW p \in Procs, NEW put \in BOOLEAN, Answer(p, rd[p], put)
  PROVE  ans' \in Answers
BY DEF Answer, Answers, Typed, Reads

LEMMA TypedRead ==
  ASSUME Typed, TypeOK, NEW p \in Procs, rd[p].st # "idle" => rd[p].key \in Keys,
         \/ \E k \in Keys : \E level \in ReadLevels : Start(p, k, level)
         \/ Sample(p) \/ Reply(p) \/ Miss(p) \/ HasAnswer(p)
  PROVE  Typed'
<1>1. ASSUME NEW k \in Keys, NEW level \in ReadLevels, Start(p, k, level) PROVE Typed'
  <2>1. /\ rd' = [rd EXCEPT ![p] = Begun(k, level)] /\ level \in 0 .. 3 /\ ans' = NoAns
        /\ IF p = Primary THEN UNCHANGED localVars ELSE p \in Workers /\ Drain(p)
        /\ UNCHANGED <<l3, sharedVars, sub, chan, lane, clr, nops, histVars>>
    BY <1>1, StartShape
  <2>2. rd' \in [Procs -> Reads]
    BY <2>1, BegunFacts DEF Typed
  <2>3. /\ l1' \in [Workers -> [Keys -> Entries]] /\ cursor' \in [Workers -> Nat]
        /\ pendingDel' \in [Workers -> [Keys -> Nat \cup {None}]]
        /\ deletedAt' \in [Procs -> [Keys -> Nat \cup {None}]]
    BY <2>1, DrainTyped DEF localVars, Typed
  <2> QED
    BY <2>1, <2>2, <2>3, Basics DEF Typed, sharedVars, histVars
<1>2. CASE Sample(p)
  <2>1. /\ rd' = [rd EXCEPT ![p].st = "read", ![p].held = l3[rd[p].key].held,
                      ![p].ver = l3[rd[p].key].ver]
        /\ ans' = NoAns /\ rd[p].st = "asked"
        /\ UNCHANGED <<l3, localVars, sharedVars, sub, chan, lane, clr, nops, histVars>>
    BY <1>2 DEF Sample
  <2>2. l3[rd[p].key].held \in BOOLEAN /\ l3[rd[p].key].ver \in Nat
    BY <2>1 DEF Typed
  <2>3. rd' \in [Procs -> Reads]
    <3>1. PICK r : r = [rd[p] EXCEPT !.st = "read", !.held = l3[rd[p].key].held,
                                     !.ver = l3[rd[p].key].ver]
      OBVIOUS
    <3>2. rd[p] \in Reads /\ rd \in [Procs -> Reads]
      BY DEF Typed
    <3>3. r \in Reads
      BY <2>2, <3>1, <3>2 DEF Reads
    <3>4. rd' = [rd EXCEPT ![p] = r]
      BY <2>1, <3>1, <3>2
    <3> QED
      BY <3>2, <3>3, <3>4
  <2> QED
    BY <2>1, <2>3, Basics DEF Typed, localVars, sharedVars, histVars
<1>3. CASE Reply(p)
  <2>1. rd[p].key \in Keys /\ rd[p] \in Reads
    BY <1>3, ReplyShape DEF Typed
  <2>2. /\ rd' = [rd EXCEPT ![p] = NoRead]
        /\ UNCHANGED <<l3, gen, settled, sub, chan, cursor, pendingDel,
                 deletedAt, lane, clr, nops, histVars>>
    BY <1>3, ReplyShape
  <2>3. rd' \in [Procs -> Reads]
    BY <2>2, Basics DEF Typed
  <2>4. /\ arena' \in [Keys -> [held : BOOLEAN, ver : Nat \cup {None}]]
        /\ ring' \in Seq(Records) /\ taken' \in [Workers -> Nat]
        /\ l1' \in [Workers -> [Keys -> Entries]] /\ ans' \in Answers
    <3>1. CASE ReplyNothing
      BY <3>1, Basics DEF ReplyNothing, Typed
    <3>2. CASE ReplyHands(p)
      BY <3>2, AnswerType DEF ReplyHands, Typed
    <3>3. ASSUME NEW s \in Drained(p), ReplyDrains(p, s) \/ ReplyPromotes(p, s)
          PROVE  /\ arena' \in [Keys -> [held : BOOLEAN, ver : Nat \cup {None}]]
                 /\ ring' \in Seq(Records) /\ taken' \in [Workers -> Nat]
                 /\ l1' \in [Workers -> [Keys -> Entries]] /\ ans' \in Answers
      <4>1. taken' \in [Workers -> Nat]
        BY <3>3, TakenType DEF ReplyDrains, ReplyPromotes, Typed
      <4>2. PICK rg, ar : rg = RingAfter(s) /\ ar = ArenaAfter(s)
        OBVIOUS
      <4>3. rg \in Seq(Records)
        BY <4>2, RingAfterFacts, NoBatch, ReplyBatch DEF Typed
      <4>4. ar \in [Keys -> [held : BOOLEAN, ver : Nat \cup {None}]]
        BY <4>2, ArenaAfterFacts
      <4>5. CASE ReplyDrains(p, s)
        BY <4>1, <4>2, <4>3, <4>4, <4>5, AnswerType DEF ReplyDrains, Typed
      <4>6. CASE ReplyPromotes(p, s)
        <5>1. PICK put : put = PublishL3Derived(p, rd[p])
          OBVIOUS
        <5>2. put \in BOOLEAN
          BY <5>1 DEF PublishL3Derived
        <5>3. ans' \in Answers
          BY <4>6, <5>1, <5>2, AnswerType DEF ReplyPromotes, Promote
        <5>4. ring' \in Seq(Records)
          <6>1. ring' = rg \/ ring' = Append(rg, rd[p].key)
            BY <2>1, <4>2, <4>6, PromoteFacts
          <6>2. rd[p].key \in Records
            BY <2>1 DEF Records
          <6> QED
            BY <4>3, <6>1, <6>2, AppendProperties
        <5>5. arena' \in [Keys -> [held : BOOLEAN, ver : Nat \cup {None}]]
          <6>1. PICK e : e = [held |-> TRUE, ver |-> rd[p].ver]
            OBVIOUS
          <6>2. arena' = ar \/ arena' = [ar EXCEPT ![rd[p].key] = e]
            BY <2>1, <4>2, <4>6, <6>1, PromoteFacts
          <6>3. e \in [held : BOOLEAN, ver : Nat \cup {None}]
            BY <2>1, <6>1 DEF Reads
          <6> QED
            BY <4>4, <6>2, <6>3
        <5>6. l1' \in [Workers -> [Keys -> Entries]]
          <6>1. l1 \in [Workers -> [Keys -> Entries]]
            BY DEF Typed
          <6>2. PICK e : e = [held |-> TRUE, ownAt |-> None, since |-> rd[p].start]
            OBVIOUS
          <6>3. e \in Entries
            BY <2>1, <6>2 DEF Entries, Reads
          <6>4. l1' = l1 \/ (p \in Workers /\ l1' = [l1 EXCEPT ![p][rd[p].key] = e])
            BY <2>1, <4>6, <6>2, PromoteFacts
          <6> QED
            BY <6>1, <6>3, <6>4
        <5> QED
          BY <4>1, <5>3, <5>4, <5>5, <5>6
      <4> QED
        BY <3>3, <4>5, <4>6
    <3> QED
      BY <1>3, <3>1, <3>2, <3>3, ReplyShape
  <2> QED
    BY <2>2, <2>3, <2>4 DEF Typed, histVars
<1>4. CASE Miss(p) \/ HasAnswer(p)
  <2>1. /\ rd' = [rd EXCEPT ![p] = NoRead] /\ ans' = NoAns
        /\ UNCHANGED <<l3, localVars, sharedVars, sub, chan, lane, clr, nops, histVars>>
    BY <1>4 DEF Miss, HasAnswer
  <2>2. rd' \in [Procs -> Reads]
    BY <2>1, Basics DEF Typed
  <2> QED
    BY <2>1, <2>2, Basics DEF Typed, localVars, sharedVars, histVars
<1> QED
  BY <1>1, <1>2, <1>3, <1>4

LEMMA TypedStep ==
  ASSUME IInv, Next
  PROVE  Typed'
<1>1. Typed /\ TypeOK /\ \A p \in Procs : rd[p].st # "idle" => rd[p].key \in Keys
  BY DEF IInv, Positions
<1> QED
  BY <1>1, Basics, TypedSet, TypedDelete, TypedQueue, TypedClear, TypedPrimary, TypedLocal,
     TypedRead DEF Next

-----------------------------------------------------------------------------
(* The ring only grows, what is accepted waits or is in it, and a flush     *)
(* comes with a generation that is open or new                              *)

Announced(x) == \E i \in (RingHead + 1) .. RingHead' : ring'[i] = x

RingStep ==
  /\ RingHead' \in Nat /\ RingHead <= RingHead'
  /\ \A i \in 1 .. RingHead : ring'[i] = ring[i]
  /\ \A k \in Keys : Waits(k) => Waits(k)' \/ Announced(k)
  /\ \A k \in Keys : lastOp'[k] = lastOp[k] \/ Waits(k)' \/ Announced(k)
  /\ Announced(FlushAll) => gen' # gen \/ gen # settled
  /\ \A w \in Workers : taken'[w] <= Len(sub'[w])

LEMMA RingFrame ==
  ASSUME Typed, TypeOK, UNCHANGED <<ring, sub, taken, lastOp>>
  PROVE  RingStep
<1>1. RingHead' = RingHead /\ RingHead \in Nat
  BY Facts DEF RingHead
<1>2. \A k : Waits(k) <=> Waits(k)'
  BY DEF Waits
<1>3. \A x : ~Announced(x)
  BY <1>1 DEF Announced
<1> QED
  BY <1>1, <1>2, <1>3 DEF RingStep, TypeOK

LEMMA OpenPositive ==
  ASSUME Typed, GensOK, NEW p \in Procs, Opened(p)
  PROVE  gen # settled
<1>1. p \in OpenGens /\ OpenGens \subseteq Procs
  BY DEF OpenGens
<1>2. IsFiniteSet(OpenGens) /\ Cardinality(OpenGens) \in Nat
  BY <1>1, FiniteProcs, FS_Subset, FS_CardinalityType
<1>3. Cardinality(OpenGens) # 0
  BY <1>1, <1>2, FS_EmptySet
<1>4. gen \in Nat /\ settled \in Nat /\ gen = settled + Cardinality(OpenGens)
  BY DEF Typed, GensOK
<1> QED
  BY <1>2, <1>3, <1>4

\* A record submitted waits.
LEMMA SubmitWaits ==
  ASSUME Typed, TypeOK, NEW w \in Workers, NEW k \in Keys, NEW kind \in {"set", "del"},
         Submit(w, kind, k), taken' = taken
  PROVE  /\ Waits(k)' /\ \A j \in Keys : Waits(j) => Waits(j)'
         /\ \A v \in Workers : taken'[v] <= Len(sub'[v])
<1>1. /\ sub' \in [Workers -> Seq(Submitted)]
      /\ Len(sub'[w]) = Len(sub[w]) + 1 /\ sub'[w][Len(sub[w]) + 1].key = k
      /\ \A i \in 1 .. Len(sub[w]) : sub'[w][i] = sub[w][i]
      /\ \A v \in Workers \ {w} : sub'[v] = sub[v]
  BY SubmitType
<1>2. \A v \in Workers : taken[v] \in Nat /\ Len(sub[v]) \in Nat /\ taken[v] <= Len(sub[v])
  BY DEF Typed, TypeOK
<1>3. Waits(k)'
  <2>1. Len(sub[w]) + 1 \in (taken'[w] + 1) .. Len(sub'[w])
    BY <1>1, <1>2
  <2> QED
    BY <1>1, <2>1 DEF Waits
<1>4. ASSUME NEW j \in Keys, Waits(j) PROVE Waits(j)'
  <2>1. PICK v \in Workers : \E i \in (taken[v] + 1) .. Len(sub[v]) : sub[v][i].key = j
    BY <1>4 DEF Waits
  <2>2. PICK i \in (taken[v] + 1) .. Len(sub[v]) : sub[v][i].key = j
    BY <2>1
  <2>3. i \in (taken'[v] + 1) .. Len(sub'[v]) /\ sub'[v][i] = sub[v][i]
    BY <1>1, <1>2, <2>2
  <2> QED
    BY <2>2, <2>3 DEF Waits
<1>5. \A v \in Workers : taken'[v] <= Len(sub'[v])
  BY <1>1, <1>2
<1> QED
  BY <1>3, <1>4, <1>5

\* The primary's write is in the ring.
LEMMA WriteAnnounced ==
  ASSUME Typed, TypeOK, NEW k \in Records, ring' = Append(ring, k), UNCHANGED <<sub, taken>>,
         \A j \in Keys : lastOp'[j] = lastOp[j] \/ j = k,
         k = FlushAll => gen' # gen
  PROVE  RingStep
<1>1. /\ RingHead' = RingHead + 1 /\ RingHead \in Nat /\ ring'[RingHead + 1] = k
      /\ \A i \in 1 .. RingHead : ring'[i] = ring[i]
  BY AppendRing
<1>2. \A j : Waits(j) <=> Waits(j)'
  BY DEF Waits
<1>3. (RingHead + 1) .. RingHead' = {RingHead + 1}
  BY <1>1
<1>4. Announced(k) /\ (Announced(FlushAll) => k = FlushAll)
  BY <1>1, <1>3 DEF Announced
<1>5. RingHead' \in Nat /\ RingHead <= RingHead'
  BY <1>1
<1>6. \A w \in Workers : taken'[w] <= Len(sub'[w])
  BY DEF TypeOK
<1> QED
  BY <1>1, <1>2, <1>4, <1>5, <1>6 DEF RingStep

LEMMA WriteRing ==
  ASSUME IInv, NEW p \in Procs, NEW k \in Keys,
         Delete(p, k) \/ (\E level \in SetLevels : Set(p, k, level))
  PROVE  RingStep
<1>1. Typed /\ TypeOK /\ k \in Records /\ k # FlushAll
  BY Basics DEF IInv, Records
<1>2. taken' = taken /\ lastOp' = [lastOp EXCEPT ![k] = nops']
  BY DEF Set, Delete
<1>3. \A j \in Keys : lastOp'[j] = lastOp[j] \/ j = k
  BY <1>1, <1>2 DEF Typed
<1>4. CASE p = Primary
  <2>1. ring' = Append(ring, k) /\ UNCHANGED sub
    BY <1>4 DEF Set, Delete, Written
  <2> QED
    BY <1>1, <1>2, <1>3, <2>1, WriteAnnounced
<1>5. CASE p # Primary
  <2>1. p \in Workers
    BY <1>5, Basics
  <2>2. PICK kind \in {"set", "del"} : Submit(p, kind, k)
    BY <1>5 DEF Set, Delete
  <2>3. UNCHANGED ring
    BY <1>5 DEF Set, Delete
  <2>4. RingHead' = RingHead /\ RingHead \in Nat
    BY <1>1, <2>3, Facts DEF RingHead
  <2>5. \A x : ~Announced(x)
    BY <2>4 DEF Announced
  <2>6. /\ Waits(k)' /\ \A j \in Keys : Waits(j) => Waits(j)'
        /\ \A v \in Workers : taken'[v] <= Len(sub'[v])
    BY <1>1, <1>2, <2>1, <2>2, SubmitWaits
  <2> QED
    BY <1>3, <2>3, <2>4, <2>5, <2>6 DEF RingStep
<1> QED
  BY <1>4, <1>5

\* A drain turns what waits into records, and perhaps adds one of its own.
LEMMA DrainRing ==
  ASSUME IInv, NEW s \in Batches, UNCHANGED <<sub, lastOp>>,
         taken' = TakenAll,
         \/ ring' = RingAfter(s)
         \/ \E x \in Records : /\ ring' = Append(RingAfter(s), x)
                               /\ x = FlushAll => gen' # gen \/ gen # settled
  PROVE  RingStep
<1>1. Typed /\ TypeOK /\ RingHead \in Nat
  BY Facts DEF IInv
<1>2. PICK rg : rg = RingAfter(s)
  OBVIOUS
<1>3. /\ rg \in Seq(Records) /\ Len(rg) \in Nat /\ RingHead <= Len(rg)
      /\ \A i \in 1 .. RingHead : rg[i] = ring[i]
      /\ \A i \in (RingHead + 1) .. Len(rg) : rg[i] \in Keys
      /\ \A k \in Keys : Waits(k) => \E i \in (RingHead + 1) .. Len(rg) : rg[i] = k
  BY <1>1, <1>2, RingAfterFacts
<1>4. \A w \in Workers : taken'[w] <= Len(sub'[w])
  <2>1. \A w \in Workers : taken'[w] = Len(sub'[w]) /\ Len(sub'[w]) \in Nat
    BY <1>1 DEF TakenAll, Typed
  <2> QED BY <2>1
<1>5. CASE ring' = rg
  <2>1. RingHead' = Len(rg)
    BY <1>5 DEF RingHead
  <2>2. \A k \in Keys : Waits(k) => Announced(k)
    BY <1>3, <1>5, <2>1 DEF Announced
  <2>3. ~Announced(FlushAll)
    BY <1>3, <1>5, <2>1, Basics DEF Announced
  <2> QED
    BY <1>3, <1>4, <1>5, <2>1, <2>2, <2>3 DEF RingStep
<1>6. ASSUME NEW x \in Records, ring' = Append(rg, x), x = FlushAll => gen' # gen \/ gen # settled
      PROVE  RingStep
  <2>1. /\ RingHead' = Len(rg) + 1 /\ ring'[Len(rg) + 1] = x
        /\ \A i \in 1 .. Len(rg) : ring'[i] = rg[i]
    BY <1>3, <1>6, AppendProperties DEF RingHead
  <2>2. \A i \in 1 .. RingHead : ring'[i] = ring[i]
    BY <1>1, <1>3, <2>1
  <2>3. ASSUME NEW k \in Keys, Waits(k) PROVE Announced(k)
    <3>1. PICK i \in (RingHead + 1) .. Len(rg) : rg[i] = k
      BY <1>3, <2>3
    <3>2. i \in 1 .. Len(rg) /\ i \in (RingHead + 1) .. RingHead'
      BY <1>1, <1>3, <2>1
    <3> QED
      BY <2>1, <3>1, <3>2 DEF Announced
  <2>4. Announced(FlushAll) => x = FlushAll
    <3> SUFFICES ASSUME NEW i \in (RingHead + 1) .. RingHead', ring'[i] = FlushAll, x # FlushAll
                 PROVE  FALSE
      BY DEF Announced
    <3>1. i # Len(rg) + 1
      BY <2>1
    <3>2. i \in (RingHead + 1) .. Len(rg) /\ i \in 1 .. Len(rg)
      BY <1>1, <1>3, <2>1, <3>1
    <3> QED
      BY <1>3, <2>1, <3>2, Basics
  <2> QED
    BY <1>1, <1>3, <1>4, <1>6, <2>1, <2>2, <2>3, <2>4 DEF RingStep
<1> QED
  BY <1>2, <1>5, <1>6

LEMMA ReplyRing ==
  ASSUME IInv, NEW p \in Procs, Reply(p)
  PROVE  RingStep
<1>1. Typed /\ TypeOK /\ rd[p].key \in Keys /\ rd[p].key \in Records /\ rd[p].key # FlushAll
  BY ReplyShape, Basics DEF IInv, Positions, Records
<1>2. UNCHANGED <<sub, lastOp>>
  BY ReplyShape DEF histVars
<1>3. CASE ring' = ring /\ taken' = taken
  BY <1>1, <1>2, <1>3, RingFrame
<1>4. ASSUME NEW s \in Drained(p), ReplyDrains(p, s) \/ ReplyPromotes(p, s)
      PROVE  RingStep
  <2>1. ring' = RingAfter(s) \/ ring' = Append(RingAfter(s), rd[p].key)
    BY <1>1, <1>4, PromoteFacts DEF ReplyDrains
  <2>2. taken' = IF p = Primary /\ s # <<>> THEN TakenAll ELSE taken
    BY <1>4 DEF ReplyDrains, ReplyPromotes
  <2>3. CASE s = <<>>
    <3>1. taken' = taken /\ (ring' = ring \/ ring' = Append(ring, rd[p].key))
      BY <1>1, <2>1, <2>2, <2>3, NoBatch
    <3> QED
      BY <1>1, <1>2, <3>1, RingFrame, WriteAnnounced
  <2>4. CASE s # <<>>
    <3>1. s \in Batches /\ taken' = TakenAll
      BY <1>1, <2>2, <2>4, ReplyBatch
    <3> QED
      BY <1>1, <1>2, <2>1, <3>1, DrainRing
  <2> QED
    BY <2>3, <2>4
<1> QED
  BY <1>3, <1>4, ReplyShape DEF ReplyNothing, ReplyHands

LEMMA PrimaryRing ==
  ASSUME IInv, DrainSubmissions \/ OtherWrites \/ (\E w \in Workers : ApplyBatch(w))
  PROVE  RingStep
<1>1. Typed /\ TypeOK /\ GensOK /\ RingHead \in Nat
  BY Facts DEF IInv
<1>2. CASE DrainSubmissions
  <2>1. PICK s \in Batches : ring' = RingAfter(s)
    BY <1>2 DEF DrainSubmissions
  <2>2. taken' = TakenAll /\ UNCHANGED <<sub, lastOp>>
    BY <1>2 DEF DrainSubmissions, histVars
  <2> QED
    BY <2>1, <2>2, DrainRing
<1>3. CASE OtherWrites
  <2> DEFINE more == [i \in 1 .. RingCap |-> OtherKey]
  <2>1. ring' = ring \o more /\ UNCHANGED <<sub, taken, lastOp>>
    BY <1>3 DEF OtherWrites, histVars
  <2>2. more \in Seq(Records) /\ Len(more) = RingCap
        /\ \A i \in 1 .. RingCap : more[i] = OtherKey
    BY Basics DEF Records
  <2>3. ring \in Seq(Records)
    BY <1>1 DEF Typed
  <2> HIDE DEF more
  <2>4. /\ Len(ring') = Len(ring) + RingCap
        /\ \A i \in 1 .. Len(ring) + RingCap :
             ring'[i] = IF i <= Len(ring) THEN ring[i] ELSE more[i - Len(ring)]
    BY <2>1, <2>2, <2>3, ConcatProperties
  <2>5. RingHead' = RingHead + RingCap /\ RingHead = Len(ring)
    BY <2>4 DEF RingHead
  <2>6. \A i \in 1 .. RingHead : ring'[i] = ring[i]
    BY <1>1, <2>4, <2>5, Basics
  <2>7. ~Announced(FlushAll)
    <3> SUFFICES ASSUME NEW i \in (RingHead + 1) .. RingHead', ring'[i] = FlushAll PROVE FALSE
      BY DEF Announced
    <3>1. /\ i \in 1 .. Len(ring) + RingCap /\ ~(i <= Len(ring))
          /\ i - Len(ring) \in 1 .. RingCap
      BY <1>1, <2>5, Basics
    <3> QED
      BY <2>2, <2>4, <3>1, Basics
  <2>8. \A k : Waits(k) <=> Waits(k)'
    BY <2>1 DEF Waits
  <2>9. RingHead' \in Nat /\ RingHead <= RingHead'
    BY <1>1, <2>5, Basics
  <2>10. \A w \in Workers : taken'[w] <= Len(sub'[w])
    BY <1>1, <2>1 DEF TypeOK
  <2> QED
    BY <2>1, <2>6, <2>7, <2>8, <2>9, <2>10 DEF RingStep
<1>4. ASSUME NEW w \in Workers, ApplyBatch(w) PROVE RingStep
  <2>1. chan[w] # <<>> /\ taken' = TakenAll /\ UNCHANGED <<sub, lastOp>>
    BY <1>4 DEF ApplyBatch
  <2>2. PICK s \in Batches :
          IF Head(chan[w]) = "c" THEN ring' = Append(RingAfter(s), FlushAll)
                                 ELSE ring' = RingAfter(s)
    BY <1>4 DEF ApplyBatch
  <2>3. Head(chan[w]) = "c" => gen # settled
    <3>1. chan[w] \in Seq({"+", "c", "-"}) /\ w \in Procs /\ w # Primary
      BY <1>1, Basics DEF Typed
    <3>2. Head(chan[w]) = chan[w][1]
      BY <2>1, <3>1
    <3>3. Head(chan[w]) = "c" => Opened(w)
      BY <2>1, <3>1, <3>2 DEF Opened
    <3> QED
      BY <1>1, <3>1, <3>3, OpenPositive
  <2>4. FlushAll \in Records
    BY DEF Records
  <2> QED
    BY <2>1, <2>2, <2>3, <2>4, DrainRing
<1> QED
  BY <1>2, <1>3, <1>4

LEMMA RingStepHolds ==
  ASSUME IInv, Next
  PROVE  RingStep
<1>1. Typed /\ TypeOK
  BY DEF IInv
<1>2. ASSUME NEW p \in Procs, ClearAll(p) PROVE RingStep
  <2>1. UNCHANGED <<sub, taken, lastOp>>
    BY <1>2 DEF ClearAll
  <2>2. CASE p = Primary
    <3>1. ring' = Append(ring, FlushAll) /\ gen' = gen + 1
      BY <1>2, <2>2 DEF ClearAll
    <3>2. gen' # gen /\ FlushAll \in Records
      BY <1>1, <3>1 DEF Typed, Records
    <3> QED
      BY <1>1, <2>1, <3>1, <3>2, WriteAnnounced
  <2>3. CASE p # Primary
    <3>1. UNCHANGED ring
      BY <1>2, <2>3 DEF ClearAll
    <3> QED
      BY <1>1, <2>1, <3>1, RingFrame
  <2> QED
    BY <2>2, <2>3
<1>3. ASSUME NEW p \in Procs, NEW k \in Keys,
             Land(p, k) \/ Released(p, k) \/ (\E level \in ReadLevels : Start(p, k, level))
      PROVE  RingStep
  <2>1. UNCHANGED <<ring, sub, taken, lastOp>>
    BY <1>3, StartShape DEF Land, Released, sharedVars, histVars
  <2> QED
    BY <1>1, <2>1, RingFrame
<1>4. ASSUME NEW p \in Procs, ClearLand(p) \/ ClearSettle(p) \/ Sample(p) \/ Miss(p) \/ HasAnswer(p)
      PROVE  RingStep
  <2>1. UNCHANGED <<ring, sub, taken, lastOp>>
    BY <1>4 DEF ClearLand, ClearSettle, Sample, Miss, HasAnswer, sharedVars, histVars
  <2> QED
    BY <1>1, <2>1, RingFrame
<1>5. ASSUME NEW w \in Workers, Get(w) \/ (\E k \in Keys : L1Evict(w, k)) PROVE RingStep
  <2>1. UNCHANGED <<ring, sub, taken, lastOp>>
    BY <1>5 DEF Get, L1Evict, sharedVars, histVars
  <2> QED
    BY <1>1, <2>1, RingFrame
<1>6. ASSUME NEW k \in Keys, Evict(k) PROVE RingStep
  <2>1. UNCHANGED <<ring, sub, taken, lastOp>>
    BY <1>6 DEF Evict, histVars
  <2> QED
    BY <1>1, <2>1, RingFrame
<1> QED
  BY <1>2, <1>3, <1>4, <1>5, <1>6, WriteRing, ReplyRing, PrimaryRing DEF Next

-----------------------------------------------------------------------------
(* Generations *)

LEMMA CountStep ==
  ASSUME Typed, gen = settled + Cardinality(OpenGens), NEW p \in Procs,
         \A q \in Procs \ {p} : Opened(q)' <=> Opened(q),
         \/ (Opened(p)' <=> Opened(p)) /\ gen' = gen /\ settled' = settled
         \/ ~Opened(p) /\ Opened(p)' /\ gen' = gen + 1 /\ settled' = settled
         \/ Opened(p) /\ ~Opened(p)' /\ gen' = gen /\ settled' = settled + 1
  PROVE  gen' = settled' + Cardinality(OpenGens')
<1>1. PICK S, T : S = OpenGens /\ T = OpenGens'
  OBVIOUS
<1>2. S = {q \in Procs : Opened(q)} /\ T = {q \in Procs : Opened(q)'}
  BY <1>1 DEF OpenGens
<1>3. IsFiniteSet(S) /\ Cardinality(S) \in Nat
  BY <1>2, FiniteProcs, FS_Subset, FS_CardinalityType
<1>4. gen \in Nat /\ settled \in Nat /\ gen = settled + Cardinality(S)
  BY <1>1 DEF Typed
<1>5. CASE (Opened(p)' <=> Opened(p)) /\ gen' = gen /\ settled' = settled
  <2>1. T = S
    BY <1>2, <1>5
  <2> QED
    BY <1>1, <1>4, <1>5, <2>1
<1>6. CASE ~Opened(p) /\ Opened(p)' /\ gen' = gen + 1 /\ settled' = settled
  <2>1. T = S \cup {p} /\ p \notin S
    BY <1>2, <1>6
  <2>2. Cardinality(T) = Cardinality(S) + 1
    BY <1>3, <2>1, FS_AddElement
  <2> QED
    BY <1>1, <1>3, <1>4, <1>6, <2>2
<1>7. CASE Opened(p) /\ ~Opened(p)' /\ gen' = gen /\ settled' = settled + 1
  <2>1. T = S \ {p} /\ p \in S
    BY <1>2, <1>7
  <2>2. Cardinality(T) = Cardinality(S) - 1
    BY <1>3, <2>1, FS_RemoveElement
  <2> QED
    BY <1>1, <1>3, <1>4, <1>7, <2>2
<1> QED
  BY <1>5, <1>6, <1>7

LEMMA GensFrame ==
  ASSUME GensOK, UNCHANGED <<chan, clr, gen, settled, wiped>>
  PROVE  GensOK'
<1>1. \A p : Opened(p)' <=> Opened(p)
  BY DEF Opened
<1>2. OpenGens' = OpenGens
  BY <1>1 DEF OpenGens
<1> QED
  BY <1>2 DEF GensOK, ChanOK

LEMMA GensClearAll ==
  ASSUME IInv, NEW p \in Procs, ClearAll(p)
  PROVE  GensOK'
<1>1. Typed /\ GensOK
  BY DEF IInv
<1>2. clr[p] = "none" /\ clr' = [clr EXCEPT ![p] = "queued"] /\ settled' = settled
  BY DEF ClearAll
<1>3. \A q \in Procs : clr'[q] = IF q = p THEN "queued" ELSE clr[q]
  BY <1>1, <1>2 DEF Typed
<1>4. CASE p = Primary
  <2>1. gen' = gen + 1 /\ wiped' = wiped \cup {p} /\ chan' = chan
    BY <1>4 DEF ClearAll
  <2>2. ~Opened(p) /\ Opened(p)'
    BY <1>2, <1>3, <1>4 DEF Opened
  <2>3. \A q \in Procs \ {p} : Opened(q)' <=> Opened(q)
    BY <1>3, <2>1 DEF Opened
  <2>4. gen' = settled' + Cardinality(OpenGens')
    BY <1>1, <1>2, <2>1, <2>2, <2>3, CountStep DEF GensOK
  <2>5. \A w \in Workers : ChanOK(w)'
    BY <1>1, <1>3, <1>4, <2>1, Basics DEF GensOK, ChanOK
  <2>6. Workers \cap wiped' = Workers \cap wiped
    BY <1>4, <2>1, Basics
  <2> QED
    BY <1>1, <2>1, <2>4, <2>5, <2>6 DEF GensOK
<1>5. CASE p # Primary
  <2>1. p \in Workers
    BY <1>5, Basics
  <2>2. gen' = gen /\ wiped' = wiped \ {p} /\ chan' = [chan EXCEPT ![p] = @ \o <<"+", "c">>]
    BY <1>5 DEF ClearAll
  <2>3. PICK s, t, n : s = chan[p] /\ t = s \o <<"+", "c">> /\ n = Len(s)
    OBVIOUS
  <2>4. s \in Seq({"+", "c", "-"}) /\ n \in Nat /\ chan'[p] = t
        /\ \A w \in Workers \ {p} : chan'[w] = chan[w]
    BY <1>1, <2>1, <2>2, <2>3 DEF Typed
  <2>5. /\ Len(t) = n + 2 /\ t \in Seq({"+", "c", "-"})
        /\ \A i \in 1 .. n : t[i] = s[i]
        /\ t[n + 1] = "+" /\ t[n + 2] = "c"
    <3>1. PICK u : u = <<"+", "c">>
      OBVIOUS
    <3>2. u \in Seq({"+", "c", "-"}) /\ Len(u) = 2 /\ u[1] = "+" /\ u[2] = "c"
      BY <3>1
    <3>3. /\ t \in Seq({"+", "c", "-"}) /\ Len(t) = n + 2
          /\ \A i \in 1 .. n + 2 : t[i] = IF i <= n THEN s[i] ELSE u[i - n]
      BY <2>3, <2>4, <3>1, <3>2, ConcatProperties
    <3>4. /\ \A i \in 1 .. n : i \in 1 .. n + 2 /\ i <= n
          /\ n + 1 \in 1 .. n + 2 /\ n + 2 \in 1 .. n + 2 /\ ~(n + 1 <= n) /\ ~(n + 2 <= n)
      BY <2>4
    <3>5. PICK i, j : i = n + 1 /\ j = n + 2
      OBVIOUS
    <3>6. i - n = 1 /\ j - n = 2
      BY <2>4, <3>5
    <3>7. t[i] = u[i - n] /\ t[j] = u[j - n]
      BY <3>3, <3>4, <3>5
    <3>8. t[n + 1] = "+" /\ t[n + 2] = "c"
      BY <3>2, <3>5, <3>6, <3>7
    <3> QED
      BY <3>3, <3>4, <3>8
  <2>6. t # <<>> /\ t[1] = IF s = <<>> THEN "+" ELSE s[1]
    <3>1. CASE s = <<>>
      BY <2>3, <2>4, <2>5, <3>1
    <3>2. CASE s # <<>>
      BY <2>3, <2>4, <2>5, <3>2
    <3> QED BY <3>1, <3>2
  <2>7. Opened(p)' <=> Opened(p)
    BY <1>2, <1>5, <2>3, <2>4, <2>6 DEF Opened
  <2>8. \A q \in Procs \ {p} : Opened(q)' <=> Opened(q)
    BY <1>3, <2>4, Basics DEF Opened
  <2>9. gen' = settled' + Cardinality(OpenGens')
    BY <1>1, <1>2, <2>2, <2>7, <2>8, CountStep DEF GensOK
  <2>10. ChanOK(p)'
    <3>1. /\ \A i \in 1 .. (n - 1) :
              s[i + 1] = IF s[i] = "+" THEN "c" ELSE IF s[i] = "c" THEN "-" ELSE "+"
          /\ s # <<>> => s[n] = "-"
      BY <1>1, <1>2, <2>1, <2>3 DEF GensOK, ChanOK
    <3>2. n > 0 => s # <<>>
      BY <2>3, <2>4
    <3>3. ASSUME NEW i \in 1 .. (n + 1)
          PROVE  t[i + 1] = IF t[i] = "+" THEN "c" ELSE IF t[i] = "c" THEN "-" ELSE "+"
      <4>1. CASE i < n
        <5>1. i \in 1 .. (n - 1) /\ i \in 1 .. n /\ i + 1 \in 1 .. n
          BY <2>4, <4>1
        <5> QED BY <2>5, <3>1, <5>1
      <4>2. CASE i = n
        <5>1. n \in 1 .. n /\ s[n] = "-"
          BY <2>4, <3>1, <3>2, <4>2
        <5> QED BY <2>5, <4>2, <5>1
      <4>3. CASE i = n + 1
        <5>1. i + 1 = n + 2
          BY <2>4, <4>3
        <5> QED BY <2>5, <4>3, <5>1
      <4> QED BY <2>4, <4>1, <4>2, <4>3
    <3>4. Len(t) - 1 = n + 1 /\ clr'[p] = "queued"
      BY <1>3, <2>4, <2>5
    <3> QED
      BY <2>4, <2>5, <3>3, <3>4 DEF ChanOK
  <2>11. \A w \in Workers \ {p} : ChanOK(w)'
    BY <1>1, <1>3, <2>4, Basics DEF GensOK, ChanOK
  <2>12. \A w \in Workers \cap wiped' : \A i \in 1 .. Len(chan'[w]) : chan'[w][i] # "c"
    BY <1>1, <2>2, <2>4 DEF GensOK
  <2> QED
    BY <2>9, <2>10, <2>11, <2>12 DEF GensOK
<1> QED
  BY <1>4, <1>5

LEMMA GensClearLand ==
  ASSUME IInv, NEW p \in Procs, ClearLand(p)
  PROVE  GensOK'
<1>1. Typed /\ GensOK
  BY DEF IInv
<1>2. /\ clr[p] = "queued" /\ clr' = [clr EXCEPT ![p] = "landed"]
      /\ UNCHANGED <<chan, gen, settled, wiped>>
  BY DEF ClearLand, sharedVars
<1>3. \A q \in Procs : clr'[q] = "none" <=> clr[q] = "none"
  BY <1>1, <1>2 DEF Typed
<1>4. \A q \in Procs : Opened(q)' <=> Opened(q)
  BY <1>2, <1>3 DEF Opened
<1>5. gen' = settled' + Cardinality(OpenGens')
  BY <1>1, <1>2, <1>4, CountStep DEF GensOK
<1>6. \A w \in Workers : ChanOK(w)'
  BY <1>1, <1>2, <1>3, Basics DEF GensOK, ChanOK
<1> QED
  BY <1>1, <1>2, <1>5, <1>6 DEF GensOK

LEMMA GensClearSettle ==
  ASSUME IInv, NEW p \in Procs, ClearSettle(p)
  PROVE  GensOK'
<1>1. Typed /\ GensOK
  BY DEF IInv
<1>2. clr[p] = "landed" /\ clr' = [clr EXCEPT ![p] = "none"] /\ UNCHANGED <<gen, wiped>>
  BY DEF ClearSettle, histVars
<1>3. \A q \in Procs : clr'[q] = IF q = p THEN "none" ELSE clr[q]
  BY <1>1, <1>2 DEF Typed
<1>4. CASE p = Primary
  <2>1. settled' = settled + 1 /\ chan' = chan
    BY <1>4 DEF ClearSettle
  <2>2. Opened(p) /\ ~Opened(p)'
    BY <1>2, <1>3, <1>4 DEF Opened
  <2>3. \A q \in Procs \ {p} : Opened(q)' <=> Opened(q)
    BY <1>3, <2>1 DEF Opened
  <2>4. gen' = settled' + Cardinality(OpenGens')
    BY <1>1, <1>2, <2>1, <2>2, <2>3, CountStep DEF GensOK
  <2>5. \A w \in Workers : ChanOK(w)'
    BY <1>1, <1>3, <1>4, <2>1, Basics DEF GensOK, ChanOK
  <2> QED
    BY <1>1, <1>2, <2>1, <2>4, <2>5 DEF GensOK
<1>5. CASE p # Primary
  <2>1. p \in Workers
    BY <1>5, Basics
  <2>2. settled' = settled /\ chan' = [chan EXCEPT ![p] = Append(@, "-")]
    BY <1>5 DEF ClearSettle
  <2>3. PICK s, t, n : s = chan[p] /\ t = Append(s, "-") /\ n = Len(s)
    OBVIOUS
  <2>4. s \in Seq({"+", "c", "-"}) /\ n \in Nat /\ chan'[p] = t
        /\ \A w \in Workers \ {p} : chan'[w] = chan[w]
    BY <1>1, <2>1, <2>2, <2>3 DEF Typed
  <2>5. Len(t) = n + 1 /\ t # <<>> /\ t[n + 1] = "-" /\ \A i \in 1 .. n : t[i] = s[i]
    BY <2>3, <2>4, AppendProperties
  <2>6. t[1] = IF s = <<>> THEN "-" ELSE s[1]
    <3>1. CASE s = <<>>
      BY <2>3, <2>4, <2>5, <3>1
    <3>2. CASE s # <<>>
      BY <2>3, <2>4, <2>5, <3>2
    <3> QED BY <3>1, <3>2
  <2>7. Opened(p)' <=> Opened(p)
    BY <1>2, <1>5, <2>3, <2>4, <2>5, <2>6 DEF Opened
  <2>8. \A q \in Procs \ {p} : Opened(q)' <=> Opened(q)
    BY <1>3, <2>4, Basics DEF Opened
  <2>9. gen' = settled' + Cardinality(OpenGens')
    BY <1>1, <1>2, <2>2, <2>7, <2>8, CountStep DEF GensOK
  <2>10. ChanOK(p)'
    <3>1. /\ \A i \in 1 .. (n - 1) :
              s[i + 1] = IF s[i] = "+" THEN "c" ELSE IF s[i] = "c" THEN "-" ELSE "+"
          /\ s # <<>> => s[n] = "c"
      BY <1>1, <1>2, <2>1, <2>3 DEF GensOK, ChanOK
    <3>2. n > 0 => s # <<>>
      BY <2>3, <2>4
    <3>3. ASSUME NEW i \in 1 .. n
          PROVE  t[i + 1] = IF t[i] = "+" THEN "c" ELSE IF t[i] = "c" THEN "-" ELSE "+"
      <4>1. CASE i < n
        <5>1. i \in 1 .. (n - 1) /\ i \in 1 .. n /\ i + 1 \in 1 .. n
          BY <2>4, <4>1
        <5> QED BY <2>5, <3>1, <5>1
      <4>2. CASE i = n
        <5>1. n \in 1 .. n /\ s[n] = "c"
          BY <2>4, <3>1, <3>2, <4>2
        <5> QED BY <2>5, <4>2, <5>1
      <4> QED BY <2>4, <4>1, <4>2
    <3>4. Len(t) - 1 = n /\ clr'[p] = "none"
      BY <1>3, <2>4, <2>5
    <3> QED
      BY <2>4, <2>5, <3>3, <3>4 DEF ChanOK
  <2>11. \A w \in Workers \ {p} : ChanOK(w)'
    BY <1>1, <1>3, <2>4, Basics DEF GensOK, ChanOK
  <2>12. \A w \in Workers \cap wiped' : \A i \in 1 .. Len(chan'[w]) : chan'[w][i] # "c"
    <3>1. p \in wiped => \A i \in 1 .. Len(t) : t[i] # "c"
      <4>1. p \in wiped => \A i \in 1 .. n : s[i] # "c"
        BY <1>1, <2>1, <2>3 DEF GensOK
      <4> QED
        BY <2>4, <2>5, <4>1
    <3> QED
      BY <1>1, <1>2, <2>4, <3>1 DEF GensOK
  <2> QED
    BY <2>9, <2>10, <2>11, <2>12 DEF GensOK
<1> QED
  BY <1>4, <1>5

LEMMA GensApplyBatch ==
  ASSUME IInv, NEW w \in Workers, ApplyBatch(w)
  PROVE  GensOK'
<1>1. Typed /\ GensOK /\ w \in Procs /\ w # Primary
  BY Basics DEF IInv
<1>2. PICK s, t, n : s = chan[w] /\ t = Tail(s) /\ n = Len(s)
  OBVIOUS
<1>3. /\ s # <<>> /\ chan' = [chan EXCEPT ![w] = t] /\ clr' = clr
      /\ gen' = (IF s[1] = "+" THEN gen + 1 ELSE gen)
      /\ settled' = (IF s[1] = "-" THEN settled + 1 ELSE settled)
      /\ wiped' = IF s[1] = "c" /\ ~Contains(t, "c") THEN wiped \cup {w} ELSE wiped
  <2>1. chan[w] \in Seq({"+", "c", "-"}) /\ chan[w] # <<>>
    BY <1>1 DEF Typed, ApplyBatch
  <2>2. Head(chan[w]) = chan[w][1]
    BY <2>1
  <2> QED
    BY <1>2, <2>1, <2>2 DEF ApplyBatch
<1>4. /\ s \in Seq({"+", "c", "-"}) /\ n \in Nat /\ n > 0 /\ chan'[w] = t
      /\ \A v \in Workers \ {w} : chan'[v] = chan[v]
  BY <1>1, <1>2, <1>3 DEF Typed
<1>5. t \in Seq({"+", "c", "-"}) /\ Len(t) = n - 1 /\ \A i \in 1 .. n - 1 : t[i] = s[i + 1]
  BY <1>2, <1>3, <1>4, HeadTailProperties
<1>6. /\ \A i \in 1 .. (n - 1) :
           s[i + 1] = IF s[i] = "+" THEN "c" ELSE IF s[i] = "c" THEN "-" ELSE "+"
      /\ s[n] = IF clr[w] = "none" THEN "-" ELSE "c"
      /\ s[1] \in {"+", "c", "-"}
  BY <1>1, <1>2, <1>3, <1>4, ElementOfSeq DEF GensOK, ChanOK
<1>7. t = <<>> <=> n = 1
  BY <1>4, <1>5
<1>8. n > 1 => t[1] = IF s[1] = "+" THEN "c" ELSE IF s[1] = "c" THEN "-" ELSE "+"
  <2>1. n > 1 => 1 \in 1 .. (n - 1)
    BY <1>4
  <2> QED
    BY <1>5, <1>6, <2>1
<1>9. \A q \in Procs \ {w} : Opened(q)' <=> Opened(q)
  BY <1>3, <1>4, Basics DEF Opened
<1>10. Opened(w) <=> s[1] # "+"
  BY <1>1, <1>2, <1>3 DEF Opened
<1>11. Opened(w)' <=> IF n = 1 THEN clr[w] # "none" ELSE t[1] # "+"
  BY <1>1, <1>3, <1>4, <1>7 DEF Opened
<1>12. gen' = settled' + Cardinality(OpenGens')
  <2>1. CASE s[1] = "+"
    <3>1. n # 1
      BY <1>6, <2>1
    <3>2. ~Opened(w) /\ Opened(w)'
      BY <1>4, <1>8, <1>10, <1>11, <2>1, <3>1
    <3> QED
      BY <1>1, <1>3, <1>9, <2>1, <3>2, CountStep DEF GensOK
  <2>2. CASE s[1] = "c"
    <3>1. Opened(w) /\ Opened(w)'
      BY <1>4, <1>6, <1>8, <1>10, <1>11, <2>2
    <3> QED
      BY <1>1, <1>3, <1>9, <2>2, <3>1, CountStep DEF GensOK
  <2>3. CASE s[1] = "-"
    <3>1. Opened(w) /\ ~Opened(w)'
      BY <1>4, <1>6, <1>8, <1>10, <1>11, <2>3
    <3> QED
      BY <1>1, <1>3, <1>9, <2>3, <3>1, CountStep DEF GensOK
  <2> QED
    BY <1>6, <2>1, <2>2, <2>3
<1>13. ChanOK(w)'
  <2>1. ASSUME NEW i \in 1 .. (Len(t) - 1)
        PROVE  t[i + 1] = IF t[i] = "+" THEN "c" ELSE IF t[i] = "c" THEN "-" ELSE "+"
    <3>1. i \in 1 .. n - 1 /\ i + 1 \in 1 .. n - 1 /\ i + 1 \in 1 .. (n - 1)
      BY <1>4, <1>5
    <3>2. t[i] = s[i + 1] /\ t[i + 1] = s[(i + 1) + 1]
      BY <1>5, <3>1
    <3> QED
      BY <1>6, <3>1, <3>2
  <2>2. t # <<>> => t[Len(t)] = s[n]
    <3>1. t # <<>> => n - 1 \in 1 .. n - 1 /\ (n - 1) + 1 = n
      BY <1>4, <1>7
    <3> QED
      BY <1>5, <3>1
  <2> QED
    BY <1>3, <1>4, <1>6, <2>1, <2>2 DEF ChanOK
<1>14. \A v \in Workers \ {w} : ChanOK(v)'
  BY <1>1, <1>3, <1>4 DEF GensOK, ChanOK
<1>15. \A v \in Workers \cap wiped' : \A i \in 1 .. Len(chan'[v]) : chan'[v][i] # "c"
  <2>1. w \in wiped' => \A i \in 1 .. Len(t) : t[i] # "c"
    <3>1. CASE w \in wiped
      <4>1. \A i \in 1 .. n : s[i] # "c"
        BY <1>1, <1>2, <3>1 DEF GensOK
      <4>2. \A i \in 1 .. Len(t) : i + 1 \in 1 .. n /\ t[i] = s[i + 1]
        BY <1>4, <1>5
      <4> QED
        BY <4>1, <4>2
    <3>2. CASE w \notin wiped
      BY <1>3, <3>2 DEF Contains
    <3> QED
      BY <3>1, <3>2
  <2>2. \A v \in Workers \ {w} : v \in wiped' => v \in wiped
    BY <1>3
  <2> QED
    BY <1>1, <1>4, <2>1, <2>2 DEF GensOK
<1> QED
  BY <1>12, <1>13, <1>14, <1>15 DEF GensOK

LEMMA GensStep ==
  ASSUME IInv, Next
  PROVE  GensOK'
<1>1. GensOK
  BY DEF IInv
<1>2. ASSUME NEW p \in Procs, NEW k \in Keys,
             \/ Land(p, k) \/ Released(p, k) \/ Delete(p, k)
             \/ \E level \in ReadLevels : Start(p, k, level)
             \/ \E level \in SetLevels : Set(p, k, level)
      PROVE  GensOK'
  <2>1. UNCHANGED <<chan, clr, gen, settled, wiped>>
    BY <1>2, StartShape DEF Land, Released, Delete, Set, sharedVars, histVars
  <2> QED
    BY <1>1, <2>1, GensFrame
<1>3. ASSUME NEW p \in Procs, Sample(p) \/ Reply(p) \/ Miss(p) \/ HasAnswer(p) PROVE GensOK'
  <2>1. UNCHANGED <<chan, clr, gen, settled, wiped>>
    BY <1>3 DEF Sample, Reply, Miss, HasAnswer, sharedVars, histVars
  <2> QED
    BY <1>1, <2>1, GensFrame
<1>4. ASSUME NEW w \in Workers, Get(w) \/ (\E k \in Keys : L1Evict(w, k)) PROVE GensOK'
  <2>1. UNCHANGED <<chan, clr, gen, settled, wiped>>
    BY <1>4 DEF Get, L1Evict, sharedVars, histVars
  <2> QED
    BY <1>1, <2>1, GensFrame
<1>5. ASSUME DrainSubmissions \/ OtherWrites \/ (\E k \in Keys : Evict(k)) PROVE GensOK'
  <2>1. UNCHANGED <<chan, clr, gen, settled, wiped>>
    BY <1>5 DEF DrainSubmissions, OtherWrites, Evict, histVars
  <2> QED
    BY <1>1, <2>1, GensFrame
<1> QED
  BY <1>2, <1>3, <1>4, <1>5, GensClearAll, GensClearLand, GensClearSettle, GensApplyBatch DEF Next

-----------------------------------------------------------------------------
(* Lanes and removals that are owed *)

LanesOK == \A p \in Procs, k \in Keys : Len(lane[p][k]) <= 2

\* A step that changes one lane and its floor at most.
LEMMA LaneOne ==
  ASSUME IInv, NEW p \in Procs, NEW k \in Keys,
         \A q \in Procs, j \in Keys : (q = p /\ j = k) \/
           (lane'[q][j] = lane[q][j] /\ floor'[q][j] = floor[q][j]),
         Len(lane'[p][k]) <= 2,
         floor'[p][k] = Unlanded =>
           lane'[p][k] # <<>> /\ Last(lane'[p][k]).kind = "delete" /\ ~Last(lane'[p][k]).landed
  PROVE  LanesOK' /\ OwedOK'
<1>1. LanesOK /\ OwedOK
  BY DEF IInv, TypeOK, LanesOK
<1>2. LanesOK'
  BY <1>1 DEF LanesOK
<1>3. OwedOK'
  BY <1>1 DEF OwedOK
<1> QED
  BY <1>2, <1>3

LEMMA LaneFrame ==
  ASSUME IInv, UNCHANGED <<lane, floor>>
  PROVE  LanesOK' /\ OwedOK'
BY DEF IInv, TypeOK, LanesOK, OwedOK

LEMMA LaneWrite ==
  ASSUME IInv, NEW p \in Procs, NEW k \in Keys,
         Delete(p, k) \/ (\E level \in SetLevels : Set(p, k, level))
  PROVE  LanesOK' /\ OwedOK'
<1>1. Typed
  BY DEF IInv
<1>2. PICK kind \in {"set", "delete"} :
         Enqueue(p, k, Op(kind)) /\ floor' = [floor EXCEPT ![p][k] = IF kind = "set" THEN 0 ELSE Unlanded]
  BY DEF Delete, Set
<1>3. /\ Len(lane'[p][k]) <= 2 /\ lane'[p][k] # <<>>
      /\ Last(lane'[p][k]).kind = kind /\ ~Last(lane'[p][k]).landed
      /\ \A q \in Procs, j \in Keys : (q = p /\ j = k) \/ lane'[q][j] = lane[q][j]
  BY <1>1, <1>2, EnqueueType
<1>4. /\ floor'[p][k] = IF kind = "set" THEN 0 ELSE Unlanded
      /\ \A q \in Procs, j \in Keys : (q = p /\ j = k) \/ floor'[q][j] = floor[q][j]
  BY <1>1, <1>2 DEF Typed
<1>5. floor'[p][k] = Unlanded => kind = "delete"
  BY <1>4, Basics
<1> QED
  BY <1>3, <1>4, <1>5, LaneOne

LEMMA LaneLand ==
  ASSUME IInv, NEW p \in Procs, NEW k \in Keys, Land(p, k)
  PROVE  LanesOK' /\ OwedOK'
<1>1. Typed /\ OwedOK /\ LanesOK
  BY DEF IInv, TypeOK, LanesOK
<1>2. PICK s, n : s = lane[p][k] /\ n = Len(s)
  OBVIOUS
<1>3. s \in Seq(Ops) /\ s # <<>> /\ n \in Nat /\ n > 0 /\ n <= 2 /\ s[1] = Head(s)
  BY <1>1, <1>2 DEF Typed, Land, OnWire, LanesOK
<1>4. lane' = [lane EXCEPT ![p][k] = [s EXCEPT ![1].landed = TRUE]]
  BY <1>2 DEF Land
<1>5. /\ lane'[p][k] = [s EXCEPT ![1].landed = TRUE]
      /\ \A q \in Procs, j \in Keys : (q = p /\ j = k) \/ lane'[q][j] = lane[q][j]
  BY <1>1, <1>4 DEF Typed
<1>6. PICK t : t = [s EXCEPT ![1].landed = TRUE]
  OBVIOUS
<1>7. Len(t) = n /\ (n = 2 => t[2] = s[2]) /\ t # <<>>
  <2>1. PICK op : op = [s[1] EXCEPT !.landed = TRUE]
    OBVIOUS
  <2>2. 1 \in 1 .. n /\ op \in Ops
    <3>1. s[1] \in Ops
      BY <1>2, <1>3, ElementOfSeq
    <3>2. op \in Ops
      BY <2>1, <3>1 DEF Ops
    <3>3. 1 \in 1 .. n
      BY <1>3
    <3> QED
      BY <3>2, <3>3
  <2>3. t = [s EXCEPT ![1] = op]
    BY <1>6, <2>1
  <2>4. /\ Len(t) = Len(s) /\ t \in Seq(Ops)
        /\ \A j \in 1 .. Len(s) : t[j] = IF j = 1 THEN op ELSE s[j]
    BY <1>2, <1>3, <2>2, <2>3, ExceptSeq
  <2> QED
    BY <1>2, <1>3, <2>4
<1>8. /\ floor'[p][k] = IF Head(s).kind = "delete" /\ floor[p][k] = Unlanded /\ n = 1
                         THEN l3[k].ver + 1 ELSE floor[p][k]
      /\ \A q \in Procs, j \in Keys : (q = p /\ j = k) \/ floor'[q][j] = floor[q][j]
  BY <1>1, <1>2 DEF Land, Typed
<1>9. ASSUME floor'[p][k] = Unlanded
      PROVE  t # <<>> /\ Last(t).kind = "delete" /\ ~Last(t).landed
  <2>1. l3[k].ver \in Nat
    BY <1>1 DEF Typed
  <2>2. floor[p][k] = Unlanded
    BY <1>8, <1>9, <2>1, Basics
  <2>3. Last(s).kind = "delete" /\ ~Last(s).landed
    BY <1>1, <1>2, <2>2 DEF OwedOK
  <2>4. n # 1
    <3> SUFFICES ASSUME n = 1 PROVE FALSE
      OBVIOUS
    <3>1. Last(s) = Head(s)
      BY <1>2, <1>3 DEF Last
    <3> QED
      BY <1>8, <1>9, <2>1, <2>2, <2>3, <3>1, Basics
  <2>5. n = 2
    BY <1>3, <2>4
  <2> QED
    BY <1>2, <1>7, <2>3, <2>5 DEF Last
<1>10. lane'[p][k] = t /\ Len(t) <= 2
  BY <1>3, <1>5, <1>6, <1>7
<1>11. \A q \in Procs, j \in Keys : (q = p /\ j = k) \/
         (lane'[q][j] = lane[q][j] /\ floor'[q][j] = floor[q][j])
  BY <1>5, <1>8
<1> QED
  BY <1>9, <1>10, <1>11, LaneOne

LEMMA LaneReleased ==
  ASSUME IInv, NEW p \in Procs, NEW k \in Keys, Released(p, k)
  PROVE  LanesOK' /\ OwedOK'
<1>1. Typed /\ OwedOK /\ LanesOK
  BY DEF IInv, TypeOK, LanesOK
<1>2. PICK s, t, n : s = lane[p][k] /\ t = Tail(s) /\ n = Len(s)
  OBVIOUS
<1>3. s \in Seq(Ops) /\ s # <<>> /\ n \in Nat /\ n > 0 /\ n <= 2 /\ s[1] = Head(s)
  BY <1>1, <1>2 DEF Typed, Released, OnWire, LanesOK
<1>4. /\ lane'[p][k] = t
      /\ \A q \in Procs, j \in Keys : (q = p /\ j = k) \/ lane'[q][j] = lane[q][j]
  BY <1>1, <1>2 DEF Typed, Released
<1>5. t \in Seq(Ops) /\ Len(t) = n - 1 /\ \A i \in 1 .. Len(t) : t[i] = s[i + 1]
  BY <1>2, <1>3, HeadTailProperties
<1>6. /\ floor'[p][k] = IF ~Head(s).landed /\ n = 1 THEN 0 ELSE floor[p][k]
      /\ \A q \in Procs, j \in Keys : (q = p /\ j = k) \/ floor'[q][j] = floor[q][j]
  BY <1>1, <1>2 DEF Released, Typed
<1>7. ASSUME floor'[p][k] = Unlanded
      PROVE  t # <<>> /\ Last(t).kind = "delete" /\ ~Last(t).landed
  <2>1. floor[p][k] = Unlanded
    BY <1>6, <1>7, Basics
  <2>2. Last(s).kind = "delete" /\ ~Last(s).landed
    BY <1>1, <1>2, <2>1 DEF OwedOK
  <2>3. n # 1
    <3> SUFFICES ASSUME n = 1 PROVE FALSE
      OBVIOUS
    <3>1. Last(s) = Head(s)
      BY <1>2, <1>3 DEF Last
    <3> QED
      BY <1>6, <1>7, <2>2, <3>1, Basics
  <2>4. n = 2 /\ Len(t) = 1
    BY <1>3, <1>5, <2>3
  <2>5. t[1] = s[2]
    BY <1>5, <2>4
  <2>6. Last(t) = t[1] /\ Last(s) = s[2]
    BY <1>2, <2>4 DEF Last
  <2>7. t # <<>>
    BY <2>4
  <2> QED
    BY <2>2, <2>5, <2>6, <2>7
<1>8. Len(t) <= 2
  BY <1>3, <1>5
<1> QED
  BY <1>4, <1>6, <1>7, <1>8, LaneOne

LEMMA LaneClearAll ==
  ASSUME IInv, NEW p \in Procs, ClearAll(p)
  PROVE  LanesOK' /\ OwedOK'
<1>1. Typed /\ OwedOK /\ LanesOK
  BY DEF IInv, TypeOK, LanesOK
<1>2. PICK new : new = [k \in Keys |-> IF lane[p][k] = <<>> THEN <<>>
                                         ELSE <<[Head(lane[p][k]) EXCEPT !.pre = TRUE]>>]
  OBVIOUS
<1>3. lane' = [lane EXCEPT ![p] = new] /\ floor' = [floor EXCEPT ![p] = [k \in Keys |-> 0]]
  BY <1>2 DEF ClearAll
<1>4. \A k \in Keys : Len(new[k]) <= 2
  BY <1>2
<1>5. \A q \in Procs, k \in Keys : /\ lane'[q][k] = IF q = p THEN new[k] ELSE lane[q][k]
                                   /\ floor'[q][k] = IF q = p THEN 0 ELSE floor[q][k]
  BY <1>1, <1>3 DEF Typed
<1>6. LanesOK'
  BY <1>1, <1>4, <1>5 DEF LanesOK
<1>7. OwedOK'
  BY <1>1, <1>5, Basics DEF OwedOK
<1> QED
  BY <1>6, <1>7

LEMMA LaneStep ==
  ASSUME IInv, Next
  PROVE  LanesOK' /\ OwedOK'
<1>1. ASSUME NEW p \in Procs, NEW k \in Keys, NEW level \in ReadLevels, Start(p, k, level)
      PROVE  UNCHANGED <<lane, floor>>
  BY <1>1, StartShape DEF histVars
<1>2. ASSUME NEW p \in Procs, \/ ClearLand(p) \/ ClearSettle(p) \/ Sample(p) \/ Reply(p)
                              \/ Miss(p) \/ HasAnswer(p)
      PROVE  UNCHANGED <<lane, floor>>
  BY <1>2 DEF ClearLand, ClearSettle, Sample, Reply, Miss, HasAnswer, histVars
<1>3. ASSUME NEW w \in Workers, Get(w) \/ ApplyBatch(w) \/ (\E k \in Keys : L1Evict(w, k))
      PROVE  UNCHANGED <<lane, floor>>
  BY <1>3 DEF Get, ApplyBatch, L1Evict, histVars
<1>4. ASSUME DrainSubmissions \/ OtherWrites \/ (\E k \in Keys : Evict(k))
      PROVE  UNCHANGED <<lane, floor>>
  BY <1>4 DEF DrainSubmissions, OtherWrites, Evict, histVars
<1> QED
  BY <1>1, <1>2, <1>3, <1>4, LaneFrame, LaneWrite, LaneLand, LaneReleased, LaneClearAll DEF Next

-----------------------------------------------------------------------------
(* What any step does to versions, positions and reads *)

\* A version grows by one at most, and no count goes back.
Growth ==
  /\ \A k \in Keys : l3'[k].ver = l3[k].ver \/ l3'[k].ver = l3[k].ver + 1
  /\ gen <= gen' /\ settled <= settled' /\ nops <= nops'
  /\ \A w \in Workers : cursor'[w] = cursor[w] \/ cursor'[w] = RingHead

LEMMA GrowthFrame ==
  ASSUME Typed, UNCHANGED <<l3, gen, settled, cursor>>, nops' = nops \/ nops' = nops + 1
  PROVE  Growth
BY DEF Growth, Typed

LEMMA GrowthStep ==
  ASSUME IInv, Next
  PROVE  Growth
<1>1. Typed /\ TypeOK /\ nops \in Nat /\ gen \in Nat /\ settled \in Nat
  BY DEF IInv, Typed
<1>2. ASSUME NEW p \in Procs, NEW k \in Keys,
             \/ \E level \in SetLevels : Set(p, k, level)
             \/ Delete(p, k) \/ Released(p, k)
      PROVE  Growth
  BY <1>1, <1>2, GrowthFrame DEF Set, Delete, Released, NewOp, localVars, sharedVars
<1>3. ASSUME NEW p \in Procs, NEW k \in Keys, Land(p, k) PROVE Growth
  <2>1. UNCHANGED <<gen, settled, cursor, nops>>
    BY <1>3 DEF Land, localVars, sharedVars
  <2>2. PICK h \in BOOLEAN : l3' = [l3 EXCEPT ![k] = [held |-> h, ver |-> l3[k].ver + 1]]
    BY <1>3 DEF Land
  <2>3. \A j \in Keys : l3'[j].ver = l3[j].ver \/ l3'[j].ver = l3[j].ver + 1
    BY <1>1, <2>2 DEF Typed
  <2> QED
    BY <1>1, <2>1, <2>3 DEF Growth
<1>4. ASSUME NEW p \in Procs, NEW k \in Keys, NEW level \in ReadLevels, Start(p, k, level)
      PROVE  Growth
  <2>1. UNCHANGED <<l3, gen, settled, nops>>
    BY <1>4, StartShape DEF sharedVars
  <2>2. CASE p = Primary
    BY <1>1, <1>4, <2>1, <2>2, StartShape, GrowthFrame DEF localVars
  <2>3. CASE p # Primary
    <3>1. p \in Workers /\ Drain(p)
      BY <1>4, <2>3, StartShape
    <3>2. cursor' = [cursor EXCEPT ![p] = RingHead]
      BY <1>1, <3>1, DrainFacts
    <3>3. \A w \in Workers : cursor'[w] = cursor[w] \/ cursor'[w] = RingHead
      BY <1>1, <3>2 DEF Typed
    <3> QED
      BY <1>1, <2>1, <3>3 DEF Growth
  <2> QED
    BY <2>2, <2>3
<1>5. ASSUME NEW p \in Procs, ClearAll(p) PROVE Growth
  <2>1. UNCHANGED <<l3, settled, cursor>> /\ nops' = nops + 1 /\ (gen' = gen \/ gen' = gen + 1)
    BY <1>5 DEF ClearAll, NewOp
  <2> QED
    BY <1>1, <2>1 DEF Growth
<1>6. ASSUME NEW p \in Procs, ClearLand(p) PROVE Growth
  <2>1. UNCHANGED <<gen, settled, cursor, nops>>
    BY <1>6 DEF ClearLand, localVars, sharedVars
  <2>2. \A j \in Keys : l3'[j].ver = l3[j].ver + 1
    BY <1>6 DEF ClearLand
  <2> QED
    BY <1>1, <2>1, <2>2 DEF Growth
<1>7. ASSUME NEW p \in Procs, ClearSettle(p) PROVE Growth
  <2>1. UNCHANGED <<l3, gen, cursor, nops>> /\ (settled' = settled \/ settled' = settled + 1)
    BY <1>7 DEF ClearSettle, localVars
  <2> QED
    BY <1>1, <2>1 DEF Growth
<1>8. ASSUME NEW p \in Procs, Sample(p) \/ Reply(p) \/ Miss(p) \/ HasAnswer(p) PROVE Growth
  BY <1>1, <1>8, GrowthFrame DEF Sample, Reply, Miss, HasAnswer, localVars, sharedVars
<1>9. ASSUME NEW w \in Workers, Get(w) PROVE Growth
  <2>1. UNCHANGED <<l3, gen, settled, nops>> /\ Drain(w)
    BY <1>9 DEF Get, sharedVars
  <2>2. cursor' = [cursor EXCEPT ![w] = RingHead]
    BY <1>1, <2>1, DrainFacts
  <2>3. \A v \in Workers : cursor'[v] = cursor[v] \/ cursor'[v] = RingHead
    BY <1>1, <2>2 DEF Typed
  <2> QED
    BY <1>1, <2>1, <2>3 DEF Growth
<1>10. ASSUME NEW w \in Workers, ApplyBatch(w) PROVE Growth
  <2>1. /\ UNCHANGED <<l3, cursor, nops>> /\ (gen' = gen \/ gen' = gen + 1)
        /\ settled' = settled \/ settled' = settled + 1
    BY <1>10 DEF ApplyBatch
  <2> QED
    BY <1>1, <2>1 DEF Growth
<1>11. ASSUME NEW w \in Workers, NEW k \in Keys, L1Evict(w, k) PROVE Growth
  BY <1>1, <1>11, GrowthFrame DEF L1Evict, sharedVars
<1>12. ASSUME DrainSubmissions \/ OtherWrites \/ (\E k \in Keys : Evict(k)) PROVE Growth
  BY <1>1, <1>12, GrowthFrame DEF DrainSubmissions, OtherWrites, Evict, NewOp, localVars
<1> QED
  BY <1>2, <1>3, <1>4, <1>5, <1>6, <1>7, <1>8, <1>9, <1>10, <1>11, <1>12 DEF Next

\* A read begins, is sampled, or is over.
Sampled(p) == [rd[p] EXCEPT !.st = "read", !.held = l3[rd[p].key].held,
                            !.ver = l3[rd[p].key].ver]

ReadStep(p) ==
  \/ rd'[p] = rd[p] \/ rd'[p] = NoRead
  \/ rd'[p] = Sampled(p) /\ rd[p].st = "asked" /\ Sample(p)
  \/ \E k \in Keys : \E level \in ReadLevels : rd'[p] = Begun(k, level) /\ Start(p, k, level)

LEMMA ReadStepHolds ==
  ASSUME IInv, Next, NEW p \in Procs
  PROVE  ReadStep(p)
<1>1. Typed /\ rd \in [Procs -> Reads]
  BY DEF IInv, Typed
<1>2. ASSUME rd' = rd PROVE ReadStep(p)
  BY <1>2 DEF ReadStep
<1>3. ASSUME NEW q \in Procs, NEW k \in Keys, NEW level \in ReadLevels, Start(q, k, level)
      PROVE  ReadStep(p)
  <2>1. rd' = [rd EXCEPT ![q] = Begun(k, level)]
    BY <1>3, StartShape
  <2> QED
    BY <1>1, <1>3, <2>1 DEF ReadStep
<1>4. ASSUME NEW q \in Procs, Reply(q) \/ Miss(q) \/ HasAnswer(q) PROVE ReadStep(p)
  <2>1. rd' = [rd EXCEPT ![q] = NoRead]
    BY <1>4 DEF Reply, Miss, HasAnswer
  <2> QED
    BY <1>1, <2>1 DEF ReadStep
<1>5. ASSUME NEW q \in Procs, Sample(q) PROVE ReadStep(p)
  <2>1. rd' = [rd EXCEPT ![q] = Sampled(q)] /\ rd[q].st = "asked"
    BY <1>1, <1>5 DEF Sample, Sampled
  <2> QED
    BY <1>1, <1>5, <2>1 DEF ReadStep
<1>6. ASSUME NEW q \in Procs, NEW k \in Keys,
             \/ \E level \in SetLevels : Set(q, k, level)
             \/ Delete(q, k) \/ Land(q, k) \/ Released(q, k)
      PROVE  rd' = rd
  BY <1>6 DEF Set, Delete, Land, Released
<1>7. ASSUME NEW q \in Procs, ClearAll(q) \/ ClearLand(q) \/ ClearSettle(q) PROVE rd' = rd
  BY <1>7 DEF ClearAll, ClearLand, ClearSettle
<1>8. ASSUME NEW w \in Workers, Get(w) \/ ApplyBatch(w) \/ (\E k \in Keys : L1Evict(w, k))
      PROVE  rd' = rd
  BY <1>8 DEF Get, ApplyBatch, L1Evict
<1>9. ASSUME DrainSubmissions \/ OtherWrites \/ (\E k \in Keys : Evict(k)) PROVE rd' = rd
  BY <1>9 DEF DrainSubmissions, OtherWrites, Evict
<1> QED
  BY <1>2, <1>3, <1>4, <1>5, <1>6, <1>7, <1>8, <1>9 DEF Next

LEMMA SampledFacts ==
  ASSUME Typed, NEW p \in Procs
  PROVE  /\ Sampled(p).key = rd[p].key /\ Sampled(p).mark = rd[p].mark
         /\ Sampled(p).level = rd[p].level /\ Sampled(p).st = "read"
         /\ Sampled(p).clearMark = rd[p].clearMark /\ Sampled(p).start = rd[p].start
         /\ Sampled(p).ver = l3[rd[p].key].ver
<1>1. rd[p] \in Reads
  BY DEF Typed
<1> QED
  BY <1>1 DEF Reads, Sampled

\* The oldest version a process may be handed: its own write or clear sets it
\* to nothing, its removal out of reach, and landing there to what L3 then has.
FloorStep(p, k) ==
  \/ floor'[p][k] = floor[p][k] \/ floor'[p][k] = 0
  \/ floor'[p][k] = Unlanded /\ Delete(p, k)
  \/ /\ floor[p][k] = Unlanded
     /\ floor'[p][k] = l3[k].ver + 1 /\ l3'[k].ver = l3[k].ver + 1

LEMMA FloorStepHolds ==
  ASSUME IInv, Next, NEW p \in Procs, NEW k \in Keys
  PROVE  FloorStep(p, k)
<1>1. Typed /\ floor \in [Procs -> [Keys -> Nat \cup {Unlanded}]]
  BY DEF IInv, Typed
<1>2. ASSUME floor' = floor PROVE FloorStep(p, k)
  BY <1>2 DEF FloorStep
<1>3. ASSUME NEW q \in Procs, NEW j \in Keys, NEW level \in SetLevels, Set(q, j, level)
      PROVE  FloorStep(p, k)
  <2>1. floor' = [floor EXCEPT ![q][j] = 0]
    BY <1>3 DEF Set
  <2> QED
    BY <1>1, <2>1 DEF FloorStep
<1>4. ASSUME NEW q \in Procs, NEW j \in Keys, Delete(q, j)
      PROVE  FloorStep(p, k)
  <2>1. floor' = [floor EXCEPT ![q][j] = Unlanded]
    BY <1>4 DEF Delete
  <2>2. CASE q = p /\ j = k
    BY <1>1, <1>4, <2>1, <2>2 DEF FloorStep
  <2>3. CASE ~(q = p /\ j = k)
    BY <1>1, <2>1, <2>3 DEF FloorStep
  <2> QED
    BY <2>2, <2>3
<1>5. ASSUME NEW q \in Procs, NEW j \in Keys, Released(q, j)
      PROVE  FloorStep(p, k)
  <2>1. PICK new : floor' = [floor EXCEPT ![q][j] = new] /\ (new = 0 \/ new = floor[q][j])
    BY <1>5 DEF Released
  <2> QED
    BY <1>1, <2>1 DEF FloorStep
<1>6. ASSUME NEW q \in Procs, NEW j \in Keys, Land(q, j)
      PROVE  FloorStep(p, k)
  <2>1. PICK new : /\ floor' = [floor EXCEPT ![q][j] = new]
                   /\ \/ new = floor[q][j]
                      \/ floor[q][j] = Unlanded /\ new = l3[j].ver + 1
    BY <1>6 DEF Land
  <2>2. PICK h : l3' = [l3 EXCEPT ![j] = [held |-> h, ver |-> l3[j].ver + 1]]
    BY <1>6 DEF Land
  <2>3. l3'[j].ver = l3[j].ver + 1
    BY <1>1, <2>2 DEF Typed
  <2>4. CASE q = p /\ j = k
    BY <1>1, <2>1, <2>3, <2>4 DEF FloorStep
  <2>5. CASE ~(q = p /\ j = k)
    BY <1>1, <2>1, <2>5 DEF FloorStep
  <2> QED
    BY <2>4, <2>5
<1>7. ASSUME NEW q \in Procs, ClearAll(q) PROVE FloorStep(p, k)
  <2>1. floor' = [floor EXCEPT ![q] = [j \in Keys |-> 0]]
    BY <1>7 DEF ClearAll
  <2> QED
    BY <1>1, <2>1 DEF FloorStep
<1>8. ASSUME NEW q \in Procs, NEW j \in Keys, NEW level \in ReadLevels, Start(q, j, level)
      PROVE  floor' = floor
  BY <1>8, StartShape DEF histVars
<1>9. ASSUME NEW q \in Procs, \/ ClearLand(q) \/ ClearSettle(q) \/ Sample(q) \/ Reply(q)
                              \/ Miss(q) \/ HasAnswer(q)
      PROVE  floor' = floor
  BY <1>9 DEF ClearLand, ClearSettle, Sample, Reply, Miss, HasAnswer, histVars
<1>10. ASSUME NEW w \in Workers, Get(w) \/ ApplyBatch(w) \/ (\E j \in Keys : L1Evict(w, j))
       PROVE  floor' = floor
  BY <1>10 DEF Get, ApplyBatch, L1Evict, histVars
<1>11. ASSUME DrainSubmissions \/ OtherWrites \/ (\E j \in Keys : Evict(j))
       PROVE  floor' = floor
  BY <1>11 DEF DrainSubmissions, OtherWrites, Evict, histVars
<1> QED
  BY <1>2, <1>3, <1>4, <1>5, <1>6, <1>7, <1>8, <1>9, <1>10, <1>11 DEF Next

\* Only a clear that lands in L3 changes where clears landed.
LEMMA LandedStep ==
  ASSUME Next
  PROVE  landedAt' = landedAt \/ \E p \in Procs : ClearLand(p)
<1>1. ASSUME NEW q \in Procs, NEW j \in Keys,
             \/ \E level \in SetLevels : Set(q, j, level)
             \/ \E level \in ReadLevels : Start(q, j, level)
             \/ Delete(q, j) \/ Land(q, j) \/ Released(q, j)
      PROVE  landedAt' = landedAt
  BY <1>1, StartShape DEF Set, Delete, Land, Released, histVars
<1>2. ASSUME NEW q \in Procs, \/ ClearAll(q) \/ ClearSettle(q) \/ Sample(q) \/ Reply(q)
                              \/ Miss(q) \/ HasAnswer(q)
      PROVE  landedAt' = landedAt
  BY <1>2 DEF ClearAll, ClearSettle, Sample, Reply, Miss, HasAnswer, histVars
<1>3. ASSUME NEW w \in Workers, Get(w) \/ ApplyBatch(w) \/ (\E j \in Keys : L1Evict(w, j))
      PROVE  landedAt' = landedAt
  BY <1>3 DEF Get, ApplyBatch, L1Evict, histVars
<1>4. ASSUME DrainSubmissions \/ OtherWrites \/ (\E j \in Keys : Evict(j))
      PROVE  landedAt' = landedAt
  BY <1>4 DEF DrainSubmissions, OtherWrites, Evict, histVars
<1> QED
  BY <1>1, <1>2, <1>3, <1>4 DEF Next

LEMMA LandedFacts ==
  ASSUME Typed, NEW p \in Procs, ClearLand(p)
  PROVE  /\ \A k \in Keys : l3'[k].ver = l3[k].ver + 1
         /\ \A q \in Procs, k \in Keys :
              landedAt'[q][k] = IF q = p THEN l3[k].ver + 1 ELSE landedAt[q][k]
<1>1. l3' = [k \in Keys |-> [held |-> FALSE, ver |-> l3[k].ver + 1]]
  BY DEF ClearLand
<1>2. landedAt' = [landedAt EXCEPT ![p] = [k \in Keys |-> l3[k].ver + 1]]
  BY DEF ClearLand
<1> QED
  BY <1>1, <1>2 DEF Typed

LEMMA VersionsStep ==
  ASSUME IInv, Next
  PROVE  Versions'
<1>1. Typed /\ Typed' /\ Versions /\ Positions /\ Growth
  BY TypedStep, GrowthStep DEF IInv
<1>2. \A k \in Keys : l3[k].ver \in Nat /\ l3'[k].ver \in Nat /\ l3[k].ver <= l3'[k].ver
  <2> TAKE k \in Keys
  <2>1. l3[k].ver \in Nat
    BY <1>1 DEF Typed
  <2>2. l3'[k].ver = l3[k].ver \/ l3'[k].ver = l3[k].ver + 1
    BY <1>1 DEF Growth
  <2> QED
    BY <2>1, <2>2
<1>3. ASSUME NEW p \in Procs, NEW k \in Keys PROVE floor'[p][k] <= l3'[k].ver
  <2>1. FloorStep(p, k) /\ floor[p][k] <= l3[k].ver /\ floor[p][k] \in Nat \cup {Unlanded}
    BY <1>1, FloorStepHolds DEF Versions, Typed
  <2> QED
    BY <1>2, <2>1, Basics DEF FloorStep
<1>4. ASSUME NEW p \in Procs, NEW k \in Keys PROVE landedAt'[p][k] <= l3'[k].ver
  <2>1. landedAt[p][k] <= l3[k].ver /\ landedAt[p][k] \in Nat
    BY <1>1 DEF Versions, Typed
  <2>2. CASE landedAt' = landedAt
    BY <1>2, <2>1, <2>2
  <2>3. CASE \E q \in Procs : ClearLand(q)
    <3>1. landedAt'[p][k] = l3[k].ver + 1 \/ landedAt'[p][k] = landedAt[p][k]
      BY <1>1, <2>3, LandedFacts
    <3>2. l3'[k].ver = l3[k].ver + 1
      BY <1>1, <2>3, LandedFacts
    <3> QED
      BY <1>2, <2>1, <3>1, <3>2
  <2> QED
    BY <2>2, <2>3, LandedStep
<1>5. ASSUME NEW p \in Procs, rd'[p].st = "read" PROVE rd'[p].ver <= l3'[rd'[p].key].ver
  <2>1. ReadStep(p) /\ rd[p] \in Reads
    BY <1>1, ReadStepHolds DEF Typed
  <2>2. CASE rd'[p] = rd[p]
    <3>1. rd[p].key \in Keys /\ rd[p].ver <= l3[rd[p].key].ver /\ rd[p].ver \in Nat
      BY <1>1, <1>5, <2>1, <2>2 DEF Versions, Positions, Reads
    <3> QED
      BY <1>2, <2>2, <3>1
  <2>3. CASE rd'[p] = NoRead
    BY <1>5, <2>3, Basics
  <2>4. CASE rd'[p] = Sampled(p) /\ rd[p].st = "asked"
    <3>1. rd[p].key \in Keys
      BY <1>1, <2>4 DEF Positions
    <3> QED
      BY <1>1, <1>2, <2>4, <3>1, SampledFacts
  <2>5. ASSUME NEW k \in Keys, NEW level \in ReadLevels, rd'[p] = Begun(k, level) PROVE FALSE
    BY <1>1, <1>5, <2>5, BegunFacts, Basics
  <2> QED
    BY <2>1, <2>2, <2>3, <2>4, <2>5 DEF ReadStep
<1> QED
  BY <1>3, <1>4, <1>5 DEF Versions

\* An L1 entry goes, is an own write, or is an answer that nothing kept away.
Refilled(w, k) ==
  /\ InFlight(w) /\ rd[w].key = k
  /\ l1'[w][k] = [held |-> TRUE, ownAt |-> None, since |-> rd[w].start]
  /\ ~BlockedSelf(w, rd[w]) /\ ~BlockedRing(rd[w], ring) /\ cursor' = cursor

CopyStep(w, k) ==
  \/ l1'[w][k] = l1[w][k] /\ (cursor'[w] = cursor[w] \/ (cursor'[w] = RingHead /\ ~Outdated(w, k)))
  \/ l1'[w][k] = NoEntry
  \/ l1'[w][k].ownAt \in Nat /\ l1'[w][k].since = nops'
  \/ Refilled(w, k)

LEMMA CopyDrain ==
  ASSUME Typed, TypeOK, NEW v \in Workers, Drain(v), NEW w \in Workers, NEW k \in Keys
  PROVE  CopyStep(w, k)
<1>1. cursor' = [cursor EXCEPT ![v] = RingHead]
  BY DrainFacts
<1>2. PICK new : new = [j \in Keys |-> IF Outdated(v, j) THEN NoEntry ELSE l1[v][j]]
  OBVIOUS
<1>3. l1' = [l1 EXCEPT ![v] = new]
  BY <1>2, DrainFacts
<1>4. new[k] = IF Outdated(v, k) THEN NoEntry ELSE l1[v][k]
  BY <1>2
<1>5. CASE w = v
  <2>1. l1'[w][k] = new[k] /\ cursor'[w] = RingHead
    BY <1>1, <1>3, <1>5 DEF Typed
  <2> QED
    BY <1>4, <1>5, <2>1 DEF CopyStep
<1>6. CASE w # v
  <2>1. l1'[w][k] = l1[w][k] /\ cursor'[w] = cursor[w]
    BY <1>1, <1>3, <1>6 DEF Typed
  <2> QED
    BY <2>1 DEF CopyStep
<1> QED
  BY <1>5, <1>6

LEMMA CopyReply ==
  ASSUME IInv, NEW p \in Procs, Reply(p), NEW w \in Workers, NEW k \in Keys
  PROVE  CopyStep(w, k)
<1>1. Typed /\ TypeOK /\ rd[p].st = "read" /\ rd[p].level > 0 /\ cursor' = cursor /\ rd[p].key \in Keys
  BY ReplyShape DEF IInv, Positions
<1>2. CASE l1' = l1
  BY <1>1, <1>2 DEF CopyStep
<1>3. ASSUME NEW s \in Drained(p), ReplyPromotes(p, s), l1' # l1, ~BlockedSelf(p, rd[p])
      PROVE  CopyStep(w, k)
  <2>1. PICK new : new = [held |-> TRUE, ownAt |-> None, since |-> rd[p].start]
    OBVIOUS
  <2>2. p \in Workers /\ l1' = [l1 EXCEPT ![p][rd[p].key] = new]
    BY <1>1, <1>3, <2>1, PromoteFacts
  <2>3. s = <<>>
    BY <1>1, <2>2, Basics, ReplyBatch
  <2>4. ~BlockedRing(rd[p], ring)
    BY <1>1, <1>3, <2>3, NoBatch DEF ReplyPromotes
  <2>5. CASE w = p /\ k = rd[p].key
    <3>1. l1'[w][k] = new
      BY <1>1, <2>2, <2>5 DEF Typed
    <3> QED
      BY <1>1, <1>3, <2>1, <2>4, <2>5, <3>1 DEF CopyStep, Refilled, InFlight
  <2>6. CASE ~(w = p /\ k = rd[p].key)
    <3>1. l1'[w][k] = l1[w][k]
      BY <1>1, <2>2, <2>6 DEF Typed
    <3> QED
      BY <1>1, <3>1 DEF CopyStep
  <2> QED
    BY <2>5, <2>6
<1> QED
  BY <1>2, <1>3, ReplyShape DEF ReplyNothing, ReplyHands, ReplyDrains

LEMMA CopyStepHolds ==
  ASSUME IInv, Next, NEW w \in Workers, NEW k \in Keys
  PROVE  CopyStep(w, k)
<1>1. Typed /\ TypeOK /\ RingHead \in Nat /\ l1 \in [Workers -> [Keys -> Entries]]
  BY Facts DEF IInv, Typed
<1>2. ASSUME l1' = l1, cursor' = cursor PROVE CopyStep(w, k)
  BY <1>2 DEF CopyStep
<1>3. ASSUME NEW p \in Procs, NEW j \in Keys, NEW level \in SetLevels, Set(p, j, level)
      PROVE  CopyStep(w, k)
  <2>1. cursor' = cursor
    BY <1>3 DEF Set
  <2>2. CASE p = Primary
    <3>1. l1' = l1
      BY <1>3, <2>2 DEF Set
    <3> QED
      BY <1>2, <2>1, <3>1
  <2>3. CASE p # Primary
    <3>1. PICK new : /\ l1' = [l1 EXCEPT ![p][j] = new]
                     /\ new = NoEntry \/ new = [held |-> TRUE, since |-> nops', ownAt |-> RingHead]
      BY <1>3, <2>3 DEF Set
    <3>2. new = NoEntry \/ (new.ownAt \in Nat /\ new.since = nops')
      BY <1>1, <3>1
    <3>3. l1'[w][k] = l1[w][k] \/ l1'[w][k] = new
      BY <1>1, <3>1
    <3> QED
      BY <2>1, <3>2, <3>3 DEF CopyStep
  <2> QED
    BY <2>2, <2>3
<1>4. ASSUME NEW p \in Procs, NEW j \in Keys,
             l1' = l1 \/ l1' = [l1 EXCEPT ![p][j] = NoEntry], cursor' = cursor
      PROVE  CopyStep(w, k)
  BY <1>1, <1>4 DEF CopyStep
<1>5. ASSUME NEW p \in Procs, NEW j \in Keys, Delete(p, j) \/ L1Evict(p, j)
      PROVE  CopyStep(w, k)
  <2>1. cursor' = cursor /\ (l1' = l1 \/ l1' = [l1 EXCEPT ![p][j] = NoEntry])
    BY <1>5 DEF Delete, L1Evict
  <2> QED
    BY <1>4, <2>1
<1>6. ASSUME NEW p \in Procs, ClearAll(p) PROVE CopyStep(w, k)
  <2>1. cursor' = cursor /\ (l1' = l1 \/ l1' = [l1 EXCEPT ![p] = [j \in Keys |-> NoEntry]])
    BY <1>6 DEF ClearAll
  <2> QED
    BY <1>1, <2>1 DEF CopyStep
<1>7. ASSUME NEW p \in Procs, NEW j \in Keys, NEW level \in ReadLevels, Start(p, j, level)
      PROVE  CopyStep(w, k)
  <2>1. CASE p = Primary
    BY <1>2, <1>7, <2>1, StartShape DEF localVars
  <2>2. CASE p # Primary
    BY <1>1, <1>7, <2>2, StartShape, CopyDrain
  <2> QED
    BY <2>1, <2>2
<1>8. ASSUME NEW v \in Workers, Get(v) PROVE CopyStep(w, k)
  BY <1>1, <1>8, CopyDrain DEF Get
<1>9. ASSUME NEW p \in Procs, NEW j \in Keys, Land(p, j) \/ Released(p, j)
      PROVE  l1' = l1 /\ cursor' = cursor
  BY <1>9 DEF Land, Released, localVars
<1>10. ASSUME NEW p \in Procs, ClearLand(p) \/ ClearSettle(p) \/ Sample(p) \/ Miss(p) \/ HasAnswer(p)
       PROVE  l1' = l1 /\ cursor' = cursor
  BY <1>10 DEF ClearLand, ClearSettle, Sample, Miss, HasAnswer, localVars
<1>11. ASSUME \/ DrainSubmissions \/ OtherWrites \/ (\E j \in Keys : Evict(j))
              \/ \E v \in Workers : ApplyBatch(v)
       PROVE  l1' = l1 /\ cursor' = cursor
  BY <1>11 DEF DrainSubmissions, OtherWrites, Evict, ApplyBatch, localVars
<1>12. Workers \subseteq Procs
  BY Basics
<1> QED
  BY <1>2, <1>3, <1>5, <1>6, <1>7, <1>8, <1>9, <1>10, <1>11, <1>12, CopyReply DEF Next

\* Only a write that is accepted changes what was accepted last.
LEMMA AcceptedStep ==
  ASSUME IInv, Next, NEW k \in Keys
  PROVE  lastOp'[k] = lastOp[k] \/ lastOp'[k] = nops'
<1>1. lastOp \in [Keys -> Nat]
  BY DEF IInv, Typed
<1>2. ASSUME NEW p \in Procs, NEW j \in Keys,
             Delete(p, j) \/ (\E level \in SetLevels : Set(p, j, level))
      PROVE  lastOp'[k] = lastOp[k] \/ lastOp'[k] = nops'
  <2>1. lastOp' = [lastOp EXCEPT ![j] = nops']
    BY <1>2 DEF Delete, Set
  <2> QED
    BY <1>1, <2>1
<1>3. ASSUME NEW p \in Procs, NEW j \in Keys,
             Land(p, j) \/ Released(p, j) \/ (\E level \in ReadLevels : Start(p, j, level))
      PROVE  lastOp' = lastOp
  BY <1>3, StartShape DEF Land, Released, histVars
<1>4. ASSUME NEW p \in Procs, \/ ClearAll(p) \/ ClearLand(p) \/ ClearSettle(p)
                              \/ Sample(p) \/ Reply(p) \/ Miss(p) \/ HasAnswer(p)
      PROVE  lastOp' = lastOp
  BY <1>4 DEF ClearAll, ClearLand, ClearSettle, Sample, Reply, Miss, HasAnswer, histVars
<1>5. ASSUME NEW w \in Workers, Get(w) \/ ApplyBatch(w) \/ (\E j \in Keys : L1Evict(w, j))
      PROVE  lastOp' = lastOp
  BY <1>5 DEF Get, ApplyBatch, L1Evict, histVars
<1>6. ASSUME DrainSubmissions \/ OtherWrites \/ (\E j \in Keys : Evict(j))
      PROVE  lastOp' = lastOp
  BY <1>6 DEF DrainSubmissions, OtherWrites, Evict, histVars
<1> QED
  BY <1>2, <1>3, <1>4, <1>5, <1>6 DEF Next

LEMMA PositionsStep ==
  ASSUME IInv, Next
  PROVE  Positions'
<1>1. Typed /\ TypeOK /\ Typed' /\ Positions /\ Growth /\ RingStep /\ RingHead \in Nat
  BY TypedStep, GrowthStep, RingStepHolds, Facts DEF IInv
<1>2. gen \in Nat /\ nops \in Nat /\ gen <= gen' /\ nops <= nops' /\ gen' \in Nat /\ nops' \in Nat
  BY <1>1 DEF Typed, Growth
<1>3. RingHead <= RingHead' /\ RingHead' \in Nat
  BY <1>1 DEF RingStep
<1>4. \A w \in Workers : /\ cursor[w] \in Nat /\ cursor'[w] \in Nat
                         /\ cursor'[w] = cursor[w] \/ cursor'[w] = RingHead
  BY <1>1 DEF Typed, Growth
<1>5. ASSUME NEW p \in Procs
      PROVE  /\ (rd[p].st # "idle" => rd[p].key \in Keys)'
             /\ (rd[p].mark <= RingHead /\ rd[p].clearMark <= gen /\ rd[p].start <= nops)'
             /\ (p \in Workers => rd[p].mark <= cursor[p])'
  <2>1. PICK r : r = rd'[p]
    OBVIOUS
  <2>2. ReadStep(p) /\ rd[p] \in Reads
    BY <1>1, ReadStepHolds DEF Typed
  <2>3. /\ rd[p].mark \in Nat /\ rd[p].clearMark \in Nat /\ rd[p].start \in Nat
        /\ rd[p].mark <= RingHead /\ rd[p].clearMark <= gen /\ rd[p].start <= nops
        /\ rd[p].st # "idle" => rd[p].key \in Keys
        /\ p \in Workers => rd[p].mark <= cursor[p]
    BY <1>1, <2>2 DEF Positions, Reads
  <2>4. ASSUME r.mark = rd[p].mark, r.clearMark = rd[p].clearMark, r.start = rd[p].start
        PROVE  /\ r.mark <= RingHead' /\ r.clearMark <= gen' /\ r.start <= nops'
               /\ p \in Workers => r.mark <= cursor'[p]
    BY <1>1, <1>2, <1>3, <1>4, <2>3, <2>4
  <2>5. ASSUME r.mark = 0, r.clearMark = 0, r.start = 0
        PROVE  /\ r.mark <= RingHead' /\ r.clearMark <= gen' /\ r.start <= nops'
               /\ p \in Workers => r.mark <= cursor'[p]
    BY <1>2, <1>3, <1>4, <2>5
  <2>6. CASE rd'[p] = rd[p]
    BY <2>1, <2>3, <2>4, <2>6
  <2>7. CASE rd'[p] = NoRead
    BY <2>1, <2>5, <2>7, Basics
  <2>8. CASE rd'[p] = Sampled(p) /\ rd[p].st = "asked"
    BY <1>1, <2>1, <2>3, <2>4, <2>8, SampledFacts
  <2>9. ASSUME NEW k \in Keys, NEW level \in ReadLevels, rd'[p] = Begun(k, level),
               Start(p, k, level)
        PROVE  /\ r.key \in Keys /\ r.mark <= RingHead' /\ r.clearMark <= gen' /\ r.start <= nops'
               /\ p \in Workers => r.mark <= cursor'[p]
    <3>1. r.key = k /\ level \in 0 .. 3
      BY <1>1, <2>1, <2>9, BegunFacts, Basics
    <3>2. CASE level = 0
      BY <1>1, <2>1, <2>5, <2>9, <3>1, <3>2, BegunFacts
    <3>3. CASE level # 0
      <4>1. r.mark = RingHead /\ r.clearMark = gen /\ r.start = nops
        BY <1>1, <2>1, <2>9, <3>1, <3>3, BegunFacts
      <4>2. ASSUME p \in Workers PROVE cursor'[p] = RingHead
        <5>1. Drain(p)
          BY <2>9, <4>2, StartShape, Basics
        <5>2. cursor' = [cursor EXCEPT ![p] = RingHead]
          BY <1>1, <4>2, <5>1, DrainFacts
        <5> QED
          BY <1>1, <4>2, <5>2 DEF Typed
      <4>3. p \in Workers => r.mark <= cursor'[p]
        BY <1>1, <4>1, <4>2
      <4> QED
        BY <1>2, <1>3, <3>1, <4>1, <4>3
    <3> QED
      BY <3>2, <3>3
  <2> QED
    BY <2>1, <2>2, <2>6, <2>7, <2>8, <2>9 DEF ReadStep
<1>6. \A k \in Keys : lastOp'[k] <= nops'
  <2> TAKE k \in Keys
  <2>1. lastOp[k] <= nops /\ lastOp[k] \in Nat
    BY <1>1 DEF Positions, Typed
  <2> QED
    BY <1>2, <2>1, AcceptedStep
<1>7. \A w \in Workers, k \in Keys : l1'[w][k].since <= nops'
  <2> TAKE w \in Workers, k \in Keys
  <2>1. l1[w][k] \in Entries /\ l1[w][k].since <= nops /\ w \in Procs
    BY <1>1, Basics DEF Typed, Positions
  <2>2. rd[w].start <= nops /\ rd[w].start \in Nat
    BY <1>1, <2>1 DEF Typed, Positions, Reads
  <2>3. \/ l1'[w][k] = l1[w][k] \/ l1'[w][k] = NoEntry \/ l1'[w][k].since = nops'
        \/ l1'[w][k] = [held |-> TRUE, ownAt |-> None, since |-> rd[w].start]
    BY CopyStepHolds DEF CopyStep, Refilled
  <2>4. l1[w][k].since \in Nat
    BY <2>1 DEF Entries
  <2>5. \/ l1'[w][k].since = l1[w][k].since \/ l1'[w][k].since = 0 \/ l1'[w][k].since = nops'
        \/ l1'[w][k].since = rd[w].start
    BY <2>3, Basics
  <2> QED
    BY <1>2, <2>1, <2>2, <2>4, <2>5
<1> QED
  BY <1>5, <1>6, <1>7 DEF Positions

\* What the arena holds of L3: as before, nothing, or the answer of a read
\* that no clear got in the way of.
Published(k) ==
  /\ InFlight(Primary) /\ rd[Primary].st = "read" /\ rd[Primary].key = k
  /\ arena'[k].ver = rd[Primary].ver /\ ~Cleared(Primary, rd[Primary])
  /\ UNCHANGED <<l3, wiped, clr, landedAt>>

ArenaStep(k) == arena'[k] = arena[k] \/ arena'[k].ver = None \/ Published(k)

LEMMA ArenaStepHolds ==
  ASSUME IInv, Next, NEW k \in Keys
  PROVE  ArenaStep(k)
<1>1. Typed /\ TypeOK /\ arena \in [Keys -> [held : BOOLEAN, ver : Nat \cup {None}]]
  BY DEF IInv, Typed
<1>2. ASSUME arena' = arena PROVE ArenaStep(k)
  BY <1>2 DEF ArenaStep
<1>3. ASSUME NEW s, arena' = ArenaAfter(s) PROVE ArenaStep(k)
  BY <1>1, <1>3, ArenaAfterFacts DEF ArenaStep
<1>4. ASSUME arena' = Wiped PROVE ArenaStep(k)
  BY <1>4 DEF ArenaStep, Wiped, Absent
<1>5. ASSUME NEW p \in Procs, NEW j \in Keys,
             Delete(p, j) \/ (\E level \in SetLevels : Set(p, j, level))
      PROVE  ArenaStep(k)
  <2>1. ASSUME NEW h \in BOOLEAN, Written(j, h) PROVE ArenaStep(k)
    BY <1>1, <2>1, WrittenType DEF ArenaStep
  <2>2. CASE Delete(p, j)
    <3>1. arena' = arena \/ Written(j, FALSE)
      BY <2>2 DEF Delete
    <3> QED
      BY <1>2, <2>1, <3>1
  <2>3. ASSUME NEW level \in SetLevels, Set(p, j, level) PROVE ArenaStep(k)
    <3>1. arena' = arena \/ Written(j, level < 3)
      BY <2>3 DEF Set
    <3>2. (level < 3) \in BOOLEAN
      OBVIOUS
    <3> QED
      BY <1>2, <2>1, <3>1, <3>2
  <2> QED
    BY <1>5, <2>2, <2>3
<1>6. ASSUME NEW p \in Procs, NEW j \in Keys,
             Land(p, j) \/ Released(p, j) \/ (\E level \in ReadLevels : Start(p, j, level))
      PROVE  arena' = arena
  BY <1>6, StartShape DEF Land, Released, sharedVars
<1>7. ASSUME NEW p \in Procs, ClearLand(p) \/ ClearSettle(p) \/ Sample(p) \/ Miss(p) \/ HasAnswer(p)
      PROVE  arena' = arena
  BY <1>7 DEF ClearLand, ClearSettle, Sample, Miss, HasAnswer, sharedVars
<1>8. ASSUME NEW p \in Procs, ClearAll(p) PROVE ArenaStep(k)
  BY <1>2, <1>4, <1>8 DEF ClearAll
<1>9. ASSUME NEW w \in Workers, Get(w) \/ (\E j \in Keys : L1Evict(w, j)) PROVE arena' = arena
  BY <1>9 DEF Get, L1Evict, sharedVars
<1>10. ASSUME DrainSubmissions \/ (\E w \in Workers : ApplyBatch(w)) PROVE ArenaStep(k)
  <2>1. arena' = Wiped \/ \E s \in Batches : arena' = ArenaAfter(s)
    BY <1>10 DEF DrainSubmissions, ApplyBatch
  <2> QED
    BY <1>3, <1>4, <2>1
<1>11. ASSUME OtherWrites PROVE arena' = arena
  BY <1>11 DEF OtherWrites
<1>12. ASSUME NEW j \in Keys, Evict(j) PROVE ArenaStep(k)
  <2>1. arena' = [arena EXCEPT ![j] = Absent] /\ Absent.ver = None
    BY <1>12 DEF Evict, Absent
  <2> QED
    BY <1>1, <2>1 DEF ArenaStep
<1>13. ASSUME NEW p \in Procs, Reply(p) PROVE ArenaStep(k)
  <2>1. /\ rd[p].st = "read" /\ rd[p].level > 0 /\ rd[p].key \in Keys /\ rd[p] \in Reads
        /\ UNCHANGED <<l3, wiped, clr, landedAt>>
    BY <1>1, <1>13, ReplyShape DEF IInv, Positions, Typed, histVars
  <2>2. CASE arena' = arena
    BY <1>2, <2>2
  <2>3. ASSUME NEW s \in Drained(p), ReplyDrains(p, s) PROVE ArenaStep(k)
    BY <1>3, <2>3 DEF ReplyDrains
  <2>4. ASSUME NEW s \in Drained(p), ReplyPromotes(p, s), ~Cleared(p, rd[p])
        PROVE ArenaStep(k)
    <3>1. CASE ~PublishL3Derived(p, rd[p])
      BY <1>1, <1>3, <2>1, <2>4, <3>1, PromoteFacts
    <3>2. CASE PublishL3Derived(p, rd[p])
      <4>1. p = Primary
        BY <3>2 DEF PublishL3Derived
      <4>2. PICK new : new = [held |-> TRUE, ver |-> rd[p].ver]
        OBVIOUS
      <4>3. arena' = [ArenaAfter(s) EXCEPT ![rd[p].key] = new]
        BY <1>1, <2>1, <2>4, <3>2, <4>2, PromoteFacts
      <4>4. /\ DOMAIN ArenaAfter(s) = Keys
            /\ ArenaAfter(s)[k] = arena[k] \/ ArenaAfter(s)[k].ver = None
        BY <1>1, ArenaAfterFacts
      <4>5. CASE k = rd[p].key
        <5>1. arena'[k].ver = rd[p].ver
          BY <4>2, <4>3, <4>4, <4>5
        <5> QED
          BY <2>1, <2>4, <4>1, <4>5, <5>1 DEF ArenaStep, Published, InFlight
      <4>6. CASE k # rd[p].key
        <5>1. arena'[k] = ArenaAfter(s)[k]
          BY <4>3, <4>4, <4>6
        <5> QED
          BY <4>4, <5>1 DEF ArenaStep
      <4> QED
        BY <4>5, <4>6
    <3> QED
      BY <3>1, <3>2
  <2> QED
    BY <1>13, <2>2, <2>3, <2>4, ReplyShape DEF ReplyNothing, ReplyHands
<1> QED
  BY <1>2, <1>5, <1>6, <1>7, <1>8, <1>9, <1>10, <1>11, <1>12, <1>13 DEF Next

LEMMA TypeStep ==
  ASSUME IInv, Next
  PROVE  TypeOK'
<1>1. Typed /\ TypeOK /\ Typed' /\ Versions /\ GensOK' /\ Growth /\ RingStep /\ LanesOK'
      /\ RingHead \in Nat
  BY TypedStep, GrowthStep, GensStep, RingStepHolds, LaneStep, Facts DEF IInv
<1>2. ASSUME NEW k \in Keys PROVE l3'[k].ver \in Nat /\ arena'[k].ver \in None .. l3'[k].ver
  <2>1. /\ l3[k].ver \in Nat /\ l3'[k].ver \in Nat
        /\ arena'[k].ver \in Nat \cup {None}
    BY <1>1 DEF Typed
  <2>2. l3[k].ver <= l3'[k].ver
    BY <1>1, <2>1 DEF Growth
  <2>3. arena[k].ver \in None .. l3[k].ver
    BY <1>1 DEF TypeOK
  <2>4. CASE arena'[k] = arena[k]
    BY <2>1, <2>2, <2>3, <2>4, Basics
  <2>5. CASE arena'[k].ver = None
    BY <2>1, <2>5, Basics
  <2>6. CASE Published(k)
    <3>1. arena'[k].ver <= l3[k].ver
      BY <1>1, <2>6, Basics DEF Published, Versions
    <3> QED
      BY <2>1, <2>2, <3>1, Basics
  <2> QED
    BY <2>4, <2>5, <2>6, ArenaStepHolds DEF ArenaStep
<1>3. settled' <= gen'
  <2>1. OpenGens' \subseteq Procs
    BY DEF OpenGens
  <2>2. Cardinality(OpenGens') \in Nat
    BY <2>1, FiniteProcs, FS_Subset, FS_CardinalityType
  <2>3. settled' \in Nat /\ gen' = settled' + Cardinality(OpenGens')
    BY <1>1 DEF GensOK, Typed
  <2> QED
    BY <2>2, <2>3
<1>4. ASSUME NEW w \in Workers
      PROVE  taken'[w] <= Len(sub'[w]) /\ cursor'[w] <= RingHead'
  <2>1. cursor[w] \in Nat /\ cursor[w] <= RingHead
    BY <1>1 DEF Typed, TypeOK
  <2>2. /\ taken'[w] <= Len(sub'[w]) /\ RingHead <= RingHead' /\ RingHead' \in Nat
        /\ cursor'[w] = cursor[w] \/ cursor'[w] = RingHead
    BY <1>1 DEF Growth, RingStep
  <2> QED
    BY <1>1, <2>1, <2>2
<1>5. ASSUME NEW p \in Procs
      PROVE  /\ clr'[p] \in {"none", "queued", "landed"}
             /\ rd'[p].st \in {"idle", "asked", "read"}
             /\ \A k \in Keys : Len(lane'[p][k]) <= 2
  <2>1. clr'[p] \in {"none", "queued", "landed"} /\ rd'[p] \in Reads
    BY <1>1 DEF Typed
  <2>2. rd'[p].st \in {"idle", "asked", "read"}
    BY <2>1 DEF Reads
  <2> QED
    BY <1>1, <2>1, <2>2 DEF LanesOK
<1> QED
  BY <1>2, <1>3, <1>4, <1>5 DEF TypeOK

-----------------------------------------------------------------------------
(* A read in flight: what its guards will tell it *)

\* A removal's marks stay, move past the reader's cursor, or are made; they go
\* with an own write or clear, or with a clear whose generation is open.
MarkStep(p, k) ==
  \/ floor'[p][k] = 0
  \/ /\ p \in Workers => pendingDel'[p][k] = pendingDel[p][k]
     /\ deletedAt'[p][k] = deletedAt[p][k]
  \/ p \in Workers /\ Note(p, k)
  \/ p \in Workers /\ pendingDel'[p][k] # None
  \/ deletedAt'[p][k] > RingHead
  \/ gen # settled

LEMMA DeleteMarks ==
  ASSUME Typed, NEW p \in Procs, NEW k \in Keys, Delete(p, k)
  PROVE  (p \in Workers /\ pendingDel'[p][k] # None) \/ deletedAt'[p][k] > RingHead
<1>1. RingHead \in Nat
  BY Facts
<1>2. CASE p = Primary
  <2>1. deletedAt' = [deletedAt EXCEPT ![p][k] = RingHead + 1]
    BY <1>2 DEF Delete, NoteOwnDelete
  <2>2. deletedAt'[p][k] = RingHead + 1
    BY <2>1 DEF Typed
  <2> QED
    BY <1>1, <2>2
<1>3. CASE p # Primary
  <2>1. p \in Workers /\ pendingDel' = [pendingDel EXCEPT ![p][k] = RingHead]
    BY <1>3, Basics DEF Delete
  <2>2. pendingDel'[p][k] = RingHead
    BY <2>1 DEF Typed
  <2> QED
    BY <1>1, <2>1, <2>2, Basics
<1> QED
  BY <1>2, <1>3

LEMMA MarkDrain ==
  ASSUME Typed, TypeOK, NEW v \in Workers, Drain(v), NEW p \in Procs, NEW k \in Keys
  PROVE  MarkStep(p, k)
<1>1. CASE p = v
  BY <1>1, DrainFacts DEF MarkStep
<1>2. CASE p # v
  BY <1>2, DrainFacts DEF MarkStep
<1> QED
  BY <1>1, <1>2

LEMMA MarkStepHolds ==
  ASSUME IInv, Next, NEW p \in Procs, NEW k \in Keys
  PROVE  MarkStep(p, k)
<1>1. /\ Typed /\ TypeOK /\ GensOK /\ Workers \subseteq Procs
      /\ pendingDel \in [Workers -> [Keys -> Nat \cup {None}]]
      /\ deletedAt \in [Procs -> [Keys -> Nat \cup {None}]]
      /\ floor \in [Procs -> [Keys -> Nat \cup {Unlanded}]]
  BY Basics DEF IInv, Typed
<1>2. ASSUME pendingDel' = pendingDel, deletedAt' = deletedAt PROVE MarkStep(p, k)
  BY <1>2 DEF MarkStep
<1>3. ASSUME NEW q \in Procs, NEW j \in Keys, NEW level \in SetLevels, Set(q, j, level)
      PROVE  MarkStep(p, k)
  <2>1. floor' = [floor EXCEPT ![q][j] = 0] /\ deletedAt' = deletedAt
    BY <1>3 DEF Set
  <2>2. pendingDel' = pendingDel \/ pendingDel' = [pendingDel EXCEPT ![q][j] = None]
    BY <1>3 DEF Set
  <2>3. CASE q = p /\ j = k
    BY <1>1, <2>1, <2>3 DEF MarkStep
  <2>4. CASE ~(q = p /\ j = k)
    <3>1. p \in Workers => pendingDel'[p][k] = pendingDel[p][k]
      BY <1>1, <2>2, <2>4
    <3> QED
      BY <2>1, <3>1 DEF MarkStep
  <2> QED
    BY <2>3, <2>4
<1>4. ASSUME NEW q \in Procs, NEW j \in Keys, Delete(q, j) PROVE MarkStep(p, k)
  <2>1. /\ pendingDel' = pendingDel \/ pendingDel' = [pendingDel EXCEPT ![q][j] = RingHead]
        /\ deletedAt' = deletedAt \/ deletedAt' = [deletedAt EXCEPT ![q][j] = RingHead + 1]
    BY <1>4 DEF Delete, NoteOwnDelete
  <2>2. CASE q = p /\ j = k
    BY <1>1, <1>4, <2>2, DeleteMarks DEF MarkStep
  <2>3. CASE ~(q = p /\ j = k)
    <3>1. p \in Workers => pendingDel'[p][k] = pendingDel[p][k]
      BY <1>1, <2>1, <2>3
    <3>2. deletedAt'[p][k] = deletedAt[p][k]
      BY <1>1, <2>1, <2>3
    <3> QED
      BY <3>1, <3>2 DEF MarkStep
  <2> QED
    BY <2>2, <2>3
<1>5. ASSUME NEW q \in Procs, NEW j \in Keys, NEW level \in ReadLevels, Start(q, j, level)
      PROVE  MarkStep(p, k)
  <2>1. CASE q = Primary
    BY <1>2, <1>5, <2>1, StartShape DEF localVars
  <2>2. CASE q # Primary
    BY <1>1, <1>5, <2>2, StartShape, MarkDrain
  <2> QED
    BY <2>1, <2>2
<1>6. ASSUME NEW v \in Workers, Get(v) PROVE MarkStep(p, k)
  BY <1>1, <1>6, MarkDrain DEF Get
<1>7. ASSUME NEW q \in Procs, ClearAll(q) PROVE MarkStep(p, k)
  <2>1. /\ floor' = [floor EXCEPT ![q] = [j \in Keys |-> 0]]
        /\ deletedAt' = [deletedAt EXCEPT ![q] = [j \in Keys |-> None]]
        /\ pendingDel' = pendingDel \/ pendingDel' = [pendingDel EXCEPT ![q] = [j \in Keys |-> None]]
    BY <1>7 DEF ClearAll
  <2>2. CASE q = p
    BY <1>1, <2>1, <2>2 DEF MarkStep
  <2>3. CASE q # p
    <3>1. p \in Workers => pendingDel'[p][k] = pendingDel[p][k]
      BY <1>1, <2>1, <2>3
    <3>2. deletedAt'[p][k] = deletedAt[p][k]
      BY <1>1, <2>1, <2>3
    <3> QED
      BY <3>1, <3>2 DEF MarkStep
  <2> QED
    BY <2>2, <2>3
<1>8. ASSUME NEW w \in Workers, ApplyBatch(w) PROVE MarkStep(p, k)
  <2>1. chan[w] # <<>> /\ pendingDel' = pendingDel /\ (deletedAt' = deletedAt \/ Head(chan[w]) = "c")
    BY <1>8 DEF ApplyBatch
  <2>2. CASE deletedAt' = deletedAt
    BY <1>2, <2>1, <2>2
  <2>3. CASE Head(chan[w]) = "c"
    <3>1. chan[w] \in Seq({"+", "c", "-"}) /\ w \in Procs /\ w # Primary
      BY <1>1, Basics DEF Typed
    <3>2. chan[w][1] = "c"
      BY <2>1, <2>3, <3>1
    <3>3. Opened(w)
      BY <2>1, <3>1, <3>2 DEF Opened
    <3> QED
      BY <1>1, <3>1, <3>3, OpenPositive DEF MarkStep
  <2> QED
    BY <2>1, <2>2, <2>3
<1>9. ASSUME NEW q \in Procs, NEW j \in Keys, Land(q, j) \/ Released(q, j)
      PROVE  pendingDel' = pendingDel /\ deletedAt' = deletedAt
  BY <1>9 DEF Land, Released, localVars
<1>10. ASSUME NEW q \in Procs, \/ ClearLand(q) \/ ClearSettle(q) \/ Sample(q) \/ Reply(q)
                               \/ Miss(q) \/ HasAnswer(q)
       PROVE  pendingDel' = pendingDel /\ deletedAt' = deletedAt
  BY <1>10 DEF ClearLand, ClearSettle, Sample, Reply, Miss, HasAnswer, localVars
<1>11. ASSUME DrainSubmissions \/ OtherWrites \/ (\E j \in Keys : Evict(j))
       PROVE  pendingDel' = pendingDel /\ deletedAt' = deletedAt
  BY <1>11 DEF DrainSubmissions, OtherWrites, Evict, localVars
<1>12. ASSUME NEW w \in Workers, NEW j \in Keys, L1Evict(w, j)
       PROVE  pendingDel' = pendingDel /\ deletedAt' = deletedAt
  BY <1>12 DEF L1Evict
<1> QED
  BY <1>2, <1>3, <1>4, <1>5, <1>6, <1>7, <1>8, <1>9, <1>10, <1>11, <1>12 DEF Next

\* Positions of a read, in one place.
LEMMA InFlightFacts ==
  ASSUME IInv, NEW p \in Procs, InFlight(p)
  PROVE  /\ rd[p] \in Reads /\ rd[p].key \in Keys /\ rd[p].mark \in Nat /\ rd[p].ver \in Nat
         /\ rd[p].clearMark \in Nat /\ rd[p].start \in Nat
         /\ rd[p].mark <= RingHead /\ rd[p].clearMark <= gen /\ rd[p].start <= nops
         /\ p \in Workers => rd[p].mark <= cursor[p]
         /\ Guarded(p) /\ ReadOK(p) /\ Noticed(p)
<1>1. rd[p] \in Reads
  BY DEF IInv, Typed
<1>2. /\ rd[p].key \in Keys /\ rd[p].mark <= RingHead /\ rd[p].clearMark <= gen
      /\ rd[p].start <= nops /\ (p \in Workers => rd[p].mark <= cursor[p])
  BY DEF IInv, Positions, InFlight
<1>3. Guarded(p) /\ ReadOK(p) /\ Noticed(p)
  BY DEF IInv
<1> QED
  BY <1>1, <1>2, <1>3 DEF Reads

LEMMA GuardedKept ==
  ASSUME IInv, Next, NEW p \in Procs, InFlight(p), rd'[p] = rd[p]
  PROVE  Guarded(p)'
<1>1. PICK r, k : r = rd[p] /\ k = rd[p].key
  OBVIOUS
<1>2. /\ k \in Keys /\ r.mark \in Nat /\ r.ver \in Nat /\ r.clearMark \in Nat /\ k = r.key
      /\ r.mark <= RingHead /\ r.clearMark <= gen /\ (p \in Workers => r.mark <= cursor[p])
  BY <1>1, InFlightFacts
<1>3. /\ Guarded(p) <=>
           \/ floor[p][k] # Unlanded /\ (r.st = "read" => r.ver >= floor[p][k])
           \/ p \in Workers /\ pendingDel[p][k] # None
           \/ deletedAt[p][k] > r.mark
           \/ gen # r.clearMark
      /\ Guarded(p)' <=>
           \/ floor'[p][k] # Unlanded /\ (r.st = "read" => r.ver >= floor'[p][k])
           \/ p \in Workers /\ pendingDel'[p][k] # None
           \/ deletedAt'[p][k] > r.mark
           \/ gen' # r.clearMark
  BY <1>1 DEF Guarded
<1>4. /\ RingHead \in Nat /\ gen \in Nat /\ gen' \in Nat /\ gen <= gen'
      /\ deletedAt'[p][k] \in Nat \cup {None} /\ Typed
      /\ p \in Workers => cursor[p] \in Nat
  <2>1. Typed /\ Typed' /\ Growth
    BY TypedStep, GrowthStep DEF IInv
  <2>2. deletedAt'[p][k] \in Nat \cup {None}
    BY <1>2, <2>1 DEF Typed
  <2> QED
    BY <2>1, <2>2, Facts DEF Typed, Growth
<1>5. gen # r.clearMark => Guarded(p)'
  BY <1>2, <1>3, <1>4
<1>6. gen # settled => gen # r.clearMark
  BY <1>1, InFlightFacts DEF ReadOK
<1>7. p \in Workers /\ RecordAfter(FlushAll, cursor[p]) => gen # r.clearMark
  <2> SUFFICES ASSUME p \in Workers, RecordAfter(FlushAll, cursor[p]) PROVE gen # r.clearMark
    OBVIOUS
  <2>1. PICK i \in (cursor[p] + 1) .. RingHead : ring[i] = FlushAll
    BY DEF RecordAfter
  <2>2. i \in (r.mark + 1) .. RingHead
    BY <1>2, <1>4, <2>1
  <2>3. RecordAfter(FlushAll, r.mark)
    BY <2>1, <2>2 DEF RecordAfter
  <2> QED
    BY <1>1, <2>3, InFlightFacts DEF ReadOK
<1>8. CASE floor'[p][k] = 0
  BY <1>2, <1>3, <1>8, Basics
<1>9. deletedAt'[p][k] > RingHead => Guarded(p)'
  BY <1>2, <1>3, <1>4, Basics
<1>10. CASE Delete(p, k)
  BY <1>2, <1>3, <1>4, <1>9, <1>10, DeleteMarks
<1>11. CASE floor'[p][k] = floor[p][k] \/ floor[p][k] = Unlanded
  <2>1. CASE floor[p][k] # Unlanded /\ (r.st = "read" => r.ver >= floor[p][k])
    BY <1>3, <1>11, <2>1
  <2>2. CASE (p \in Workers /\ pendingDel[p][k] # None) \/ deletedAt[p][k] > r.mark
    <3>1. MarkStep(p, k)
      BY <1>2, MarkStepHolds
    <3>2. CASE p \in Workers /\ Note(p, k)
      <4>1. CASE pendingDel'[p][k] = pendingDel[p][k] /\ deletedAt'[p][k] = deletedAt[p][k]
        BY <1>3, <2>2, <4>1
      <4>2. CASE RecordAfter(FlushAll, cursor[p])
        BY <1>5, <1>7, <3>2, <4>2
      <4>3. CASE deletedAt'[p][k] \in Nat /\ deletedAt'[p][k] > cursor[p]
        BY <1>2, <1>3, <1>4, <3>2, <4>3
      <4> QED
        BY <3>2, <4>1, <4>2, <4>3 DEF Note
    <3>3. CASE /\ p \in Workers => pendingDel'[p][k] = pendingDel[p][k]
               /\ deletedAt'[p][k] = deletedAt[p][k]
      BY <1>3, <2>2, <3>3
    <3> QED
      BY <1>3, <1>5, <1>6, <1>8, <1>9, <3>1, <3>2, <3>3 DEF MarkStep
  <2> QED
    BY <1>3, <1>5, <2>1, <2>2, InFlightFacts
<1> QED
  BY <1>2, <1>8, <1>10, <1>11, FloorStepHolds DEF FloorStep

\* A process that has emptied the arena joins `wiped` with its generation open.
LEMMA WipedStep ==
  ASSUME IInv, Next
  PROVE  wiped' \subseteq wiped \/ gen' # gen \/ gen # settled
<1>1. Typed /\ GensOK /\ gen \in Nat
  BY DEF IInv, Typed
<1>2. ASSUME NEW p \in Procs, ClearAll(p) PROVE wiped' \subseteq wiped \/ gen' # gen
  <2>1. CASE p = Primary
    BY <1>1, <1>2, <2>1 DEF ClearAll
  <2>2. CASE p # Primary
    <3>1. wiped' = wiped \ {p}
      BY <1>2, <2>2 DEF ClearAll
    <3> QED
      BY <3>1
  <2> QED
    BY <2>1, <2>2
<1>3. ASSUME NEW w \in Workers, ApplyBatch(w) PROVE wiped' = wiped \/ gen # settled
  <2>1. chan[w] # <<>> /\ (wiped' = wiped \/ Head(chan[w]) = "c")
    BY <1>3 DEF ApplyBatch
  <2>2. ASSUME Head(chan[w]) = "c" PROVE gen # settled
    <3>1. chan[w] \in Seq({"+", "c", "-"}) /\ w \in Procs /\ w # Primary
      BY <1>1, Basics DEF Typed
    <3>2. chan[w][1] = "c"
      BY <2>1, <2>2, <3>1
    <3>3. Opened(w)
      BY <2>1, <3>1, <3>2 DEF Opened
    <3> QED
      BY <1>1, <3>1, <3>3, OpenPositive
  <2> QED
    BY <2>1, <2>2
<1>4. ASSUME NEW p \in Procs, NEW j \in Keys,
             \/ \E level \in SetLevels : Set(p, j, level)
             \/ \E level \in ReadLevels : Start(p, j, level)
             \/ Delete(p, j) \/ Land(p, j) \/ Released(p, j)
      PROVE  wiped' = wiped
  BY <1>4, StartShape DEF Set, Delete, Land, Released, histVars
<1>5. ASSUME NEW p \in Procs, \/ ClearLand(p) \/ ClearSettle(p) \/ Sample(p) \/ Reply(p)
                              \/ Miss(p) \/ HasAnswer(p)
      PROVE  wiped' = wiped
  BY <1>5 DEF ClearLand, ClearSettle, Sample, Reply, Miss, HasAnswer, histVars
<1>6. ASSUME NEW w \in Workers, Get(w) \/ (\E j \in Keys : L1Evict(w, j)) PROVE wiped' = wiped
  BY <1>6 DEF Get, L1Evict, histVars
<1>7. ASSUME DrainSubmissions \/ OtherWrites \/ (\E j \in Keys : Evict(j)) PROVE wiped' = wiped
  BY <1>7 DEF DrainSubmissions, OtherWrites, Evict, histVars
<1> QED
  BY <1>2, <1>3, <1>4, <1>5, <1>6, <1>7 DEF Next

\* So does one whose clear is still to land once the arena has been emptied.
LEMMA LandOpen ==
  ASSUME Typed, GensOK, NEW p \in Procs, p \in wiped, clr[p] # "none"
  PROVE  gen # settled
<1>1. CASE p = Primary
  <2>1. Opened(p)
    BY <1>1 DEF Opened
  <2> QED
    BY <2>1, OpenPositive
<1>2. CASE p # Primary
  <2>1. p \in Workers /\ ChanOK(p) /\ \A i \in 1 .. Len(chan[p]) : chan[p][i] # "c"
    BY <1>2, Basics DEF GensOK
  <2>2. CASE chan[p] = <<>>
    <3>1. Opened(p)
      BY <1>2, <2>2 DEF Opened
    <3> QED
      BY <3>1, OpenPositive
  <2>3. CASE chan[p] # <<>>
    <3>1. chan[p] \in Seq({"+", "c", "-"})
      BY <2>1 DEF Typed
    <3>2. Len(chan[p]) \in 1 .. Len(chan[p])
      BY <2>3, <3>1
    <3>3. chan[p][Len(chan[p])] = "c"
      BY <2>1, <2>3 DEF ChanOK
    <3> QED
      BY <2>1, <3>2, <3>3
  <2> QED
    BY <2>2, <2>3
<1> QED
  BY <1>1, <1>2

\* Positions of the ring stay what they are.
LEMMA RecordKept ==
  ASSUME RingStep, RingHead \in Nat, NEW x, NEW c \in Nat, RecordAfter(x, c)
  PROVE  RecordAfter(x, c)'
<1>1. PICK i \in (c + 1) .. RingHead : ring[i] = x
  BY DEF RecordAfter
<1>2. i \in 1 .. RingHead /\ i \in (c + 1) .. RingHead'
  BY <1>1 DEF RingStep
<1>3. ring'[i] = x
  BY <1>1, <1>2 DEF RingStep
<1> QED
  BY <1>2, <1>3 DEF RecordAfter

LEMMA RecordNew ==
  ASSUME RingStep, RingHead \in Nat, NEW x, NEW c \in Nat, c <= RingHead, Announced(x)
  PROVE  RecordAfter(x, c)'
<1>1. PICK i \in (RingHead + 1) .. RingHead' : ring'[i] = x
  BY DEF Announced
<1>2. i \in (c + 1) .. RingHead'
  BY <1>1 DEF RingStep
<1> QED
  BY <1>1, <1>2 DEF RecordAfter

LEMMA RecordOld ==
  ASSUME RingStep, RingHead \in Nat, NEW x, NEW c \in Nat, RecordAfter(x, c)'
  PROVE  RecordAfter(x, c) \/ Announced(x)
<1>1. PICK i \in (c + 1) .. RingHead' : ring'[i] = x
  BY DEF RecordAfter
<1>2. CASE i <= RingHead
  <2>1. i \in 1 .. RingHead /\ i \in (c + 1) .. RingHead
    BY <1>1, <1>2 DEF RingStep
  <2>2. ring[i] = x
    BY <1>1, <2>1 DEF RingStep
  <2> QED
    BY <2>1, <2>2 DEF RecordAfter
<1>3. CASE ~(i <= RingHead)
  <2>1. i \in (RingHead + 1) .. RingHead'
    BY <1>1, <1>3 DEF RingStep
  <2> QED
    BY <1>1, <2>1 DEF Announced
<1> QED
  BY <1>2, <1>3

LEMMA ReadOKKept ==
  ASSUME IInv, Next, NEW p \in Procs, InFlight(p), rd'[p] = rd[p]
  PROVE  ReadOK(p)'
<1>1. PICK r, k : r = rd[p] /\ k = rd[p].key
  OBVIOUS
<1>2. /\ k \in Keys /\ r.mark \in Nat /\ r.ver \in Nat /\ r.clearMark \in Nat /\ k = r.key
      /\ r.clearMark <= gen /\ ReadOK(p)
  BY <1>1, InFlightFacts
<1>3. Typed /\ GensOK /\ Growth /\ RingStep /\ TypeOK' /\ Typed' /\ RingHead \in Nat
  BY TypedStep, TypeStep, GrowthStep, RingStepHolds, Facts DEF IInv
<1>4. SUFFICES ASSUME gen' = r.clearMark
               PROVE  /\ settled' = gen' /\ ~RecordAfter(FlushAll, r.mark)'
                      /\ r.st = "read" => \A q \in wiped' : r.ver >= landedAt'[q][k]
  BY <1>1 DEF ReadOK
<1>5. gen = gen' /\ gen = r.clearMark
  <2>1. gen \in Nat /\ gen' \in Nat /\ gen <= gen'
    BY <1>3 DEF Growth, Typed
  <2> QED
    BY <1>2, <1>4, <2>1
<1>6. /\ settled = gen /\ ~RecordAfter(FlushAll, r.mark)
      /\ r.st = "read" => \A q \in wiped : r.ver >= landedAt[q][k]
  BY <1>1, <1>2, <1>5 DEF ReadOK
<1>7. settled' = gen'
  <2>1. gen \in Nat /\ settled' \in Nat /\ settled <= settled' /\ settled' <= gen'
    BY <1>3 DEF Growth, Typed, TypeOK
  <2> QED
    BY <1>5, <1>6, <2>1
<1>8. ~RecordAfter(FlushAll, r.mark)'
  <2>1. ~Announced(FlushAll)
    BY <1>3, <1>5, <1>6 DEF RingStep
  <2> QED
    BY <1>2, <1>3, <1>6, <2>1, RecordOld
<1>9. ASSUME r.st = "read", NEW q \in wiped' PROVE r.ver >= landedAt'[q][k]
  <2>1. q \in wiped /\ q \in Procs
    BY <1>3, <1>5, <1>6, <1>9, WipedStep DEF Typed
  <2>2. r.ver >= landedAt[q][k]
    BY <1>6, <1>9, <2>1
  <2>3. CASE landedAt' = landedAt
    BY <2>2, <2>3
  <2>4. ASSUME NEW v \in Procs, ClearLand(v) PROVE r.ver >= landedAt'[q][k]
    <3>1. clr[v] # "none"
      BY <2>4 DEF ClearLand
    <3>2. v # q
      BY <1>3, <1>6, <2>1, <3>1, LandOpen
    <3>3. landedAt'[q][k] = landedAt[q][k]
      BY <1>2, <1>3, <2>1, <2>4, <3>2, LandedFacts
    <3> QED
      BY <2>2, <3>3
  <2> QED
    BY <2>3, <2>4, LandedStep
<1> QED
  BY <1>7, <1>8, <1>9

LEMMA NoticedKept ==
  ASSUME IInv, Next, NEW p \in Procs, InFlight(p), rd'[p].key = rd[p].key,
         rd'[p].mark = rd[p].mark, rd'[p].start = rd[p].start
  PROVE  Noticed(p)'
<1>1. PICK k, m : k = rd[p].key /\ m = rd[p].mark
  OBVIOUS
<1>2. k \in Keys /\ m \in Nat /\ m <= RingHead /\ Noticed(p)
  BY <1>1, InFlightFacts
<1>3. RingStep /\ RingHead \in Nat
  BY RingStepHolds, Facts DEF IInv
<1>4. SUFFICES ASSUME lastOp'[k] > rd[p].start PROVE Waits(k)' \/ RecordAfter(k, m)'
  BY <1>1 DEF Noticed
<1>5. Announced(k) => RecordAfter(k, m)'
  BY <1>2, <1>3, RecordNew
<1>6. CASE lastOp'[k] # lastOp[k]
  BY <1>2, <1>3, <1>5, <1>6 DEF RingStep
<1>7. CASE lastOp'[k] = lastOp[k]
  <2>1. Waits(k) \/ RecordAfter(k, m)
    BY <1>1, <1>2, <1>4, <1>7 DEF Noticed
  <2>2. RecordAfter(k, m) => RecordAfter(k, m)'
    BY <1>2, <1>3, RecordKept
  <2> QED
    BY <1>2, <1>3, <1>5, <2>1, <2>2 DEF RingStep
<1> QED
  BY <1>6, <1>7

LEMMA SampleKept ==
  ASSUME IInv, Next, NEW p \in Procs, InFlight(p), rd'[p] = Sampled(p), Sample(p)
  PROVE  Guarded(p)' /\ ReadOK(p)' /\ Noticed(p)'
<1>1. PICK r, s, k : r = rd[p] /\ s = rd'[p] /\ k = rd[p].key
  OBVIOUS
<1>2. Typed /\ Versions /\ k \in Keys /\ Guarded(p) /\ ReadOK(p)
  BY <1>1, InFlightFacts DEF IInv
<1>3. /\ s.key = k /\ s.mark = r.mark /\ s.clearMark = r.clearMark /\ s.st = "read"
      /\ s.start = r.start /\ s.ver = l3[k].ver
  BY <1>1, <1>2, SampledFacts
<1>4. UNCHANGED <<floor, pendingDel, deletedAt, gen, settled, ring, wiped, landedAt>>
  BY DEF Sample, localVars, sharedVars, histVars
<1>5. Guarded(p)'
  <2>1. floor[p][k] <= l3[k].ver /\ l3[k].ver \in Nat /\ floor[p][k] \in Nat \cup {Unlanded}
    BY <1>2 DEF Typed, Versions
  <2>2. floor[p][k] # Unlanded => s.ver >= floor[p][k]
    BY <1>3, <2>1, Basics
  <2> QED
    BY <1>1, <1>2, <1>3, <1>4, <2>2 DEF Guarded
<1>6. ReadOK(p)'
  <2>1. \A q \in wiped : s.ver >= landedAt[q][k]
    <3> TAKE q \in wiped
    <3>1. q \in Procs
      BY <1>2 DEF Typed
    <3>2. landedAt[q][k] <= l3[k].ver /\ l3[k].ver \in Nat /\ landedAt[q][k] \in Nat
      BY <1>2, <3>1 DEF Typed, Versions
    <3> QED
      BY <1>3, <3>2
  <2>2. RecordAfter(FlushAll, r.mark)' <=> RecordAfter(FlushAll, r.mark)
    BY <1>4 DEF RecordAfter, RingHead
  <2> QED
    BY <1>1, <1>2, <1>3, <1>4, <2>1, <2>2 DEF ReadOK
<1>7. Noticed(p)'
  BY <1>1, <1>3, NoticedKept
<1> QED
  BY <1>5, <1>6, <1>7

LEMMA StartKept ==
  ASSUME IInv, Next, NEW p \in Procs, NEW k \in Keys, NEW level \in ReadLevels,
         rd'[p] = Begun(k, level), Start(p, k, level), InFlight(p)'
  PROVE  Guarded(p)' /\ ReadOK(p)' /\ Noticed(p)'
<1>1. PICK s : s = rd'[p]
  OBVIOUS
<1>2. /\ Typed /\ OwedOK /\ Positions /\ RingHead \in Nat /\ gen \in Nat /\ settled \in Nat
  BY Facts DEF IInv, Typed
<1>3. /\ s.key = k /\ s.mark = RingHead /\ s.clearMark = gen /\ s.st = "asked" /\ s.start = nops
  <2>1. level \in 0 .. 3 /\ s.level = level /\ s.level > 0
    BY <1>1, <1>2, Basics, BegunFacts DEF InFlight
  <2>2. level # 0
    BY <2>1
  <2> QED
    BY <1>1, <1>2, <2>1, <2>2, BegunFacts
<1>4. /\ UNCHANGED <<floor, gen, settled, ring, lastOp>>
      /\ Owed(p, k) # "delete" /\ gen - settled = 0
  BY StartShape DEF sharedVars, histVars
<1>5. Guarded(p)'
  <2>1. floor[p][k] # Unlanded
    BY <1>2, <1>4 DEF OwedOK, Owed
  <2> QED
    BY <1>1, <1>3, <1>4, <2>1 DEF Guarded
<1>6. ReadOK(p)'
  <2>1. ~RecordAfter(FlushAll, RingHead)'
    BY <1>2, <1>4 DEF RecordAfter, RingHead
  <2>2. settled' = gen'
    BY <1>2, <1>4
  <2>3. RingHead' = RingHead
    BY <1>4 DEF RingHead
  <2> QED
    BY <1>1, <1>3, <2>1, <2>2, <2>3 DEF ReadOK
<1>7. Noticed(p)'
  <2>1. lastOp[k] <= nops /\ lastOp[k] \in Nat /\ nops \in Nat
    BY <1>2 DEF Positions, Typed
  <2> QED
    BY <1>1, <1>3, <1>4, <2>1 DEF Noticed
<1> QED
  BY <1>5, <1>6, <1>7

LEMMA ReadsStep ==
  ASSUME IInv, Next, NEW p \in Procs, InFlight(p)'
  PROVE  Guarded(p)' /\ ReadOK(p)' /\ Noticed(p)'
<1>1. Typed
  BY DEF IInv
<1>2. CASE rd'[p] = rd[p]
  <2>1. InFlight(p)
    BY <1>2 DEF InFlight
  <2> QED
    BY <1>2, <2>1, GuardedKept, ReadOKKept, NoticedKept
<1>3. CASE rd'[p] = NoRead
  BY <1>3, Basics DEF InFlight
<1>4. CASE rd'[p] = Sampled(p) /\ rd[p].st = "asked" /\ Sample(p)
  <2>1. InFlight(p)
    BY <1>4 DEF InFlight, Sample
  <2> QED
    BY <1>4, <2>1, SampleKept
<1> QED
  BY <1>2, <1>3, <1>4, ReadStepHolds, StartKept DEF ReadStep

-----------------------------------------------------------------------------
(* Clears, copies and answers *)

\* What no clear got in the way of is younger than every clear.
LEMMA ReadSurvives ==
  ASSUME IInv, NEW p \in Procs, InFlight(p), rd[p].st = "read", ~Cleared(p, rd[p])
  PROVE  Surviving(rd[p].key, rd[p].ver)
<1>1. Typed /\ GensOK /\ ReadOK(p)
  BY InFlightFacts DEF IInv
<1>2. gen = rd[p].clearMark
  BY DEF Cleared
<1>3. gen = settled /\ \A q \in wiped : rd[p].ver >= landedAt[q][rd[p].key]
  BY <1>1, <1>2 DEF ReadOK
<1>4. \A q \in wiped : q \in Procs /\ clr[q] # "queued"
  BY <1>1, <1>3, LandOpen DEF Typed
<1> QED
  BY <1>3, <1>4 DEF Surviving

\* The set of clears grows only when the arena is emptied, and one of them
\* that is to land yet has left nothing of L3 in the arena.
LEMMA SurviveStep ==
  ASSUME IInv, Next, NEW k \in Keys, arena'[k].ver # None, arena'[k] = arena[k]
  PROVE  Surviving(k, arena[k].ver)'
<1>1. /\ Typed /\ Surviving(k, arena[k].ver) /\ wiped \subseteq Procs
      /\ clr \in [Procs -> {"none", "queued", "landed"}]
  BY DEF IInv, ArenaOK, Typed
<1>2. \A q \in wiped : q \in Procs /\ clr[q] # "queued" /\ arena[k].ver >= landedAt[q][k]
  BY <1>1 DEF Surviving
<1>3. arena' # Wiped
  BY DEF Wiped, Absent
<1>4. ASSUME UNCHANGED <<wiped, clr, landedAt>> PROVE Surviving(k, arena[k].ver)'
  BY <1>2, <1>4 DEF Surviving
<1>5. ASSUME NEW p \in Procs, ClearAll(p) PROVE Surviving(k, arena[k].ver)'
  <2>1. CASE p = Primary
    BY <1>3, <1>5, <2>1 DEF ClearAll
  <2>2. CASE p # Primary
    <3>1. wiped' = wiped \ {p} /\ landedAt' = landedAt /\ clr' = [clr EXCEPT ![p] = "queued"]
      BY <1>5, <2>2 DEF ClearAll
    <3>2. \A q \in wiped' : clr'[q] = clr[q] /\ q \in wiped
      BY <1>1, <3>1
    <3> QED
      BY <1>2, <3>1, <3>2 DEF Surviving
  <2> QED
    BY <2>1, <2>2
<1>6. ASSUME NEW p \in Procs, ClearLand(p) PROVE Surviving(k, arena[k].ver)'
  <2>1. clr[p] = "queued" /\ clr' = [clr EXCEPT ![p] = "landed"] /\ wiped' = wiped
    BY <1>6 DEF ClearLand
  <2>2. p \notin wiped
    BY <1>2, <2>1
  <2>3. \A q \in wiped : clr'[q] = clr[q] /\ landedAt'[q][k] = landedAt[q][k]
    BY <1>1, <1>2, <1>6, <2>1, <2>2, LandedFacts
  <2> QED
    BY <1>2, <2>1, <2>3 DEF Surviving
<1>7. ASSUME NEW p \in Procs, ClearSettle(p) PROVE Surviving(k, arena[k].ver)'
  <2>1. clr' = [clr EXCEPT ![p] = "none"] /\ UNCHANGED <<wiped, landedAt>>
    BY <1>7 DEF ClearSettle, histVars
  <2>2. \A q \in wiped : clr'[q] # "queued"
    BY <1>1, <1>2, <2>1
  <2> QED
    BY <1>2, <2>1, <2>2 DEF Surviving
<1>8. ASSUME NEW w \in Workers, ApplyBatch(w) PROVE UNCHANGED <<wiped, clr, landedAt>>
  BY <1>3, <1>8 DEF ApplyBatch
<1>9. ASSUME NEW p \in Procs, NEW j \in Keys,
             \/ \E level \in SetLevels : Set(p, j, level)
             \/ \E level \in ReadLevels : Start(p, j, level)
             \/ Delete(p, j) \/ Land(p, j) \/ Released(p, j)
      PROVE  UNCHANGED <<wiped, clr, landedAt>>
  BY <1>9, StartShape DEF Set, Delete, Land, Released, histVars
<1>10. ASSUME NEW p \in Procs, Sample(p) \/ Reply(p) \/ Miss(p) \/ HasAnswer(p)
       PROVE  UNCHANGED <<wiped, clr, landedAt>>
  BY <1>10 DEF Sample, Reply, Miss, HasAnswer, histVars
<1>11. ASSUME NEW w \in Workers, Get(w) \/ (\E j \in Keys : L1Evict(w, j))
       PROVE  UNCHANGED <<wiped, clr, landedAt>>
  BY <1>11 DEF Get, L1Evict, histVars
<1>12. ASSUME DrainSubmissions \/ OtherWrites \/ (\E j \in Keys : Evict(j))
       PROVE  UNCHANGED <<wiped, clr, landedAt>>
  BY <1>12 DEF DrainSubmissions, OtherWrites, Evict, histVars
<1> QED
  BY <1>4, <1>5, <1>6, <1>7, <1>8, <1>9, <1>10, <1>11, <1>12 DEF Next

LEMMA ArenaOKStep ==
  ASSUME IInv, Next
  PROVE  ArenaOK'
<1>1. SUFFICES ASSUME NEW k \in Keys, arena'[k].ver # None
               PROVE  Surviving(k, arena[k].ver)'
  BY DEF ArenaOK
<1>2. CASE arena'[k] = arena[k]
  BY <1>1, <1>2, SurviveStep
<1>3. CASE Published(k)
  <2>1. Surviving(k, rd[Primary].ver)
    BY <1>3, Basics, ReadSurvives DEF Published
  <2> QED
    BY <1>3, <2>1 DEF Published, Surviving
<1> QED
  BY <1>1, <1>2, <1>3, ArenaStepHolds DEF ArenaStep

LEMMA CopyOKStep ==
  ASSUME IInv, Next, NEW w \in Workers, NEW k \in Keys
  PROVE  CopyOK(w, k)'
<1>1. /\ Typed /\ TypeOK /\ CopyOK(w, k) /\ RingStep /\ Growth /\ RingHead \in Nat /\ w \in Procs
      /\ RingCap \in Nat
  BY RingStepHolds, GrowthStep, Facts, Basics DEF IInv
<1>2. PICK c : c = cursor'[w]
  OBVIOUS
<1>3. /\ c \in Nat /\ c <= RingHead /\ cursor[w] \in Nat /\ cursor[w] <= RingHead
      /\ c = cursor[w] \/ c = RingHead
  <2>1. cursor[w] \in Nat /\ cursor[w] <= RingHead
    BY <1>1 DEF Typed, TypeOK
  <2> QED
    BY <1>1, <1>2, <2>1 DEF Growth
<1>4. SUFFICES ASSUME l1'[w][k].held, l1'[w][k].ownAt = None, lastOp'[k] > l1'[w][k].since
               PROVE  \/ Waits(k)' \/ RecordAfter(k, c)' \/ RecordAfter(FlushAll, c)'
                      \/ Lapped(c)'
  BY <1>2 DEF CopyOK
<1>5. Announced(k) => RecordAfter(k, c)'
  BY <1>1, <1>3, RecordNew
<1>6. Waits(k) => Waits(k)' \/ RecordAfter(k, c)'
  BY <1>1, <1>5 DEF RingStep
<1>7. CASE lastOp'[k] # lastOp[k]
  BY <1>1, <1>5, <1>7 DEF RingStep
<1>8. CASE lastOp'[k] = lastOp[k] /\ l1'[w][k] = l1[w][k] /\ c = cursor[w]
  <2>1. \/ Waits(k) \/ RecordAfter(k, c) \/ RecordAfter(FlushAll, c) \/ Lapped(c)
    BY <1>1, <1>4, <1>8 DEF CopyOK
  <2>2. Lapped(c) => Lapped(c)'
    BY <1>1, <1>2, <1>3 DEF Lapped, RingStep
  <2>3. \A x : RecordAfter(x, c) => RecordAfter(x, c)'
    BY <1>1, <1>3, RecordKept
  <2> QED
    BY <1>6, <2>1, <2>2, <2>3
<1>9. CASE lastOp'[k] = lastOp[k] /\ l1'[w][k] = l1[w][k] /\ ~Outdated(w, k)
  <2>1. \/ Waits(k) \/ RecordAfter(k, cursor[w]) \/ RecordAfter(FlushAll, cursor[w])
        \/ Lapped(cursor[w])
    BY <1>1, <1>4, <1>9 DEF CopyOK
  <2>2. ~Lapped(cursor[w]) /\ ~RecordAfter(FlushAll, cursor[w]) /\ ~Matched(k, None, cursor[w])
    BY <1>4, <1>9 DEF Outdated
  <2>3. ~RecordAfter(k, cursor[w])
    <3> SUFFICES ASSUME NEW i \in (cursor[w] + 1) .. RingHead, ring[i] = k PROVE FALSE
      BY DEF RecordAfter
    <3>1. i > None
      BY <1>1, <1>3, Basics
    <3> QED
      BY <2>2, <3>1 DEF Matched
  <2> QED
    BY <1>6, <2>1, <2>2, <2>3
<1>10. CASE lastOp'[k] = lastOp[k] /\ Refilled(w, k)
  <2>1. PICK r : r = rd[w]
    OBVIOUS
  <2>2. /\ InFlight(w) /\ r.key = k /\ r.mark \in Nat /\ Noticed(w) /\ ~BlockedRing(r, ring)
        /\ l1'[w][k].since = r.start
    BY <1>1, <1>10, <2>1, InFlightFacts DEF Refilled
  <2>3. Waits(k) \/ RecordAfter(k, r.mark)
    BY <1>4, <1>10, <2>1, <2>2 DEF Noticed
  <2>4. ~RecordAfter(k, r.mark)
    BY <2>2 DEF RecordAfter, BlockedRing, RingHead
  <2> QED
    BY <1>6, <2>3, <2>4
<1>11. l1'[w][k] # NoEntry
  BY <1>4, Basics
<1>12. ~(l1'[w][k].ownAt \in Nat)
  BY <1>4, Basics
<1> QED
  BY <1>2, <1>7, <1>8, <1>9, <1>10, <1>11, <1>12, CopyStepHolds DEF CopyStep

LEMMA AnswerOK ==
  ASSUME IInv, NEW p \in Procs, Reply(p), NEW put \in BOOLEAN, Answer(p, rd[p], put),
         ~Deleted(p, rd[p]), ~Cleared(p, rd[p]), put => lastOp[rd[p].key] <= rd[p].start
  PROVE  AnsOK'
<1>1. PICK r, k : r = rd[p] /\ k = rd[p].key
  OBVIOUS
<1>2. InFlight(p) /\ r.st = "read" /\ UNCHANGED <<clr, floor, lastOp, wiped, landedAt>>
  BY <1>1, ReplyShape DEF InFlight, histVars
<1>3. ans'.by = p /\ ans'.key = k /\ ans'.ver = r.ver /\ ans'.start = r.start /\ ans'.put = put
  BY <1>1 DEF Answer
<1>4. /\ Guarded(p) /\ Typed /\ k \in Keys /\ r.mark \in Nat
      /\ deletedAt[p][k] \in Nat \cup {None}
  <2>1. Typed /\ k \in Keys /\ Guarded(p) /\ r.mark \in Nat
    BY <1>1, <1>2, InFlightFacts DEF IInv
  <2> QED
    BY <2>1 DEF Typed
<1>5. floor[p][k] # Unlanded /\ r.ver >= floor[p][k]
  BY <1>1, <1>2, <1>4 DEF Guarded, Deleted, Cleared
<1>6. OwnRemovalHolds'
  BY <1>2, <1>3, <1>5 DEF OwnRemovalHolds
<1>7. Surviving(k, r.ver)
  BY <1>1, <1>2, ReadSurvives
<1>8. (ans.ver # None => Surviving(ans.key, ans.ver))'
  BY <1>2, <1>3, <1>7 DEF Surviving
<1>9. PromotionYields'
  BY <1>1, <1>2, <1>3 DEF PromotionYields
<1> QED
  BY <1>6, <1>8, <1>9 DEF AnsOK

LEMMA ReplyOK ==
  ASSUME IInv, NEW p \in Procs, Reply(p)
  PROVE  AnsOK' \/ ans' = NoAns
<1>1. PICK r, k : r = rd[p] /\ k = rd[p].key
  OBVIOUS
<1>2. InFlight(p) /\ r.st = "read"
  BY <1>1, ReplyShape DEF InFlight
<1>3. /\ Typed /\ TypeOK /\ k \in Keys /\ r.key = k /\ r.mark \in Nat /\ r.mark <= RingHead
      /\ Noticed(p) /\ RingHead \in Nat /\ r.start \in Nat /\ lastOp[k] \in Nat
  <2>1. k \in Keys
    BY <1>1, <1>2, InFlightFacts
  <2>2. lastOp[k] \in Nat
    BY <2>1 DEF IInv, Typed
  <2> QED
    BY <1>1, <1>2, <2>1, <2>2, InFlightFacts, Facts DEF IInv
<1>4. ASSUME NEW s \in Drained(p), ReplyPromotes(p, s), PublishL3Derived(p, r)
      PROVE  lastOp[k] <= r.start
  <2>1. s \in Batches /\ ~BlockedRing(r, RingAfter(s))
    BY <1>1, <1>4 DEF PublishL3Derived, Drained, ReplyPromotes
  <2>2. /\ Len(RingAfter(s)) \in Nat /\ RingHead <= Len(RingAfter(s))
        /\ \A i \in 1 .. RingHead : RingAfter(s)[i] = ring[i]
        /\ Waits(k) => \E i \in (RingHead + 1) .. Len(RingAfter(s)) : RingAfter(s)[i] = k
    BY <1>3, <2>1, RingAfterFacts
  <2>3. PICK rg : rg = RingAfter(s)
    OBVIOUS
  <2>4. \A i \in (r.mark + 1) .. Len(rg) : rg[i] # k
    BY <1>3, <2>1, <2>3 DEF BlockedRing
  <2>5. ~Waits(k)
    <3> SUFFICES ASSUME NEW i \in (RingHead + 1) .. Len(rg), rg[i] = k PROVE FALSE
      BY <2>2, <2>3
    <3>1. i \in (r.mark + 1) .. Len(rg)
      BY <1>3, <2>2, <2>3
    <3> QED
      BY <2>4, <3>1
  <2>6. ~RecordAfter(k, r.mark)
    <3> SUFFICES ASSUME NEW i \in (r.mark + 1) .. RingHead, ring[i] = k PROVE FALSE
      BY DEF RecordAfter
    <3>1. i \in (r.mark + 1) .. Len(rg) /\ i \in 1 .. RingHead
      BY <1>3, <2>2, <2>3
    <3> QED
      BY <2>2, <2>3, <2>4, <3>1
  <2> QED
    BY <1>1, <1>3, <2>5, <2>6 DEF Noticed
<1>5. ASSUME ~Deleted(p, r), ~Cleared(p, r), Answer(p, r, FALSE) PROVE AnsOK'
  BY <1>1, <1>5, AnswerOK
<1>6. ASSUME NEW s \in Drained(p), ReplyPromotes(p, s), ~Deleted(p, r), ~Cleared(p, r)
      PROVE  AnsOK'
  <2>1. PublishL3Derived(p, r) \in BOOLEAN /\ Answer(p, r, PublishL3Derived(p, r))
    BY <1>1, <1>6 DEF PublishL3Derived, ReplyPromotes, Promote
  <2>2. PICK put \in BOOLEAN : put = PublishL3Derived(p, r)
    BY <2>1
  <2>3. put => lastOp[k] <= r.start
    BY <1>4, <1>6, <2>2
  <2>4. Answer(p, r, put)
    BY <2>1, <2>2
  <2> QED
    BY <1>1, <1>6, <2>3, <2>4, AnswerOK
<1> QED
  BY <1>1, <1>5, <1>6, ReplyShape DEF ReplyNothing, ReplyHands, ReplyDrains

LEMMA AnsStep ==
  ASSUME IInv, Next
  PROVE  AnsOK'
<1>1. ASSUME ans' = NoAns PROVE AnsOK'
  <2>1. ans'.ver = None /\ ans'.put = FALSE
    BY <1>1, Basics
  <2> QED
    BY <2>1 DEF AnsOK, OwnRemovalHolds, PromotionYields
<1>2. ASSUME NEW p \in Procs, NEW j \in Keys,
             \/ \E level \in SetLevels : Set(p, j, level)
             \/ \E level \in ReadLevels : Start(p, j, level)
             \/ Delete(p, j) \/ Land(p, j) \/ Released(p, j)
      PROVE  ans' = NoAns
  BY <1>2, StartShape DEF Set, Delete, Land, Released, NewOp
<1>3. ASSUME NEW p \in Procs, \/ ClearAll(p) \/ ClearLand(p) \/ ClearSettle(p)
                              \/ Sample(p) \/ Miss(p) \/ HasAnswer(p)
      PROVE  ans' = NoAns
  BY <1>3 DEF ClearAll, ClearLand, ClearSettle, Sample, Miss, HasAnswer, NewOp
<1>4. ASSUME NEW w \in Workers, Get(w) \/ ApplyBatch(w) \/ (\E j \in Keys : L1Evict(w, j))
      PROVE  ans' = NoAns
  BY <1>4 DEF Get, ApplyBatch, L1Evict
<1>5. ASSUME DrainSubmissions \/ OtherWrites \/ (\E j \in Keys : Evict(j)) PROVE ans' = NoAns
  BY <1>5 DEF DrainSubmissions, OtherWrites, Evict, NewOp
<1> QED
  BY <1>1, <1>2, <1>3, <1>4, <1>5, ReplyOK DEF Next

-----------------------------------------------------------------------------
(* The invariant, and what it says *)

LEMMA InitTyped ==
  ASSUME Init
  PROVE  Typed
<1>1. /\ l3 \in [Keys -> [held : BOOLEAN, ver : Nat]]
      /\ arena \in [Keys -> [held : BOOLEAN, ver : Nat \cup {None}]]
  BY DEF Init, Wiped, Absent
<1>2. /\ ring \in Seq(Records) /\ gen \in Nat /\ settled \in Nat
      /\ sub \in [Workers -> Seq(Submitted)] /\ taken \in [Workers -> Nat]
      /\ chan \in [Workers -> Seq({"+", "c", "-"})]
  BY DEF Init
<1>3. /\ l1 \in [Workers -> [Keys -> Entries]] /\ cursor \in [Workers -> Nat]
      /\ pendingDel \in [Workers -> [Keys -> Nat \cup {None}]]
      /\ deletedAt \in [Procs -> [Keys -> Nat \cup {None}]]
  BY Basics DEF Init
<1>4. /\ lane \in [Procs -> [Keys -> Seq(Ops)]]
      /\ clr \in [Procs -> {"none", "queued", "landed"}]
      /\ rd \in [Procs -> Reads] /\ nops \in Nat /\ ans \in Answers
  BY Basics DEF Init
<1>5. /\ lastOp \in [Keys -> Nat]
      /\ floor \in [Procs -> [Keys -> Nat \cup {Unlanded}]]
      /\ wiped \subseteq Procs /\ landedAt \in [Procs -> [Keys -> Nat]]
  BY DEF Init
<1> QED
  BY <1>1, <1>2, <1>3, <1>4, <1>5 DEF Typed

LEMMA InitIInv ==
  ASSUME Init
  PROVE  IInv
<1>1. Typed
  BY InitTyped
<1>2. \A p \in Procs : rd[p] = NoRead /\ clr[p] = "none" /\ ~InFlight(p)
  BY Basics DEF Init, InFlight
<1>3. TypeOK
  BY Basics DEF Init, TypeOK, Wiped, Absent, RingHead, NoRead
<1>4. Versions
  BY Basics DEF Init, Versions
<1>5. Positions
  BY Basics DEF Init, Positions, RingHead
<1>6. OwedOK
  BY Basics DEF Init, OwedOK
<1>7. GensOK
  <2>1. \A w \in Workers : chan[w] = <<>> /\ w # Primary /\ w \in Procs
    BY Basics DEF Init
  <2>2. \A w \in Workers : ChanOK(w)
    BY <2>1 DEF ChanOK
  <2>3. \A p \in Procs : ~Opened(p)
    BY <1>2, <2>1, Basics DEF Opened
  <2>4. OpenGens = {}
    BY <2>3 DEF OpenGens
  <2>5. Cardinality(OpenGens) = 0
    BY <2>4, FS_EmptySet
  <2> QED
    BY <2>2, <2>5 DEF GensOK, Init
<1>8. ArenaOK
  BY DEF Init, ArenaOK, Wiped, Absent
<1>9. \A w \in Workers, k \in Keys : CopyOK(w, k)
  BY Basics DEF Init, CopyOK
<1>10. AnsOK
  BY Basics DEF Init, AnsOK, OwnRemovalHolds, PromotionYields
<1> QED
  BY <1>1, <1>2, <1>3, <1>4, <1>5, <1>6, <1>7, <1>8, <1>9, <1>10 DEF IInv

LEMMA NextIInv ==
  ASSUME IInv, Next
  PROVE  IInv'
BY TypedStep, TypeStep, VersionsStep, PositionsStep, LaneStep, GensStep, ArenaOKStep, ReadsStep,
   CopyOKStep, AnsStep DEF IInv

LEMMA StutterIInv ==
  ASSUME IInv, UNCHANGED vars
  PROVE  IInv'
<1> USE DEF vars, localVars, sharedVars, histVars
<1>1. Typed' /\ TypeOK'
  BY DEF IInv, Typed, TypeOK, RingHead
<1>2. Versions' /\ Positions' /\ OwedOK'
  BY DEF IInv, Versions, Positions, OwedOK, RingHead
<1>3. GensOK'
  BY GensFrame DEF IInv
<1>4. ArenaOK' /\ AnsOK'
  BY DEF IInv, ArenaOK, AnsOK, Surviving, OwnRemovalHolds, PromotionYields
<1>5. \A k : Waits(k)' <=> Waits(k)
  BY DEF Waits
<1>6. \A x, c : RecordAfter(x, c)' <=> RecordAfter(x, c)
  BY DEF RecordAfter, RingHead
<1>7. \A p \in Procs : (InFlight(p) => Guarded(p) /\ ReadOK(p) /\ Noticed(p))'
  <2> TAKE p \in Procs
  <2>1. InFlight(p) => Guarded(p) /\ ReadOK(p) /\ Noticed(p)
    BY DEF IInv
  <2>2. (InFlight(p)' <=> InFlight(p)) /\ (Guarded(p)' <=> Guarded(p))
    BY DEF InFlight, Guarded
  <2>3. ReadOK(p)' <=> ReadOK(p)
    BY <1>6 DEF ReadOK
  <2>4. Noticed(p)' <=> Noticed(p)
    BY <1>5, <1>6 DEF Noticed
  <2> QED
    BY <2>1, <2>2, <2>3, <2>4
<1>8. \A w \in Workers, k \in Keys : CopyOK(w, k)'
  <2> TAKE w \in Workers, k \in Keys
  <2>1. CopyOK(w, k)
    BY DEF IInv
  <2>2. Lapped(cursor[w])' <=> Lapped(cursor[w])
    BY DEF Lapped, RingHead
  <2> QED
    BY <1>5, <1>6, <2>1, <2>2 DEF CopyOK
<1> QED
  BY <1>1, <1>2, <1>3, <1>4, <1>7, <1>8 DEF IInv

\* IInv holds in every reachable state: what the theorems below about
\* getAsync's answers, promotions and copies are read off.
THEOREM Invariance == Spec => []IInv
<1>1. Init => IInv
  BY InitIInv
<1>2. IInv /\ [Next]_vars => IInv'
  BY NextIInv, StutterIInv
<1> QED
  BY <1>1, <1>2, PTL DEF Spec

\* Whatever the ring, the queue to L3 and the marks of a removal go through
\* while the adapter is asked, getAsync never hands its caller a value that L3
\* held before the removal this process issued landed there.
THEOREM OwnRemovals == Spec => []OwnRemovalHolds
<1>1. IInv => OwnRemovalHolds
  BY DEF IInv, AnsOK
<1> QED
  BY <1>1, Invariance, PTL

\* Once any process's clearAll has emptied the arena, no reader is handed and
\* the arena is never refilled with what L3 held before that clear landed.
THEOREM ClearsHold == Spec => []ClearHolds
<1>1. IInv => ClearHolds
  BY DEF IInv, AnsOK, ArenaOK, ClearHolds
<1> QED
  BY <1>1, Invariance, PTL

\* #publishL3Derived never puts an answer of L3 on top of a set or delete that
\* was accepted, in any process, since the read began.
THEOREM PromotionsYield == Spec => []PromotionYields
<1>1. IInv => PromotionYields
  BY DEF IInv, AnsOK
<1> QED
  BY <1>1, Invariance, PTL

\* #fillFromL3's copy in a worker's L1 never outlives a later write unnoticed:
\* that write is in a submission ring, or the worker's next drain drops the copy.
THEOREM CopiesTracked == Spec => []L1Tracked
<1>1. ASSUME IInv PROVE L1Tracked
  <2>1. Typed /\ TypeOK
    BY <1>1 DEF IInv
  <2>2. ASSUME NEW k \in Keys, Waits(k)
        PROVE  \E v \in Workers : \E i \in DOMAIN Pending(v) : Pending(v)[i].key = k
    <3>1. PICK v \in Workers : \E i \in (taken[v] + 1) .. Len(sub[v]) : sub[v][i].key = k
      BY <2>2 DEF Waits
    <3>2. PICK i \in (taken[v] + 1) .. Len(sub[v]) : sub[v][i].key = k
      BY <3>1
    <3>3. taken[v] \in Nat /\ Len(sub[v]) \in Nat
      BY <2>1 DEF Typed
    <3>4. /\ Pending(v) \in Seq(Submitted) /\ Len(Pending(v)) = Len(sub[v]) - taken[v]
          /\ \A j \in 1 .. Len(Pending(v)) : Pending(v)[j] = sub[v][taken[v] + j]
      BY <2>1, PendingFacts
    <3>5. i - taken[v] \in 1 .. Len(Pending(v)) /\ taken[v] + (i - taken[v]) = i
      BY <3>2, <3>3, <3>4
    <3>6. Pending(v)[i - taken[v]].key = k
      BY <3>2, <3>4, <3>5
    <3>7. i - taken[v] \in DOMAIN Pending(v)
      BY <3>4, <3>5
    <3> QED
      BY <3>6, <3>7
  <2>3. \A w \in Workers, k \in Keys : CopyOK(w, k)
    BY <1>1 DEF IInv
  <2> QED
    BY <2>1, <2>2, <2>3 DEF L1Tracked, CopyOK
<1> QED
  BY <1>1, Invariance, PTL

\* No step puts an older answer of L3 over a worker's own write in its L1.
THEOREM OwnWritesKept == Spec => OwnWriteKept
<1> DEFINE Kept == \A w \in Workers, k \in Keys :
             l1[w][k].ownAt # None /\ l1'[w][k].held => l1'[w][k].since >= l1[w][k].since
<1>1. ASSUME IInv, Next PROVE Kept
  <2> SUFFICES ASSUME NEW w \in Workers, NEW k \in Keys,
                      l1[w][k].ownAt # None, l1'[w][k].held
               PROVE  l1'[w][k].since >= l1[w][k].since
    OBVIOUS
  <2>1. l1[w][k] \in Entries /\ l1[w][k].since <= nops /\ nops \in Nat
    BY <1>1 DEF IInv, Typed, Positions
  <2>2. l1[w][k].since \in Nat /\ l1[w][k].ownAt \in Nat \cup {None}
    BY <2>1 DEF Entries
  <2>3. nops <= nops' /\ nops' \in Nat
    BY <1>1, GrowthStep, TypedStep DEF Growth, Typed
  <2>4. l1'[w][k] # NoEntry
    BY Basics
  <2>5. ~Refilled(w, k)
    <3> SUFFICES ASSUME Refilled(w, k) PROVE FALSE
      OBVIOUS
    <3>1. ~(l1[w][k].ownAt >= 0)
      BY DEF Refilled, BlockedSelf
    <3> QED
      BY <2>2, <3>1
  <2>6. l1'[w][k] = l1[w][k] \/ l1'[w][k].since = nops'
    BY <1>1, <2>4, <2>5, CopyStepHolds DEF CopyStep
  <2> QED
    BY <2>1, <2>2, <2>3, <2>6
<1>2. IInv /\ [Next]_vars => [Kept]_vars
  BY <1>1
<1> QED
  BY <1>2, Invariance, PTL DEF Spec, OwnWriteKept
=============================================================================
