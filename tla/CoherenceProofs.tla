-------------------------- MODULE CoherenceProofs --------------------------
(***************************************************************************)
(* What Coherence guarantees for every number of workers and keys and for  *)
(* every capacity of the rings.                                            *)
(***************************************************************************)
EXTENDS Coherence, SequenceTheorems, WellFoundedInduction, TLAPS

-----------------------------------------------------------------------------
(* Facts about the operators *)

\* What a worker's read of the invalidation ring covers: it starts at or past
\* the reader's position and stops at or before the head; when the reader has
\* not been lapped it starts exactly at its position.
LEMMA RingReadRange ==
  ASSUME NEW c \in Nat, RingHead \in Nat, c <= RingHead,
         NEW h \in HeadsSeen(c)
  PROVE  LET r == RingRead(c, h, ReadMax) IN
         /\ r.from \in Nat /\ r.to \in Nat
         /\ c <= r.from /\ r.to <= RingHead
         /\ Lapped(c) => r.wrapped
         /\ ~r.wrapped => r.from = c /\ c <= r.to
<1>1. h \in Nat /\ h >= c /\ h <= RingHead
  BY DEF HeadsSeen
<1>2. ReadMax \in Nat /\ RingCap \in Nat
  BY ConstantsAssumption
<1> DEFINE r == RingRead(c, h, ReadMax)
<1>3. r.wrapped <=> (h - c >= RingCap \/ Lapped(c))
  BY DEF RingRead
<1>4. r.from = IF h - c >= RingCap THEN h - RingCap ELSE c
  BY DEF RingRead
<1>5. r.to = IF h - r.from < ReadMax THEN h ELSE r.from + ReadMax
  BY DEF RingRead
<1> HIDE DEF r
<1>6. /\ r.from \in Nat /\ r.to \in Nat
      /\ c <= r.from /\ r.to <= RingHead /\ r.from <= r.to
  BY <1>1, <1>2, <1>4, <1>5
<1> QED
  BY <1>1, <1>3, <1>4, <1>6 DEF r

\* A step that leaves the primary's variables alone keeps the positions in
\* range when the worker's own positions are.
LEMMA WorkerPositions ==
  ASSUME StateTypeOK, UNCHANGED primaryVars,
         \A x \in Workers : cursor'[x] <= RingHead,
         \A x \in Workers, y \in Keys : l1'[x][y].ownAt <= RingHead,
         \A x \in Workers : Len(sub'[x]) \in Nat /\ Len(sub[x]) <= Len(sub'[x]),
         \A x \in Workers : clears'[x] \in Nat /\ clears[x] <= clears'[x]
  PROVE  PositionsOK'
<1>1. RingHead' = RingHead /\ RingHead \in Nat
  BY DEF primaryVars, RingHead, StateTypeOK, PrimaryTypeOK
<1>2. \A x \in Workers : /\ Len(sub[x]) \in Nat /\ taken[x] \in Nat
                         /\ clears[x] \in Nat
  BY DEF StateTypeOK, PrimaryTypeOK, WorkerTypeOK
<1>3. \A x \in Workers : taken[x] <= Len(sub'[x])
  BY <1>2 DEF StateTypeOK, PositionsOK
<1>4. pri.mode = "drain" => pri.ring \in Workers /\ pri.head <= Len(sub'[pri.ring])
  <2>1. pri.head \in Nat
    BY DEF StateTypeOK, PrimaryTypeOK, Control
  <2> QED BY <2>1, <1>2 DEF StateTypeOK, PositionsOK
<1>5. pri.batch \in Workers => clears'[pri.batch] > 0
  BY <1>2 DEF StateTypeOK, PositionsOK
<1> QED
  BY <1>1, <1>3, <1>4, <1>5 DEF StateTypeOK, PositionsOK, primaryVars

\* An empty L1 slot is older than everything.
LEMMA NoEntryFacts ==
  NoEntry \in Entry /\ NoEntry.ownAt = -1 /\ NoEntry.val = 0
BY ConstantsAssumption DEF NoEntry, Entry, NoVal, Vals

\* What a worker that is about to push carries.
LEMMA PushFields ==
  ASSUME WorkerTypeOK, NEW w \in Workers, wpc[w].op = "push"
  PROVE  /\ wpc[w].kind \in {"set", "del"} /\ wpc[w].key \in Keys
         /\ wpc[w].val \in Vals
<1>1. wpc[w] \in WorkerPc
  BY DEF WorkerTypeOK
<1> QED
  BY <1>1 DEF WorkerPc, Idle

\* What a drain leaves of a worker's L1 and of its position.
LEMMA DrainShape ==
  ASSUME StateTypeOK, NEW w \in Workers, NEW h \in HeadsSeen(cursor[w]), Drain(w, h)
  PROVE  /\ cursor' \in [Workers -> Nat]
         /\ \A x \in Workers : cursor'[x] <= RingHead
         /\ l1' \in [Workers -> [Keys -> Entry]]
         /\ \A x \in Workers, y \in Keys : l1'[x][y] \in {l1[x][y], NoEntry}
         /\ \A x \in Workers \ {w} : cursor'[x] = cursor[x] /\ l1'[x] = l1[x]
<1> DEFINE r == RingRead(cursor[w], h, ReadMax)
<1>1. cursor[w] \in Nat /\ RingHead \in Nat /\ cursor[w] <= RingHead
  BY DEF StateTypeOK, WorkerTypeOK, PrimaryTypeOK, PositionsOK, RingHead
<1>2. r.to \in Nat /\ r.to <= RingHead
  BY <1>1, RingReadRange
<1>3. /\ cursor' \in [Workers -> Nat] /\ cursor'[w] <= RingHead
      /\ \A x \in Workers \ {w} : cursor'[x] = cursor[x]
  BY <1>1, <1>2 DEF Drain, StateTypeOK, WorkerTypeOK
<1>4. \A x \in Workers : cursor'[x] <= RingHead
  BY <1>3 DEF StateTypeOK, PositionsOK
<1>5. l1'[w] \in [Keys -> Entry] /\ \A y \in Keys : l1'[w][y] \in {l1[w][y], NoEntry}
  BY NoEntryFacts DEF Drain, StateTypeOK, WorkerTypeOK, Invalidated, EmptyL1
<1>6. l1' \in [Workers -> [Keys -> Entry]] /\ \A x \in Workers \ {w} : l1'[x] = l1[x]
  BY <1>5 DEF Drain, StateTypeOK, WorkerTypeOK
<1> QED
  BY <1>3, <1>4, <1>5, <1>6

-----------------------------------------------------------------------------
(* Type correctness *)

\* A worker's steps keep the variables other than the marks in their types.
LEMMA WorkerTypeStep ==
  ASSUME StateTypeOK, NEW w \in Workers, WorkerStep(w)
  PROVE  StateTypeOK'
<1> USE ConstantsAssumption
<1>0. /\ WorkerTypeOK /\ PrimaryTypeOK /\ PositionsOK /\ RingHead \in Nat
      /\ \A x \in Workers : Len(sub[x]) \in Nat /\ clears[x] \in Nat
      /\ \A x \in Workers, y \in Keys : l1[x][y] \in Entry
  BY DEF StateTypeOK, WorkerTypeOK, PrimaryTypeOK, RingHead
<1>1. UNCHANGED primaryVars
  BY DEF WorkerStep, Get, Fill, SetLocal, DeleteLocal, Push, PushShed, WorkerClear,
     L1Evict
<1>2. PrimaryTypeOK'
  BY <1>0, <1>1 DEF PrimaryTypeOK, primaryVars
<1>3. ASSUME NEW k \in Keys, Get(w, k) PROVE WorkerTypeOK' /\ PositionsOK'
  <2>1. PICK h \in HeadsSeen(cursor[w]) : Drain(w, h)
    BY <1>3 DEF Get
  <2>2. /\ cursor' \in [Workers -> Nat] /\ l1' \in [Workers -> [Keys -> Entry]]
        /\ \A x \in Workers : cursor'[x] <= RingHead
        /\ \A x \in Workers, y \in Keys : l1'[x][y] \in {l1[x][y], NoEntry}
    BY <2>1, DrainShape
  <2>3. wpc' \in [Workers -> WorkerPc]
    BY <1>0, <1>3 DEF Get, WorkerTypeOK, WorkerPc, Idle
  <2>4. \A x \in Workers, y \in Keys : l1'[x][y].ownAt <= RingHead
    <3>1. NoEntry.ownAt <= RingHead
      BY <1>0, NoEntryFacts
    <3> QED BY <1>0, <2>2, <3>1 DEF PositionsOK
  <2>5. sub' = sub /\ clears' = clears /\ nops' = nops /\ shed' = shed
    BY <1>3 DEF Get
  <2>6. WorkerTypeOK'
    BY <1>0, <2>2, <2>3, <2>5 DEF WorkerTypeOK
  <2> QED BY <1>0, <1>1, <2>2, <2>4, <2>5, <2>6, WorkerPositions
<1>4. ASSUME Fill(w) PROVE WorkerTypeOK' /\ PositionsOK'
  <2>1. wpc[w].key \in Keys /\ arena[wpc[w].key] \in Vals
    BY <1>0, <1>4 DEF Fill, WorkerTypeOK, PrimaryTypeOK, WorkerPc, Idle
  <2>2. /\ l1' \in [Workers -> [Keys -> Entry]]
        /\ \A x \in Workers, y \in Keys :
             l1'[x][y] = l1[x][y] \/ l1'[x][y].ownAt = -1
    BY <1>0, <1>4, <2>1 DEF Fill, WorkerTypeOK, Entry
  <2>3. wpc' \in [Workers -> WorkerPc]
    BY <1>0, <1>4 DEF Fill, WorkerTypeOK, WorkerPc
  <2>4. WorkerTypeOK'
    BY <1>0, <1>4, <2>2, <2>3 DEF Fill, WorkerTypeOK
  <2>5. \A x \in Workers, y \in Keys : l1'[x][y].ownAt <= RingHead
    BY <1>0, <2>2 DEF PositionsOK
  <2>6. sub' = sub /\ clears' = clears /\ cursor' = cursor
    BY <1>4 DEF Fill
  <2> QED BY <1>0, <1>1, <2>4, <2>5, <2>6, WorkerPositions DEF PositionsOK
<1>5. ASSUME NEW k \in Keys, NEW level \in 1 .. 3, SetLocal(w, k, level)
      PROVE  WorkerTypeOK' /\ PositionsOK'
  <2>1. nops' \in Vals
    BY <1>0, <1>5 DEF SetLocal, NewOp, Vals, WorkerTypeOK
  <2>2. /\ l1' \in [Workers -> [Keys -> Entry]]
        /\ \A x \in Workers, y \in Keys :
             \/ l1'[x][y] = l1[x][y]
             \/ l1'[x][y].ownAt = RingHead \/ l1'[x][y] = NoEntry
    BY <1>0, <1>5, <2>1, NoEntryFacts DEF SetLocal, WorkerTypeOK, Entry
  <2>3. wpc' \in [Workers -> WorkerPc]
    BY <1>0, <1>5, <2>1 DEF SetLocal, WorkerTypeOK, WorkerPc
  <2>4. WorkerTypeOK'
    BY <1>0, <1>5, <2>1, <2>2, <2>3 DEF SetLocal, WorkerTypeOK
  <2>5. \A x \in Workers, y \in Keys : l1'[x][y].ownAt <= RingHead
    <3>1. NoEntry.ownAt <= RingHead
      BY <1>0, NoEntryFacts
    <3> QED BY <1>0, <2>2, <3>1 DEF PositionsOK
  <2>6. sub' = sub /\ clears' = clears /\ cursor' = cursor
    BY <1>5 DEF SetLocal
  <2> QED BY <1>0, <1>1, <2>4, <2>5, <2>6, WorkerPositions DEF PositionsOK
<1>6. ASSUME NEW k \in Keys, DeleteLocal(w, k) PROVE WorkerTypeOK' /\ PositionsOK'
  <2>1. nops' \in Vals
    BY <1>0, <1>6 DEF DeleteLocal, NewOp, Vals, WorkerTypeOK
  <2>2. /\ l1' \in [Workers -> [Keys -> Entry]]
        /\ \A x \in Workers, y \in Keys : l1'[x][y] \in {l1[x][y], NoEntry}
    BY <1>0, <1>6, NoEntryFacts DEF DeleteLocal, WorkerTypeOK
  <2>3. wpc' \in [Workers -> WorkerPc]
    BY <1>0, <1>6, <2>1 DEF DeleteLocal, WorkerTypeOK, WorkerPc
  <2>4. WorkerTypeOK'
    BY <1>0, <1>6, <2>1, <2>2, <2>3 DEF DeleteLocal, WorkerTypeOK
  <2>5. \A x \in Workers, y \in Keys : l1'[x][y].ownAt <= RingHead
    <3>1. NoEntry.ownAt <= RingHead
      BY <1>0, NoEntryFacts
    <3> QED BY <1>0, <2>2, <3>1 DEF PositionsOK
  <2>6. sub' = sub /\ clears' = clears /\ cursor' = cursor
    BY <1>6 DEF DeleteLocal
  <2> QED BY <1>0, <1>1, <2>4, <2>5, <2>6, WorkerPositions DEF PositionsOK
<1>7. ASSUME Push(w) PROVE WorkerTypeOK' /\ PositionsOK'
  <2>1. /\ wpc[w].kind \in {"set", "del"} /\ wpc[w].key \in Keys
        /\ wpc[w].val \in Vals
    BY <1>0, <1>7, PushFields DEF Push
  <2>2. cleared[w] + clears[w] \in Nat
    BY <1>0 DEF PrimaryTypeOK
  <2>3. /\ sub' \in [Workers -> Seq(SubRec)]
        /\ \A x \in Workers : Len(sub'[x]) \in Nat /\ Len(sub[x]) <= Len(sub'[x])
    <3> DEFINE rec == [kind |-> wpc[w].kind, key |-> wpc[w].key, val |-> wpc[w].val,
                       epoch |-> cleared[w] + clears[w]]
    <3>1. rec \in SubRec
      BY <2>1, <2>2 DEF SubRec
    <3>2. sub' = [sub EXCEPT ![w] = Append(@, rec)]
      BY <1>7 DEF Push
    <3> HIDE DEF rec
    <3>3. sub \in [Workers -> Seq(SubRec)]
      BY <1>0 DEF WorkerTypeOK
    <3> QED BY <3>1, <3>2, <3>3
  <2>4. wpc' \in [Workers -> WorkerPc]
    BY <1>0, <1>7 DEF Push, WorkerTypeOK, WorkerPc
  <2>5. clears' = clears /\ cursor' = cursor /\ l1' = l1 /\ nops' = nops /\ shed' = shed
    BY <1>7 DEF Push
  <2>6. WorkerTypeOK'
    BY <1>0, <2>3, <2>4, <2>5 DEF WorkerTypeOK
  <2> QED BY <1>0, <1>1, <2>3, <2>5, <2>6, WorkerPositions DEF PositionsOK
<1>8. ASSUME PushShed(w) PROVE WorkerTypeOK' /\ PositionsOK'
  <2>1. wpc[w].val \in Vals
    BY <1>0, <1>8, PushFields DEF PushShed
  <2>2. wpc' \in [Workers -> WorkerPc]
    BY <1>0, <1>8 DEF PushShed, WorkerTypeOK, WorkerPc
  <2>3. /\ clears' = clears /\ cursor' = cursor /\ l1' = l1 /\ sub' = sub
        /\ nops' = nops
    BY <1>8 DEF PushShed
  <2>4. WorkerTypeOK'
    BY <1>0, <1>8, <2>1, <2>2, <2>3 DEF PushShed, WorkerTypeOK
  <2> QED BY <1>0, <1>1, <2>3, <2>4, WorkerPositions DEF PositionsOK
<1>9. ASSUME WorkerClear(w) PROVE WorkerTypeOK' /\ PositionsOK'
  <2>1. nops' \in Vals
    BY <1>0, <1>9 DEF WorkerClear, NewOp, Vals, WorkerTypeOK
  <2>2. /\ l1' \in [Workers -> [Keys -> Entry]]
        /\ \A x \in Workers, y \in Keys : l1'[x][y] \in {l1[x][y], NoEntry}
    BY <1>0, <1>9, NoEntryFacts DEF WorkerClear, WorkerTypeOK, EmptyL1
  <2>3. /\ clears' \in [Workers -> Nat]
        /\ \A x \in Workers : clears'[x] \in Nat /\ clears[x] <= clears'[x]
    BY <1>0, <1>9 DEF WorkerClear, WorkerTypeOK
  <2>4. WorkerTypeOK'
    BY <1>0, <1>9, <2>1, <2>2, <2>3 DEF WorkerClear, WorkerTypeOK
  <2>5. \A x \in Workers, y \in Keys : l1'[x][y].ownAt <= RingHead
    <3>1. NoEntry.ownAt <= RingHead
      BY <1>0, NoEntryFacts
    <3> QED BY <1>0, <2>2, <3>1 DEF PositionsOK
  <2>6. sub' = sub /\ cursor' = cursor
    BY <1>9 DEF WorkerClear
  <2> QED BY <1>0, <1>1, <2>3, <2>4, <2>5, <2>6, WorkerPositions DEF PositionsOK
<1>10. ASSUME NEW k \in Keys, L1Evict(w, k) PROVE WorkerTypeOK' /\ PositionsOK'
  <2>1. /\ l1' \in [Workers -> [Keys -> Entry]]
        /\ \A x \in Workers, y \in Keys : l1'[x][y] \in {l1[x][y], NoEntry}
    BY <1>0, <1>10, NoEntryFacts DEF L1Evict, WorkerTypeOK
  <2>2. \A x \in Workers, y \in Keys : l1'[x][y].ownAt <= RingHead
    <3>1. NoEntry.ownAt <= RingHead
      BY <1>0, NoEntryFacts
    <3> QED BY <1>0, <2>1, <3>1 DEF PositionsOK
  <2>3. /\ sub' = sub /\ cursor' = cursor /\ clears' = clears /\ wpc' = wpc
        /\ nops' = nops /\ shed' = shed
    BY <1>10 DEF L1Evict
  <2>4. WorkerTypeOK'
    BY <1>0, <2>1, <2>3 DEF WorkerTypeOK
  <2> QED BY <1>0, <1>1, <2>2, <2>3, <2>4, WorkerPositions DEF PositionsOK
<1> QED
  BY <1>2, <1>3, <1>4, <1>5, <1>6, <1>7, <1>8, <1>9, <1>10 DEF WorkerStep, StateTypeOK

\* The primary's steps keep the variables other than the marks in their types.
LEMMA PrimaryTypeStep ==
  ASSUME StateTypeOK, PrimaryStep
  PROVE  StateTypeOK'
<1> USE ConstantsAssumption
<1>0. /\ WorkerTypeOK /\ PrimaryTypeOK /\ PositionsOK /\ RingHead \in Nat /\ 0 \in Vals
      /\ NoVal = 0
  BY DEF StateTypeOK, PrimaryTypeOK, RingHead, Vals, NoVal
<1>1. ASSUME NEW k \in Keys, PrimarySet(k) \/ PrimaryDelete(k) PROVE StateTypeOK'
  <2>1. nops' \in Vals
    BY <1>0, <1>1 DEF PrimarySet, PrimaryDelete, NewOp, Vals, WorkerTypeOK
  <2>2. WorkerTypeOK'
    BY <1>0, <1>1, <2>1 DEF PrimarySet, PrimaryDelete, WorkerTypeOK, workerVars
  <2>3. PrimaryTypeOK'
    <3>1. [key |-> k, by |-> NoOne] \in RingRec
      BY DEF RingRec
    <3>2. CASE PrimarySet(k)
      BY <1>0, <2>1, <3>1, <3>2 DEF PrimarySet, ArenaWrite, PrimaryTypeOK
    <3>3. CASE PrimaryDelete(k)
      BY <1>0, <2>1, <3>1, <3>3 DEF PrimaryDelete, ArenaWrite, PrimaryTypeOK
    <3> QED BY <1>1, <3>2, <3>3
  <2>4. PositionsOK'
    <3>1. DOMAIN owed' \subseteq {1}
      BY <1>1 DEF PrimarySet, PrimaryDelete, ArenaWrite
    <3> QED
      BY <1>0, <1>1, <3>1 DEF PrimarySet, PrimaryDelete, PositionsOK, workerVars, RingHead
  <2> QED BY <2>2, <2>3, <2>4 DEF StateTypeOK
<1>2. ASSUME NEW k \in Keys, PrimarySetRefused(k) \/ PrimaryGet(k) \/ Evict(k)
      PROVE  StateTypeOK'
  <2>1. nops' \in Vals
    BY <1>0, <1>2 DEF PrimarySetRefused, PrimaryGet, Evict, NewOp, Vals, WorkerTypeOK
  <2>2. WorkerTypeOK'
    BY <1>0, <1>2, <2>1
       DEF PrimarySetRefused, PrimaryGet, Evict, WorkerTypeOK, workerVars
  <2>3. PrimaryTypeOK'
    BY <1>0, <1>2 DEF PrimarySetRefused, PrimaryGet, Evict, PrimaryTypeOK
  <2>4. PositionsOK'
    BY <1>0, <1>2
       DEF PrimarySetRefused, PrimaryGet, Evict, PositionsOK, workerVars, RingHead
  <2> QED BY <2>2, <2>3, <2>4 DEF StateTypeOK
<1>3. ASSUME PrimaryClear PROVE StateTypeOK'
  <2>1. nops' \in Vals
    BY <1>0, <1>3 DEF PrimaryClear, NewOp, Vals, WorkerTypeOK
  <2>2. WorkerTypeOK'
    BY <1>0, <1>3, <2>1 DEF PrimaryClear, WorkerTypeOK, workerVars
  <2>3. PrimaryTypeOK'
    BY <1>0, <1>3 DEF PrimaryClear, StoreClear, PrimaryTypeOK, RingRec
  <2>4. PositionsOK'
    <3>1. DOMAIN owed' \subseteq {1}
      BY <1>3 DEF PrimaryClear, StoreClear
    <3> QED
      BY <1>0, <1>3, <3>1 DEF PrimaryClear, PositionsOK, workerVars, RingHead
  <2> QED BY <2>2, <2>3, <2>4 DEF StateTypeOK
<1>4. ASSUME RingAppend PROVE StateTypeOK'
  <2>1. WorkerTypeOK'
    BY <1>0, <1>4 DEF RingAppend, WorkerTypeOK, workerVars
  <2>2. owed[1] \in RingRec
    BY <1>0, <1>4 DEF RingAppend, PrimaryTypeOK
  <2>3. PrimaryTypeOK' /\ RingHead' = RingHead + 1
    BY <1>0, <1>4, <2>2 DEF RingAppend, PrimaryTypeOK, RingHead
  <2>4. \A x \in Workers : /\ cursor[x] \in Nat
                           /\ \A y \in Keys : l1[x][y].ownAt \in Nat \cup {-1}
    BY <1>0 DEF WorkerTypeOK, Entry
  <2>5. \A x \in Workers : /\ cursor[x] <= RingHead + 1
                           /\ \A y \in Keys : l1[x][y].ownAt <= RingHead + 1
    BY <1>0, <2>4 DEF PositionsOK
  <2>6. pcursor <= RingHead + 1
    BY <1>0 DEF PositionsOK, PrimaryTypeOK
  <2>7. PositionsOK'
    BY <1>0, <1>4, <2>3, <2>5, <2>6 DEF RingAppend, PositionsOK, workerVars
  <2> QED BY <2>1, <2>3, <2>7 DEF StateTypeOK
<1>5. ASSUME NEW w \in Workers, DrainBegin(w) PROVE StateTypeOK'
  <2>1. WorkerTypeOK'
    BY <1>0, <1>5 DEF DrainBegin, WorkerTypeOK, workerVars
  <2>2. PrimaryTypeOK'
    <3>1. Len(sub[w]) \in Nat /\ pri.batch \in Workers \cup {NoOne}
      BY <1>0 DEF WorkerTypeOK, PrimaryTypeOK, Control
    <3>2. pri' \in Control
      BY <1>5, <3>1 DEF DrainBegin, Control
    <3> QED BY <1>0, <1>5, <3>2 DEF DrainBegin, PrimaryTypeOK
  <2>3. PositionsOK'
    BY <1>0, <1>5 DEF DrainBegin, PositionsOK, workerVars, RingHead, WorkerTypeOK
  <2> QED BY <2>1, <2>2, <2>3 DEF StateTypeOK
<1>6. ASSUME NEW w \in Workers, DrainApply(w) PROVE StateTypeOK'
  <2>1. WorkerTypeOK'
    BY <1>0, <1>6 DEF DrainApply, WorkerTypeOK, workerVars
  <2>2. taken[w] + 1 \in 1 .. Len(sub[w])
    BY <1>0, <1>6 DEF DrainApply, PositionsOK, PrimaryTypeOK, WorkerTypeOK, Control
  <2>3. sub[w][taken[w] + 1] \in SubRec
    BY <1>0, <2>2 DEF WorkerTypeOK
  <2>4. PrimaryTypeOK'
    <3> DEFINE s == sub[w][taken[w] + 1]
    <3>1. PICK stored \in BOOLEAN :
            ArenaWrite(s.key, IF s.kind = "set" /\ stored THEN s.val ELSE NoVal, w)
      BY <1>6 DEF DrainApply
    <3>2. s.key \in Keys /\ (IF s.kind = "set" /\ stored THEN s.val ELSE NoVal) \in Vals
      BY <1>0, <2>3 DEF SubRec
    <3> HIDE DEF s
    <3>3. /\ arena' \in [Keys -> Vals] /\ last' \in [Keys -> Vals]
          /\ owed' \in Seq(RingRec)
      BY <1>0, <3>1, <3>2 DEF ArenaWrite, PrimaryTypeOK, RingRec
    <3> QED BY <1>0, <1>6, <3>3 DEF DrainApply, PrimaryTypeOK
  <2>5. taken' = [taken EXCEPT ![w] = @ + 1] /\ taken \in [Workers -> Nat]
    BY <1>0, <1>6 DEF DrainApply, PrimaryTypeOK
  <2>6. \A x \in Workers : tail[x] <= taken'[x] /\ taken'[x] <= Len(sub[x])
    BY <1>0, <2>2, <2>5 DEF PositionsOK, PrimaryTypeOK
  <2>7. PositionsOK'
    <3>1. DOMAIN owed' \subseteq {1}
      BY <1>6 DEF DrainApply, ArenaWrite
    <3> QED
      BY <1>0, <1>6, <2>6, <3>1 DEF DrainApply, PositionsOK, workerVars, RingHead
  <2> QED BY <2>1, <2>4, <2>7 DEF StateTypeOK
<1>7. ASSUME NEW w \in Workers, DrainEnd(w) PROVE StateTypeOK'
  <2>1. WorkerTypeOK'
    BY <1>0, <1>7 DEF DrainEnd, WorkerTypeOK, workerVars
  <2> DEFINE r == RingRead(pcursor, RingHead, ReadMax)
  <2>2. r.to \in Nat /\ r.to <= RingHead
    <3>1. RingHead \in HeadsSeen(pcursor)
      BY DEF HeadsSeen
    <3>2. pcursor \in Nat /\ pcursor <= RingHead
      BY <1>0 DEF PrimaryTypeOK, PositionsOK
    <3> QED BY <1>0, <3>1, <3>2, RingReadRange
  <2>3. /\ pcursor' \in Nat /\ pcursor' <= RingHead
        /\ pl1' \in [Keys -> Vals]
    <3>1. PrimaryInvalidate
      BY <1>7 DEF DrainEnd
    <3>2. pcursor' \in {r.to, RingHead}
      BY <3>1 DEF PrimaryInvalidate
    <3>3. pl1' \in [Keys -> Vals]
      <4>1. pl1 \in [Keys -> Vals]
        BY <1>0 DEF PrimaryTypeOK
      <4> HIDE DEF r
      <4> QED BY <1>0, <3>1, <4>1 DEF PrimaryInvalidate
    <3> QED BY <1>0, <2>2, <3>2, <3>3
  <2>4. /\ pri' \in Control
        /\ pri'.mode # "drain"
        /\ pri'.mode = "batch" => pri'.batch \in Workers
        /\ pri'.batch \in Workers => pri'.batch = pri.batch
    BY <1>0, <1>7 DEF DrainEnd, PrimaryTypeOK, Control, PIdle, PBatch
  <2>5. tail' = [tail EXCEPT ![w] = taken[w]]
    BY <1>7 DEF DrainEnd
  <2>6. tail' \in [Workers -> Nat] /\ \A x \in Workers : tail'[x] <= taken[x]
    BY <1>0, <2>5 DEF PositionsOK, PrimaryTypeOK
  <2>7. PrimaryTypeOK'
    BY <1>0, <1>7, <2>3, <2>4, <2>6 DEF DrainEnd, PrimaryTypeOK
  <2>8. PositionsOK'
    BY <1>0, <1>7, <2>3, <2>4, <2>6 DEF DrainEnd, PositionsOK, workerVars, RingHead
  <2> QED BY <2>1, <2>7, <2>8 DEF StateTypeOK
<1>8. ASSUME NEW w \in Workers, BatchBegin(w) \/ BatchRingEmpty(w) PROVE StateTypeOK'
  <2>1. WorkerTypeOK'
    BY <1>0, <1>8 DEF BatchBegin, BatchRingEmpty, WorkerTypeOK, workerVars
  <2>2. /\ pri' \in Control
        /\ pri'.mode # "drain" /\ pri'.batch \in Workers
        /\ clears[pri'.batch] > 0
    <3>1. CASE BatchBegin(w)
      BY <1>0, <3>1 DEF BatchBegin, PIdle, PBatch, Control
    <3>2. CASE BatchRingEmpty(w)
      BY <1>0, <3>2 DEF BatchRingEmpty, PIdle, PBatch, Control, PositionsOK, PrimaryTypeOK
    <3> QED BY <1>8, <3>1, <3>2
  <2>3. PrimaryTypeOK'
    BY <1>0, <1>8, <2>2 DEF BatchBegin, BatchRingEmpty, PrimaryTypeOK
  <2>4. PositionsOK'
    BY <1>0, <1>8, <2>2 DEF BatchBegin, BatchRingEmpty, PositionsOK, workerVars, RingHead
  <2> QED BY <2>1, <2>3, <2>4 DEF StateTypeOK
<1>9. ASSUME BatchClear PROVE StateTypeOK'
  <2>1. pri.batch \in Workers /\ clears[pri.batch] \in Nat /\ clears[pri.batch] > 0
    BY <1>0, <1>9 DEF BatchClear, PositionsOK, WorkerTypeOK
  <2>2. WorkerTypeOK'
    BY <1>0, <1>9, <2>1 DEF BatchClear, WorkerTypeOK, workerVars
  <2>3. PrimaryTypeOK'
    BY <1>0, <1>9, <2>1 DEF BatchClear, StoreClear, PrimaryTypeOK, RingRec, Control, PIdle
  <2>4. PositionsOK'
    <3>1. DOMAIN owed' \subseteq {1}
      BY <1>9 DEF BatchClear, StoreClear
    <3> QED
      BY <1>0, <1>9, <3>1 DEF BatchClear, PositionsOK, workerVars, RingHead, PIdle
  <2> QED BY <2>2, <2>3, <2>4 DEF StateTypeOK
<1> QED
  BY <1>1, <1>2, <1>3, <1>4, <1>5, <1>6, <1>7, <1>8, <1>9 DEF PrimaryStep

\* The initial state is well typed.
LEMMA StateTypeInit == Init => StateTypeOK
BY ConstantsAssumption, NoEntryFacts
   DEF Init, StateTypeOK, PrimaryTypeOK, WorkerTypeOK, PositionsOK, Vals, NoVal,
       RingHead, EmptyL1, WorkerPc, Control, PIdle

\* Every step keeps the types and the ranges of the positions.
LEMMA StateTypeStep == StateTypeOK /\ [Next]_vars => StateTypeOK'
<1>1. StateTypeOK /\ Next => StateTypeOK'
  BY WorkerTypeStep, PrimaryTypeStep DEF Next
<1>2. StateTypeOK /\ UNCHANGED vars => StateTypeOK'
  BY DEF vars, StateTypeOK, PrimaryTypeOK, WorkerTypeOK, PositionsOK, RingHead
<1> QED
  BY <1>1, <1>2

\* In every state every variable but the marks is of its type, and no position
\* is past what it is a position of: no cursor is ahead of the ring's head, no
\* consumer index ahead of what has been pushed.
THEOREM StateTypeCorrect == Spec => []StateTypeOK
BY StateTypeInit, StateTypeStep, PTL DEF Spec

-----------------------------------------------------------------------------
(* No worker keeps a superseded value.  The invariant is inductive with    *)
(* the types and with what the arena holds: a fill copies the arena, so    *)
(* the arena must hold nothing but the last value applied.                 *)

ArenaIsLast == \A k \in Keys : arena[k] \in {NoVal, last[k]}

\* The arena holds the last value applied to a key or, after an eviction, none.
LEMMA ArenaIsLastStep ==
  ASSUME StateTypeOK, ArenaIsLast, [Next]_vars
  PROVE  ArenaIsLast'
<1>1. CASE UNCHANGED vars
  BY <1>1 DEF vars, ArenaIsLast
<1>2. ASSUME NEW w \in Workers, WorkerStep(w) PROVE ArenaIsLast'
  BY <1>2 DEF WorkerStep, Get, Fill, SetLocal, DeleteLocal, Push, PushShed, WorkerClear,
     L1Evict, primaryVars, ArenaIsLast
<1>3. ASSUME NEW k \in Keys, PrimarySet(k) \/ PrimaryDelete(k) PROVE ArenaIsLast'
  BY <1>3 DEF PrimarySet, PrimaryDelete, ArenaWrite, ArenaIsLast, StateTypeOK, PrimaryTypeOK
<1>4. ASSUME NEW k \in Keys, PrimarySetRefused(k) \/ PrimaryGet(k) \/ Evict(k)
      PROVE  ArenaIsLast'
  BY <1>4 DEF PrimarySetRefused, PrimaryGet, Evict, ArenaIsLast, StateTypeOK, PrimaryTypeOK
<1>5. ASSUME PrimaryClear \/ BatchClear PROVE ArenaIsLast'
  BY <1>5 DEF PrimaryClear, BatchClear, StoreClear, ArenaIsLast
<1>6. ASSUME NEW w \in Workers, DrainApply(w) PROVE ArenaIsLast'
  <2>1. PICK k, v : ArenaWrite(k, v, w)
    BY <1>6 DEF DrainApply
  <2> QED BY <2>1 DEF ArenaWrite, ArenaIsLast, StateTypeOK, PrimaryTypeOK
<1>7. ASSUME NEW w \in Workers,
             \/ DrainBegin(w) \/ DrainEnd(w)
             \/ BatchBegin(w) \/ BatchRingEmpty(w)
      PROVE  ArenaIsLast'
  BY <1>7 DEF DrainBegin, DrainEnd, BatchBegin, BatchRingEmpty, ArenaIsLast
<1>8. ASSUME RingAppend PROVE ArenaIsLast'
  BY <1>8 DEF RingAppend, ArenaIsLast
<1> QED
  BY <1>1, <1>2, <1>3, <1>4, <1>5, <1>6, <1>7, <1>8 DEF Next, PrimaryStep

\* Nothing changes for an entry when what it is compared with does not.
LEMMA EntryKept ==
  ASSUME NEW x \in Workers, NEW k \in Keys, EntryFresh(x, k),
         ring' = ring, owed' = owed, last' = last, taken' = taken,
         l1'[x][k] \in {l1[x][k], NoEntry}, cursor'[x] = cursor[x],
         wpc'[x] = wpc[x] \/ wpc[x].op # "push",
         sub'[x] = sub[x], shed \subseteq shed'
  PROVE  EntryFresh(x, k)'
<1> SUFFICES ASSUME l1'[x][k] # NoEntry PROVE EntryFresh(x, k)'
  BY DEF EntryFresh, NoEntry, NoVal
<1>1. l1'[x][k] = l1[x][k] /\ l1[x][k] # NoEntry
  OBVIOUS
<1>2. CASE l1[x][k].val = last[k]
  BY <1>1, <1>2 DEF EntryFresh
<1>3. CASE OwnUnapplied(x, k, l1[x][k].val)
  <2>1. OwnUnapplied(x, k, l1[x][k].val)'
    BY <1>1, <1>3 DEF OwnUnapplied
  <2> QED BY <2>1 DEF EntryFresh
<1>4. CASE Doomed(k, cursor[x], l1[x][k].ownAt)
  <2>1. Doomed(k, cursor[x], l1[x][k].ownAt)'
    BY <1>1, <1>4 DEF Doomed, Lapped, RingHead
  <2> QED BY <2>1 DEF EntryFresh
<1> QED
  BY <1>1, <1>2, <1>3, <1>4 DEF EntryFresh

\* A drain drops every entry whose record it reads, and leaves the others with
\* their records still ahead.
LEMMA DrainKeepsFresh ==
  ASSUME StateTypeOK, NEW w \in Workers, NEW k \in Keys, EntryFresh(w, k),
         NEW h \in HeadsSeen(cursor[w]), Drain(w, h),
         UNCHANGED primaryVars, sub' = sub, shed' = shed,
         wpc'[w] = wpc[w] \/ wpc[w].op # "push"
  PROVE  EntryFresh(w, k)'
<1> DEFINE c == cursor[w]
           r == RingRead(c, h, ReadMax)
           own == l1[w][k].ownAt
<1>0. /\ ring' = ring /\ owed' = owed /\ last' = last /\ taken' = taken
      /\ RingHead' = RingHead
  BY DEF primaryVars, RingHead
<1>1. c \in Nat /\ RingHead \in Nat /\ c <= RingHead
  BY DEF StateTypeOK, WorkerTypeOK, PrimaryTypeOK, PositionsOK, RingHead
<1>2. /\ r.to \in Nat /\ r.to <= RingHead
      /\ Lapped(c) => r.wrapped
      /\ ~r.wrapped => r.from = c /\ c <= r.to
  BY <1>1, RingReadRange
<1>3. l1'[w][k] \in {l1[w][k], NoEntry}
  BY DrainShape
<1>4. CASE RingHead = c
  <2>1. cursor'[w] = cursor[w]
    BY <1>4 DEF Drain, StateTypeOK, WorkerTypeOK
  <2> QED BY <1>0, <1>3, <2>1, EntryKept
<1>5. CASE RingHead # c /\ (r.wrapped \/ HasFlush(r))
  <2>1. l1'[w] = EmptyL1
    BY <1>5 DEF Drain, StateTypeOK, WorkerTypeOK
  <2> QED BY <2>1 DEF EmptyL1, EntryFresh, NoEntry
<1>6. CASE RingHead # c /\ ~r.wrapped /\ ~HasFlush(r)
  <2>1. l1'[w] = Invalidated(l1[w], r) /\ cursor'[w] = r.to
    BY <1>6 DEF Drain, StateTypeOK, WorkerTypeOK
  <2> SUFFICES ASSUME l1'[w][k] # NoEntry PROVE EntryFresh(w, k)'
    BY DEF EntryFresh, NoEntry, NoVal
  <2>2. l1'[w][k] = l1[w][k] /\ l1[w][k] # NoEntry
    BY <1>3
  <2>3. ~ \E p \in Positions(r) : ring[p + 1].key = k /\ p >= own
    BY <2>1, <2>2 DEF Invalidated
  <2>4. CASE l1[w][k].val = last[k]
    BY <1>0, <2>2, <2>4 DEF EntryFresh
  <2>5. CASE OwnUnapplied(w, k, l1[w][k].val)
    <3>1. OwnUnapplied(w, k, l1[w][k].val)'
      BY <1>0, <2>2, <2>5 DEF OwnUnapplied
    <3> QED BY <3>1 DEF EntryFresh
  <2>6. CASE Doomed(k, c, own)
    <3>1. Doomed(k, r.to, own)
      <4>1. ~Lapped(c)
        BY <1>2, <1>6
      <4>2. CASE \E i \in DOMAIN owed : owed[i].key \in {k, FlushAll}
        BY <4>2 DEF Doomed
      <4>3. ASSUME NEW p \in c .. (RingHead - 1),
                   (ring[p + 1].key = k /\ p >= own) \/ ring[p + 1].key = FlushAll
            PROVE  Doomed(k, r.to, own)
        <5>1. p \notin Positions(r)
          BY <1>6, <2>3, <4>3 DEF HasFlush
        <5>2. p \in r.to .. (RingHead - 1)
          BY <1>1, <1>2, <1>6, <5>1 DEF Positions
        <5> QED BY <4>3, <5>2 DEF Doomed
      <4> QED BY <2>6, <4>1, <4>2, <4>3 DEF Doomed
    <3>2. Doomed(k, cursor[w], l1[w][k].ownAt)'
      BY <1>0, <2>1, <2>2, <3>1 DEF Doomed, Lapped, RingHead
    <3> QED BY <3>2 DEF EntryFresh
  <2> QED BY <2>2, <2>4, <2>5, <2>6 DEF EntryFresh
<1> QED
  BY <1>4, <1>5, <1>6

\* A worker's step leaves no entry of any worker superseded for good.
LEMMA WorkerKeepsFresh ==
  ASSUME StateTypeOK, ArenaIsLast, L1Fresh, NEW w \in Workers, WorkerStep(w)
  PROVE  L1Fresh'
<1> SUFFICES ASSUME NEW x \in Workers, NEW k \in Keys PROVE EntryFresh(x, k)'
  BY DEF L1Fresh
<1>0. /\ UNCHANGED primaryVars /\ EntryFresh(x, k)
      /\ ring' = ring /\ owed' = owed /\ last' = last /\ taken' = taken /\ arena' = arena
  BY DEF L1Fresh, WorkerStep, Get, Fill, SetLocal, DeleteLocal, Push, PushShed,
     WorkerClear, L1Evict, primaryVars
<1>T. WorkerTypeOK /\ PrimaryTypeOK /\ PositionsOK
  BY DEF StateTypeOK
<1>1. ASSUME NEW y \in Keys, Get(w, y) PROVE EntryFresh(x, k)'
  <2>1. PICK h \in HeadsSeen(cursor[w]) : Drain(w, h)
    BY <1>1 DEF Get
  <2>2. wpc[w].op # "push" /\ sub' = sub /\ shed' = shed
    BY <1>1 DEF Get, WorkerIdle, Idle
  <2>3. CASE x = w
    BY <1>0, <2>1, <2>2, <2>3, DrainKeepsFresh
  <2>4. CASE x # w
    <3>1. cursor'[x] = cursor[x] /\ l1'[x] = l1[x]
      BY <2>1, <2>4, DrainShape
    <3>2. wpc'[x] = wpc[x]
      BY <1>T, <1>1, <2>4 DEF Get, WorkerTypeOK
    <3> QED BY <1>0, <2>2, <3>1, <3>2, EntryKept
  <2> QED BY <2>3, <2>4
<1>2. ASSUME Fill(w) PROVE EntryFresh(x, k)'
  <2>1. sub' = sub /\ shed' = shed /\ cursor' = cursor
    BY <1>2 DEF Fill
  <2>2. wpc'[x] = wpc[x] \/ wpc[x].op # "push"
    BY <1>T, <1>2 DEF Fill, WorkerTypeOK
  <2>3. CASE l1'[x][k] = l1[x][k]
    BY <1>0, <2>1, <2>2, <2>3, EntryKept
  <2>4. CASE l1'[x][k] # l1[x][k]
    <3>1. wpc[w].key \in Keys
      BY <1>T, <1>2 DEF Fill, WorkerTypeOK, WorkerPc, Idle
    <3>2. l1'[x][k].val = arena[k] /\ arena[k] # NoVal
      BY <1>T, <1>2, <2>4, <3>1 DEF Fill, WorkerTypeOK
    <3> QED BY <1>0, <3>2 DEF ArenaIsLast, EntryFresh
  <2> QED BY <2>3, <2>4
<1>3. ASSUME NEW y \in Keys, NEW level \in 1 .. 3, SetLocal(w, y, level)
      PROVE  EntryFresh(x, k)'
  <2>1. sub' = sub /\ shed' = shed /\ cursor' = cursor
    BY <1>3 DEF SetLocal
  <2>2. wpc'[x] = wpc[x] \/ wpc[x].op # "push"
    BY <1>T, <1>3 DEF SetLocal, WorkerTypeOK, WorkerIdle, Idle
  <2>3. CASE l1'[x][k] \in {l1[x][k], NoEntry}
    BY <1>0, <2>1, <2>2, <2>3, EntryKept
  <2>4. CASE l1'[x][k] \notin {l1[x][k], NoEntry}
    <3>1. x = w /\ y = k /\ l1'[x][k].val = nops'
      BY <1>T, <1>3, <2>4 DEF SetLocal, WorkerTypeOK
    <3>2. wpc'[w].op = "push" /\ wpc'[w].key = k /\ wpc'[w].val = nops'
      BY <1>T, <1>3, <3>1 DEF SetLocal, WorkerTypeOK
    <3>3. OwnUnapplied(x, k, l1[x][k].val)'
      BY <3>1, <3>2 DEF OwnUnapplied
    <3> QED BY <3>3 DEF EntryFresh
  <2> QED BY <2>3, <2>4
<1>4. ASSUME NEW y \in Keys, DeleteLocal(w, y) \/ L1Evict(w, y) PROVE EntryFresh(x, k)'
  <2>1. sub' = sub /\ shed' = shed /\ cursor' = cursor
    BY <1>4 DEF DeleteLocal, L1Evict
  <2>2. wpc'[x] = wpc[x] \/ wpc[x].op # "push"
    BY <1>T, <1>4 DEF DeleteLocal, L1Evict, WorkerTypeOK, WorkerIdle, Idle
  <2>3. l1'[x][k] \in {l1[x][k], NoEntry}
    BY <1>T, <1>4 DEF DeleteLocal, L1Evict, WorkerTypeOK
  <2> QED BY <1>0, <2>1, <2>2, <2>3, EntryKept
<1>5. ASSUME Push(w) PROVE EntryFresh(x, k)'
  <2>1. l1' = l1 /\ shed' = shed /\ cursor' = cursor
    BY <1>5 DEF Push
  <2>2. CASE x # w
    <3>1. sub'[x] = sub[x] /\ wpc'[x] = wpc[x]
      BY <1>T, <1>5, <2>2 DEF Push, WorkerTypeOK
    <3> QED BY <1>0, <2>1, <3>1, EntryKept
  <2>3. CASE x = w
    <3>1. CASE l1[w][k] # NoEntry /\ OwnUnapplied(w, k, l1[w][k].val)
      <4> DEFINE n == Len(sub[w])
                 rec == [kind |-> wpc[w].kind, key |-> wpc[w].key,
                         val |-> wpc[w].val, epoch |-> cleared[w] + clears[w]]
      <4>1. /\ sub[w] \in Seq(SubRec) /\ n \in Nat
            /\ taken[w] \in Nat /\ taken[w] <= n
        BY <1>T DEF WorkerTypeOK, PrimaryTypeOK, PositionsOK
      <4>2. sub'[w] = Append(sub[w], rec)
        BY <1>T, <1>5 DEF Push, WorkerTypeOK
      <4>3. /\ Len(sub'[w]) = n + 1 /\ sub'[w][n + 1] = rec
            /\ \A i \in 1 .. n : sub'[w][i] = sub[w][i]
        <5> HIDE DEF rec
        <5> QED BY <4>1, <4>2
      <4>4. OwnUnapplied(w, k, l1[w][k].val)'
        <5>1. CASE wpc[w].key = k /\ wpc[w].val = l1[w][k].val
          <6>1. n + 1 \in (taken'[w] + 1) .. Len(sub'[w])
            BY <1>0, <4>1, <4>3
          <6> QED BY <2>1, <4>3, <5>1, <6>1 DEF OwnUnapplied
        <5>2. ASSUME NEW i \in (taken[w] + 1) .. Len(sub[w]),
                     sub[w][i].key = k, sub[w][i].val = l1[w][k].val
              PROVE  OwnUnapplied(w, k, l1[w][k].val)'
          <6>1. i \in 1 .. n /\ i \in (taken'[w] + 1) .. Len(sub'[w])
            BY <1>0, <4>1, <4>3
          <6> QED BY <2>1, <4>3, <5>2, <6>1 DEF OwnUnapplied
        <5>3. CASE l1[w][k].val \in shed
          BY <2>1, <5>3 DEF OwnUnapplied
        <5> QED BY <3>1, <5>1, <5>2, <5>3 DEF OwnUnapplied
      <4> QED BY <2>1, <2>3, <4>4 DEF EntryFresh
    <3>2. CASE l1[w][k].val = last[k]
      BY <1>0, <2>1, <2>3, <3>2 DEF EntryFresh
    <3>3. CASE Doomed(k, cursor[w], l1[w][k].ownAt)
      <4>1. Doomed(k, cursor[w], l1[w][k].ownAt)'
        BY <1>0, <2>1, <3>3 DEF Doomed, Lapped, RingHead
      <4> QED BY <2>3, <4>1 DEF EntryFresh
    <3>4. CASE l1[w][k] = NoEntry
      BY <2>1, <2>3, <3>4 DEF EntryFresh, NoEntry, NoVal
    <3> QED BY <1>0, <2>3, <3>1, <3>2, <3>3, <3>4 DEF EntryFresh
  <2> QED BY <2>2, <2>3
<1>6. ASSUME PushShed(w) PROVE EntryFresh(x, k)'
  <2>1. /\ sub' = sub /\ l1' = l1 /\ cursor' = cursor
        /\ shed' = shed \cup {wpc[w].val}
    BY <1>6 DEF PushShed
  <2>2. CASE l1[x][k].val \in shed'
    BY <2>1, <2>2 DEF EntryFresh, OwnUnapplied
  <2>3. CASE l1[x][k].val \notin shed' /\ x = w
    <3>1. EntryFresh(x, k) /\ wpc[w].val # l1[x][k].val
      BY <1>0, <2>1, <2>3
    <3>2. OwnUnapplied(w, k, l1[w][k].val) => OwnUnapplied(w, k, l1[w][k].val)'
      BY <1>0, <2>1, <2>3, <3>1 DEF OwnUnapplied
    <3>3. Doomed(k, cursor[w], l1[w][k].ownAt) => Doomed(k, cursor[w], l1[w][k].ownAt)'
      BY <1>0, <2>1 DEF Doomed, Lapped, RingHead
    <3> QED BY <1>0, <2>1, <2>3, <3>1, <3>2, <3>3 DEF EntryFresh, NoEntry, NoVal
  <2>4. CASE x # w
    <3>1. wpc'[x] = wpc[x]
      BY <1>T, <1>6, <2>4 DEF PushShed, WorkerTypeOK
    <3> QED BY <1>0, <2>1, <3>1, EntryKept
  <2> QED BY <2>2, <2>3, <2>4
<1>7. ASSUME WorkerClear(w) PROVE EntryFresh(x, k)'
  <2>1. sub' = sub /\ shed' = shed /\ cursor' = cursor /\ wpc' = wpc
    BY <1>7 DEF WorkerClear
  <2>2. l1'[x][k] \in {l1[x][k], NoEntry}
    BY <1>T, <1>7 DEF WorkerClear, WorkerTypeOK, EmptyL1
  <2> QED BY <1>0, <2>1, <2>2, EntryKept
<1> QED
  BY <1>1, <1>2, <1>3, <1>4, <1>5, <1>6, <1>7 DEF WorkerStep

\* A step of the primary leaves no entry of any worker superseded for good: a
\* write of the arena owes the record that drops the entry.
LEMMA PrimaryKeepsFresh ==
  ASSUME StateTypeOK, L1Fresh, PrimaryStep
  PROVE  L1Fresh'
<1> SUFFICES ASSUME NEW x \in Workers, NEW k \in Keys PROVE EntryFresh(x, k)'
  BY DEF L1Fresh
<1>0. /\ EntryFresh(x, k)
      /\ UNCHANGED workerVars /\ sub' = sub /\ shed' = shed
  BY DEF L1Fresh, PrimaryStep, PrimarySet, PrimarySetRefused, PrimaryDelete, PrimaryGet,
     Evict, PrimaryClear, RingAppend, DrainBegin, DrainApply, DrainEnd, BatchBegin,
     BatchRingEmpty, BatchClear
<1>00. l1' = l1 /\ cursor' = cursor /\ wpc' = wpc
  BY <1>0 DEF workerVars
<1>T. WorkerTypeOK /\ PrimaryTypeOK /\ PositionsOK
  BY DEF StateTypeOK
<1>1. ASSUME NEW y \in Keys, NEW v, NEW by, ArenaWrite(y, v, by), ring' = ring,
             \/ taken' = taken
             \/ /\ sub[by][taken[by] + 1].key = y /\ by \in Workers
                /\ taken' = [taken EXCEPT ![by] = @ + 1]
      PROVE  EntryFresh(x, k)'
  <2>1. CASE y = k
    <3>1. owed' = <<[key |-> k, by |-> by]>>
      BY <1>1, <2>1 DEF ArenaWrite
    <3>2. 1 \in DOMAIN owed' /\ owed'[1].key = k
      BY <3>1
    <3>3. Doomed(k, cursor[x], l1[x][k].ownAt)'
      BY <3>2 DEF Doomed
    <3> QED BY <3>3 DEF EntryFresh
  <2>2. CASE y # k
    <3>1. last'[k] = last[k] /\ owed = <<>>
      BY <1>T, <1>1, <2>2 DEF ArenaWrite, PrimaryTypeOK
    <3>2. Doomed(k, cursor[x], l1[x][k].ownAt) => Doomed(k, cursor[x], l1[x][k].ownAt)'
      BY <1>00, <1>1, <3>1 DEF Doomed, Lapped, RingHead
    <3>3. ASSUME NEW i \in (taken[x] + 1) .. Len(sub[x]), sub[x][i].key = k
          PROVE  i \in (taken'[x] + 1) .. Len(sub'[x])
      <4>1. taken[x] \in Nat /\ Len(sub[x]) \in Nat
        BY <1>T DEF PrimaryTypeOK, WorkerTypeOK
      <4>2. CASE taken'[x] = taken[x]
        BY <1>0, <4>2
      <4>3. CASE taken'[x] # taken[x]
        <5>1. by = x /\ taken'[x] = taken[x] + 1
          BY <1>T, <1>1, <4>3 DEF PrimaryTypeOK
        <5>2. i # taken[x] + 1
          BY <1>1, <2>2, <3>3, <4>3, <5>1
        <5> QED BY <1>0, <3>3, <4>1, <5>1, <5>2
      <4> QED BY <4>2, <4>3
    <3>4. OwnUnapplied(x, k, l1[x][k].val) => OwnUnapplied(x, k, l1[x][k].val)'
      BY <1>0, <1>00, <3>3 DEF OwnUnapplied
    <3> QED BY <1>0, <1>00, <3>1, <3>2, <3>4 DEF EntryFresh, NoEntry, NoVal
  <2> QED BY <2>1, <2>2
<1>2. ASSUME NEW y \in Keys, PrimarySet(y) \/ PrimaryDelete(y) PROVE EntryFresh(x, k)'
  BY <1>1, <1>2 DEF PrimarySet, PrimaryDelete
<1>3. ASSUME NEW w \in Workers, DrainApply(w) PROVE EntryFresh(x, k)'
  <2>1. sub[w][taken[w] + 1].key \in Keys
    <3>1. taken[w] + 1 \in 1 .. Len(sub[w])
      BY <1>T, <1>3 DEF DrainApply, PositionsOK, PrimaryTypeOK, WorkerTypeOK, Control
    <3>2. sub[w][taken[w] + 1] \in SubRec
      BY <1>T, <3>1 DEF WorkerTypeOK
    <3> QED BY <3>2 DEF SubRec
  <2>2. PICK v : ArenaWrite(sub[w][taken[w] + 1].key, v, w)
    BY <1>3 DEF DrainApply
  <2>3. ring' = ring /\ taken' = [taken EXCEPT ![w] = @ + 1]
    BY <1>3 DEF DrainApply
  <2> QED BY <1>1, <2>1, <2>2, <2>3
<1>4. ASSUME PrimaryClear \/ BatchClear PROVE EntryFresh(x, k)'
  <2>1. PICK by : owed' = <<[key |-> FlushAll, by |-> by]>>
    BY <1>4 DEF PrimaryClear, BatchClear, StoreClear
  <2>2. 1 \in DOMAIN owed' /\ owed'[1].key = FlushAll
    BY <2>1
  <2>3. Doomed(k, cursor[x], l1[x][k].ownAt)'
    BY <2>2 DEF Doomed
  <2> QED BY <2>3 DEF EntryFresh
<1>5. ASSUME RingAppend PROVE EntryFresh(x, k)'
  <2>1. /\ RingHead \in Nat /\ cursor[x] \in Nat /\ cursor[x] <= RingHead
        /\ l1[x][k].ownAt <= RingHead /\ l1[x][k].ownAt \in Nat \cup {-1}
    BY <1>T DEF PrimaryTypeOK, WorkerTypeOK, PositionsOK, RingHead, Entry
  <2>2. /\ last' = last /\ taken' = taken /\ RingHead' = RingHead + 1
        /\ ring'[RingHead + 1] = owed[1]
        /\ \A p \in 0 .. (RingHead - 1) : ring'[p + 1] = ring[p + 1]
    BY <1>T, <1>5 DEF RingAppend, PrimaryTypeOK, RingHead
  <2>3. OwnUnapplied(x, k, l1[x][k].val) => OwnUnapplied(x, k, l1[x][k].val)'
    BY <1>0, <1>00, <2>2 DEF OwnUnapplied
  <2>4. Doomed(k, cursor[x], l1[x][k].ownAt) => Doomed(k, cursor[x], l1[x][k].ownAt)'
    <3>1. ASSUME NEW i \in DOMAIN owed, owed[i].key \in {k, FlushAll}
          PROVE  Doomed(k, cursor[x], l1[x][k].ownAt)'
      <4>1. RingHead \in cursor[x] .. (RingHead' - 1) /\ RingHead >= l1[x][k].ownAt
        BY <2>1, <2>2
      <4>2. owed[1].key \in {k, FlushAll}
        BY <3>1, <1>T DEF PositionsOK
      <4> QED BY <1>00, <2>2, <4>1, <4>2 DEF Doomed
    <3>2. ASSUME NEW p \in cursor[x] .. (RingHead - 1),
                 \/ ring[p + 1].key = k /\ p >= l1[x][k].ownAt
                 \/ ring[p + 1].key = FlushAll
          PROVE  Doomed(k, cursor[x], l1[x][k].ownAt)'
      <4>1. p \in 0 .. (RingHead - 1) /\ p \in cursor[x] .. (RingHead' - 1)
        BY <2>1, <2>2
      <4> QED BY <1>00, <2>2, <3>2, <4>1 DEF Doomed
    <3>3. Lapped(cursor[x]) => Lapped(cursor[x])'
      BY <1>00, <2>1, <2>2, ConstantsAssumption DEF Lapped
    <3> QED BY <3>1, <3>2, <3>3 DEF Doomed
  <2> QED BY <1>0, <1>00, <2>2, <2>3, <2>4 DEF EntryFresh, NoEntry, NoVal
<1>6. ASSUME ring' = ring, owed' = owed, last' = last, taken' = taken
      PROVE  EntryFresh(x, k)'
  BY <1>0, <1>00, <1>6, EntryKept
<1>7. ASSUME NEW y \in Keys, PrimarySetRefused(y) \/ PrimaryGet(y) \/ Evict(y)
      PROVE  EntryFresh(x, k)'
  BY <1>6, <1>7 DEF PrimarySetRefused, PrimaryGet, Evict
<1>8. ASSUME NEW w \in Workers,
             DrainBegin(w) \/ DrainEnd(w) \/ BatchBegin(w) \/ BatchRingEmpty(w)
      PROVE  EntryFresh(x, k)'
  BY <1>6, <1>8 DEF DrainBegin, DrainEnd, BatchBegin, BatchRingEmpty
<1> QED
  BY <1>2, <1>3, <1>4, <1>5, <1>7, <1>8 DEF PrimaryStep

\* In every state of the system, whatever the number of workers and keys and
\* however often the rings are lapped or full: what a worker's L1 holds is the
\* last value applied, its own unapplied write, or about to be invalidated.
THEOREM WorkersFresh == Spec => []L1Fresh
<1> DEFINE IInv == StateTypeOK /\ ArenaIsLast /\ L1Fresh
<1>1. Init => IInv
  <2>1. Init => ArenaIsLast /\ L1Fresh
    BY DEF Init, ArenaIsLast, L1Fresh, EntryFresh, EmptyL1
  <2> QED BY <2>1, StateTypeInit
<1>2. IInv /\ [Next]_vars => IInv'
  <2> SUFFICES ASSUME IInv, [Next]_vars PROVE IInv'
    OBVIOUS
  <2>1. StateTypeOK' /\ ArenaIsLast'
    BY StateTypeStep, ArenaIsLastStep
  <2>2. CASE Next
    BY <2>1, <2>2, WorkerKeepsFresh, PrimaryKeepsFresh DEF Next
  <2>3. CASE UNCHANGED vars
    <3>1. L1Fresh'
      BY <2>3 DEF vars, L1Fresh, EntryFresh, OwnUnapplied, Doomed, Lapped, RingHead
    <3> QED BY <2>1, <3>1
  <2> QED BY <2>2, <2>3
<1>3. IInv => L1Fresh
  OBVIOUS
<1> QED
  BY <1>1, <1>2, <1>3, PTL DEF Spec

-----------------------------------------------------------------------------
(* The primary's own L1.  Between a record it applies and the end of the   *)
(* drain the primary may hold a superseded value, but only one that the    *)
(* invalidation at the end of the drain will meet.                         *)

PrimaryDoomed(k) ==
  \/ Lapped(pcursor)
  \/ \E p \in pcursor .. (RingHead - 1) :
       \/ ring[p + 1].key = k /\ ring[p + 1].by # NoOne
       \/ ring[p + 1].key = FlushAll
  \/ \E i \in DOMAIN owed : owed[i].key = k /\ owed[i].by # NoOne

PrimaryEntryFresh(k) ==
  \/ pl1[k] \in {NoVal, last[k]}
  \/ pri.mode = "drain" /\ PrimaryDoomed(k)

PrimaryInv == \A k \in Keys : PrimaryEntryFresh(k)

\* Every step keeps the primary's L1 fresh, or doomed while it drains.
LEMMA PrimaryInvStep ==
  ASSUME StateTypeOK, ArenaIsLast, PrimaryInv, [Next]_vars
  PROVE  PrimaryInv'
<1> SUFFICES ASSUME NEW k \in Keys PROVE PrimaryEntryFresh(k)'
  BY DEF PrimaryInv
<1>0. PrimaryEntryFresh(k) /\ PrimaryTypeOK /\ WorkerTypeOK /\ PositionsOK
  BY DEF PrimaryInv, StateTypeOK
<1>1. ASSUME ring' = ring, owed' = owed, last' = last, pcursor' = pcursor,
             pri.mode = "drain" => pri'.mode = "drain",
             pl1'[k] \in {NoVal, pl1[k], last[k]}
      PROVE  PrimaryEntryFresh(k)'
  BY <1>0, <1>1 DEF PrimaryEntryFresh, PrimaryDoomed, Lapped, RingHead
<1>2. CASE UNCHANGED vars
  BY <1>1, <1>2 DEF vars
<1>3. ASSUME NEW w \in Workers, WorkerStep(w) PROVE PrimaryEntryFresh(k)'
  <2>1. UNCHANGED primaryVars
    BY <1>3 DEF WorkerStep, Get, Fill, SetLocal, DeleteLocal, Push, PushShed,
       WorkerClear, L1Evict
  <2> QED BY <1>1, <2>1 DEF primaryVars
<1>4. ASSUME NEW y \in Keys, PrimarySet(y) \/ PrimaryDelete(y)
      PROVE  PrimaryEntryFresh(k)'
  <2>1. pri.mode # "drain"
    BY <1>4 DEF PrimarySet, PrimaryDelete, PrimaryIdle, PIdle
  <2>2. pl1[k] \in {NoVal, last[k]}
    BY <1>0, <2>1 DEF PrimaryEntryFresh
  <2>3. pl1'[k] \in {NoVal, last'[k]}
    BY <1>0, <1>4, <2>2 DEF PrimarySet, PrimaryDelete, ArenaWrite, PrimaryTypeOK
  <2> QED BY <2>3 DEF PrimaryEntryFresh
<1>5. ASSUME NEW y \in Keys, PrimarySetRefused(y) \/ PrimaryGet(y) \/ Evict(y)
      PROVE  PrimaryEntryFresh(k)'
  <2>1. pl1'[k] \in {NoVal, pl1[k], last[k]}
    BY <1>0, <1>5 DEF PrimarySetRefused, PrimaryGet, Evict, PrimaryTypeOK, ArenaIsLast
  <2> QED BY <1>1, <1>5, <2>1 DEF PrimarySetRefused, PrimaryGet, Evict
<1>6. ASSUME PrimaryClear \/ BatchClear PROVE PrimaryEntryFresh(k)'
  <2>1. pl1'[k] = NoVal
    BY <1>6 DEF PrimaryClear, BatchClear, StoreClear
  <2> QED BY <2>1 DEF PrimaryEntryFresh
<1>7. ASSUME RingAppend PROVE PrimaryEntryFresh(k)'
  <2>1. pl1' = pl1 /\ last' = last /\ pri' = pri /\ pcursor' = pcursor
    BY <1>7 DEF RingAppend
  <2>2. CASE pl1[k] \in {NoVal, last[k]}
    BY <2>1, <2>2 DEF PrimaryEntryFresh
  <2>3. CASE pri.mode = "drain" /\ PrimaryDoomed(k)
    <3>1. RingHead \in Nat /\ pcursor \in Nat /\ pcursor <= RingHead
      BY <1>0 DEF PrimaryTypeOK, PositionsOK, RingHead
    <3>2. /\ RingHead' = RingHead + 1 /\ ring'[RingHead + 1] = owed[1]
          /\ \A p \in 0 .. (RingHead - 1) : ring'[p + 1] = ring[p + 1]
      BY <1>0, <1>7 DEF RingAppend, PrimaryTypeOK, RingHead
    <3>3. ASSUME NEW i \in DOMAIN owed, owed[i].key = k, owed[i].by # NoOne
          PROVE  PrimaryDoomed(k)'
      <4>1. RingHead \in pcursor' .. (RingHead' - 1) /\ i = 1
        BY <1>0, <2>1, <3>1, <3>2 DEF PositionsOK
      <4> QED BY <3>2, <3>3, <4>1 DEF PrimaryDoomed
    <3>4. ASSUME NEW p \in pcursor .. (RingHead - 1),
                 \/ ring[p + 1].key = k /\ ring[p + 1].by # NoOne
                 \/ ring[p + 1].key = FlushAll
          PROVE  PrimaryDoomed(k)'
      <4>1. p \in 0 .. (RingHead - 1) /\ p \in pcursor' .. (RingHead' - 1)
        BY <2>1, <3>1, <3>2
      <4> QED BY <3>2, <3>4, <4>1 DEF PrimaryDoomed
    <3>5. Lapped(pcursor) => Lapped(pcursor)'
      BY <2>1, <3>1, <3>2, ConstantsAssumption DEF Lapped
    <3>6. PrimaryDoomed(k)'
      BY <2>3, <3>3, <3>4, <3>5 DEF PrimaryDoomed
    <3> QED BY <2>1, <2>3, <3>6 DEF PrimaryEntryFresh
  <2> QED BY <1>0, <2>2, <2>3 DEF PrimaryEntryFresh
<1>8. ASSUME NEW w \in Workers, DrainApply(w) PROVE PrimaryEntryFresh(k)'
  <2>1. PICK y, v : ArenaWrite(y, v, w)
    BY <1>8 DEF DrainApply
  <2>2. /\ pri' = pri /\ pri.mode = "drain" /\ pl1' = pl1 /\ pcursor' = pcursor
        /\ ring' = ring
    BY <1>8 DEF DrainApply
  <2>3. CASE y = k
    <3>1. owed' = <<[key |-> k, by |-> w]>> /\ w # NoOne
      BY <2>1, <2>3, ConstantsAssumption DEF ArenaWrite
    <3>2. 1 \in DOMAIN owed' /\ owed'[1].key = k /\ owed'[1].by # NoOne
      BY <3>1
    <3> QED BY <2>2, <3>2 DEF PrimaryEntryFresh, PrimaryDoomed
  <2>4. CASE y # k
    <3>1. last'[k] = last[k] /\ owed = <<>>
      BY <1>0, <2>1, <2>4 DEF ArenaWrite, PrimaryTypeOK
    <3>2. PrimaryDoomed(k) => PrimaryDoomed(k)'
      BY <2>2, <3>1 DEF PrimaryDoomed, Lapped, RingHead
    <3> QED BY <1>0, <2>2, <3>1, <3>2 DEF PrimaryEntryFresh
  <2> QED BY <2>3, <2>4
<1>9. ASSUME NEW w \in Workers, DrainBegin(w) \/ BatchBegin(w) \/ BatchRingEmpty(w)
      PROVE  PrimaryEntryFresh(k)'
  <2>1. pri.mode # "drain"
    BY <1>9 DEF DrainBegin, BatchBegin, BatchRingEmpty, PrimaryIdle, PIdle
  <2> QED BY <1>1, <1>9, <2>1 DEF DrainBegin, BatchBegin, BatchRingEmpty
<1>10. ASSUME NEW w \in Workers, DrainEnd(w) PROVE PrimaryEntryFresh(k)'
  <2> DEFINE r == RingRead(pcursor, RingHead, ReadMax)
             all == pcursor .. (RingHead - 1)
  <2>1. PrimaryInvalidate /\ last' = last /\ owed = <<>>
    BY <1>10 DEF DrainEnd
  <2>2. CASE r.wrapped
    <3>1. pl1'[k] = NoVal
      BY <2>1, <2>2 DEF PrimaryInvalidate
    <3> QED BY <3>1 DEF PrimaryEntryFresh
  <2>3. CASE ~r.wrapped
    <3>1. ~Lapped(pcursor)
      BY <2>3 DEF RingRead
    <3>2. pl1'[k] = NoVal
          \/ /\ pl1'[k] = pl1[k]
             /\ ~ \E p \in all : ring[p + 1].key = FlushAll
             /\ ~ \E p \in all : ring[p + 1].key = k /\ ring[p + 1].by # NoOne
      BY <2>1, <2>3 DEF PrimaryInvalidate
    <3>3. CASE pl1'[k] = NoVal
      BY <3>3 DEF PrimaryEntryFresh
    <3>4. CASE pl1'[k] # NoVal
      <4>1. ~PrimaryDoomed(k)
        BY <2>1, <3>1, <3>2, <3>4 DEF PrimaryDoomed
      <4> QED BY <1>0, <2>1, <3>2, <3>4, <4>1 DEF PrimaryEntryFresh
    <3> QED BY <3>3, <3>4
  <2> QED BY <2>2, <2>3
<1> QED
  BY <1>2, <1>3, <1>4, <1>5, <1>6, <1>7, <1>8, <1>9, <1>10 DEF Next, PrimaryStep

\* The primary reads no ring before it answers, and still never answers from its
\* L1 with a value that a drain or a clear it has run superseded.
THEOREM PrimaryNeverStale == Spec => []PrimaryFresh
<1> DEFINE IInv == StateTypeOK /\ ArenaIsLast /\ PrimaryInv
<1>1. Init => IInv
  <2>1. Init => ArenaIsLast /\ PrimaryInv
    BY DEF Init, ArenaIsLast, PrimaryInv, PrimaryEntryFresh
  <2> QED BY <2>1, StateTypeInit
<1>2. IInv /\ [Next]_vars => IInv'
  BY StateTypeStep, ArenaIsLastStep, PrimaryInvStep
<1>3. IInv => PrimaryFresh
  BY DEF PrimaryInv, PrimaryEntryFresh, PrimaryFresh, PrimaryIdle, PIdle
<1> QED
  BY <1>1, <1>2, <1>3, PTL DEF Spec

-----------------------------------------------------------------------------
(* Clears.  Once the ring of the worker whose clear is being applied has   *)
(* been seen empty, whatever that worker pushes belongs after the clear.   *)

BatchInv ==
  pri.mode = "batch" /\ pri.batch \in pri.empty =>
    \A i \in (taken[pri.batch] + 1) .. Len(sub[pri.batch]) :
      sub[pri.batch][i].epoch > cleared[pri.batch]

\* Every step keeps both halves: what is pushed once the ring was seen empty is
\* later than the clear, and nothing unapplied is older than an applied clear.
LEMMA ClearStep ==
  ASSUME StateTypeOK, BatchInv, ClearCoversEarlierWrites, [Next]_vars
  PROVE  BatchInv' /\ ClearCoversEarlierWrites'
<1>0. PrimaryTypeOK /\ WorkerTypeOK /\ PositionsOK
  BY DEF StateTypeOK
<1>1. ASSUME sub' = sub, taken' = taken, cleared' = cleared, pri' = pri
      PROVE  BatchInv' /\ ClearCoversEarlierWrites'
  BY <1>1 DEF BatchInv, ClearCoversEarlierWrites
<1>2. ASSUME sub' = sub, taken' = taken, cleared' = cleared,
             pri'.mode = "batch" => pri'.empty = {}
      PROVE  BatchInv' /\ ClearCoversEarlierWrites'
  BY <1>2 DEF BatchInv, ClearCoversEarlierWrites
<1>3. CASE UNCHANGED vars
  BY <1>1, <1>3 DEF vars
<1>4. ASSUME NEW w \in Workers, Push(w) PROVE BatchInv' /\ ClearCoversEarlierWrites'
  <2> DEFINE n == Len(sub[w])
             rec == [kind |-> wpc[w].kind, key |-> wpc[w].key,
                     val |-> wpc[w].val, epoch |-> cleared[w] + clears[w]]
  <2>1. /\ sub[w] \in Seq(SubRec) /\ n \in Nat /\ taken[w] \in Nat /\ taken[w] <= n
        /\ cleared[w] \in Nat /\ clears[w] \in Nat
    BY <1>0 DEF WorkerTypeOK, PrimaryTypeOK, PositionsOK
  <2>2. /\ sub'[w] = Append(sub[w], rec) /\ \A x \in Workers \ {w} : sub'[x] = sub[x]
        /\ taken' = taken /\ cleared' = cleared /\ pri' = pri
    BY <1>0, <1>4 DEF Push, WorkerTypeOK, primaryVars
  <2>3. /\ Len(sub'[w]) = n + 1 /\ sub'[w][n + 1] = rec
        /\ \A i \in 1 .. n : sub'[w][i] = sub[w][i]
    <3> HIDE DEF rec
    <3> QED BY <2>1, <2>2
  <2>4. rec.epoch >= cleared[w] /\ (pri.batch = w => rec.epoch > cleared[w])
    BY <1>0, <2>1 DEF PositionsOK
  <2>5. \A i \in (taken[w] + 1) .. (n + 1) : i = n + 1 \/ i \in (taken[w] + 1) .. n
    BY <2>1
  <2>6. \A i \in (taken[w] + 1) .. n : i \in 1 .. n
    BY <2>1
  <2> HIDE DEF rec, n
  <2>7. \A i \in (taken[w] + 1) .. (n + 1) : sub'[w][i].epoch >= cleared[w]
    BY <2>3, <2>4, <2>5, <2>6 DEF ClearCoversEarlierWrites, n
  <2>8. ClearCoversEarlierWrites'
    BY <2>2, <2>3, <2>7 DEF ClearCoversEarlierWrites
  <2>9. ASSUME pri.mode = "batch", pri.batch \in pri.empty, pri.batch = w
        PROVE  \A i \in (taken[w] + 1) .. (n + 1) : sub'[w][i].epoch > cleared[w]
    BY <2>3, <2>4, <2>5, <2>6, <2>9 DEF BatchInv, n
  <2>10. BatchInv'
    <3>1. pri.mode = "batch" => pri.batch \in Workers
      BY <1>0 DEF PositionsOK
    <3> QED BY <2>2, <2>3, <2>9, <3>1 DEF BatchInv
  <2> QED BY <2>8, <2>10
<1>5. ASSUME NEW w \in Workers, WorkerStep(w), ~Push(w)
      PROVE  BatchInv' /\ ClearCoversEarlierWrites'
  BY <1>1, <1>5 DEF WorkerStep, Get, Fill, SetLocal, DeleteLocal, PushShed, WorkerClear,
     L1Evict, primaryVars
<1>6. ASSUME NEW k \in Keys,
             PrimarySet(k) \/ PrimarySetRefused(k) \/ PrimaryDelete(k)
             \/ PrimaryGet(k) \/ Evict(k)
      PROVE  BatchInv' /\ ClearCoversEarlierWrites'
  BY <1>1, <1>6 DEF PrimarySet, PrimarySetRefused, PrimaryDelete, PrimaryGet, Evict
<1>7. ASSUME PrimaryClear \/ RingAppend PROVE BatchInv' /\ ClearCoversEarlierWrites'
  BY <1>1, <1>7 DEF PrimaryClear, RingAppend
<1>8. ASSUME NEW w \in Workers, DrainBegin(w) \/ DrainEnd(w) \/ BatchBegin(w)
      PROVE  BatchInv' /\ ClearCoversEarlierWrites'
  <2>1. pri'.mode = "batch" => pri'.empty = {}
    <3>1. CASE DrainBegin(w)
      BY <3>1 DEF DrainBegin
    <3>2. CASE DrainEnd(w)
      BY <3>2 DEF DrainEnd, PIdle, PBatch
    <3>3. CASE BatchBegin(w)
      BY <3>3 DEF BatchBegin, PIdle, PBatch
    <3> QED BY <1>8, <3>1, <3>2, <3>3
  <2> QED BY <1>2, <1>8, <2>1 DEF DrainBegin, DrainEnd, BatchBegin
<1>9. ASSUME NEW w \in Workers, DrainApply(w) PROVE BatchInv' /\ ClearCoversEarlierWrites'
  <2>1. /\ taken' = [taken EXCEPT ![w] = @ + 1] /\ pri.mode = "drain"
        /\ sub' = sub /\ cleared' = cleared /\ pri' = pri
    BY <1>9 DEF DrainApply
  <2>2. \A x \in Workers : \A i \in (taken'[x] + 1) .. Len(sub[x]) :
          i \in (taken[x] + 1) .. Len(sub[x])
    BY <1>0, <2>1 DEF PrimaryTypeOK, WorkerTypeOK
  <2> QED BY <2>1, <2>2 DEF BatchInv, ClearCoversEarlierWrites
<1>10. ASSUME NEW w \in Workers, BatchRingEmpty(w)
       PROVE  BatchInv' /\ ClearCoversEarlierWrites'
  <2>1. /\ sub' = sub /\ taken' = taken /\ cleared' = cleared /\ pri.mode = "batch"
        /\ pri'.batch = pri.batch /\ pri'.empty = pri.empty \cup {w}
        /\ taken[w] = Len(sub[w])
    BY <1>10 DEF BatchRingEmpty, PIdle, PBatch
  <2>2. \A i \in (taken[w] + 1) .. Len(sub[w]) : FALSE
    BY <1>0, <2>1 DEF PrimaryTypeOK
  <2> QED BY <2>1, <2>2 DEF BatchInv, ClearCoversEarlierWrites
<1>11. ASSUME BatchClear PROVE BatchInv' /\ ClearCoversEarlierWrites'
  <2> DEFINE b == pri.batch
  <2>1. /\ b \in Workers /\ b \in pri.empty /\ pri.mode = "batch"
        /\ pri'.mode = "idle" /\ sub' = sub /\ taken' = taken
        /\ cleared' = [cleared EXCEPT ![b] = @ + 1]
    BY <1>0, <1>11 DEF BatchClear, PositionsOK, PIdle
  <2>2. \A i \in (taken[b] + 1) .. Len(sub[b]) : sub[b][i].epoch \in Nat
    <3>1. sub[b] \in Seq(SubRec) /\ taken[b] \in Nat
      BY <1>0, <2>1 DEF WorkerTypeOK, PrimaryTypeOK
    <3>2. \A i \in (taken[b] + 1) .. Len(sub[b]) : sub[b][i] \in SubRec
      BY <3>1
    <3> QED BY <3>2 DEF SubRec
  <2>3. \A i \in (taken[b] + 1) .. Len(sub[b]) : sub[b][i].epoch >= cleared'[b]
    <3>1. cleared[b] \in Nat /\ cleared'[b] = cleared[b] + 1
      BY <1>0, <2>1 DEF PrimaryTypeOK
    <3> QED BY <2>1, <2>2, <3>1 DEF BatchInv
  <2>4. \A x \in Workers \ {b} : cleared'[x] = cleared[x]
    BY <1>0, <2>1 DEF PrimaryTypeOK
  <2> QED BY <2>1, <2>3, <2>4 DEF BatchInv, ClearCoversEarlierWrites
<1> QED
  BY <1>3, <1>4, <1>5, <1>6, <1>7, <1>8, <1>9, <1>10, <1>11 DEF Next, PrimaryStep

\* Nothing a worker submitted before its clearAll can be applied after that
\* clear, whatever the rings hold when the clear arrives.
THEOREM ClearIsNotUndone == Spec => []ClearCoversEarlierWrites
<1> DEFINE IInv == StateTypeOK /\ BatchInv /\ ClearCoversEarlierWrites
<1>1. Init => IInv
  <2>1. Init => BatchInv /\ ClearCoversEarlierWrites
    BY DEF Init, BatchInv, ClearCoversEarlierWrites, PIdle
  <2> QED BY <2>1, StateTypeInit
<1>2. IInv /\ [Next]_vars => IInv'
  BY StateTypeStep, ClearStep
<1>3. IInv => ClearCoversEarlierWrites
  OBVIOUS
<1> QED
  BY <1>1, <1>2, <1>3, PTL DEF Spec
-----------------------------------------------------------------------------
(* The marks.  A write mark leaves with the record of its write, with a    *)
(* clear, or with a reconciliation after a lap; the invariant says of each *)
(* mark which of these is still to come, and with the marks' types it is   *)
(* inductive.  What keeps some of the marks is a recursive function over   *)
(* the places of the sequence, so the facts about it come first.           *)

\* A non-empty set of numbers has a least.
LEMMA Least ==
  ASSUME NEW T, T \subseteq Nat, T # {}
  PROVE  \E x \in T : \A y \in T : x <= y
<1> DEFINE R == OpToRel(<, Nat)
<1>1. IsWellFoundedOn(R, Nat)
  BY NatLessThanWellFounded
<1>2. \A x, y \in Nat : <<y, x>> \in R <=> y < x
  BY DEF OpToRel
<1> HIDE DEF R
<1>3. PICK x \in T : \A y \in T : ~(<<y, x>> \in R)
  BY <1>1, WFMin
<1>4. \A y \in T : ~(y < x) /\ x \in Nat /\ y \in Nat
  BY <1>2, <1>3
<1> QED BY <1>4

\* One round of the function that Kept computes with, and a function of that kind.
KeepOne(s, I, f, i) ==
  IF i = 0 THEN <<>> ELSE IF i \in I THEN Append(f[i - 1], s[i]) ELSE f[i - 1]
Keeps(s, I, f) == f = [i \in 0 .. Len(s) |-> KeepOne(s, I, f, i)]

LEMMA KeepsExists ==
  ASSUME NEW s, Len(s) \in Nat, NEW I
  PROVE  \E f : Keeps(s, I, f)
<1> DEFINE n == Len(s)
           Good(m) == \E g : \A i \in 0 .. n : i < m => g[i] = KeepOne(s, I, g, i)
           Bad == {m \in Nat : ~Good(m)}
<1>1. Good(0)
  OBVIOUS
<1>2. ASSUME NEW m \in Nat, Good(m) PROVE Good(m + 1)
  <2>1. PICK g : \A i \in 0 .. n : i < m => g[i] = KeepOne(s, I, g, i)
    BY <1>2
  <2>2. PICK h : h = [i \in 0 .. n |-> KeepOne(s, I, g, i)]
    OBVIOUS
  <2>3. ASSUME NEW i \in 0 .. n, i < m + 1 PROVE h[i] = KeepOne(s, I, h, i)
    <3>1. h[i] = KeepOne(s, I, g, i)
      BY <2>2
    <3>2. CASE i = 0
      BY <3>1, <3>2 DEF KeepOne
    <3>3. CASE i # 0
      <4>1. i - 1 \in 0 .. n /\ i - 1 < m
        BY <2>3, <3>3
      <4>2. h[i - 1] = g[i - 1]
        BY <2>1, <2>2, <4>1
      <4> QED BY <3>1, <3>3, <4>2 DEF KeepOne
    <3> QED BY <3>2, <3>3
  <2> QED BY <2>3
<1>3. \A m \in Nat : Good(m)
  <2> HIDE DEF Good
  <2> SUFFICES ASSUME Bad # {} PROVE FALSE
    OBVIOUS
  <2>1. PICK m \in Bad : \A j \in Bad : m <= j
    BY Least
  <2>2. m \in Nat /\ m # 0 /\ ~Good(m)
    BY <1>1, <2>1
  <2>3. m - 1 \in Nat /\ m - 1 < m
    BY <2>2
  <2>4. Good(m - 1)
    BY <2>1, <2>3
  <2>5. Good((m - 1) + 1)
    BY <1>2, <2>3, <2>4
  <2>6. (m - 1) + 1 = m
    BY <2>2
  <2> QED BY <2>2, <2>5, <2>6
<1> HIDE DEF Good
<1>4. Good(n + 1)
  BY <1>3
<1>5. PICK g : \A i \in 0 .. n : i < n + 1 => g[i] = KeepOne(s, I, g, i)
  BY <1>4 DEF Good
<1>6. PICK h : h = [i \in 0 .. n |-> g[i]]
  OBVIOUS
<1>7. ASSUME NEW i \in 0 .. n PROVE h[i] = KeepOne(s, I, h, i)
  <2>1. h[i] = KeepOne(s, I, g, i)
    BY <1>5, <1>6
  <2>2. i # 0 => h[i - 1] = g[i - 1]
    BY <1>6
  <2> QED BY <2>1, <2>2 DEF KeepOne
<1>8. h = [i \in 0 .. n |-> KeepOne(s, I, h, i)]
  BY <1>6, <1>7
<1> QED BY <1>8 DEF Keeps

\* t is made of entries of s at places of I, each taken once.
Part(t, s, I) ==
  \E h \in [1 .. Len(t) -> 1 .. Len(s)] :
    /\ \A i \in 1 .. Len(t) : h[i] \in I /\ t[i] = s[h[i]]
    /\ \A i, j \in 1 .. Len(t) : h[i] = h[j] => i = j

LEMMA KeptPart ==
  ASSUME NEW S, NEW s \in Seq(S), NEW I
  PROVE  /\ Kept(s, I) \in Seq(S) /\ Len(Kept(s, I)) <= Len(s)
         /\ \A m \in Nat : I \subseteq 1 .. m => Len(Kept(s, I)) <= m
         /\ Part(Kept(s, I), s, I)
<1> DEFINE n == Len(s)
           f == CHOOSE f : Keeps(s, I, f)
<1>0. n \in Nat
  OBVIOUS
<1>1. Kept(s, I) = f[n]
  BY DEF Kept, Keeps, KeepOne
<1>2. Keeps(s, I, f)
  <2>1. \E g : Keeps(s, I, g)
    BY <1>0, KeepsExists
  <2> QED BY <2>1
<1>3. \A i \in 0 .. n : f[i] = KeepOne(s, I, f, i)
  BY <1>2 DEF Keeps
<1> HIDE DEF f
<1> DEFINE Fits(t, i) ==
             /\ t \in Seq(S) /\ Len(t) <= i
             /\ \A m \in Nat : I \subseteq 1 .. m => Len(t) <= m
             /\ \E h \in [1 .. Len(t) -> 1 .. i] :
                  /\ \A j \in 1 .. Len(t) : h[j] \in I /\ t[j] = s[h[j]]
                  /\ \A j, k \in 1 .. Len(t) : h[j] = h[k] => j = k
           Good(i) == i <= n => Fits(f[i], i)
           Bad == {i \in Nat : ~Good(i)}
<1>4. Good(0)
  <2>1. f[0] = <<>>
    BY <1>0, <1>3 DEF KeepOne
  <2>2. PICK h : h = [j \in 1 .. 0 |-> 0]
    OBVIOUS
  <2>3. PICK t : t = <<>>
    OBVIOUS
  <2>4. t \in Seq(S) /\ Len(t) = 0
    BY <2>3
  <2>5. h \in [1 .. Len(t) -> 1 .. 0]
    BY <2>2, <2>4
  <2>6. \A j \in 1 .. Len(t) : FALSE
    BY <2>4
  <2>7. Fits(t, 0)
    <3>1. /\ \A j \in 1 .. Len(t) : h[j] \in I /\ t[j] = s[h[j]]
          /\ \A j, k \in 1 .. Len(t) : h[j] = h[k] => j = k
      BY <2>6
    <3>2. t \in Seq(S) /\ Len(t) <= 0
      BY <2>4
    <3>3. \A m \in Nat : Len(t) <= m
      BY <2>4
    <3> QED BY <2>5, <3>1, <3>2, <3>3
  <2> HIDE DEF Fits
  <2> QED BY <2>1, <2>3, <2>7
<1>5. ASSUME NEW i \in Nat, Good(i) PROVE Good(i + 1)
  <2> SUFFICES ASSUME i + 1 <= n PROVE Fits(f[i + 1], i + 1)
    OBVIOUS
  <2>1. PICK t : t = f[i]
    OBVIOUS
  <2>2. /\ t \in Seq(S) /\ Len(t) <= i /\ Len(t) \in Nat
        /\ \A m \in Nat : I \subseteq 1 .. m => Len(t) <= m
    BY <1>5, <2>1
  <2>3. PICK h \in [1 .. Len(t) -> 1 .. i] :
          /\ \A j \in 1 .. Len(t) : h[j] \in I /\ t[j] = s[h[j]]
          /\ \A j, k \in 1 .. Len(t) : h[j] = h[k] => j = k
    BY <1>5, <2>1
  <2>4. f[i + 1] = IF i + 1 \in I THEN Append(t, s[i + 1]) ELSE t
    <3>1. i + 1 \in 0 .. n /\ (i + 1) - 1 = i /\ i + 1 # 0
      BY <1>0
    <3>2. f[i + 1] = KeepOne(s, I, f, i + 1)
      BY <1>3, <3>1
    <3> QED BY <2>1, <3>1, <3>2 DEF KeepOne
  <2>5. CASE i + 1 \notin I
    <3>1. h \in [1 .. Len(t) -> 1 .. (i + 1)]
      BY <2>3
    <3>2. Fits(t, i + 1)
      BY <2>2, <2>3, <3>1
    <3> HIDE DEF Fits
    <3> QED BY <2>4, <2>5, <3>2
  <2>6. CASE i + 1 \in I
    <3>1. PICK u : u = Append(t, s[i + 1])
      OBVIOUS
    <3>2. s[i + 1] \in S
      BY <1>0
    <3>3. /\ u \in Seq(S) /\ Len(u) = Len(t) + 1 /\ u[Len(t) + 1] = s[i + 1]
          /\ \A j \in 1 .. Len(t) : u[j] = t[j]
      BY <2>2, <3>1, <3>2
    <3>4. PICK e : e = [j \in 1 .. Len(u) |-> IF j = Len(t) + 1 THEN i + 1 ELSE h[j]]
      OBVIOUS
    <3>5. e \in [1 .. Len(u) -> 1 .. (i + 1)]
      <4>1. \A j \in 1 .. Len(u) : e[j] \in 1 .. (i + 1)
        <5> SUFFICES ASSUME NEW j \in 1 .. Len(u) PROVE e[j] \in 1 .. (i + 1)
          OBVIOUS
        <5>1. CASE j = Len(t) + 1
          BY <3>4, <5>1
        <5>2. CASE j # Len(t) + 1
          <6>1. j \in 1 .. Len(t)
            BY <2>2, <3>3, <5>2
          <6>2. h[j] \in 1 .. i
            BY <2>3, <6>1
          <6> QED BY <3>4, <5>2, <6>2
        <5> QED BY <5>1, <5>2
      <4> QED BY <3>4, <4>1
    <3>6. ASSUME NEW j \in 1 .. Len(u) PROVE e[j] \in I /\ u[j] = s[e[j]]
      <4>1. CASE j = Len(t) + 1
        BY <2>6, <3>3, <3>4, <4>1
      <4>2. CASE j # Len(t) + 1
        <5>1. j \in 1 .. Len(t)
          BY <2>2, <3>3, <4>2
        <5> QED BY <2>3, <3>3, <3>4, <4>2, <5>1
      <4> QED BY <4>1, <4>2
    <3>7. ASSUME NEW j \in 1 .. Len(u), NEW k \in 1 .. Len(u), e[j] = e[k] PROVE j = k
      <4>1. \A x \in 1 .. Len(u) : x # Len(t) + 1 =>
              x \in 1 .. Len(t) /\ e[x] = h[x] /\ h[x] \in 1 .. i
        <5> SUFFICES ASSUME NEW x \in 1 .. Len(u), x # Len(t) + 1
                     PROVE  x \in 1 .. Len(t) /\ e[x] = h[x] /\ h[x] \in 1 .. i
          OBVIOUS
        <5>1. x \in 1 .. Len(t)
          BY <2>2, <3>3
        <5> QED BY <2>3, <3>4, <5>1
      <4>2. \A x \in 1 .. Len(u) : x = Len(t) + 1 => e[x] = i + 1
        BY <3>4
      <4>3. CASE j = Len(t) + 1 /\ k = Len(t) + 1
        BY <4>3
      <4>4. CASE j # Len(t) + 1 /\ k # Len(t) + 1
        BY <2>3, <3>7, <4>1, <4>4
      <4>5. CASE j = Len(t) + 1 /\ k # Len(t) + 1
        <5>1. e[j] = i + 1 /\ e[k] \in 1 .. i
          BY <4>1, <4>2, <4>5
        <5> QED BY <3>7, <5>1
      <4>6. CASE j # Len(t) + 1 /\ k = Len(t) + 1
        <5>1. e[k] = i + 1 /\ e[j] \in 1 .. i
          BY <4>1, <4>2, <4>6
        <5> QED BY <3>7, <5>1
      <4> QED BY <4>3, <4>4, <4>5, <4>6
    <3>8. Len(u) <= i + 1
      BY <2>2, <3>3
    <3>9. \A m \in Nat : I \subseteq 1 .. m => Len(u) <= m
      <4> SUFFICES ASSUME NEW m \in Nat, I \subseteq 1 .. m PROVE Len(u) <= m
        OBVIOUS
      <4>1. i + 1 <= m
        BY <2>6
      <4> QED BY <2>2, <3>8, <3>3, <4>1
    <3>10. Fits(u, i + 1)
      BY <3>3, <3>5, <3>6, <3>7, <3>8, <3>9
    <3> HIDE DEF Fits
    <3> QED BY <2>4, <2>6, <3>1, <3>10
  <2> QED BY <2>5, <2>6
<1>6. \A i \in Nat : Good(i)
  <2> HIDE DEF Fits
  <2> SUFFICES ASSUME Bad # {} PROVE FALSE
    OBVIOUS
  <2>1. PICK m \in Bad : \A j \in Bad : m <= j
    BY Least
  <2>2. m \in Nat /\ m # 0 /\ ~Good(m)
    BY <1>4, <2>1
  <2>3. m - 1 \in Nat /\ m - 1 < m
    BY <2>2
  <2>4. Good(m - 1)
    BY <2>1, <2>3
  <2>5. Good((m - 1) + 1)
    BY <1>5, <2>3, <2>4
  <2>6. (m - 1) + 1 = m
    BY <2>2
  <2> QED BY <2>2, <2>5, <2>6
<1>7. Fits(f[n], n)
  <2> HIDE DEF Fits
  <2> QED BY <1>0, <1>6
<1>8. PICK t : t = f[n]
  OBVIOUS
<1>9. Fits(t, n)
  <2> HIDE DEF Fits
  <2> QED BY <1>7, <1>8
<1>10. /\ t \in Seq(S) /\ Len(t) <= n
       /\ \A m \in Nat : I \subseteq 1 .. m => Len(t) <= m
       /\ \E h \in [1 .. Len(t) -> 1 .. n] :
            /\ \A j \in 1 .. Len(t) : h[j] \in I /\ t[j] = s[h[j]]
            /\ \A j, k \in 1 .. Len(t) : h[j] = h[k] => j = k
  BY <1>9, Zenon
<1>11. Part(t, s, I)
  BY <1>10, Zenon DEF Part
<1> HIDE DEF Fits, Good
<1> QED BY <1>1, <1>8, <1>10, <1>11

\* Marks of one worker: within the bound, and one for a key at most.
GoodMarks(s) ==
  /\ s \in Seq(Mark) /\ Len(s) <= MarkMax
  /\ \A i, j \in DOMAIN s : s[i].key = s[j].key => i = j

\* Every mark of t is one of s.
Within(t, s) == \A i \in DOMAIN t : \E j \in DOMAIN s : t[i] = s[j]

\* Keeping some of the marks leaves them good.
LEMMA KeptGood ==
  ASSUME NEW s, GoodMarks(s), NEW I
  PROVE  /\ GoodMarks(Kept(s, I)) /\ Within(Kept(s, I), s)
         /\ \A i \in DOMAIN Kept(s, I) : \E j \in DOMAIN s : j \in I /\ Kept(s, I)[i] = s[j]
<1>1. PICK t : t = Kept(s, I)
  OBVIOUS
<1>2. s \in Seq(Mark) /\ Len(s) <= MarkMax /\ Len(s) \in Nat /\ MarkMax \in Nat
  BY ConstantsAssumption DEF GoodMarks
<1>3. t \in Seq(Mark) /\ Len(t) <= Len(s) /\ Len(t) \in Nat /\ Part(t, s, I)
  BY <1>1, <1>2, KeptPart
<1>4. PICK h \in [1 .. Len(t) -> 1 .. Len(s)] :
        /\ \A i \in 1 .. Len(t) : h[i] \in I /\ t[i] = s[h[i]]
        /\ \A i, j \in 1 .. Len(t) : h[i] = h[j] => i = j
  BY <1>3 DEF Part
<1>5. DOMAIN t = 1 .. Len(t) /\ DOMAIN s = 1 .. Len(s)
  BY <1>2, <1>3
<1>6. ASSUME NEW i \in DOMAIN t, NEW j \in DOMAIN t, t[i].key = t[j].key PROVE i = j
  <2>1. h[i] \in DOMAIN s /\ h[j] \in DOMAIN s /\ s[h[i]].key = s[h[j]].key
    BY <1>4, <1>5, <1>6
  <2>2. h[i] = h[j]
    BY <2>1 DEF GoodMarks
  <2> QED BY <1>4, <1>5, <2>2
<1>7. GoodMarks(t)
  BY <1>2, <1>3, <1>6 DEF GoodMarks
<1>8. \A i \in DOMAIN t : \E j \in DOMAIN s : j \in I /\ t[i] = s[j]
  BY <1>4, <1>5
<1> QED BY <1>1, <1>7, <1>8 DEF Within

\* A new mark replaces the one of its key, and at the bound the oldest.
LEMMA MarkAddGood ==
  ASSUME NEW s, GoodMarks(s), NEW m \in Mark
  PROVE  /\ GoodMarks(MarkAdd(s, m))
         /\ \A i \in DOMAIN MarkAdd(s, m) :
              \/ MarkAdd(s, m)[i] = m
              \/ \E j \in DOMAIN s : MarkAdd(s, m)[i] = s[j]
<1>1. PICK t : t = MarkRelease(s, m.key)
  OBVIOUS
<1>2. GoodMarks(t) /\ \A i \in DOMAIN t : \E j \in DOMAIN s : s[j].key # m.key /\ t[i] = s[j]
  <2>1. PICK I : I = {i \in DOMAIN s : s[i].key # m.key}
    OBVIOUS
  <2>2. t = Kept(s, I)
    BY <1>1, <2>1 DEF MarkRelease
  <2>3. GoodMarks(t) /\ \A i \in DOMAIN t : \E j \in DOMAIN s : j \in I /\ t[i] = s[j]
    <3>1. /\ GoodMarks(Kept(s, I))
          /\ \A i \in DOMAIN Kept(s, I) : \E j \in DOMAIN s : j \in I /\ Kept(s, I)[i] = s[j]
      BY KeptGood
    <3> QED BY <2>2, <3>1
  <2> QED BY <2>1, <2>3
<1>3. PICK u : u = IF Len(t) >= MarkMax THEN Tail(t) ELSE t
  OBVIOUS
<1>4. MarkMax \in Nat \ {0} /\ t \in Seq(Mark) /\ Len(t) \in Nat /\ Len(t) <= MarkMax
  BY <1>2, ConstantsAssumption DEF GoodMarks
<1>5. /\ u \in Seq(Mark) /\ Len(u) < MarkMax /\ Len(u) \in Nat
      /\ \E d \in {0, 1} : \A i \in 1 .. Len(u) : i + d \in 1 .. Len(t) /\ u[i] = t[i + d]
  <2>1. CASE Len(t) >= MarkMax
    <3>1. u = Tail(t) /\ Len(t) # 0
      BY <1>3, <1>4, <2>1
    <3>2. t # <<>>
      BY <3>1
    <3>3. /\ u \in Seq(Mark) /\ Len(u) = Len(t) - 1
          /\ \A i \in 1 .. Len(u) : u[i] = t[i + 1]
      BY <1>4, <3>1, <3>2
    <3>4. \A i \in 1 .. Len(u) : i + 1 \in 1 .. Len(t)
      BY <1>4, <3>3
    <3> QED BY <1>4, <3>1, <3>3, <3>4
  <2>2. CASE Len(t) < MarkMax
    <3>1. u = t
      BY <1>3, <1>4, <2>2
    <3>2. \A i \in 1 .. Len(u) : i + 0 = i
      BY <1>4, <3>1
    <3> QED BY <1>4, <2>2, <3>1, <3>2
  <2> QED BY <1>4, <2>1, <2>2
<1>6. PICK d \in {0, 1} : \A i \in 1 .. Len(u) : i + d \in 1 .. Len(t) /\ u[i] = t[i + d]
  BY <1>5
<1>7. PICK v : v = Append(u, m)
  OBVIOUS
<1>8. /\ v \in Seq(Mark) /\ Len(v) = Len(u) + 1 /\ v[Len(u) + 1] = m
      /\ \A i \in 1 .. Len(u) : v[i] = u[i]
      /\ DOMAIN v = 1 .. Len(v) /\ DOMAIN t = 1 .. Len(t)
  BY <1>4, <1>5, <1>7
<1>9. \A i \in 1 .. Len(u) : /\ v[i] = t[i + d] /\ i + d \in DOMAIN t /\ v[i].key # m.key
                             /\ \E j \in DOMAIN s : v[i] = s[j]
  <2> SUFFICES ASSUME NEW i \in 1 .. Len(u)
               PROVE  /\ v[i] = t[i + d] /\ i + d \in DOMAIN t /\ v[i].key # m.key
                      /\ \E j \in DOMAIN s : v[i] = s[j]
    OBVIOUS
  <2>1. v[i] = t[i + d] /\ i + d \in DOMAIN t
    BY <1>6, <1>8
  <2>2. PICK j \in DOMAIN s : s[j].key # m.key /\ t[i + d] = s[j]
    BY <1>2, <2>1
  <2> QED BY <2>1, <2>2
<1>10. ASSUME NEW i \in DOMAIN v, NEW j \in DOMAIN v, v[i].key = v[j].key PROVE i = j
  <2>0. /\ i \in 1 .. (Len(u) + 1) /\ j \in 1 .. (Len(u) + 1)
        /\ i # Len(u) + 1 => i \in 1 .. Len(u)
        /\ j # Len(u) + 1 => j \in 1 .. Len(u)
    BY <1>5, <1>8
  <2>1. CASE i = Len(u) + 1 \/ j = Len(u) + 1
    BY <1>8, <1>9, <1>10, <2>0, <2>1
  <2>2. CASE i \in 1 .. Len(u) /\ j \in 1 .. Len(u)
    <3>1. i + d \in DOMAIN t /\ j + d \in DOMAIN t /\ t[i + d].key = t[j + d].key
      BY <1>9, <1>10, <2>2
    <3>2. i + d = j + d
      BY <1>2, <3>1 DEF GoodMarks
    <3> QED BY <2>2, <3>2
  <2> QED BY <2>0, <2>1, <2>2
<1>11. GoodMarks(v)
  BY <1>4, <1>5, <1>8, <1>10 DEF GoodMarks
<1>12. \A i \in DOMAIN v : v[i] = m \/ \E j \in DOMAIN s : v[i] = s[j]
  <2> SUFFICES ASSUME NEW i \in DOMAIN v, v[i] # m PROVE \E j \in DOMAIN s : v[i] = s[j]
    OBVIOUS
  <2>1. i \in 1 .. Len(u)
    BY <1>5, <1>8
  <2> QED BY <1>9, <2>1
<1>13. v = MarkAdd(s, m)
  BY <1>1, <1>3, <1>7 DEF MarkAdd
<1> QED BY <1>11, <1>12, <1>13

\* What is behind the slice, and what is kept of the slice behind that.
LEMMA RestGood ==
  ASSUME NEW s, GoodMarks(s), NEW I \in SUBSET (DOMAIN Slice(s))
  PROVE  /\ GoodMarks(AfterSlice(s) \o Kept(s, I))
         /\ Within(AfterSlice(s) \o Kept(s, I), s)
         /\ Len(Slice(s)) \in Nat
<1>1. PICK n : n = Len(s)
  OBVIOUS
<1>2. s \in Seq(Mark) /\ n \in Nat /\ n <= MarkMax /\ MarkMax \in Nat /\ MarkScan \in Nat
  BY <1>1, ConstantsAssumption DEF GoodMarks
<1>3. PICK a : a = IF Len(s) < MarkScan THEN Len(s) ELSE MarkScan
  OBVIOUS
<1>4. a \in Nat /\ a <= n
  BY <1>1, <1>2, <1>3
<1>5. Slice(s) = SubSeq(s, 1, a)
  BY <1>3 DEF Slice
<1>6. Len(SubSeq(s, 1, a)) = a /\ DOMAIN SubSeq(s, 1, a) = 1 .. a
  BY <1>1, <1>2, <1>4
<1>7. PICK b : b = AfterSlice(s)
  OBVIOUS
<1>8. b = SubSeq(s, a + 1, n)
  BY <1>1, <1>5, <1>6, <1>7 DEF AfterSlice
<1>9. /\ b \in Seq(Mark) /\ Len(b) = n - a
      /\ \A i \in 1 .. (n - a) : b[i] = s[i + a]
  BY <1>1, <1>2, <1>4, <1>8
<1>10. PICK t : t = Kept(s, I)
  OBVIOUS
<1>11. I \subseteq 1 .. a
  BY <1>5, <1>6
<1>12. t \in Seq(Mark) /\ Len(t) <= a /\ Len(t) \in Nat
  <2>1. /\ t \in Seq(Mark) /\ Len(t) <= Len(s)
        /\ \A m \in Nat : I \subseteq 1 .. m => Len(t) <= m
    BY <1>2, <1>10, KeptPart, Zenon
  <2> QED BY <1>4, <1>11, <2>1
<1>13. GoodMarks(t) /\ \A i \in DOMAIN t : \E j \in DOMAIN s : j \in I /\ t[i] = s[j]
  BY <1>10, KeptGood
<1>14. PICK v : v = b \o t
  OBVIOUS
<1>15. /\ v \in Seq(Mark) /\ Len(v) = (n - a) + Len(t)
       /\ \A i \in 1 .. (n - a) : v[i] = b[i]
       /\ \A i \in 1 .. Len(t) : v[(n - a) + i] = t[i]
       /\ DOMAIN v = 1 .. ((n - a) + Len(t)) /\ DOMAIN t = 1 .. Len(t) /\ DOMAIN s = 1 .. n
  <2>1. Len(b) \in Nat /\ n - a \in Nat
    BY <1>2, <1>4, <1>9
  <2>2. /\ v \in Seq(Mark) /\ Len(v) = Len(b) + Len(t)
        /\ \A i \in 1 .. (Len(b) + Len(t)) :
             v[i] = IF i <= Len(b) THEN b[i] ELSE t[i - Len(b)]
    BY <1>9, <1>12, <1>14, ConcatProperties
  <2>3. \A i \in 1 .. Len(b) : v[i] = b[i]
    BY <1>12, <2>1, <2>2
  <2>4. \A i \in 1 .. Len(t) : v[Len(b) + i] = t[i]
    <3> SUFFICES ASSUME NEW i \in 1 .. Len(t) PROVE v[Len(b) + i] = t[i]
      OBVIOUS
    <3>1. /\ Len(b) + i \in 1 .. (Len(b) + Len(t)) /\ ~(Len(b) + i <= Len(b))
          /\ (Len(b) + i) - Len(b) = i
      BY <1>12, <2>1
    <3> QED BY <2>2, <3>1
  <2> QED BY <1>1, <1>2, <1>9, <1>12, <2>1, <2>2, <2>3, <2>4
<1>16. ASSUME NEW i \in DOMAIN v
       PROVE  \/ i \in 1 .. (n - a) /\ v[i] = s[i + a] /\ i + a \in DOMAIN s
              \/ /\ i - (n - a) \in DOMAIN t /\ v[i] = t[i - (n - a)]
                 /\ \E j \in DOMAIN s : j \in I /\ v[i] = s[j]
  <2>1. CASE i \in 1 .. (n - a)
    BY <1>2, <1>4, <1>9, <1>15, <2>1
  <2>2. CASE i \notin 1 .. (n - a)
    <3>1. i - (n - a) \in 1 .. Len(t) /\ (n - a) + (i - (n - a)) = i
      BY <1>2, <1>4, <1>12, <1>15, <2>2
    <3> QED BY <1>13, <1>15, <3>1
  <2> QED BY <2>1, <2>2
<1>17. ASSUME NEW i \in DOMAIN v, NEW j \in DOMAIN v, v[i].key = v[j].key PROVE i = j
  <2>0. /\ \A p, q \in DOMAIN s : s[p].key = s[q].key => p = q
        /\ \A p, q \in DOMAIN t : t[p].key = t[q].key => p = q
    BY <1>13 DEF GoodMarks
  <2>00. i \in Int /\ j \in Int /\ n - a \in Int
    BY <1>2, <1>4, <1>15
  <2>1. CASE v[i] = s[i + a] /\ i + a \in DOMAIN s /\ v[j] = s[j + a] /\ j + a \in DOMAIN s
    <3>1. i + a = j + a
      BY <1>17, <2>0, <2>1
    <3> QED BY <1>4, <2>00, <3>1
  <2>2. CASE /\ i - (n - a) \in DOMAIN t /\ v[i] = t[i - (n - a)]
             /\ j - (n - a) \in DOMAIN t /\ v[j] = t[j - (n - a)]
    <3>1. i - (n - a) = j - (n - a)
      BY <1>17, <2>0, <2>2
    <3> QED BY <2>00, <3>1
  <2>3. ASSUME NEW p \in DOMAIN v, NEW q \in DOMAIN v, v[p].key = v[q].key,
               p \in 1 .. (n - a), v[p] = s[p + a], p + a \in DOMAIN s,
               NEW e \in DOMAIN s, e \in I, v[q] = s[e]
        PROVE  FALSE
    <3>1. p + a = e
      BY <2>0, <2>3
    <3>2. e \in 1 .. a
      BY <1>11, <2>3
    <3> QED BY <1>4, <2>3, <3>1, <3>2
  <2> QED BY <1>16, <1>17, <2>1, <2>2, <2>3
<1>18. GoodMarks(v)
  <2>1. Len(v) <= MarkMax
    BY <1>2, <1>4, <1>12, <1>15
  <2> QED BY <1>15, <1>17, <2>1 DEF GoodMarks
<1>19. Within(v, s)
  BY <1>16 DEF Within
<1>20. Len(Slice(s)) \in Nat
  BY <1>4, <1>5, <1>6
<1> QED BY <1>7, <1>10, <1>14, <1>18, <1>19, <1>20

LEMMA NoMarksGood == GoodMarks(<<>>)
<1>1. PICK t : t = <<>>
  OBVIOUS
<1>2. t \in Seq(Mark) /\ Len(t) = 0 /\ DOMAIN t = {}
  BY <1>1
<1>3. GoodMarks(t)
  BY <1>2, ConstantsAssumption DEF GoodMarks
<1> QED BY <1>1, <1>3

\* A reconciliation only takes marks away, and counts what it leaves.
LEMMA ReconcileGood ==
  ASSUME NEW s, GoodMarks(s), NEW w, NEW n \in Nat
  PROVE  /\ GoodMarks(ReconcileRemovals(s)) /\ RemovalsLeft(n, s) \in Nat
         /\ GoodMarks(ReconcileWrites(s, w)) /\ Within(ReconcileWrites(s, w), s)
         /\ WritesLeft(n, s, w) = Len(ReconcileWrites(s, w))
         /\ WritesLeft(n, s, w) \in Nat
<1>1. PICK I : I = {i \in DOMAIN Slice(s) : arena[s[i].key] # NoVal}
  OBVIOUS
<1>2. ReconcileRemovals(s) = AfterSlice(s) \o Kept(s, I) /\ I \in SUBSET (DOMAIN Slice(s))
  BY <1>1 DEF ReconcileRemovals
<1>3. GoodMarks(ReconcileRemovals(s)) /\ Len(Slice(s)) \in Nat
  BY <1>2, RestGood
<1>4. RemovalsLeft(n, s) \in Nat
  BY <1>3 DEF RemovalsLeft
<1>5. PICK J : J = {i \in DOMAIN Slice(s) : tail[w] < s[i].sub}
  OBVIOUS
<1>6. ReconcileWrites(s, w) = AfterSlice(s) \o Kept(s, J) /\ J \in SUBSET (DOMAIN Slice(s))
  BY <1>5 DEF ReconcileWrites
<1>7. GoodMarks(ReconcileWrites(s, w)) /\ Within(ReconcileWrites(s, w), s)
  BY <1>6, RestGood
<1>8. WritesLeft(n, s, w) = Len(ReconcileWrites(s, w))
  BY DEF WritesLeft
<1>9. WritesLeft(n, s, w) \in Nat
  BY <1>7, <1>8 DEF GoodMarks
<1> QED BY <1>3, <1>4, <1>7, <1>8, <1>9

\* The records of a read take away the marks they are at or past, and no other.
LEMMA UnmatchedGood ==
  ASSUME NEW s, GoodMarks(s), NEW r
  PROVE  /\ GoodMarks(Unmatched(s, r)) /\ Within(Unmatched(s, r), s)
         /\ \A i \in DOMAIN Unmatched(s, r) :
              ~ \E p \in Positions(r) :
                  /\ ring[p + 1].key = Unmatched(s, r)[i].key
                  /\ p >= Unmatched(s, r)[i].at
<1>1. PICK I : I = {i \in DOMAIN s :
        ~ \E p \in Positions(r) : ring[p + 1].key = s[i].key /\ p >= s[i].at}
  OBVIOUS
<1>2. PICK t : t = Unmatched(s, r)
  OBVIOUS
<1>3. t = Kept(s, I)
  BY <1>1, <1>2 DEF Unmatched
<1>4. /\ GoodMarks(t) /\ Within(t, s)
      /\ \A i \in DOMAIN t : \E j \in DOMAIN s : j \in I /\ t[i] = s[j]
  <2>1. /\ GoodMarks(Kept(s, I)) /\ Within(Kept(s, I), s)
        /\ \A i \in DOMAIN Kept(s, I) : \E j \in DOMAIN s : j \in I /\ Kept(s, I)[i] = s[j]
    BY KeptGood
  <2> QED BY <1>3, <2>1
<1>5. ASSUME NEW i \in DOMAIN t
      PROVE  ~ \E p \in Positions(r) : ring[p + 1].key = t[i].key /\ p >= t[i].at
  <2>1. PICK j \in DOMAIN s : j \in I /\ t[i] = s[j]
    BY <1>4
  <2> QED BY <1>1, <2>1
<1> QED BY <1>2, <1>4, <1>5

\* The marks and their counters are of their types.
MarkTypes ==
  /\ pendingDel \in [Workers -> Seq(Mark)] /\ pendingWrite \in [Workers -> Seq(Mark)]
  /\ delOwed \in [Workers -> Nat] /\ writeOwed \in [Workers -> Nat]
  /\ \A x \in Workers : GoodMarks(pendingDel[x]) /\ GoodMarks(pendingWrite[x])

\* A write mark names a record its worker pushed, and a place the ring has had.
MarkNames(x, m) ==
  /\ m.sub \in 1 .. Len(sub[x]) /\ sub[x][m.sub].key = m.key
  /\ m.at <= RingHead

\* The write is to be applied yet, or its mark to be judged, or its record to be met.
MarkAlive(x, m) ==
  taken[x] < m.sub \/ writeOwed[x] > 0 \/ Doomed(m.key, cursor[x], m.at)

MarkFine(x, m) == MarkNames(x, m) /\ MarkAlive(x, m)
MarksFine == \A x \in Workers : \A i \in DOMAIN pendingWrite[x] :
               MarkFine(x, pendingWrite[x][i])

\* The place a write read before its submission is one the ring has had.
PushPlace == \A x \in Workers : wpc[x].op = "push" => wpc[x].at <= RingHead

MarkInv == StateTypeOK /\ MarkTypes /\ MarksFine /\ PushPlace

\* A step that writes one worker's marks leaves them all of their types.
LEMMA MarkTypesStep ==
  ASSUME MarkTypes, NEW w \in Workers,
         NEW d, NEW p, NEW n \in Nat, NEW q \in Nat, GoodMarks(d), GoodMarks(p),
         pendingDel' = [pendingDel EXCEPT ![w] = d],
         pendingWrite' = [pendingWrite EXCEPT ![w] = p],
         delOwed' = [delOwed EXCEPT ![w] = n],
         writeOwed' = [writeOwed EXCEPT ![w] = q]
  PROVE  MarkTypes'
<1>1. d \in Seq(Mark) /\ p \in Seq(Mark)
  BY DEF GoodMarks
<1>2. /\ pendingDel' \in [Workers -> Seq(Mark)] /\ pendingWrite' \in [Workers -> Seq(Mark)]
      /\ delOwed' \in [Workers -> Nat] /\ writeOwed' \in [Workers -> Nat]
  BY <1>1 DEF MarkTypes
<1>3. \A x \in Workers : /\ pendingDel'[x] = IF x = w THEN d ELSE pendingDel[x]
                         /\ pendingWrite'[x] = IF x = w THEN p ELSE pendingWrite[x]
  BY DEF MarkTypes
<1>4. \A x \in Workers : GoodMarks(pendingDel'[x]) /\ GoodMarks(pendingWrite'[x])
  BY <1>3 DEF MarkTypes
<1> QED BY <1>2, <1>4 DEF MarkTypes

\* A mark stays fine when nothing it is compared with changes for its worker.
LEMMA MarkFineKept ==
  ASSUME StateTypeOK, NEW x \in Workers, NEW m \in Mark, MarkFine(x, m),
         ring' = ring, owed' = owed, taken' = taken,
         cursor'[x] = cursor[x], writeOwed'[x] = writeOwed[x],
         Len(sub'[x]) \in Nat, Len(sub[x]) <= Len(sub'[x]),
         \A i \in 1 .. Len(sub[x]) : sub'[x][i] = sub[x][i]
  PROVE  MarkFine(x, m)'
<1>1. Len(sub[x]) \in Nat
  BY DEF StateTypeOK, WorkerTypeOK
<1>2. MarkNames(x, m)'
  BY <1>1 DEF MarkFine, MarkNames, RingHead
<1>3. Doomed(m.key, cursor[x], m.at) => Doomed(m.key, cursor[x], m.at)'
  BY DEF Doomed, Lapped, RingHead
<1>4. MarkAlive(x, m)'
  BY <1>3 DEF MarkFine, MarkAlive
<1> QED BY <1>2, <1>4 DEF MarkFine

\* A drain keeps every mark fine that it does not take away.
LEMMA DrainMarks ==
  ASSUME MarkInv, NEW w \in Workers, NEW h \in HeadsSeen(cursor[w]), Drain(w, h),
         UNCHANGED primaryVars, sub' = sub
  PROVE  MarkTypes' /\ MarksFine'
<1>1. PICK s : s = pendingWrite[w]
  OBVIOUS
<1>2. PICK b : b = pendingDel[w]
  OBVIOUS
<1>3. GoodMarks(s) /\ GoodMarks(b) /\ writeOwed[w] \in Nat /\ delOwed[w] \in Nat
  BY <1>1, <1>2 DEF MarkInv, MarkTypes
<1>4. PICK s0 : s0 = IF writeOwed[w] > 0 THEN ReconcileWrites(s, w) ELSE s
  OBVIOUS
<1>5. PICK b0 : b0 = IF delOwed[w] > 0 THEN ReconcileRemovals(b) ELSE b
  OBVIOUS
<1>6. GoodMarks(s0) /\ GoodMarks(b0) /\ Within(s0, s)
  <2>1. Within(s, s)
    BY DEF Within
  <2>2. /\ GoodMarks(ReconcileRemovals(b))
        /\ GoodMarks(ReconcileWrites(s, w)) /\ Within(ReconcileWrites(s, w), s)
    <3>1. 0 \in Nat
      OBVIOUS
    <3> QED BY <1>3, <3>1, ReconcileGood
  <2> QED BY <1>3, <1>4, <1>5, <2>1, <2>2
<1>7. PICK r : r = RingRead(cursor[w], h, ReadMax)
  OBVIOUS
<1>8. PICK quiet \in BOOLEAN : quiet <=> RingHead = cursor[w]
  OBVIOUS
<1>9. PICK flush \in BOOLEAN : flush <=> ~r.wrapped /\ HasFlush(r)
  OBVIOUS
<1>10. PICK s1 : s1 = IF quiet THEN s0 ELSE IF r.wrapped THEN ReconcileWrites(s0, w)
                      ELSE IF flush THEN <<>> ELSE Unmatched(s0, r)
  OBVIOUS
<1>11. PICK b1 : b1 = IF quiet THEN b0 ELSE IF r.wrapped THEN ReconcileRemovals(b0)
                      ELSE IF flush THEN <<>> ELSE Unmatched(b0, r)
  OBVIOUS
<1>12. PICK q : q = IF ~quiet /\ r.wrapped THEN Len(s1)
                    ELSE IF writeOwed[w] > 0 THEN Len(s0) ELSE 0
  OBVIOUS
<1>13. PICK n : n = IF ~quiet /\ r.wrapped THEN RemovalsLeft(Len(b0), b0)
                    ELSE IF delOwed[w] > 0 THEN RemovalsLeft(delOwed[w], b) ELSE 0
  OBVIOUS
<1>14. GoodMarks(s1) /\ GoodMarks(b1) /\ Within(s1, s0)
  <2>1. Len(b0) \in Nat
    BY <1>6 DEF GoodMarks
  <2>2. Within(s0, s0) /\ Within(<<>>, s0)
    BY DEF Within
  <2> QED BY <1>6, <1>10, <1>11, <2>1, <2>2, ReconcileGood, UnmatchedGood, NoMarksGood
<1>15. n \in Nat /\ q \in Nat
  <2>1. Len(b0) \in Nat /\ Len(s0) \in Nat /\ Len(s1) \in Nat
    BY <1>6, <1>14 DEF GoodMarks
  <2>2. RemovalsLeft(Len(b0), b0) \in Nat /\ RemovalsLeft(delOwed[w], b) \in Nat
    BY <1>3, <1>6, <2>1, ReconcileGood
  <2> QED BY <1>12, <1>13, <2>1, <2>2
<1>16. /\ pendingDel' = [pendingDel EXCEPT ![w] = b1]
       /\ pendingWrite' = [pendingWrite EXCEPT ![w] = s1]
       /\ delOwed' = [delOwed EXCEPT ![w] = n]
       /\ writeOwed' = [writeOwed EXCEPT ![w] = q]
  BY <1>1, <1>2, <1>4, <1>5, <1>7, <1>8, <1>9, <1>10, <1>11, <1>12, <1>13
     DEF Drain, WritesLeft
<1>17. cursor' = [cursor EXCEPT ![w] = IF quiet THEN @ ELSE r.to]
  BY <1>7, <1>8 DEF Drain
<1>18. MarkTypes'
  <2>1. MarkTypes
    BY DEF MarkInv
  <2> QED BY <1>14, <1>15, <1>16, <2>1, MarkTypesStep
<1>19. ASSUME NEW x \in Workers, NEW i \in DOMAIN pendingWrite'[x]
       PROVE  MarkFine(x, pendingWrite[x][i])'
  <2>0. /\ ring' = ring /\ owed' = owed /\ taken' = taken /\ RingHead' = RingHead
        /\ StateTypeOK /\ MarkTypes /\ Len(sub[x]) \in Nat
    BY DEF primaryVars, RingHead, MarkInv, StateTypeOK, WorkerTypeOK
  <2>1. PICK m : m = pendingWrite'[x][i]
    OBVIOUS
  <2>2. CASE x # w
    <3>1. /\ pendingWrite'[x] = pendingWrite[x] /\ cursor'[x] = cursor[x]
          /\ writeOwed'[x] = writeOwed[x]
      BY <1>16, <1>17, <2>0, <2>2 DEF MarkTypes, StateTypeOK, WorkerTypeOK
    <3>2. m \in Mark /\ MarkFine(x, m)
      BY <1>19, <2>0, <2>1, <3>1 DEF MarkInv, MarksFine, MarkTypes
    <3>3. MarkFine(x, m)'
      BY <2>0, <3>1, <3>2, MarkFineKept
    <3> QED BY <2>1, <3>3
  <2>3. CASE x = w
    <3>1. pendingWrite'[w] = s1 /\ writeOwed'[w] = q
      BY <1>16, <2>0 DEF MarkTypes
    <3>2. i \in DOMAIN s1 /\ m = s1[i]
      BY <1>19, <2>1, <2>3, <3>1
    <3>3. PICK j \in DOMAIN s0 : m = s0[j]
      BY <1>14, <3>2 DEF Within
    <3>4. PICK e \in DOMAIN s : m = s[e]
      BY <1>6, <3>3 DEF Within
    <3>5. m \in Mark /\ MarkFine(w, m)
      BY <1>1, <1>3, <3>4 DEF MarkInv, MarksFine, GoodMarks
    <3>6. Len(s0) > 0 /\ Len(s1) > 0
      BY <1>6, <1>14, <3>2, <3>3 DEF GoodMarks
    <3>7. MarkNames(w, m)'
      BY <2>0, <3>5 DEF MarkFine, MarkNames
    <3>8. MarkAlive(w, m)'
      <4>1. CASE taken[w] < m.sub
        BY <2>0, <4>1 DEF MarkAlive
      <4>2. CASE writeOwed[w] > 0
        <5>1. q > 0
          BY <1>12, <3>6, <4>2
        <5> QED BY <3>1, <5>1 DEF MarkAlive
      <4>3. CASE ~quiet /\ r.wrapped
        <5>1. q > 0
          BY <1>12, <3>6, <4>3
        <5> QED BY <3>1, <5>1 DEF MarkAlive
      <4>4. CASE quiet /\ Doomed(m.key, cursor[w], m.at)
        <5>1. cursor'[w] = cursor[w]
          BY <1>17, <2>0, <4>4 DEF StateTypeOK, WorkerTypeOK
        <5> QED BY <2>0, <4>4, <5>1 DEF MarkAlive, Doomed, Lapped, RingHead
      <4>5. CASE ~quiet /\ ~r.wrapped /\ Doomed(m.key, cursor[w], m.at)
        <5>1. cursor[w] \in Nat /\ RingHead \in Nat /\ cursor[w] <= RingHead
          BY <2>0 DEF StateTypeOK, WorkerTypeOK, PrimaryTypeOK, PositionsOK, RingHead
        <5>2. /\ r.to \in Nat /\ r.to <= RingHead
              /\ Lapped(cursor[w]) => r.wrapped
              /\ r.from = cursor[w] /\ cursor[w] <= r.to
          BY <1>7, <4>5, <5>1, RingReadRange
        <5>3. ~flush /\ s1 = Unmatched(s0, r)
          <6>1. ~flush
            BY <1>10, <3>2, <4>5
          <6> QED BY <1>10, <4>5, <6>1
        <5>4. ~ \E p \in Positions(r) : ring[p + 1].key = m.key /\ p >= m.at
          <6>1. \A y \in DOMAIN Unmatched(s0, r) :
                  ~ \E p \in Positions(r) :
                      /\ ring[p + 1].key = Unmatched(s0, r)[y].key
                      /\ p >= Unmatched(s0, r)[y].at
            BY <1>6, UnmatchedGood
          <6> QED BY <3>2, <5>3, <6>1
        <5>5. Doomed(m.key, r.to, m.at)
          <6>1. CASE \E y \in DOMAIN owed : owed[y].key \in {m.key, FlushAll}
            BY <6>1 DEF Doomed
          <6>2. ASSUME NEW p \in cursor[w] .. (RingHead - 1),
                       (ring[p + 1].key = m.key /\ p >= m.at) \/ ring[p + 1].key = FlushAll
                PROVE  Doomed(m.key, r.to, m.at)
            <7>1. p \notin Positions(r)
              BY <1>9, <4>5, <5>3, <5>4, <6>2 DEF HasFlush
            <7>2. p \in r.to .. (RingHead - 1)
              BY <5>1, <5>2, <7>1 DEF Positions
            <7> QED BY <6>2, <7>2 DEF Doomed
          <6> QED BY <4>5, <5>2, <6>1, <6>2 DEF Doomed
        <5>6. cursor'[w] = r.to
          BY <1>17, <2>0, <4>5 DEF StateTypeOK, WorkerTypeOK
        <5> QED BY <2>0, <5>5, <5>6 DEF MarkAlive, Doomed, Lapped, RingHead
      <4> QED BY <3>5, <4>1, <4>2, <4>3, <4>4, <4>5 DEF MarkFine, MarkAlive
    <3> QED BY <2>1, <2>3, <3>7, <3>8 DEF MarkFine
  <2> QED BY <2>2, <2>3
<1>20. MarksFine'
  BY <1>19 DEF MarksFine
<1> QED BY <1>18, <1>20

\* A worker's step that only takes write marks away, or adds a fine one, leaves
\* all marks fine: it moves no position and forgets no record.
LEMMA FewerMarksFine ==
  ASSUME MarkInv, NEW w \in Workers, NEW p, GoodMarks(p),
         pendingWrite' = [pendingWrite EXCEPT ![w] = p],
         \A i \in DOMAIN p : \/ \E j \in DOMAIN pendingWrite[w] : p[i] = pendingWrite[w][j]
                             \/ MarkFine(w, p[i])',
         ring' = ring, owed' = owed, taken' = taken,
         cursor' = cursor, writeOwed' = writeOwed,
         \A x \in Workers : /\ Len(sub'[x]) \in Nat /\ Len(sub[x]) <= Len(sub'[x])
                            /\ \A i \in 1 .. Len(sub[x]) : sub'[x][i] = sub[x][i]
  PROVE  MarksFine'
<1> SUFFICES ASSUME NEW x \in Workers, NEW i \in DOMAIN pendingWrite'[x]
             PROVE  MarkFine(x, pendingWrite[x][i])'
  BY DEF MarksFine
<1>0. StateTypeOK /\ MarkTypes
  BY DEF MarkInv
<1>1. PICK m : m = pendingWrite'[x][i]
  OBVIOUS
<1>2. pendingWrite'[x] = IF x = w THEN p ELSE pendingWrite[x]
  BY <1>0 DEF MarkTypes
<1>3. ASSUME NEW j \in DOMAIN pendingWrite[x], m = pendingWrite[x][j] PROVE MarkFine(x, m)'
  <2>1. m \in Mark /\ MarkFine(x, m)
    BY <1>0, <1>3 DEF MarkInv, MarksFine, MarkTypes
  <2> QED BY <1>0, <2>1, MarkFineKept
<1>4. CASE x # w
  <2>1. MarkFine(x, m)'
    BY <1>1, <1>2, <1>3, <1>4
  <2> QED BY <1>1, <2>1
<1>5. CASE x = w
  <2>1. i \in DOMAIN p /\ m = p[i]
    BY <1>1, <1>2, <1>5
  <2>2. MarkFine(x, m)'
    <3>1. CASE \E j \in DOMAIN pendingWrite[w] : p[i] = pendingWrite[w][j]
      BY <1>3, <1>5, <2>1, <3>1
    <3>2. CASE MarkFine(w, p[i])'
      BY <1>5, <2>1, <3>2
    <3> QED BY <2>1, <3>1, <3>2
  <2> QED BY <1>1, <2>2
<1> QED BY <1>4, <1>5

\* A worker's steps keep its marks fine, and everybody else's.
LEMMA WorkerKeepsMarks ==
  ASSUME MarkInv, NEW w \in Workers, WorkerStep(w)
  PROVE  MarkTypes' /\ MarksFine' /\ PushPlace'
<1>0. /\ UNCHANGED primaryVars /\ ring' = ring /\ owed' = owed /\ taken' = taken
      /\ RingHead' = RingHead
  BY DEF WorkerStep, Get, Fill, SetLocal, DeleteLocal, Push, PushShed,
     WorkerClear, L1Evict, primaryVars, RingHead
<1>T. /\ StateTypeOK /\ MarkTypes /\ MarksFine /\ PushPlace /\ WorkerTypeOK
      /\ RingHead \in Nat
  BY DEF MarkInv, StateTypeOK, PrimaryTypeOK, RingHead
<1>S. \A x \in Workers : Len(sub[x]) \in Nat
  BY <1>T DEF WorkerTypeOK
<1>P. ASSUME \A x \in Workers : wpc'[x] = wpc[x] \/ wpc'[x].op # "push" \/ wpc'[x].at = RingHead
      PROVE  PushPlace'
  BY <1>0, <1>P, <1>T DEF PushPlace
<1>G. ASSUME NEW y \in Workers PROVE
        /\ pendingDel = [pendingDel EXCEPT ![y] = pendingDel[y]]
        /\ pendingWrite = [pendingWrite EXCEPT ![y] = pendingWrite[y]]
        /\ delOwed = [delOwed EXCEPT ![y] = delOwed[y]]
        /\ writeOwed = [writeOwed EXCEPT ![y] = writeOwed[y]]
        /\ GoodMarks(pendingDel[y]) /\ GoodMarks(pendingWrite[y])
        /\ delOwed[y] \in Nat /\ writeOwed[y] \in Nat
  BY <1>T DEF MarkTypes
\* A step that releases marks of both kinds and pushes nothing.
<1>R. ASSUME NEW d, NEW p, GoodMarks(d), GoodMarks(p), Within(p, pendingWrite[w]),
             pendingDel' = [pendingDel EXCEPT ![w] = d],
             pendingWrite' = [pendingWrite EXCEPT ![w] = p],
             delOwed' = delOwed, writeOwed' = writeOwed, cursor' = cursor, sub' = sub
      PROVE  MarkTypes' /\ MarksFine'
  <2>1. MarkTypes'
    BY <1>R, <1>G, <1>T, MarkTypesStep
  <2>2. \A i \in DOMAIN p : \E j \in DOMAIN pendingWrite[w] : p[i] = pendingWrite[w][j]
    BY <1>R DEF Within
  <2>3. \A x \in Workers : /\ Len(sub'[x]) \in Nat /\ Len(sub[x]) <= Len(sub'[x])
                           /\ \A i \in 1 .. Len(sub[x]) : sub'[x][i] = sub[x][i]
    BY <1>R, <1>S
  <2>4. \A i \in DOMAIN p : \/ \E j \in DOMAIN pendingWrite[w] : p[i] = pendingWrite[w][j]
                            \/ MarkFine(w, p[i])'
    BY <2>2
  <2>5. /\ GoodMarks(p) /\ pendingWrite' = [pendingWrite EXCEPT ![w] = p]
        /\ cursor' = cursor /\ writeOwed' = writeOwed
    BY <1>R
  <2>6. MarksFine'
    BY <1>0, <2>3, <2>4, <2>5, FewerMarksFine, Zenon
  <2> QED BY <2>1, <2>6
<1>W. Within(pendingWrite[w], pendingWrite[w]) /\ Within(<<>>, pendingWrite[w])
  BY DEF Within
<1>1. ASSUME NEW k \in Keys, Get(w, k) PROVE MarkTypes' /\ MarksFine' /\ PushPlace'
  <2>1. PICK h \in HeadsSeen(cursor[w]) : Drain(w, h)
    BY <1>1 DEF Get
  <2>2. MarkTypes' /\ MarksFine'
    <3>1. sub' = sub
      BY <1>1 DEF Get
    <3> QED BY <1>0, <2>1, <3>1, DrainMarks
  <2>3. \A x \in Workers : wpc'[x] = wpc[x] \/ wpc'[x].op # "push"
    BY <1>T, <1>1 DEF Get, WorkerTypeOK, Idle
  <2> QED BY <1>P, <2>2, <2>3
<1>2. ASSUME Fill(w) \/ \E k \in Keys : L1Evict(w, k)
      PROVE  MarkTypes' /\ MarksFine' /\ PushPlace'
  <2>1. /\ pendingDel' = pendingDel /\ pendingWrite' = pendingWrite
        /\ delOwed' = delOwed /\ writeOwed' = writeOwed /\ cursor' = cursor /\ sub' = sub
    BY <1>2 DEF Fill, L1Evict
  <2>2. \A x \in Workers : wpc'[x] = wpc[x] \/ wpc'[x].op # "push"
    BY <1>T, <1>2 DEF Fill, L1Evict, WorkerTypeOK, Idle
  <2>3. MarkTypes' /\ MarksFine'
    BY <1>R, <1>G, <1>W, <2>1
  <2> QED BY <1>P, <2>2, <2>3
<1>3. ASSUME NEW k \in Keys, NEW level \in 1 .. 3, SetLocal(w, k, level)
      PROVE  MarkTypes' /\ MarksFine' /\ PushPlace'
  <2>1. PICK d : d = MarkRelease(pendingDel[w], k)
    OBVIOUS
  <2>2. PICK p : p = MarkRelease(pendingWrite[w], k)
    OBVIOUS
  <2>3. GoodMarks(d) /\ GoodMarks(p) /\ Within(p, pendingWrite[w])
    BY <1>G, <2>1, <2>2, KeptGood DEF MarkRelease
  <2>4. /\ pendingDel' = [pendingDel EXCEPT ![w] = d]
        /\ pendingWrite' = [pendingWrite EXCEPT ![w] = p]
        /\ delOwed' = delOwed /\ writeOwed' = writeOwed /\ cursor' = cursor /\ sub' = sub
    BY <1>3, <2>1, <2>2 DEF SetLocal
  <2>5. MarkTypes' /\ MarksFine'
    BY <1>R, <2>3, <2>4
  <2>6. \A x \in Workers : wpc'[x] = wpc[x] \/ wpc'[x].at = RingHead
    BY <1>T, <1>3 DEF SetLocal, WorkerTypeOK
  <2> QED BY <1>P, <2>5, <2>6
<1>4. ASSUME NEW k \in Keys, DeleteLocal(w, k) PROVE MarkTypes' /\ MarksFine' /\ PushPlace'
  <2>1. PICK m : m = [key |-> k, at |-> RingHead, sub |-> -1]
    OBVIOUS
  <2>2. PICK d : d = MarkAdd(pendingDel[w], m)
    OBVIOUS
  <2>3. GoodMarks(d)
    <3>1. m \in Mark
      BY <1>T, <2>1 DEF Mark
    <3> QED BY <1>G, <2>2, <3>1, MarkAddGood
  <2>4. /\ pendingDel' = [pendingDel EXCEPT ![w] = d]
        /\ pendingWrite' = pendingWrite
        /\ delOwed' = delOwed /\ writeOwed' = writeOwed /\ cursor' = cursor /\ sub' = sub
    BY <1>4, <2>1, <2>2 DEF DeleteLocal
  <2>5. MarkTypes' /\ MarksFine'
    BY <1>R, <1>G, <1>W, <2>3, <2>4
  <2>6. \A x \in Workers : wpc'[x] = wpc[x] \/ wpc'[x].at = RingHead
    BY <1>T, <1>4 DEF DeleteLocal, WorkerTypeOK
  <2> QED BY <1>P, <2>5, <2>6
<1>5. ASSUME Push(w) PROVE MarkTypes' /\ MarksFine' /\ PushPlace'
  <2> DEFINE rec == [kind |-> wpc[w].kind, key |-> wpc[w].key, val |-> wpc[w].val,
                     epoch |-> cleared[w] + clears[w]]
  <2>1. PICK n : n = Len(sub[w])
    OBVIOUS
  <2>2. /\ wpc[w].op = "push" /\ wpc[w].key \in Keys
        /\ wpc[w].at \in Nat /\ wpc[w].at <= RingHead
    <3>1. wpc[w].op = "push"
      BY <1>5 DEF Push
    <3>2. wpc[w] \in WorkerPc
      BY <1>T DEF WorkerTypeOK
    <3>3. wpc[w].key \in Keys /\ wpc[w].at \in Nat
      BY <3>1, <3>2 DEF WorkerPc, Idle
    <3> QED BY <1>T, <3>1, <3>3 DEF PushPlace
  <2>3. /\ sub'[w] = Append(sub[w], rec) /\ \A x \in Workers : x # w => sub'[x] = sub[x]
        /\ sub[w] \in Seq(SubRec) /\ n \in Nat
    BY <1>T, <1>5, <2>1 DEF Push, WorkerTypeOK
  <2>4. /\ Len(sub'[w]) = n + 1 /\ sub'[w][n + 1] = rec
        /\ \A i \in 1 .. n : sub'[w][i] = sub[w][i]
    <3> HIDE DEF rec
    <3> QED BY <2>1, <2>3
  <2>5. \A x \in Workers : /\ Len(sub'[x]) \in Nat /\ Len(sub[x]) <= Len(sub'[x])
                           /\ \A i \in 1 .. Len(sub[x]) : sub'[x][i] = sub[x][i]
    BY <1>S, <2>1, <2>3, <2>4
  <2>6. /\ pendingDel' = pendingDel /\ delOwed' = delOwed /\ writeOwed' = writeOwed
        /\ cursor' = cursor
    BY <1>5 DEF Push
  <2>7. PICK m : m = [key |-> wpc[w].key, at |-> wpc[w].at, sub |-> n + 1]
    OBVIOUS
  <2>8. m \in Mark
    BY <2>2, <2>3, <2>7 DEF Mark
  <2>9. PICK p : p = IF wpc[w].mark = "write" THEN MarkAdd(pendingWrite[w], m)
                                              ELSE pendingWrite[w]
    OBVIOUS
  <2>10. pendingWrite' = [pendingWrite EXCEPT ![w] = p]
    BY <1>5, <2>1, <2>7, <2>9 DEF Push
  <2>11. /\ GoodMarks(p)
         /\ \A i \in DOMAIN p : \/ p[i] = m
                                \/ \E j \in DOMAIN pendingWrite[w] : p[i] = pendingWrite[w][j]
    <3>1. /\ GoodMarks(MarkAdd(pendingWrite[w], m))
          /\ \A i \in DOMAIN MarkAdd(pendingWrite[w], m) :
               \/ MarkAdd(pendingWrite[w], m)[i] = m
               \/ \E j \in DOMAIN pendingWrite[w] :
                    MarkAdd(pendingWrite[w], m)[i] = pendingWrite[w][j]
      BY <1>G, <2>8, MarkAddGood
    <3> QED BY <1>G, <2>9, <3>1
  <2>12. MarkFine(w, m)'
    <3>1. m.sub = n + 1 /\ m.key = wpc[w].key /\ m.at = wpc[w].at /\ rec.key = m.key
      BY <2>7
    <3>2. taken[w] <= n /\ taken[w] \in Nat
      BY <1>T, <2>1 DEF StateTypeOK, PositionsOK, PrimaryTypeOK
    <3>3. MarkNames(w, m)'
      <4>1. m.sub \in 1 .. Len(sub'[w]) /\ sub'[w][m.sub].key = m.key
        BY <2>3, <2>4, <3>1
      <4> QED BY <1>0, <2>2, <3>1, <4>1 DEF MarkNames
    <3>4. MarkAlive(w, m)'
      <4>1. taken'[w] < m.sub
        BY <1>0, <2>3, <3>1, <3>2
      <4> QED BY <4>1 DEF MarkAlive
    <3> QED BY <3>3, <3>4 DEF MarkFine
  <2>13. MarksFine'
    <3>1. \A i \in DOMAIN p : \/ \E j \in DOMAIN pendingWrite[w] : p[i] = pendingWrite[w][j]
                              \/ MarkFine(w, p[i])'
      <4> SUFFICES ASSUME NEW i \in DOMAIN p, p[i] = m PROVE MarkFine(w, p[i])'
        BY <2>11
      <4> QED BY <2>12
    <3>2. GoodMarks(p)
      BY <2>11
    <3>3. cursor' = cursor /\ writeOwed' = writeOwed
      BY <2>6
    <3> QED BY <1>0, <2>5, <2>10, <3>1, <3>2, <3>3, FewerMarksFine, Zenon
  <2>14. MarkTypes'
    <3>1. /\ pendingDel' = [pendingDel EXCEPT ![w] = pendingDel[w]]
          /\ delOwed' = [delOwed EXCEPT ![w] = delOwed[w]]
          /\ writeOwed' = [writeOwed EXCEPT ![w] = writeOwed[w]]
          /\ GoodMarks(pendingDel[w]) /\ delOwed[w] \in Nat /\ writeOwed[w] \in Nat
      BY <1>G, <2>6
    <3>2. GoodMarks(p)
      BY <2>11
    <3> QED BY <1>T, <2>10, <3>1, <3>2, MarkTypesStep
  <2>15. \A x \in Workers : wpc'[x] = wpc[x] \/ wpc'[x].op # "push"
    BY <1>T, <1>5 DEF Push, WorkerTypeOK, Idle
  <2> QED BY <1>P, <2>13, <2>14, <2>15
<1>6. ASSUME PushShed(w) PROVE MarkTypes' /\ MarksFine' /\ PushPlace'
  <2>1. PICK d : d = IF wpc[w].mark = "del" THEN MarkRelease(pendingDel[w], wpc[w].key)
                                            ELSE pendingDel[w]
    OBVIOUS
  <2>2. GoodMarks(d)
    BY <1>G, <2>1, KeptGood DEF MarkRelease
  <2>3. /\ pendingDel' = [pendingDel EXCEPT ![w] = d] /\ pendingWrite' = pendingWrite
        /\ delOwed' = delOwed /\ writeOwed' = writeOwed /\ cursor' = cursor /\ sub' = sub
    BY <1>6, <2>1 DEF PushShed
  <2>4. MarkTypes' /\ MarksFine'
    BY <1>R, <1>G, <1>W, <2>2, <2>3
  <2>5. \A x \in Workers : wpc'[x] = wpc[x] \/ wpc'[x].op # "push"
    BY <1>T, <1>6 DEF PushShed, WorkerTypeOK, Idle
  <2> QED BY <1>P, <2>4, <2>5
<1>7. ASSUME WorkerClear(w) PROVE MarkTypes' /\ MarksFine' /\ PushPlace'
  <2>1. /\ pendingDel' = [pendingDel EXCEPT ![w] = <<>>]
        /\ pendingWrite' = [pendingWrite EXCEPT ![w] = <<>>]
        /\ delOwed' = delOwed /\ writeOwed' = writeOwed /\ cursor' = cursor /\ sub' = sub
        /\ wpc' = wpc
    BY <1>7 DEF WorkerClear
  <2>2. MarkTypes' /\ MarksFine'
    BY <1>R, <1>W, <2>1, NoMarksGood
  <2> QED BY <1>P, <2>1, <2>2
<1> QED
  BY <1>1, <1>2, <1>3, <1>4, <1>5, <1>6, <1>7 DEF WorkerStep

\* The primary keeps the marks fine: when it applies the write of a mark it
\* owes the ring a record of the key, and the record it appends is past the
\* place every mark was taken at.
LEMMA PrimaryKeepsMarks ==
  ASSUME MarkInv, PrimaryStep
  PROVE  MarkTypes' /\ MarksFine' /\ PushPlace'
<1>0. UNCHANGED workerVars /\ sub' = sub
  BY DEF PrimaryStep, PrimarySet, PrimarySetRefused, PrimaryDelete, PrimaryGet,
     Evict, PrimaryClear, RingAppend, DrainBegin, DrainApply, DrainEnd, BatchBegin,
     BatchRingEmpty, BatchClear
<1>00. /\ pendingDel' = pendingDel /\ pendingWrite' = pendingWrite /\ wpc' = wpc
       /\ delOwed' = delOwed /\ writeOwed' = writeOwed /\ cursor' = cursor
  BY <1>0 DEF workerVars
<1>T. /\ StateTypeOK /\ MarkTypes /\ MarksFine /\ PushPlace
      /\ WorkerTypeOK /\ PrimaryTypeOK /\ PositionsOK /\ RingHead \in Nat
  BY DEF MarkInv, StateTypeOK, PrimaryTypeOK, RingHead
<1>1. MarkTypes'
  BY <1>00, <1>T DEF MarkTypes
<1>2. RingHead' \in Nat /\ RingHead <= RingHead'
  <2>1. CASE RingAppend
    BY <1>T, <2>1 DEF RingAppend, PrimaryTypeOK, RingHead
  <2>2. CASE ring' = ring
    BY <1>T, <2>2 DEF RingHead
  <2> QED BY <2>1, <2>2 DEF PrimaryStep, PrimarySet, PrimarySetRefused, PrimaryDelete,
       PrimaryGet, Evict, PrimaryClear, DrainBegin, DrainApply, DrainEnd, BatchBegin,
       BatchRingEmpty, BatchClear, ArenaWrite
<1>3. PushPlace'
  <2> SUFFICES ASSUME NEW x \in Workers, wpc[x].op = "push" PROVE wpc[x].at <= RingHead'
    BY <1>00 DEF PushPlace
  <2>1. wpc[x] \in WorkerPc
    BY <1>T DEF WorkerTypeOK
  <2>2. wpc[x].at \in Nat
    BY <2>1 DEF WorkerPc, Idle
  <2>3. wpc[x].at <= RingHead
    BY <1>T DEF PushPlace
  <2> QED BY <1>2, <1>T, <2>2, <2>3
<1>4. ASSUME NEW x \in Workers, NEW m \in Mark, MarkFine(x, m) PROVE MarkAlive(x, m)'
  <2>0. MarkNames(x, m) /\ MarkAlive(x, m) /\ m.at \in Nat
    BY <1>4 DEF MarkFine, Mark
  <2>1. ASSUME NEW y, NEW v, NEW by, ArenaWrite(y, v, by), ring' = ring,
               \/ taken' = taken
               \/ /\ sub[by][taken[by] + 1].key = y /\ by \in Workers
                  /\ taken' = [taken EXCEPT ![by] = @ + 1]
        PROVE  MarkAlive(x, m)'
    <3>1. owed' = <<[key |-> y, by |-> by]>> /\ owed = <<>>
      BY <2>1 DEF ArenaWrite
    <3>2. 1 \in DOMAIN owed' /\ owed'[1].key = y
      BY <3>1
    <3>3. CASE y = m.key
      BY <3>2, <3>3 DEF MarkAlive, Doomed
    <3>4. CASE y # m.key
      <4>1. Doomed(m.key, cursor[x], m.at) => Doomed(m.key, cursor[x], m.at)'
        BY <1>00, <2>1, <3>1 DEF Doomed, Lapped, RingHead
      <4>2. taken[x] < m.sub => taken'[x] < m.sub
        <5>1. taken[x] \in Nat /\ m.sub \in Int
          BY <1>T, <2>0 DEF PrimaryTypeOK, Mark
        <5>2. taken'[x] = taken[x] \/ (taken'[x] = taken[x] + 1 /\ taken[x] + 1 # m.sub)
          BY <1>T, <2>0, <2>1, <3>4 DEF PrimaryTypeOK, MarkNames
        <5> QED BY <5>1, <5>2
      <4> QED BY <1>00, <2>0, <4>1, <4>2 DEF MarkAlive
    <3> QED BY <3>3, <3>4
  <2>2. ASSUME NEW y \in Keys, PrimarySet(y) \/ PrimaryDelete(y) PROVE MarkAlive(x, m)'
    BY <2>1, <2>2 DEF PrimarySet, PrimaryDelete
  <2>3. ASSUME NEW w \in Workers, DrainApply(w) PROVE MarkAlive(x, m)'
    <3>1. PICK v : ArenaWrite(sub[w][taken[w] + 1].key, v, w)
      BY <2>3 DEF DrainApply
    <3>2. ring' = ring /\ taken' = [taken EXCEPT ![w] = @ + 1]
      BY <2>3 DEF DrainApply
    <3> QED BY <2>1, <3>1, <3>2
  <2>4. ASSUME PrimaryClear \/ BatchClear PROVE MarkAlive(x, m)'
    <3>1. PICK by : owed' = <<[key |-> FlushAll, by |-> by]>>
      BY <2>4 DEF PrimaryClear, BatchClear, StoreClear
    <3>2. 1 \in DOMAIN owed' /\ owed'[1].key = FlushAll
      BY <3>1
    <3> QED BY <3>2 DEF MarkAlive, Doomed
  <2>5. ASSUME RingAppend PROVE MarkAlive(x, m)'
    <3>1. /\ cursor[x] \in Nat /\ cursor[x] <= RingHead /\ m.at <= RingHead
      BY <1>T, <2>0 DEF WorkerTypeOK, PositionsOK, MarkNames
    <3>2. /\ taken' = taken /\ RingHead' = RingHead + 1
          /\ ring'[RingHead + 1] = owed[1]
          /\ \A p \in 0 .. (RingHead - 1) : ring'[p + 1] = ring[p + 1]
      BY <1>T, <2>5 DEF RingAppend, PrimaryTypeOK, RingHead
    <3>3. Doomed(m.key, cursor[x], m.at) => Doomed(m.key, cursor[x], m.at)'
      <4>1. ASSUME NEW i \in DOMAIN owed, owed[i].key \in {m.key, FlushAll}
            PROVE  Doomed(m.key, cursor[x], m.at)'
        <5>1. RingHead \in cursor[x] .. (RingHead' - 1) /\ RingHead >= m.at
          BY <1>T, <2>0, <3>1, <3>2
        <5>2. owed[1].key \in {m.key, FlushAll}
          BY <4>1, <1>T DEF PositionsOK
        <5> QED BY <1>00, <3>2, <5>1, <5>2 DEF Doomed
      <4>2. ASSUME NEW p \in cursor[x] .. (RingHead - 1),
                   \/ ring[p + 1].key = m.key /\ p >= m.at
                   \/ ring[p + 1].key = FlushAll
            PROVE  Doomed(m.key, cursor[x], m.at)'
        <5>1. p \in 0 .. (RingHead - 1) /\ p \in cursor[x] .. (RingHead' - 1)
          BY <1>T, <3>1, <3>2
        <5> QED BY <1>00, <3>2, <4>2, <5>1 DEF Doomed
      <4>3. Lapped(cursor[x]) => Lapped(cursor[x])'
        BY <1>00, <1>T, <3>1, <3>2, ConstantsAssumption DEF Lapped
      <4> QED BY <4>1, <4>2, <4>3 DEF Doomed
    <3> QED BY <1>00, <2>0, <3>2, <3>3 DEF MarkAlive
  <2>6. ASSUME ring' = ring, owed' = owed, taken' = taken PROVE MarkAlive(x, m)'
    <3>1. Doomed(m.key, cursor[x], m.at) => Doomed(m.key, cursor[x], m.at)'
      BY <1>00, <2>6 DEF Doomed, Lapped, RingHead
    <3> QED BY <1>00, <2>0, <2>6, <3>1 DEF MarkAlive
  <2>7. ASSUME NEW y \in Keys, PrimarySetRefused(y) \/ PrimaryGet(y) \/ Evict(y)
        PROVE  MarkAlive(x, m)'
    BY <2>6, <2>7 DEF PrimarySetRefused, PrimaryGet, Evict
  <2>8. ASSUME NEW w \in Workers,
               DrainBegin(w) \/ DrainEnd(w) \/ BatchBegin(w) \/ BatchRingEmpty(w)
        PROVE  MarkAlive(x, m)'
    BY <2>6, <2>8 DEF DrainBegin, DrainEnd, BatchBegin, BatchRingEmpty
  <2> QED BY <2>2, <2>3, <2>4, <2>5, <2>7, <2>8 DEF PrimaryStep
<1>5. ASSUME NEW x \in Workers, NEW m \in Mark, MarkFine(x, m) PROVE MarkFine(x, m)'
  <2>1. m.at \in Nat /\ MarkNames(x, m)
    BY <1>5 DEF MarkFine, Mark
  <2>2. m.at <= RingHead'
    BY <1>2, <1>T, <2>1 DEF MarkNames
  <2>3. MarkNames(x, m)'
    BY <1>0, <2>1, <2>2 DEF MarkNames
  <2> QED BY <1>4, <1>5, <2>3 DEF MarkFine
<1>6. MarksFine'
  <2> SUFFICES ASSUME NEW x \in Workers, NEW i \in DOMAIN pendingWrite[x]
               PROVE  MarkFine(x, pendingWrite[x][i])'
    BY <1>00 DEF MarksFine
  <2>1. PICK m : m = pendingWrite[x][i]
    OBVIOUS
  <2>2. m \in Mark /\ MarkFine(x, m)
    BY <1>T, <2>1 DEF MarksFine, MarkTypes
  <2>3. MarkFine(x, m)'
    BY <1>5, <2>2
  <2> QED BY <1>00, <2>1, <2>3
<1> QED BY <1>1, <1>3, <1>6

\* In every state, whatever the bounds of the marks and of the slices a drain
\* reconciles: a write mark whose record its worker will never meet is one the
\* worker's next drains still owe a judgement, and the marks are one for a key
\* and within their bound.
THEOREM NoStuckMarks == Spec => []NoStuckWriteMark
<1>1. Init => MarkInv
  <2> SUFFICES ASSUME Init PROVE MarkInv
    OBVIOUS
  <2>1. StateTypeOK
    BY StateTypeInit
  <2>2. \A x \in Workers : pendingDel[x] = <<>> /\ pendingWrite[x] = <<>> /\ wpc[x] = Idle
    BY DEF Init
  <2>3. MarkTypes
    BY <2>2, NoMarksGood DEF Init, MarkTypes
  <2>4. PushPlace
    BY <2>2 DEF PushPlace, Idle
  <2>5. MarksFine
    BY <2>2 DEF MarksFine
  <2> QED BY <2>1, <2>3, <2>4, <2>5 DEF MarkInv
<1>2. MarkInv /\ [Next]_vars => MarkInv'
  <2> SUFFICES ASSUME MarkInv, [Next]_vars PROVE MarkInv'
    OBVIOUS
  <2>1. StateTypeOK'
    BY StateTypeStep DEF MarkInv
  <2>2. CASE Next
    BY <2>1, <2>2, WorkerKeepsMarks, PrimaryKeepsMarks DEF Next, MarkInv
  <2>3. CASE UNCHANGED vars
    <3>1. MarkTypes' /\ PushPlace'
      BY <2>3 DEF vars, MarkInv, MarkTypes, PushPlace, RingHead
    <3>2. MarksFine'
      BY <2>3 DEF vars, MarkInv, MarksFine, MarkFine, MarkNames, MarkAlive, Doomed,
         Lapped, RingHead
    <3> QED BY <2>1, <3>1, <3>2 DEF MarkInv
  <2> QED BY <2>2, <2>3
<1>3. MarkInv => NoStuckWriteMark
  <2> SUFFICES ASSUME MarkInv PROVE NoStuckWriteMark
    OBVIOUS
  <2>1. MarksTypeOK
    BY DEF MarkInv, MarkTypes, MarksTypeOK, GoodMarks
  <2>2. TypeOK
    BY <2>1 DEF MarkInv, MarkTypes, TypeOK
  <2>3. ASSUME NEW x \in Workers, NEW i \in DOMAIN pendingWrite[x]
        PROVE  MarkAlive(x, pendingWrite[x][i])
    BY DEF MarkInv, MarksFine, MarkFine
  <2> QED BY <2>2, <2>3 DEF NoStuckWriteMark, MarkAlive
<1> QED
  BY <1>1, <1>2, <1>3, PTL DEF Spec
=============================================================================
