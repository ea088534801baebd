---------------------------- MODULE SubmitRing -----------------------------
(***************************************************************************)
(* One submission ring: the shared memory a worker writes records into and *)
(* the primary drains.  Positions count words of 8 bytes and never wrap;   *)
(* the word at position p lies at offset p % Cap.  A record is a header of *)
(* Hdr words and its payload, and never straddles the end of the buffer:   *)
(* what is left there is covered by a SKIP record, or, when it is too      *)
(* small for a header, by a gap both sides derive from the offset.         *)
(*                                                                         *)
(* The producer is the worker that owns the ring; a worker may crash       *)
(* anywhere, and another one then takes over the ring with what is in it.  *)
(* A word remembers which record and which word of it was written there,   *)
(* so a record that is overwritten or half written is told from an intact  *)
(* one.  Only well-behaved workers are modelled.                           *)
(***************************************************************************)
EXTENDS Integers, Sequences, FiniteSets

CONSTANTS
  Procs,      \* the worker processes, each with a pid of its own
  Free,       \* the owner field of a ring nobody owns
  Cap,        \* ringBytes, in words
  Hdr,        \* sizeof(SubmitRec), in words
  Sizes,      \* record lengths in words, header included
  Budget,     \* records one SubmitDrain applies at most
  MaxSteps,   \* ring steps one SubmitDrain takes at most (4 * Budget + 64)
  MaxPush     \* bound: pushes attempted by all processes together

ASSUME RingAssumption ==
  /\ Free \notin Procs
  /\ Cap \in Nat /\ Hdr \in Nat \ {0} /\ Hdr <= Cap \div 2
  /\ Sizes \subseteq Nat /\ \A n \in Sizes : n > Hdr
  /\ Budget \in Nat \ {0} /\ MaxSteps \in Nat \ {0} /\ MaxPush \in Nat

VARIABLES
  mem,       \* offset -> the word last written there
  head,      \* published by the producer
  tail,      \* published by the consumer
  owner,     \* pid of the claiming worker, or Free
  alive,     \* the processes that have not crashed
  pc,        \* process -> what it is in the middle of
  cons,      \* the consumer's control state and locals
  corrupt,   \* records the consumer rejected
  pushed,    \* history: the records published, with where they start and end
  applied,   \* history: the records the consumer applied
  nops       \* pushes attempted so far

producerVars == <<head, owner, alive, pc, pushed, nops>>
consumerVars == <<tail, cons, corrupt, applied>>
vars == <<mem, head, tail, owner, alive, pc, cons, corrupt, pushed, applied, nops>>

-----------------------------------------------------------------------------
(* The layout rules *)

Off(p) == p % Cap
Remain(p) == Cap - Off(p)

\* submitPush: a record above half the capacity is never taken.
Admissible(need) == need <= Cap \div 2

\* The words submitPush skips at the end of the buffer: the record would
\* straddle it, or not even a header fits.
Pad(h, need) ==
  IF Remain(h) < Hdr \/ Off(h) + need > Cap THEN Remain(h) ELSE 0

Room(h, t, need) == Cap - (h - t) >= need + Pad(h, need)

\* submitGapAt
GapAt(p) == IF Remain(p) < Hdr THEN Remain(p) ELSE 0

Word(id, op, len, j) == [id |-> id, op |-> op, len |-> len, j |-> j]
Blank == Word(0, "none", 0, 0)

\* submitValidate, on the snapshot of the header at offset o.
Valid(o, avail) ==
  LET w == mem[o] IN
  /\ w.op # "none" /\ w.len >= Hdr /\ w.len <= avail
  /\ \A j \in 0 .. (Hdr - 1) : mem[o + j] = Word(w.id, w.op, w.len, j)

\* The payload as the consumer finds it: the record, or a mixture (0).
ReadBack(o, rec) ==
  IF \A j \in 0 .. (rec.len - 1) : mem[o + j] = Word(rec.id, rec.op, rec.len, j)
    THEN rec.id ELSE 0

-----------------------------------------------------------------------------
(* A worker: claims the ring, pushes, releases it, crashes. *)

Idle == [op |-> "idle"]
Without == [op |-> "unclaimed"]

\* SubmitClaim reads the owner: a free ring, or one whose owner is gone.
ClaimLoad(p) ==
  /\ p \in alive
  /\ pc[p] = Without
  /\ owner \in {Free} \cup (Procs \ (alive \cup {p}))
  /\ pc' = [pc EXCEPT ![p] = [op |-> "claim", expect |-> owner]]
  /\ UNCHANGED <<mem, head, owner, alive, pushed, nops, consumerVars>>

\* The compare-exchange; a worker that loses goes on without the ring.
ClaimCas(p) ==
  /\ p \in alive
  /\ pc[p].op = "claim"
  /\ IF owner = pc[p].expect
       THEN owner' = p /\ pc' = [pc EXCEPT ![p] = Idle]
       ELSE owner' = owner /\ pc' = [pc EXCEPT ![p] = Without]
  /\ UNCHANGED <<mem, head, alive, pushed, nops, consumerVars>>

\* SubmitRelease: the queued records stay.
Release(p) ==
  /\ p \in alive
  /\ pc[p] = Idle
  /\ owner' = Free
  /\ pc' = [pc EXCEPT ![p] = Without]
  /\ UNCHANGED <<mem, head, alive, pushed, nops, consumerVars>>

\* A crash, in the middle of a push or not; the owner field keeps the pid.
Crash(p) ==
  /\ p \in alive
  /\ alive' = alive \ {p}
  /\ pc' = [pc EXCEPT ![p] = Without]
  /\ UNCHANGED <<mem, head, owner, pushed, nops, consumerVars>>

\* submitPush up to the room check: head and tail are read once.
PushBegin(p, need) ==
  /\ p \in alive
  /\ pc[p] = Idle
  /\ nops < MaxPush
  /\ nops' = nops + 1
  /\ pc' = IF Admissible(need) /\ Room(head, tail, need)
             THEN [pc EXCEPT ![p] = [op |-> "skip", id |-> nops', need |-> need,
                                     pad |-> Pad(head, need)]]
             ELSE pc
  /\ UNCHANGED <<mem, head, owner, alive, pushed, consumerVars>>

\* The SKIP header, where one fits.
WriteSkip(p) ==
  /\ p \in alive
  /\ pc[p].op = "skip"
  /\ mem' = [o \in 0 .. (Cap - 1) |->
       IF pc[p].pad >= Hdr /\ o \in Off(head) .. (Off(head) + Hdr - 1)
         THEN Word(0, "skip", pc[p].pad, o - Off(head)) ELSE mem[o]]
  /\ pc' = [pc EXCEPT ![p] =
       [op |-> "write", id |-> pc[p].id, need |-> pc[p].need,
        at |-> head + pc[p].pad, done |-> 0]]
  /\ UNCHANGED <<head, owner, alive, pushed, nops, consumerVars>>

\* Header and payload, word by word.
WriteWord(p) ==
  /\ p \in alive
  /\ pc[p].op = "write" /\ pc[p].done < pc[p].need
  /\ mem' = [mem EXCEPT ![Off(pc[p].at) + pc[p].done] =
       Word(pc[p].id, "record", pc[p].need, pc[p].done)]
  /\ pc' = [pc EXCEPT ![p].done = @ + 1]
  /\ UNCHANGED <<head, owner, alive, pushed, nops, consumerVars>>

\* mutant: the head is stored before the last word of the payload
Publish_early(p) ==
  /\ p \in alive
  /\ pc[p].op = "write" /\ pc[p].done = pc[p].need - 1
  /\ head' = pc[p].at + pc[p].need
  /\ pushed' = Append(pushed, [id |-> pc[p].id, at |-> pc[p].at, end |-> head'])
  /\ pc' = [pc EXCEPT ![p] = Idle]
  /\ UNCHANGED <<mem, owner, alive, nops, consumerVars>>

\* The store of head publishes padding and record together.
Publish(p) ==
  /\ p \in alive
  /\ pc[p].op = "write" /\ pc[p].done = pc[p].need
  /\ head' = pc[p].at + pc[p].need
  /\ pushed' = Append(pushed, [id |-> pc[p].id, at |-> pc[p].at, end |-> head'])
  /\ pc' = [pc EXCEPT ![p] = Idle]
  /\ UNCHANGED <<mem, owner, alive, nops, consumerVars>>

-----------------------------------------------------------------------------
(* The primary's SubmitDrain, on this ring.  cons.tail is the local index, *)
(* cons.rec the header snapshot of a record about to be applied.           *)

Asleep == [mode |-> "asleep", head |-> 0, tail |-> 0, steps |-> 0,
           applied |-> 0, rec |-> Blank]

\* The consumer stays in its loop.
Walking ==
  /\ cons.mode = "walk"
  /\ cons.tail < cons.head /\ cons.applied < Budget /\ cons.steps < MaxSteps

\* mutant: a ring that is exactly full is taken for a corrupt one
DrainBegin_fullIsCorrupt ==
  /\ cons = Asleep
  /\ tail # head
  /\ IF head - tail >= Cap
       THEN /\ corrupt' = corrupt + 1
            /\ tail' = head
            /\ cons' = cons
       ELSE /\ cons' = [Asleep EXCEPT !.mode = "walk", !.head = head, !.tail = tail]
            /\ UNCHANGED <<corrupt, tail>>
  /\ UNCHANGED <<mem, applied, producerVars>>

\* SubmitDrain turns to the ring; a span no producer can leave is skipped.
DrainBegin ==
  /\ cons = Asleep
  /\ tail # head
  /\ IF head - tail > Cap
       THEN /\ corrupt' = corrupt + 1
            /\ tail' = head
            /\ cons' = cons
       ELSE /\ cons' = [Asleep EXCEPT !.mode = "walk", !.head = head, !.tail = tail]
            /\ UNCHANGED <<corrupt, tail>>
  /\ UNCHANGED <<mem, applied, producerVars>>

\* An implicit gap, a SKIP, a record (its header is copied), or a rejection,
\* which ends the turn with the index before the record.
DrainStep ==
  /\ Walking
  /\ LET o     == Off(cons.tail)
         avail == IF cons.head - cons.tail < Cap - o
                    THEN cons.head - cons.tail ELSE Cap - o
         next  == [cons EXCEPT !.steps = @ + 1]
     IN
     IF GapAt(cons.tail) > 0
       THEN /\ cons' = [next EXCEPT !.tail = @ + GapAt(cons.tail)]
            /\ UNCHANGED corrupt
       ELSE IF ~Valid(o, avail)
       THEN /\ cons' = [next EXCEPT !.mode = "publish"]
            /\ corrupt' = corrupt + 1
       ELSE /\ cons' = IF mem[o].op = "skip" THEN [next EXCEPT !.tail = @ + mem[o].len]
                       ELSE [next EXCEPT !.mode = "apply", !.rec = mem[o]]
            /\ UNCHANGED corrupt
  /\ UNCHANGED <<mem, tail, applied, producerVars>>

\* storeSet or storeDelete, straight from the ring's bytes.
DrainApply ==
  /\ cons.mode = "apply"
  /\ applied' = Append(applied, ReadBack(Off(cons.tail), cons.rec))
  /\ cons' = [cons EXCEPT !.mode = "walk", !.tail = @ + cons.rec.len,
                          !.applied = @ + 1, !.rec = Blank]
  /\ UNCHANGED <<mem, tail, corrupt, producerVars>>

\* mutant: the index published is the head the drain saw
DrainEnd_skipToHead ==
  /\ cons.mode = "publish" \/ (cons.mode = "walk" /\ ~Walking)
  /\ tail' = cons.head
  /\ cons' = Asleep
  /\ UNCHANGED <<mem, corrupt, applied, producerVars>>

\* The end of the turn: the consumer index is published once.
DrainEnd ==
  /\ cons.mode = "publish" \/ (cons.mode = "walk" /\ ~Walking)
  /\ tail' = cons.tail
  /\ cons' = Asleep
  /\ UNCHANGED <<mem, corrupt, applied, producerVars>>

-----------------------------------------------------------------------------
Init ==
  /\ mem = [o \in 0 .. (Cap - 1) |-> Blank]
  /\ head = 0 /\ tail = 0
  /\ owner = Free
  /\ alive = Procs
  /\ pc = [p \in Procs |-> Without]
  /\ cons = Asleep
  /\ corrupt = 0
  /\ pushed = <<>> /\ applied = <<>>
  /\ nops = 0

Worker(p) ==
  \/ ClaimLoad(p) \/ ClaimCas(p) \/ Release(p) \/ Crash(p)
  \/ \E need \in Sizes : PushBegin(p, need)
  \/ WriteSkip(p) \/ WriteWord(p) \/ Publish(p)

Consumer == DrainBegin \/ DrainStep \/ DrainApply \/ DrainEnd

Next == Consumer \/ \E p \in Procs : Worker(p)

Spec == Init /\ [][Next]_vars

\* The primary's event loop keeps draining; workers need not keep running.
FairSpec == Spec /\ WF_vars(Consumer)

-----------------------------------------------------------------------------
(* Properties *)

Ids == 1 .. MaxPush

ProcPc ==
  {Idle, Without}
    \cup [op : {"claim"}, expect : Procs \cup {Free}]
    \cup [op : {"skip"}, id : Ids, need : Sizes, pad : 0 .. (Cap - 1)]
    \cup [op : {"write"}, id : Ids, need : Sizes, at : Nat, done : Nat]

\* The types of the variables, and the order of the positions.
TypeOK ==
  /\ DOMAIN mem = 0 .. (Cap - 1)
  /\ \A o \in DOMAIN mem :
       mem[o] \in [id : 0 .. MaxPush, op : {"none", "skip", "record"},
                   len : 0 .. Cap, j : 0 .. Cap]
  /\ tail \in Nat /\ head \in Nat /\ tail <= head /\ head - tail <= Cap
  /\ owner \in Procs \cup {Free} /\ alive \subseteq Procs
  /\ pc \in [Procs -> ProcPc]
  /\ cons.mode \in {"asleep", "walk", "apply", "publish"}
  /\ cons.mode # "asleep" => /\ tail <= cons.tail /\ cons.tail <= cons.head
                             /\ cons.head <= head
  /\ corrupt \in Nat /\ nops \in 0 .. MaxPush

\* The indices stay in order and within the capacity, submitPush and SubmitDrain
\* agree on the layout (no bytes are ever rejected, which would stop the ring
\* for good), and the consumer index means what #reconcileWrites takes from it:
\* once it has passed the end of a record, that record has been applied.
TailMeansApplied ==
  /\ TypeOK /\ corrupt = 0
  /\ \A i \in DOMAIN pushed : pushed[i].end <= tail => i <= Len(applied)

\* The ring implements the queue of the abstract specification.
Queue == INSTANCE SubmitQueue WITH
           Ids <- 1 .. MaxPush, got <- applied,
           sent <- [i \in DOMAIN pushed |-> pushed[i].id]
ImplementsQueue == Queue!Spec

\* Every published record is applied in the end, also after its worker died.
EventuallyApplied ==
  \A i \in 1 .. MaxPush : Len(pushed) >= i ~> Len(applied) >= i
=============================================================================
