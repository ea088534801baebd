------------------------------- MODULE Arena -------------------------------
(***************************************************************************)
(* The L2 arena (store.h, store_ops.h): an open-addressed index over a     *)
(* circular log. The primary is the only writer; a worker reads without    *)
(* locks while the primary writes.                                         *)
(*                                                                         *)
(* The data region is Data words. A record starts with a header of Hdr     *)
(* words; the model keeps the header's fields, and the key, with the first *)
(* of them (hd) and says of every word which word of which version it is   *)
(* (body). A word that is not the start of a record has NoHdr: what a      *)
(* reader finds there when it takes it for a header is somebody's payload, *)
(* hence arbitrary. So is what it finds in a record that is being written. *)
(*                                                                         *)
(* An action of the writer is one store that a reader can observe, with    *)
(* the private work around it. Log positions grow for ever; tail is        *)
(* logTail and tailPub, which are always stored together.                  *)
(***************************************************************************)
EXTENDS Integers, Sequences, FiniteSets, FiniteSetsExt

CONSTANTS
  Keys,       \* the keys
  NoKey,      \* no key
  Hash,       \* rapidhash: Hash[k], 2 or more
  Slots,      \* h->indexSlots
  Data,       \* h->dataBytes, in words
  Hdr,        \* sizeof(Entry), in words
  Sizes,      \* block sizes of the values written
  Budget,     \* g_secondChanceBudget
  Guard,      \* guardMax of the index-pressure loop
  Slice,      \* maxSlots of sweepExpired
  Ttls,       \* may a set carry a TTL: a subset of BOOLEAN
  Clears,     \* is clearAll called: a subset of {TRUE}
  ReadKeys,   \* the keys that are read
  MaxOps      \* bound: operations of the writer

Slot == 0 .. Slots - 1
Units == 0 .. Data - 1
Empty == 0
Pad == -1                                  \* SLOT_PAD
Seqs == 0 .. 3                             \* the sequence word, narrowed to 2 bits
MaxLive == (3 * Slots) \div 4              \* indexSlots * MAX_LOAD

ASSUME ArenaAssumption ==
  /\ NoKey \notin Keys
  /\ Slots \in Nat \ {0} /\ Data \in Nat /\ Hdr \in 1 .. Data
  /\ Hash \in [Keys -> Nat \ {0, 1}]
  /\ Sizes \subseteq {n \in Nat : n > Hdr}
  /\ Budget \in Nat /\ Guard \in Nat /\ Slice \in Nat \ {0}
  /\ Ttls \subseteq BOOLEAN /\ Clears \subseteq {TRUE}
  /\ ReadKeys \subseteq Keys /\ MaxOps \in Nat

VARIABLES
  idx,        \* IndexSlot: hash and log position
  hint,       \* the reference bits, the one thing a reader may write
  hd,         \* the record header that starts at a word, or NoHdr
  body,       \* which word of which version a word is
  head, tail, \* logHead; logTail and tailPub
  live, liveBytes,
  aged,       \* versions whose expiry has passed
  cursor,     \* #sweepCursor
  w,          \* where the writer is
  nops,       \* operations begun; the version of the last
  r           \* where the reader is

wvars == <<idx, hd, body, head, tail, live, liveBytes, cursor, w, nops>>
vars == <<wvars, hint, aged, r>>
aside == <<aged, cursor, nops>>

NoHdr == [seq |-> -1, slot |-> Pad, hash |-> Empty, size |-> 0,
          key |-> NoKey, ver |-> 0, ttl |-> FALSE]
ZeroHdr == [NoHdr EXCEPT !.seq = 0]        \* a fresh segment is all zeros
Garbage == <<0, 0>>

IdleWriter == [pc |-> "idle", key |-> NoKey, n |-> 0, ver |-> 0, ttl |-> FALSE,
               budget |-> 0, guard |-> 0, i |-> 0, j |-> 0, pos |-> 0,
               size |-> 0, ret |-> "idle", loop |-> "idle", now |-> {}]
IdleReader == [pc |-> "idle", key |-> NoKey, i |-> 0, probes |-> 0, pos |-> 0,
               seq |-> 0, n |-> 0, eh |-> FALSE, copy |-> <<>>, retry |-> FALSE,
               now |-> {}, hit |-> FALSE, ok |-> {}, quiet |-> TRUE]

Init ==
  /\ idx = [s \in Slot |-> [hash |-> Empty, off |-> 0]]
  /\ hint = [s \in Slot |-> FALSE]
  /\ hd = [u \in Units |-> ZeroHdr] /\ body = [u \in Units |-> Garbage]
  /\ head = 0 /\ tail = 0 /\ live = 0 /\ liveBytes = 0
  /\ aged = {} /\ cursor = 0
  /\ w = IdleWriter /\ nops = 0 /\ r = IdleReader

-----------------------------------------------------------------------------
(* Addresses and probing.                                                  *)

Phys(pos) == pos % Data
HdrAt(pos) == hd[Phys(pos)]
Remain(pos) == Data - Phys(pos)
GapAt(pos) == IF Remain(pos) < Hdr THEN Remain(pos) ELSE 0
Free == Data - (head - tail)

Home(h) == h % Slots
At(h, d) == (h + d) % Slots                \* the slot probed d-th for hash h

FindFreeSlot(h) ==
  LET D == {d \in Slot : idx[At(h, d)].hash = Empty} IN
  IF D = {} THEN -1 ELSE At(h, CHOOSE d \in D : \A e \in D : d <= e)

FindSlot(k) ==
  LET h == Hash[k]
      D == {d \in Slot : /\ idx[At(h, d)].hash = h
                         /\ HdrAt(idx[At(h, d)].off).key = k
                         /\ \A e \in 0 .. d : idx[At(h, e)].hash # Empty}
  IN  IF D = {} THEN -1 ELSE At(h, CHOOSE d \in D : \A e \in D : d <= e)

-----------------------------------------------------------------------------
(* indexRemove: Algorithm R. Empty the slot; find the next entry of the    *)
(* cluster that may move into it; store its position, then its hash; empty *)
(* the slot it came from.                                                  *)

\* mutant: a cluster that wraps round the end of the index is forgotten
MustStay_noWrap(i, j) ==
  LET k == Home(idx[j].hash) IN i < k /\ k <= j

MustStay(i, j) ==
  LET k == Home(idx[j].hash) IN
  IF i <= j THEN i < k /\ k <= j ELSE i < k \/ k <= j

\* mutant: a removal leaves its hole open
Mover_none(i) == i

\* The entry to move into slot i, or i itself when the cluster ends first.
Mover(i) ==
  LET D == {d \in 1 .. Slots : \/ d = Slots
                               \/ idx[At(i, d)].hash = Empty
                               \/ ~MustStay(i, At(i, d))}
      j == At(i, CHOOSE d \in D : \A e \in D : d <= e)
  IN  IF idx[j].hash = Empty THEN i ELSE j

RemoveEmpty ==
  /\ w.pc = "empty"
  /\ idx' = [idx EXCEPT ![w.i].hash = Empty]
  /\ hint' = [hint EXCEPT ![w.i] = FALSE]
  /\ LET j == Mover(w.i) IN
     w' = IF j = w.i THEN [w EXCEPT !.pc = w.ret] ELSE [w EXCEPT !.pc = "moveoff", !.j = j]
  /\ UNCHANGED <<hd, body, head, tail, live, liveBytes, aside>>

RemoveMoveOff ==
  /\ w.pc = "moveoff"
  /\ idx' = [idx EXCEPT ![w.i].off = idx[w.j].off]
  /\ hint' = [hint EXCEPT ![w.i] = hint[w.j]]
  /\ hd' = [hd EXCEPT ![Phys(idx[w.j].off)].slot = w.i]
  /\ w' = [w EXCEPT !.pc = "movehash"]
  /\ UNCHANGED <<body, head, tail, live, liveBytes, aside>>

RemoveMoveHash ==
  /\ w.pc = "movehash"
  /\ idx' = [idx EXCEPT ![w.i].hash = idx[w.j].hash]
  /\ w' = [w EXCEPT !.pc = "empty", !.i = w.j]
  /\ UNCHANGED <<hint, hd, body, head, tail, live, liveBytes, aside>>

\* indexRemove(slot), then on to ret.
Removing(slot, ret) ==
  [w EXCEPT !.pc = "empty", !.i = slot, !.ret = ret,
            !.size = HdrAt(idx[slot].off).size]

\* mutant: the bytes of a removed entry stay counted
Uncount_noBytes == live' = live - 1 /\ liveBytes' = liveBytes

Uncount == live' = live - 1 /\ liveBytes' = liveBytes - w.size

-----------------------------------------------------------------------------
(* Writing a block: the sequence word goes odd, the fields and the payload *)
(* follow, the sequence word goes even. In between a reader may see        *)
(* anything in the block.                                                  *)

SeqsAt(u) == IF hd[u].seq >= 0 THEN {hd[u].seq} ELSE Seqs
Odd(s) == IF s % 2 = 1 THEN s ELSE s + 1

\* seq.store(seq | 1) at u, and the first n words in an unknown state.
Unsettle(u, n) ==
  /\ \E s \in SeqsAt(u) :
       hd' = [x \in Units |-> IF x = u THEN [NoHdr EXCEPT !.seq = Odd(s)]
                             ELSE IF x \in u .. u + n - 1 THEN NoHdr ELSE hd[x]]
  /\ body' = [x \in Units |-> IF x \in u .. u + n - 1 THEN Garbage ELSE body[x]]

\* The fields e at u, seq.store((seq | 1) + 1).
Settle(u, e) == hd' = [hd EXCEPT ![u] = [e EXCEPT !.seq = (hd[u].seq + 1) % 4]]
Payload(u, e) ==
  body' = [x \in Units |-> IF x \in u .. u + e.size - 1 THEN <<e.ver, x - u>> ELSE body[x]]
PadRecord(n) == [NoHdr EXCEPT !.size = n]

-----------------------------------------------------------------------------
(* logDropTail, run by the index-pressure loop ("press") and by the        *)
(* allocator ("alloc").                                                    *)

Want ==                                    \* what the allocator must find free
  IF GapAt(head) > 0 THEN GapAt(head)
  ELSE IF Phys(head) + w.n > Data THEN Remain(head) ELSE w.n

MustDrop ==
  \/ w.pc = "press" /\ live >= MaxLive /\ tail < head /\ w.guard < Guard
  \/ w.pc = "alloc" /\ w.n <= Data \div 2 /\ Free < Want

TailRec == HdrAt(tail)
LiveTail ==
  /\ GapAt(tail) = 0 /\ TailRec.slot # Pad
  /\ idx[TailRec.slot].off = tail /\ idx[TailRec.slot].hash = TailRec.hash
InPlace == Phys(head) = Phys(tail)         \* a full log: the head lands on the tail
\* mutant: a record is copied to the head without asking whether there is room
Room_unchecked == ~InPlace /\ Phys(head) + TailRec.size <= Data

Room == ~InPlace /\ Free >= TailRec.size /\ Phys(head) + TailRec.size <= Data
Chance == LiveTail /\ hint[TailRec.slot] /\ w.budget > 0 /\ (InPlace \/ Room)

\* A gap, a pad, a dead record, or a block size that cannot be.
DropDead ==
  /\ MustDrop /\ ~LiveTail
  /\ tail' = IF GapAt(tail) > 0 THEN tail + GapAt(tail)
             ELSE IF TailRec.size \notin 1 .. Data THEN head
             ELSE tail + TailRec.size
  /\ w' = [w EXCEPT !.guard = @ + 1]
  /\ UNCHANGED <<idx, hint, hd, body, head, live, liveBytes, aside>>

DropLive ==
  /\ MustDrop /\ LiveTail /\ ~Chance
  /\ w' = [Removing(TailRec.slot, "evicted") EXCEPT !.guard = @ + 1, !.loop = w.pc]
  /\ UNCHANGED <<idx, hint, hd, body, head, tail, live, liveBytes, aside>>

Evicted ==
  /\ w.pc = "evicted"
  /\ Uncount
  /\ tail' = tail + w.size
  /\ w' = [w EXCEPT !.pc = w.loop]
  /\ UNCHANGED <<idx, hint, hd, body, head, aside>>

\* Second chance without a copy: the record is published one lap on.
ReappendInPlace ==
  /\ MustDrop /\ Chance /\ InPlace
  /\ hint' = [hint EXCEPT ![TailRec.slot] = FALSE]
  /\ idx' = [idx EXCEPT ![TailRec.slot].off = head]
  /\ w' = [w EXCEPT !.pc = "bump", !.loop = w.pc, !.guard = @ + 1,
                    !.budget = @ - 1, !.size = TailRec.size]
  /\ UNCHANGED <<hd, body, head, tail, live, liveBytes, aside>>

ReappendCopy ==
  /\ MustDrop /\ Chance /\ Room
  /\ Unsettle(Phys(head), TailRec.size)
  /\ w' = [w EXCEPT !.pc = "copying", !.loop = w.pc, !.guard = @ + 1,
                    !.budget = @ - 1, !.size = TailRec.size]
  /\ UNCHANGED <<idx, hint, head, tail, live, liveBytes, aside>>

ReappendCopied ==
  /\ w.pc = "copying"
  /\ Settle(Phys(head), TailRec) /\ Payload(Phys(head), TailRec)
  /\ hint' = [hint EXCEPT ![TailRec.slot] = FALSE]
  /\ w' = [w EXCEPT !.pc = "copied"]
  /\ UNCHANGED <<idx, head, tail, live, liveBytes, aside>>

ReappendPublish ==
  /\ w.pc = "copied"
  /\ idx' = [idx EXCEPT ![TailRec.slot].off = head]
  /\ w' = [w EXCEPT !.pc = "bump"]
  /\ UNCHANGED <<hint, hd, body, head, tail, live, liveBytes, aside>>

Bump ==
  /\ w.pc = "bump"
  /\ head' = head + w.size /\ tail' = tail + w.size
  /\ w' = [w EXCEPT !.pc = w.loop]
  /\ UNCHANGED <<idx, hint, hd, body, live, liveBytes, aside>>

-----------------------------------------------------------------------------
(* storeSet: index pressure, logAlloc, a slot, the old entry out, the      *)
(* record, the index.                                                      *)

SetBegin(k, n, t) ==
  /\ w.pc = "idle" /\ nops < MaxOps
  /\ nops' = nops + 1
  /\ w' = [IdleWriter EXCEPT !.pc = "press", !.key = k, !.n = n, !.ttl = t,
                             !.ver = nops + 1, !.budget = Budget]
  /\ UNCHANGED <<idx, hint, hd, body, head, tail, live, liveBytes, aged, cursor>>

PressDone ==
  /\ w.pc = "press" /\ ~MustDrop
  /\ w' = IF w.n > Data \div 2 THEN IdleWriter
          ELSE [w EXCEPT !.pc = "alloc", !.budget = Budget]
  /\ UNCHANGED <<idx, hint, hd, body, head, tail, live, liveBytes, aside>>

AllocGap ==
  /\ w.pc = "alloc" /\ ~MustDrop /\ GapAt(head) > 0
  /\ head' = head + GapAt(head)
  /\ UNCHANGED <<idx, hint, hd, body, tail, live, liveBytes, w, aside>>

AllocPad ==
  /\ w.pc = "alloc" /\ ~MustDrop /\ GapAt(head) = 0 /\ Want < w.n
  /\ Unsettle(Phys(head), Hdr)
  /\ w' = [w EXCEPT !.pc = "padding"]
  /\ UNCHANGED <<idx, hint, head, tail, live, liveBytes, aside>>

\* mutant: the head does not step over the pad
AllocPadded_noAdvance ==
  /\ w.pc = "padding"
  /\ Settle(Phys(head), PadRecord(Remain(head)))
  /\ w' = [w EXCEPT !.pc = "alloc"]
  /\ UNCHANGED <<idx, hint, body, head, tail, live, liveBytes, aside>>

AllocPadded ==
  /\ w.pc = "padding"
  /\ Settle(Phys(head), PadRecord(Remain(head)))
  /\ head' = head + Remain(head)
  /\ w' = [w EXCEPT !.pc = "alloc"]
  /\ UNCHANGED <<idx, hint, body, tail, live, liveBytes, aside>>

AllocTake ==
  /\ w.pc = "alloc" /\ ~MustDrop /\ GapAt(head) = 0 /\ Want = w.n
  /\ head' = head + w.n
  /\ w' = [w EXCEPT !.pc = "slot", !.pos = head]
  /\ UNCHANGED <<idx, hint, hd, body, tail, live, liveBytes, aside>>

\* No slot: leave a record the tail can step over, and refuse.
RefuseSlot ==
  /\ w.pc = "slot" /\ FindFreeSlot(Hash[w.key]) < 0
  /\ Unsettle(Phys(w.pos), Hdr)
  /\ w' = [w EXCEPT !.pc = "refuse"]
  /\ UNCHANGED <<idx, hint, head, tail, live, liveBytes, aside>>

\* mutant: a refused set leaves its block unwritten
Refused_noPad ==
  /\ w.pc = "refuse"
  /\ w' = IdleWriter
  /\ UNCHANGED <<idx, hint, hd, body, head, tail, live, liveBytes, aside>>

Refused ==
  /\ w.pc = "refuse"
  /\ Settle(Phys(w.pos), PadRecord(w.n))
  /\ w' = IdleWriter
  /\ UNCHANGED <<idx, hint, body, head, tail, live, liveBytes, aside>>

SetUnlink ==
  /\ w.pc = "slot" /\ FindFreeSlot(Hash[w.key]) >= 0
  /\ w' = IF FindSlot(w.key) >= 0 THEN Removing(FindSlot(w.key), "unlinked")
          ELSE [w EXCEPT !.pc = "write", !.i = FindFreeSlot(Hash[w.key])]
  /\ UNCHANGED <<idx, hint, hd, body, head, tail, live, liveBytes, aside>>

Unlinked ==
  /\ w.pc = "unlinked"
  /\ Uncount
  /\ LET slot == FindFreeSlot(Hash[w.key]) IN
     w' = IF slot < 0 THEN IdleWriter ELSE [w EXCEPT !.pc = "write", !.i = slot]
  /\ UNCHANGED <<idx, hint, hd, body, head, tail, aside>>

Write ==
  /\ w.pc = "write"
  /\ Unsettle(Phys(w.pos), w.n)
  /\ w' = [w EXCEPT !.pc = "writing"]
  /\ UNCHANGED <<idx, hint, head, tail, live, liveBytes, aside>>

Written ==
  /\ w.pc = "writing"
  /\ LET e == [NoHdr EXCEPT !.slot = w.i, !.hash = Hash[w.key], !.size = w.n,
                            !.key = w.key, !.ver = w.ver, !.ttl = w.ttl]
     IN  Settle(Phys(w.pos), e) /\ Payload(Phys(w.pos), e)
  /\ w' = [w EXCEPT !.pc = "puboff"]
  /\ UNCHANGED <<idx, hint, head, tail, live, liveBytes, aside>>

\* mutant: the hash is published before the position
PublishOff_hashFirst ==
  /\ w.pc = "puboff"
  /\ idx' = [idx EXCEPT ![w.i].hash = Hash[w.key]]
  /\ w' = [w EXCEPT !.pc = "pubhash"]
  /\ UNCHANGED <<hint, hd, body, head, tail, live, liveBytes, aside>>

PublishOff ==
  /\ w.pc = "puboff"
  /\ idx' = [idx EXCEPT ![w.i].off = w.pos]
  /\ w' = [w EXCEPT !.pc = "pubhash"]
  /\ UNCHANGED <<hint, hd, body, head, tail, live, liveBytes, aside>>

PublishHash ==
  /\ w.pc = "pubhash"
  /\ idx' = [idx EXCEPT ![w.i].hash = Hash[w.key]]
  /\ hint' = [hint EXCEPT ![w.i] = TRUE]
  /\ live' = live + 1 /\ liveBytes' = liveBytes + w.n
  /\ w' = IdleWriter
  /\ UNCHANGED <<hd, body, head, tail, aside>>

-----------------------------------------------------------------------------
(* storeDelete, storeClear, SweepExpired.                                  *)

Delete(k) ==
  /\ w.pc = "idle" /\ nops < MaxOps
  /\ nops' = nops + 1
  /\ w' = IF FindSlot(k) >= 0 THEN Removing(FindSlot(k), "removed") ELSE w
  /\ UNCHANGED <<idx, hint, hd, body, head, tail, live, liveBytes, aged, cursor>>

Removed ==
  /\ w.pc = "removed"
  /\ Uncount
  /\ w' = IdleWriter
  /\ UNCHANGED <<idx, hint, hd, body, head, tail, aside>>

Clear ==
  /\ TRUE \in Clears /\ w.pc = "idle" /\ nops < MaxOps
  /\ nops' = nops + 1
  /\ idx' = [s \in Slot |-> [hash |-> Empty, off |-> 0]]
  /\ hint' = [s \in Slot |-> FALSE]
  /\ w' = [IdleWriter EXCEPT !.pc = "clear"]
  /\ UNCHANGED <<hd, body, head, tail, live, liveBytes, aged, cursor>>

Cleared ==
  /\ w.pc = "clear"
  /\ tail' = head /\ live' = 0 /\ liveBytes' = 0
  /\ w' = IdleWriter
  /\ UNCHANGED <<idx, hint, hd, body, head, aside>>

\* The expiry of a version passes.
Age(v) ==
  /\ v \notin aged
  /\ \E s \in Slot : LET e == HdrAt(idx[s].off) IN
       idx[s].hash # Empty /\ e.ver = v /\ e.ttl
  /\ aged' = aged \cup {v}
  /\ UNCHANGED <<wvars, hint>>

\* w.i is the slot under the scan, w.n the slots scanned, w.j where it began.
SweepBegin ==
  /\ TRUE \in Ttls /\ w.pc = "idle" /\ nops < MaxOps
  /\ nops' = nops + 1
  /\ w' = [IdleWriter EXCEPT !.pc = "sweep", !.i = cursor, !.pos = cursor, !.now = aged]
  /\ UNCHANGED <<idx, hint, hd, body, head, tail, live, liveBytes, aged, cursor>>

Scanning == w.pc = "sweep" /\ w.i < Slots /\ w.n < Slice
ExpiredAt(s) == idx[s].hash # Empty /\ HdrAt(idx[s].off).ver \in w.now

SweepSkip ==
  /\ Scanning /\ ~ExpiredAt(w.i)
  /\ w' = [w EXCEPT !.i = @ + 1, !.n = @ + 1]
  /\ UNCHANGED <<idx, hint, hd, body, head, tail, live, liveBytes, aside>>

SweepRemove ==
  /\ Scanning /\ ExpiredAt(w.i)
  /\ w' = [Removing(w.i, "swept") EXCEPT !.guard = w.i]
  /\ UNCHANGED <<idx, hint, hd, body, head, tail, live, liveBytes, aside>>

\* mutant: the scan goes on to the next slot after a removal
Swept_advance ==
  /\ w.pc = "swept"
  /\ Uncount
  /\ w' = [w EXCEPT !.pc = "sweep", !.i = w.guard + 1, !.n = @ + 1]
  /\ UNCHANGED <<idx, hint, hd, body, head, tail, aside>>

\* The backward shift may have refilled the slot: it is scanned again.
Swept ==
  /\ w.pc = "swept"
  /\ Uncount
  /\ w' = [w EXCEPT !.pc = "sweep", !.i = w.guard, !.n = @ + 1]
  /\ UNCHANGED <<idx, hint, hd, body, head, tail, aside>>

SweepEnd ==
  /\ w.pc = "sweep" /\ ~Scanning
  /\ cursor' = IF w.i >= Slots THEN 0 ELSE w.i
  /\ w' = IdleWriter
  /\ UNCHANGED <<idx, hint, hd, body, head, tail, live, liveBytes, aged, nops>>

-----------------------------------------------------------------------------
(* storeGet in a worker, one load at a time.                               *)

Reading == r.pc \notin {"idle", "done"}
Published(k) ==                            \* versions of k in the index
  {HdrAt(idx[s].off).ver : s \in {s \in Slot : /\ idx[s].hash = Hash[k]
                                              /\ HdrAt(idx[s].off).key = k}}

ReadBegin(k) ==
  /\ ~Reading
  /\ r' = [IdleReader EXCEPT !.pc = "probe", !.key = k, !.i = Home(Hash[k]),
                             !.now = aged, !.ok = Published(k), !.quiet = (w.pc = "idle")]

Miss == r' = [r EXCEPT !.pc = "done"]
Retry == r' = [r EXCEPT !.pc = "seq", !.retry = TRUE, !.copy = <<>>]

Probe ==
  /\ r.pc = "probe"
  /\ CASE idx[r.i].hash = Empty -> Miss
       [] idx[r.i].hash = Hash[r.key] -> r' = [r EXCEPT !.pc = "off"]
       [] OTHER -> r' = [r EXCEPT !.i = At(r.i, 1), !.probes = @ + 1,
                                  !.pc = IF r.probes + 1 < Slots THEN "probe" ELSE "done"]

LoadOff ==
  /\ r.pc = "off"
  /\ r' = [r EXCEPT !.pc = "seq", !.pos = idx[r.i].off]

\* A retry first asks whether the record is dead, and is not made for ever.
LoadSeq ==
  /\ r.pc = "seq"
  /\ \/ r.retry /\ Miss
     \/ ~(r.retry /\ tail > r.pos)
        /\ \E s \in SeqsAt(Phys(r.pos)) :
             r' = IF s % 2 = 1 THEN [r EXCEPT !.retry = TRUE]
                  ELSE [r EXCEPT !.pc = "fields", !.seq = s]

Stable(u) == hd[u].seq >= 0 /\ hd[u].seq % 2 = 0

\* The lengths, the hash, the key compare. In a word that is no header, or in one
\* being written, a reader may find any of them, its own key's included.
LoadFields ==
  /\ r.pc = "fields"
  /\ LET u == Phys(r.pos)
         Found(k, n, eh) ==
           IF n > Data - u THEN Retry
           ELSE IF k # r.key THEN Miss
           ELSE r' = [r EXCEPT !.pc = "copy", !.n = n, !.eh = eh]
     IN  IF Stable(u) THEN Found(hd[u].key, hd[u].size, hd[u].hash = Hash[r.key])
         ELSE \E k \in {r.key, NoKey}, n \in Sizes, eh \in BOOLEAN : Found(k, n, eh)

CopyWord ==
  /\ r.pc = "copy"
  /\ LET c == Append(r.copy, body[Phys(r.pos) + Hdr + Len(r.copy)]) IN
     r' = [r EXCEPT !.copy = c, !.pc = IF Hdr + Len(c) = r.n THEN "seq2" ELSE "copy"]

LoadSeqAgain ==
  /\ r.pc = "seq2"
  /\ \E s \in SeqsAt(Phys(r.pos)) :
       IF s = r.seq /\ r.eh THEN r' = [r EXCEPT !.pc = "tail"] ELSE Retry

ReadWord == Probe \/ LoadOff \/ LoadSeq \/ LoadFields \/ CopyWord \/ LoadSeqAgain

\* mutant: the sequence word alone decides
CheckTail_seqlockOnly ==
  /\ r.pc = "tail"
  /\ LET hit == r.copy[1][1] \notin r.now IN
     /\ r' = [r EXCEPT !.pc = "done", !.hit = hit]
     /\ hint' = IF hit THEN [hint EXCEPT ![r.i] = TRUE] ELSE hint

\* The published tail, the expiry, the reference bit of the slot.
CheckTail ==
  /\ r.pc = "tail"
  /\ LET hit == tail <= r.pos /\ r.copy[1][1] \notin r.now IN
     /\ r' = [r EXCEPT !.pc = "done", !.hit = hit]
     /\ hint' = IF hit THEN [hint EXCEPT ![r.i] = TRUE] ELSE hint

-----------------------------------------------------------------------------

WriterStep ==
  \/ \E k \in Keys, n \in Sizes, t \in Ttls : SetBegin(k, n, t)
  \/ \E k \in Keys : Delete(k)
  \/ Clear \/ Cleared \/ SweepBegin \/ SweepSkip \/ SweepRemove \/ Swept \/ SweepEnd
  \/ RemoveEmpty \/ RemoveMoveOff \/ RemoveMoveHash \/ Removed
  \/ DropDead \/ DropLive \/ Evicted \/ Bump
  \/ ReappendInPlace \/ ReappendCopy \/ ReappendCopied \/ ReappendPublish
  \/ PressDone \/ AllocGap \/ AllocPad \/ AllocPadded \/ AllocTake
  \/ RefuseSlot \/ Refused \/ SetUnlink \/ Unlinked
  \/ Write \/ Written \/ PublishOff \/ PublishHash

\* What a read in progress is held to: the versions published since it began, and
\* whether the writer left it alone. The result of a read is forgotten.
Observe ==
  r' = IF ~Reading THEN IdleReader
       ELSE [r EXCEPT !.quiet = FALSE,
                      !.ok = IF w.pc \in {"puboff", "pubhash"} /\ w.key = r.key
                             THEN @ \cup {w.ver} ELSE @]

Next ==
  \/ WriterStep /\ Observe
  \/ \E v \in 1 .. nops : Age(v) /\ Observe
  \/ \E k \in ReadKeys : ReadBegin(k) /\ UNCHANGED <<wvars, hint, aged>>
  \/ ReadWord /\ UNCHANGED <<wvars, hint, aged>>
  \/ CheckTail /\ UNCHANGED <<wvars, aged>>

Spec == Init /\ [][Next]_vars

\* The primary's event loop runs an operation it has begun to its end.
FairSpec == Spec /\ WF_vars(w.pc # "idle" /\ WriterStep /\ Observe)

-----------------------------------------------------------------------------
(* Properties.                                                             *)

Occupied == {s \in Slot : idx[s].hash # Empty}
Entry(s) == HdrAt(idx[s].off)

Headers ==
  [seq : Seqs \cup {-1}, slot : Slot \cup {Pad}, hash : Nat, size : 0 .. Data,
   key : Keys \cup {NoKey}, ver : 0 .. MaxOps, ttl : BOOLEAN]

\* The types of the variables; the log never holds more than the data region.
TypeOK ==
  /\ idx \in [Slot -> [hash : {Empty} \cup {Hash[k] : k \in Keys}, off : Nat]]
  /\ hint \in [Slot -> BOOLEAN]
  /\ hd \in [Units -> Headers]
  /\ body \in [Units -> (0 .. MaxOps) \X Units]
  /\ head \in Nat /\ tail \in Nat /\ tail <= head /\ head - tail <= Data
  /\ live \in 0 .. Slots /\ liveBytes \in 0 .. Data
  /\ aged \subseteq 1 .. MaxOps /\ cursor \in Slot

\* What the index points at is there: a complete, settled record of the slot's hash
\* at or past the tail, whatever the log is doing. A record written or copied at the
\* head may not touch it (store_ops.h 143-147), nor may the tail pass it.
LiveIntact ==
  \A s \in Occupied : LET p == idx[s].off  e == Entry(s) IN
    /\ tail <= p /\ p <= head
    /\ Stable(Phys(p)) /\ e.hash = idx[s].hash /\ e.size > Hdr
    /\ \A x \in Hdr .. e.size - 1 : body[Phys(p) + x] = <<e.ver, x>>

\* Between operations every entry is found by the probe for its key, so no key is
\* stored twice and the backward shift has lost nothing, and each record knows its
\* slot, by which eviction unlinks it; live and liveBytes, by which storeSet judges
\* the index, are what it holds.
IndexSound ==
  /\ TypeOK
  /\ w.pc = "idle" =>
       /\ \A s \in Occupied : FindSlot(Entry(s).key) = s /\ Entry(s).slot = s
       /\ live = Cardinality(Occupied)
       /\ liveBytes = MapThenSumSet(LAMBDA s : Entry(s).size, Occupied)

\* The tail always stands on a record, a pad or a gap, also after a set that was
\* refused a slot: the walk never meets a block size that cannot be.
TailAtRecord ==
  w.pc = "idle" /\ tail < head =>
    \/ GapAt(tail) > 0
    \/ Stable(Phys(tail)) /\ TailRec.size > 0 /\ tail + TailRec.size <= head

\* A sweep leaves no entry behind it that had expired when it began, although the
\* backward shift moves entries under the scan.
SweepLeavesNone ==
  w.pc = "sweep" => \A s \in w.pos .. w.i - 1 : ~ExpiredAt(s)

\* A hit is one whole value, never bytes of two, and one the index held for the key at
\* some moment of the read, although the log may reuse the block at any moment of the
\* copy and the bytes may then be somebody's payload.
HitCurrent ==
  r.hit => \E v \in r.ok : \A x \in 1 .. r.n - Hdr : r.copy[x] = <<v, Hdr + x - 1>>

\* A read the writer leaves alone finds what is there.
QuietReadHits ==
  r.pc = "done" /\ r.quiet => (r.hit <=> \E v \in r.ok : v \notin r.now)

\* Every operation of the writer returns: second chance, however many entries are
\* referenced, never keeps the allocator from making room.
WriterReturns == w.pc # "idle" ~> w.pc = "idle"

=============================================================================
