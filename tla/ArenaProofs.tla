---------------------------- MODULE ArenaProofs ----------------------------
(***************************************************************************)
(* Proofs about Arena, for any index, any data region, any sizes and any   *)
(* budgets: the log never overwrites, and its tail never passes, a record  *)
(* that the index points at; and a worker's hit is a whole, current value. *)
(*                                                                         *)
(* The argument rests on the set S of the positions between tail and head  *)
(* at which a block starts. Each block of the log ends where another of S  *)
(* starts, so the walk of the tail never loses its footing; and the blocks *)
(* lie within one lap of the region, so what is written at the head falls  *)
(* on none of them. A block that the tail has not passed is therefore held *)
(* as it was, and the published tail is all a worker needs to know that    *)
(* the words it has copied are one record's. Of the index they show        *)
(* that its probes find every entry, that a sweep passes none that has     *)
(* expired, and that a read the writer leaves alone finds what is there.   *)
(***************************************************************************)
EXTENDS Arena, FiniteSetTheorems, WellFoundedInduction, TLAPS

-----------------------------------------------------------------------------
(* Blocks, of a memory h of headers and b of words.                        *)

Sits(h, p) == h[Phys(p)].seq \in {0, 2}

\* A block the tail can step over: a gap at the end, or a settled header.
Whole(h, p) ==
  GapAt(p) > 0 \/ (Sits(h, p) /\ h[Phys(p)].size \in 1 .. Remain(p))
Span(h, p) == IF GapAt(p) > 0 THEN GapAt(p) ELSE h[Phys(p)].size

\* S is the set of block starts of a log from t to top.
Chain(S, h, t, top) ==
  /\ S \subseteq Nat /\ t \in S /\ top \in S
  /\ \A p \in S : t <= p /\ p <= top
  /\ \A p \in S : p < top =>
       /\ Whole(h, p) /\ p + Span(h, p) \in S
       /\ \A q \in S : q <= p \/ p + Span(h, p) <= q

\* A whole record of that hash.
Rec(h, b, p, hash) ==
  /\ Sits(h, p)
  /\ h[Phys(p)].hash = hash /\ h[Phys(p)].size > Hdr /\ h[Phys(p)].size <= Remain(p)
  /\ h[Phys(p)].key \in Keys /\ hash = Hash[h[Phys(p)].key]
  /\ \A x \in Hdr .. h[Phys(p)].size - 1 : b[Phys(p) + x] = <<h[Phys(p)].ver, x>>

-----------------------------------------------------------------------------
(* The writer.                                                             *)

Shifts == {"empty", "moveoff", "movehash"}
Returns == {"evicted", "unlinked", "removed", "swept"}
Moves == {"copying", "copied", "bump"}
SetStages == {"press", "alloc", "padding", "slot", "refuse", "unlinked", "write",
              "writing", "puboff", "pubhash"}
Pcs == Shifts \cup Returns \cup Moves \cup SetStages \cup {"idle", "sweep", "clear"}

\* What the writer is at while indexRemove runs, and while the tail is moved.
Stage == IF w.pc \in Shifts THEN w.ret ELSE w.pc
Dropping == Stage \in Moves \cup {"evicted"}
Phase == IF Dropping THEN w.loop ELSE Stage

\* The block at w.pos is allocated and not yet written.
Taken == Stage \in {"slot", "refuse", "unlinked", "write", "writing"}
Top == IF Taken THEN w.pos ELSE head

\* A header that names a slot names a hash, and one that names a key has a payload.
Hdrs == {e \in [seq : Seqs \cup {-1}, slot : Slot \cup {Pad}, hash : Nat, size : Nat,
                key : Keys \cup {NoKey}, ver : Nat, ttl : BOOLEAN] :
           /\ e.slot # Pad => e.hash # Empty
           /\ e.key # NoKey => e.size > Hdr}
Writers == [pc : Pcs, key : Keys \cup {NoKey}, n : Nat, ver : Nat, ttl : BOOLEAN,
            budget : Nat, guard : Nat, i : Nat, j : Nat, pos : Nat, size : Nat,
            ret : Pcs, loop : Pcs, now : SUBSET Nat]

Typed ==
  /\ idx \in [Slot -> [hash : Nat, off : Nat]]
  /\ hd \in [Units -> Hdrs] /\ body \in [Units -> Nat \X Nat]
  /\ head \in Nat /\ tail \in Nat
  /\ w \in Writers /\ nops \in Nat /\ cursor \in Nat /\ aged \in SUBSET Nat

Staged ==
  /\ w.pc \in Shifts => w.ret \in Returns /\ w.i \in Slot
  /\ w.pc \in {"moveoff", "movehash"} =>
       /\ w.j \in Slot /\ w.j # w.i
       /\ idx[w.j].hash # Empty /\ idx[w.i].hash = Empty
  /\ w.pc = "movehash" => idx[w.i].off = idx[w.j].off /\ Entry(w.j).slot = w.i
  /\ w.pc \in {"unlinked", "write", "writing", "puboff", "pubhash"} =>
       w.i \in Slot /\ idx[w.i].hash = Empty
  /\ w.pc = "clear" => \A s \in Slot : idx[s].hash = Empty
  /\ Dropping => w.loop \in {"press", "alloc"}
  /\ Phase \in SetStages =>
       /\ w.key \in Keys /\ w.n > Hdr
       /\ Phase # "press" => w.n <= Data \div 2

Laid ==
  /\ head - tail <= Data
  /\ Taken => head = w.pos + w.n /\ w.n <= Remain(w.pos)
  /\ w.pc \in {"refuse", "writing"} => hd[Phys(w.pos)].seq \in {1, 3}
  /\ w.pc = "padding" =>
       /\ GapAt(head) = 0 /\ Remain(head) <= Free
       /\ hd[Phys(head)].seq \in {1, 3}

\* The record at the tail, while it is evicted or carried to the head.
AtTail ==
  /\ Dropping => tail < head /\ GapAt(tail) = 0 /\ w.size = TailRec.size
  /\ w.pc \in Moves =>
       /\ TailRec.slot \in Slot /\ idx[TailRec.slot].hash # Empty
       /\ w.size <= Remain(head)
  /\ w.pc \in {"copying", "copied"} =>
       idx[TailRec.slot].off = tail /\ w.size <= Free
  /\ w.pc = "copying" => hd[Phys(head)].seq \in {1, 3}
  /\ w.pc = "copied" =>
       /\ Rec(hd, body, head, idx[TailRec.slot].hash)
       /\ HdrAt(head).slot = TailRec.slot /\ HdrAt(head).size = w.size
       /\ HdrAt(head).key = TailRec.key /\ HdrAt(head).ver = TailRec.ver
  /\ w.pc = "bump" => idx[TailRec.slot].off = head /\ HdrAt(head).size = w.size

\* The record a set has written and not yet published.
AtHead(S) ==
  /\ w.pc \in {"puboff", "pubhash"} =>
       /\ w.pos \in S /\ w.pos < head
       /\ Rec(hd, body, w.pos, Hash[w.key]) /\ HdrAt(w.pos).slot = w.i
       /\ HdrAt(w.pos).key = w.key /\ HdrAt(w.pos).ver = w.ver /\ HdrAt(w.pos).size = w.n
  /\ w.pc = "pubhash" => idx[w.i].off = w.pos

\* The slot that is being emptied, and the one an entry has just left.
Loose(s) == (w.pc = "empty" /\ s = w.i) \/ (w.pc = "movehash" /\ s = w.j)

Indexed(S) ==
  \A s \in Slot : idx[s].hash # Empty =>
    /\ idx[s].off \in S
    /\ idx[s].off < Top \/ (w.pc = "bump" /\ s = TailRec.slot)
    /\ Rec(hd, body, idx[s].off, idx[s].hash)
    /\ ~Loose(s) => Entry(s).slot = s
    /\ idx[s].off = tail =>
         w.pc # "bump" /\ (Stage = "evicted" => w.pc = "empty" /\ s = w.i)

Inv(S) ==
  Chain(S, hd, tail, Top) /\ Typed /\ Staged /\ Laid /\ AtTail /\ AtHead(S) /\ Indexed(S)

-----------------------------------------------------------------------------
(* Positions and words.                                                    *)

LEMMA Constants ==
  /\ Data \in Nat /\ Data > 0 /\ Hdr \in Nat /\ 0 < Hdr /\ Hdr <= Data
  /\ Slots \in Nat /\ Slots > 0
  /\ Hash \in [Keys -> Nat \ {0, 1}]
  /\ \A n \in Sizes : n \in Nat /\ n > Hdr
BY ArenaAssumption

\* A number is a number of laps and a remainder.
LEMMA Laps ==
  ASSUME NEW M \in Nat \ {0}, NEW x \in Int
  PROVE  /\ x % M \in 0 .. (M - 1)
         /\ \E q \in Int : x = M * q + (x % M)
<1>1. x % M \in 0 .. (M - 1)
  OBVIOUS
<1>2. x = M * (x \div M) + (x % M) /\ x \div M \in Int
  OBVIOUS
<1> QED BY <1>1, <1>2, Zenon

\* Less than a lap apart, two numbers have different remainders.
LEMMA LessThanALap ==
  ASSUME NEW M \in Nat \ {0}, NEW a \in Int, NEW b \in Int, a < b, b < a + M
  PROVE  a % M # b % M
<1>1. PICK q \in Int : a = M * q + (a % M)
  BY Laps
<1>2. PICK s \in Int : b = M * s + (b % M)
  BY Laps
<1>3. PICK x, y : x = a % M /\ y = b % M
  OBVIOUS
<1>4. x \in 0 .. M - 1 /\ y \in 0 .. M - 1 /\ a = M * q + x /\ b = M * s + y
  BY <1>1, <1>2, <1>3, Laps
<1> SUFFICES ASSUME x = y PROVE FALSE
  BY <1>3
<1>5. CASE s = q
  BY <1>4, <1>5
<1>6. CASE s >= q + 1
  <2>1. M * s >= M * (q + 1) /\ M * (q + 1) = M * q + M
    BY <1>6
  <2> QED BY <1>4, <2>1
<1>7. CASE q >= s + 1
  <2>1. M * q >= M * (s + 1) /\ M * (s + 1) = M * s + M
    BY <1>7
  <2> QED BY <1>4, <2>1
<1> QED BY <1>5, <1>6, <1>7

\* Adding to a number adds to its remainder, up to the end of the lap.
LEMMA WithinALap ==
  ASSUME NEW M \in Nat \ {0}, NEW a \in Int, NEW d \in Nat, (a % M) + d < M
  PROVE  (a + d) % M = (a % M) + d
<1>1. PICK q \in Int : a = M * q + (a % M)
  BY Laps
<1>0. PICK c \in Int : c = a + d
  OBVIOUS
<1>2. PICK s \in Int : c = M * s + (c % M)
  BY Laps
<1>3. PICK x, y : x = a % M /\ y = c % M
  OBVIOUS
<1>4. x \in 0 .. M - 1 /\ y \in 0 .. M - 1 /\ a = M * q + x /\ a + d = M * s + y
  BY <1>0, <1>1, <1>2, <1>3, Laps
<1>8. x + d < M
  BY <1>3
<1> SUFFICES y = x + d
  BY <1>0, <1>3
<1>5. CASE s = q
  BY <1>4, <1>5
<1>6. CASE s >= q + 1
  <2>1. M * s >= M * (q + 1) /\ M * (q + 1) = M * q + M
    BY <1>6
  <2> QED BY <1>4, <1>8, <2>1
<1>7. CASE q >= s + 1
  <2>1. M * q >= M * (s + 1) /\ M * (s + 1) = M * s + M
    BY <1>7
  <2> QED BY <1>4, <1>8, <2>1
<1> QED BY <1>5, <1>6, <1>7

LEMMA PhysType ==
  ASSUME NEW p \in Nat
  PROVE  /\ Phys(p) \in Nat /\ Phys(p) < Data /\ Phys(p) \in Units
         /\ Remain(p) \in Nat /\ Remain(p) = Data - Phys(p) /\ 0 < Remain(p) /\ Remain(p) <= Data
         /\ GapAt(p) \in Nat /\ GapAt(p) < Hdr
         /\ GapAt(p) > 0 => GapAt(p) = Remain(p)
         /\ Remain(p) >= Hdr <=> GapAt(p) = 0
<1>1. Phys(p) \in 0 .. (Data - 1)
  BY Constants, Laps DEF Phys
<1> QED BY <1>1, Constants DEF Remain, GapAt, Units

\* The words of two blocks that lie within one lap of the region are distinct.
LEMMA Apart ==
  ASSUME NEW p \in Nat, NEW q \in Nat, NEW x \in Nat, NEW y \in Nat,
         x < Remain(p), y < Remain(q), p + x < q + y, q + y < p + x + Data
  PROVE  Phys(p) + x # Phys(q) + y
<1>0. /\ Data \in Nat \ {0} /\ p \in Int /\ q \in Int
      /\ (p % Data) + x < Data /\ (q % Data) + y < Data
  BY Constants, PhysType DEF Phys
<1>1. (p + x) % Data = (p % Data) + x
  BY <1>0, WithinALap
<1>2. (q + y) % Data = (q % Data) + y
  BY <1>0, WithinALap
<1>3. (p + x) % Data # (q + y) % Data
  <2>1. PICK a, b : a = p + x /\ b = q + y
    OBVIOUS
  <2>2. a \in Int /\ b \in Int /\ a < b /\ b < a + Data
    BY <2>1, Constants
  <2>3. a % Data # b % Data
    BY <1>0, <2>2, LessThanALap
  <2> QED BY <2>1, <2>3
<1> QED BY <1>1, <1>2, <1>3 DEF Phys

LEMMA PhysApart ==
  ASSUME NEW p \in Nat, NEW q \in Nat, p < q, q < p + Data
  PROVE  Phys(p) # Phys(q)
<1>1. Data \in Nat \ {0} /\ p \in Int /\ q \in Int
  BY Constants
<1>2. p % Data # q % Data
  BY <1>1, LessThanALap
<1> QED BY <1>2 DEF Phys

\* A non-empty set of numbers has a least.
LEMMA Least ==
  ASSUME NEW T, T \subseteq Nat, T # {}
  PROVE  \E x \in T : \A y \in T : x <= y
<1> DEFINE R == OpToRel(<, Nat)
<1>1. IsWellFoundedOn(R, Nat)
  BY NatLessThanWellFounded
<1>2. \A x, y \in Nat : <<y, x>> \in R <=> y < x
  BY DEF OpToRel
<1> HIDE DEF R
<1>3. PICK x \in T : \A y \in T : ~(<<y, x>> \in R)
  BY <1>1, WFMin
<1>4. \A y \in T : ~(y < x) /\ x \in Nat /\ y \in Nat
  BY <1>2, <1>3
<1> QED BY <1>4
-----------------------------------------------------------------------------
(* Chains of blocks.                                                       *)

LEMMA SpanType ==
  ASSUME NEW h \in [Units -> Hdrs], NEW p \in Nat, Whole(h, p)
  PROVE  Span(h, p) \in Nat /\ 0 < Span(h, p) /\ Span(h, p) <= Remain(p)
<1>1. h[Phys(p)].size \in Nat
  BY PhysType DEF Hdrs
<1> QED BY <1>1, PhysType DEF Whole, Span

\* A chain depends on nothing of the headers but their state and their size.
LEMMA ChainSame ==
  ASSUME NEW S, NEW h, NEW h2, NEW t, NEW top, Chain(S, h, t, top),
         \A p \in S : p < top /\ GapAt(p) = 0 =>
           /\ h2[Phys(p)].seq = h[Phys(p)].seq
           /\ h2[Phys(p)].size = h[Phys(p)].size
  PROVE  Chain(S, h2, t, top)
<1>1. ASSUME NEW p \in S, p < top
      PROVE  Whole(h2, p) /\ Span(h2, p) = Span(h, p)
  <2>1. p \in Nat /\ Whole(h, p)
    BY <1>1 DEF Chain
  <2>2. CASE GapAt(p) > 0
    BY <2>2 DEF Whole, Span
  <2>3. CASE GapAt(p) = 0
    BY <1>1, <2>1, <2>3, PhysType DEF Whole, Span, Sits
  <2> QED BY <2>1, <2>2, <2>3, PhysType
<1> QED BY <1>1 DEF Chain

\* The head steps over a block that is whole.
LEMMA ChainGrow ==
  ASSUME NEW S, NEW h \in [Units -> Hdrs], NEW t \in Nat, NEW top \in Nat, NEW n,
         Chain(S, h, t, top), Whole(h, top), n = Span(h, top)
  PROVE  Chain(S \cup {top + n}, h, t, top + n)
<1>1. n \in Nat /\ n > 0
  BY SpanType
<1>2. \A p \in S : p \in Nat /\ t <= p /\ p <= top
  BY DEF Chain
<1>3. ASSUME NEW p \in S, p < top
      PROVE  /\ Whole(h, p) /\ p + Span(h, p) \in S /\ Span(h, p) \in Nat
             /\ \A q \in S : q <= p \/ p + Span(h, p) <= q
             /\ p + Span(h, p) <= top
  BY <1>2, <1>3, SpanType DEF Chain
<1>0. S \subseteq Nat /\ t \in S
  BY DEF Chain
<1> DEFINE T == S \cup {top + n}
<1>4. T \subseteq Nat /\ t \in T /\ top + n \in T
  <2>1. top + n \in Nat
    BY <1>1
  <2> QED BY <1>0, <2>1
<1>5. \A p \in T : t <= p /\ p <= top + n
  BY <1>1, <1>2 DEF Chain
<1>6. ASSUME NEW p \in T, p < top + n
      PROVE  /\ Whole(h, p) /\ p + Span(h, p) \in T
             /\ \A q \in T : q <= p \/ p + Span(h, p) <= q
  <2>1. p \in S
    BY <1>1, <1>6
  <2>2. CASE p = top
    BY <1>1, <1>2, <2>2
  <2>3. CASE p < top
    <3>1. ASSUME NEW q \in T PROVE q <= p \/ p + Span(h, p) <= q
      <4>1. CASE q \in S
        BY <1>3, <2>1, <2>3, <4>1
      <4>2. CASE q = top + n
        BY <1>1, <1>2, <1>3, <2>1, <2>3, <4>2
      <4> QED BY <3>1, <4>1, <4>2
    <3> QED BY <1>3, <2>1, <2>3, <3>1
  <2> QED BY <1>2, <2>1, <2>2, <2>3
<1> HIDE DEF T
<1>7. Chain(T, h, t, top + n)
  BY <1>4, <1>5, <1>6 DEF Chain
<1> QED BY <1>7 DEF T

\* The tail steps over a block.
LEMMA ChainDrop ==
  ASSUME NEW S, NEW h \in [Units -> Hdrs], NEW t \in Nat, NEW top \in Nat,
         Chain(S, h, t, top), t < top
  PROVE  Chain(S \ {t}, h, t + Span(h, t), top)
<1>1. t \in S /\ Whole(h, t) /\ t + Span(h, t) \in S
  BY DEF Chain
<1>2. Span(h, t) \in Nat /\ 0 < Span(h, t)
  BY <1>1, SpanType
<1>3. \A p \in S : p \in Nat /\ t <= p /\ p <= top
  BY DEF Chain
<1>4. ASSUME NEW p \in S, p # t PROVE t + Span(h, t) <= p
  <2>1. p <= t \/ t + Span(h, t) <= p
    BY <1>1 DEF Chain
  <2> QED BY <1>3, <1>4, <2>1
<1>5. ASSUME NEW p \in S, p < top
      PROVE  p + Span(h, p) \in S /\ p + Span(h, p) # t
  <2>1. p \in Nat /\ Whole(h, p) /\ p + Span(h, p) \in S /\ t <= p
    BY <1>5 DEF Chain
  <2> QED BY <2>1, SpanType
<1> QED BY <1>1, <1>2, <1>3, <1>4, <1>5 DEF Chain

LEMMA ChainOne ==
  ASSUME NEW h, NEW p \in Nat
  PROVE  Chain({p}, h, p, p)
BY DEF Chain

LEMMA ChainFacts ==
  ASSUME NEW S, NEW h \in [Units -> Hdrs], NEW t \in Nat, NEW top \in Nat,
         Chain(S, h, t, top), NEW p \in S, p < top
  PROVE  /\ p \in Nat /\ t <= p /\ Span(h, p) \in Nat /\ 0 < Span(h, p)
         /\ Span(h, p) <= Remain(p) /\ p + Span(h, p) \in S /\ p + Span(h, p) <= top
<1>1. p \in Nat /\ t <= p /\ Whole(h, p) /\ p + Span(h, p) \in S
  BY DEF Chain
<1> QED BY <1>1, SpanType DEF Chain

\* Nothing written past the chain, within a lap of its tail, falls on it.
LEMMA Untouched ==
  ASSUME NEW S, NEW h \in [Units -> Hdrs], NEW t \in Nat, NEW top \in Nat,
         Chain(S, h, t, top), NEW p \in S, p < top,
         NEW q \in Nat, NEW m \in Nat, top <= q, q + m <= t + Data, m <= Remain(q),
         NEW x \in Nat, x < Span(h, p)
  PROVE  Phys(p) + x \in Units /\ Phys(p) + x \notin Phys(q) .. Phys(q) + m - 1
<1>1. /\ p \in Nat /\ t <= p /\ Span(h, p) \in Nat /\ Span(h, p) <= Remain(p)
      /\ p + Span(h, p) <= top
  BY ChainFacts
<1>2. Phys(p) \in Nat /\ Remain(p) \in Nat /\ Remain(p) = Data - Phys(p)
  BY <1>1, PhysType
<1>3. Phys(q) \in Nat /\ Remain(q) \in Nat
  BY PhysType
<1>4. Phys(p) + x \in Units
  BY <1>1, <1>2, Constants DEF Units
<1>5. ASSUME Phys(p) + x \in Phys(q) .. Phys(q) + m - 1 PROVE FALSE
  <2>1. PICK y \in Int : y = Phys(p) + x - Phys(q)
    BY <1>2, <1>3
  <2>2. y \in Nat /\ y < m /\ Phys(p) + x = Phys(q) + y
    BY <1>2, <1>3, <1>5, <2>1
  <2>3. /\ x < Remain(p) /\ y < Remain(q) /\ p + x < q + y
        /\ q + y < p + x + Data
    BY <1>1, <1>2, <1>3, <2>2, Constants
  <2> QED BY <1>1, <2>2, <2>3, Apart
<1> QED BY <1>4, <1>5
\* h2 and b2 differ from h and b in no word outside m words from q.
Writes(h, b, h2, b2, q, m) ==
  \A u \in Units : u \notin Phys(q) .. Phys(q) + m - 1 => h2[u] = h[u] /\ b2[u] = b[u]

LEMMA ChainKept ==
  ASSUME NEW S, NEW h \in [Units -> Hdrs], NEW t \in Nat, NEW top \in Nat,
         Chain(S, h, t, top),
         NEW q \in Nat, NEW m \in Nat, top <= q, q + m <= t + Data, m <= Remain(q),
         NEW b, NEW h2, NEW b2, Writes(h, b, h2, b2, q, m)
  PROVE  /\ Chain(S, h2, t, top)
         /\ \A p \in S : p < top => h2[Phys(p)] = h[Phys(p)]
<1>1. ASSUME NEW p \in S, p < top PROVE h2[Phys(p)] = h[Phys(p)]
  <2>1. p \in Nat /\ 0 < Span(h, p)
    BY <1>1, ChainFacts
  <2>2. Phys(p) + 0 \in Units /\ Phys(p) + 0 \notin Phys(q) .. Phys(q) + m - 1
    BY <1>1, <2>1, Untouched
  <2>3. Phys(p) + 0 = Phys(p)
    BY <2>1, PhysType
  <2> QED BY <2>2, <2>3 DEF Writes
<1>2. Chain(S, h2, t, top)
  BY <1>1, ChainSame
<1> QED BY <1>1, <1>2

LEMMA RecFacts ==
  ASSUME NEW h \in [Units -> Hdrs], NEW b, NEW p \in Nat, NEW hash, Rec(h, b, p, hash)
  PROVE  /\ GapAt(p) = 0 /\ Whole(h, p) /\ Span(h, p) = h[Phys(p)].size
         /\ h[Phys(p)].size \in Nat
<1>1. h[Phys(p)].size \in Nat
  BY PhysType DEF Hdrs
<1>2. Remain(p) \in Nat /\ Remain(p) > Hdr
  BY <1>1, PhysType, Constants DEF Rec
<1>3. GapAt(p) = 0
  BY <1>2, PhysType, Constants
<1> QED BY <1>1, <1>2, <1>3, Constants DEF Rec, Whole, Span

LEMMA RecSame ==
  ASSUME NEW h, NEW b, NEW p, NEW hash, NEW h2, Rec(h, b, p, hash),
         h2[Phys(p)].seq = h[Phys(p)].seq, h2[Phys(p)].hash = h[Phys(p)].hash,
         h2[Phys(p)].size = h[Phys(p)].size, h2[Phys(p)].ver = h[Phys(p)].ver,
         h2[Phys(p)].key = h[Phys(p)].key
  PROVE  Rec(h2, b, p, hash)
BY DEF Rec, Sits

LEMMA RecKept ==
  ASSUME NEW S, NEW h \in [Units -> Hdrs], NEW t \in Nat, NEW top \in Nat,
         Chain(S, h, t, top),
         NEW q \in Nat, NEW m \in Nat, top <= q, q + m <= t + Data, m <= Remain(q),
         NEW b, NEW h2, NEW b2, Writes(h, b, h2, b2, q, m),
         NEW p \in S, p < top, NEW hash, Rec(h, b, p, hash)
  PROVE  Rec(h2, b2, p, hash)
<1>1. p \in Nat
  BY DEF Chain
<1>2. h2[Phys(p)] = h[Phys(p)]
  BY ChainKept
<1>3. PICK e : e = h[Phys(p)]
  OBVIOUS
<1>4. e.size \in Nat /\ Span(h, p) = e.size
  BY <1>1, <1>3, RecFacts
<1>5. ASSUME NEW x \in Hdr .. e.size - 1
      PROVE  b2[Phys(p) + x] = <<e.ver, x>>
  <2>1. x \in Nat /\ x < Span(h, p)
    BY <1>4, Constants
  <2>2. Phys(p) + x \in Units /\ Phys(p) + x \notin Phys(q) .. Phys(q) + m - 1
    BY <2>1, Untouched
  <2>3. b2[Phys(p) + x] = b[Phys(p) + x]
    BY <2>2 DEF Writes
  <2> QED BY <1>3, <2>3 DEF Rec
<1> QED BY <1>2, <1>3, <1>5 DEF Rec, Sits
-----------------------------------------------------------------------------
(* The searches of the index.                                              *)

LEMMA AtType ==
  ASSUME NEW h \in Nat, NEW d \in Nat
  PROVE  At(h, d) \in Slot
<1>1. PICK x \in Int : x = h + d
  OBVIOUS
<1>2. x % Slots \in 0 .. Slots - 1
  BY Constants, Laps
<1> QED BY <1>1, <1>2 DEF At, Slot

\* Every slot is probed.
LEMMA AtOnto ==
  ASSUME NEW h \in Nat, NEW s \in Slot
  PROVE  \E d \in Slot : At(h, d) = s
<1>0. Slots \in Nat \ {0} /\ s \in Int /\ h \in Int
  BY Constants DEF Slot
<1>1. PICK q \in Int : h = Slots * q + (h % Slots)
  BY <1>0, Laps
<1>2. PICK y : y = h % Slots
  OBVIOUS
<1>3. y \in 0 .. Slots - 1 /\ h = Slots * q + y
  BY <1>0, <1>1, <1>2, Laps
<1>4. CASE s >= y
  <2>1. s - y \in Slot /\ (h % Slots) + (s - y) < Slots /\ s - y \in Nat
    BY <1>0, <1>2, <1>3, <1>4 DEF Slot
  <2>2. PICK d \in Nat : d = s - y
    BY <2>1
  <2>5. (h % Slots) + d < Slots
    BY <2>1, <2>2
  <2>3. (h + d) % Slots = (h % Slots) + d
    BY <1>0, <2>5, WithinALap
  <2>4. At(h, d) = s
    BY <1>0, <1>2, <1>3, <2>2, <2>3 DEF At
  <2> QED BY <2>1, <2>2, <2>4
<1>5. CASE s < y
  <2>1. PICK d : d = s + Slots - y
    OBVIOUS
  <2>2. d \in Slot /\ d \in Nat /\ y + d = Slots + s
    BY <1>0, <1>3, <1>5, <2>1 DEF Slot
  <2>3. PICK z : z = h + d
    OBVIOUS
  <2>4. z \in Int /\ z = Slots * q + Slots + s
    BY <1>0, <1>3, <2>2, <2>3
  <2>5. PICK g \in Int : z = Slots * g + (z % Slots)
    BY <1>0, <2>4, Laps
  <2>6. PICK x : x = z % Slots
    OBVIOUS
  <2>7. x \in 0 .. Slots - 1 /\ z = Slots * g + x
    BY <1>0, <2>4, <2>5, <2>6, Laps
  <2>8. Slots * (q + 1) = Slots * q + Slots
    BY <1>0
  <2>9. x = s
    <3>1. CASE g = q + 1
      BY <1>0, <2>4, <2>7, <2>8, <3>1
    <3>2. CASE g >= q + 2
      <4>1. Slots * g >= Slots * (q + 2) /\ Slots * (q + 2) = Slots * q + Slots + Slots
        BY <1>0, <3>2
      <4> QED BY <1>0, <2>4, <2>7, <4>1 DEF Slot
    <3>3. CASE q >= g
      <4>1. Slots * q >= Slots * g
        BY <1>0, <3>3
      <4> QED BY <1>0, <2>4, <2>7, <4>1 DEF Slot
    <3> QED BY <3>1, <3>2, <3>3
  <2>10. At(h, d) = s
    BY <2>3, <2>6, <2>9 DEF At
  <2> QED BY <2>2, <2>10
<1> QED BY <1>0, <1>3, <1>4, <1>5

LEMMA LeastChosen ==
  ASSUME NEW D, D \subseteq Nat, D # {}
  PROVE  (CHOOSE d \in D : \A e \in D : d <= e) \in D
<1>1. \E d \in D : \A e \in D : d <= e
  BY Least
<1> QED BY <1>1

LEMMA FreeSlotFound ==
  ASSUME NEW h \in Nat
  PROVE  /\ FindFreeSlot(h) >= 0 =>
              FindFreeSlot(h) \in Slot /\ idx[FindFreeSlot(h)].hash = Empty
         /\ (\E s \in Slot : idx[s].hash = Empty) => FindFreeSlot(h) >= 0
<1> DEFINE D == {d \in Slot : idx[At(h, d)].hash = Empty}
           c == CHOOSE d \in D : \A e \in D : d <= e
<1>1. D \subseteq Nat
  BY Constants DEF Slot
<1>2. CASE D = {}
  <2>1. FindFreeSlot(h) = -1
    BY <1>2 DEF FindFreeSlot
  <2>2. ASSUME NEW s \in Slot, idx[s].hash = Empty PROVE FALSE
    BY <1>2, <2>2, AtOnto
  <2> QED BY <2>1, <2>2
<1>3. CASE D # {}
  <2> HIDE DEF D
  <2>1. c \in D
    BY <1>1, <1>3, LeastChosen
  <2> USE DEF D
  <2>2. FindFreeSlot(h) = At(h, c)
    BY <1>3 DEF FindFreeSlot
  <2> HIDE DEF c
  <2>3. c \in Nat /\ idx[At(h, c)].hash = Empty
    BY <1>1, <2>1
  <2>4. At(h, c) \in Slot
    BY <2>3, AtType
  <2> QED BY <2>2, <2>3, <2>4, Constants DEF Slot
<1> QED BY <1>2, <1>3

LEMMA SlotFound ==
  ASSUME NEW k \in Keys, FindSlot(k) >= 0
  PROVE  FindSlot(k) \in Slot /\ idx[FindSlot(k)].hash # Empty
<1> DEFINE h == Hash[k]
           D == {d \in Slot : /\ idx[At(h, d)].hash = h
                              /\ HdrAt(idx[At(h, d)].off).key = k
                              /\ \A e \in 0 .. d : idx[At(h, e)].hash # Empty}
           c == CHOOSE d \in D : \A e \in D : d <= e
<1>1. D \subseteq Nat
  BY Constants DEF Slot
<1>2. D # {}
  BY DEF FindSlot
<1>3. FindSlot(k) = At(h, c)
  BY <1>2 DEF FindSlot
<1> HIDE DEF D
<1>4. c \in D
  BY <1>1, <1>2, LeastChosen
<1> USE DEF D
<1> HIDE DEF c
<1>5. c \in Nat /\ idx[At(h, c)].hash = h
  BY <1>1, <1>4
<1>6. h \in Nat /\ h # Empty
  BY Constants DEF Empty
<1>7. At(h, c) \in Slot
  BY <1>5, <1>6, AtType
<1> QED BY <1>3, <1>5, <1>6, <1>7

LEMMA MoverFound ==
  ASSUME NEW i \in Slot
  PROVE  Mover(i) \in Slot /\ (Mover(i) # i => idx[Mover(i)].hash # Empty)
<1> DEFINE D == {d \in 1 .. Slots : \/ d = Slots
                                    \/ idx[At(i, d)].hash = Empty
                                    \/ ~MustStay(i, At(i, d))}
           c == CHOOSE d \in D : \A e \in D : d <= e
           j == At(i, c)
<1>1. D \subseteq Nat /\ Slots \in D
  BY Constants
<1>2. Mover(i) = IF idx[j].hash = Empty THEN i ELSE j
  BY DEF Mover
<1> HIDE DEF D
<1>3. c \in D
  BY <1>1, LeastChosen
<1> HIDE DEF c
<1>4. j \in Slot
  <2>1. c \in Nat /\ i \in Nat
    BY <1>1, <1>3, Constants DEF Slot
  <2> QED BY <2>1, AtType
<1> HIDE DEF j
<1> QED BY <1>2, <1>4
-----------------------------------------------------------------------------
(* What the stores of a block do.                                          *)

LEMMA NoHdrType == NoHdr \in Hdrs /\ Garbage \in Nat \X Nat
BY ArenaAssumption DEF NoHdr, Hdrs, Seqs, Pad, Empty, Garbage

LEMMA Unsettled ==
  ASSUME Typed, NEW q \in Nat, NEW m \in Nat, m > 0, Unsettle(Phys(q), m)
  PROVE  /\ hd' \in [Units -> Hdrs] /\ body' \in [Units -> Nat \X Nat]
         /\ hd'[Phys(q)].seq \in {1, 3}
         /\ Writes(hd, body, hd', body', q, m)
<1> DEFINE u == Phys(q)
<1>1. u \in Units /\ u \in Nat
  BY PhysType
<1>2. PICK s \in SeqsAt(u) :
        hd' = [x \in Units |-> IF x = u THEN [NoHdr EXCEPT !.seq = Odd(s)]
                               ELSE IF x \in u .. u + m - 1 THEN NoHdr ELSE hd[x]]
  BY DEF Unsettle
<1>3. body' = [x \in Units |-> IF x \in u .. u + m - 1 THEN Garbage ELSE body[x]]
  BY DEF Unsettle
<1> HIDE DEF u
<1>4. hd[u] \in Hdrs
  BY <1>1 DEF Typed
<1>5. s \in Seqs
  BY <1>4 DEF SeqsAt, Hdrs, Seqs
<1>6. Odd(s) \in {1, 3}
  BY <1>5 DEF Odd, Seqs
<1>7. PICK o : o = [NoHdr EXCEPT !.seq = Odd(s)]
  OBVIOUS
<1>8. o \in Hdrs /\ o.seq \in {1, 3}
  <2>1. PICK y \in {1, 3} : y = Odd(s)
    BY <1>6
  <2>2. NoHdr \in Hdrs /\ y \in Seqs \cup {-1}
    BY NoHdrType DEF Seqs
  <2> QED BY <1>7, <2>1, <2>2 DEF Hdrs
<1>9. hd' \in [Units -> Hdrs] /\ hd'[u].seq \in {1, 3}
  BY <1>1, <1>2, <1>7, <1>8, NoHdrType DEF Typed
<1>10. body' \in [Units -> Nat \X Nat]
  BY <1>3, NoHdrType DEF Typed
<1>11. ASSUME NEW x \in Units, x \notin u .. u + m - 1
       PROVE  hd'[x] = hd[x] /\ body'[x] = body[x]
  <2>1. x # u
    BY <1>1, <1>11
  <2> QED BY <1>2, <1>3, <1>11, <2>1
<1> QED BY <1>9, <1>10, <1>11 DEF u, Writes

LEMMA Settled ==
  ASSUME Typed, NEW q \in Nat, NEW e \in Hdrs, Settle(Phys(q), e)
  PROVE  /\ hd' \in [Units -> Hdrs]
         /\ hd[Phys(q)].seq \in {1, 3} => hd'[Phys(q)].seq \in {0, 2}
         /\ \A f \in {"slot", "hash", "size", "key", "ver", "ttl"} : hd'[Phys(q)][f] = e[f]
         /\ \A x \in Units : x # Phys(q) => hd'[x] = hd[x]
<1> DEFINE u == Phys(q)
           g == (hd[u].seq + 1) % 4
<1>1. u \in Units
  BY PhysType
<1>2. hd' = [hd EXCEPT ![u] = [e EXCEPT !.seq = g]]
  BY DEF Settle
<1> HIDE DEF u
<1>3. hd[u].seq \in {-1, 0, 1, 2, 3}
  BY <1>1 DEF Typed, Hdrs, Seqs
<1>4. g \in Seqs /\ (hd[u].seq \in {1, 3} => g \in {0, 2})
  BY <1>3 DEF Seqs
<1> HIDE DEF g
<1>5. PICK o : o = [e EXCEPT !.seq = g]
  OBVIOUS
<1>6. /\ o \in Hdrs /\ o.seq = g
      /\ \A f \in {"slot", "hash", "size", "key", "ver", "ttl"} : o[f] = e[f]
  BY <1>4, <1>5 DEF Hdrs
<1> QED BY <1>1, <1>2, <1>4, <1>5, <1>6 DEF Typed, u

LEMMA Paid ==
  ASSUME Typed, NEW q \in Nat, NEW e \in Hdrs, Payload(Phys(q), e), e.size <= Remain(q)
  PROVE  /\ body' \in [Units -> Nat \X Nat]
         /\ \A x \in 0 .. e.size - 1 : body'[Phys(q) + x] = <<e.ver, x>>
         /\ \A x \in Units : x \notin Phys(q) .. Phys(q) + e.size - 1 => body'[x] = body[x]
<1> DEFINE u == Phys(q)
<1>0. e.size \in Nat /\ e.ver \in Nat
  BY DEF Hdrs
<1>1. u \in Nat /\ e.size \in Nat /\ e.ver \in Nat /\ u + e.size <= Data
  BY <1>0, PhysType, Constants
<1>2. body' = [x \in Units |-> IF x \in u .. u + e.size - 1 THEN <<e.ver, x - u>> ELSE body[x]]
  BY DEF Payload
<1> HIDE DEF u
<1>3. body' \in [Units -> Nat \X Nat]
  <2>1. ASSUME NEW x \in Units
        PROVE  body'[x] \in Nat \X Nat
    <3>1. CASE x \in u .. u + e.size - 1
      <4>1. x - u \in Nat
        BY <1>1, <3>1
      <4> QED BY <1>1, <1>2, <3>1, <4>1
    <3>2. CASE x \notin u .. u + e.size - 1
      BY <1>2, <3>2 DEF Typed
    <3> QED BY <3>1, <3>2
  <2> QED BY <1>2, <2>1
<1>4. ASSUME NEW x \in 0 .. e.size - 1
      PROVE  body'[u + x] = <<e.ver, x>>
  <2>1. u + x \in Units /\ u + x \in u .. u + e.size - 1 /\ (u + x) - u = x
    BY <1>1, Constants DEF Units
  <2> QED BY <1>2, <2>1
<1> QED BY <1>2, <1>3, <1>4 DEF u
-----------------------------------------------------------------------------
(* Types.                                                                  *)

LEMMA WriterFields ==
  ASSUME Typed
  PROVE  /\ w.pc \in Pcs /\ w.key \in Keys \cup {NoKey} /\ w.n \in Nat /\ w.ver \in Nat
         /\ w.ttl \in BOOLEAN /\ w.budget \in Nat /\ w.guard \in Nat /\ w.i \in Nat
         /\ w.j \in Nat /\ w.pos \in Nat /\ w.size \in Nat /\ w.ret \in Pcs /\ w.loop \in Pcs
BY DEF Typed, Writers

LEMMA SlotTyped ==
  ASSUME Typed, NEW s \in Slot
  PROVE  /\ s \in Nat /\ idx[s] \in [hash : Nat, off : Nat]
         /\ idx[s].hash \in Nat /\ idx[s].off \in Nat /\ Entry(s) \in Hdrs
         /\ Entry(s).size \in Nat
<1>1. s \in Nat /\ idx[s].hash \in Nat /\ idx[s].off \in Nat
      /\ idx[s] \in [hash : Nat, off : Nat]
  BY Constants DEF Typed, Slot
<1>2. Entry(s) \in Hdrs
  BY <1>1, PhysType DEF Typed, Entry, HdrAt
<1> QED BY <1>1, <1>2 DEF Hdrs

LEMMA HdrTyped ==
  ASSUME Typed, NEW p \in Nat
  PROVE  /\ HdrAt(p) \in Hdrs /\ HdrAt(p) = hd[Phys(p)]
         /\ HdrAt(p).size \in Nat /\ HdrAt(p).slot \in Slot \cup {Pad}
         /\ HdrAt(p).hash \in Nat /\ HdrAt(p).ver \in Nat
BY PhysType DEF Typed, HdrAt, Hdrs

LEMMA IdleTyped == IdleWriter \in Writers
BY DEF IdleWriter, Writers, Pcs, Shifts, Returns, Moves, SetStages

LEMMA RemovingTyped ==
  ASSUME Typed, NEW s \in Slot, NEW ret \in Returns
  PROVE  /\ Removing(s, ret) \in Writers
         /\ Removing(s, ret).pc = "empty" /\ Removing(s, ret).i = s
         /\ Removing(s, ret).ret = ret /\ Removing(s, ret).size = Entry(s).size
         /\ \A f \in {"key", "n", "ver", "ttl", "budget", "guard", "j", "pos", "loop", "now"} :
              Removing(s, ret)[f] = w[f]
<1>1. s \in Nat /\ Entry(s).size \in Nat
  BY SlotTyped
<1>2. PICK z \in Nat : z = Entry(s).size
  BY <1>1
<1>3. Removing(s, ret) = [w EXCEPT !.pc = "empty", !.i = s, !.ret = ret, !.size = z]
  BY <1>2 DEF Removing, Entry
<1>4. w \in Writers /\ "empty" \in Pcs /\ ret \in Pcs
  BY DEF Typed, Pcs, Shifts
<1> QED BY <1>1, <1>2, <1>3, <1>4 DEF Writers

LEMMA LiveTailSlot ==
  ASSUME Typed, LiveTail
  PROVE  /\ TailRec.slot \in Slot /\ idx[TailRec.slot].off = tail
         /\ Entry(TailRec.slot) = TailRec /\ GapAt(tail) = 0
         /\ idx[TailRec.slot].hash = TailRec.hash /\ idx[TailRec.slot].hash # Empty
<1>1. TailRec \in Hdrs
  BY HdrTyped DEF Typed, TailRec
<1>2. TailRec.slot \in Slot \cup {Pad} /\ (TailRec.slot # Pad => TailRec.hash # Empty)
  BY <1>1 DEF Hdrs
<1> QED BY <1>2 DEF LiveTail, Entry, TailRec
-----------------------------------------------------------------------------
(* Steps of the writer that leave the memory alone.                        *)

LEMMA QuietStep ==
  ASSUME NEW S, Inv(S), UNCHANGED <<idx, hd, body, tail>>,
         Typed', Staged', Laid', Top' = Top,
         w.pc \notin {"bump", "empty", "movehash"},
         w.pc # "moveoff", Stage # "evicted",
         ~Dropping', w'.pc \notin {"movehash", "puboff", "pubhash"}
  PROVE  Inv(S)'
<1>1. Chain(S, hd, tail, Top)'
  BY DEF Inv
<1>2. w'.pc \notin Moves /\ Stage' # "evicted"
  BY DEF Dropping, Stage, Moves, Shifts
<1>3. AtTail'
  BY <1>2 DEF AtTail, Moves
<1>4. AtHead(S)'
  BY DEF AtHead
<1>5. Indexed(S)'
  <2> SUFFICES ASSUME NEW s \in Slot, idx[s].hash # Empty
               PROVE  /\ idx[s].off \in S /\ idx[s].off < Top
                      /\ Rec(hd, body, idx[s].off, idx[s].hash)
                      /\ Entry(s).slot = s
    BY <1>2 DEF Indexed, Entry, HdrAt, Moves
  <2>1. ~Loose(s)
    BY DEF Loose
  <2> QED BY <2>1 DEF Inv, Indexed
<1> QED BY <1>1, <1>3, <1>4, <1>5 DEF Inv

LEMMA SetBeginKeeps ==
  ASSUME NEW S, Inv(S), NEW k \in Keys, NEW n \in Sizes, NEW t \in Ttls, SetBegin(k, n, t)
  PROVE  Inv(S)'
<1>1. /\ w.pc = "idle" /\ n \in Nat /\ n > Hdr /\ t \in BOOLEAN /\ nops \in Nat
      /\ Budget \in Nat /\ Typed
  BY Constants, ArenaAssumption DEF Inv, Typed, SetBegin
<1>2. /\ UNCHANGED <<idx, hd, body, head, tail, aged, cursor>> /\ nops' = nops + 1
      /\ w' = [IdleWriter EXCEPT !.pc = "press", !.key = k, !.n = n, !.ttl = t,
                                 !.ver = nops + 1, !.budget = Budget]
  BY DEF SetBegin
<1>3. w' \in Writers /\ w'.pc = "press" /\ w'.key = k /\ w'.n = n
  <2>1. PICK v \in Nat : v = nops + 1
    BY <1>1
  <2>2. "press" \in Pcs
    BY DEF Pcs, SetStages
  <2> QED BY <1>1, <1>2, <2>1, <2>2, IdleTyped DEF Writers
<1>4. Typed'
  BY <1>1, <1>2, <1>3 DEF Typed
<1>5. /\ Stage = "idle" /\ Stage' = "press" /\ ~Taken /\ ~Taken' /\ ~Dropping'
      /\ Phase' = "press"
  BY <1>1, <1>3 DEF Stage, Shifts, Taken, Dropping, Moves, Phase
<1>6. Staged'
  BY <1>1, <1>3, <1>5 DEF Staged, Shifts
<1>7. Laid'
  BY <1>2, <1>3, <1>5 DEF Laid, Inv
<1> QED BY <1>1, <1>2, <1>3, <1>4, <1>5, <1>6, <1>7, QuietStep DEF Top
LEMMA PcNames ==
  {"idle", "press", "alloc", "padding", "slot", "refuse", "write", "writing", "puboff",
   "pubhash", "empty", "moveoff", "movehash", "evicted", "unlinked", "removed", "swept",
   "copying", "copied", "bump", "sweep", "clear"} \subseteq Pcs
BY DEF Pcs, Shifts, Returns, Moves, SetStages

\* The counters beside the log.
Aside ==
  nops \in Nat /\ cursor \in Nat /\ aged \in SUBSET Nat

LEMMA GoIdle ==
  ASSUME NEW S, Inv(S), UNCHANGED <<idx, hd, body, head, tail>>, Aside', w' = IdleWriter,
         w.pc \notin Shifts \cup Moves \cup {"evicted"}, ~Taken
  PROVE  Inv(S)'
<1>1. w' \in Writers /\ w'.pc = "idle"
  BY IdleTyped DEF IdleWriter
<1>2. Typed'
  BY <1>1 DEF Typed, Inv, Aside
<1>3. Stage' = "idle" /\ ~Taken' /\ ~Dropping' /\ Phase' = "idle"
  BY <1>1 DEF Stage, Shifts, Taken, Dropping, Moves, Phase
<1>4. Staged'
  BY <1>1, <1>3 DEF Staged, Shifts, SetStages
<1>5. Laid'
  BY <1>1, <1>3 DEF Laid, Inv
<1> QED
  BY <1>1, <1>2, <1>3, <1>4, <1>5, QuietStep DEF Top, Stage, Shifts, Moves

LEMMA GoRemove ==
  ASSUME NEW S, Inv(S), UNCHANGED <<idx, hd, body, head, tail>>, Aside',
         w.pc \notin Shifts \cup Moves \cup {"evicted"},
         NEW s \in Slot, NEW ret \in Returns \ {"evicted"}, w' \in Writers,
         w'.pc = "empty", w'.i = s, w'.ret = ret, w'.pos = w.pos, w'.n = w.n, w'.key = w.key,
         IF ret = "unlinked" THEN w.pc = "slot" ELSE ~Taken
  PROVE  Inv(S)'
<1>1. Typed'
  BY DEF Typed, Inv, Aside
<1>2. Stage' = ret /\ ~Dropping' /\ Phase' = ret /\ Stage = w.pc /\ Phase = w.pc
  BY DEF Stage, Shifts, Dropping, Moves, Phase, Returns
<1>3. Taken' <=> Taken
  BY <1>2 DEF Taken, Returns
<1>4. Staged'
  <2>1. ret = "unlinked" => w.key \in Keys /\ w.n > Hdr /\ w.n <= Data \div 2
    BY <1>2 DEF Inv, Staged, SetStages
  <2> QED BY <1>2, <2>1 DEF Staged, Shifts, SetStages, Returns
<1>5. Laid'
  BY <1>3 DEF Laid, Inv
<1> QED
  BY <1>1, <1>2, <1>3, <1>4, <1>5, QuietStep DEF Top, Stage, Shifts, Moves, Returns

LEMMA DeleteKeeps ==
  ASSUME NEW S, Inv(S), NEW k \in Keys, Delete(k)
  PROVE  Inv(S)'
<1>1. /\ w.pc = "idle" /\ Typed /\ UNCHANGED <<idx, hd, body, head, tail, aged, cursor>>
      /\ nops' = nops + 1
  BY DEF Delete, Inv
<1>2. Aside' /\ ~Taken /\ w.pc \notin Shifts \cup Moves \cup {"evicted"}
  BY <1>1 DEF Aside, Typed, Taken, Stage, Shifts, Moves
<1>3. CASE FindSlot(k) >= 0
  <2>1. PICK s \in Slot : s = FindSlot(k)
    BY <1>3, SlotFound
  <2>2. w' = Removing(s, "removed") /\ "removed" \in Returns
    BY <1>3, <2>1 DEF Delete, Returns
  <2>3. /\ w' \in Writers /\ w'.pc = "empty" /\ w'.i = s /\ w'.ret = "removed"
        /\ w'.pos = w.pos /\ w'.n = w.n /\ w'.key = w.key
    BY <1>1, <2>2, RemovingTyped
  <2> QED BY <1>1, <1>2, <2>2, <2>3, GoRemove
<1>4. CASE ~(FindSlot(k) >= 0)
  <2>1. w' = w
    BY <1>4 DEF Delete
  <2>2. Typed'
    BY <1>1, <1>2, <2>1 DEF Typed, Aside
  <2>3. /\ Staged' /\ Laid' /\ Top' = Top /\ ~Dropping'
        /\ Stage = "idle" 
    BY <1>1, <2>1 DEF Staged, Laid, Top, Taken, Stage, Phase, Dropping, Shifts, Moves, Inv,
          Free, SetStages
  <2> QED BY <1>1, <2>1, <2>2, <2>3, QuietStep
<1> QED BY <1>3, <1>4

LEMMA SweepKeeps ==
  ASSUME NEW S, Inv(S), SweepBegin \/ SweepSkip \/ SweepRemove \/ Swept \/ SweepEnd
  PROVE  Inv(S)'
<1>0. Typed /\ w \in Writers
  BY DEF Inv, Typed
<1>1. CASE SweepBegin \/ SweepSkip \/ Swept
  <2>1. /\ w.pc \in {"idle", "sweep", "swept"}
        /\ UNCHANGED <<idx, hd, body, head, tail, aged, cursor>>
        /\ nops' \in Nat
    <3>1. nops \in Nat
      BY <1>0 DEF Typed
    <3>2. CASE SweepBegin
      BY <3>1, <3>2 DEF SweepBegin
    <3>3. CASE SweepSkip
      BY <3>1, <3>3 DEF SweepSkip, Scanning, aside
    <3>4. CASE Swept
      BY <3>1, <3>4 DEF Swept, aside
    <3> QED BY <1>1, <3>2, <3>3, <3>4
  <2>2. w' \in Writers /\ w'.pc = "sweep"
    <3>1. CASE SweepBegin
      <4>1. w' = [IdleWriter EXCEPT !.pc = "sweep", !.i = cursor, !.pos = cursor, !.now = aged]
        BY <3>1 DEF SweepBegin
      <4>2. cursor \in Nat /\ aged \in SUBSET Nat /\ "sweep" \in Pcs
        BY <1>0, PcNames DEF Typed
      <4> QED BY <4>1, <4>2, IdleTyped DEF Writers
    <3>2. CASE SweepSkip
      <4>1. w' = [w EXCEPT !.i = w.i + 1, !.n = w.n + 1] /\ w.pc = "sweep"
        BY <3>2 DEF SweepSkip, Scanning
      <4>2. w.i + 1 \in Nat /\ w.n + 1 \in Nat
        BY <1>0, WriterFields
      <4> QED BY <1>0, <4>1, <4>2 DEF Writers
    <3>3. CASE Swept
      <4>1. w' = [w EXCEPT !.pc = "sweep", !.i = w.guard, !.n = w.n + 1]
        BY <3>3 DEF Swept
      <4>2. w.guard \in Nat /\ w.n + 1 \in Nat /\ "sweep" \in Pcs
        BY <1>0, WriterFields, PcNames
      <4> QED BY <1>0, <4>1, <4>2 DEF Writers
    <3> QED BY <1>1, <3>1, <3>2, <3>3
  <2>3. Typed'
    BY <1>0, <2>1, <2>2 DEF Typed
  <2>4. /\ Stage' = "sweep" /\ ~Taken' /\ ~Dropping' /\ Phase' = "sweep" /\ ~Taken
        /\ Stage # "evicted"
    BY <2>1, <2>2 DEF Stage, Shifts, Taken, Dropping, Moves, Phase
  <2>5. Staged'
    BY <2>2, <2>4 DEF Staged, Shifts, SetStages
  <2>6. Laid'
    BY <2>1, <2>2, <2>4 DEF Laid, Inv
  <2> QED BY <2>1, <2>2, <2>3, <2>4, <2>5, <2>6, QuietStep DEF Top
<1>2. CASE SweepRemove
  <2>1. /\ w.pc = "sweep" /\ UNCHANGED <<idx, hd, body, head, tail, nops, aged, cursor>>
        /\ w.i \in Slot
    BY <1>0, <1>2, Constants, WriterFields DEF SweepRemove, Scanning, aside, Slot
  <2>2. PICK v : v = Removing(w.i, "swept")
    OBVIOUS
  <2>3. w' = [v EXCEPT !.guard = w.i] /\ "swept" \in Returns
    BY <1>2, <2>2 DEF SweepRemove, Returns
  <2>4. /\ v \in Writers /\ v.pc = "empty" /\ v.i = w.i /\ v.ret = "swept"
        /\ v.pos = w.pos /\ v.n = w.n /\ v.key = w.key
    BY <1>0, <2>1, <2>2, <2>3, RemovingTyped
  <2>5. /\ w' \in Writers /\ w'.pc = "empty" /\ w'.i = w.i /\ w'.ret = "swept"
        /\ w'.pos = w.pos /\ w'.n = w.n /\ w'.key = w.key
    BY <1>0, <2>3, <2>4, WriterFields DEF Writers
  <2>6. ~Taken /\ w.pc \notin Shifts \cup Moves \cup {"evicted"} /\ Aside'
    BY <1>0, <2>1 DEF Taken, Stage, Shifts, Moves, Aside, Typed
  <2> QED BY <2>1, <2>3, <2>5, <2>6, GoRemove
<1>3. CASE SweepEnd
  <2>1. /\ w.pc = "sweep" /\ UNCHANGED <<idx, hd, body, head, tail, nops, aged>>
        /\ w' = IdleWriter /\ cursor' \in Nat
    BY <1>0, <1>3, WriterFields DEF SweepEnd
  <2>2. ~Taken /\ w.pc \notin Shifts \cup Moves \cup {"evicted"} /\ Aside'
    BY <1>0, <2>1 DEF Taken, Stage, Shifts, Moves, Aside, Typed
  <2> QED BY <2>1, <2>2, GoIdle
<1> QED BY <1>1, <1>2, <1>3

LEMMA RemovedKeeps ==
  ASSUME NEW S, Inv(S), Removed
  PROVE  Inv(S)'
<1>1. /\ w.pc = "removed" /\ UNCHANGED <<idx, hd, body, head, tail, nops, aged, cursor>>
      /\ w' = IdleWriter
  BY DEF Removed, aside
<1>2. ~Taken /\ w.pc \notin Shifts \cup Moves \cup {"evicted"} /\ Aside'
  BY <1>1 DEF Taken, Stage, Shifts, Moves, Aside, Typed, Inv
<1> QED BY <1>1, <1>2, GoIdle
-----------------------------------------------------------------------------
(* storeSet, up to the block it writes.                                    *)

LEMMA PressDoneKeeps ==
  ASSUME NEW S, Inv(S), PressDone
  PROVE  Inv(S)'
<1>0. Typed /\ w \in Writers
  BY DEF Inv, Typed
<1>1. /\ w.pc = "press" /\ UNCHANGED <<idx, hd, body, head, tail, nops, aged, cursor>>
      /\ w' = IF w.n > Data \div 2 THEN IdleWriter
              ELSE [w EXCEPT !.pc = "alloc", !.budget = Budget]
  BY DEF PressDone, aside
<1>2. /\ Stage = "press" /\ Phase = "press" /\ ~Taken /\ Aside'
      /\ w.pc \notin Shifts \cup Moves \cup {"evicted"}
  BY <1>0, <1>1 DEF Taken, Stage, Phase, Dropping, Shifts, Moves, Aside, Typed
<1>3. CASE w.n > Data \div 2
  BY <1>1, <1>2, <1>3, GoIdle
<1>4. CASE ~(w.n > Data \div 2)
  <2>1. Budget \in Nat /\ "alloc" \in Pcs
    BY ArenaAssumption, PcNames
  <2>2. w' \in Writers /\ w'.pc = "alloc" /\ w'.n = w.n /\ w'.key = w.key
    BY <1>0, <1>1, <1>4, <2>1 DEF Writers
  <2>3. Typed'
    BY <1>0, <1>1, <1>2, <2>2 DEF Typed, Aside
  <2>4. Stage' = "alloc" /\ ~Taken' /\ ~Dropping' /\ Phase' = "alloc"
    BY <2>2 DEF Stage, Shifts, Taken, Dropping, Moves, Phase
  <2>5. w.key \in Keys /\ w.n > Hdr
    BY <1>2 DEF Inv, Staged, SetStages
  <2>6. w.n <= Data \div 2
    <3>1. w.n \in Nat /\ Data \div 2 \in Int
      BY <1>0, WriterFields, Constants
    <3> QED BY <1>4, <3>1
  <2>7. Staged'
    BY <2>2, <2>4, <2>5, <2>6 DEF Staged, Shifts
  <2>8. Laid'
    BY <1>1, <2>2, <2>4 DEF Laid, Inv
  <2> QED BY <1>1, <1>2, <2>2, <2>3, <2>4, <2>7, <2>8, QuietStep DEF Top, Shifts, Moves
<1> QED BY <1>3, <1>4

\* What the allocator has made room for.
LEMMA AllocFits ==
  ASSUME NEW S, Inv(S), w.pc = "alloc", ~MustDrop
  PROVE  /\ Want <= Free /\ Free \in Int /\ Free = Data - (head - tail)
         /\ w.n \in Nat /\ w.n > Hdr /\ w.n <= Data \div 2 /\ w.key \in Keys
         /\ Stage = "alloc" /\ ~Taken /\ Top = head /\ head \in Nat /\ tail \in Nat
         /\ Want \in Nat
<1>1. Stage = "alloc" /\ Phase = "alloc" /\ ~Taken
  BY DEF Taken, Stage, Phase, Dropping, Shifts, Moves
<1>2. w.n > Hdr /\ w.n <= Data \div 2 /\ w.key \in Keys
  BY <1>1 DEF Inv, Staged, SetStages
<1>3. w.n \in Nat /\ head \in Nat /\ tail \in Nat
  BY WriterFields DEF Inv, Typed
<1>4. Free \in Int /\ Free = Data - (head - tail)
  BY <1>3, Constants DEF Free
<1>5. Want \in Nat
  BY <1>3, PhysType, Constants DEF Want
<1>6. Want <= Free
  BY <1>2, <1>4, <1>5 DEF MustDrop
<1> QED BY <1>1, <1>2, <1>3, <1>4, <1>5, <1>6 DEF Top

LEMMA AllocTakeKeeps ==
  ASSUME NEW S, Inv(S), AllocTake
  PROVE  Inv(S)'
<1>0. Typed /\ w \in Writers
  BY DEF Inv, Typed
<1>1. /\ w.pc = "alloc" /\ ~MustDrop /\ GapAt(head) = 0 /\ Want = w.n
      /\ UNCHANGED <<idx, hd, body, tail, nops, aged, cursor>>
      /\ head' = head + w.n /\ w' = [w EXCEPT !.pc = "slot", !.pos = head]
  BY DEF AllocTake, aside
<1>2. /\ Want <= Free /\ Free \in Int /\ Free = Data - (head - tail)
      /\ w.n \in Nat /\ w.n > Hdr /\ w.n <= Data \div 2 /\ w.key \in Keys
      /\ Stage = "alloc" /\ ~Taken /\ Top = head /\ head \in Nat /\ tail \in Nat
  BY <1>1, AllocFits
<1>3. w' \in Writers /\ w'.pc = "slot" /\ w'.n = w.n /\ w'.key = w.key /\ w'.pos = head
  BY <1>0, <1>1, <1>2, PcNames DEF Writers
<1>4. Typed'
  BY <1>0, <1>1, <1>2, <1>3 DEF Typed
<1>5. Stage' = "slot" /\ Taken' /\ ~Dropping' /\ Phase' = "slot" /\ Top' = Top
  BY <1>2, <1>3 DEF Stage, Shifts, Taken, Dropping, Moves, Phase, Top
<1>6. Staged'
  BY <1>2, <1>3, <1>5 DEF Staged, Shifts
<1>7. w.n <= Remain(head)
  <2>1. Phys(head) \in Nat /\ Remain(head) = Data - Phys(head)
    BY <1>2, PhysType
  <2> QED BY <1>1, <1>2, <2>1, Constants DEF Want
<1>8. Laid'
  <2>1. head' - tail' <= Data
    BY <1>1, <1>2, Constants
  <2> QED BY <1>1, <1>3, <1>5, <1>7, <2>1 DEF Laid
<1> QED BY <1>1, <1>2, <1>3, <1>4, <1>5, <1>6, <1>8, QuietStep

LEMMA SetUnlinkKeeps ==
  ASSUME NEW S, Inv(S), SetUnlink
  PROVE  Inv(S)'
<1>0. Typed /\ w \in Writers
  BY DEF Inv, Typed
<1>1. /\ w.pc = "slot" /\ FindFreeSlot(Hash[w.key]) >= 0
      /\ UNCHANGED <<idx, hd, body, head, tail, nops, aged, cursor>>
  BY DEF SetUnlink, aside
<1>2. /\ Stage = "slot" /\ Phase = "slot" /\ Taken /\ Aside'
      /\ w.pc \notin Shifts \cup Moves \cup {"evicted"}
  BY <1>0, <1>1 DEF Taken, Stage, Phase, Dropping, Shifts, Moves, Aside, Typed
<1>3. w.key \in Keys /\ w.n > Hdr /\ w.n <= Data \div 2 /\ Hash[w.key] \in Nat
  BY <1>2, Constants DEF Inv, Staged, SetStages
<1>4. CASE FindSlot(w.key) >= 0
  <2>1. PICK s \in Slot : s = FindSlot(w.key)
    BY <1>3, <1>4, SlotFound
  <2>2. w' = Removing(s, "unlinked") /\ "unlinked" \in Returns
    BY <1>4, <2>1 DEF SetUnlink, Returns
  <2>3. /\ w' \in Writers /\ w'.pc = "empty" /\ w'.i = s /\ w'.ret = "unlinked"
        /\ w'.pos = w.pos /\ w'.n = w.n /\ w'.key = w.key
    BY <1>0, <2>2, RemovingTyped
  <2> QED BY <1>1, <1>2, <2>2, <2>3, GoRemove
<1>5. CASE ~(FindSlot(w.key) >= 0)
  <2>1. PICK s \in Slot : s = FindFreeSlot(Hash[w.key]) /\ idx[s].hash = Empty
    BY <1>1, <1>3, FreeSlotFound
  <2>2. w' = [w EXCEPT !.pc = "write", !.i = s] /\ s \in Nat
    BY <1>5, <2>1, Constants DEF SetUnlink, Slot
  <2>3. /\ w' \in Writers /\ w'.pc = "write" /\ w'.n = w.n /\ w'.key = w.key
        /\ w'.pos = w.pos /\ w'.i = s
    BY <1>0, <2>2, PcNames DEF Writers
  <2>4. Typed'
    BY <1>0, <1>1, <1>2, <2>3 DEF Typed, Aside
  <2>5. Stage' = "write" /\ Taken' /\ ~Dropping' /\ Phase' = "write"
    BY <2>3 DEF Stage, Shifts, Taken, Dropping, Moves, Phase
  <2>6. Staged'
    BY <1>1, <1>3, <2>1, <2>3, <2>5 DEF Staged, Shifts
  <2>7. Laid'
    BY <1>1, <1>2, <2>3, <2>5 DEF Laid, Inv
  <2> QED BY <1>1, <1>2, <2>3, <2>4, <2>5, <2>6, <2>7, QuietStep DEF Top, Shifts, Moves
<1> QED BY <1>4, <1>5

\* The slot just emptied is there for the new entry.
LEMMA UnlinkedKeeps ==
  ASSUME NEW S, Inv(S), Unlinked
  PROVE  Inv(S)'
<1>0. Typed /\ w \in Writers
  BY DEF Inv, Typed
<1>1. /\ w.pc = "unlinked"
      /\ UNCHANGED <<idx, hd, body, head, tail, nops, aged, cursor>>
  BY DEF Unlinked, aside
<1>2. /\ Stage = "unlinked" /\ Phase = "unlinked" /\ Taken /\ Aside'
      /\ w.pc \notin Shifts \cup Moves \cup {"evicted"}
  BY <1>0, <1>1 DEF Taken, Stage, Phase, Dropping, Shifts, Moves, Aside, Typed
<1>3. w.key \in Keys /\ w.n > Hdr /\ w.n <= Data \div 2 /\ Hash[w.key] \in Nat
  BY <1>2, Constants DEF Inv, Staged, SetStages
<1>4. w.i \in Slot /\ idx[w.i].hash = Empty
  BY <1>1 DEF Inv, Staged
<1>5. FindFreeSlot(Hash[w.key]) >= 0
  BY <1>3, <1>4, FreeSlotFound
<1>6. PICK s \in Slot : s = FindFreeSlot(Hash[w.key]) /\ idx[s].hash = Empty
  BY <1>3, <1>5, FreeSlotFound
<1>7. w' = [w EXCEPT !.pc = "write", !.i = s] /\ s \in Nat
  <2>1. s \in Nat /\ ~(s < 0)
    BY Constants DEF Slot
  <2> QED BY <1>6, <2>1 DEF Unlinked
<1>8. /\ w' \in Writers /\ w'.pc = "write" /\ w'.n = w.n /\ w'.key = w.key
      /\ w'.pos = w.pos /\ w'.i = s
  BY <1>0, <1>7, PcNames DEF Writers
<1>9. Typed'
  BY <1>0, <1>1, <1>2, <1>8 DEF Typed, Aside
<1>10. Stage' = "write" /\ Taken' /\ ~Dropping' /\ Phase' = "write"
  BY <1>8 DEF Stage, Shifts, Taken, Dropping, Moves, Phase
<1>11. Staged'
  BY <1>1, <1>3, <1>6, <1>8, <1>10 DEF Staged, Shifts
<1>12. Laid'
  BY <1>1, <1>2, <1>8, <1>10 DEF Laid, Inv
<1> QED
  BY <1>1, <1>2, <1>8, <1>9, <1>10, <1>11, <1>12, QuietStep DEF Top, Shifts, Moves
-----------------------------------------------------------------------------
(* logDropTail.                                                            *)

LEMMA DropFacts ==
  ASSUME NEW S, Inv(S), MustDrop
  PROVE  /\ tail < head /\ w.pc \in {"press", "alloc"} /\ Stage = w.pc /\ Phase = w.pc
         /\ ~Taken /\ ~Dropping /\ Top = head
         /\ w.key \in Keys /\ w.n > Hdr /\ (w.pc = "alloc" => w.n <= Data \div 2)
         /\ head \in Nat /\ tail \in Nat /\ hd \in [Units -> Hdrs] /\ TailRec = hd[Phys(tail)]
         /\ Chain(S, hd, tail, head) /\ tail \in S /\ Whole(hd, tail)
<1>1. w.pc \in {"press", "alloc"}
  BY DEF MustDrop
<1>2. Stage = w.pc /\ Phase = w.pc /\ ~Taken /\ ~Dropping /\ Top = head
  BY <1>1 DEF Taken, Stage, Phase, Dropping, Shifts, Moves, Top
<1>3. w.key \in Keys /\ w.n > Hdr /\ (w.pc = "alloc" => w.n <= Data \div 2)
  BY <1>1, <1>2 DEF Inv, Staged, SetStages
<1>4. w.n \in Nat /\ head \in Nat /\ tail \in Nat /\ hd \in [Units -> Hdrs]
  BY WriterFields DEF Inv, Typed
<1>5. Chain(S, hd, tail, head)
  BY <1>2 DEF Inv
<1>6. tail <= head /\ tail \in S
  BY <1>5 DEF Chain
<1>7. tail < head
  <2>1. CASE w.pc = "press"
    BY <2>1 DEF MustDrop
  <2>2. CASE w.pc = "alloc"
    <3>1. Free < Want
      BY <2>2 DEF MustDrop
    <3>2. Want \in Nat /\ Want <= Data
      <4>1. w.n <= Data
        BY <1>3, <1>4, <2>2, Constants
      <4> QED BY <1>4, <4>1, PhysType, Constants DEF Want
    <3> QED BY <1>4, <1>6, <3>1, <3>2, Constants DEF Free
  <2> QED BY <1>1, <2>1, <2>2
<1>8. Whole(hd, tail)
  BY <1>5, <1>6, <1>7 DEF Chain
<1> QED BY <1>1, <1>2, <1>3, <1>4, <1>5, <1>6, <1>7, <1>8 DEF TailRec, HdrAt

\* The index knows the record at the tail by the slot the record names.
LEMMA TailOwner ==
  ASSUME NEW S, Inv(S), MustDrop, NEW s \in Slot, idx[s].hash # Empty, idx[s].off = tail
  PROVE  LiveTail /\ s = TailRec.slot
<1>1. w.pc \in {"press", "alloc"} /\ tail \in Nat /\ hd \in [Units -> Hdrs]
  BY DropFacts
<1>2. ~Loose(s)
  BY <1>1 DEF Loose
<1>3. Rec(hd, body, tail, idx[s].hash) /\ Entry(s).slot = s
  BY <1>2 DEF Inv, Indexed
<1>4. Entry(s) = TailRec /\ TailRec = hd[Phys(tail)]
  BY DEF Entry, TailRec, HdrAt
<1>5. GapAt(tail) = 0 /\ TailRec.hash = idx[s].hash
  BY <1>1, <1>3, <1>4, RecFacts DEF Rec
<1>6. s # Pad
  BY Constants DEF Slot, Pad
<1> QED BY <1>3, <1>4, <1>5, <1>6 DEF LiveTail

\* The tail steps over a block that no slot points at.
LEMMA StepTail ==
  ASSUME NEW S, NEW T, T = S \ {tail}, Inv(S), UNCHANGED <<idx, hd, body, head>>,
         Typed', Staged', ~Taken, ~Taken', ~Dropping', tail < head,
         w.pc \notin Moves \cup Shifts, w'.pc \notin {"movehash", "puboff", "pubhash", "padding", "refuse", "writing", "empty"},
         tail' = tail + Span(hd, tail),
         \A s \in Slot : idx[s].hash # Empty => idx[s].off # tail
  PROVE  Inv(T)'
<1>1. tail \in Nat /\ head \in Nat /\ hd \in [Units -> Hdrs]
  BY DEF Inv, Typed
<1>2. Top = head /\ Top' = head /\ Chain(S, hd, tail, head)
  BY DEF Top, Inv
<1>3. Chain(T, hd, tail', head)
  BY <1>1, <1>2, ChainDrop
<1>4. Laid'
  <2>1. head - tail <= Data /\ tail' \in Nat /\ tail <= tail'
    <3>1. tail \in S /\ Whole(hd, tail)
      BY <1>2 DEF Chain
    <3> QED BY <1>1, <3>1, SpanType DEF Inv, Laid
  <2>2. head' - tail' <= Data
    BY <1>1, <2>1, Constants
  <2> QED BY <2>2 DEF Laid
<1>5. w'.pc \notin Moves /\ Stage' # "evicted"
  BY DEF Dropping, Stage, Moves, Shifts
<1>6. AtTail'
  BY <1>5 DEF AtTail, Moves
<1>7. AtHead(T)'
  BY DEF AtHead
<1>8. Indexed(T)'
  <2> SUFFICES ASSUME NEW s \in Slot, idx[s].hash # Empty
               PROVE  /\ idx[s].off \in T /\ idx[s].off < Top
                      /\ Rec(hd, body, idx[s].off, idx[s].hash)
                      /\ Entry(s).slot = s
    BY <1>2, <1>5 DEF Indexed, Entry, HdrAt, Moves
  <2>1. ~Loose(s) /\ w.pc # "bump"
    BY DEF Loose, Shifts, Moves
  <2> QED BY <2>1 DEF Inv, Indexed
<1> QED BY <1>2, <1>3, <1>4, <1>6, <1>7, <1>8 DEF Inv

LEMMA DropDeadKeeps ==
  ASSUME NEW S, NEW T, T = S \ {tail}, Inv(S), DropDead
  PROVE  Inv(T)'
<1>0. Typed /\ w \in Writers
  BY DEF Inv, Typed
<1>1. /\ MustDrop /\ ~LiveTail /\ UNCHANGED <<idx, hd, body, head, nops, aged, cursor>>
      /\ w' = [w EXCEPT !.guard = w.guard + 1]
  BY DEF DropDead, aside
<1>2. /\ tail < head /\ w.pc \in {"press", "alloc"} /\ Stage = w.pc /\ Phase = w.pc
      /\ ~Taken /\ ~Dropping /\ Top = head
      /\ w.key \in Keys /\ w.n > Hdr /\ (w.pc = "alloc" => w.n <= Data \div 2)
      /\ head \in Nat /\ tail \in Nat /\ hd \in [Units -> Hdrs] /\ TailRec = hd[Phys(tail)]
      /\ Whole(hd, tail)
  BY <1>1, DropFacts
<1>3. tail' = tail + Span(hd, tail)
  <2>1. CASE GapAt(tail) > 0
    BY <2>1 DEF DropDead, Span
  <2>2. CASE ~(GapAt(tail) > 0)
    <3>1. TailRec.size \in 1 .. Data
      BY <1>2, <2>2, PhysType, Constants DEF Whole
    <3> QED BY <1>2, <2>2, <3>1 DEF DropDead, Span
  <2> QED BY <2>1, <2>2
<1>4. tail' \in Nat
  BY <1>2, <1>3, SpanType
<1>5. w' \in Writers /\ w'.pc = w.pc /\ w'.n = w.n /\ w'.key = w.key
  BY <1>0, <1>1, WriterFields DEF Writers
<1>6. Typed'
  BY <1>0, <1>1, <1>4, <1>5 DEF Typed
<1>7. Stage' = w.pc /\ Phase' = w.pc /\ ~Taken' /\ ~Dropping'
  BY <1>2, <1>5 DEF Taken, Stage, Phase, Dropping, Shifts, Moves
<1>8. Staged'
  BY <1>2, <1>5, <1>7 DEF Staged, Shifts
<1>9. \A s \in Slot : idx[s].hash # Empty => idx[s].off # tail
  BY <1>1, TailOwner
<1> QED
  BY <1>1, <1>2, <1>3, <1>5, <1>6, <1>7, <1>8, <1>9, StepTail DEF Moves, Shifts

LEMMA EvictedKeeps ==
  ASSUME NEW S, NEW T, T = S \ {tail}, Inv(S), Evicted
  PROVE  Inv(T)'
<1>0. Typed /\ w \in Writers
  BY DEF Inv, Typed
<1>1. /\ w.pc = "evicted" /\ UNCHANGED <<idx, hd, body, head, nops, aged, cursor>>
      /\ w' = [w EXCEPT !.pc = w.loop] /\ tail' = tail + w.size
  BY DEF Evicted, aside
<1>2. Stage = "evicted" /\ Dropping /\ Phase = w.loop /\ ~Taken
  BY <1>1 DEF Taken, Stage, Phase, Dropping, Shifts, Moves
<1>3. w.loop \in {"press", "alloc"} /\ tail < head /\ GapAt(tail) = 0 /\ w.size = TailRec.size
  BY <1>2 DEF Inv, Staged, AtTail
<1>4. w.key \in Keys /\ w.n > Hdr /\ (w.loop = "alloc" => w.n <= Data \div 2)
  BY <1>2, <1>3 DEF Inv, Staged, SetStages
<1>5. /\ w' \in Writers /\ w'.pc = w.loop /\ w'.n = w.n /\ w'.key = w.key
  BY <1>0, <1>1, WriterFields DEF Writers
<1>6. tail' = tail + Span(hd, tail) /\ tail' \in Nat
  BY <1>0, <1>1, <1>3, WriterFields DEF Span, TailRec, HdrAt, Typed
<1>7. Typed'
  BY <1>0, <1>1, <1>5, <1>6 DEF Typed
<1>8. Stage' = w.loop /\ Phase' = w.loop /\ ~Taken' /\ ~Dropping'
  BY <1>3, <1>5 DEF Taken, Stage, Phase, Dropping, Shifts, Moves
<1>9. Staged'
  BY <1>3, <1>4, <1>5, <1>8 DEF Staged, Shifts
<1>10. \A s \in Slot : idx[s].hash # Empty => idx[s].off # tail
  BY <1>1, <1>2 DEF Inv, Indexed
<1> QED
  BY <1>1, <1>2, <1>3, <1>5, <1>6, <1>7, <1>8, <1>9, <1>10, StepTail DEF Moves, Shifts

LEMMA DropLiveKeeps ==
  ASSUME NEW S, Inv(S), DropLive
  PROVE  Inv(S)'
<1>0. Typed /\ w \in Writers
  BY DEF Inv, Typed
<1>1. /\ MustDrop /\ LiveTail /\ UNCHANGED <<idx, hd, body, head, tail, nops, aged, cursor>>
      /\ w' = [Removing(TailRec.slot, "evicted") EXCEPT !.guard = @ + 1, !.loop = w.pc]
  BY DEF DropLive, aside
<1>2. /\ tail < head /\ w.pc \in {"press", "alloc"} /\ Stage = w.pc /\ Phase = w.pc
      /\ ~Taken /\ ~Dropping /\ Top = head
      /\ w.key \in Keys /\ w.n > Hdr /\ (w.pc = "alloc" => w.n <= Data \div 2)
      /\ head \in Nat /\ tail \in Nat /\ hd \in [Units -> Hdrs] /\ TailRec = hd[Phys(tail)]
  BY <1>1, DropFacts
<1>3. PICK s \in Slot : /\ s = TailRec.slot /\ idx[s].off = tail /\ Entry(s) = TailRec
                        /\ GapAt(tail) = 0
  BY <1>0, <1>1, LiveTailSlot
<1>4. PICK v : v = Removing(s, "evicted")
  OBVIOUS
<1>5. /\ v \in Writers /\ v.pc = "empty" /\ v.i = s /\ v.ret = "evicted"
      /\ v.size = TailRec.size /\ v.pos = w.pos /\ v.n = w.n /\ v.key = w.key
      /\ v.guard = w.guard
  <2>1. "evicted" \in Returns
    BY DEF Returns
  <2> QED BY <1>0, <1>3, <1>4, <2>1, RemovingTyped
<1>6. /\ w' \in Writers /\ w'.pc = "empty" /\ w'.i = s /\ w'.ret = "evicted"
      /\ w'.size = TailRec.size /\ w'.pos = w.pos /\ w'.n = w.n /\ w'.key = w.key
      /\ w'.loop = w.pc
  <2>1. w' = [v EXCEPT !.guard = w.guard + 1, !.loop = w.pc]
    BY <1>1, <1>3, <1>4, <1>5 DEF Writers
  <2>2. w.guard + 1 \in Nat /\ w.pc \in Pcs
    BY <1>0, WriterFields
  <2> QED BY <1>5, <2>1, <2>2 DEF Writers
<1>7. Typed'
  BY <1>0, <1>1, <1>6 DEF Typed
<1>8. Stage' = "evicted" /\ Dropping' /\ Phase' = w.pc /\ ~Taken' /\ Top' = Top
  BY <1>1, <1>2, <1>6 DEF Taken, Stage, Phase, Dropping, Shifts, Moves, Top
<1>9. Staged'
  BY <1>2, <1>6, <1>8 DEF Staged, Shifts, Returns
<1>10. Laid'
  BY <1>1, <1>6, <1>8 DEF Laid, Inv
<1>11. AtTail'
  BY <1>1, <1>2, <1>3, <1>6 DEF AtTail, TailRec, HdrAt, Moves
<1>12. AtHead(S)'
  BY <1>6 DEF AtHead
<1>13. Indexed(S)'
  <2> SUFFICES ASSUME NEW t \in Slot, idx[t].hash # Empty
               PROVE  /\ idx[t].off \in S /\ idx[t].off < Top
                      /\ Rec(hd, body, idx[t].off, idx[t].hash)
                      /\ Entry(t).slot = t
                      /\ idx[t].off = tail => t = s
    BY <1>1, <1>6, <1>8 DEF Indexed, Entry, HdrAt, Moves
  <2>1. ~Loose(t) /\ w.pc # "bump"
    BY <1>2 DEF Loose
  <2>2. idx[t].off = tail => t = s
    BY <1>1, <1>3, TailOwner
  <2> QED BY <2>1, <2>2 DEF Inv, Indexed
<1>14. Chain(S, hd, tail, Top)'
  BY <1>1, <1>8 DEF Inv
<1> QED BY <1>7, <1>9, <1>10, <1>11, <1>12, <1>13, <1>14 DEF Inv
-----------------------------------------------------------------------------
(* indexRemove.                                                            *)

LEMMA TopFacts ==
  ASSUME NEW S, Inv(S)
  PROVE  /\ tail \in Nat /\ head \in Nat /\ Top \in Nat /\ tail <= Top /\ Top <= head
         /\ head - tail <= Data /\ hd \in [Units -> Hdrs] /\ Typed
         /\ Chain(S, hd, tail, Top)
<1>1. Typed /\ tail \in Nat /\ head \in Nat /\ hd \in [Units -> Hdrs] /\ w.pos \in Nat
      /\ w.n \in Nat
  BY WriterFields DEF Inv, Typed
<1>2. Chain(S, hd, tail, Top) /\ head - tail <= Data
  BY DEF Inv, Laid
<1>3. tail <= Top
  BY <1>2 DEF Chain
<1>4. Top \in Nat /\ Top <= head
  <2>1. CASE Taken
    BY <1>1, <2>1 DEF Top, Inv, Laid
  <2>2. CASE ~Taken
    BY <1>1, <2>2 DEF Top
  <2> QED BY <2>1, <2>2
<1> QED BY <1>1, <1>2, <1>3, <1>4

\* The two places of a removal stay the same stage of the operation.
LEMMA ShiftStage ==
  ASSUME NEW S, Inv(S), RemoveEmpty \/ RemoveMoveOff \/ RemoveMoveHash
  PROVE  /\ w.pc \in Shifts /\ w.i \in Slot /\ w.ret \in Returns
         /\ w' \in Writers /\ w'.ret = w.ret /\ w'.loop = w.loop /\ w'.pos = w.pos
         /\ w'.n = w.n /\ w'.key = w.key /\ w'.size = w.size
         /\ w'.pc \in Shifts \cup {w.ret}
         /\ Stage' = Stage /\ Dropping' = Dropping /\ Phase' = Phase /\ Taken' = Taken
         /\ UNCHANGED <<body, head, tail, nops, aged, cursor>>
         /\ Top' = Top
<1>0. Typed /\ w \in Writers
  BY DEF Inv, Typed
<1>1. /\ w.pc \in Shifts /\ UNCHANGED <<body, head, tail, nops, aged, cursor>>
  BY DEF RemoveEmpty, RemoveMoveOff, RemoveMoveHash, aside, Shifts
<1>2. w.i \in Slot /\ w.ret \in Returns
  BY <1>1 DEF Inv, Staged
<1>3. /\ w' \in Writers /\ w'.ret = w.ret /\ w'.loop = w.loop /\ w'.pos = w.pos
      /\ w'.n = w.n /\ w'.key = w.key /\ w'.size = w.size
      /\ w'.pc \in Shifts \cup {w.ret}
  <2>1. CASE RemoveEmpty
    <3>1. PICK j : j = Mover(w.i)
      OBVIOUS
    <3>2. j \in Nat
      BY <1>2, <3>1, MoverFound, Constants DEF Slot
    <3>3. w' = IF j = w.i THEN [w EXCEPT !.pc = w.ret]
               ELSE [w EXCEPT !.pc = "moveoff", !.j = j]
      BY <2>1, <3>1 DEF RemoveEmpty
    <3>4. w.ret \in Pcs /\ "moveoff" \in Pcs /\ "moveoff" \in Shifts
      BY <1>0, WriterFields, PcNames DEF Shifts
    <3>5. CASE j = w.i
      BY <1>0, <3>3, <3>4, <3>5 DEF Writers
    <3>6. CASE j # w.i
      BY <1>0, <3>2, <3>3, <3>4, <3>6 DEF Writers
    <3> QED BY <3>5, <3>6
  <2>2. CASE RemoveMoveOff
    <3>1. w' = [w EXCEPT !.pc = "movehash"] /\ "movehash" \in Pcs /\ "movehash" \in Shifts
      BY <2>2, PcNames DEF RemoveMoveOff, Shifts
    <3> QED BY <1>0, <3>1 DEF Writers
  <2>3. CASE RemoveMoveHash
    <3>1. w' = [w EXCEPT !.pc = "empty", !.i = w.j] /\ "empty" \in Pcs /\ "empty" \in Shifts
      BY <2>3, PcNames DEF RemoveMoveHash, Shifts
    <3>2. w.j \in Nat
      BY <1>0, WriterFields
    <3> QED BY <1>0, <3>1, <3>2 DEF Writers
  <2> QED BY <2>1, <2>2, <2>3
<1>4. Stage' = Stage
  BY <1>1, <1>2, <1>3 DEF Stage, Shifts, Returns
<1>5. Dropping' = Dropping /\ Taken' = Taken
  BY <1>4 DEF Dropping, Taken
<1>6. Phase' = Phase
  BY <1>3, <1>4, <1>5 DEF Phase
<1>7. Top' = Top
  BY <1>1, <1>3, <1>5 DEF Top
<1> QED BY <1>1, <1>2, <1>3, <1>4, <1>5, <1>6, <1>7

LEMMA RemoveEmptyKeeps ==
  ASSUME NEW S, Inv(S), RemoveEmpty
  PROVE  Inv(S)'
<1>0. Typed /\ w \in Writers /\ Chain(S, hd, tail, Top)
  BY DEF Inv, Typed
<1>1. /\ w.pc \in Shifts /\ w.i \in Slot /\ w.ret \in Returns
      /\ w' \in Writers /\ w'.ret = w.ret /\ w'.loop = w.loop /\ w'.pos = w.pos
      /\ w'.n = w.n /\ w'.key = w.key /\ w'.size = w.size
      /\ Stage' = Stage /\ Dropping' = Dropping /\ Phase' = Phase /\ Taken' = Taken
      /\ UNCHANGED <<body, head, tail, nops, aged, cursor>> /\ Top' = Top
  BY ShiftStage
<1>2. /\ w.pc = "empty" /\ idx' = [idx EXCEPT ![w.i].hash = Empty] /\ hd' = hd
  BY DEF RemoveEmpty
<1>3. PICK j \in Slot : j = Mover(w.i) /\ (j # w.i => idx[j].hash # Empty)
  BY <1>1, MoverFound
<1>4. w' = IF j = w.i THEN [w EXCEPT !.pc = w.ret]
           ELSE [w EXCEPT !.pc = "moveoff", !.j = j]
  BY <1>3 DEF RemoveEmpty
<1>5. /\ w'.i = w.i /\ IF j = w.i THEN w'.pc = w.ret ELSE w'.pc = "moveoff" /\ w'.j = j
  BY <1>0, <1>4 DEF Writers
<1>6. /\ idx' \in [Slot -> [hash : Nat, off : Nat]]
      /\ idx'[w.i].hash = Empty
      /\ \A s \in Slot : s # w.i => idx'[s] = idx[s]
  BY <1>0, <1>1, <1>2 DEF Typed, Empty
<1>7. Typed'
  BY <1>0, <1>1, <1>2, <1>6 DEF Typed
<1>8. Staged'
  <2>1. w'.pc \in Shifts => w'.ret \in Returns /\ w'.i \in Slot
    BY <1>1, <1>5
  <2>2. w'.pc \in {"moveoff", "movehash"} =>
          /\ w'.j \in Slot /\ w'.j # w'.i
          /\ idx'[w'.j].hash # Empty /\ idx'[w'.i].hash = Empty
    BY <1>1, <1>3, <1>5, <1>6 DEF Returns
  <2>3. w'.pc # "movehash"
    BY <1>1, <1>5 DEF Returns
  <2>4. w'.pc \in {"unlinked", "write", "writing", "puboff", "pubhash"} =>
          w'.i \in Slot /\ idx'[w'.i].hash = Empty
    BY <1>1, <1>5, <1>6
  <2>5. /\ Dropping => w.loop \in {"press", "alloc"}
        /\ Phase \in SetStages =>
             /\ w.key \in Keys /\ w.n > Hdr
             /\ Phase # "press" => w.n <= Data \div 2
    BY DEF Inv, Staged
  <2>6. w'.pc # "clear"
    BY <1>1, <1>5 DEF Returns
  <2> QED BY <1>1, <2>1, <2>2, <2>3, <2>4, <2>5, <2>6 DEF Staged
<1>9. w'.pc \in Returns \cup {"moveoff"}
  BY <1>1, <1>5
<1>10. Laid'
  BY <1>1, <1>2, <1>9 DEF Laid, Inv, Returns
<1>11. AtTail'
  BY <1>1, <1>2, <1>9 DEF AtTail, Inv, Returns, Moves, TailRec, HdrAt
<1>12. AtHead(S)'
  BY <1>9 DEF AtHead, Returns
<1>13. Indexed(S)'
  <2> SUFFICES ASSUME NEW s \in Slot, idx'[s].hash # Empty
               PROVE  /\ idx'[s].off \in S /\ idx'[s].off < Top
                      /\ Rec(hd, body, idx'[s].off, idx'[s].hash)
                      /\ Entry(s)'.slot = s
                      /\ idx'[s].off = tail => Stage # "evicted"
    BY <1>1, <1>2, <1>9 DEF Indexed, Returns
  <2>1. s # w.i /\ idx'[s] = idx[s] /\ ~Loose(s)
    BY <1>2, <1>6 DEF Loose
  <2>2. Entry(s)' = Entry(s)
    BY <1>2, <2>1 DEF Entry, HdrAt
  <2> QED BY <1>2, <2>1, <2>2 DEF Inv, Indexed
<1>14. Chain(S, hd, tail, Top)'
  BY <1>0, <1>1, <1>2
<1> QED BY <1>7, <1>8, <1>10, <1>11, <1>12, <1>13, <1>14 DEF Inv

LEMMA RemoveMoveHashKeeps ==
  ASSUME NEW S, Inv(S), RemoveMoveHash
  PROVE  Inv(S)'
<1>0. Typed /\ w \in Writers /\ Chain(S, hd, tail, Top)
  BY DEF Inv, Typed
<1>1. /\ w.pc \in Shifts /\ w.i \in Slot /\ w.ret \in Returns
      /\ w' \in Writers /\ w'.ret = w.ret /\ w'.loop = w.loop /\ w'.pos = w.pos
      /\ w'.n = w.n /\ w'.key = w.key /\ w'.size = w.size
      /\ Stage' = Stage /\ Dropping' = Dropping /\ Phase' = Phase /\ Taken' = Taken
      /\ UNCHANGED <<body, head, tail, nops, aged, cursor>> /\ Top' = Top
  BY ShiftStage
<1>2. /\ w.pc = "movehash" /\ idx' = [idx EXCEPT ![w.i].hash = idx[w.j].hash] /\ hd' = hd
      /\ w' = [w EXCEPT !.pc = "empty", !.i = w.j]
  BY DEF RemoveMoveHash
<1>3. /\ w.j \in Slot /\ w.j # w.i /\ idx[w.j].hash # Empty /\ idx[w.i].hash = Empty
      /\ idx[w.i].off = idx[w.j].off /\ Entry(w.j).slot = w.i
  BY <1>2 DEF Inv, Staged
<1>5. w'.i = w.j /\ w'.pc = "empty"
  BY <1>0, <1>2 DEF Writers
<1>6. /\ idx' \in [Slot -> [hash : Nat, off : Nat]]
      /\ idx'[w.i].hash = idx[w.j].hash /\ idx'[w.i].off = idx[w.j].off
      /\ \A s \in Slot : s # w.i => idx'[s] = idx[s]
  BY <1>0, <1>1, <1>2, <1>3 DEF Typed
<1>7. Typed'
  BY <1>0, <1>1, <1>2, <1>6 DEF Typed
<1>8. Staged'
  <2>5. /\ Dropping => w.loop \in {"press", "alloc"}
        /\ Phase \in SetStages =>
             /\ w.key \in Keys /\ w.n > Hdr
             /\ Phase # "press" => w.n <= Data \div 2
    BY DEF Inv, Staged
  <2> QED BY <1>1, <1>3, <1>5, <2>5 DEF Staged
<1>10. Laid'
  BY <1>1, <1>2, <1>5 DEF Laid, Inv
<1>11. AtTail'
  BY <1>1, <1>2, <1>5 DEF AtTail, Inv, Moves, TailRec, HdrAt
<1>12. AtHead(S)'
  BY <1>5 DEF AtHead
<1>13. Indexed(S)'
  <2> SUFFICES ASSUME NEW s \in Slot, idx'[s].hash # Empty
               PROVE  /\ idx'[s].off \in S /\ idx'[s].off < Top
                      /\ Rec(hd, body, idx'[s].off, idx'[s].hash)
                      /\ s # w.j => Entry(s)'.slot = s
                      /\ idx'[s].off = tail => Stage # "evicted"
    BY <1>1, <1>2, <1>5 DEF Indexed, Loose
  <2>1. PICK t \in Slot : t = IF s = w.i THEN w.j ELSE s
    BY <1>3
  <2>2. idx'[s].hash = idx[t].hash /\ idx'[s].off = idx[t].off /\ idx[t].hash # Empty
    BY <1>3, <1>6, <2>1
  <2>3. /\ idx[t].off \in S /\ idx[t].off < Top
        /\ Rec(hd, body, idx[t].off, idx[t].hash)
        /\ t # w.j => Entry(t).slot = t
        /\ idx[t].off = tail => Stage # "evicted"
    BY <1>2, <2>2 DEF Inv, Indexed, Loose
  <2>4. Entry(s)' = Entry(t)
    BY <1>2, <2>2 DEF Entry, HdrAt
  <2>5. s # w.j => Entry(s)'.slot = s
    BY <1>3, <2>1, <2>3, <2>4
  <2> QED BY <2>2, <2>3, <2>5
<1>14. Chain(S, hd, tail, Top)'
  BY <1>0, <1>1, <1>2
<1> QED BY <1>7, <1>8, <1>10, <1>11, <1>12, <1>13, <1>14 DEF Inv

\* Two positions of the log are two words of the region.
LEMMA PhysDistinct ==
  ASSUME NEW S, Inv(S), NEW p \in S, NEW q \in S, p < Top, q < Top, p # q
  PROVE  Phys(p) # Phys(q)
<1>1. /\ tail \in Nat /\ head \in Nat /\ Top \in Nat /\ Top <= head /\ head - tail <= Data
      /\ Chain(S, hd, tail, Top)
  BY TopFacts
<1>2. p \in Nat /\ q \in Nat /\ tail <= p /\ tail <= q
  BY <1>1 DEF Chain
<1>3. CASE p < q
  BY <1>1, <1>2, <1>3, Constants, PhysApart
<1>4. CASE q < p
  BY <1>1, <1>2, <1>4, Constants, PhysApart
<1> QED BY <1>2, <1>3, <1>4

LEMMA RemoveMoveOffKeeps ==
  ASSUME NEW S, Inv(S), RemoveMoveOff
  PROVE  Inv(S)'
<1>0. Typed /\ w \in Writers /\ Chain(S, hd, tail, Top)
  BY DEF Inv, Typed
<1>1. /\ w.pc \in Shifts /\ w.i \in Slot /\ w.ret \in Returns
      /\ w' \in Writers /\ w'.ret = w.ret /\ w'.loop = w.loop /\ w'.pos = w.pos
      /\ w'.n = w.n /\ w'.key = w.key /\ w'.size = w.size
      /\ Stage' = Stage /\ Dropping' = Dropping /\ Phase' = Phase /\ Taken' = Taken
      /\ UNCHANGED <<body, head, tail, nops, aged, cursor>> /\ Top' = Top
  BY ShiftStage
<1>2. /\ w.pc = "moveoff" /\ idx' = [idx EXCEPT ![w.i].off = idx[w.j].off]
      /\ hd' = [hd EXCEPT ![Phys(idx[w.j].off)].slot = w.i]
      /\ w' = [w EXCEPT !.pc = "movehash"]
  BY DEF RemoveMoveOff
<1>3. /\ w.j \in Slot /\ w.j # w.i /\ idx[w.j].hash # Empty /\ idx[w.i].hash = Empty
  BY <1>2 DEF Inv, Staged
<1>4. PICK p : p = idx[w.j].off
  OBVIOUS
<1>5. p \in Nat /\ Phys(p) \in Units
  BY <1>0, <1>3, <1>4, SlotTyped, PhysType
<1>6. w'.i = w.i /\ w'.j = w.j /\ w'.pc = "movehash"
  BY <1>0, <1>2 DEF Writers
<1>7. /\ idx' \in [Slot -> [hash : Nat, off : Nat]]
      /\ idx'[w.i].hash = Empty /\ idx'[w.i].off = p
      /\ \A s \in Slot : s # w.i => idx'[s] = idx[s]
  BY <1>0, <1>1, <1>2, <1>3, <1>4, <1>5 DEF Typed
<1>8. /\ hd' \in [Units -> Hdrs] /\ hd'[Phys(p)].slot = w.i
      /\ \A x \in Units : /\ hd'[x].seq = hd[x].seq /\ hd'[x].hash = hd[x].hash
                          /\ hd'[x].size = hd[x].size /\ hd'[x].ver = hd[x].ver
                          /\ hd'[x].key = hd[x].key
                          /\ x # Phys(p) => hd'[x] = hd[x]
  <2>1. PICK u \in Units : u = Phys(p)
    BY <1>5
  <2>2. hd' = [hd EXCEPT ![u].slot = w.i] /\ hd \in [Units -> Hdrs] /\ w.i \in Slot \cup {Pad}
    BY <1>0, <1>1, <1>2, <1>4, <2>1 DEF Typed
  <2>3. PICK e : e = [hd[u] EXCEPT !.slot = w.i]
    OBVIOUS
  <2>6. hd[u].hash # Empty
    <3>1. Rec(hd, body, p, idx[w.j].hash)
      BY <1>3, <1>4 DEF Inv, Indexed
    <3> QED BY <1>3, <2>1, <3>1 DEF Rec
  <2>4. e \in Hdrs /\ e.slot = w.i /\ e.seq = hd[u].seq /\ e.hash = hd[u].hash
        /\ e.size = hd[u].size /\ e.ver = hd[u].ver /\ e.key = hd[u].key
    BY <2>2, <2>3, <2>6 DEF Hdrs
  <2>5. hd' = [hd EXCEPT ![u] = e]
    BY <2>2, <2>3
  <2> QED BY <2>1, <2>2, <2>4, <2>5
<1>9. Typed'
  BY <1>0, <1>1, <1>7, <1>8 DEF Typed
<1>10. Staged'
  <2>2. hd'[Phys(idx'[w'.j].off)].slot = w'.i
    BY <1>3, <1>4, <1>6, <1>7, <1>8
  <2>5. /\ Dropping => w.loop \in {"press", "alloc"}
        /\ Phase \in SetStages =>
             /\ w.key \in Keys /\ w.n > Hdr
             /\ Phase # "press" => w.n <= Data \div 2
    BY DEF Inv, Staged
  <2>6. idx'[w'.i].off = idx'[w'.j].off
    BY <1>3, <1>4, <1>6, <1>7
  <2>7. w'.j \in Slot /\ w'.j # w'.i /\ idx'[w'.j].hash # Empty /\ idx'[w'.i].hash = Empty
    BY <1>3, <1>6, <1>7
  <2> QED BY <1>1, <1>6, <2>2, <2>5, <2>6, <2>7 DEF Staged, Entry, HdrAt
<1>11. \A q \in Nat : /\ hd'[Phys(q)].seq = hd[Phys(q)].seq /\ hd'[Phys(q)].hash = hd[Phys(q)].hash
                      /\ hd'[Phys(q)].size = hd[Phys(q)].size /\ hd'[Phys(q)].ver = hd[Phys(q)].ver
                      /\ hd'[Phys(q)].key = hd[Phys(q)].key
  BY <1>8, PhysType
<1>12. Laid'
  BY <1>1, <1>6 DEF Laid, Inv
<1>13. AtTail'
  <2>1. tail \in Nat
    BY <1>0 DEF Typed
  <2>2. Dropping => tail < head /\ GapAt(tail) = 0 /\ w.size = TailRec.size
    BY DEF Inv, AtTail
  <2>3. TailRec'.size = TailRec.size
    BY <1>1, <1>11, <2>1 DEF TailRec, HdrAt
  <2> QED BY <1>1, <1>6, <2>2, <2>3 DEF AtTail, Moves
<1>14. AtHead(S)'
  BY <1>6 DEF AtHead
<1>15. ASSUME NEW s \in Slot, idx[s].hash # Empty
       PROVE  /\ idx[s].off \in S /\ idx[s].off < Top
              /\ Rec(hd, body, idx[s].off, idx[s].hash)
              /\ Entry(s).slot = s
              /\ idx[s].off = tail => Stage # "evicted"
  BY <1>2, <1>15 DEF Inv, Indexed, Loose
<1>16. Indexed(S)'
  <2> SUFFICES ASSUME NEW s \in Slot, idx'[s].hash # Empty
               PROVE  /\ idx'[s].off \in S /\ idx'[s].off < Top
                      /\ Rec(hd', body, idx'[s].off, idx'[s].hash)
                      /\ s # w.j => Entry(s)'.slot = s
                      /\ idx'[s].off = tail => Stage # "evicted"
    BY <1>1, <1>6 DEF Indexed, Loose
  <2>1. s # w.i /\ idx'[s] = idx[s] /\ idx[s].hash # Empty
    BY <1>7
  <2>2. idx[s].off \in Nat
    BY <1>0, SlotTyped
  <2>3. Rec(hd', body, idx[s].off, idx[s].hash)
    BY <1>11, <1>15, <2>1, <2>2, RecSame
  <2>4. ASSUME s # w.j PROVE Entry(s)'.slot = s
    <3>1. /\ Entry(s).slot = s /\ Entry(w.j).slot = w.j
          /\ idx[s].off \in S /\ idx[s].off < Top /\ p \in S /\ p < Top
      BY <1>3, <1>4, <1>15, <2>1
    <3>2. idx[s].off # p
      BY <1>4, <2>4, <3>1 DEF Entry
    <3>3. Phys(idx[s].off) # Phys(p)
      BY <3>1, <3>2, PhysDistinct
    <3>4. hd'[Phys(idx[s].off)] = hd[Phys(idx[s].off)]
      BY <1>8, <2>2, <3>3, PhysType
    <3>5. Entry(s)' = Entry(s)
      BY <2>1, <3>4 DEF Entry, HdrAt
    <3> QED BY <3>1, <3>5
  <2> QED BY <1>15, <2>1, <2>3, <2>4
<1>17. Chain(S, hd, tail, Top)'
  <2>1. S \subseteq Nat
    BY <1>0 DEF Chain
  <2>2. Chain(S, hd', tail, Top)
    BY <1>0, <1>11, <2>1, ChainSame
  <2> QED BY <1>1, <2>2
<1> QED BY <1>9, <1>10, <1>12, <1>13, <1>14, <1>16, <1>17 DEF Inv
-----------------------------------------------------------------------------
(* Second chance.                                                          *)

\* A block written past the log leaves every record of the index as it is.
LEMMA WriteStep ==
  ASSUME NEW S, Inv(S), UNCHANGED <<idx, tail>>, w.pc \notin Shifts \cup {"bump"},
         NEW q \in Nat, NEW m \in Nat, Writes(hd, body, hd', body', q, m),
         Top <= q, q + m <= tail + Data, m <= Remain(q)
  PROVE  /\ Chain(S, hd', tail, Top)
         /\ \A p \in S : p < Top => hd'[Phys(p)] = hd[Phys(p)]
         /\ \A s \in Slot : idx[s].hash # Empty =>
              /\ idx[s].off \in S /\ idx[s].off < Top
              /\ Rec(hd', body', idx[s].off, idx[s].hash)
              /\ Entry(s)' = Entry(s) /\ Entry(s).slot = s
              /\ idx[s].off = tail => Stage # "evicted"
<1>1. /\ tail \in Nat /\ Top \in Nat /\ hd \in [Units -> Hdrs] /\ Chain(S, hd, tail, Top)
  BY TopFacts
<1>2. Chain(S, hd', tail, Top) /\ \A p \in S : p < Top => hd'[Phys(p)] = hd[Phys(p)]
  BY <1>1, ChainKept
<1>3. ASSUME NEW s \in Slot, idx[s].hash # Empty
      PROVE  /\ idx[s].off \in S /\ idx[s].off < Top
             /\ Rec(hd', body', idx[s].off, idx[s].hash)
             /\ Entry(s)' = Entry(s) /\ Entry(s).slot = s
             /\ idx[s].off = tail => Stage # "evicted"
  <2>1. ~Loose(s) /\ w.pc # "bump" /\ w.pc # "empty"
    BY DEF Loose, Shifts
  <2>2. /\ idx[s].off \in S /\ idx[s].off < Top
        /\ Rec(hd, body, idx[s].off, idx[s].hash) /\ Entry(s).slot = s
        /\ idx[s].off = tail => Stage # "evicted"
    BY <1>3, <2>1 DEF Inv, Indexed
  <2>3. Rec(hd', body', idx[s].off, idx[s].hash)
    BY <1>1, <2>2, RecKept
  <2>4. Entry(s)' = Entry(s)
    BY <1>2, <2>2 DEF Entry, HdrAt
  <2> QED BY <2>2, <2>3, <2>4
<1> QED BY <1>2, <1>3

\* The record that gets its second chance, and what becomes of the writer.
LEMMA ChanceFacts ==
  ASSUME NEW S, Inv(S), MustDrop, Chance, NEW pc \in Moves,
         w' = [w EXCEPT !.pc = pc, !.loop = w.pc, !.guard = @ + 1,
                        !.budget = @ - 1, !.size = TailRec.size],
         UNCHANGED <<head, tail, nops, aged, cursor>>
  PROVE  /\ w' \in Writers /\ w'.pc = pc /\ w'.size = TailRec.size /\ w'.loop = w.pc
         /\ w'.n = w.n /\ w'.key = w.key
         /\ Stage' = pc /\ Dropping' /\ Phase' = w.pc /\ ~Taken' /\ Top' = Top
         /\ TailRec.size \in Nat /\ TailRec.size > Hdr /\ TailRec.size <= Remain(tail)
         /\ TailRec.slot \in Slot /\ idx[TailRec.slot].off = tail
         /\ idx[TailRec.slot].hash # Empty /\ Entry(TailRec.slot) = TailRec
         /\ GapAt(tail) = 0 /\ Rec(hd, body, tail, idx[TailRec.slot].hash)
<1>0. Typed /\ w \in Writers /\ LiveTail /\ w.budget > 0
  BY DEF Inv, Typed, Chance
<1>1. w.pc \in {"press", "alloc"} /\ TailRec = hd[Phys(tail)] /\ tail \in Nat
      /\ hd \in [Units -> Hdrs] /\ ~Taken
  BY DropFacts
<1>2. /\ TailRec.slot \in Slot /\ idx[TailRec.slot].off = tail
      /\ Entry(TailRec.slot) = TailRec /\ GapAt(tail) = 0
      /\ idx[TailRec.slot].hash = TailRec.hash
  BY <1>0, LiveTailSlot
<1>3. TailRec.hash # Empty
  BY <1>0, LiveTailSlot
<1>4. Rec(hd, body, tail, idx[TailRec.slot].hash)
  BY <1>2, <1>3 DEF Inv, Indexed
<1>5. TailRec.size \in Nat /\ TailRec.size > Hdr /\ TailRec.size <= Remain(tail)
  BY <1>0, <1>1, <1>4, HdrTyped DEF Rec, TailRec
<1>6. /\ w' \in Writers /\ w'.pc = pc /\ w'.size = TailRec.size /\ w'.loop = w.pc
      /\ w'.n = w.n /\ w'.key = w.key
  <2>1. PICK z \in Nat : z = TailRec.size
    BY <1>5
  <2>2. w.guard + 1 \in Nat /\ w.budget - 1 \in Nat /\ pc \in Pcs /\ w.pc \in Pcs
    BY <1>0, WriterFields DEF Pcs
  <2>3. w' = [w EXCEPT !.pc = pc, !.loop = w.pc, !.guard = w.guard + 1,
                       !.budget = w.budget - 1, !.size = z]
    BY <2>1
  <2> QED BY <1>0, <2>1, <2>2, <2>3 DEF Writers
<1>7. Stage' = pc /\ Dropping' /\ Phase' = w.pc /\ ~Taken'
  BY <1>6 DEF Stage, Dropping, Phase, Taken, Shifts, Moves
<1>8. Top' = Top
  BY <1>1, <1>7 DEF Top
<1> QED BY <1>2, <1>3, <1>4, <1>5, <1>6, <1>7, <1>8

LEMMA MoveStaged ==
  ASSUME NEW S, Inv(S), MustDrop, w'.pc \in Moves, w'.loop = w.pc, w'.n = w.n,
         w'.key = w.key, Stage' = w'.pc, Dropping', Phase' = w.pc
  PROVE  Staged'
<1>1. /\ w.pc \in {"press", "alloc"} /\ w.key \in Keys /\ w.n > Hdr
      /\ (w.pc = "alloc" => w.n <= Data \div 2)
  BY DropFacts
<1> QED BY <1>1 DEF Staged, Shifts, Moves

LEMMA ReappendInPlaceKeeps ==
  ASSUME NEW S, Inv(S), ReappendInPlace
  PROVE  Inv(S)'
<1>0. Typed /\ w \in Writers
  BY DEF Inv, Typed
<1>1. /\ MustDrop /\ Chance /\ InPlace
      /\ UNCHANGED <<hd, body, head, tail, nops, aged, cursor>>
      /\ idx' = [idx EXCEPT ![TailRec.slot].off = head]
      /\ w' = [w EXCEPT !.pc = "bump", !.loop = w.pc, !.guard = @ + 1,
                        !.budget = @ - 1, !.size = TailRec.size]
  BY DEF ReappendInPlace, aside
<1>2. /\ tail < head /\ w.pc \in {"press", "alloc"} /\ Top = head /\ head \in Nat /\ tail \in Nat
      /\ Chain(S, hd, tail, head) /\ hd \in [Units -> Hdrs]
  BY <1>1, DropFacts
<1>3. "bump" \in Moves
  BY DEF Moves
<1>4. /\ w' \in Writers /\ w'.pc = "bump" /\ w'.size = TailRec.size /\ w'.loop = w.pc
      /\ w'.n = w.n /\ w'.key = w.key
      /\ Stage' = "bump" /\ Dropping' /\ Phase' = w.pc /\ ~Taken' /\ Top' = Top
      /\ TailRec.size \in Nat /\ TailRec.size > Hdr /\ TailRec.size <= Remain(tail)
      /\ TailRec.slot \in Slot /\ idx[TailRec.slot].off = tail
      /\ idx[TailRec.slot].hash # Empty /\ Entry(TailRec.slot) = TailRec
      /\ GapAt(tail) = 0 /\ Rec(hd, body, tail, idx[TailRec.slot].hash)
  BY <1>1, <1>3, ChanceFacts
<1>5. PICK o \in Slot : o = TailRec.slot
  BY <1>4
<1>6. /\ idx' \in [Slot -> [hash : Nat, off : Nat]]
      /\ idx'[o].hash = idx[o].hash /\ idx'[o].off = head
      /\ \A s \in Slot : s # o => idx'[s] = idx[s]
  BY <1>0, <1>1, <1>2, <1>5 DEF Typed
<1>7. Typed'
  BY <1>0, <1>1, <1>4, <1>6 DEF Typed
<1>8. Staged'
  BY <1>1, <1>3, <1>4, MoveStaged
<1>9. Laid'
  BY <1>1, <1>4 DEF Laid, Inv
<1>10. /\ Phys(head) = Phys(tail) /\ Remain(head) = Remain(tail) /\ HdrAt(head) = TailRec
       /\ Rec(hd, body, head, idx[o].hash)
  BY <1>1, <1>4, <1>5 DEF InPlace, Remain, HdrAt, TailRec, Rec, Sits
<1>11. AtTail'
  <2>1. TailRec' = TailRec /\ HdrAt(head)' = HdrAt(head)
    BY <1>1 DEF TailRec, HdrAt
  <2> QED BY <1>1, <1>2, <1>4, <1>5, <1>6, <1>10, <2>1 DEF AtTail
<1>12. AtHead(S)'
  BY <1>4 DEF AtHead
<1>13. Indexed(S)'
  <2> SUFFICES ASSUME NEW s \in Slot, idx'[s].hash # Empty
               PROVE  /\ idx'[s].off \in S
                      /\ idx'[s].off < Top \/ s = TailRec.slot
                      /\ Rec(hd, body, idx'[s].off, idx'[s].hash)
                      /\ Entry(s)'.slot = s
                      /\ idx'[s].off # tail
    <3>1. TailRec' = TailRec
      BY <1>1 DEF TailRec, HdrAt
    <3> QED BY <1>1, <1>4, <3>1 DEF Indexed
  <2>1. CASE s = o
    <3>1. head \in S
      BY <1>2 DEF Chain
    <3>2. Entry(s)' = TailRec
      BY <1>1, <1>6, <1>10, <2>1 DEF Entry, HdrAt
    <3> QED BY <1>2, <1>5, <1>6, <1>10, <2>1, <3>1, <3>2
  <2>2. CASE s # o
    <3>1. idx'[s] = idx[s] /\ idx[s].hash # Empty /\ ~Loose(s) /\ w.pc # "bump"
      BY <1>2, <1>6, <2>2 DEF Loose
    <3>2. idx[s].off # tail
      BY <1>1, <1>5, <2>2, <3>1, TailOwner
    <3>3. Entry(s)' = Entry(s)
      BY <1>1, <3>1 DEF Entry, HdrAt
    <3> QED BY <3>1, <3>2, <3>3 DEF Inv, Indexed
  <2> QED BY <2>1, <2>2
<1>14. Chain(S, hd, tail, Top)'
  BY <1>1, <1>4 DEF Inv
<1> QED BY <1>7, <1>8, <1>9, <1>11, <1>12, <1>13, <1>14 DEF Inv

LEMMA ReappendCopyKeeps ==
  ASSUME NEW S, Inv(S), ReappendCopy
  PROVE  Inv(S)'
<1>0. Typed /\ w \in Writers
  BY DEF Inv, Typed
<1>1. /\ MustDrop /\ Chance /\ Room
      /\ UNCHANGED <<idx, head, tail, nops, aged, cursor>>
      /\ Unsettle(Phys(head), TailRec.size)
      /\ w' = [w EXCEPT !.pc = "copying", !.loop = w.pc, !.guard = @ + 1,
                        !.budget = @ - 1, !.size = TailRec.size]
  BY DEF ReappendCopy, aside
<1>2. /\ tail < head /\ w.pc \in {"press", "alloc"} /\ Top = head /\ head \in Nat /\ tail \in Nat
      /\ tail \in S /\ hd \in [Units -> Hdrs]
  BY <1>1, DropFacts
<1>3. "copying" \in Moves
  BY DEF Moves
<1>4. /\ w' \in Writers /\ w'.pc = "copying" /\ w'.size = TailRec.size /\ w'.loop = w.pc
      /\ w'.n = w.n /\ w'.key = w.key
      /\ Stage' = "copying" /\ Dropping' /\ Phase' = w.pc /\ ~Taken' /\ Top' = Top
      /\ TailRec.size \in Nat /\ TailRec.size > Hdr /\ TailRec.size <= Remain(tail)
      /\ TailRec.slot \in Slot /\ idx[TailRec.slot].off = tail
      /\ idx[TailRec.slot].hash # Empty
      /\ GapAt(tail) = 0
  BY <1>1, <1>3, ChanceFacts
<1>5. PICK m \in Nat : m = TailRec.size
  BY <1>4
<1>6. m > 0 /\ head + m <= tail + Data /\ m <= Remain(head) /\ m <= Free
  <2>1. Free >= m /\ Phys(head) + m <= Data
    BY <1>1, <1>5 DEF Room
  <2>2. Phys(head) \in Nat /\ Remain(head) = Data - Phys(head)
    BY <1>2, PhysType
  <2>3. Free = Data - (head - tail)
    BY DEF Free
  <2> QED BY <1>2, <1>4, <1>5, <2>1, <2>2, <2>3, Constants
<1>7. /\ hd' \in [Units -> Hdrs] /\ body' \in [Units -> Nat \X Nat]
      /\ hd'[Phys(head)].seq \in {1, 3} /\ Writes(hd, body, hd', body', head, m)
  BY <1>0, <1>1, <1>2, <1>5, <1>6, Unsettled
<1>8. w.pc \notin Shifts \cup {"bump"} /\ Top <= head
  BY <1>2 DEF Shifts
<1>9. /\ Chain(S, hd', tail, Top)
      /\ \A p \in S : p < Top => hd'[Phys(p)] = hd[Phys(p)]
      /\ \A s \in Slot : idx[s].hash # Empty =>
           /\ idx[s].off \in S /\ idx[s].off < Top
           /\ Rec(hd', body', idx[s].off, idx[s].hash)
           /\ Entry(s)' = Entry(s) /\ Entry(s).slot = s
  BY <1>1, <1>2, <1>6, <1>7, <1>8, WriteStep
<1>10. Typed'
  BY <1>0, <1>1, <1>4, <1>7 DEF Typed
<1>11. Staged'
  BY <1>1, <1>3, <1>4, MoveStaged
<1>12. Laid'
  BY <1>1, <1>4 DEF Laid, Inv
<1>13. AtTail'
  <2>1. TailRec' = TailRec
    BY <1>1, <1>2, <1>9 DEF TailRec, HdrAt
  <2>2. Free' = Free
    BY <1>1 DEF Free
  <2> QED BY <1>1, <1>2, <1>4, <1>5, <1>6, <1>7, <2>1, <2>2 DEF AtTail
<1>14. AtHead(S)'
  BY <1>4 DEF AtHead
<1>15. Indexed(S)'
  BY <1>1, <1>4, <1>9 DEF Indexed
<1>16. Chain(S, hd, tail, Top)'
  BY <1>1, <1>4, <1>9
<1> QED BY <1>10, <1>11, <1>12, <1>13, <1>14, <1>15, <1>16 DEF Inv
LEMMA MoveFacts ==
  ASSUME NEW S, Inv(S), w.pc \in Moves
  PROVE  /\ Stage = w.pc /\ Dropping /\ Phase = w.loop /\ ~Taken /\ Top = head
         /\ w.loop \in {"press", "alloc"} /\ w.key \in Keys /\ w.n > Hdr
         /\ (w.loop = "alloc" => w.n <= Data \div 2)
         /\ tail < head /\ GapAt(tail) = 0 /\ w.size = TailRec.size /\ w.size \in Nat
         /\ TailRec = hd[Phys(tail)] /\ TailRec \in Hdrs
         /\ TailRec.slot \in Slot /\ idx[TailRec.slot].hash # Empty /\ w.size <= Remain(head)
         /\ head \in Nat /\ tail \in Nat /\ hd \in [Units -> Hdrs] /\ tail \in S /\ head \in S
         /\ Chain(S, hd, tail, head)
         /\ Rec(hd, body, idx[TailRec.slot].off, idx[TailRec.slot].hash)
         /\ Entry(TailRec.slot).slot = TailRec.slot
<1>1. Stage = w.pc /\ Dropping /\ Phase = w.loop /\ ~Taken /\ Top = head
  BY DEF Stage, Dropping, Phase, Taken, Top, Shifts, Moves
<1>2. w.loop \in {"press", "alloc"}
  BY <1>1 DEF Inv, Staged
<1>3. w.key \in Keys /\ w.n > Hdr /\ (w.loop = "alloc" => w.n <= Data \div 2)
  BY <1>1, <1>2 DEF Inv, Staged, SetStages
<1>4. /\ tail < head /\ GapAt(tail) = 0 /\ w.size = TailRec.size
      /\ TailRec.slot \in Slot /\ idx[TailRec.slot].hash # Empty /\ w.size <= Remain(head)
  BY <1>1 DEF Inv, AtTail
<1>5. head \in Nat /\ tail \in Nat /\ hd \in [Units -> Hdrs] /\ w.size \in Nat
  BY WriterFields DEF Inv, Typed
<1>6. Chain(S, hd, tail, head) /\ tail \in S /\ head \in S
  BY <1>1 DEF Inv, Chain
<1>7. TailRec = hd[Phys(tail)] /\ TailRec \in Hdrs
  BY <1>5, PhysType DEF TailRec, HdrAt
<1>8. /\ Rec(hd, body, idx[TailRec.slot].off, idx[TailRec.slot].hash)
      /\ Entry(TailRec.slot).slot = TailRec.slot
  <2>1. PICK s \in Slot : s = TailRec.slot
    BY <1>4
  <2>2. ~Loose(s) /\ idx[s].hash # Empty
    BY <1>4, <2>1 DEF Loose, Moves
  <2>3. Rec(hd, body, idx[s].off, idx[s].hash) /\ Entry(s).slot = s
    BY <2>2 DEF Inv, Indexed
  <2> QED BY <2>1, <2>3
<1> QED BY <1>1, <1>2, <1>3, <1>4, <1>5, <1>6, <1>7, <1>8

LEMMA NextMove ==
  ASSUME NEW S, Inv(S), w.pc \in Moves, NEW pc \in Moves, w' = [w EXCEPT !.pc = pc],
         UNCHANGED <<head, tail, nops, aged, cursor>>
  PROVE  /\ w' \in Writers /\ w'.pc = pc /\ w'.size = w.size
         /\ Stage' = pc /\ Dropping' /\ ~Taken' /\ Top' = head /\ Staged'
<1>0. w \in Writers
  BY DEF Inv, Typed
<1>1. /\ w.loop \in {"press", "alloc"} /\ w.key \in Keys /\ w.n > Hdr
      /\ (w.loop = "alloc" => w.n <= Data \div 2)
  BY MoveFacts
<1>2. /\ w' \in Writers /\ w'.pc = pc /\ w'.size = w.size /\ w'.loop = w.loop
      /\ w'.n = w.n /\ w'.key = w.key
  <2>1. pc \in Pcs
    BY DEF Pcs
  <2> QED BY <1>0, <2>1 DEF Writers
<1>3. Stage' = pc /\ Dropping' /\ ~Taken' /\ Top' = head /\ Phase' = w.loop
  BY <1>2 DEF Stage, Dropping, Phase, Taken, Top, Shifts, Moves
<1>4. Staged'
  BY <1>1, <1>2, <1>3 DEF Staged, Shifts, Moves
<1> QED BY <1>2, <1>3, <1>4

LEMMA ReappendCopiedKeeps ==
  ASSUME NEW S, Inv(S), ReappendCopied
  PROVE  Inv(S)'
<1>0. Typed /\ w \in Writers
  BY DEF Inv, Typed
<1>1. /\ w.pc = "copying" /\ UNCHANGED <<idx, head, tail, nops, aged, cursor>>
      /\ Settle(Phys(head), TailRec) /\ Payload(Phys(head), TailRec)
      /\ w' = [w EXCEPT !.pc = "copied"]
  BY DEF ReappendCopied, aside
<1>2. w.pc \in Moves /\ "copied" \in Moves
  BY <1>1 DEF Moves
<1>3. /\ Top = head /\ tail < head /\ GapAt(tail) = 0 /\ w.size = TailRec.size /\ w.size \in Nat
      /\ TailRec = hd[Phys(tail)] /\ TailRec \in Hdrs
      /\ TailRec.slot \in Slot /\ idx[TailRec.slot].hash # Empty /\ w.size <= Remain(head)
      /\ head \in Nat /\ tail \in Nat /\ hd \in [Units -> Hdrs] /\ tail \in S
      /\ Rec(hd, body, idx[TailRec.slot].off, idx[TailRec.slot].hash)
  BY <1>2, MoveFacts
<1>4. /\ w' \in Writers /\ w'.pc = "copied" /\ w'.size = w.size
      /\ Stage' = "copied" /\ Dropping' /\ ~Taken' /\ Top' = head /\ Staged'
  BY <1>1, <1>2, NextMove
<1>5. /\ idx[TailRec.slot].off = tail /\ w.size <= Free /\ hd[Phys(head)].seq \in {1, 3}
  BY <1>1 DEF Inv, AtTail
<1>6. PICK e \in Hdrs : e = TailRec
  BY <1>3
<1>7. PICK m \in Nat : m = w.size
  BY <1>3
<1>8. e.size = m /\ e.size > Hdr /\ m > 0 /\ head + m <= tail + Data /\ m <= Remain(head)
  <2>1. e.size = m /\ e.size > Hdr
    BY <1>3, <1>5, <1>6, <1>7 DEF Rec
  <2> QED BY <1>3, <1>5, <1>7, <2>1, Constants DEF Free
<1>9. /\ hd' \in [Units -> Hdrs] /\ hd'[Phys(head)].seq \in {0, 2}
      /\ hd'[Phys(head)].slot = e.slot /\ hd'[Phys(head)].hash = e.hash
      /\ hd'[Phys(head)].size = e.size /\ hd'[Phys(head)].ver = e.ver
      /\ hd'[Phys(head)].key = e.key
      /\ \A x \in Units : x # Phys(head) => hd'[x] = hd[x]
  <2>1. Settle(Phys(head), e)
    BY <1>1, <1>6
  <2> QED BY <1>0, <1>3, <1>5, <2>1, Settled
<1>10. /\ body' \in [Units -> Nat \X Nat]
       /\ \A x \in 0 .. e.size - 1 : body'[Phys(head) + x] = <<e.ver, x>>
       /\ \A x \in Units : x \notin Phys(head) .. Phys(head) + e.size - 1 => body'[x] = body[x]
  <2>1. Payload(Phys(head), e)
    BY <1>1, <1>6
  <2> QED BY <1>0, <1>3, <1>8, <2>1, Paid
<1>11. Writes(hd, body, hd', body', head, m)
  <2>1. ASSUME NEW x \in Units, x \notin Phys(head) .. Phys(head) + m - 1
        PROVE  x # Phys(head)
    BY <1>3, <1>8, <2>1, PhysType
  <2> QED BY <1>8, <1>9, <1>10, <2>1 DEF Writes
<1>12. w.pc \notin Shifts \cup {"bump"} /\ Top <= head
  BY <1>1, <1>3 DEF Shifts
<1>13. /\ Chain(S, hd', tail, Top)
       /\ \A p \in S : p < Top => hd'[Phys(p)] = hd[Phys(p)]
       /\ \A s \in Slot : idx[s].hash # Empty =>
            /\ idx[s].off \in S /\ idx[s].off < Top
            /\ Rec(hd', body', idx[s].off, idx[s].hash)
            /\ Entry(s)' = Entry(s) /\ Entry(s).slot = s
  BY <1>1, <1>3, <1>8, <1>11, <1>12, WriteStep
<1>14. Typed'
  BY <1>0, <1>1, <1>4, <1>9, <1>10 DEF Typed
<1>15. Laid'
  BY <1>1, <1>4 DEF Laid, Inv
<1>16. TailRec' = TailRec
  BY <1>1, <1>3, <1>13 DEF TailRec, HdrAt
<1>17. Rec(hd', body', head, idx[TailRec.slot].hash)
  <2>1. e.hash = idx[TailRec.slot].hash /\ e.key \in Keys /\ e.hash = Hash[e.key]
    BY <1>3, <1>5, <1>6 DEF Rec
  <2>2. \A x \in Hdr .. e.size - 1 : body'[Phys(head) + x] = <<e.ver, x>>
    BY <1>8, <1>10, Constants
  <2> QED BY <1>8, <1>9, <2>1, <2>2 DEF Rec, Sits
<1>18. AtTail'
  <2>1. Free' = Free
    BY <1>1 DEF Free
  <2>2. HdrAt(head)' = hd'[Phys(head)]
    BY <1>1 DEF HdrAt
  <2>3. /\ HdrAt(head)'.slot = TailRec'.slot /\ HdrAt(head)'.size = w'.size
        /\ HdrAt(head)'.key = TailRec'.key /\ HdrAt(head)'.ver = TailRec'.ver
    BY <1>4, <1>6, <1>7, <1>8, <1>9, <1>16, <2>2
  <2> QED
    BY <1>1, <1>3, <1>4, <1>5, <1>16, <1>17, <2>1, <2>3 DEF AtTail
<1>19. AtHead(S)'
  BY <1>4 DEF AtHead
<1>20. Indexed(S)'
  BY <1>1, <1>3, <1>4, <1>13 DEF Indexed
<1>21. Chain(S, hd, tail, Top)'
  BY <1>1, <1>3, <1>4, <1>13
<1> QED BY <1>4, <1>14, <1>15, <1>18, <1>19, <1>20, <1>21 DEF Inv

LEMMA ReappendPublishKeeps ==
  ASSUME NEW S, Inv(S), ReappendPublish
  PROVE  Inv(S)'
<1>0. Typed /\ w \in Writers
  BY DEF Inv, Typed
<1>1. /\ w.pc = "copied" /\ UNCHANGED <<hd, body, head, tail, nops, aged, cursor>>
      /\ idx' = [idx EXCEPT ![TailRec.slot].off = head]
      /\ w' = [w EXCEPT !.pc = "bump"]
  BY DEF ReappendPublish, aside
<1>2. w.pc \in Moves /\ "bump" \in Moves
  BY <1>1 DEF Moves
<1>3. /\ Top = head /\ tail < head /\ GapAt(tail) = 0 /\ w.size = TailRec.size
      /\ TailRec.slot \in Slot /\ idx[TailRec.slot].hash # Empty /\ w.size <= Remain(head)
      /\ head \in Nat /\ tail \in Nat /\ head \in S
      /\ Entry(TailRec.slot).slot = TailRec.slot
  BY <1>2, MoveFacts
<1>4. /\ w' \in Writers /\ w'.pc = "bump" /\ w'.size = w.size
      /\ Stage' = "bump" /\ Dropping' /\ ~Taken' /\ Top' = head /\ Staged'
  BY <1>1, <1>2, NextMove
<1>5. /\ idx[TailRec.slot].off = tail /\ Rec(hd, body, head, idx[TailRec.slot].hash)
      /\ HdrAt(head).slot = TailRec.slot /\ HdrAt(head).size = w.size
  BY <1>1 DEF Inv, AtTail
<1>6. PICK o \in Slot : o = TailRec.slot
  BY <1>3
<1>7. /\ idx' \in [Slot -> [hash : Nat, off : Nat]]
      /\ idx'[o].hash = idx[o].hash /\ idx'[o].off = head
      /\ \A s \in Slot : s # o => idx'[s] = idx[s]
  BY <1>0, <1>1, <1>3, <1>6 DEF Typed
<1>8. Typed'
  BY <1>0, <1>1, <1>4, <1>7 DEF Typed
<1>9. Laid'
  BY <1>1, <1>4 DEF Laid, Inv
<1>10. TailRec' = TailRec /\ HdrAt(head)' = HdrAt(head)
  BY <1>1 DEF TailRec, HdrAt
<1>11. AtTail'
  BY <1>1, <1>3, <1>4, <1>5, <1>6, <1>7, <1>10 DEF AtTail
<1>12. AtHead(S)'
  BY <1>4 DEF AtHead
<1>13. Indexed(S)'
  <2> SUFFICES ASSUME NEW s \in Slot, idx'[s].hash # Empty
               PROVE  /\ idx'[s].off \in S
                      /\ idx'[s].off < head \/ s = TailRec.slot
                      /\ Rec(hd, body, idx'[s].off, idx'[s].hash)
                      /\ Entry(s)'.slot = s
                      /\ idx'[s].off # tail
    BY <1>1, <1>4, <1>10 DEF Indexed
  <2>1. CASE s = o
    <3>1. Entry(s)' = HdrAt(head)
      BY <1>1, <1>7, <2>1 DEF Entry, HdrAt
    <3> QED BY <1>3, <1>5, <1>6, <1>7, <2>1, <3>1
  <2>2. CASE s # o
    <3>1. idx'[s] = idx[s] /\ idx[s].hash # Empty /\ ~Loose(s)
      BY <1>1, <1>7, <2>2 DEF Loose
    <3>2. /\ idx[s].off \in S /\ idx[s].off < head
          /\ Rec(hd, body, idx[s].off, idx[s].hash) /\ Entry(s).slot = s
      BY <1>1, <1>3, <3>1 DEF Inv, Indexed
    <3>3. idx[s].off # tail
      BY <1>3, <1>5, <1>6, <2>2, <3>2 DEF Entry
    <3>4. Entry(s)' = Entry(s)
      BY <1>1, <3>1 DEF Entry, HdrAt
    <3> QED BY <3>1, <3>2, <3>3, <3>4
  <2> QED BY <2>1, <2>2
<1>14. Chain(S, hd, tail, Top)'
  BY <1>1, <1>3, <1>4 DEF Inv
<1> QED BY <1>4, <1>8, <1>9, <1>11, <1>12, <1>13, <1>14 DEF Inv

LEMMA BumpKeeps ==
  ASSUME NEW S, Inv(S), Bump, NEW T, T = (S \cup {head + w.size}) \ {tail}
  PROVE  Inv(T)'
<1>0. Typed /\ w \in Writers
  BY DEF Inv, Typed
<1>1. /\ w.pc = "bump" /\ UNCHANGED <<idx, hd, body, nops, aged, cursor>>
      /\ head' = head + w.size /\ tail' = tail + w.size
      /\ w' = [w EXCEPT !.pc = w.loop]
  BY DEF Bump, aside
<1>2. w.pc \in Moves
  BY <1>1 DEF Moves
<1>3. /\ ~Taken /\ Top = head /\ w.loop \in {"press", "alloc"} /\ w.key \in Keys /\ w.n > Hdr
      /\ (w.loop = "alloc" => w.n <= Data \div 2)
      /\ tail < head /\ GapAt(tail) = 0 /\ w.size = TailRec.size /\ w.size \in Nat
      /\ TailRec = hd[Phys(tail)]
      /\ TailRec.slot \in Slot /\ idx[TailRec.slot].hash # Empty
      /\ head \in Nat /\ tail \in Nat /\ hd \in [Units -> Hdrs]
      /\ Chain(S, hd, tail, head)
      /\ Rec(hd, body, idx[TailRec.slot].off, idx[TailRec.slot].hash)
  BY <1>2, MoveFacts
<1>4. idx[TailRec.slot].off = head /\ HdrAt(head).size = w.size
  BY <1>1 DEF Inv, AtTail
<1>5. Whole(hd, head) /\ Span(hd, head) = w.size /\ Span(hd, tail) = w.size
  <2>1. Rec(hd, body, head, idx[TailRec.slot].hash)
    BY <1>3, <1>4
  <2>2. Whole(hd, head) /\ Span(hd, head) = hd[Phys(head)].size
    BY <1>3, <2>1, RecFacts
  <2> QED BY <1>3, <1>4, <2>2 DEF Span, HdrAt
<1>6. w.size > 0
  BY <1>3, <1>5, SpanType
<1>7. PICK U : U = S \cup {head + w.size}
  OBVIOUS
<1>8. Chain(U, hd, tail, head + w.size)
  BY <1>3, <1>5, <1>7, ChainGrow
<1>9. Chain(T, hd, tail', head')
  <2>1. PICK top \in Nat : top = head + w.size
    BY <1>3
  <2>2. Chain(U, hd, tail, top) /\ tail < top
    BY <1>3, <1>6, <1>8, <2>1
  <2>3. Chain(U \ {tail}, hd, tail + Span(hd, tail), top)
    BY <1>3, <2>2, ChainDrop
  <2> QED BY <1>1, <1>5, <1>7, <2>1, <2>3
<1>10. /\ w' \in Writers /\ w'.pc = w.loop /\ w'.n = w.n /\ w'.key = w.key
  BY <1>0, <1>1, WriterFields DEF Writers
<1>11. Stage' = w.loop /\ Phase' = w.loop /\ ~Taken' /\ ~Dropping' /\ Top' = head'
  BY <1>3, <1>10 DEF Taken, Stage, Phase, Dropping, Shifts, Moves, Top
<1>12. Typed'
  BY <1>0, <1>1, <1>3, <1>10 DEF Typed
<1>13. Staged'
  BY <1>3, <1>10, <1>11 DEF Staged, Shifts
<1>14. Laid'
  <2>1. head' - tail' <= Data
    <3>1. head - tail <= Data
      BY DEF Inv, Laid
    <3> QED BY <1>1, <1>3, <3>1, Constants
  <2> QED BY <1>3, <1>10, <1>11, <2>1 DEF Laid
<1>15. AtTail'
  BY <1>3, <1>10, <1>11 DEF AtTail, Moves
<1>16. AtHead(T)'
  BY <1>3, <1>10 DEF AtHead
<1>17. Indexed(T)'
  <2> SUFFICES ASSUME NEW s \in Slot, idx[s].hash # Empty
               PROVE  /\ idx[s].off \in T
                      /\ idx[s].off < head'
                      /\ Rec(hd, body, idx[s].off, idx[s].hash)
                      /\ Entry(s).slot = s
    <3>2. w'.pc # "bump" /\ Stage' # "evicted"
      BY <1>3, <1>10, <1>11
    <3> QED BY <1>1, <1>11, <3>2 DEF Indexed, Entry, HdrAt
  <2>1. ~Loose(s)
    BY <1>1 DEF Loose
  <2>2. /\ idx[s].off \in S
        /\ idx[s].off < head \/ s = TailRec.slot
        /\ Rec(hd, body, idx[s].off, idx[s].hash) /\ Entry(s).slot = s
        /\ idx[s].off # tail
    BY <1>1, <1>3, <2>1 DEF Inv, Indexed
  <2>3. idx[s].off < head'
    <3>1. idx[s].off \in Nat
      BY <1>0, SlotTyped
    <3> QED BY <1>1, <1>3, <1>4, <1>6, <2>2, <3>1
  <2>4. idx[s].off \in T
    <3>1. idx[s].off \in S
      BY DEF Inv, Indexed
    <3> QED BY <2>2, <3>1
  <2> QED BY <2>2, <2>3, <2>4
<1> QED BY <1>1, <1>9, <1>11, <1>12, <1>13, <1>14, <1>15, <1>16, <1>17 DEF Inv
-----------------------------------------------------------------------------
(* The allocator and the block of a set.                                   *)

\* The head steps over a whole block, of which the index knows nothing.
LEMMA StepHead ==
  ASSUME NEW S, NEW T, T = S \cup {head'}, Typed, Typed', Staged', Laid',
         Chain(S, hd', tail, head), UNCHANGED <<idx, tail>>,
         Whole(hd', head), head' = head + Span(hd', head), w'.pc = "alloc",
         \A s \in Slot : idx[s].hash # Empty =>
           /\ idx[s].off \in S /\ idx[s].off < head
           /\ Rec(hd', body', idx[s].off, idx[s].hash) /\ Entry(s)'.slot = s
  PROVE  Inv(T)'
<1>1. hd' \in [Units -> Hdrs] /\ head \in Nat /\ tail \in Nat
  BY DEF Typed
<1>2. Chain(T, hd', tail, head')
  BY <1>1, ChainGrow
<1>3. head' \in Nat /\ head < head'
  BY <1>1, SpanType
<1>4. Stage' = "alloc" /\ ~Taken' /\ ~Dropping' /\ Top' = head'
  BY DEF Stage, Taken, Dropping, Top, Shifts, Moves
<1>5. AtTail' /\ AtHead(T)'
  BY <1>4 DEF AtTail, AtHead, Moves
<1>6. Indexed(T)'
  <2> SUFFICES ASSUME NEW s \in Slot, idx[s].hash # Empty
               PROVE  /\ idx[s].off \in T /\ idx[s].off < head'
                      /\ Rec(hd', body', idx[s].off, idx[s].hash) /\ Entry(s)'.slot = s
    BY <1>4 DEF Indexed
  <2>1. idx[s].off \in Nat
    BY SlotTyped
  <2> QED BY <1>1, <1>3, <2>1
<1> QED BY <1>2, <1>4, <1>5, <1>6 DEF Inv

\* What the index holds while no entry is on the move.
LEMMA AtRest ==
  ASSUME NEW S, Inv(S), w.pc \notin Shifts \cup {"bump"}, NEW s \in Slot, idx[s].hash # Empty
  PROVE  /\ idx[s].off \in S /\ idx[s].off < Top
         /\ Rec(hd, body, idx[s].off, idx[s].hash) /\ Entry(s).slot = s
<1>1. ~Loose(s) /\ w.pc # "bump"
  BY DEF Loose, Shifts
<1> QED BY <1>1 DEF Inv, Indexed

LEMMA AllocGapKeeps ==
  ASSUME NEW S, Inv(S), AllocGap, NEW T, T = S \cup {head'}
  PROVE  Inv(T)'
<1>0. Typed /\ w \in Writers
  BY DEF Inv, Typed
<1>1. /\ w.pc = "alloc" /\ ~MustDrop /\ GapAt(head) > 0 /\ head' = head + GapAt(head)
      /\ UNCHANGED <<idx, hd, body, tail, w, nops, aged, cursor>>
  BY DEF AllocGap, aside
<1>2. /\ Want <= Free /\ Free \in Int /\ Free = Data - (head - tail)
      /\ w.n \in Nat /\ w.n > Hdr /\ w.n <= Data \div 2 /\ w.key \in Keys
      /\ ~Taken /\ Top = head /\ head \in Nat /\ tail \in Nat
  BY <1>1, AllocFits
<1>3. GapAt(head) \in Nat
  BY <1>2, PhysType
<1>4. head' \in Nat /\ head' - tail <= Data
  BY <1>1, <1>2, <1>3, Constants DEF Want
<1>5. Typed'
  BY <1>0, <1>1, <1>4 DEF Typed
<1>6. Stage' = "alloc" /\ ~Taken' /\ ~Dropping' /\ Phase' = "alloc"
  BY <1>1 DEF Stage, Taken, Dropping, Phase, Shifts, Moves
<1>7. Staged'
  BY <1>1, <1>2, <1>6 DEF Staged, Shifts
<1>8. Laid'
  BY <1>1, <1>4, <1>6 DEF Laid
<1>9. Whole(hd, head) /\ Span(hd, head) = GapAt(head)
  BY <1>1 DEF Whole, Span
<1>10. Chain(S, hd, tail, head)
  BY <1>2 DEF Inv
<1>11. ASSUME NEW s \in Slot, idx[s].hash # Empty
       PROVE  /\ idx[s].off \in S /\ idx[s].off < head
              /\ Rec(hd, body, idx[s].off, idx[s].hash) /\ Entry(s)'.slot = s
  <2>1. w.pc \notin Shifts \cup {"bump"}
    BY <1>1 DEF Shifts
  <2>2. /\ idx[s].off \in S /\ idx[s].off < head
        /\ Rec(hd, body, idx[s].off, idx[s].hash) /\ Entry(s).slot = s
    BY <1>2, <1>11, <2>1, AtRest
  <2>3. Entry(s)' = Entry(s)
    BY <1>1 DEF Entry, HdrAt
  <2> QED BY <2>2, <2>3
<1> QED BY <1>0, <1>1, <1>5, <1>7, <1>8, <1>9, <1>10, <1>11, StepHead

LEMMA AllocPadKeeps ==
  ASSUME NEW S, Inv(S), AllocPad
  PROVE  Inv(S)'
<1>0. Typed /\ w \in Writers
  BY DEF Inv, Typed
<1>1. /\ w.pc = "alloc" /\ ~MustDrop /\ GapAt(head) = 0 /\ Want < w.n
      /\ UNCHANGED <<idx, head, tail, nops, aged, cursor>>
      /\ Unsettle(Phys(head), Hdr) /\ w' = [w EXCEPT !.pc = "padding"]
  BY DEF AllocPad, aside
<1>2. /\ Want <= Free /\ Free \in Int /\ Free = Data - (head - tail)
      /\ w.n \in Nat /\ w.n > Hdr /\ w.n <= Data \div 2 /\ w.key \in Keys
      /\ ~Taken /\ Top = head /\ head \in Nat /\ tail \in Nat /\ Stage = "alloc"
  BY <1>1, AllocFits
<1>3. Want = Remain(head) /\ Remain(head) \in Nat /\ Hdr <= Remain(head)
  BY <1>1, <1>2, PhysType, Constants DEF Want
<1>4. /\ w' \in Writers /\ w'.pc = "padding" /\ w'.n = w.n /\ w'.key = w.key
  BY <1>0, <1>1, PcNames DEF Writers
<1>5. /\ hd' \in [Units -> Hdrs] /\ body' \in [Units -> Nat \X Nat]
      /\ hd'[Phys(head)].seq \in {1, 3} /\ Writes(hd, body, hd', body', head, Hdr)
  BY <1>0, <1>1, <1>2, Constants, Unsettled
<1>6. head + Hdr <= tail + Data
  BY <1>2, <1>3, Constants
<1>7. w.pc \notin Shifts \cup {"bump"} /\ Top <= head
  BY <1>1, <1>2 DEF Shifts
<1>8. /\ Chain(S, hd', tail, Top)
      /\ \A s \in Slot : idx[s].hash # Empty =>
           /\ idx[s].off \in S /\ idx[s].off < Top
           /\ Rec(hd', body', idx[s].off, idx[s].hash)
           /\ Entry(s)' = Entry(s) /\ Entry(s).slot = s
  BY <1>1, <1>2, <1>3, <1>5, <1>6, <1>7, Constants, WriteStep
<1>9. Typed'
  BY <1>0, <1>1, <1>4, <1>5 DEF Typed
<1>10. Stage' = "padding" /\ ~Taken' /\ ~Dropping' /\ Phase' = "padding" /\ Top' = Top
  BY <1>1, <1>2, <1>4 DEF Stage, Taken, Dropping, Phase, Shifts, Moves, Top
<1>11. Staged'
  BY <1>2, <1>4, <1>10 DEF Staged, Shifts
<1>12. Laid'
  <2>1. Free' = Free /\ head - tail <= Data
    BY <1>1 DEF Free, Inv, Laid
  <2> QED BY <1>1, <1>2, <1>3, <1>4, <1>5, <1>10, <2>1 DEF Laid
<1>13. AtTail' /\ AtHead(S)'
  BY <1>4, <1>10 DEF AtTail, AtHead, Moves
<1>14. Indexed(S)'
  BY <1>1, <1>4, <1>8, <1>10 DEF Indexed
<1> QED BY <1>1, <1>8, <1>9, <1>10, <1>11, <1>12, <1>13, <1>14 DEF Inv

LEMMA PadTyped ==
  ASSUME NEW n \in Nat
  PROVE  PadRecord(n) \in Hdrs /\ PadRecord(n).size = n
<1>1. NoHdr \in Hdrs /\ NoHdr.slot = Pad /\ NoHdr.key = NoKey
  BY NoHdrType DEF NoHdr
<1> QED BY <1>1 DEF PadRecord, Hdrs

LEMMA AllocPaddedKeeps ==
  ASSUME NEW S, Inv(S), AllocPadded, NEW T, T = S \cup {head'}
  PROVE  Inv(T)'
<1>0. Typed /\ w \in Writers /\ head \in Nat /\ tail \in Nat
  BY DEF Inv, Typed
<1>1. /\ w.pc = "padding" /\ head' = head + Remain(head)
      /\ UNCHANGED <<idx, body, tail, nops, aged, cursor>>
      /\ Settle(Phys(head), PadRecord(Remain(head))) /\ w' = [w EXCEPT !.pc = "alloc"]
  BY DEF AllocPadded, aside
<1>2. Stage = "padding" /\ Phase = "padding" /\ ~Taken /\ Top = head
  BY <1>1 DEF Stage, Taken, Dropping, Phase, Shifts, Moves, Top
<1>3. w.key \in Keys /\ w.n > Hdr /\ w.n <= Data \div 2
  BY <1>2 DEF Inv, Staged, SetStages
<1>4. GapAt(head) = 0 /\ Remain(head) <= Free /\ hd[Phys(head)].seq \in {1, 3}
  BY <1>1 DEF Inv, Laid
<1>5. Remain(head) \in Nat /\ Remain(head) > 0 /\ Phys(head) \in Nat
  BY <1>0, PhysType
<1>6. PadRecord(Remain(head)) \in Hdrs /\ PadRecord(Remain(head)).size = Remain(head)
  BY <1>5, PadTyped
<1>7. /\ hd' \in [Units -> Hdrs] /\ hd'[Phys(head)].seq \in {0, 2}
      /\ hd'[Phys(head)].size = Remain(head)
      /\ \A x \in Units : x # Phys(head) => hd'[x] = hd[x]
  BY <1>0, <1>1, <1>4, <1>6, Settled
<1>8. /\ w' \in Writers /\ w'.pc = "alloc" /\ w'.n = w.n /\ w'.key = w.key
  BY <1>0, <1>1, PcNames DEF Writers
<1>9. head + 1 <= tail + Data /\ head' - tail <= Data /\ head' \in Nat
  BY <1>0, <1>1, <1>4, <1>5, Constants DEF Free
<1>10. Writes(hd, body, hd', body', head, 1)
  <2>1. Phys(head) \in Phys(head) .. Phys(head) + 1 - 1
    BY <1>5
  <2> QED BY <1>1, <1>7, <2>1 DEF Writes
<1>11. w.pc \notin Shifts \cup {"bump"} /\ Top <= head /\ 1 <= Remain(head)
  BY <1>0, <1>1, <1>2, <1>5 DEF Shifts
<1>12. /\ Chain(S, hd', tail, head)
       /\ \A s \in Slot : idx[s].hash # Empty =>
            /\ idx[s].off \in S /\ idx[s].off < head
            /\ Rec(hd', body', idx[s].off, idx[s].hash)
            /\ Entry(s)' = Entry(s) /\ Entry(s).slot = s
  BY <1>0, <1>1, <1>2, <1>9, <1>10, <1>11, WriteStep
<1>13. Typed'
  BY <1>0, <1>1, <1>7, <1>8, <1>9 DEF Typed
<1>14. Stage' = "alloc" /\ ~Taken' /\ ~Dropping' /\ Phase' = "alloc"
  BY <1>8 DEF Stage, Taken, Dropping, Phase, Shifts, Moves
<1>15. Staged'
  BY <1>3, <1>8, <1>14 DEF Staged, Shifts
<1>16. Laid'
  BY <1>1, <1>8, <1>9, <1>14 DEF Laid
<1>17. Whole(hd', head) /\ Span(hd', head) = Remain(head)
  BY <1>4, <1>5, <1>7 DEF Whole, Span, Sits
<1> QED
  BY <1>0, <1>1, <1>8, <1>12, <1>13, <1>15, <1>16, <1>17, StepHead

LEMMA TakenFacts ==
  ASSUME NEW S, Inv(S), w.pc \in {"slot", "refuse", "write", "writing"}
  PROVE  /\ Stage = w.pc /\ Phase = w.pc /\ Taken /\ Top = w.pos /\ ~Dropping
         /\ w.pos \in Nat /\ w.n \in Nat /\ head = w.pos + w.n /\ w.n <= Remain(w.pos)
         /\ head \in Nat /\ tail \in Nat /\ head <= tail + Data
         /\ w.key \in Keys /\ w.n > Hdr /\ w.n <= Data \div 2 /\ Hash[w.key] \in Nat \ {0, 1}
         /\ w.pc \notin Shifts \cup {"bump"}
<1>1. Stage = w.pc /\ Phase = w.pc /\ Taken /\ Top = w.pos /\ ~Dropping
      /\ w.pc \notin Shifts \cup {"bump"}
  BY DEF Stage, Taken, Dropping, Phase, Shifts, Moves, Top
<1>2. w.key \in Keys /\ w.n > Hdr /\ w.n <= Data \div 2
  BY <1>1 DEF Inv, Staged, SetStages
<1>3. head = w.pos + w.n /\ w.n <= Remain(w.pos) /\ head - tail <= Data
  BY <1>1 DEF Inv, Laid
<1>4. w.pos \in Nat /\ w.n \in Nat /\ head \in Nat /\ tail \in Nat
  BY WriterFields DEF Inv, Typed
<1> QED BY <1>1, <1>2, <1>3, <1>4, Constants

\* RefuseSlot and Write: the block's sequence word goes odd.
LEMMA UnsettleTaken ==
  ASSUME NEW S, Inv(S), w.pc \in {"slot", "write"}, NEW pc \in {"refuse", "writing"},
         w' = [w EXCEPT !.pc = pc], UNCHANGED <<idx, head, tail, nops, aged, cursor>>,
         NEW m \in Nat, 0 < m, m <= w.n, Unsettle(Phys(w.pos), m),
         pc = "writing" => w.pc = "write"
  PROVE  Inv(S)'
<1>0. Typed /\ w \in Writers
  BY DEF Inv, Typed
<1>1. /\ Stage = w.pc /\ Phase = w.pc /\ Taken /\ Top = w.pos
      /\ w.pos \in Nat /\ w.n \in Nat /\ head = w.pos + w.n /\ w.n <= Remain(w.pos)
      /\ head \in Nat /\ tail \in Nat /\ head <= tail + Data
      /\ w.key \in Keys /\ w.n > Hdr /\ w.n <= Data \div 2
      /\ w.pc \notin Shifts \cup {"bump"}
  BY TakenFacts
<1>2. /\ w' \in Writers /\ w'.pc = pc /\ w'.n = w.n /\ w'.key = w.key /\ w'.pos = w.pos
      /\ w'.i = w.i
  <2>1. pc \in Pcs
    BY PcNames
  <2> QED BY <1>0, <2>1 DEF Writers
<1>3. /\ hd' \in [Units -> Hdrs] /\ body' \in [Units -> Nat \X Nat]
      /\ hd'[Phys(w.pos)].seq \in {1, 3} /\ Writes(hd, body, hd', body', w.pos, m)
  BY <1>0, <1>1, Unsettled
<1>4. w.pos + m <= tail + Data /\ m <= Remain(w.pos) /\ Top <= w.pos
  BY <1>1, PhysType, Constants
<1>5. /\ Chain(S, hd', tail, Top)
      /\ \A s \in Slot : idx[s].hash # Empty =>
           /\ idx[s].off \in S /\ idx[s].off < Top
           /\ Rec(hd', body', idx[s].off, idx[s].hash)
           /\ Entry(s)' = Entry(s) /\ Entry(s).slot = s
  BY <1>1, <1>3, <1>4, WriteStep
<1>6. Typed'
  BY <1>0, <1>2, <1>3 DEF Typed
<1>7. Stage' = pc /\ Taken' /\ ~Dropping' /\ Phase' = pc /\ Top' = Top
  BY <1>1, <1>2 DEF Stage, Taken, Dropping, Phase, Shifts, Moves, Top
<1>8. Staged'
  <2>1. pc = "writing" => w.i \in Slot /\ idx[w.i].hash = Empty
    BY DEF Inv, Staged
  <2> QED BY <1>1, <1>2, <1>7, <2>1 DEF Staged, Shifts
<1>9. Laid'
  <2>1. head - tail <= Data
    BY DEF Inv, Laid
  <2> QED BY <1>1, <1>2, <1>3, <1>7, <2>1 DEF Laid
<1>10. AtTail' /\ AtHead(S)'
  BY <1>2, <1>7 DEF AtTail, AtHead, Moves
<1>11. Indexed(S)'
  BY <1>2, <1>5, <1>7 DEF Indexed
<1> QED BY <1>5, <1>6, <1>7, <1>8, <1>9, <1>10, <1>11 DEF Inv
\* Refused and Written: the block becomes a block of the log.
LEMMA SettleTaken ==
  ASSUME NEW S, Inv(S), w.pc \in {"refuse", "writing"}, UNCHANGED <<idx, head, tail>>,
         NEW e \in Hdrs, e.size = w.n, Settle(Phys(w.pos), e),
         body' = body \/ Payload(Phys(w.pos), e), NEW T, T = S \cup {head}
  PROVE  /\ hd' \in [Units -> Hdrs] /\ body' \in [Units -> Nat \X Nat]
         /\ Chain(T, hd', tail, head) /\ w.pos \in T /\ w.pos < head
         /\ hd'[Phys(w.pos)].seq \in {0, 2}
         /\ \A f \in {"slot", "hash", "size", "key", "ver"} : hd'[Phys(w.pos)][f] = e[f]
         /\ Payload(Phys(w.pos), e) /\ e.key \in Keys /\ e.hash = Hash[e.key] =>
              Rec(hd', body', w.pos, e.hash)
         /\ \A s \in Slot : idx[s].hash # Empty =>
              /\ idx[s].off \in T /\ idx[s].off < head
              /\ Rec(hd', body', idx[s].off, idx[s].hash)
              /\ Entry(s)'.slot = s
<1>0. Typed
  BY DEF Inv
<1>1. /\ Top = w.pos /\ w.pos \in Nat /\ w.n \in Nat /\ head = w.pos + w.n /\ w.n <= Remain(w.pos)
      /\ head \in Nat /\ tail \in Nat /\ head <= tail + Data /\ w.n > Hdr
      /\ w.pc \notin Shifts \cup {"bump"}
  BY TakenFacts
<1>2. hd[Phys(w.pos)].seq \in {1, 3}
  BY DEF Inv, Laid
<1>3. /\ hd' \in [Units -> Hdrs] /\ hd'[Phys(w.pos)].seq \in {0, 2}
      /\ \A f \in {"slot", "hash", "size", "key", "ver"} : hd'[Phys(w.pos)][f] = e[f]
      /\ \A x \in Units : x # Phys(w.pos) => hd'[x] = hd[x]
  BY <1>0, <1>1, <1>2, Settled
<1>4. /\ body' \in [Units -> Nat \X Nat]
      /\ Payload(Phys(w.pos), e) =>
           \A x \in 0 .. e.size - 1 : body'[Phys(w.pos) + x] = <<e.ver, x>>
      /\ \A x \in Units : x \notin Phys(w.pos) .. Phys(w.pos) + w.n - 1 => body'[x] = body[x]
  <2>1. CASE Payload(Phys(w.pos), e)
    BY <1>0, <1>1, <2>1, Paid
  <2>2. CASE ~Payload(Phys(w.pos), e)
    BY <1>0, <2>2 DEF Typed
  <2> QED BY <2>1, <2>2
<1>5. Writes(hd, body, hd', body', w.pos, w.n)
  <2>1. ASSUME NEW x \in Units, x \notin Phys(w.pos) .. Phys(w.pos) + w.n - 1
        PROVE  x # Phys(w.pos)
    BY <1>1, <2>1, PhysType, Constants
  <2> QED BY <1>3, <1>4, <2>1 DEF Writes
<1>6. Top <= w.pos /\ w.pos + w.n <= tail + Data
  BY <1>1
<1>7. /\ Chain(S, hd', tail, w.pos)
      /\ \A s \in Slot : idx[s].hash # Empty =>
           /\ idx[s].off \in S /\ idx[s].off < w.pos
           /\ Rec(hd', body', idx[s].off, idx[s].hash)
           /\ Entry(s)' = Entry(s) /\ Entry(s).slot = s
  BY <1>1, <1>5, <1>6, WriteStep
<1>8. GapAt(w.pos) = 0
  BY <1>1, PhysType, Constants
<1>9. Whole(hd', w.pos) /\ Span(hd', w.pos) = w.n
  <2>1. hd'[Phys(w.pos)].size = w.n
    BY <1>3
  <2> QED BY <1>1, <1>3, <1>8, <2>1, PhysType, Constants DEF Whole, Span, Sits
<1>10. Chain(T, hd', tail, head)
  <2>1. Chain(S \cup {w.pos + w.n}, hd', tail, w.pos + w.n)
    BY <1>1, <1>3, <1>7, <1>9, ChainGrow
  <2> QED BY <1>1, <2>1
<1>11. w.pos \in T /\ w.pos < head
  BY <1>1, <1>7, Constants DEF Chain
<1>12. Payload(Phys(w.pos), e) /\ e.key \in Keys /\ e.hash = Hash[e.key] =>
         Rec(hd', body', w.pos, e.hash)
  <2> SUFFICES ASSUME Payload(Phys(w.pos), e), e.key \in Keys, e.hash = Hash[e.key]
               PROVE  Rec(hd', body', w.pos, e.hash)
    OBVIOUS
  <2>1. \A x \in Hdr .. e.size - 1 : body'[Phys(w.pos) + x] = <<e.ver, x>>
    BY <1>1, <1>4, Constants
  <2> QED BY <1>1, <1>3, <2>1 DEF Rec, Sits
<1>13. ASSUME NEW s \in Slot, idx[s].hash # Empty
       PROVE  idx[s].off \in T /\ idx[s].off < head
  <2>1. idx[s].off \in Nat
    BY <1>0, SlotTyped
  <2> QED BY <1>1, <1>7, <1>13, <2>1, Constants
<1> QED BY <1>3, <1>4, <1>7, <1>10, <1>11, <1>12, <1>13

LEMMA RefusedKeeps ==
  ASSUME NEW S, Inv(S), Refused, NEW T, T = S \cup {head}
  PROVE  Inv(T)'
<1>0. Typed /\ w.n \in Nat
  BY WriterFields DEF Inv
<1>1. /\ w.pc = "refuse" /\ UNCHANGED <<idx, body, head, tail, nops, aged, cursor>>
      /\ Settle(Phys(w.pos), PadRecord(w.n)) /\ w' = IdleWriter
  BY DEF Refused, aside
<1>2. PadRecord(w.n) \in Hdrs /\ PadRecord(w.n).size = w.n
  BY <1>0, PadTyped
<1>3. /\ hd' \in [Units -> Hdrs] /\ Chain(T, hd', tail, head)
      /\ \A s \in Slot : idx[s].hash # Empty =>
           /\ idx[s].off \in T /\ idx[s].off < head
           /\ Rec(hd', body', idx[s].off, idx[s].hash)
           /\ Entry(s)'.slot = s
  BY <1>1, <1>2, SettleTaken
<1>4. w' \in Writers /\ w'.pc = "idle"
  BY <1>1, IdleTyped DEF IdleWriter
<1>5. Typed'
  BY <1>0, <1>1, <1>3, <1>4 DEF Typed
<1>6. Stage' = "idle" /\ ~Taken' /\ ~Dropping' /\ Phase' = "idle" /\ Top' = head
  BY <1>1, <1>4 DEF Stage, Shifts, Taken, Dropping, Moves, Phase, Top
<1>7. Staged'
  BY <1>4, <1>6 DEF Staged, Shifts, SetStages
<1>8. Laid'
  BY <1>1, <1>4, <1>6 DEF Laid, Inv
<1>9. AtTail' /\ AtHead(T)'
  BY <1>4, <1>6 DEF AtTail, AtHead, Moves
<1>10. Indexed(T)'
  BY <1>1, <1>3, <1>4, <1>6 DEF Indexed
<1> QED BY <1>1, <1>3, <1>5, <1>6, <1>7, <1>8, <1>9, <1>10 DEF Inv

\* The header of the record a set writes.
LEMMA WrittenHeader ==
  ASSUME Typed, w.key \in Keys, w.n \in Nat, w.n > Hdr, w.i \in Slot, Hash[w.key] \in Nat \ {0, 1},
         NEW e, e = [NoHdr EXCEPT !.slot = w.i, !.hash = Hash[w.key], !.size = w.n,
                                  !.key = w.key, !.ver = w.ver, !.ttl = w.ttl]
  PROVE  /\ e \in Hdrs /\ e.size = w.n /\ e.slot = w.i /\ e.hash = Hash[w.key]
         /\ e.key = w.key /\ e.ver = w.ver
<1>1. NoHdr \in Hdrs /\ w.ver \in Nat /\ w.ttl \in BOOLEAN
  BY NoHdrType, WriterFields
<1>2. PICK g \in Nat \ {0, 1} : g = Hash[w.key]
  OBVIOUS
<1>3. g # Empty
  BY DEF Empty
<1>4. e = [NoHdr EXCEPT !.slot = w.i, !.hash = g, !.size = w.n,
                        !.key = w.key, !.ver = w.ver, !.ttl = w.ttl]
  BY <1>2
<1> QED BY <1>1, <1>2, <1>3, <1>4 DEF Hdrs

LEMMA WrittenKeeps ==
  ASSUME NEW S, Inv(S), Written, NEW T, T = S \cup {head}
  PROVE  Inv(T)'
<1>0. Typed /\ w \in Writers
  BY DEF Inv, Typed
<1> DEFINE e == [NoHdr EXCEPT !.slot = w.i, !.hash = Hash[w.key], !.size = w.n,
                              !.key = w.key, !.ver = w.ver, !.ttl = w.ttl]
<1>1. /\ w.pc = "writing" /\ UNCHANGED <<idx, head, tail, nops, aged, cursor>>
      /\ Settle(Phys(w.pos), e) /\ Payload(Phys(w.pos), e) /\ w' = [w EXCEPT !.pc = "puboff"]
  BY DEF Written, aside
<1>2. /\ w.key \in Keys /\ w.n > Hdr /\ w.n <= Data \div 2 /\ w.n \in Nat
      /\ Hash[w.key] \in Nat \ {0, 1}
  BY <1>1, TakenFacts
<1>3. w.i \in Slot /\ idx[w.i].hash = Empty
  BY <1>1 DEF Inv, Staged
<1>4. /\ e \in Hdrs /\ e.size = w.n /\ e.slot = w.i /\ e.hash = Hash[w.key]
      /\ e.key = w.key /\ e.ver = w.ver
  BY <1>0, <1>2, <1>3, WrittenHeader
<1> HIDE DEF e
<1>5. /\ hd' \in [Units -> Hdrs] /\ body' \in [Units -> Nat \X Nat]
      /\ Chain(T, hd', tail, head) /\ w.pos \in T /\ w.pos < head
      /\ hd'[Phys(w.pos)].slot = e.slot /\ hd'[Phys(w.pos)].key = e.key
      /\ hd'[Phys(w.pos)].ver = e.ver /\ hd'[Phys(w.pos)].size = e.size
      /\ Rec(hd', body', w.pos, e.hash)
      /\ \A s \in Slot : idx[s].hash # Empty =>
           /\ idx[s].off \in T /\ idx[s].off < head
           /\ Rec(hd', body', idx[s].off, idx[s].hash)
           /\ Entry(s)'.slot = s
  BY <1>1, <1>2, <1>4, SettleTaken
<1>6. /\ w' \in Writers /\ w'.pc = "puboff" /\ w'.n = w.n /\ w'.key = w.key /\ w'.pos = w.pos
      /\ w'.i = w.i /\ w'.ver = w.ver
  BY <1>0, <1>1, PcNames DEF Writers
<1>7. Typed'
  BY <1>0, <1>1, <1>5, <1>6 DEF Typed
<1>8. Stage' = "puboff" /\ ~Taken' /\ ~Dropping' /\ Phase' = "puboff" /\ Top' = head
  BY <1>1, <1>6 DEF Stage, Shifts, Taken, Dropping, Moves, Phase, Top
<1>9. Staged'
  BY <1>1, <1>2, <1>3, <1>6, <1>8 DEF Staged, Shifts
<1>10. Laid'
  BY <1>1, <1>6, <1>8 DEF Laid, Inv
<1>11. AtTail'
  BY <1>6, <1>8 DEF AtTail, Moves
<1>12. AtHead(T)'
  BY <1>1, <1>4, <1>5, <1>6 DEF AtHead, HdrAt
<1>13. Indexed(T)'
  BY <1>1, <1>5, <1>6, <1>8 DEF Indexed
<1> QED BY <1>1, <1>5, <1>7, <1>8, <1>9, <1>10, <1>11, <1>12, <1>13 DEF Inv

LEMMA PublishFacts ==
  ASSUME NEW S, Inv(S), w.pc \in {"puboff", "pubhash"}
  PROVE  /\ Stage = w.pc /\ Phase = w.pc /\ ~Taken /\ Top = head
         /\ w.i \in Slot /\ idx[w.i].hash = Empty /\ w.pos \in Nat
         /\ w.key \in Keys /\ w.n > Hdr /\ w.n <= Data \div 2 /\ Hash[w.key] \in Nat \ {0, 1}
         /\ w.pos \in S /\ w.pos < head /\ Rec(hd, body, w.pos, Hash[w.key])
         /\ HdrAt(w.pos).slot = w.i /\ w.pc \notin Shifts \cup {"bump"}
         /\ HdrAt(w.pos).key = w.key /\ HdrAt(w.pos).ver = w.ver /\ HdrAt(w.pos).size = w.n
<1>1. Stage = w.pc /\ Phase = w.pc /\ ~Taken /\ Top = head /\ w.pc \notin Shifts \cup {"bump"}
  BY DEF Stage, Taken, Dropping, Phase, Shifts, Moves, Top
<1>2. w.key \in Keys /\ w.n > Hdr /\ w.n <= Data \div 2
  BY <1>1 DEF Inv, Staged, SetStages
<1>3. /\ w.i \in Slot /\ idx[w.i].hash = Empty /\ w.pos \in S /\ w.pos < head
      /\ Rec(hd, body, w.pos, Hash[w.key]) /\ HdrAt(w.pos).slot = w.i
      /\ HdrAt(w.pos).key = w.key /\ HdrAt(w.pos).ver = w.ver /\ HdrAt(w.pos).size = w.n
  BY DEF Inv, Staged, AtHead
<1>4. w.pos \in Nat
  BY WriterFields DEF Inv
<1> QED BY <1>1, <1>2, <1>3, <1>4, Constants

LEMMA PublishOffKeeps ==
  ASSUME NEW S, Inv(S), PublishOff
  PROVE  Inv(S)'
<1>0. Typed /\ w \in Writers
  BY DEF Inv, Typed
<1>1. /\ w.pc = "puboff" /\ UNCHANGED <<hd, body, head, tail, nops, aged, cursor>>
      /\ idx' = [idx EXCEPT ![w.i].off = w.pos] /\ w' = [w EXCEPT !.pc = "pubhash"]
  BY DEF PublishOff, aside
<1>2. /\ Stage = w.pc /\ Phase = w.pc /\ ~Taken /\ Top = head
      /\ w.i \in Slot /\ idx[w.i].hash = Empty /\ w.pos \in Nat
      /\ w.key \in Keys /\ w.n > Hdr /\ w.n <= Data \div 2
      /\ w.pos \in S /\ w.pos < head /\ Rec(hd, body, w.pos, Hash[w.key])
      /\ HdrAt(w.pos).slot = w.i /\ w.pc \notin Shifts \cup {"bump"}
      /\ HdrAt(w.pos).key = w.key /\ HdrAt(w.pos).ver = w.ver /\ HdrAt(w.pos).size = w.n
  BY <1>1, PublishFacts
<1>3. /\ w' \in Writers /\ w'.pc = "pubhash" /\ w'.n = w.n /\ w'.key = w.key /\ w'.pos = w.pos
      /\ w'.i = w.i /\ w'.ver = w.ver
  BY <1>0, <1>1, PcNames DEF Writers
<1>4. /\ idx' \in [Slot -> [hash : Nat, off : Nat]]
      /\ idx'[w.i].hash = Empty /\ idx'[w.i].off = w.pos
      /\ \A s \in Slot : s # w.i => idx'[s] = idx[s]
  BY <1>0, <1>1, <1>2 DEF Typed
<1>5. Typed'
  BY <1>0, <1>1, <1>3, <1>4 DEF Typed
<1>6. Stage' = "pubhash" /\ ~Taken' /\ ~Dropping' /\ Phase' = "pubhash" /\ Top' = head
  BY <1>1, <1>3 DEF Stage, Shifts, Taken, Dropping, Moves, Phase, Top
<1>7. Staged'
  BY <1>2, <1>3, <1>4, <1>6 DEF Staged, Shifts
<1>8. Laid'
  BY <1>1, <1>3, <1>6 DEF Laid, Inv
<1>9. AtTail'
  BY <1>3, <1>6 DEF AtTail, Moves
<1>10. AtHead(S)'
  BY <1>1, <1>2, <1>3, <1>4 DEF AtHead, HdrAt
<1>11. Indexed(S)'
  <2> SUFFICES ASSUME NEW s \in Slot, idx'[s].hash # Empty
               PROVE  /\ idx'[s].off \in S /\ idx'[s].off < head
                      /\ Rec(hd, body, idx'[s].off, idx'[s].hash)
                      /\ Entry(s)'.slot = s
    BY <1>1, <1>3, <1>6 DEF Indexed
  <2>1. s # w.i /\ idx'[s] = idx[s] /\ idx[s].hash # Empty
    BY <1>4
  <2>2. Entry(s)' = Entry(s)
    BY <1>1, <2>1 DEF Entry, HdrAt
  <2> QED BY <1>2, <2>1, <2>2, AtRest
<1>12. Chain(S, hd, tail, Top)'
  BY <1>1, <1>2, <1>6 DEF Inv
<1> QED BY <1>5, <1>7, <1>8, <1>9, <1>10, <1>11, <1>12 DEF Inv

LEMMA PublishHashKeeps ==
  ASSUME NEW S, Inv(S), PublishHash
  PROVE  Inv(S)'
<1>0. Typed /\ w \in Writers
  BY DEF Inv, Typed
<1>1. /\ w.pc = "pubhash" /\ UNCHANGED <<hd, body, head, tail, nops, aged, cursor>>
      /\ idx' = [idx EXCEPT ![w.i].hash = Hash[w.key]] /\ w' = IdleWriter
  BY DEF PublishHash, aside
<1>2. /\ ~Taken /\ Top = head
      /\ w.i \in Slot /\ Hash[w.key] \in Nat \ {0, 1}
      /\ w.pos \in S /\ w.pos < head /\ Rec(hd, body, w.pos, Hash[w.key])
      /\ HdrAt(w.pos).slot = w.i /\ w.pc \notin Shifts \cup {"bump"}
  BY <1>1, PublishFacts
<1>3. idx[w.i].off = w.pos
  BY <1>1 DEF Inv, AtHead
<1>4. /\ idx' \in [Slot -> [hash : Nat, off : Nat]]
      /\ idx'[w.i].hash = Hash[w.key] /\ idx'[w.i].off = w.pos
      /\ \A s \in Slot : s # w.i => idx'[s] = idx[s]
  BY <1>0, <1>1, <1>2, <1>3 DEF Typed
<1>5. w' \in Writers /\ w'.pc = "idle"
  BY <1>1, IdleTyped DEF IdleWriter
<1>6. Typed'
  BY <1>0, <1>1, <1>4, <1>5 DEF Typed
<1>7. Stage' = "idle" /\ ~Taken' /\ ~Dropping' /\ Phase' = "idle" /\ Top' = head
  BY <1>1, <1>5 DEF Stage, Shifts, Taken, Dropping, Moves, Phase, Top
<1>8. Staged'
  BY <1>5, <1>7 DEF Staged, Shifts, SetStages
<1>9. Laid'
  BY <1>1, <1>5, <1>7 DEF Laid, Inv
<1>10. AtTail' /\ AtHead(S)'
  BY <1>5, <1>7 DEF AtTail, AtHead, Moves
<1>11. Indexed(S)'
  <2> SUFFICES ASSUME NEW s \in Slot, idx'[s].hash # Empty
               PROVE  /\ idx'[s].off \in S /\ idx'[s].off < head
                      /\ Rec(hd, body, idx'[s].off, idx'[s].hash)
                      /\ Entry(s)'.slot = s
    BY <1>1, <1>5, <1>7 DEF Indexed
  <2>1. CASE s = w.i
    <3>1. Entry(s)' = HdrAt(w.pos)
      BY <1>1, <1>4, <2>1 DEF Entry, HdrAt
    <3> QED BY <1>2, <1>4, <2>1, <3>1
  <2>2. CASE s # w.i
    <3>1. idx'[s] = idx[s] /\ idx[s].hash # Empty
      BY <1>4, <2>2
    <3>2. Entry(s)' = Entry(s)
      BY <1>1, <3>1 DEF Entry, HdrAt
    <3> QED BY <1>2, <3>1, <3>2, AtRest
  <2> QED BY <2>1, <2>2
<1>12. Chain(S, hd, tail, Top)'
  BY <1>1, <1>2, <1>7 DEF Inv
<1> QED BY <1>6, <1>8, <1>9, <1>10, <1>11, <1>12 DEF Inv

-----------------------------------------------------------------------------
(* storeClear.                                                             *)

LEMMA ClearKeeps ==
  ASSUME NEW S, Inv(S), Clear
  PROVE  Inv(S)'
<1>0. Typed /\ w \in Writers /\ nops \in Nat
  BY DEF Inv, Typed
<1>1. /\ w.pc = "idle" /\ UNCHANGED <<hd, body, head, tail, aged, cursor>>
      /\ nops' = nops + 1 /\ idx' = [s \in Slot |-> [hash |-> Empty, off |-> 0]]
      /\ w' = [IdleWriter EXCEPT !.pc = "clear"]
  BY DEF Clear
<1>2. ~Taken /\ Top = head
  BY <1>1 DEF Stage, Shifts, Taken, Top
<1>3. w' \in Writers /\ w'.pc = "clear"
  BY <1>1, IdleTyped, PcNames DEF Writers
<1>4. idx' \in [Slot -> [hash : Nat, off : Nat]] /\ \A s \in Slot : idx'[s].hash = Empty
  BY <1>1 DEF Empty
<1>5. Typed'
  BY <1>0, <1>1, <1>3, <1>4 DEF Typed
<1>6. Stage' = "clear" /\ ~Taken' /\ ~Dropping' /\ Phase' = "clear" /\ Top' = head
  BY <1>1, <1>3 DEF Stage, Shifts, Taken, Dropping, Moves, Phase, Top
<1>7. Staged' /\ Laid'
  BY <1>1, <1>3, <1>4, <1>6 DEF Staged, Shifts, SetStages, Laid, Inv
<1>8. AtTail' /\ AtHead(S)' /\ Indexed(S)'
  BY <1>3, <1>4, <1>6 DEF AtTail, AtHead, Moves, Indexed
<1>9. Chain(S, hd, tail, Top)'
  BY <1>1, <1>2, <1>6 DEF Inv
<1> QED BY <1>5, <1>7, <1>8, <1>9 DEF Inv

LEMMA ClearedKeeps ==
  ASSUME NEW S, Inv(S), Cleared, NEW T, T = {head}
  PROVE  Inv(T)'
<1>0. Typed /\ head \in Nat
  BY DEF Inv, Typed
<1>1. /\ UNCHANGED <<idx, hd, body, head, nops, aged, cursor>> /\ tail' = head
      /\ w' = IdleWriter
  BY DEF Cleared, aside
<1>2. w' \in Writers /\ w'.pc = "idle"
  BY <1>1, IdleTyped DEF IdleWriter
<1>3. Typed'
  BY <1>0, <1>1, <1>2 DEF Typed
<1>4. Stage' = "idle" /\ ~Taken' /\ ~Dropping' /\ Phase' = "idle" /\ Top' = head
  BY <1>1, <1>2 DEF Stage, Shifts, Taken, Dropping, Moves, Phase, Top
<1>5. Staged' /\ Laid'
  BY <1>0, <1>1, <1>2, <1>4, Constants DEF Staged, Shifts, SetStages, Laid
<1>8. \A s \in Slot : idx[s].hash = Empty
  BY DEF Cleared, Inv, Staged
<1>6. AtTail' /\ AtHead(T)' /\ Indexed(T)'
  BY <1>1, <1>2, <1>4, <1>8 DEF AtTail, AtHead, Moves, Indexed
<1>7. Chain(T, hd, tail, Top)'
  BY <1>0, <1>1, <1>4, ChainOne
<1> QED BY <1>3, <1>5, <1>6, <1>7 DEF Inv
-----------------------------------------------------------------------------
(* The theorems.                                                           *)

LEMMA InitInv == Init => Inv({0})
<1> SUFFICES ASSUME Init PROVE Inv({0})
  OBVIOUS
<1>1. w \in Writers /\ w.pc = "idle"
  BY IdleTyped DEF Init, IdleWriter
<1>2. /\ idx \in [Slot -> [hash : Nat, off : Nat]] /\ \A s \in Slot : idx[s].hash = Empty
      /\ head = 0 /\ tail = 0
  BY DEF Init, Empty
<1>3. ZeroHdr \in Hdrs
  <2>1. NoHdr \in Hdrs /\ 0 \in Seqs \cup {-1}
    BY NoHdrType DEF Seqs
  <2> QED BY <2>1 DEF ZeroHdr, Hdrs
<1>4. hd \in [Units -> Hdrs] /\ body \in [Units -> Nat \X Nat]
  BY <1>3, NoHdrType DEF Init
<1>5. Typed
  BY <1>1, <1>2, <1>4 DEF Typed, Init
<1>6. Stage = "idle" /\ ~Taken /\ ~Dropping /\ Phase = "idle" /\ Top = 0
  BY <1>1, <1>2 DEF Stage, Shifts, Taken, Dropping, Moves, Phase, Top
<1>7. Staged /\ Laid
  BY <1>1, <1>2, <1>6, Constants DEF Staged, Shifts, SetStages, Laid
<1>8. AtTail /\ AtHead({0}) /\ Indexed({0})
  BY <1>1, <1>2, <1>6 DEF AtTail, AtHead, Moves, Indexed
<1>9. Chain({0}, hd, tail, Top)
  BY <1>2, <1>6, ChainOne
<1> QED BY <1>5, <1>7, <1>8, <1>9 DEF Inv

LEMMA WriterKeeps ==
  ASSUME NEW S, Inv(S), WriterStep
  PROVE  \E T : Inv(T)'
<1>1. CASE \E k \in Keys, n \in Sizes, t \in Ttls : SetBegin(k, n, t)
  BY <1>1, SetBeginKeeps
<1>2. CASE \E k \in Keys : Delete(k)
  BY <1>2, DeleteKeeps
<1>3. CASE Clear
  BY <1>3, ClearKeeps
<1>4. CASE Cleared
  BY <1>4, ClearedKeeps
<1>5. CASE SweepBegin \/ SweepSkip \/ SweepRemove \/ Swept \/ SweepEnd
  BY <1>5, SweepKeeps
<1>6. CASE RemoveEmpty
  BY <1>6, RemoveEmptyKeeps
<1>7. CASE RemoveMoveOff
  BY <1>7, RemoveMoveOffKeeps
<1>8. CASE RemoveMoveHash
  BY <1>8, RemoveMoveHashKeeps
<1>9. CASE Removed
  BY <1>9, RemovedKeeps
<1>10. CASE DropDead
  BY <1>10, DropDeadKeeps
<1>11. CASE DropLive
  BY <1>11, DropLiveKeeps
<1>12. CASE Evicted
  BY <1>12, EvictedKeeps
<1>13. CASE Bump
  BY <1>13, BumpKeeps
<1>14. CASE ReappendInPlace
  BY <1>14, ReappendInPlaceKeeps
<1>15. CASE ReappendCopy
  BY <1>15, ReappendCopyKeeps
<1>16. CASE ReappendCopied
  BY <1>16, ReappendCopiedKeeps
<1>17. CASE ReappendPublish
  BY <1>17, ReappendPublishKeeps
<1>18. CASE PressDone
  BY <1>18, PressDoneKeeps
<1>19. CASE AllocGap
  BY <1>19, AllocGapKeeps
<1>20. CASE AllocPad
  BY <1>20, AllocPadKeeps
<1>21. CASE AllocPadded
  BY <1>21, AllocPaddedKeeps
<1>22. CASE AllocTake
  BY <1>22, AllocTakeKeeps
<1>23. CASE RefuseSlot
  <2>1. /\ w.pc = "slot" /\ Unsettle(Phys(w.pos), Hdr) /\ w' = [w EXCEPT !.pc = "refuse"]
        /\ UNCHANGED <<idx, head, tail, nops, aged, cursor>>
    BY <1>23 DEF RefuseSlot, aside
  <2>2. w.n \in Nat /\ w.n > Hdr
    BY <2>1, TakenFacts
  <2> QED BY <2>1, <2>2, Constants, UnsettleTaken
<1>24. CASE Refused
  BY <1>24, RefusedKeeps
<1>25. CASE SetUnlink
  BY <1>25, SetUnlinkKeeps
<1>26. CASE Unlinked
  BY <1>26, UnlinkedKeeps
<1>27. CASE Write
  <2>1. /\ w.pc = "write" /\ Unsettle(Phys(w.pos), w.n) /\ w' = [w EXCEPT !.pc = "writing"]
        /\ UNCHANGED <<idx, head, tail, nops, aged, cursor>>
    BY <1>27 DEF Write, aside
  <2>2. w.n \in Nat /\ w.n > Hdr
    BY <2>1, TakenFacts
  <2> QED BY <2>1, <2>2, Constants, UnsettleTaken
<1>28. CASE Written
  BY <1>28, WrittenKeeps
<1>29. CASE PublishOff
  BY <1>29, PublishOffKeeps
<1>30. CASE PublishHash
  BY <1>30, PublishHashKeeps
<1> QED
  BY <1>1, <1>2, <1>3, <1>4, <1>5, <1>6, <1>7, <1>8, <1>9, <1>10, <1>11, <1>12, <1>13,
     <1>14, <1>15, <1>16, <1>17, <1>18, <1>19, <1>20, <1>21, <1>22, <1>23, <1>24, <1>25,
     <1>26, <1>27, <1>28, <1>29, <1>30 DEF WriterStep

\* A step of a reader, or a version growing old, changes nothing of the log.
LEMMA StillKeeps ==
  ASSUME NEW S, Inv(S), UNCHANGED wvars, aged' \in SUBSET Nat
  PROVE  Inv(S)'
<1>1. UNCHANGED <<idx, hd, body, head, tail, w, nops, cursor>>
  BY DEF wvars
<1>2. Typed'
  BY <1>1 DEF Inv, Typed
<1>3. /\ Stage' = Stage /\ Dropping' = Dropping /\ Phase' = Phase /\ Taken' = Taken
      /\ Top' = Top
  BY <1>1 DEF Stage, Dropping, Phase, Taken, Top
<1>4. \A s : Entry(s)' = Entry(s) /\ Loose(s)' = Loose(s)
  BY <1>1 DEF Entry, HdrAt, Loose
<1>5. TailRec' = TailRec /\ Free' = Free /\ HdrAt(head)' = HdrAt(head)
      /\ HdrAt(w.pos)' = HdrAt(w.pos)
  BY <1>1 DEF TailRec, HdrAt, Free
<1>6. Staged' /\ Laid'
  BY <1>1, <1>3, <1>4, <1>5 DEF Inv, Staged, Laid, Entry, HdrAt
<1>7. AtTail' /\ AtHead(S)'
  BY <1>1, <1>3, <1>5 DEF Inv, AtTail, AtHead
<1>8. Indexed(S)'
  BY <1>1, <1>3, <1>4, <1>5 DEF Inv, Indexed
<1>9. Chain(S, hd, tail, Top)'
  BY <1>1, <1>3 DEF Inv
<1> QED BY <1>2, <1>6, <1>7, <1>8, <1>9 DEF Inv

IInv == \E S : Inv(S)

LEMMA NextKeeps == IInv /\ [Next]_vars => IInv'
<1> SUFFICES ASSUME IInv, [Next]_vars PROVE IInv'
  OBVIOUS
<1>1. PICK S : Inv(S)
  BY DEF IInv
<1>2. aged \in SUBSET Nat /\ nops \in Nat
  BY <1>1 DEF Inv, Typed
<1>3. CASE WriterStep
  BY <1>1, <1>3, WriterKeeps DEF IInv
<1>4. CASE \E v \in 1 .. nops : Age(v)
  <2>1. UNCHANGED wvars /\ aged' \in SUBSET Nat
    BY <1>2, <1>4 DEF Age
  <2> QED BY <1>1, <2>1, StillKeeps DEF IInv
<1>5. CASE UNCHANGED <<wvars, aged>>
  BY <1>1, <1>2, <1>5, StillKeeps DEF IInv
<1>6. CASE UNCHANGED vars
  BY <1>1, <1>2, <1>6, StillKeeps DEF IInv, vars
<1> QED BY <1>3, <1>4, <1>5, <1>6 DEF Next

LEMMA Invariance == Spec => []IInv
<1>1. Init => IInv
  BY InitInv DEF IInv
<1> QED BY <1>1, NextKeeps, PTL DEF Spec

\* Whatever the log is doing, evicting, copying to its head, padding its end or
\* refusing a slot, the index points at complete, settled records at or past the
\* tail: nothing written at the head falls on one, and the tail passes none.
THEOREM LiveRecords == Spec => []LiveIntact
<1>1. ASSUME NEW S, Inv(S) PROVE LiveIntact
  <2> SUFFICES ASSUME NEW s \in Slot, idx[s].hash # Empty
               PROVE  /\ tail <= idx[s].off /\ idx[s].off <= head
                      /\ Stable(Phys(idx[s].off)) /\ Entry(s).hash = idx[s].hash
                      /\ Entry(s).size > Hdr
                      /\ \A x \in Hdr .. Entry(s).size - 1 :
                           body[Phys(idx[s].off) + x] = <<Entry(s).ver, x>>
    BY DEF LiveIntact, Occupied
  <2>1. idx[s].off \in S /\ Rec(hd, body, idx[s].off, idx[s].hash)
    BY <1>1 DEF Inv, Indexed
  <2>2. /\ tail \in Nat /\ head \in Nat /\ Top \in Nat /\ Top <= head
        /\ Chain(S, hd, tail, Top)
    BY <1>1, TopFacts
  <2>3. idx[s].off \in Nat /\ tail <= idx[s].off /\ idx[s].off <= Top
    BY <2>1, <2>2 DEF Chain
  <2> QED BY <2>1, <2>2, <2>3 DEF Rec, Sits, Stable, Entry, HdrAt
<1>2. IInv => LiveIntact
  BY <1>1 DEF IInv
<1> QED BY <1>2, Invariance, PTL

\* Between operations the tail stands on a gap, a pad or a record that ends at or
\* before the head, so logDropTail never meets a block size that cannot be.
THEOREM TailStandsOnABlock == Spec => []TailAtRecord
<1>1. ASSUME NEW S, Inv(S), w.pc = "idle", tail < head
      PROVE  \/ GapAt(tail) > 0
             \/ Stable(Phys(tail)) /\ TailRec.size > 0 /\ tail + TailRec.size <= head
  <2>1. Top = head /\ tail \in Nat /\ head \in Nat /\ Chain(S, hd, tail, head)
        /\ hd \in [Units -> Hdrs]
    BY <1>1, TopFacts DEF Top, Taken, Stage, Shifts
  <2>2. tail \in S /\ Whole(hd, tail)
    BY <1>1, <2>1 DEF Chain
  <2>3. Span(hd, tail) > 0 /\ tail + Span(hd, tail) <= head
    BY <1>1, <2>1, <2>2, ChainFacts
  <2>4. GapAt(tail) > 0 \/ TailRec.size = Span(hd, tail)
    BY DEF Span, TailRec, HdrAt
  <2> QED BY <2>2, <2>3, <2>4 DEF Whole, Sits, Stable
<1>2. IInv => TailAtRecord
  BY <1>1 DEF IInv, TailAtRecord
<1> QED BY <1>2, Invariance, PTL

-----------------------------------------------------------------------------
(* What a step leaves as it was.                                           *)

Fresh ==
  \E q \in Nat, m \in Nat :
    /\ Top <= q /\ q + m <= tail + Data /\ m <= Remain(q)
    /\ Writes(hd, body, hd', body', q, m)

LEMMA UnsettleWrites ==
  ASSUME NEW S, Inv(S), NEW q \in Nat, NEW m \in Nat, m > 0, Unsettle(Phys(q), m),
         Top <= q, q + m <= tail + Data, m <= Remain(q)
  PROVE  Fresh
<1>1. Typed
  BY DEF Inv
<1>2. Writes(hd, body, hd', body', q, m)
  BY <1>1, Unsettled
<1> QED BY <1>2 DEF Fresh

LEMMA SettleWrites ==
  ASSUME NEW S, Inv(S), NEW q \in Nat, NEW e \in Hdrs, Settle(Phys(q), e), e.size > 0,
         body' = body \/ Payload(Phys(q), e),
         Top <= q, q + e.size <= tail + Data, e.size <= Remain(q)
  PROVE  Fresh
<1>1. Typed
  BY DEF Inv
<1>2. PICK m \in Nat : m = e.size
  BY DEF Hdrs
<1>3. \A x \in Units : x # Phys(q) => hd'[x] = hd[x]
  BY <1>1, Settled
<1>4. \A x \in Units : x \notin Phys(q) .. Phys(q) + m - 1 => body'[x] = body[x]
  <2>1. CASE Payload(Phys(q), e)
    BY <1>1, <1>2, <2>1, Paid
  <2>2. CASE body' = body
    BY <2>2
  <2> QED BY <2>1, <2>2
<1>5. Phys(q) \in Phys(q) .. Phys(q) + m - 1
  BY <1>2, PhysType
<1>6. Writes(hd, body, hd', body', q, m)
  BY <1>3, <1>4, <1>5 DEF Writes
<1> QED BY <1>2, <1>6 DEF Fresh

\* Only blocks beyond what is in the log are written, and but for the slot word of
\* an entry that moves nothing else is.
LEMMA MemoryStep ==
  ASSUME NEW S, Inv(S), WriterStep
  PROVE  \/ UNCHANGED <<hd, body>>
         \/ RemoveMoveOff
         \/ UNCHANGED <<idx, tail>> /\ Fresh
<1>0. Typed /\ w \in Writers /\ head \in Nat /\ tail \in Nat
  BY DEF Inv, Typed
<1>1. CASE ReappendCopy
  <2>1. /\ MustDrop /\ Chance /\ Room /\ UNCHANGED <<idx, head, tail, nops, aged, cursor>>
        /\ Unsettle(Phys(head), TailRec.size)
        /\ w' = [w EXCEPT !.pc = "copying", !.loop = w.pc, !.guard = @ + 1,
                          !.budget = @ - 1, !.size = TailRec.size]
    BY <1>1 DEF ReappendCopy, aside
  <2>2. Top = head /\ "copying" \in Moves
    BY <2>1, DropFacts DEF Moves
  <2>3. TailRec.size \in Nat /\ TailRec.size > Hdr
    BY <2>1, <2>2, ChanceFacts
  <2>4. PICK m \in Nat : m = TailRec.size
    BY <2>3
  <2>5. Data - (head - tail) >= m /\ Phys(head) + m <= Data
    BY <2>1, <2>4 DEF Room, Free
  <2>6. head + m <= tail + Data /\ m <= Remain(head) /\ m > 0
    BY <1>0, <2>3, <2>4, <2>5, PhysType, Constants
  <2> QED BY <1>0, <2>1, <2>2, <2>4, <2>6, UnsettleWrites
<1>2. CASE ReappendCopied
  <2>1. /\ w.pc = "copying" /\ UNCHANGED <<idx, head, tail, nops, aged, cursor>>
        /\ Settle(Phys(head), TailRec) /\ Payload(Phys(head), TailRec)
    BY <1>2 DEF ReappendCopied, aside
  <2>2. /\ Top = head /\ w.size = TailRec.size /\ TailRec \in Hdrs /\ w.size <= Remain(head)
        /\ Rec(hd, body, idx[TailRec.slot].off, idx[TailRec.slot].hash)
        /\ TailRec = hd[Phys(tail)]
    BY <2>1, MoveFacts DEF Moves
  <2>3. idx[TailRec.slot].off = tail /\ w.size <= Free
    BY <2>1 DEF Inv, AtTail
  <2>4. PICK e \in Hdrs : e = TailRec
    BY <2>2
  <2>5. e.size \in Nat /\ e.size > Hdr /\ e.size <= Data - (head - tail)
    BY <2>2, <2>3, <2>4 DEF Rec, Hdrs, Free
  <2>6. e.size > 0 /\ head + e.size <= tail + Data /\ e.size <= Remain(head)
    BY <1>0, <2>2, <2>4, <2>5, Constants
  <2>7. Settle(Phys(head), e) /\ Payload(Phys(head), e)
    BY <2>1, <2>4
  <2> QED BY <1>0, <2>1, <2>2, <2>6, <2>7, SettleWrites
<1>3. CASE AllocPad
  <2>1. /\ w.pc = "alloc" /\ ~MustDrop /\ GapAt(head) = 0 /\ Want < w.n
        /\ UNCHANGED <<idx, head, tail, nops, aged, cursor>> /\ Unsettle(Phys(head), Hdr)
    BY <1>3 DEF AllocPad, aside
  <2>2. Want <= Free /\ Free = Data - (head - tail) /\ Top = head /\ w.n \in Nat /\ Want \in Nat
    BY <2>1, AllocFits
  <2>3. Want = Remain(head) /\ Remain(head) \in Nat /\ Hdr <= Remain(head)
    BY <1>0, <2>1, <2>2, PhysType, Constants DEF Want
  <2>4. Top <= head /\ head + Hdr <= tail + Data /\ Hdr \in Nat /\ Hdr > 0
    BY <1>0, <2>2, <2>3, Constants
  <2> QED BY <1>0, <2>1, <2>3, <2>4, UnsettleWrites
<1>4. CASE AllocPadded
  <2>1. /\ w.pc = "padding" /\ UNCHANGED <<idx, body, tail, nops, aged, cursor>>
        /\ Settle(Phys(head), PadRecord(Remain(head)))
    BY <1>4 DEF AllocPadded, aside
  <2>2. Top = head
    BY <2>1 DEF Stage, Taken, Shifts, Top
  <2>3. GapAt(head) = 0 /\ Remain(head) <= Data - (head - tail)
    BY <2>1 DEF Inv, Laid, Free
  <2>4. Remain(head) \in Nat /\ Remain(head) > 0
    BY <1>0, PhysType
  <2>5. PICK e \in Hdrs : e = PadRecord(Remain(head)) /\ e.size = Remain(head)
    BY <2>4, PadTyped
  <2>6. Top <= head /\ e.size > 0 /\ head + e.size <= tail + Data /\ e.size <= Remain(head)
    BY <1>0, <2>2, <2>3, <2>4, <2>5, Constants
  <2>7. Settle(Phys(head), e)
    BY <2>1, <2>5
  <2> QED BY <1>0, <2>1, <2>6, <2>7, SettleWrites
<1>5. CASE RefuseSlot \/ Write
  <2>1. PICK m : m \in {Hdr, w.n} /\ Unsettle(Phys(w.pos), m)
    BY <1>5 DEF RefuseSlot, Write
  <2>2. w.pc \in {"slot", "write"} /\ UNCHANGED <<idx, head, tail>>
    BY <1>5 DEF RefuseSlot, Write
  <2>3. /\ Top = w.pos /\ w.pos \in Nat /\ w.n \in Nat /\ head = w.pos + w.n
        /\ w.n <= Remain(w.pos) /\ head <= tail + Data /\ w.n > Hdr
    BY <2>2, TakenFacts
  <2>4. m \in Nat /\ m > 0 /\ Top <= w.pos /\ w.pos + m <= tail + Data /\ m <= Remain(w.pos)
    BY <1>0, <2>1, <2>3, PhysType, Constants
  <2> QED BY <2>1, <2>2, <2>3, <2>4, UnsettleWrites
<1>6. CASE Refused
  <2>1. w.pc = "refuse" /\ UNCHANGED <<idx, body, tail>> /\ Settle(Phys(w.pos), PadRecord(w.n))
    BY <1>6 DEF Refused
  <2>2. /\ Top = w.pos /\ w.pos \in Nat /\ w.n \in Nat /\ head = w.pos + w.n
        /\ w.n <= Remain(w.pos) /\ head <= tail + Data /\ w.n > Hdr
    BY <2>1, TakenFacts
  <2>3. PICK e \in Hdrs : e = PadRecord(w.n) /\ e.size = w.n
    BY <2>2, PadTyped
  <2>4. Top <= w.pos /\ e.size > 0 /\ w.pos + e.size <= tail + Data /\ e.size <= Remain(w.pos)
    BY <2>2, <2>3, Constants
  <2>5. Settle(Phys(w.pos), e)
    BY <2>1, <2>3
  <2> QED BY <2>1, <2>2, <2>4, <2>5, SettleWrites
<1>7. CASE Written
  <2> DEFINE f == [NoHdr EXCEPT !.slot = w.i, !.hash = Hash[w.key], !.size = w.n,
                                !.key = w.key, !.ver = w.ver, !.ttl = w.ttl]
  <2>1. /\ w.pc = "writing" /\ UNCHANGED <<idx, tail>>
        /\ Settle(Phys(w.pos), f) /\ Payload(Phys(w.pos), f)
    BY <1>7 DEF Written
  <2>2. /\ Top = w.pos /\ w.pos \in Nat /\ w.n \in Nat /\ head = w.pos + w.n
        /\ w.n <= Remain(w.pos) /\ head <= tail + Data /\ w.n > Hdr /\ w.key \in Keys
        /\ Hash[w.key] \in Nat \ {0, 1}
    BY <2>1, TakenFacts
  <2>3. w.i \in Slot
    BY <2>1 DEF Inv, Staged
  <2>4. f \in Hdrs /\ f.size = w.n
    BY <1>0, <2>2, <2>3, WrittenHeader
  <2> HIDE DEF f
  <2>5. Top <= w.pos /\ f.size > 0 /\ w.pos + f.size <= tail + Data /\ f.size <= Remain(w.pos)
    BY <2>2, <2>4, Constants
  <2> QED BY <2>1, <2>2, <2>4, <2>5, SettleWrites
<1>8. CASE \/ \E k \in Keys, n \in Sizes, t \in Ttls : SetBegin(k, n, t)
           \/ \E k \in Keys : Delete(k)
           \/ Clear \/ Cleared \/ SweepBegin \/ SweepSkip \/ SweepRemove \/ Swept \/ SweepEnd
           \/ RemoveEmpty \/ RemoveMoveHash \/ Removed
  BY <1>8 DEF SetBegin, Delete, Clear, Cleared, SweepBegin, SweepSkip, SweepRemove, Swept,
     SweepEnd, RemoveEmpty, RemoveMoveHash, Removed
<1>9. CASE \/ DropDead \/ DropLive \/ Evicted \/ Bump \/ ReappendInPlace \/ ReappendPublish
           \/ PressDone \/ AllocGap \/ AllocTake \/ SetUnlink \/ Unlinked
           \/ PublishOff \/ PublishHash
  BY <1>9 DEF DropDead, DropLive, Evicted, Bump, ReappendInPlace, ReappendPublish,
     PressDone, AllocGap, AllocTake, SetUnlink, Unlinked, PublishOff, PublishHash
<1> QED
  BY <1>1, <1>2, <1>3, <1>4, <1>5, <1>6, <1>7, <1>8, <1>9 DEF WriterStep

\* The head and the tail only move on, and no block is given back.
LEMMA TopStep ==
  ASSUME NEW S, Inv(S), WriterStep
  PROVE  /\ tail' >= tail
         /\ Top' >= Top
         /\ w.pc = "bump" => head' = head + w.size /\ Top' = head' /\ UNCHANGED <<hd, body, idx>>
<1>0. /\ Typed /\ w \in Writers /\ head \in Nat /\ tail \in Nat /\ Top \in Nat
      /\ tail <= Top /\ Top <= head /\ hd \in [Units -> Hdrs]
  BY TopFacts DEF Inv, Typed
<1>10. IdleWriter \in Writers /\ IdleWriter.pc = "idle"
  BY IdleTyped DEF IdleWriter
<1>1. CASE RemoveEmpty \/ RemoveMoveOff \/ RemoveMoveHash
  BY <1>0, <1>1, ShiftStage DEF Shifts
<1>2. CASE Bump
  <2>1. /\ w.pc = "bump" /\ head' = head + w.size /\ tail' = tail + w.size
        /\ w' = [w EXCEPT !.pc = w.loop] /\ UNCHANGED <<hd, body, idx>>
    BY <1>2 DEF Bump
  <2>2. Top = head /\ w.loop \in {"press", "alloc"} /\ w.size \in Nat
    BY <2>1, MoveFacts DEF Moves
  <2>3. w'.pc = w.loop
    BY <1>0, <2>1 DEF Writers
  <2>4. Top' = head'
    BY <2>2, <2>3 DEF Stage, Taken, Shifts, Top
  <2> QED BY <1>0, <2>1, <2>2, <2>4
<1>3. CASE DropDead \/ DropLive
  <2>1. MustDrop /\ head' = head
    BY <1>3 DEF DropDead, DropLive
  <2>2. Top = head /\ w.pc \in {"press", "alloc"} /\ TailRec = hd[Phys(tail)] /\ tail < head
    BY <2>1, DropFacts
  <2>3. /\ w'.pc \in {"press", "alloc", "empty"} /\ (w'.pc = "empty" => w'.ret = "evicted")
    <3>1. CASE DropDead
      BY <1>0, <2>2, <3>1 DEF DropDead, Writers
    <3>2. CASE DropLive
      BY <1>0, <2>2, <3>2 DEF DropLive, Writers, Removing
    <3> QED BY <1>3, <3>1, <3>2
  <2>4. Top' = head
    BY <2>1, <2>3 DEF Stage, Taken, Shifts, Top
  <2>5. tail' >= tail
    <3>1. GapAt(tail) \in Nat /\ TailRec.size \in Nat
      BY <1>0, <2>2, PhysType, HdrTyped DEF TailRec
    <3> QED BY <1>0, <1>3, <2>2, <3>1 DEF DropDead, DropLive
  <2> QED BY <1>0, <2>2, <2>4, <2>5
<1>4. CASE Evicted
  <2>1. w.pc = "evicted" /\ tail' = tail + w.size /\ head' = head /\ w' = [w EXCEPT !.pc = w.loop]
    BY <1>4 DEF Evicted
  <2>2. Dropping /\ Stage = "evicted"
    BY <2>1 DEF Dropping, Stage, Shifts
  <2>3. w.loop \in {"press", "alloc"} /\ w.size \in Nat /\ Top = head
    BY <1>0, <2>2, WriterFields DEF Inv, Staged, Top, Taken
  <2>4. w'.pc = w.loop
    BY <1>0, <2>1 DEF Writers
  <2>5. Top' = head
    BY <2>1, <2>3, <2>4 DEF Stage, Taken, Shifts, Top
  <2> QED BY <1>0, <2>1, <2>3, <2>5
<1>5. CASE ReappendInPlace \/ ReappendCopy \/ ReappendCopied \/ ReappendPublish
  <2>1. /\ w'.pc \in Moves /\ UNCHANGED <<head, tail>> /\ w.pc # "bump"
        /\ w.pc \in {"press", "alloc", "copying", "copied"}
    <3>1. CASE ReappendInPlace \/ ReappendCopy
      BY <1>0, <3>1, DropFacts DEF ReappendInPlace, ReappendCopy, Writers, Moves
    <3>2. CASE ReappendCopied \/ ReappendPublish
      BY <1>0, <3>2 DEF ReappendCopied, ReappendPublish, Writers, Moves
    <3> QED BY <1>5, <3>1, <3>2
  <2>2. Top = head /\ Top' = head
    BY <2>1 DEF Stage, Taken, Shifts, Moves, Top
  <2> QED BY <1>0, <2>1, <2>2
<1>6. CASE \/ \E k \in Keys, n \in Sizes, t \in Ttls : SetBegin(k, n, t)
           \/ Clear \/ Cleared \/ SweepBegin \/ SweepSkip \/ Swept \/ SweepEnd \/ Removed
           \/ PressDone \/ AllocGap \/ AllocPad \/ AllocPadded \/ PublishOff \/ PublishHash
  <2>1. w.pc \in {"idle", "clear", "sweep", "swept", "removed", "press", "alloc", "padding",
                  "puboff", "pubhash"}
    BY <1>6 DEF SetBegin, Clear, Cleared, SweepBegin, SweepSkip, Swept, SweepEnd, Removed,
       PressDone, AllocGap, AllocPad, AllocPadded, PublishOff, PublishHash, Scanning
  <2>2. w'.pc \in {"idle", "clear", "sweep", "press", "alloc", "padding", "pubhash"}
    <3>1. CASE \/ \E k \in Keys, n \in Sizes, t \in Ttls : SetBegin(k, n, t)
               \/ Clear \/ Cleared \/ SweepBegin \/ SweepEnd \/ Removed \/ PublishHash
      BY <1>10, <3>1 DEF SetBegin, Clear, Cleared, SweepBegin, SweepEnd, Removed, PublishHash,
         Writers
    <3>2. CASE SweepSkip
      BY <1>0, <3>2 DEF SweepSkip, Scanning, Writers
    <3>3. CASE Swept
      BY <1>0, <3>3 DEF Swept, Writers
    <3>4. CASE PressDone \/ AllocPad \/ AllocPadded
      BY <1>0, <1>10, <3>4 DEF PressDone, AllocPad, AllocPadded, Writers
    <3>5. CASE AllocGap \/ PublishOff
      BY <1>0, <3>5 DEF AllocGap, PublishOff, Writers
    <3> QED BY <1>6, <3>1, <3>2, <3>3, <3>4, <3>5
  <2>3. Top = head /\ Top' = head'
    BY <2>1, <2>2 DEF Stage, Taken, Shifts, Top
  <2>4. GapAt(head) \in Nat /\ Remain(head) \in Nat
    BY <1>0, PhysType
  <2>5. head' >= head /\ tail' >= tail
    <3>1. CASE AllocGap \/ AllocPadded
      BY <1>0, <2>4, <3>1 DEF AllocGap, AllocPadded
    <3>2. CASE Cleared
      BY <1>0, <3>2 DEF Cleared
    <3>3. CASE ~(AllocGap \/ AllocPadded \/ Cleared)
      <4>1. head' = head /\ tail' = tail
        BY <1>6, <3>3 DEF SetBegin, Clear, SweepBegin, SweepSkip, Swept, SweepEnd,
           Removed, PressDone, AllocPad, PublishOff, PublishHash
      <4> QED BY <1>0, <4>1
    <3> QED BY <3>1, <3>2, <3>3
  <2> QED BY <2>1, <2>3, <2>5
<1>7. CASE (\E k \in Keys : Delete(k)) \/ SweepRemove
  <2>1. UNCHANGED <<head, tail>> /\ w.pc \in {"idle", "sweep"}
    BY <1>7 DEF Delete, SweepRemove, Scanning
  <2>2. w'.pc = "idle" \/ (w'.pc = "empty" /\ w'.ret \in {"removed", "swept"})
    BY <1>0, <1>7 DEF Delete, SweepRemove, Removing, Writers
  <2>3. Top = head /\ Top' = head'
    BY <2>1, <2>2 DEF Stage, Taken, Shifts, Top
  <2> QED BY <1>0, <2>1, <2>3
<1>8. CASE AllocTake
  <2>1. w.pc = "alloc" /\ w' = [w EXCEPT !.pc = "slot", !.pos = head] /\ tail' = tail
    BY <1>8 DEF AllocTake
  <2>2. w'.pc = "slot" /\ w'.pos = head
    BY <1>0, <2>1 DEF Writers
  <2>3. Top = head /\ Top' = head
    BY <2>1, <2>2 DEF Stage, Taken, Shifts, Top
  <2> QED BY <1>0, <2>1, <2>3
<1>9. CASE RefuseSlot \/ Refused \/ SetUnlink \/ Unlinked \/ Write \/ Written
  <2>1. w.pc \in {"slot", "refuse", "unlinked", "write", "writing"} /\ UNCHANGED <<head, tail>>
    BY <1>9 DEF RefuseSlot, Refused, SetUnlink, Unlinked, Write, Written
  <2>2. \/ w'.pos = w.pos
        \/ w'.pc = "idle"
    <3>1. CASE RefuseSlot \/ Write \/ Written
      BY <1>0, <3>1 DEF RefuseSlot, Write, Written, Writers
    <3>2. CASE Refused \/ Unlinked
      BY <1>0, <1>10, <3>2 DEF Refused, Unlinked, Writers
    <3>3. CASE SetUnlink
      BY <1>0, <3>3 DEF SetUnlink, Writers, Removing
    <3> QED BY <1>9, <3>1, <3>2, <3>3
  <2>3. Top = w.pos
    BY <2>1 DEF Stage, Taken, Shifts, Top
  <2>4. Top' = w.pos \/ Top' = head
    BY <2>1, <2>2 DEF Stage, Taken, Shifts, Top
  <2> QED BY <1>0, <2>1, <2>3, <2>4
<1> QED
  BY <1>1, <1>2, <1>3, <1>4, <1>5, <1>6, <1>7, <1>8, <1>9 DEF WriterStep

\* The record at p is in the log, or has just been published at its head.
Held(p) ==
  /\ tail <= p
  /\ Rec(hd, body, p, HdrAt(p).hash)
  /\ p + HdrAt(p).size <= Top \/ (w.pc = "bump" /\ p = head)

\* What the index points at is held.
LEMMA HeldSlot ==
  ASSUME NEW S, Inv(S), NEW s \in Slot, idx[s].hash # Empty
  PROVE  /\ idx[s].off \in Nat /\ Held(idx[s].off)
         /\ Entry(s).hash = idx[s].hash /\ Entry(s).key \in Keys
         /\ idx[s].hash = Hash[Entry(s).key]
<1>0. /\ Typed /\ tail \in Nat /\ head \in Nat /\ Top \in Nat /\ tail <= Top /\ Top <= head
      /\ hd \in [Units -> Hdrs] /\ Chain(S, hd, tail, Top)
  BY TopFacts
<1>1. PICK p : p = idx[s].off
  OBVIOUS
<1>2. p \in Nat /\ Rec(hd, body, p, idx[s].hash)
  BY <1>0, <1>1, SlotTyped DEF Inv, Indexed
<1>3. /\ p \in S
      /\ p < Top \/ (w.pc = "bump" /\ s = TailRec.slot)
  BY <1>1 DEF Inv, Indexed
<1>4. /\ HdrAt(p) = hd[Phys(p)] /\ Entry(s) = HdrAt(p) /\ HdrAt(p).hash = idx[s].hash
      /\ HdrAt(p).key \in Keys /\ idx[s].hash = Hash[HdrAt(p).key]
  BY <1>1, <1>2 DEF HdrAt, Entry, Rec
<1>5. tail <= p
  BY <1>0, <1>3 DEF Chain
<1>6. p + HdrAt(p).size <= Top \/ (w.pc = "bump" /\ p = head)
  <2>1. CASE p < Top
    <3>1. Span(hd, p) = hd[Phys(p)].size
      BY <1>0, <1>2, RecFacts
    <3>2. p + Span(hd, p) <= Top
      BY <1>0, <1>3, <2>1, ChainFacts
    <3> QED BY <1>4, <3>1, <3>2
  <2>2. CASE w.pc = "bump" /\ s = TailRec.slot
    BY <1>1, <2>2 DEF Inv, AtTail
  <2> QED BY <1>3, <2>1, <2>2
<1> QED BY <1>1, <1>2, <1>4, <1>5, <1>6 DEF Held

\* A move changes no word of a header but its slot.
LEMMA SlotWordOnly ==
  ASSUME NEW S, Inv(S), RemoveMoveOff, NEW q \in Nat
  PROVE  /\ hd'[Phys(q)].seq = hd[Phys(q)].seq /\ hd'[Phys(q)].hash = hd[Phys(q)].hash
         /\ hd'[Phys(q)].size = hd[Phys(q)].size /\ hd'[Phys(q)].ver = hd[Phys(q)].ver
         /\ hd'[Phys(q)].key = hd[Phys(q)].key
<1>1. hd' = [hd EXCEPT ![Phys(idx[w.j].off)].slot = w.i] /\ hd \in [Units -> Hdrs]
  BY DEF RemoveMoveOff, Inv, Typed
<1>2. PICK u : u = Phys(idx[w.j].off)
  OBVIOUS
<1>3. PICK v \in Units : v = Phys(q)
  BY PhysType
<1>4. hd[v] \in Hdrs /\ hd' = [hd EXCEPT ![u].slot = w.i]
  BY <1>1, <1>2
<1>5. CASE u = v
  <2>1. hd'[v] = [hd[v] EXCEPT !.slot = w.i]
    BY <1>1, <1>4, <1>5
  <2> QED BY <1>3, <1>4, <2>1 DEF Hdrs
<1>6. CASE u # v
  <2>1. hd'[v] = hd[v]
    BY <1>1, <1>4, <1>6
  <2> QED BY <1>3, <2>1
<1> QED BY <1>5, <1>6

\* A record that is held stays as it is until the tail has passed it.
LEMMA HeldStays ==
  ASSUME NEW S, Inv(S), WriterStep, NEW p \in Nat, Held(p), tail' <= p
  PROVE  /\ Held(p)'
         /\ HdrAt(p)'.key = HdrAt(p).key /\ HdrAt(p)'.ver = HdrAt(p).ver
         /\ HdrAt(p)'.size = HdrAt(p).size
<1>0. /\ Typed /\ tail \in Nat /\ head \in Nat /\ Top \in Nat /\ tail <= Top /\ Top <= head
      /\ hd \in [Units -> Hdrs] /\ Chain(S, hd, tail, Top)
  BY TopFacts
<1>1. /\ tail' >= tail /\ Top' >= Top
      /\ w.pc = "bump" => head' = head + w.size /\ Top' = head' /\ UNCHANGED <<hd, body, idx>>
  BY TopStep
<1>2. PICK T : Inv(T)'
  BY WriterKeeps
<1>3. tail' \in Nat /\ Top' \in Nat /\ head' \in Nat
  BY <1>2 DEF Inv, Typed, Chain
<1>4. /\ HdrAt(p) = hd[Phys(p)] /\ HdrAt(p) \in Hdrs /\ HdrAt(p).size \in Nat
      /\ Rec(hd, body, p, HdrAt(p).hash) /\ tail <= p
      /\ p + HdrAt(p).size <= Top \/ (w.pc = "bump" /\ p = head)
  BY <1>0, HdrTyped DEF Held
<1>5. HdrAt(p)' = hd'[Phys(p)]
  BY DEF HdrAt, Phys
<1>6. CASE w.pc = "bump"
  <2>1. HdrAt(p)' = HdrAt(p)
    BY <1>1, <1>4, <1>5, <1>6
  <2>2. p = head => HdrAt(p).size = w.size
    BY <1>6 DEF Inv, AtTail
  <2>3. p + HdrAt(p).size <= Top'
    BY <1>0, <1>1, <1>3, <1>4, <1>6, <2>2
  <2>4. Rec(hd', body', p, HdrAt(p).hash)
    BY <1>1, <1>4, <1>6
  <2> QED BY <1>3, <2>1, <2>3, <2>4 DEF Held
<1>7. CASE w.pc # "bump" /\ UNCHANGED <<hd, body>>
  <2>1. HdrAt(p)' = HdrAt(p) /\ Rec(hd', body', p, HdrAt(p).hash)
    BY <1>4, <1>5, <1>7
  <2>2. p + HdrAt(p).size <= Top'
    BY <1>0, <1>1, <1>3, <1>4, <1>7
  <2> QED BY <1>3, <2>1, <2>2 DEF Held
<1>8. CASE w.pc # "bump" /\ RemoveMoveOff
  <2>1. body' = body
    BY <1>8 DEF RemoveMoveOff
  <2>2. /\ hd'[Phys(p)].seq = hd[Phys(p)].seq /\ hd'[Phys(p)].hash = hd[Phys(p)].hash
        /\ hd'[Phys(p)].size = hd[Phys(p)].size /\ hd'[Phys(p)].ver = hd[Phys(p)].ver
        /\ hd'[Phys(p)].key = hd[Phys(p)].key
    BY <1>8, SlotWordOnly
  <2>3. Rec(hd', body', p, HdrAt(p).hash)
    BY <1>4, <2>1, <2>2, RecSame
  <2>4. p + HdrAt(p).size <= Top'
    BY <1>0, <1>1, <1>3, <1>4, <1>8
  <2> QED BY <1>3, <1>4, <1>5, <2>2, <2>3, <2>4 DEF Held
<1>9. CASE w.pc # "bump" /\ Fresh
  <2>1. PICK q \in Nat, m \in Nat :
          /\ Top <= q /\ q + m <= tail + Data /\ m <= Remain(q)
          /\ Writes(hd, body, hd', body', q, m)
    BY <1>9 DEF Fresh
  <2>2. PICK n \in Nat : n = HdrAt(p).size /\ n > 0 /\ n <= Remain(p) /\ p + n <= Top
    BY <1>4, <1>9, Constants DEF Rec
  <2>3. ASSUME NEW x \in 0 .. n - 1
        PROVE  /\ Phys(p) + x \in Units /\ hd'[Phys(p) + x] = hd[Phys(p) + x]
               /\ body'[Phys(p) + x] = body[Phys(p) + x]
    <3>1. ASSUME NEW y \in 0 .. m - 1 PROVE Phys(p) + x # Phys(q) + y
      <4>1. /\ x \in Nat /\ y \in Nat /\ x < Remain(p) /\ y < Remain(q)
            /\ p + x < q + y /\ q + y < p + x + Data
        BY <1>0, <1>4, <2>1, <2>2, PhysType, Constants
      <4> QED BY <4>1, Apart
    <3>2. Phys(p) + x \in Units
      BY <2>2, PhysType, Constants DEF Units
    <3>3. Phys(p) + x \notin Phys(q) .. Phys(q) + m - 1
      <4> SUFFICES ASSUME Phys(p) + x \in Phys(q) .. Phys(q) + m - 1 PROVE FALSE
        OBVIOUS
      <4>1. PICK y \in Int : y = (Phys(p) + x) - Phys(q)
        BY PhysType
      <4>2. y \in 0 .. m - 1 /\ Phys(p) + x = Phys(q) + y
        BY <4>1, PhysType
      <4> QED BY <3>1, <4>2
    <3> QED BY <2>1, <3>2, <3>3 DEF Writes
  <2>4. hd'[Phys(p)] = hd[Phys(p)]
    <3>1. hd'[Phys(p) + 0] = hd[Phys(p) + 0] /\ Phys(p) \in Nat
      BY <2>2, <2>3, PhysType
    <3> QED BY <3>1
  <2>5. Rec(hd', body', p, HdrAt(p).hash)
    <3>1. ASSUME NEW x \in Hdr .. n - 1
          PROVE  body'[Phys(p) + x] = <<hd[Phys(p)].ver, x>>
      <4>1. x \in 0 .. n - 1
        BY Constants
      <4> QED BY <1>4, <2>2, <2>3, <4>1 DEF Rec
    <3> QED BY <1>4, <2>2, <2>4, <3>1 DEF Rec, Sits
  <2>6. p + HdrAt(p).size <= Top'
    BY <1>0, <1>1, <1>3, <2>2
  <2> QED BY <1>3, <1>4, <1>5, <2>4, <2>5, <2>6 DEF Held
<1> QED BY <1>6, <1>7, <1>8, <1>9, MemoryStep

\* What a step does to a slot.
LEMMA IdxStep ==
  ASSUME NEW S, Inv(S), WriterStep, NEW s \in Slot
  PROVE  \/ idx'[s] = idx[s]
         \/ /\ RemoveEmpty /\ s = w.i
            /\ idx'[s].hash = Empty /\ idx'[s].off = idx[s].off
         \/ /\ RemoveMoveOff /\ s = w.i /\ w.j \in Slot /\ idx[w.j].hash # Empty
            /\ idx[s].hash = Empty /\ idx'[s].hash = Empty /\ idx'[s].off = idx[w.j].off
            /\ idx'[w.j] = idx[w.j]
         \/ /\ RemoveMoveHash /\ s = w.i /\ w.j \in Slot /\ idx[w.j].hash # Empty
            /\ idx'[s].hash = idx[w.j].hash /\ idx'[s].off = idx[w.j].off
            /\ idx'[s].off = idx[s].off
         \/ /\ ReappendInPlace \/ ReappendPublish
            /\ s = TailRec.slot /\ idx[s].hash # Empty /\ idx[s].off = tail
            /\ idx'[s].hash = idx[s].hash /\ idx'[s].off = head
         \/ /\ PublishOff /\ s = w.i
            /\ idx[s].hash = Empty /\ idx'[s].hash = Empty /\ idx'[s].off = w.pos
         \/ /\ PublishHash /\ s = w.i /\ idx[s].hash = Empty
            /\ idx'[s].hash = Hash[w.key] /\ idx'[s].off = w.pos /\ idx'[s].off = idx[s].off
         \/ Clear /\ idx'[s].hash = Empty
<1>0. Typed /\ idx \in [Slot -> [hash : Nat, off : Nat]] /\ idx[s] \in [hash : Nat, off : Nat]
  BY DEF Inv, Typed
<1>1. CASE RemoveEmpty
  BY <1>0, <1>1 DEF RemoveEmpty
<1>2. CASE RemoveMoveOff
  <2>1. /\ idx' = [idx EXCEPT ![w.i].off = idx[w.j].off] /\ w.j \in Slot /\ w.j # w.i
        /\ idx[w.j].hash # Empty /\ idx[w.i].hash = Empty
    BY <1>2 DEF RemoveMoveOff, Inv, Staged
  <2> QED BY <1>0, <1>2, <2>1
<1>3. CASE RemoveMoveHash
  <2>1. /\ idx' = [idx EXCEPT ![w.i].hash = idx[w.j].hash] /\ w.j \in Slot /\ w.j # w.i
        /\ idx[w.j].hash # Empty /\ idx[w.i].off = idx[w.j].off
    BY <1>3 DEF RemoveMoveHash, Inv, Staged
  <2> QED BY <1>0, <1>3, <2>1
<1>4. CASE ReappendInPlace
  <2>1. MustDrop /\ LiveTail /\ idx' = [idx EXCEPT ![TailRec.slot].off = head]
    BY <1>4 DEF ReappendInPlace, Chance
  <2>2. TailRec.slot \in Slot /\ idx[TailRec.slot].off = tail /\ idx[TailRec.slot].hash # Empty
    BY <1>0, <2>1, LiveTailSlot
  <2> QED BY <1>0, <1>4, <2>1, <2>2
<1>5. CASE ReappendPublish
  <2>1. w.pc = "copied" /\ idx' = [idx EXCEPT ![TailRec.slot].off = head]
    BY <1>5 DEF ReappendPublish
  <2>2. TailRec.slot \in Slot /\ idx[TailRec.slot].off = tail /\ idx[TailRec.slot].hash # Empty
    BY <2>1, MoveFacts DEF Moves, Inv, AtTail
  <2> QED BY <1>0, <1>5, <2>1, <2>2
<1>6. CASE PublishOff
  <2>1. /\ idx' = [idx EXCEPT ![w.i].off = w.pos] /\ w.i \in Slot /\ idx[w.i].hash = Empty
    BY <1>6, PublishFacts DEF PublishOff
  <2> QED BY <1>0, <1>6, <2>1
<1>7. CASE PublishHash
  <2>1. /\ idx' = [idx EXCEPT ![w.i].hash = Hash[w.key]] /\ w.i \in Slot /\ idx[w.i].hash = Empty
        /\ w.pc = "pubhash"
    BY <1>7, PublishFacts DEF PublishHash
  <2>2. idx[w.i].off = w.pos
    BY <2>1 DEF Inv, AtHead
  <2> QED BY <1>0, <1>7, <2>1, <2>2
<1>8. CASE Clear
  BY <1>8 DEF Clear
<1>9. CASE \/ \E k \in Keys, n \in Sizes, t \in Ttls : SetBegin(k, n, t)
           \/ \E k \in Keys : Delete(k)
           \/ Cleared \/ SweepBegin \/ SweepSkip \/ SweepRemove \/ Swept \/ SweepEnd
           \/ Removed \/ DropDead \/ DropLive \/ Evicted \/ Bump
  BY <1>9 DEF SetBegin, Delete, Cleared, SweepBegin, SweepSkip, SweepRemove, Swept,
     SweepEnd, Removed, DropDead, DropLive, Evicted, Bump
<1>10. CASE \/ ReappendCopy \/ ReappendCopied
            \/ PressDone \/ AllocGap \/ AllocPad \/ AllocPadded \/ AllocTake
            \/ RefuseSlot \/ Refused \/ SetUnlink \/ Unlinked \/ Write \/ Written
  BY <1>10 DEF ReappendCopy, ReappendCopied, PressDone, AllocGap, AllocPad, AllocPadded,
     AllocTake, RefuseSlot, Refused, SetUnlink, Unlinked, Write, Written
<1> QED
  BY <1>1, <1>2, <1>3, <1>4, <1>5, <1>6, <1>7, <1>8, <1>9, <1>10 DEF WriterStep

\* A second chance publishes at the head what the tail entry was.
LEMMA ReappendStep ==
  ASSUME NEW S, Inv(S), ReappendInPlace \/ ReappendPublish
  PROVE  /\ UNCHANGED <<hd, body, head, tail>> /\ w'.pc = "bump" /\ Top' = head
         /\ TailRec.slot \in Slot /\ idx[TailRec.slot].hash # Empty
         /\ Entry(TailRec.slot) = TailRec
         /\ HdrAt(head).key = TailRec.key /\ HdrAt(head).ver = TailRec.ver
         /\ HdrAt(head).size = TailRec.size
         /\ \E g : Rec(hd, body, head, g)
<1>0. Typed /\ w \in Writers
  BY DEF Inv, Typed
<1>1. CASE ReappendInPlace
  <2>1. /\ MustDrop /\ Chance /\ InPlace /\ UNCHANGED <<hd, body, head, tail>>
        /\ w' = [w EXCEPT !.pc = "bump", !.loop = w.pc, !.guard = @ + 1,
                          !.budget = @ - 1, !.size = TailRec.size]
        /\ UNCHANGED <<nops, aged, cursor>>
    BY <1>1 DEF ReappendInPlace, aside
  <2>2. "bump" \in Moves /\ Top = head
    BY <2>1, DropFacts DEF Moves
  <2>3. /\ w'.pc = "bump" /\ Top' = Top /\ TailRec.slot \in Slot
        /\ idx[TailRec.slot].hash # Empty /\ Entry(TailRec.slot) = TailRec
        /\ Rec(hd, body, tail, idx[TailRec.slot].hash)
    BY <2>1, <2>2, ChanceFacts
  <2>4. /\ HdrAt(head) = TailRec /\ Rec(hd, body, head, idx[TailRec.slot].hash)
    BY <2>1, <2>3 DEF InPlace, Remain, HdrAt, TailRec, Rec, Sits
  <2> QED BY <2>1, <2>2, <2>3, <2>4
<1>2. CASE ReappendPublish
  <2>1. /\ w.pc = "copied" /\ UNCHANGED <<hd, body, head, tail, nops, aged, cursor>>
        /\ w' = [w EXCEPT !.pc = "bump"]
    BY <1>2 DEF ReappendPublish, aside
  <2>2. w.pc \in Moves /\ "bump" \in Moves
    BY <2>1 DEF Moves
  <2>3. w'.pc = "bump" /\ Top' = head
    BY <2>1, <2>2, NextMove
  <2>4. /\ TailRec.slot \in Slot /\ idx[TailRec.slot].hash # Empty /\ w.size = TailRec.size
    BY <2>2, MoveFacts
  <2>5. /\ idx[TailRec.slot].off = tail /\ Rec(hd, body, head, idx[TailRec.slot].hash)
        /\ HdrAt(head).size = w.size
        /\ HdrAt(head).key = TailRec.key /\ HdrAt(head).ver = TailRec.ver
    BY <2>1 DEF Inv, AtTail, Moves
  <2>6. Entry(TailRec.slot) = TailRec
    BY <2>5 DEF Entry, TailRec
  <2> QED BY <2>1, <2>3, <2>4, <2>5, <2>6
<1> QED BY <1>1, <1>2

\* An entry after a step was an entry before it, or is the one the set publishes.
LEMMA EntryStep ==
  ASSUME NEW S, Inv(S), WriterStep, NEW s \in Slot, idx'[s].hash # Empty
  PROVE  \/ \E t \in Slot :
              /\ idx[t].hash # Empty
              /\ Entry(s)'.key = Entry(t).key /\ Entry(s)'.ver = Entry(t).ver
         \/ w.pc = "pubhash" /\ Entry(s)'.key = w.key /\ Entry(s)'.ver = w.ver
<1>1. PICK T : Inv(T)'
  BY WriterKeeps
<1>2. tail' <= idx'[s].off
  BY <1>1 DEF Inv, Indexed, Chain
<1>3. Entry(s)' = hd'[Phys(idx'[s].off)]
  BY DEF Entry, HdrAt, Phys
<1>4. ASSUME NEW t \in Slot, idx[t].hash # Empty, idx'[s].off = idx[t].off
      PROVE  Entry(s)'.key = Entry(t).key /\ Entry(s)'.ver = Entry(t).ver
  <2>1. idx[t].off \in Nat /\ Held(idx[t].off)
    BY <1>4, HeldSlot
  <2>2. PICK p \in Nat : p = idx[t].off
    BY <2>1
  <2>3. HdrAt(p)'.key = HdrAt(p).key /\ HdrAt(p)'.ver = HdrAt(p).ver
    BY <1>2, <1>4, <2>1, <2>2, HeldStays
  <2>4. HdrAt(p)' = Entry(s)' /\ HdrAt(p) = Entry(t)
    BY <1>3, <1>4, <2>2 DEF HdrAt, Entry, Phys
  <2> QED BY <2>3, <2>4
<1>5. CASE idx'[s] = idx[s]
  BY <1>4, <1>5
<1>6. CASE RemoveMoveHash /\ idx'[s].off = idx[w.j].off /\ w.j \in Slot /\ idx[w.j].hash # Empty
  BY <1>4, <1>6
<1>7. CASE (ReappendInPlace \/ ReappendPublish) /\ s = TailRec.slot /\ idx'[s].off = head
  <2>1. /\ hd' = hd /\ TailRec.slot \in Slot /\ idx[TailRec.slot].hash # Empty
        /\ Entry(TailRec.slot) = TailRec
        /\ HdrAt(head).key = TailRec.key /\ HdrAt(head).ver = TailRec.ver
    BY <1>7, ReappendStep
  <2>2. Entry(s)' = HdrAt(head)
    BY <1>3, <1>7, <2>1 DEF HdrAt
  <2> QED BY <1>7, <2>1, <2>2
<1>8. CASE PublishHash /\ idx'[s].off = w.pos
  <2>1. w.pc = "pubhash" /\ hd' = hd
    BY <1>8 DEF PublishHash
  <2>2. HdrAt(w.pos).key = w.key /\ HdrAt(w.pos).ver = w.ver
    BY <2>1, PublishFacts
  <2>3. Entry(s)' = HdrAt(w.pos)
    BY <1>3, <1>8, <2>1 DEF HdrAt
  <2> QED BY <2>1, <2>2, <2>3
<1> QED BY <1>5, <1>6, <1>7, <1>8, IdxStep

\* The position in a slot, used or not, changes only to one of an entry there was, or
\* of the record a set is about to publish.
LEMMA OffStep ==
  ASSUME NEW S, Inv(S), WriterStep, ~Clear, NEW s \in Slot, idx'[s].off # idx[s].off
  PROVE  /\ idx'[s].off \in Nat
         /\ tail' <= idx'[s].off => Held(idx[s].off)'
         /\ \/ \E t \in Slot :
                 /\ idx[t].hash # Empty
                 /\ tail' <= idx'[s].off =>
                      Entry(s)'.key = Entry(t).key /\ Entry(s)'.ver = Entry(t).ver
            \/ w.pc = "puboff" /\ Entry(s)'.key = w.key /\ Entry(s)'.ver = w.ver
<1>0. /\ Typed /\ tail \in Nat /\ head \in Nat /\ Top \in Nat /\ tail <= Top /\ Top <= head
      /\ hd \in [Units -> Hdrs] /\ Chain(S, hd, tail, Top)
  BY TopFacts
<1>3. Entry(s)' = hd'[Phys(idx'[s].off)]
  BY DEF Entry, HdrAt, Phys
<1>4. CASE /\ RemoveMoveOff /\ w.j \in Slot /\ idx[w.j].hash # Empty
           /\ idx'[s].off = idx[w.j].off
  <2>1. PICK p \in Nat : p = idx[w.j].off /\ Held(p)
    BY <1>4, HeldSlot
  <2>2. tail' <= p => /\ Held(p)'
                      /\ HdrAt(p)'.key = HdrAt(p).key /\ HdrAt(p)'.ver = HdrAt(p).ver
    BY <2>1, HeldStays
  <2>3. HdrAt(p)' = Entry(s)' /\ HdrAt(p) = Entry(w.j)
    BY <1>3, <1>4, <2>1 DEF HdrAt, Entry, Phys
  <2>4. idx'[s].off = p
    BY <1>4, <2>1
  <2>5. tail' <= idx'[s].off => Held(idx[s].off)'
    BY <2>2, <2>4 DEF Held, Rec, Sits, HdrAt
  <2> QED BY <1>4, <2>1, <2>2, <2>3, <2>4, <2>5
<1>5. CASE (ReappendInPlace \/ ReappendPublish) /\ s = TailRec.slot /\ idx'[s].off = head
  <2>1. /\ UNCHANGED <<hd, body, head, tail>> /\ w'.pc = "bump"
        /\ TailRec.slot \in Slot /\ idx[TailRec.slot].hash # Empty
        /\ Entry(TailRec.slot) = TailRec
        /\ HdrAt(head).key = TailRec.key /\ HdrAt(head).ver = TailRec.ver
    BY <1>5, ReappendStep
  <2>2. PICK g : Rec(hd, body, head, g)
    BY <1>5, ReappendStep
  <2>3. Entry(s)' = HdrAt(head) /\ g = HdrAt(head).hash
    BY <1>3, <1>5, <2>1, <2>2 DEF HdrAt, Rec
  <2>4. PICK p : p = idx'[s].off
    OBVIOUS
  <2>5. /\ p = head /\ tail' <= p /\ Rec(hd', body', p, hd'[Phys(p)].hash) /\ p = head'
    BY <1>0, <1>5, <2>1, <2>2, <2>3, <2>4 DEF HdrAt
  <2>6. Held(idx[s].off)'
    BY <2>1, <2>4, <2>5 DEF Held, HdrAt, Phys
  <2> QED BY <1>0, <1>5, <2>1, <2>3, <2>6
<1>6. CASE PublishOff /\ idx'[s].off = w.pos
  <2>1. w.pc = "puboff" /\ UNCHANGED <<hd, body, head, tail>>
    BY <1>6 DEF PublishOff
  <2>2. /\ HdrAt(w.pos).key = w.key /\ HdrAt(w.pos).ver = w.ver /\ w.pos \in Nat
        /\ w.pos \in S /\ w.pos < head /\ Rec(hd, body, w.pos, Hash[w.key]) /\ Top = head
    BY <2>1, PublishFacts
  <2>3. Entry(s)' = HdrAt(w.pos)
    BY <1>3, <1>6, <2>1 DEF HdrAt
  <2>4. Held(w.pos)
    <3>1. Span(hd, w.pos) = HdrAt(w.pos).size /\ HdrAt(w.pos).hash = Hash[w.key]
      BY <1>0, <2>2, RecFacts DEF HdrAt, Rec
    <3>2. w.pos + Span(hd, w.pos) <= Top /\ tail <= w.pos
      BY <1>0, <2>2, ChainFacts
    <3> QED BY <2>2, <3>1, <3>2 DEF Held
  <2>5. PICK p \in Nat : p = w.pos
    BY <2>2
  <2>6. tail' <= p => Held(p)'
    BY <2>4, <2>5, HeldStays
  <2>7. idx'[s].off = p
    BY <1>6, <2>5
  <2>8. tail' <= idx'[s].off => Held(idx[s].off)'
    BY <2>6, <2>7 DEF Held, Rec, Sits, HdrAt
  <2> QED BY <1>6, <2>1, <2>2, <2>3, <2>8
<1> QED BY <1>4, <1>5, <1>6, IdxStep
-----------------------------------------------------------------------------
(* The reader.                                                             *)

ReadPcs == {"idle", "done", "probe", "off", "seq", "fields", "copy", "seq2", "tail"}
AtRecord == {"seq", "fields", "copy", "seq2", "tail"}

Readers == [pc : ReadPcs, key : Keys \cup {NoKey}, i : Nat, probes : Nat, pos : Nat,
            seq : Int, n : Nat, eh : BOOLEAN, copy : Seq(Nat \X Nat), retry : BOOLEAN,
            now : SUBSET Nat, hit : BOOLEAN, ok : SUBSET Nat, quiet : BOOLEAN]

\* The record at p, as long as the tail has not passed it, is one the read may return.
Right(p) ==
  tail <= p => Held(p) /\ (HdrAt(p).key = r.key => HdrAt(p).ver \in r.ok)

\* So are the words copied so far.
Copied ==
  tail <= r.pos =>
    /\ HdrAt(r.pos).key = r.key /\ HdrAt(r.pos).size = r.n
    /\ \A x \in 1 .. Len(r.copy) : r.copy[x] = <<HdrAt(r.pos).ver, Hdr + x - 1>>

ReadInv ==
  /\ r \in Readers
  /\ Reading =>
       /\ r.key \in Keys /\ ~r.hit
       /\ \A s \in Slot :
            idx[s].hash # Empty /\ Entry(s).key = r.key => Entry(s).ver \in r.ok
  /\ r.pc \in {"probe", "off"} => r.i \in Slot
  /\ r.pc \in {"probe", "off", "seq", "fields"} => r.copy = <<>>
  /\ r.pc = "off" => Right(idx[r.i].off)
  /\ r.pc \in AtRecord => Right(r.pos)
  /\ r.pc \in {"copy", "seq2", "tail"} => Copied /\ r.n <= Remain(r.pos)
  /\ r.pc = "copy" => Hdr + Len(r.copy) < r.n
  /\ r.pc \in {"seq2", "tail"} => Hdr + Len(r.copy) = r.n
  /\ HitCurrent

LEMMA IdleReaderTyped == IdleReader \in Readers /\ IdleReader.pc = "idle" /\ ~IdleReader.hit
BY DEF IdleReader, Readers, ReadPcs

LEMMA Observed ==
  ASSUME r \in Readers, Observe, Typed
  PROVE  \/ r' = IdleReader
         \/ /\ Reading /\ r' \in Readers /\ r.ok \subseteq r'.ok
            /\ \A f \in {"pc", "key", "i", "pos", "n", "copy", "hit"} : r'[f] = r[f]
            /\ w.pc \in {"puboff", "pubhash"} /\ w.key = r.key => w.ver \in r'.ok
<1>1. w.ver \in Nat
  BY WriterFields
<1>2. CASE Reading
  <2>1. PICK g \in SUBSET Nat :
          /\ r' = [r EXCEPT !.quiet = FALSE, !.ok = g] /\ r.ok \subseteq g
          /\ w.pc \in {"puboff", "pubhash"} /\ w.key = r.key => w.ver \in g
    <3>1. CASE w.pc \in {"puboff", "pubhash"} /\ w.key = r.key
      <4>1. r' = [r EXCEPT !.quiet = FALSE, !.ok = r.ok \cup {w.ver}]
        BY <1>2, <3>1 DEF Observe
      <4>2. r.ok \cup {w.ver} \in SUBSET Nat
        BY <1>1 DEF Readers
      <4> QED BY <4>1, <4>2
    <3>2. CASE ~(w.pc \in {"puboff", "pubhash"} /\ w.key = r.key)
      <4>1. r' = [r EXCEPT !.quiet = FALSE, !.ok = r.ok]
        BY <1>2, <3>2 DEF Observe
      <4>2. r.ok \in SUBSET Nat
        BY DEF Readers
      <4> QED BY <3>2, <4>1, <4>2
    <3> QED BY <3>1, <3>2
  <2> QED BY <1>2, <2>1 DEF Readers
<1>3. CASE ~Reading
  BY <1>3 DEF Observe
<1> QED BY <1>2, <1>3

\* No read returns anything while the reader is idle.
LEMMA AtRestReads ==
  ASSUME r' = IdleReader
  PROVE  ReadInv'
BY IdleReaderTyped DEF ReadInv, Reading, AtRecord, HitCurrent

\* The writer under a read.
LEMMA WriterUnderRead ==
  ASSUME NEW S, Inv(S), ReadInv, WriterStep, ~Clear, Observe
  PROVE  ReadInv'
<1>0. Typed /\ r \in Readers /\ tail \in Nat
  BY DEF Inv, Typed, ReadInv
<1>1. CASE r' = IdleReader
  BY <1>1, AtRestReads
<1>2. CASE /\ Reading /\ r' \in Readers /\ r.ok \subseteq r'.ok
           /\ \A f \in {"pc", "key", "i", "pos", "n", "copy", "hit"} : r'[f] = r[f]
           /\ w.pc \in {"puboff", "pubhash"} /\ w.key = r.key => w.ver \in r'.ok
  <2>0. /\ r'.pc = r.pc /\ r'.key = r.key /\ r'.i = r.i /\ r'.pos = r.pos /\ r'.n = r.n
        /\ r'.copy = r.copy /\ r'.hit = r.hit
    BY <1>2
  <2>1. r.key \in Keys /\ ~r.hit /\ r.pos \in Nat
    BY <1>0, <1>2 DEF ReadInv, Readers
  <2>2. ASSUME NEW s \in Slot, idx[s].hash # Empty, Entry(s).key = r.key
        PROVE  Entry(s).ver \in r'.ok
    BY <1>2, <2>2 DEF ReadInv
  <2>3. ASSUME NEW s \in Slot, idx'[s].hash # Empty, Entry(s)'.key = r.key
        PROVE  Entry(s)'.ver \in r'.ok
    BY <1>2, <2>2, <2>3, EntryStep
  <2>4. tail' >= tail
    BY TopStep
  <2>5. PICK T : Inv(T)'
    BY WriterKeeps
  <2>6. tail' \in Nat
    BY <2>5 DEF Inv, Typed
  <2>7. ASSUME NEW p \in Nat, Right(p)
        PROVE  /\ Right(p)'
               /\ tail' <= p => /\ tail <= p /\ HdrAt(p)'.key = HdrAt(p).key
                                /\ HdrAt(p)'.ver = HdrAt(p).ver
                                /\ HdrAt(p)'.size = HdrAt(p).size
    <3> SUFFICES ASSUME tail' <= p
                 PROVE  /\ Held(p)' /\ tail <= p
                        /\ HdrAt(p)'.key = HdrAt(p).key /\ HdrAt(p)'.ver = HdrAt(p).ver
                        /\ HdrAt(p)'.size = HdrAt(p).size
                        /\ HdrAt(p)'.key = r'.key => HdrAt(p)'.ver \in r'.ok
      BY DEF Right
    <3>1. tail <= p
      BY <1>0, <2>4, <2>6
    <3>2. Held(p) /\ (HdrAt(p).key = r.key => HdrAt(p).ver \in r.ok)
      BY <2>7, <3>1 DEF Right
    <3> QED BY <1>2, <2>0, <3>1, <3>2, HeldStays
  <2>8. r.pc = "off" => Right(idx[r.i].off)'
    <3> SUFFICES ASSUME r.pc = "off" PROVE Right(idx[r.i].off)'
      OBVIOUS
    <3>1. r.i \in Slot /\ Right(idx[r.i].off) /\ idx[r.i].off \in Nat
      BY <1>0, SlotTyped DEF ReadInv
    <3>2. PICK s \in Slot : s = r.i
      BY <3>1
    <3>3. CASE idx'[s].off = idx[s].off
      <4>1. PICK p \in Nat : p = idx[s].off
        BY <3>1, <3>2
      <4>2. Right(p)'
        BY <2>7, <3>1, <3>2, <4>1
      <4>3. (idx[r.i].off)' = p
        BY <2>0, <3>2, <3>3, <4>1
      <4> QED BY <4>2, <4>3 DEF Right, Held, Rec, Sits, HdrAt
    <3>4. CASE idx'[s].off # idx[s].off
      <4>1. /\ tail' <= idx'[s].off => Held(idx[s].off)'
            /\ \/ \E t \in Slot :
                    /\ idx[t].hash # Empty
                    /\ tail' <= idx'[s].off =>
                         Entry(s)'.key = Entry(t).key /\ Entry(s)'.ver = Entry(t).ver
               \/ w.pc = "puboff" /\ Entry(s)'.key = w.key /\ Entry(s)'.ver = w.ver
        BY <3>4, OffStep
      <4>2. tail' <= idx'[s].off /\ Entry(s)'.key = r.key => Entry(s)'.ver \in r'.ok
        BY <1>2, <2>2, <4>1
      <4>3. Right(idx[s].off)'
        BY <2>0, <4>1, <4>2 DEF Right, Entry
      <4>4. (idx[r.i].off)' = (idx[s].off)'
        BY <2>0, <3>2
      <4> QED BY <4>3, <4>4 DEF Right, Held, Rec, Sits, HdrAt
    <3> QED BY <3>3, <3>4
  <2>9. PICK p \in Nat : p = r.pos
    BY <2>1
  <2>10. r.pc \in AtRecord => Right(r.pos)'
    <3> SUFFICES ASSUME r.pc \in AtRecord PROVE Right(r.pos)'
      OBVIOUS
    <3>1. Right(p)
      BY <2>9 DEF ReadInv
    <3>2. Right(p)'
      BY <2>7, <3>1
    <3> QED BY <2>0, <2>9, <3>2 DEF Right, Held, Rec, Sits, HdrAt
  <2>11. r.pc \in {"copy", "seq2", "tail"} => Copied' /\ r'.n <= Remain(r.pos)'
    <3> SUFFICES ASSUME r.pc \in {"copy", "seq2", "tail"}
                 PROVE  Copied' /\ r'.n <= Remain(r.pos)'
      OBVIOUS
    <3>1. Right(p) /\ Copied /\ r.n <= Remain(p)
      BY <2>9 DEF ReadInv, AtRecord
    <3>2. tail' <= p => /\ tail <= p /\ HdrAt(p)'.key = HdrAt(p).key
                        /\ HdrAt(p)'.ver = HdrAt(p).ver /\ HdrAt(p)'.size = HdrAt(p).size
      BY <2>7, <3>1
    <3>3. HdrAt(r.pos)' = HdrAt(p)' /\ HdrAt(r.pos) = HdrAt(p)
      BY <2>0, <2>9 DEF HdrAt
    <3>4. Remain(r.pos)' = Remain(p)
      BY <2>0, <2>9 DEF Remain, Phys
    <3> QED BY <2>0, <2>9, <3>1, <3>2, <3>3, <3>4 DEF Copied
  <2>12. HitCurrent'
    BY <2>0, <2>1 DEF HitCurrent
  <2>13. Reading'
    BY <1>2, <2>0 DEF Reading
  <2> QED
    BY <1>2, <2>0, <2>1, <2>3, <2>8, <2>10, <2>11, <2>12 DEF ReadInv, AtRecord
<1> QED BY <1>0, <1>1, <1>2, Observed

\* Nothing of the log has changed.
LEMMA LogStill ==
  ASSUME UNCHANGED wvars
  PROVE  /\ tail' = tail /\ idx' = idx
         /\ \A p : Held(p)' = Held(p) /\ HdrAt(p)' = HdrAt(p)
         /\ \A s : Entry(s)' = Entry(s)
BY DEF wvars, Held, Rec, Sits, HdrAt, Entry, Top, Taken, Stage, Phys

LEMMA AgeUnderRead ==
  ASSUME NEW S, Inv(S), ReadInv, UNCHANGED wvars, Observe
  PROVE  ReadInv'
<1>0. Typed /\ r \in Readers
  BY DEF Inv, ReadInv
<1>1. CASE r' = IdleReader
  BY <1>1, AtRestReads
<1>2. CASE /\ Reading /\ r' \in Readers /\ r.ok \subseteq r'.ok
           /\ \A f \in {"pc", "key", "i", "pos", "n", "copy", "hit"} : r'[f] = r[f]
  <2>0. /\ r'.pc = r.pc /\ r'.key = r.key /\ r'.i = r.i /\ r'.pos = r.pos /\ r'.n = r.n
        /\ r'.copy = r.copy /\ r'.hit = r.hit
    BY <1>2
  <2>1. r.key \in Keys /\ ~r.hit
    BY <1>2 DEF ReadInv
  <2>2. ASSUME NEW p, Right(p) PROVE Right(p)'
    BY <1>2, <2>0, <2>2, LogStill DEF Right
  <2>3. r.pc = "off" => Right(idx[r.i].off)'
    <3>1. PICK p : p = idx[r.i].off
      OBVIOUS
    <3>2. r.pc = "off" => Right(p)'
      BY <2>2, <3>1 DEF ReadInv
    <3>3. (idx[r.i].off)' = p
      BY <2>0, <3>1, LogStill
    <3> QED BY <3>2, <3>3 DEF Right, Held, Rec, Sits, HdrAt
  <2>4. r.pc \in AtRecord => Right(r.pos)'
    <3>1. PICK p : p = r.pos
      OBVIOUS
    <3>2. r.pc \in AtRecord => Right(p)'
      BY <2>2, <3>1 DEF ReadInv
    <3> QED BY <2>0, <3>1, <3>2 DEF Right, Held, Rec, Sits, HdrAt
  <2>5. r.pc \in {"copy", "seq2", "tail"} => Copied' /\ r'.n <= Remain(r.pos)'
    <3>1. HdrAt(r.pos)' = HdrAt(r.pos)
      BY <2>0 DEF wvars, HdrAt, Phys
    <3>2. Remain(r.pos)' = Remain(r.pos)
      BY <2>0 DEF Remain, Phys
    <3>3. tail' = tail
      BY DEF wvars
    <3> QED BY <2>0, <3>1, <3>2, <3>3 DEF Copied, ReadInv
  <2>6. \A s \in Slot : idx'[s].hash # Empty /\ Entry(s)'.key = r'.key => Entry(s)'.ver \in r'.ok
    BY <1>2, <2>0, LogStill DEF ReadInv
  <2>7. HitCurrent'
    BY <2>0, <2>1 DEF HitCurrent
  <2>8. Reading'
    BY <1>2, <2>0 DEF Reading
  <2> QED BY <1>2, <2>0, <2>1, <2>3, <2>4, <2>5, <2>6, <2>7 DEF ReadInv, AtRecord
<1> QED BY <1>0, <1>1, <1>2, Observed

\* A read begins.
LEMMA BeginReads ==
  ASSUME NEW S, Inv(S), ReadInv, NEW k \in ReadKeys, ReadBegin(k), UNCHANGED wvars
  PROVE  ReadInv'
<1>0. Typed /\ k \in Keys /\ Hash[k] \in Nat
  BY ArenaAssumption DEF Inv
<1>1. Published(k) \in SUBSET Nat
  <2>1. \A s \in Slot : Entry(s).ver \in Nat
    BY <1>0, SlotTyped DEF Hdrs
  <2> QED BY <2>1 DEF Published, Entry
<1>2. Home(Hash[k]) \in Slot /\ Home(Hash[k]) \in Nat
  <2>1. Slots \in Nat \ {0} /\ Hash[k] \in Int
    BY <1>0, Constants
  <2>2. Hash[k] % Slots \in 0 .. Slots - 1
    BY <2>1, Laps
  <2> QED BY <2>1, <2>2 DEF Home, Slot
<1>3. r' = [IdleReader EXCEPT !.pc = "probe", !.key = k, !.i = Home(Hash[k]),
                              !.now = aged, !.ok = Published(k), !.quiet = (w.pc = "idle")]
  BY DEF ReadBegin
<1>4. aged \in SUBSET Nat
  BY <1>0 DEF Typed
<1>5. /\ r' \in Readers /\ r'.pc = "probe" /\ r'.key = k /\ r'.i = Home(Hash[k])
      /\ r'.ok = Published(k) /\ r'.copy = IdleReader.copy /\ r'.hit = IdleReader.hit
  <2>1. PICK h \in Nat : h = Home(Hash[k])
    BY <1>2
  <2>2. PICK g \in SUBSET Nat : g = Published(k)
    BY <1>1
  <2>3. PICK q \in BOOLEAN : q = (w.pc = "idle")
    OBVIOUS
  <2>4. IdleReader \in Readers
    BY IdleReaderTyped
  <2>5. r' = [IdleReader EXCEPT !.pc = "probe", !.key = k, !.i = h,
                                !.now = aged, !.ok = g, !.quiet = q]
    BY <1>3, <2>1, <2>2, <2>3
  <2> QED BY <1>0, <1>4, <2>1, <2>2, <2>4, <2>5 DEF Readers, ReadPcs
<1>6. IdleReader.copy = <<>> /\ IdleReader.hit = FALSE
  BY DEF IdleReader
<1>7. ASSUME NEW s \in Slot, idx[s].hash # Empty, Entry(s).key = k
      PROVE  Entry(s).ver \in Published(k)
  <2>1. idx[s].hash = Hash[k]
    BY <1>7, HeldSlot
  <2> QED BY <1>7, <2>1 DEF Published, Entry
<1>8. \A s \in Slot : idx'[s].hash # Empty /\ Entry(s)'.key = r'.key => Entry(s)'.ver \in r'.ok
  BY <1>5, <1>7, LogStill
<1> QED
  BY <1>0, <1>2, <1>5, <1>6, <1>8 DEF ReadInv, Reading, AtRecord, HitCurrent

\* The loads of a read, the last apart: what changes is where the reader is.
LEMMA LoadKeeps ==
  ASSUME NEW S, Inv(S), ReadInv, ReadWord, UNCHANGED wvars
  PROVE  ReadInv'
<1>0. /\ Typed /\ r \in Readers /\ tail \in Nat /\ hd \in [Units -> Hdrs]
      /\ body \in [Units -> Nat \X Nat]
  BY DEF Inv, Typed, ReadInv
<1>1. /\ Reading /\ r.key \in Keys /\ r.key # NoKey /\ r.hit = FALSE
      /\ \A s \in Slot : idx[s].hash # Empty /\ Entry(s).key = r.key => Entry(s).ver \in r.ok
  <2>1. Reading
    BY DEF ReadWord, Probe, LoadOff, LoadSeq, LoadFields, CopyWord, LoadSeqAgain, Reading
  <2> QED BY <1>0, <2>1, ArenaAssumption DEF ReadInv, Readers
<1>2. UNCHANGED <<tail, idx, hd, body>>
  BY DEF wvars
<1>3. r.pos \in Nat /\ r.i \in Nat /\ r.probes \in Nat /\ r.n \in Nat /\ r.copy \in Seq(Nat \X Nat)
  BY <1>0 DEF Readers
\* What is left to show of each load.
<1>4. ASSUME r' \in Readers, r'.key = r.key, r'.hit = r.hit, r'.ok = r.ok,
             r'.pc \in {"probe", "off"} => r'.i \in Slot,
             r'.pc \in {"probe", "off", "seq", "fields"} => r'.copy = <<>>,
             r'.pc = "off" => r'.i = r.i /\ Right(idx[r.i].off),
             r'.pc \in AtRecord => Right(r'.pos),
             r'.pc \in {"copy", "seq2", "tail"} =>
               /\ r'.n <= Remain(r'.pos)
               /\ tail <= r'.pos =>
                    /\ HdrAt(r'.pos).key = r.key /\ HdrAt(r'.pos).size = r'.n
                    /\ \A x \in 1 .. Len(r'.copy) :
                         r'.copy[x] = <<HdrAt(r'.pos).ver, Hdr + x - 1>>,
             r'.pc = "copy" => Hdr + Len(r'.copy) < r'.n,
             r'.pc \in {"seq2", "tail"} => Hdr + Len(r'.copy) = r'.n
      PROVE  ReadInv'
  <2>1. \A p : Right(p)' <=> (tail <= p => Held(p) /\ (HdrAt(p).key = r.key => HdrAt(p).ver \in r.ok))
    BY <1>4, LogStill DEF Right
  <2>2. r'.pc = "off" => Right(idx[r.i].off)'
    <3>1. PICK p : p = idx[r.i].off
      OBVIOUS
    <3>2. r'.pc = "off" => Right(p)'
      BY <1>4, <2>1, <3>1 DEF Right
    <3>3. r'.pc = "off" => (idx[r.i].off)' = p
      BY <1>2, <1>4, <3>1
    <3> QED BY <3>2, <3>3 DEF Right, Held, Rec, Sits, HdrAt
  <2>3. r'.pc \in AtRecord => Right(r.pos)'
    <3>1. PICK p : p = r'.pos
      OBVIOUS
    <3>2. r'.pc \in AtRecord => Right(p)'
      BY <1>4, <2>1, <3>1 DEF Right
    <3> QED BY <3>1, <3>2 DEF Right, Held, Rec, Sits, HdrAt
  <2>4. r'.pc \in {"copy", "seq2", "tail"} => Copied' /\ r'.n <= Remain(r.pos)'
    <3>1. HdrAt(r.pos)' = HdrAt(r'.pos) /\ Remain(r.pos)' = Remain(r'.pos)
      BY <1>2 DEF HdrAt, Remain, Phys
    <3> QED BY <1>2, <1>4, <3>1 DEF Copied
  <2>5. \A s \in Slot : idx'[s].hash # Empty /\ Entry(s)'.key = r'.key => Entry(s)'.ver \in r'.ok
    BY <1>1, <1>4, LogStill
  <2>6. HitCurrent'
    BY <1>1, <1>4 DEF HitCurrent
  <2> QED BY <1>1, <1>4, <2>2, <2>3, <2>4, <2>5, <2>6 DEF ReadInv
<1>5. CASE Miss
  <2>1. r' \in Readers /\ r'.pc = "done" /\ r'.key = r.key /\ r'.hit = r.hit /\ r'.ok = r.ok
    BY <1>0, <1>5 DEF Miss, Readers, ReadPcs
  <2> QED BY <1>4, <2>1 DEF AtRecord
<1>6. CASE Retry /\ r.pc \in AtRecord
  <2>1. /\ r' \in Readers /\ r'.pc = "seq" /\ r'.key = r.key /\ r'.hit = r.hit /\ r'.ok = r.ok
        /\ r'.pos = r.pos /\ r'.copy = <<>>
    <3>3. <<>> \in Seq(Nat \X Nat)
      BY IdleReaderTyped DEF IdleReader, Readers
    <3>1. PICK c \in Seq(Nat \X Nat) : c = <<>>
      BY <3>3
    <3>2. r' = [r EXCEPT !.pc = "seq", !.retry = TRUE, !.copy = c]
      BY <1>6, <3>1 DEF Retry
    <3> QED BY <1>0, <3>1, <3>2 DEF Readers, ReadPcs
  <2>2. Right(r.pos)
    BY <1>6 DEF ReadInv
  <2> QED BY <1>4, <2>1, <2>2 DEF AtRecord
<1>7. CASE Probe
  <2>1. r.pc = "probe" /\ r.i \in Slot /\ r.copy = <<>>
    BY <1>7 DEF Probe, ReadInv
  <2>2. CASE idx[r.i].hash = Hash[r.key] /\ r' = [r EXCEPT !.pc = "off"]
    <3>1. /\ r' \in Readers /\ r'.pc = "off" /\ r'.key = r.key /\ r'.hit = r.hit /\ r'.ok = r.ok
          /\ r'.i = r.i /\ r'.copy = <<>>
      BY <1>0, <2>1, <2>2 DEF Readers, ReadPcs
    <3>2. PICK s \in Slot : s = r.i
      BY <2>1
    <3>3. idx[s].hash # Empty
      BY <1>1, <2>2, <3>2, ArenaAssumption DEF Empty
    <3>4. Held(idx[s].off)
      BY <3>3, HeldSlot
    <3>5. Right(idx[r.i].off)
      BY <1>1, <3>2, <3>3, <3>4 DEF Right, Entry
    <3> QED BY <1>4, <2>1, <3>1, <3>5 DEF AtRecord
  <2>3. CASE r' = [r EXCEPT !.i = At(r.i, 1), !.probes = @ + 1,
                            !.pc = IF r.probes + 1 < Slots THEN "probe" ELSE "done"]
    <3>6. At(r.i, 1) \in Slot
      BY <1>3, AtType, Constants
    <3>1. At(r.i, 1) \in Slot /\ At(r.i, 1) \in Nat
      BY <3>6, Constants DEF Slot
    <3>2. PICK a \in Nat : a = At(r.i, 1)
      BY <3>1
    <3>5. PICK q \in {"probe", "done"} : q = IF r.probes + 1 < Slots THEN "probe" ELSE "done"
      OBVIOUS
    <3>3. r' = [r EXCEPT !.i = a, !.probes = r.probes + 1, !.pc = q] /\ r.probes + 1 \in Nat
      BY <1>3, <2>3, <3>2, <3>5
    <3>4. /\ r' \in Readers /\ r'.pc \in {"probe", "done"} /\ r'.i = a /\ r'.key = r.key
          /\ r'.hit = r.hit /\ r'.ok = r.ok /\ r'.copy = <<>>
      BY <1>0, <1>3, <2>1, <3>3 DEF Readers, ReadPcs
    <3> QED BY <1>4, <3>1, <3>2, <3>4 DEF AtRecord
  <2> QED BY <1>5, <1>7, <2>2, <2>3 DEF Probe
<1>8. CASE LoadOff
  <2>1. r.pc = "off" /\ r.i \in Slot /\ r.copy = <<>> /\ Right(idx[r.i].off)
    BY <1>8 DEF LoadOff, ReadInv
  <2>2. PICK p \in Nat : p = idx[r.i].off
    BY <1>0, <2>1, SlotTyped
  <2>3. r' = [r EXCEPT !.pc = "seq", !.pos = p]
    BY <1>8, <2>2 DEF LoadOff
  <2>4. /\ r' \in Readers /\ r'.pc = "seq" /\ r'.key = r.key /\ r'.hit = r.hit /\ r'.ok = r.ok
        /\ r'.pos = p /\ r'.copy = <<>>
    BY <1>0, <2>1, <2>3 DEF Readers, ReadPcs
  <2> QED BY <1>4, <2>1, <2>2, <2>4 DEF AtRecord
<1>9. ASSUME NEW s \in SeqsAt(Phys(r.pos)) PROVE s \in Int
  <2>1. Phys(r.pos) \in Units
    BY <1>3, PhysType
  <2>2. hd[Phys(r.pos)].seq \in Seqs \cup {-1}
    BY <1>0, <2>1 DEF Hdrs
  <2> QED BY <2>2, <1>9 DEF SeqsAt, Seqs
<1>10. CASE LoadSeq
  <2>1. r.pc = "seq" /\ r.copy = <<>> /\ Right(r.pos)
    BY <1>10 DEF LoadSeq, ReadInv, AtRecord
  <2>2. ASSUME NEW s \in SeqsAt(Phys(r.pos)),
               r' = IF s % 2 = 1 THEN [r EXCEPT !.retry = TRUE]
                    ELSE [r EXCEPT !.pc = "fields", !.seq = s]
        PROVE  ReadInv'
    <3>1. s \in Int
      BY <1>9
    <3>2. /\ r' \in Readers /\ r'.pc \in {"seq", "fields"} /\ r'.key = r.key /\ r'.hit = r.hit
          /\ r'.ok = r.ok /\ r'.pos = r.pos /\ r'.copy = <<>>
      <4>1. CASE s % 2 = 1
        BY <1>0, <2>1, <2>2, <3>1, <4>1 DEF Readers, ReadPcs
      <4>2. CASE s % 2 # 1
        BY <1>0, <2>1, <2>2, <3>1, <4>2 DEF Readers, ReadPcs
      <4> QED BY <4>1, <4>2
    <3> QED BY <1>4, <2>1, <3>2 DEF AtRecord
  <2> QED BY <1>5, <1>10, <2>2 DEF LoadSeq
<1>11. CASE LoadFields
  <2>1. r.pc = "fields" /\ r.copy = <<>> /\ Right(r.pos) /\ r.pc \in AtRecord
    BY <1>11 DEF LoadFields, ReadInv, AtRecord
  <2>2. PICK u \in Units : u = Phys(r.pos) /\ hd[u] = HdrAt(r.pos) /\ hd[u] \in Hdrs
                           /\ Remain(r.pos) = Data - u
    BY <1>0, <1>3, PhysType DEF HdrAt, Remain
  <2>3. ASSUME NEW n \in Nat, NEW eh \in BOOLEAN, n > Hdr, n <= Data - u,
               tail <= r.pos => hd[u].key = r.key /\ hd[u].size = n,
               r' = [r EXCEPT !.pc = "copy", !.n = n, !.eh = eh]
        PROVE  ReadInv'
    <3>1. /\ r' \in Readers /\ r'.pc = "copy" /\ r'.key = r.key /\ r'.hit = r.hit
          /\ r'.ok = r.ok /\ r'.pos = r.pos /\ r'.copy = <<>> /\ r'.n = n
      BY <1>0, <2>1, <2>3 DEF Readers, ReadPcs
    <3>2. Len(r'.copy) = 0
      BY <3>1
    <3> QED BY <1>4, <2>1, <2>2, <2>3, <3>1, <3>2, Constants DEF AtRecord
  <2>4. CASE Stable(u)
    <3>1. \/ Retry \/ Miss
          \/ /\ hd[u].size <= Data - u /\ hd[u].key = r.key
             /\ r' = [r EXCEPT !.pc = "copy", !.n = hd[u].size, !.eh = (hd[u].hash = Hash[r.key])]
      <4>1. hd[u].size \in Nat /\ Data - u \in Int
        BY <2>2, Constants DEF Hdrs, Units
      <4> QED BY <1>11, <2>2, <2>4, <4>1 DEF LoadFields
    <3>2. hd[u].size \in Nat /\ (hd[u].key = r.key => hd[u].size > Hdr)
      BY <1>1, <2>2 DEF Hdrs
    <3> QED BY <1>5, <1>6, <2>1, <2>3, <3>1, <3>2
  <2>5. CASE ~Stable(u)
    <3>1. PICK k \in {r.key, NoKey}, n \in Sizes, eh \in BOOLEAN :
            IF n > Data - u THEN Retry
            ELSE IF k # r.key THEN Miss
            ELSE r' = [r EXCEPT !.pc = "copy", !.n = n, !.eh = eh]
      BY <1>11, <2>2, <2>5 DEF LoadFields
    <3>2. n \in Nat /\ n > Hdr /\ Data - u \in Int
      BY <2>2, Constants DEF Units
    <3>4. \/ Retry \/ Miss
          \/ n <= Data - u /\ r' = [r EXCEPT !.pc = "copy", !.n = n, !.eh = eh]
      BY <3>1, <3>2
    <3>3. ~(tail <= r.pos)
      <4>1. tail <= r.pos => hd[u].seq \in {0, 2}
        BY <2>1, <2>2 DEF Right, Held, Rec, Sits
      <4> QED BY <2>5, <4>1 DEF Stable
    <3> QED BY <1>5, <1>6, <2>1, <2>3, <3>2, <3>3, <3>4
  <2> QED BY <2>4, <2>5
<1>12. CASE CopyWord
  <2>1. /\ r.pc = "copy" /\ Right(r.pos) /\ Copied /\ r.n <= Remain(r.pos)
        /\ Hdr + Len(r.copy) < r.n
    BY <1>12 DEF CopyWord, ReadInv, AtRecord
  <2>2. PICK n \in Nat : n = Len(r.copy)
    BY <1>3
  <2>3. PICK v : v = body[Phys(r.pos) + Hdr + n]
    OBVIOUS
  <2>4. Phys(r.pos) + Hdr + n \in Units /\ Phys(r.pos) \in Nat /\ Hdr \in Nat
    <3>1. PICK u \in Nat : u = Phys(r.pos) /\ Remain(r.pos) = Data - u
      BY <1>3, PhysType
    <3>2. Hdr + n < Data - u /\ Hdr \in Nat /\ Data \in Nat
      BY <1>3, <2>1, <2>2, <3>1, Constants
    <3>3. u + Hdr + n \in 0 .. Data - 1
      BY <3>1, <3>2
    <3> QED BY <3>1, <3>2, <3>3 DEF Units
  <2>5. v \in Nat \X Nat
    BY <1>0, <2>3, <2>4
  <2>6. PICK c : c = Append(r.copy, v)
    OBVIOUS
  <2>7. /\ c \in Seq(Nat \X Nat) /\ Len(c) = n + 1 /\ c[n + 1] = v
        /\ \A x \in 1 .. n : c[x] = r.copy[x]
    BY <1>3, <2>2, <2>5, <2>6
  <2>8. r' = [r EXCEPT !.copy = c, !.pc = IF Hdr + Len(c) = r.n THEN "seq2" ELSE "copy"]
    BY <1>12, <2>2, <2>3, <2>6 DEF CopyWord
  <2>9. /\ r' \in Readers /\ r'.key = r.key /\ r'.hit = r.hit /\ r'.ok = r.ok /\ r'.pos = r.pos
        /\ r'.copy = c /\ r'.n = r.n
        /\ r'.pc = IF Hdr + Len(c) = r.n THEN "seq2" ELSE "copy"
    BY <1>0, <2>7, <2>8 DEF Readers, ReadPcs
  <2>10. Hdr + Len(c) <= r.n
    BY <1>3, <2>1, <2>2, <2>7, Constants
  <2>11. ASSUME tail <= r.pos, NEW x \in 1 .. Len(c)
         PROVE  c[x] = <<HdrAt(r.pos).ver, Hdr + x - 1>>
    <3>1. CASE x <= n
      <4>1. x \in 1 .. n
        BY <2>7, <3>1
      <4>2. r.copy[x] = <<HdrAt(r.pos).ver, Hdr + x - 1>>
        BY <2>1, <2>2, <2>11, <4>1 DEF Copied
      <4> QED BY <2>7, <4>1, <4>2
    <3>2. CASE x = n + 1
      <4>1. /\ HdrAt(r.pos).size = r.n
            /\ Rec(hd, body, r.pos, HdrAt(r.pos).hash)
        BY <2>1, <2>11 DEF Copied, Right, Held
      <4>2. PICK y \in Int : y = Hdr + n
        BY <2>2, Constants
      <4>3. y \in Hdr .. HdrAt(r.pos).size - 1
        BY <1>3, <2>1, <2>2, <4>1, <4>2, Constants
      <4>4. body[Phys(r.pos) + y] = <<HdrAt(r.pos).ver, y>>
        BY <4>1, <4>3 DEF Rec, HdrAt
      <4>5. Phys(r.pos) + y = Phys(r.pos) + Hdr + n /\ y = Hdr + x - 1
        BY <2>4, <3>2, <4>2
      <4> QED BY <2>3, <2>7, <3>2, <4>4, <4>5
    <3> QED BY <2>7, <3>1, <3>2
  <2>12. tail <= r.pos => HdrAt(r.pos).key = r.key /\ HdrAt(r.pos).size = r.n
    BY <2>1 DEF Copied
  <2>13. /\ r'.pc \in {"copy", "seq2"}
         /\ r'.pc = "copy" => Hdr + Len(r'.copy) < r'.n
         /\ r'.pc = "seq2" => Hdr + Len(r'.copy) = r'.n
    BY <1>3, <2>7, <2>9, <2>10, Constants
  <2> QED BY <1>4, <2>1, <2>9, <2>11, <2>12, <2>13 DEF AtRecord
<1>13. CASE LoadSeqAgain
  <2>1. /\ r.pc = "seq2" /\ Right(r.pos) /\ Copied /\ r.n <= Remain(r.pos)
        /\ Hdr + Len(r.copy) = r.n /\ r.pc \in AtRecord
    BY <1>13 DEF LoadSeqAgain, ReadInv, AtRecord
  <2>2. CASE r' = [r EXCEPT !.pc = "tail"]
    <3>1. /\ r' \in Readers /\ r'.pc = "tail" /\ r'.key = r.key /\ r'.hit = r.hit
          /\ r'.ok = r.ok /\ r'.pos = r.pos /\ r'.copy = r.copy /\ r'.n = r.n
      BY <1>0, <2>2 DEF Readers, ReadPcs
    <3> QED BY <1>4, <2>1, <3>1 DEF AtRecord, Copied
  <2> QED BY <1>6, <1>13, <2>1, <2>2 DEF LoadSeqAgain
<1> QED BY <1>7, <1>8, <1>10, <1>11, <1>12, <1>13 DEF ReadWord

\* The published tail decides: what it has not passed may be returned.
LEMMA CheckKeeps ==
  ASSUME NEW S, Inv(S), ReadInv, CheckTail, UNCHANGED wvars
  PROVE  ReadInv'
<1>1. /\ r \in Readers /\ r.pc = "tail" /\ Right(r.pos) /\ Copied
      /\ Hdr + Len(r.copy) = r.n
  BY DEF CheckTail, ReadInv, AtRecord
<1>2. PICK hit \in BOOLEAN : hit = (tail <= r.pos /\ r.copy[1][1] \notin r.now)
  OBVIOUS
<1>3. r' = [r EXCEPT !.pc = "done", !.hit = hit]
  BY <1>2 DEF CheckTail
<1>4. /\ r' \in Readers /\ r'.pc = "done" /\ r'.hit = hit /\ r'.ok = r.ok /\ r'.n = r.n
      /\ r'.copy = r.copy
  BY <1>1, <1>3 DEF Readers, ReadPcs
<1>5. HitCurrent'
  <2> SUFFICES ASSUME hit
               PROVE  \E v \in r.ok : \A x \in 1 .. r.n - Hdr : r.copy[x] = <<v, Hdr + x - 1>>
    BY <1>4 DEF HitCurrent
  <2>1. HdrAt(r.pos).ver \in r.ok
    BY <1>1, <1>2 DEF Right, Copied
  <2>2. r.n - Hdr = Len(r.copy)
    BY <1>1, Constants DEF Readers
  <2> QED BY <1>1, <1>2, <2>1, <2>2 DEF Copied
<1> QED BY <1>4, <1>5 DEF ReadInv, Reading, AtRecord

LEMMA ReadNext ==
  ASSUME Clears = {}
  PROVE  IInv /\ ReadInv /\ [Next]_vars => ReadInv'
<1> SUFFICES ASSUME IInv, ReadInv, [Next]_vars PROVE ReadInv'
  OBVIOUS
<1>1. PICK S : Inv(S)
  BY DEF IInv
<1>2. CASE WriterStep /\ Observe
  <2>1. ~Clear
    BY DEF Clear
  <2> QED BY <1>1, <1>2, <2>1, WriterUnderRead
<1>3. CASE \E v \in 1 .. nops : Age(v) /\ Observe
  <2>1. UNCHANGED wvars /\ Observe
    BY <1>3 DEF Age
  <2> QED BY <1>1, <2>1, AgeUnderRead
<1>4. ASSUME NEW k \in ReadKeys, ReadBegin(k), UNCHANGED <<wvars, hint, aged>>
      PROVE  ReadInv'
  BY <1>1, <1>4, BeginReads
<1>5. CASE ReadWord /\ UNCHANGED <<wvars, hint, aged>>
  BY <1>1, <1>5, LoadKeeps
<1>6. CASE CheckTail /\ UNCHANGED <<wvars, aged>>
  BY <1>1, <1>6, CheckKeeps
<1>7. CASE UNCHANGED vars
  <2>1. UNCHANGED <<wvars, r>>
    BY <1>7 DEF vars
  <2>2. /\ tail' = tail /\ idx' = idx /\ hd' = hd /\ body' = body /\ head' = head /\ w' = w
        /\ r' = r
    BY <2>1 DEF wvars
  <2> QED BY <2>2 DEF ReadInv, Reading, Right, Copied, Held, Rec, Sits, HdrAt, Entry,
                      Phys, Remain, AtRecord, HitCurrent, Top, Taken, Stage
<1> QED BY <1>2, <1>3, <1>4, <1>5, <1>6, <1>7 DEF Next

\* A hit of a worker is one whole value, and one the index held for its key at some
\* moment of the read, whatever the writer does under it short of a clearAll, which
\* empties the index before it publishes the tail.
THEOREM HitsAreCurrent == Clears = {} => (Spec => []HitCurrent)
<1> SUFFICES ASSUME Clears = {} PROVE Spec => []HitCurrent
  OBVIOUS
<1>1. Init => ReadInv
  BY IdleReaderTyped DEF Init, ReadInv, Reading, AtRecord, HitCurrent
<1>2. Init => IInv
  BY InitInv DEF IInv
<1>3. ReadInv => HitCurrent
  BY DEF ReadInv
<1> QED BY <1>1, <1>2, <1>3, NextKeeps, ReadNext, PTL DEF Spec

-----------------------------------------------------------------------------
(* Sums over a finite set, as MapThenSumSet folds them.                    *)

Pick(s) == CHOOSE x \in s : TRUE
SumUpTo(f, g, s) == IF s = {} THEN 0 ELSE f[Pick(s)] + g[s \ {Pick(s)}]
FoldOf(S, f, g) == g = [s \in SUBSET S |-> SumUpTo(f, g, s)]

LEMMA Picked ==
  ASSUME NEW S, IsFiniteSet(S), NEW s \in SUBSET S, s # {}
  PROVE  /\ Pick(s) \in s /\ s \ {Pick(s)} \in SUBSET S
         /\ Cardinality(s) \in Nat /\ Cardinality(s) > 0
         /\ Cardinality(s \ {Pick(s)}) = Cardinality(s) - 1
<1>1. IsFiniteSet(s)
  BY FS_Subset
<1>2. Cardinality(s) \in Nat /\ Cardinality(s) # 0
  BY <1>1, FS_CardinalityType, FS_EmptySet
<1>3. Pick(s) \in s
  BY DEF Pick
<1>4. Cardinality(s \ {Pick(s)}) = Cardinality(s) - 1
  BY <1>1, <1>3, FS_RemoveElement
<1> QED BY <1>2, <1>3, <1>4

\* The fold has a solution.
LEMMA FoldExists ==
  ASSUME NEW S, IsFiniteSet(S), NEW f
  PROVE  \E g : FoldOf(S, f, g)
<1> DEFINE Good(n) == \E g : \A s \in SUBSET S : Cardinality(s) < n => g[s] = SumUpTo(f, g, s)
           Bad == {n \in Nat : ~Good(n)}
<1>1. Good(0)
  <2> SUFFICES ASSUME NEW s \in SUBSET S, Cardinality(s) < 0 PROVE FALSE
    OBVIOUS
  <2>1. IsFiniteSet(s)
    BY FS_Subset
  <2> QED BY <2>1, FS_CardinalityType
<1>2. ASSUME NEW n \in Nat, Good(n) PROVE Good(n + 1)
  <2>1. PICK g : \A s \in SUBSET S : Cardinality(s) < n => g[s] = SumUpTo(f, g, s)
    BY <1>2
  <2>2. PICK h : h = [s \in SUBSET S |-> SumUpTo(f, g, s)]
    OBVIOUS
  <2>3. ASSUME NEW s \in SUBSET S, Cardinality(s) < n + 1
        PROVE  h[s] = SumUpTo(f, h, s)
    <3>1. h[s] = SumUpTo(f, g, s)
      BY <2>2
    <3>2. CASE s = {}
      BY <3>1, <3>2 DEF SumUpTo
    <3>3. CASE s # {}
      <4>1. s \ {Pick(s)} \in SUBSET S /\ Cardinality(s \ {Pick(s)}) < n
        BY <2>3, <3>3, Picked
      <4>2. h[s \ {Pick(s)}] = g[s \ {Pick(s)}]
        BY <2>1, <2>2, <4>1
      <4> QED BY <3>1, <3>3, <4>2 DEF SumUpTo
    <3> QED BY <3>2, <3>3
  <2> QED BY <2>3
<1>3. \A n \in Nat : Good(n)
  <2> SUFFICES ASSUME Bad # {} PROVE FALSE
    OBVIOUS
  <2>1. PICK m \in Bad : \A n \in Bad : m <= n
    BY Least
  <2>2. m \in Nat /\ m # 0 /\ ~Good(m)
    BY <1>1, <2>1
  <2>3. m - 1 \in Nat /\ m - 1 < m
    BY <2>2
  <2>4. Good(m - 1)
    BY <2>1, <2>3
  <2>5. Good((m - 1) + 1)
    BY <1>2, <2>3, <2>4
  <2>6. (m - 1) + 1 = m
    BY <2>2
  <2> QED BY <2>2, <2>5, <2>6
<1> HIDE DEF Good
<1>4. Cardinality(S) + 1 \in Nat
  BY FS_CardinalityType
<1>5. Good(Cardinality(S) + 1)
  BY <1>3, <1>4
<1>6. PICK g : \A s \in SUBSET S : Cardinality(s) < Cardinality(S) + 1 => g[s] = SumUpTo(f, g, s)
  BY <1>5 DEF Good
<1>7. PICK h : h = [s \in SUBSET S |-> g[s]]
  OBVIOUS
<1>8. ASSUME NEW s \in SUBSET S PROVE h[s] = SumUpTo(f, h, s)
  <2>1. Cardinality(s) < Cardinality(S) + 1
    <3>1. IsFiniteSet(s) /\ Cardinality(s) <= Cardinality(S)
      BY FS_Subset
    <3>2. Cardinality(s) \in Nat /\ Cardinality(S) \in Nat
      BY <3>1, FS_CardinalityType
    <3> QED BY <3>1, <3>2
  <2>2. h[s] = SumUpTo(f, g, s)
    BY <1>6, <1>7, <2>1
  <2>3. s # {} => h[s \ {Pick(s)}] = g[s \ {Pick(s)}]
    BY <1>7
  <2> QED BY <2>2, <2>3 DEF SumUpTo
<1>9. h = [s \in SUBSET S |-> SumUpTo(f, h, s)]
  BY <1>7, <1>8
<1> QED BY <1>9 DEF FoldOf

\* Whatever the fold picks first, any element may be taken out first.
LEMMA FoldTakes ==
  ASSUME NEW S, IsFiniteSet(S), NEW f, \A x \in S : f[x] \in Nat, NEW g, FoldOf(S, f, g)
  PROVE  \A s \in SUBSET S : g[s] \in Nat /\ \A x \in s : g[s] = f[x] + g[s \ {x}]
<1> DEFINE Good(n) == \A s \in SUBSET S :
                        Cardinality(s) < n => g[s] \in Nat /\ \A x \in s : g[s] = f[x] + g[s \ {x}]
           Bad == {n \in Nat : ~Good(n)}
<1>0. \A s \in SUBSET S : g[s] = SumUpTo(f, g, s)
  BY DEF FoldOf
<1>1. Good(0)
  <2> SUFFICES ASSUME NEW s \in SUBSET S, Cardinality(s) < 0 PROVE FALSE
    OBVIOUS
  <2>1. IsFiniteSet(s)
    BY FS_Subset
  <2> QED BY <2>1, FS_CardinalityType
<1>2. ASSUME NEW n \in Nat, Good(n) PROVE Good(n + 1)
  <2> SUFFICES ASSUME NEW s \in SUBSET S, Cardinality(s) < n + 1
               PROVE  g[s] \in Nat /\ \A x \in s : g[s] = f[x] + g[s \ {x}]
    OBVIOUS
  <2>1. CASE s = {}
    <3>1. g[s] = SumUpTo(f, g, s)
      BY <1>0
    <3>2. g[s] = 0
      BY <2>1, <3>1 DEF SumUpTo
    <3> QED BY <2>1, <3>2
  <2>2. CASE s # {}
    <3>1. PICK c : c = Pick(s)
      OBVIOUS
    <3>2. /\ c \in s /\ s \ {c} \in SUBSET S /\ Cardinality(s) \in Nat
          /\ Cardinality(s \ {c}) < n
      BY <2>2, <3>1, Picked
    <3>3. g[s] = f[c] + g[s \ {c}]
      BY <1>0, <2>2, <3>1 DEF SumUpTo
    <3>4. g[s \ {c}] \in Nat /\ \A x \in s \ {c} : g[s \ {c}] = f[x] + g[(s \ {c}) \ {x}]
      BY <1>2, <3>2
    <3>5. ASSUME NEW x \in s, x # c PROVE g[s] = f[x] + g[s \ {x}]
      <4>1. s \ {x} \in SUBSET S /\ IsFiniteSet(s) /\ c \in s \ {x}
        BY <3>2, <3>5, FS_Subset
      <4>2. Cardinality(s \ {x}) < n
        BY <3>2, <3>5, <4>1, FS_RemoveElement
      <4>3. g[s \ {x}] = f[c] + g[(s \ {x}) \ {c}]
        BY <1>2, <4>1, <4>2
      <4>4. (s \ {x}) \ {c} = (s \ {c}) \ {x}
        OBVIOUS
      <4>5. PICK t : t = (s \ {c}) \ {x}
        OBVIOUS
      <4>6. t \in SUBSET S /\ Cardinality(t) < n
        <5>1. t \in SUBSET (s \ {x}) /\ IsFiniteSet(s \ {x})
          BY <4>1, <4>5, FS_Subset
        <5>2. /\ Cardinality(t) <= Cardinality(s \ {x}) /\ IsFiniteSet(t)
              /\ Cardinality(t) \in Nat /\ Cardinality(s \ {x}) \in Nat
          BY <5>1, FS_Subset, FS_CardinalityType
        <5>3. t \in SUBSET S
          BY <4>1, <5>1
        <5> QED BY <4>2, <5>2, <5>3
      <4>7. g[t] \in Nat
        BY <1>2, <4>6
      <4>8. g[s \ {c}] = f[x] + g[t] /\ g[s \ {x}] = f[c] + g[t]
        BY <3>4, <3>5, <4>3, <4>4, <4>5
      <4> QED BY <3>2, <3>3, <4>7, <4>8
    <3>6. g[s] \in Nat
      BY <3>2, <3>3, <3>4
    <3> QED BY <3>3, <3>5, <3>6
  <2> QED BY <2>1, <2>2
<1>3. \A n \in Nat : Good(n)
  <2> SUFFICES ASSUME Bad # {} PROVE FALSE
    OBVIOUS
  <2>1. PICK m \in Bad : \A n \in Bad : m <= n
    BY Least
  <2>2. m \in Nat /\ m # 0 /\ ~Good(m)
    BY <1>1, <2>1
  <2>3. m - 1 \in Nat /\ m - 1 < m
    BY <2>2
  <2>4. Good(m - 1)
    BY <2>1, <2>3
  <2>5. Good((m - 1) + 1)
    BY <1>2, <2>3, <2>4
  <2>6. (m - 1) + 1 = m
    BY <2>2
  <2> QED BY <2>2, <2>5, <2>6
<1> HIDE DEF Good
<1> SUFFICES ASSUME NEW s \in SUBSET S
             PROVE  g[s] \in Nat /\ \A x \in s : g[s] = f[x] + g[s \ {x}]
  OBVIOUS
<1>4. Cardinality(s) \in Nat
  BY FS_Subset, FS_CardinalityType
<1>5. Cardinality(s) + 1 \in Nat /\ Cardinality(s) < Cardinality(s) + 1
  BY <1>4
<1>6. Good(Cardinality(s) + 1)
  BY <1>3, <1>5
<1> QED BY <1>5, <1>6 DEF Good

\* The fold knows its function on the set only.
LEMMA FoldSame ==
  ASSUME NEW S, IsFiniteSet(S), NEW f, NEW g, FoldOf(S, f, g),
         NEW T, IsFiniteSet(T), NEW e, NEW h, FoldOf(T, e, h),
         NEW A, A \subseteq S, A \subseteq T, \A x \in A : f[x] = e[x]
  PROVE  g[A] = h[A]
<1> DEFINE Good(n) == \A s \in SUBSET A : Cardinality(s) < n => g[s] = h[s]
           Bad == {n \in Nat : ~Good(n)}
<1>0. /\ \A s \in SUBSET A : g[s] = SumUpTo(f, g, s) /\ h[s] = SumUpTo(e, h, s)
      /\ IsFiniteSet(A)
  BY FS_Subset DEF FoldOf
<1>1. Good(0)
  <2> SUFFICES ASSUME NEW s \in SUBSET A, Cardinality(s) < 0 PROVE FALSE
    OBVIOUS
  <2> QED BY <1>0, FS_Subset, FS_CardinalityType
<1>2. ASSUME NEW n \in Nat, Good(n) PROVE Good(n + 1)
  <2> SUFFICES ASSUME NEW s \in SUBSET A, Cardinality(s) < n + 1 PROVE g[s] = h[s]
    OBVIOUS
  <2>0. g[s] = SumUpTo(f, g, s) /\ h[s] = SumUpTo(e, h, s)
    BY <1>0
  <2>1. CASE s = {}
    BY <2>0, <2>1 DEF SumUpTo
  <2>2. CASE s # {}
    <3>1. /\ Pick(s) \in s /\ s \ {Pick(s)} \in SUBSET A /\ Cardinality(s \ {Pick(s)}) < n
      BY <1>0, <2>2, Picked
    <3>2. g[s \ {Pick(s)}] = h[s \ {Pick(s)}] /\ f[Pick(s)] = e[Pick(s)]
      BY <1>2, <3>1
    <3> QED BY <2>0, <2>2, <3>2 DEF SumUpTo
  <2> QED BY <2>1, <2>2
<1>3. \A n \in Nat : Good(n)
  <2> SUFFICES ASSUME Bad # {} PROVE FALSE
    OBVIOUS
  <2>1. PICK m \in Bad : \A n \in Bad : m <= n
    BY Least
  <2>2. m \in Nat /\ m # 0 /\ ~Good(m)
    BY <1>1, <2>1
  <2>3. m - 1 \in Nat /\ m - 1 < m
    BY <2>2
  <2>4. Good(m - 1)
    BY <2>1, <2>3
  <2>5. Good((m - 1) + 1)
    BY <1>2, <2>3, <2>4
  <2>6. (m - 1) + 1 = m
    BY <2>2
  <2> QED BY <2>2, <2>5, <2>6
<1> HIDE DEF Good
<1>4. Cardinality(A) \in Nat
  BY <1>0, FS_CardinalityType
<1>5. Cardinality(A) + 1 \in Nat /\ Cardinality(A) < Cardinality(A) + 1
  BY <1>4
<1>6. Good(Cardinality(A) + 1)
  BY <1>3, <1>5
<1> QED BY <1>5, <1>6 DEF Good

\* The sum of f over S.
Total(S, f) == MapThenSumSet(LAMBDA s : f[s], S)

LEMMA TotalFold ==
  ASSUME NEW S, IsFiniteSet(S), NEW f
  PROVE  \E g : FoldOf(S, f, g) /\ Total(S, f) = g[S]
<1> DEFINE h == CHOOSE g : FoldOf(S, f, g)
<1>1. \E g : FoldOf(S, f, g)
  BY FoldExists
<1>2. FoldOf(S, f, h)
  BY <1>1
<1>3. Total(S, f) = h[S]
  BY DEF Total, MapThenSumSet, MapThenFoldSet, FoldOf, SumUpTo, Pick
<1> QED BY <1>2, <1>3

LEMMA TotalEmpty ==
  ASSUME NEW f
  PROVE  Total({}, f) = 0
<1>1. PICK g : FoldOf({}, f, g) /\ Total({}, f) = g[{}]
  BY TotalFold, FS_EmptySet
<1>2. {} \in SUBSET {}
  OBVIOUS
<1> QED BY <1>1, <1>2 DEF FoldOf, SumUpTo

LEMMA TotalSame ==
  ASSUME NEW S, IsFiniteSet(S), NEW f, NEW e, \A x \in S : f[x] = e[x]
  PROVE  Total(S, f) = Total(S, e)
<1>1. PICK g : FoldOf(S, f, g) /\ Total(S, f) = g[S]
  BY TotalFold
<1>2. PICK h : FoldOf(S, e, h) /\ Total(S, e) = h[S]
  BY TotalFold
<1> QED BY <1>1, <1>2, FoldSame

LEMMA TotalType ==
  ASSUME NEW S, IsFiniteSet(S), NEW f, \A x \in S : f[x] \in Nat
  PROVE  Total(S, f) \in Nat
<1>1. PICK g : FoldOf(S, f, g) /\ Total(S, f) = g[S]
  BY TotalFold
<1> QED BY <1>1, FoldTakes

LEMMA TotalTakes ==
  ASSUME NEW S, IsFiniteSet(S), NEW f, \A x \in S : f[x] \in Nat, NEW x \in S
  PROVE  Total(S, f) = f[x] + Total(S \ {x}, f)
<1>1. PICK g : FoldOf(S, f, g) /\ Total(S, f) = g[S]
  BY TotalFold
<1>2. IsFiniteSet(S \ {x})
  BY FS_Subset
<1>3. PICK h : FoldOf(S \ {x}, f, h) /\ Total(S \ {x}, f) = h[S \ {x}]
  BY <1>2, TotalFold
<1>4. g[S \ {x}] = h[S \ {x}]
  BY <1>1, <1>2, <1>3, FoldSame
<1>5. g[S] = f[x] + g[S \ {x}]
  BY <1>1, FoldTakes
<1> QED BY <1>1, <1>3, <1>4, <1>5

-----------------------------------------------------------------------------
(* The index as a ring of slots.                                           *)

\* t is on the way from k to s.
Arc(k, t, s) == IF k <= s THEN k <= t /\ t <= s ELSE t >= k \/ t <= s

\* A number is the remainder if it is within the lap.
LEMMA LapUnique ==
  ASSUME NEW M \in Nat \ {0}, NEW q \in Int, NEW x \in 0 .. (M - 1), NEW z \in Int,
         z = M * q + x
  PROVE  z % M = x
<1>1. PICK g \in Int : z = M * g + (z % M)
  BY Laps
<1>2. PICK y \in 0 .. (M - 1) : y = z % M
  BY Laps
<1>3. z = M * g + y
  BY <1>1, <1>2
<1>4. CASE g = q
  BY <1>2, <1>3, <1>4
<1>5. CASE g >= q + 1
  <2>1. M * g >= M * (q + 1) /\ M * (q + 1) = M * q + M
    BY <1>5
  <2> QED BY <1>3, <2>1
<1>6. CASE q >= g + 1
  <2>1. M * q >= M * (g + 1) /\ M * (g + 1) = M * g + M
    BY <1>6
  <2> QED BY <1>3, <2>1
<1> QED BY <1>4, <1>5, <1>6

LEMMA HomeType ==
  ASSUME NEW h \in Nat
  PROVE  Home(h) \in Slot /\ Home(h) \in Nat /\ Home(h) < Slots
<1>1. h % Slots \in 0 .. (Slots - 1)
  BY Constants, Laps
<1> QED BY <1>1, Constants DEF Home, Slot

LEMMA HomeOfSlot ==
  ASSUME NEW s \in Slot
  PROVE  Home(s) = s
<1>1. s \in 0 .. (Slots - 1) /\ s \in Int /\ Slots \in Nat \ {0}
  BY Constants DEF Slot
<1>2. s = Slots * 0 + s
  BY <1>1
<1> QED BY <1>1, <1>2, LapUnique DEF Home

\* The probes go round the index once.
LEMMA AtForm ==
  ASSUME NEW h \in Nat, NEW d \in 0 .. Slots
  PROVE  At(h, d) = IF Home(h) + d < Slots THEN Home(h) + d ELSE Home(h) + d - Slots
<1>0. Slots \in Nat \ {0} /\ d \in Nat /\ d <= Slots /\ h \in Int
  BY Constants
<1>1. PICK q \in Int : h = Slots * q + (h % Slots)
  BY <1>0, Laps
<1>2. PICK y : y = Home(h)
  OBVIOUS
<1>3. y \in Nat /\ y < Slots /\ h = Slots * q + y
  BY <1>1, <1>2, HomeType DEF Home
<1>4. PICK z \in Int : z = h + d
  BY <1>0
<1>5. CASE y + d < Slots
  <2>1. y + d \in 0 .. (Slots - 1) /\ z = Slots * q + (y + d)
    BY <1>0, <1>3, <1>4, <1>5
  <2>2. z % Slots = y + d
    BY <1>0, <2>1, LapUnique
  <2> QED BY <1>2, <1>4, <1>5, <2>2 DEF At
<1>6. CASE ~(y + d < Slots)
  <2>1. Slots * (q + 1) = Slots * q + Slots
    BY <1>0
  <2>2. PICK g \in Int, x \in 0 .. (Slots - 1) : g = q + 1 /\ x = y + d - Slots
    BY <1>0, <1>3, <1>6
  <2>3. z = Slots * g + x
    BY <1>0, <1>3, <1>4, <2>1, <2>2
  <2>4. z % Slots = x
    BY <1>0, <2>3, LapUnique
  <2> QED BY <1>2, <1>4, <1>6, <2>2, <2>4 DEF At
<1> QED BY <1>5, <1>6

\* The slots probed up to the d-th are those on the way to it.
LEMMA Probed ==
  ASSUME NEW h \in Nat, NEW d \in Slot, NEW t \in Slot
  PROVE  Arc(Home(h), t, At(h, d)) <=> \E e \in 0 .. d : At(h, e) = t
<1>0. /\ Slots \in Nat /\ d \in Nat /\ d < Slots /\ t \in Nat /\ t < Slots
      /\ Home(h) \in Nat /\ Home(h) < Slots
  BY Constants, HomeType DEF Slot
<1>1. PICK k \in Nat : k = Home(h)
  BY <1>0
<1>2. At(h, d) = IF k + d < Slots THEN k + d ELSE k + d - Slots
  BY <1>0, <1>1, AtForm
<1>3. ASSUME NEW e \in 0 .. d, At(h, e) = t PROVE Arc(k, t, At(h, d))
  <2>1. t = IF k + e < Slots THEN k + e ELSE k + e - Slots
    BY <1>0, <1>1, <1>3, AtForm
  <2> QED BY <1>0, <1>1, <1>2, <2>1 DEF Arc
<1>4. ASSUME Arc(k, t, At(h, d)) PROVE \E e \in 0 .. d : At(h, e) = t
  <2>1. PICK e : e = IF k <= t THEN t - k ELSE t - k + Slots
    OBVIOUS
  <2>2. e \in 0 .. d
    BY <1>0, <1>1, <1>2, <1>4, <2>1 DEF Arc
  <2>3. At(h, e) = IF k + e < Slots THEN k + e ELSE k + e - Slots
    BY <1>0, <1>1, <2>2, AtForm
  <2>4. At(h, e) = t
    BY <1>0, <1>1, <2>1, <2>3
  <2> QED BY <2>2, <2>4
<1> QED BY <1>1, <1>3, <1>4

-----------------------------------------------------------------------------
(* The searches, with an index whose probe paths hold.                     *)

\* The free slot for h is the first on the way from its home.
LEMMA FreeFirst ==
  ASSUME NEW h \in Nat, FindFreeSlot(h) >= 0
  PROVE  \A t \in Slot : Arc(Home(h), t, FindFreeSlot(h)) =>
                           t = FindFreeSlot(h) \/ idx[t].hash # Empty
<1> DEFINE D == {d \in Slot : idx[At(h, d)].hash = Empty}
           c == CHOOSE d \in D : \A e \in D : d <= e
<1>1. D # {}
  BY DEF FindFreeSlot
<1>2. FindFreeSlot(h) = At(h, c)
  BY <1>1 DEF FindFreeSlot
<1>3. D \subseteq Nat
  BY Constants DEF Slot
<1> HIDE DEF D
<1>4. \E d \in D : \A e \in D : d <= e
  BY <1>1, <1>3, Least
<1>5. c \in D /\ \A e \in D : c <= e
  BY <1>4
<1> HIDE DEF c
<1> USE DEF D
<1>6. c \in Slot /\ c \in Nat
  BY <1>3, <1>5
<1> SUFFICES ASSUME NEW t \in Slot, Arc(Home(h), t, At(h, c)), t # At(h, c)
             PROVE  idx[t].hash # Empty
  BY <1>2
<1>7. PICK e \in 0 .. c : At(h, e) = t
  BY <1>6, Probed
<1>8. e \in Slot /\ e < c
  BY <1>6, <1>7, Constants DEF Slot
<1> QED BY <1>5, <1>7, <1>8

\* What is found is an entry of the key.
LEMMA FindsKey ==
  ASSUME NEW k \in Keys, FindSlot(k) >= 0
  PROVE  /\ FindSlot(k) \in Slot /\ idx[FindSlot(k)].hash # Empty
         /\ Entry(FindSlot(k)).key = k
<1> DEFINE h == Hash[k]
           D == {d \in Slot : /\ idx[At(h, d)].hash = h
                              /\ HdrAt(idx[At(h, d)].off).key = k
                              /\ \A e \in 0 .. d : idx[At(h, e)].hash # Empty}
           c == CHOOSE d \in D : \A e \in D : d <= e
<1>1. D \subseteq Nat
  BY Constants DEF Slot
<1>2. D # {}
  BY DEF FindSlot
<1>3. FindSlot(k) = At(h, c)
  BY <1>2 DEF FindSlot
<1> HIDE DEF D
<1>4. c \in D
  BY <1>1, <1>2, LeastChosen
<1> USE DEF D
<1> HIDE DEF c
<1>5. Entry(At(h, c)).key = k
  BY <1>4 DEF Entry
<1> QED BY <1>3, <1>5, SlotFound

\* An entry whose path is occupied and whose key no other entry has is found.
LEMMA Finds ==
  ASSUME NEW S, Inv(S), NEW s \in Slot, idx[s].hash # Empty,
         \A t \in Slot : Arc(Home(idx[s].hash), t, s) => idx[t].hash # Empty,
         \A t \in Slot : idx[t].hash # Empty /\ Entry(t).key = Entry(s).key => t = s
  PROVE  FindSlot(Entry(s).key) = s
<1>0. Entry(s).key \in Keys /\ idx[s].hash = Hash[Entry(s).key]
  BY HeldSlot
<1>1. PICK k \in Keys : k = Entry(s).key
  BY <1>0
<1> DEFINE h == Hash[k]
           D == {d \in Slot : /\ idx[At(h, d)].hash = h
                              /\ HdrAt(idx[At(h, d)].off).key = k
                              /\ \A e \in 0 .. d : idx[At(h, e)].hash # Empty}
           c == CHOOSE d \in D : \A e \in D : d <= e
<1>2. h \in Nat /\ h = idx[s].hash
  BY <1>0, <1>1, Constants
<1>3. PICK d \in Slot : At(h, d) = s
  BY <1>2, AtOnto
<1>4. ASSUME NEW e \in 0 .. d PROVE idx[At(h, e)].hash # Empty
  <2>1. At(h, e) \in Slot
    BY <1>2, AtType, Constants DEF Slot
  <2>2. Arc(Home(h), At(h, e), s)
    BY <1>2, <1>3, <2>1, Probed
  <2> QED BY <1>2, <2>1, <2>2
<1>5. d \in D
  BY <1>1, <1>2, <1>3, <1>4 DEF Entry
<1>6. FindSlot(k) = At(h, c)
  BY <1>5 DEF FindSlot
<1>7. D \subseteq Nat
  BY Constants DEF Slot
<1> HIDE DEF D
<1>8. c \in D
  BY <1>5, <1>7, LeastChosen
<1> USE DEF D
<1> HIDE DEF c
<1>9. At(h, c) \in Slot /\ idx[At(h, c)].hash # Empty /\ Entry(At(h, c)).key = k
  <2>1. c \in Nat /\ h # Empty
    BY <1>7, <1>8, Constants DEF Empty
  <2> QED BY <1>2, <1>8, <2>1, AtType DEF Entry
<1> QED BY <1>1, <1>6, <1>9

\* Between i and the slot e the search for a mover ends at, every entry must stay.
Between(i, s, e) == IF e = i THEN s # i ELSE Arc(i, s, e) /\ s # i /\ s # e

LEMMA MoverSpan ==
  ASSUME NEW i \in Slot
  PROVE  \E e \in Slot :
           /\ \A s \in Slot : Between(i, s, e) => idx[s].hash # Empty /\ MustStay(i, s)
           /\ \/ Mover(i) = i /\ (e = i \/ idx[e].hash = Empty)
              \/ Mover(i) = e /\ e # i /\ idx[e].hash # Empty /\ ~MustStay(i, e)
<1> DEFINE D == {d \in 1 .. Slots : \/ d = Slots
                                    \/ idx[At(i, d)].hash = Empty
                                    \/ ~MustStay(i, At(i, d))}
           c == CHOOSE d \in D : \A e \in D : d <= e
           j == At(i, c)
<1>1. D \subseteq Nat /\ Slots \in D
  BY Constants
<1>2. Mover(i) = IF idx[j].hash = Empty THEN i ELSE j
  BY DEF Mover
<1> HIDE DEF D
<1>3. \E d \in D : \A e \in D : d <= e
  BY <1>1, Least
<1>4. c \in D /\ \A e \in D : c <= e
  BY <1>3
<1> HIDE DEF c
<1> USE DEF D
<1>5. c \in 1 .. Slots /\ c \in Nat /\ i \in Nat /\ i < Slots /\ Slots \in Nat
  BY <1>1, <1>4, Constants DEF Slot
<1>6. j \in Slot
  BY <1>5, AtType
<1>7. \A d \in 0 .. Slots : At(i, d) = IF i + d < Slots THEN i + d ELSE i + d - Slots
  BY <1>5, AtForm, HomeOfSlot
<1>8. ASSUME NEW s \in Slot, Between(i, s, j)
      PROVE  idx[s].hash # Empty /\ MustStay(i, s)
  <2>1. PICK d : d = IF i < s THEN s - i ELSE s - i + Slots
    OBVIOUS
  <2>2. s \in Nat /\ s < Slots /\ j = IF i + c < Slots THEN i + c ELSE i + c - Slots
    BY <1>5, <1>7 DEF Slot
  <2>3. s # i
    BY <1>8 DEF Between
  <2>4. d \in 1 .. Slots /\ d < c
    BY <1>5, <1>8, <2>1, <2>2, <2>3 DEF Between, Arc
  <2>5. At(i, d) = s
    BY <1>5, <1>7, <2>1, <2>2, <2>3, <2>4
  <2>6. d \notin D
    BY <1>4, <1>5, <2>4
  <2> QED BY <2>4, <2>5, <2>6
<1>9. c = Slots => j = i
  BY <1>5, <1>7
<1>10. c # Slots => j # i /\ (idx[j].hash = Empty \/ ~MustStay(i, j))
  <2>1. ASSUME c # Slots PROVE j # i
    BY <1>5, <1>7, <2>1
  <2> QED BY <1>4, <2>1
<1> HIDE DEF j, D
<1>11. CASE c = Slots
  BY <1>2, <1>6, <1>8, <1>9, <1>11
<1>12. CASE c # Slots /\ idx[j].hash = Empty
  BY <1>2, <1>6, <1>8, <1>12
<1>13. CASE c # Slots /\ idx[j].hash # Empty
  BY <1>2, <1>6, <1>8, <1>10, <1>13
<1> QED BY <1>11, <1>12, <1>13

-----------------------------------------------------------------------------
(* What the index is between any two steps.                                *)

\* The entries; the slot being emptied holds none.
Counted == {s \in Slot : idx[s].hash # Empty /\ ~(w.pc = "empty" /\ s = w.i)}
Hole(t) == w.pc \in {"moveoff", "movehash"} /\ t = w.i
Publishing == {"write", "writing", "puboff", "pubhash"}

\* No probe for an entry meets a free slot before it, other than the hole.
Paths ==
  \A s \in Counted, t \in Slot :
    Arc(Home(idx[s].hash), t, s) => idx[t].hash # Empty \/ Hole(t)

OneEach == \A s, t \in Counted : Entry(s).key = Entry(t).key => s = t

\* The set has unlinked the old entry, and takes the first free slot for its key.
NewKey ==
  Stage \in Publishing \cup {"unlinked"} => \A s \in Counted : Entry(s).key # w.key
NewPath ==
  w.pc \in Publishing =>
    \A t \in Slot : Arc(Home(Hash[w.key]), t, w.i) => t = w.i \/ idx[t].hash # Empty

Mapped ==
  /\ Paths /\ OneEach /\ NewKey /\ NewPath
  /\ w.pc \in {"moveoff", "movehash"} => ~MustStay(w.i, w.j)

\* An entry that a step leaves in its slot is the same entry.
LEMMA EntryStays ==
  ASSUME NEW S, Inv(S), WriterStep, NEW s \in Slot, idx[s].hash # Empty, idx'[s].hash # Empty
  PROVE  /\ idx'[s].hash = idx[s].hash
         /\ Entry(s)'.key = Entry(s).key /\ Entry(s)'.ver = Entry(s).ver
         /\ Entry(s)'.size = Entry(s).size
<1>1. PICK T : Inv(T)'
  BY WriterKeeps
<1>2. tail' <= idx'[s].off
  BY <1>1 DEF Inv, Indexed, Chain
<1>3. Entry(s)' = hd'[Phys(idx'[s].off)]
  BY DEF Entry, HdrAt, Phys
<1>4. CASE idx'[s] = idx[s]
  <2>1. PICK p \in Nat : p = idx[s].off /\ Held(p)
    BY HeldSlot
  <2>2. HdrAt(p)'.key = HdrAt(p).key /\ HdrAt(p)'.ver = HdrAt(p).ver
        /\ HdrAt(p)'.size = HdrAt(p).size
    BY <1>2, <1>4, <2>1, HeldStays
  <2>3. HdrAt(p)' = Entry(s)' /\ HdrAt(p) = Entry(s)
    BY <1>3, <1>4, <2>1 DEF HdrAt, Entry, Phys
  <2> QED BY <1>4, <2>2, <2>3
<1>5. CASE /\ ReappendInPlace \/ ReappendPublish
           /\ s = TailRec.slot /\ idx'[s].hash = idx[s].hash /\ idx'[s].off = head
  <2>1. /\ hd' = hd /\ Entry(TailRec.slot) = TailRec
        /\ HdrAt(head).key = TailRec.key /\ HdrAt(head).ver = TailRec.ver
        /\ HdrAt(head).size = TailRec.size
    BY <1>5, ReappendStep
  <2>2. Entry(s)' = HdrAt(head)
    BY <1>3, <1>5, <2>1 DEF HdrAt
  <2> QED BY <1>5, <2>1, <2>2
<1>6. CASE RemoveMoveHash /\ s = w.i
  BY <1>6 DEF RemoveMoveHash, Inv, Staged
<1> QED BY <1>4, <1>5, <1>6, IdxStep

\* A step that moves no entry and begins no removal.
Plain ==
  /\ \A s \in Slot : idx'[s].hash = idx[s].hash
  /\ w.pc \notin Shifts /\ w'.pc \notin Shifts \cup {"unlinked"}
  /\ w'.pc \in Publishing => w.pc \in Publishing /\ w'.i = w.i /\ w'.key = w.key

LEMMA PlainCounts ==
  ASSUME NEW S, Inv(S), WriterStep, Plain
  PROVE  /\ Counted' = Counted
         /\ \A s \in Counted : Entry(s)'.key = Entry(s).key /\ Entry(s)'.size = Entry(s).size
<1>1. Counted' = Counted
  BY DEF Counted, Plain, Shifts
<1> QED BY <1>1, EntryStays DEF Counted, Plain

LEMMA PlainKeeps ==
  ASSUME NEW S, Inv(S), Mapped, WriterStep, Plain
  PROVE  Mapped'
<1>1. /\ Counted' = Counted
      /\ \A s \in Counted : Entry(s)'.key = Entry(s).key
  BY PlainCounts
<1>2. Counted \subseteq Slot
  BY DEF Counted
<1>3. Paths'
  <2> SUFFICES ASSUME NEW s \in Counted, NEW t \in Slot, Arc(Home(idx'[s].hash), t, s)
               PROVE  idx'[t].hash # Empty
    BY <1>1 DEF Paths, Home, Arc
  <2> QED BY <1>2 DEF Plain, Mapped, Paths, Hole, Shifts
<1>4. OneEach'
  BY <1>1 DEF OneEach, Mapped
<1>5. NewKey'
  BY <1>1 DEF NewKey, Mapped, Plain, Stage, Publishing, Shifts
<1>6. NewPath'
  <2> SUFFICES ASSUME w'.pc \in Publishing, NEW t \in Slot, Arc(Home(Hash[w'.key]), t, w'.i)
               PROVE  t = w'.i \/ idx'[t].hash # Empty
    BY DEF NewPath, Home, Arc, Publishing
  <2> QED BY DEF NewPath, Mapped, Plain
<1> QED BY <1>3, <1>4, <1>5, <1>6 DEF Mapped, Plain, Shifts

\* The steps that are plain.
LEMMA PlainSteps ==
  ASSUME NEW S, Inv(S),
         \/ \E k \in Keys, n \in Sizes, t \in Ttls : SetBegin(k, n, t)
         \/ \E k \in Keys : Delete(k) /\ w' = w
         \/ Cleared \/ SweepBegin \/ SweepSkip \/ Swept \/ SweepEnd \/ Removed
         \/ DropDead \/ Evicted \/ Bump
         \/ ReappendInPlace \/ ReappendCopy \/ ReappendCopied \/ ReappendPublish
         \/ PressDone \/ AllocGap \/ AllocPad \/ AllocPadded \/ AllocTake
         \/ RefuseSlot \/ Refused \/ Write \/ Written \/ PublishOff
  PROVE  Plain
<1>0. w \in Writers /\ idx \in [Slot -> [hash : Nat, off : Nat]]
  BY DEF Inv, Typed
<1>1. CASE \E k \in Keys, n \in Sizes, t \in Ttls : SetBegin(k, n, t)
  BY <1>1 DEF SetBegin, Plain, Shifts, Publishing, IdleWriter
<1>2. CASE \E k \in Keys : Delete(k) /\ w' = w
  BY <1>2 DEF Delete, Plain, Shifts, Publishing
<1>3. CASE Cleared \/ SweepBegin \/ SweepEnd \/ Removed \/ PressDone \/ Refused
  <2>1. IdleWriter.pc = "idle"
    BY DEF IdleWriter
  <2>2. idx' = idx /\ w.pc \notin Shifts
    BY <1>3 DEF Cleared, SweepBegin, SweepEnd, Removed, PressDone, Refused, Shifts
  <2>3. w'.pc \in {"idle", "sweep", "alloc"}
    BY <1>0, <1>3, <2>1, IdleTyped DEF Cleared, SweepBegin, SweepEnd, Removed, PressDone,
       Refused, Writers
  <2> QED BY <2>2, <2>3 DEF Plain, Shifts, Publishing
<1>4. CASE SweepSkip \/ Swept
  BY <1>0, <1>4 DEF SweepSkip, Scanning, Swept, Plain, Shifts, Publishing, Writers
<1>5. CASE DropDead
  BY <1>0, <1>5 DEF DropDead, MustDrop, Plain, Shifts, Publishing, Writers
<1>6. CASE Evicted \/ Bump
  <2>1. w.pc \in {"evicted", "bump"} /\ idx' = idx /\ w' = [w EXCEPT !.pc = w.loop]
    BY <1>6 DEF Evicted, Bump
  <2>2. w.loop \in {"press", "alloc"}
    BY <2>1 DEF Inv, Staged, Dropping, Stage, Moves, Shifts
  <2> QED BY <1>0, <2>1, <2>2 DEF Plain, Shifts, Publishing, Writers
<1>7. CASE ReappendInPlace \/ ReappendCopy
  <2>1. w.pc \in {"press", "alloc"} /\ w'.pc \in {"bump", "copying"}
    BY <1>0, <1>7 DEF ReappendInPlace, ReappendCopy, MustDrop, Writers
  <2>2. idx' = idx \/ idx' = [idx EXCEPT ![TailRec.slot].off = head]
    BY <1>7 DEF ReappendInPlace, ReappendCopy
  <2>3. \A s \in Slot : idx'[s].hash = idx[s].hash
    BY <1>0, <2>2
  <2> QED BY <2>1, <2>3 DEF Plain, Shifts, Publishing
<1>8. CASE ReappendCopied \/ ReappendPublish
  <2>1. w.pc \in {"copying", "copied"} /\ w'.pc \in {"copied", "bump"}
    BY <1>0, <1>8 DEF ReappendCopied, ReappendPublish, Writers
  <2>2. idx' = idx \/ idx' = [idx EXCEPT ![TailRec.slot].off = head]
    BY <1>8 DEF ReappendCopied, ReappendPublish
  <2>3. \A s \in Slot : idx'[s].hash = idx[s].hash
    BY <1>0, <2>2
  <2> QED BY <2>1, <2>3 DEF Plain, Shifts, Publishing
<1>9. CASE AllocGap \/ AllocPad \/ AllocPadded \/ AllocTake \/ RefuseSlot
  <2>1. w.pc \in {"alloc", "padding", "slot"} /\ idx' = idx
    BY <1>9 DEF AllocGap, AllocPad, AllocPadded, AllocTake, RefuseSlot
  <2>2. w'.pc \in {"alloc", "padding", "slot", "refuse"}
    BY <1>0, <1>9 DEF AllocGap, AllocPad, AllocPadded, AllocTake, RefuseSlot, Writers
  <2> QED BY <2>1, <2>2 DEF Plain, Shifts, Publishing
<1>10. CASE Write \/ Written
  BY <1>0, <1>10 DEF Write, Written, Plain, Shifts, Publishing, Writers
<1>11. CASE PublishOff
  BY <1>0, <1>11 DEF PublishOff, Plain, Shifts, Publishing, Writers
<1> QED BY <1>1, <1>2, <1>3, <1>4, <1>5, <1>6, <1>7, <1>8, <1>9, <1>10, <1>11

\* indexRemove begins: its slot no longer counts.
Begins(s) ==
  /\ s \in Slot /\ idx[s].hash # Empty /\ idx' = idx
  /\ w.pc \notin Shifts \cup Returns \cup {"clear"}
  /\ w'.pc = "empty" /\ w'.i = s /\ w'.ret \in Returns /\ w'.size = Entry(s).size
  /\ w'.ret = "unlinked" => w'.key = Entry(s).key

LEMMA BeginCounts ==
  ASSUME NEW S, Inv(S), WriterStep, NEW s, Begins(s)
  PROVE  /\ Counted' = Counted \ {s} /\ s \in Counted
         /\ \A t \in Counted : Entry(t)'.key = Entry(t).key /\ Entry(t)'.size = Entry(t).size
<1>1. Counted' = Counted \ {s} /\ s \in Counted
  BY DEF Counted, Begins, Shifts
<1> QED BY <1>1, EntryStays DEF Counted, Begins

LEMMA BeginKeeps ==
  ASSUME NEW S, Inv(S), Mapped, WriterStep, NEW s, Begins(s)
  PROVE  Mapped'
<1>1. /\ Counted' = Counted \ {s} /\ s \in Counted
      /\ \A t \in Counted : Entry(t)'.key = Entry(t).key
  BY BeginCounts
<1>2. Paths'
  <2> SUFFICES ASSUME NEW u \in Counted \ {s}, NEW t \in Slot, Arc(Home(idx'[u].hash), t, u)
               PROVE  idx'[t].hash # Empty
    BY <1>1 DEF Paths, Home, Arc
  <2> QED BY DEF Begins, Mapped, Paths, Hole, Shifts
<1>3. OneEach'
  BY <1>1 DEF OneEach, Mapped
<1>4. NewKey'
  <2>1. Stage' = w'.ret
    BY DEF Stage, Begins, Shifts
  <2> SUFFICES ASSUME w'.ret = "unlinked", NEW t \in Counted \ {s}
               PROVE  Entry(t)'.key # w'.key
    BY <1>1, <2>1 DEF NewKey, Publishing, Begins, Returns
  <2> QED BY <1>1 DEF Begins, Mapped, OneEach
<1> QED BY <1>2, <1>3, <1>4 DEF Mapped, NewPath, Begins, Publishing

LEMMA RemovalsBegin ==
  ASSUME NEW S, Inv(S), SweepRemove \/ DropLive
  PROVE  \E s : Begins(s)
<1>0. Typed /\ w \in Writers
  BY DEF Inv, Typed
<1>1. CASE SweepRemove
  <2>1. /\ w.pc = "sweep" /\ idx' = idx /\ w.i \in Slot /\ idx[w.i].hash # Empty
        /\ w' = [Removing(w.i, "swept") EXCEPT !.guard = w.i]
    BY <1>0, <1>1, Constants, WriterFields DEF SweepRemove, Scanning, ExpiredAt, Slot
  <2>2. "swept" \in Returns
    BY DEF Returns
  <2>3. PICK v \in Writers : v = Removing(w.i, "swept")
    BY <1>0, <2>1, <2>2, RemovingTyped
  <2>4. v.pc = "empty" /\ v.i = w.i /\ v.ret = "swept" /\ v.size = Entry(w.i).size
    BY <1>0, <2>1, <2>2, <2>3, RemovingTyped
  <2>5. w'.pc = "empty" /\ w'.i = w.i /\ w'.ret = "swept" /\ w'.size = Entry(w.i).size
    BY <2>1, <2>3, <2>4 DEF Writers
  <2> QED BY <2>1, <2>2, <2>5 DEF Begins, Shifts, Returns
<1>2. CASE DropLive
  <2>1. /\ w.pc \in {"press", "alloc"} /\ idx' = idx /\ LiveTail
        /\ w' = [Removing(TailRec.slot, "evicted") EXCEPT !.guard = w.guard + 1, !.loop = w.pc]
    <3>1. PICK v \in Writers : v = Removing(TailRec.slot, "evicted")
      BY <1>0, <1>2, LiveTailSlot, RemovingTyped DEF DropLive, Returns
    <3>2. v.guard = w.guard
      BY <1>0, <1>2, <3>1, LiveTailSlot, RemovingTyped DEF DropLive, Returns
    <3>3. w' = [v EXCEPT !.guard = v.guard + 1, !.loop = w.pc]
      BY <1>2, <3>1 DEF DropLive
    <3> QED BY <1>2, <3>1, <3>2, <3>3 DEF DropLive, MustDrop
  <2>2. "evicted" \in Returns /\ TailRec.slot \in Slot /\ idx[TailRec.slot].hash # Empty
    BY <1>0, <2>1, LiveTailSlot DEF Returns
  <2>3. PICK v \in Writers : v = Removing(TailRec.slot, "evicted")
    BY <1>0, <2>2, RemovingTyped
  <2>4. /\ v.pc = "empty" /\ v.i = TailRec.slot /\ v.ret = "evicted"
        /\ v.size = Entry(TailRec.slot).size
    BY <1>0, <2>2, <2>3, RemovingTyped
  <2>5. /\ w'.pc = "empty" /\ w'.i = TailRec.slot /\ w'.ret = "evicted"
        /\ w'.size = Entry(TailRec.slot).size
    BY <2>1, <2>3, <2>4 DEF Writers
  <2> QED BY <2>1, <2>2, <2>5 DEF Begins, Shifts, Returns
<1> QED BY <1>1, <1>2

\* Outside of indexRemove every entry counts, and is found.
LEMMA FindsEntries ==
  ASSUME NEW S, Inv(S), Mapped, w.pc \notin Shifts, NEW s \in Slot, idx[s].hash # Empty
  PROVE  FindSlot(Entry(s).key) = s
<1>1. \A t \in Slot : idx[t].hash # Empty <=> t \in Counted
  BY DEF Counted, Shifts
<1>2. \A t \in Slot : ~Hole(t)
  BY DEF Hole, Shifts
<1> QED BY <1>1, <1>2, Finds DEF Mapped, Paths, OneEach

\* What is not found is not there.
LEMMA NotFound ==
  ASSUME NEW S, Inv(S), Mapped, w.pc \notin Shifts, NEW k \in Keys, ~(FindSlot(k) >= 0)
  PROVE  \A s \in Counted : Entry(s).key # k
<1> SUFFICES ASSUME NEW s \in Slot, idx[s].hash # Empty, Entry(s).key = k PROVE FALSE
  BY DEF Counted
<1>1. FindSlot(k) = s
  BY FindsEntries
<1> QED BY <1>1, Constants DEF Slot

LEMMA DeleteMaps ==
  ASSUME NEW S, Inv(S), Mapped, WriterStep, NEW k \in Keys, Delete(k)
  PROVE  Plain \/ \E s : Begins(s)
<1>0. Typed
  BY DEF Inv
<1>1. CASE FindSlot(k) >= 0
  <2>1. PICK s \in Slot : s = FindSlot(k) /\ idx[s].hash # Empty
    BY <1>1, SlotFound
  <2>2. w.pc = "idle" /\ idx' = idx /\ w' = Removing(s, "removed") /\ "removed" \in Returns
    BY <1>1, <2>1 DEF Delete, Returns
  <2>3. w'.pc = "empty" /\ w'.i = s /\ w'.ret = "removed" /\ w'.size = Entry(s).size
    BY <1>0, <2>2, RemovingTyped
  <2> QED BY <2>1, <2>2, <2>3 DEF Begins, Shifts, Returns
<1>2. CASE ~(FindSlot(k) >= 0)
  <2>1. w' = w
    BY <1>2 DEF Delete
  <2> QED BY <2>1, PlainSteps
<1> QED BY <1>1, <1>2

\* The set goes on to write, into the first free slot for its key.
Settles ==
  /\ idx' = idx /\ w.pc \in {"slot", "unlinked"} /\ w'.pc = "write" /\ w'.key = w.key
  /\ w.key \in Keys /\ w'.i = FindFreeSlot(Hash[w.key]) /\ FindFreeSlot(Hash[w.key]) >= 0
  /\ \A s \in Counted : Entry(s).key # w.key

LEMMA SettlesCounts ==
  ASSUME NEW S, Inv(S), WriterStep, Settles
  PROVE  /\ Counted' = Counted
         /\ \A s \in Counted : Entry(s)'.key = Entry(s).key /\ Entry(s)'.size = Entry(s).size
<1>1. Counted' = Counted
  BY DEF Counted, Settles
<1> QED BY <1>1, EntryStays DEF Counted, Settles

LEMMA SettlesKeeps ==
  ASSUME NEW S, Inv(S), Mapped, WriterStep, Settles
  PROVE  Mapped'
<1>1. /\ Counted' = Counted
      /\ \A s \in Counted : Entry(s)'.key = Entry(s).key
  BY SettlesCounts
<1>2. Paths'
  <2> SUFFICES ASSUME NEW s \in Counted, NEW t \in Slot, Arc(Home(idx'[s].hash), t, s)
               PROVE  idx'[t].hash # Empty
    BY <1>1 DEF Paths, Home, Arc
  <2> QED BY DEF Settles, Mapped, Paths, Hole
<1>3. OneEach' /\ NewKey'
  BY <1>1 DEF OneEach, NewKey, Mapped, Settles
<1>4. NewPath'
  <2>1. Hash[w.key] \in Nat
    BY Constants DEF Settles
  <2> SUFFICES ASSUME NEW t \in Slot, Arc(Home(Hash[w.key]), t, w'.i)
               PROVE  t = w'.i \/ idx'[t].hash # Empty
    BY DEF NewPath, Home, Arc, Settles
  <2> QED BY <2>1, FreeFirst DEF Settles
<1> QED BY <1>2, <1>3, <1>4 DEF Mapped, Settles

LEMMA SetUnlinkMaps ==
  ASSUME NEW S, Inv(S), Mapped, SetUnlink
  PROVE  Settles \/ \E s : Begins(s)
<1>0. Typed /\ w \in Writers /\ w.pc = "slot" /\ idx' = idx
  BY DEF Inv, Typed, SetUnlink
<1>1. w.key \in Keys
  BY <1>0 DEF Inv, Staged, Phase, Dropping, Stage, Moves, Shifts, SetStages
<1>2. CASE FindSlot(w.key) >= 0
  <2>1. PICK s \in Slot : s = FindSlot(w.key) /\ idx[s].hash # Empty /\ Entry(s).key = w.key
    BY <1>1, <1>2, FindsKey
  <2>2. w' = Removing(s, "unlinked") /\ "unlinked" \in Returns
    BY <1>2, <2>1 DEF SetUnlink, Returns
  <2>3. /\ w'.pc = "empty" /\ w'.i = s /\ w'.ret = "unlinked" /\ w'.key = w.key
        /\ w'.size = Entry(s).size
    BY <1>0, <2>2, RemovingTyped
  <2> QED BY <1>0, <2>1, <2>2, <2>3 DEF Begins, Shifts, Returns
<1>3. CASE ~(FindSlot(w.key) >= 0)
  <2>1. w' = [w EXCEPT !.pc = "write", !.i = FindFreeSlot(Hash[w.key])]
        /\ FindFreeSlot(Hash[w.key]) >= 0
    BY <1>3 DEF SetUnlink
  <2>2. w'.pc = "write" /\ w'.i = FindFreeSlot(Hash[w.key]) /\ w'.key = w.key
    BY <1>0, <2>1 DEF Writers
  <2>3. \A s \in Counted : Entry(s).key # w.key
    BY <1>0, <1>1, <1>3, NotFound DEF Shifts
  <2> QED BY <1>0, <1>1, <2>1, <2>2, <2>3 DEF Settles
<1> QED BY <1>2, <1>3

LEMMA UnlinkedMaps ==
  ASSUME NEW S, Inv(S), Mapped, Unlinked
  PROVE  Settles \/ Plain
<1>0. Typed /\ w \in Writers /\ w.pc = "unlinked" /\ idx' = idx
  BY DEF Inv, Typed, Unlinked
<1>1. w.key \in Keys /\ Stage = "unlinked"
  BY <1>0 DEF Inv, Staged, Phase, Dropping, Stage, Moves, Shifts, SetStages
<1>2. CASE FindFreeSlot(Hash[w.key]) < 0
  <2>1. w' = IdleWriter
    BY <1>2 DEF Unlinked
  <2> QED BY <1>0, <2>1 DEF IdleWriter, Plain, Shifts, Publishing
<1>3. CASE ~(FindFreeSlot(Hash[w.key]) < 0)
  <2>1. w' = [w EXCEPT !.pc = "write", !.i = FindFreeSlot(Hash[w.key])]
    BY <1>3 DEF Unlinked
  <2>2. w'.pc = "write" /\ w'.i = FindFreeSlot(Hash[w.key]) /\ w'.key = w.key
    BY <1>0, <2>1 DEF Writers
  <2>3. FindFreeSlot(Hash[w.key]) >= 0
    <3>1. idx[w.i].hash = Empty /\ w.i \in Slot
      BY <1>0 DEF Inv, Staged
    <3>2. Hash[w.key] \in Nat
      BY <1>1, Constants
    <3> QED BY <3>1, <3>2, FreeSlotFound
  <2> QED BY <1>0, <1>1, <2>2, <2>3 DEF Settles, Mapped, NewKey
<1> QED BY <1>2, <1>3

-----------------------------------------------------------------------------
(* The backward shift.                                                     *)

\* What must stay is at home past i; what need not has i on its way.
LEMMA StayArc ==
  ASSUME Typed, NEW i \in Slot, NEW j \in Slot, i # j
  PROVE  MustStay(i, j) <=> ~Arc(Home(idx[j].hash), i, j)
<1>1. Home(idx[j].hash) \in Nat /\ Home(idx[j].hash) < Slots
  BY SlotTyped, HomeType
<1>2. PICK k \in Nat : k = Home(idx[j].hash) /\ k < Slots
  BY <1>1
<1>3. i \in Nat /\ j \in Nat /\ i < Slots /\ j < Slots
  BY Constants DEF Slot
<1> QED BY <1>2, <1>3 DEF MustStay, Arc

LEMMA EmptyCounts ==
  ASSUME NEW S, Inv(S), RemoveEmpty
  PROVE  /\ Counted' = Counted /\ w.i \in Slot /\ w.i \notin Counted
         /\ \A s \in Counted : idx'[s].hash = idx[s].hash /\ Entry(s)'.key = Entry(s).key
                               /\ Entry(s)'.size = Entry(s).size
         /\ \A s \in Slot : idx'[s].hash = IF s = w.i THEN Empty ELSE idx[s].hash
         /\ w'.key = w.key /\ w'.ret = w.ret /\ w.ret \in Returns /\ w'.i = w.i
         /\ IF Mover(w.i) = w.i THEN w'.pc = w.ret
            ELSE w'.pc = "moveoff" /\ w'.j = Mover(w.i)
         /\ w'.n = w.n /\ w'.size = w.size
<1>0. /\ Typed /\ w \in Writers /\ w.i \in Slot /\ w.ret \in Returns /\ w.pc = "empty"
      /\ idx \in [Slot -> [hash : Nat, off : Nat]]
  BY DEF Inv, Typed, Staged, RemoveEmpty, Shifts
<1>1. \A s \in Slot : idx'[s].hash = IF s = w.i THEN Empty ELSE idx[s].hash
  BY <1>0 DEF RemoveEmpty
<1>2. /\ w'.key = w.key /\ w'.ret = w.ret /\ w'.i = w.i /\ w'.n = w.n /\ w'.size = w.size
      /\ IF Mover(w.i) = w.i THEN w'.pc = w.ret
         ELSE w'.pc = "moveoff" /\ w'.j = Mover(w.i)
  BY <1>0 DEF RemoveEmpty, Writers
<1>3. w'.pc # "empty"
  BY <1>0, <1>2 DEF Returns
<1>4. Counted' = Counted /\ w.i \notin Counted
  BY <1>0, <1>1, <1>3 DEF Counted
<1>5. WriterStep
  BY DEF WriterStep
<1>6. ASSUME NEW s \in Counted
      PROVE  idx'[s].hash = idx[s].hash /\ Entry(s)'.key = Entry(s).key
             /\ Entry(s)'.size = Entry(s).size
  <2>1. s \in Slot /\ idx[s].hash # Empty /\ s # w.i
    BY <1>0 DEF Counted
  <2>2. idx'[s].hash = idx[s].hash
    BY <1>1, <2>1
  <2> QED BY <1>5, <2>1, <2>2, EntryStays
<1> QED BY <1>0, <1>1, <1>2, <1>4, <1>6

LEMMA EmptyKeeps ==
  ASSUME NEW S, Inv(S), Mapped, RemoveEmpty
  PROVE  Mapped'
<1>1. /\ Counted' = Counted /\ w.i \in Slot /\ w.i \notin Counted
      /\ \A s \in Counted : idx'[s].hash = idx[s].hash /\ Entry(s)'.key = Entry(s).key
      /\ \A s \in Slot : idx'[s].hash = IF s = w.i THEN Empty ELSE idx[s].hash
      /\ w'.key = w.key /\ w'.ret = w.ret /\ w.ret \in Returns /\ w'.i = w.i
      /\ IF Mover(w.i) = w.i THEN w'.pc = w.ret
         ELSE w'.pc = "moveoff" /\ w'.j = Mover(w.i)
  BY EmptyCounts
<1>2. w.pc = "empty" /\ Typed /\ Counted \subseteq Slot
  BY DEF RemoveEmpty, Inv, Counted
<1>3. PICK i \in Slot : i = w.i
  BY <1>1
<1>4. PICK e \in Slot :
        /\ \A s \in Slot : Between(i, s, e) => idx[s].hash # Empty /\ MustStay(i, s)
        /\ \/ Mover(i) = i /\ (e = i \/ idx[e].hash = Empty)
           \/ Mover(i) = e /\ e # i /\ idx[e].hash # Empty /\ ~MustStay(i, e)
  BY MoverSpan
<1>5. \A s \in Counted, t \in Slot : Arc(Home(idx[s].hash), t, s) => idx[t].hash # Empty
  BY <1>2 DEF Mapped, Paths, Hole
<1>6. Paths'
  <2> SUFFICES ASSUME NEW s \in Counted, NEW t \in Slot, Arc(Home(idx[s].hash), t, s),
                      idx'[t].hash = Empty, ~(w'.pc \in {"moveoff", "movehash"} /\ t = i)
               PROVE  FALSE
    BY <1>1, <1>3 DEF Paths, Home, Arc, Hole
  <2>1. t = i /\ s # i /\ s \in Slot
    BY <1>1, <1>2, <1>3, <1>5
  <2>2. Mover(i) = i
    BY <1>1, <1>3, <2>1
  <2>3. ~MustStay(i, s)
    BY <1>2, <2>1, StayArc
  <2>4. e # i /\ idx[e].hash = Empty
    BY <1>4, <2>1, <2>2, <2>3 DEF Between
  <2>5. ~Arc(Home(idx[s].hash), e, s)
    BY <1>5, <2>4
  <2>6. PICK k \in Nat : k = Home(idx[s].hash) /\ k < Slots
    BY <1>2, <2>1, SlotTyped, HomeType
  <2>7. i \in Nat /\ s \in Nat /\ e \in Nat /\ i < Slots /\ s < Slots /\ e < Slots
    BY <2>1, Constants DEF Slot
  <2>8. Arc(i, s, e) /\ s # e
    BY <2>1, <2>4, <2>5, <2>6, <2>7 DEF Arc
  <2> QED BY <1>4, <2>1, <2>3, <2>4, <2>8 DEF Between
<1>7. OneEach'
  BY <1>1 DEF OneEach, Mapped
<1>8. NewKey'
  <2>1. Stage = w.ret /\ Stage' = w.ret
    BY <1>1, <1>2 DEF Stage, Shifts, Returns
  <2> QED BY <1>1, <2>1 DEF NewKey, Mapped
<1>9. NewPath'
  BY <1>1 DEF NewPath, Publishing, Returns
<1>10. w'.pc \in {"moveoff", "movehash"} => ~MustStay(w.i, w.j)'
  <2> SUFFICES ASSUME w'.pc \in {"moveoff", "movehash"} PROVE ~MustStay(w.i, w.j)'
    OBVIOUS
  <2>1. Mover(i) # i /\ w'.j = Mover(i) /\ w'.i = i
    BY <1>1, <1>3 DEF Returns
  <2>2. e # i /\ w'.j = e /\ ~MustStay(i, e)
    BY <1>4, <2>1
  <2>3. idx'[e].hash = idx[e].hash
    BY <1>1, <1>3, <2>2
  <2> QED BY <2>1, <2>2, <2>3 DEF MustStay, Home
<1> QED BY <1>6, <1>7, <1>8, <1>9, <1>10 DEF Mapped

LEMMA MoveOffCounts ==
  ASSUME NEW S, Inv(S), RemoveMoveOff
  PROVE  /\ Counted' = Counted /\ w.pc = "moveoff" /\ w'.pc = "movehash"
         /\ \A s \in Slot : idx'[s].hash = idx[s].hash
         /\ \A s \in Counted : Entry(s)'.key = Entry(s).key /\ Entry(s)'.size = Entry(s).size
         /\ w'.i = w.i /\ w'.j = w.j /\ w'.key = w.key /\ w'.ret = w.ret /\ w.ret \in Returns
         /\ w'.size = w.size
<1>0. /\ w \in Writers /\ w.pc = "moveoff" /\ w.ret \in Returns
      /\ idx \in [Slot -> [hash : Nat, off : Nat]]
  BY DEF Inv, Typed, RemoveMoveOff, Staged, Shifts
<1>1. /\ w'.pc = "movehash" /\ w'.i = w.i /\ w'.j = w.j /\ w'.key = w.key /\ w'.ret = w.ret
      /\ w'.size = w.size
      /\ \A s \in Slot : idx'[s].hash = idx[s].hash
  BY <1>0 DEF RemoveMoveOff, Writers
<1>2. Counted' = Counted
  BY <1>0, <1>1 DEF Counted
<1>3. WriterStep
  BY DEF WriterStep
<1> QED BY <1>0, <1>1, <1>2, <1>3, EntryStays DEF Counted

LEMMA MoveOffKeeps ==
  ASSUME NEW S, Inv(S), Mapped, RemoveMoveOff
  PROVE  Mapped'
<1>1. /\ Counted' = Counted /\ w.pc = "moveoff" /\ w'.pc = "movehash"
      /\ \A s \in Slot : idx'[s].hash = idx[s].hash
      /\ \A s \in Counted : Entry(s)'.key = Entry(s).key
      /\ w'.i = w.i /\ w'.j = w.j /\ w'.key = w.key /\ w'.ret = w.ret /\ w.ret \in Returns
  BY MoveOffCounts
<1>2. Paths'
  <2> SUFFICES ASSUME NEW s \in Counted, NEW t \in Slot, Arc(Home(idx'[s].hash), t, s)
               PROVE  idx'[t].hash # Empty \/ t = w.i
    BY <1>1 DEF Paths, Home, Arc, Hole
  <2> QED BY <1>1 DEF Mapped, Paths, Hole, Counted
<1>3. OneEach'
  BY <1>1 DEF OneEach, Mapped
<1>4. NewKey'
  BY <1>1 DEF NewKey, Mapped, Stage, Shifts
<1>5. NewPath'
  BY <1>1 DEF NewPath, Publishing
<1>6. ~MustStay(w.i, w.j)'
  <2>1. w.j \in Slot /\ ~MustStay(w.i, w.j)
    BY <1>1 DEF Inv, Staged, Mapped
  <2> QED BY <1>1, <2>1 DEF MustStay, Home
<1> QED BY <1>2, <1>3, <1>4, <1>5, <1>6 DEF Mapped

\* The entry has moved from w.j to w.i.
LEMMA MoveHashCounts ==
  ASSUME NEW S, Inv(S), RemoveMoveHash
  PROVE  /\ w.i \in Slot /\ w.j \in Counted /\ w.i \notin Counted /\ w.i # w.j
         /\ Counted' = (Counted \ {w.j}) \cup {w.i}
         /\ \A s \in Slot : idx'[s].hash = idx[IF s = w.i THEN w.j ELSE s].hash
         /\ \A s \in Counted : Entry(s)'.key = Entry(s).key /\ Entry(s)'.size = Entry(s).size
         /\ \A i \in Slot : i = w.i => Entry(i)'.key = Entry(w.j).key
                                      /\ Entry(i)'.size = Entry(w.j).size
         /\ w.pc = "movehash" /\ w'.pc = "empty"
         /\ w'.i = w.j /\ w'.key = w.key /\ w'.ret = w.ret /\ w.ret \in Returns
         /\ w'.size = w.size
<1>0. /\ w \in Writers /\ w.pc = "movehash" /\ w.ret \in Returns /\ w.i \in Slot /\ w.j \in Slot
      /\ w.i # w.j /\ idx[w.j].hash # Empty /\ idx[w.i].hash = Empty
      /\ idx[w.i].off = idx[w.j].off /\ idx \in [Slot -> [hash : Nat, off : Nat]]
  BY DEF Inv, Typed, RemoveMoveHash, Staged, Shifts
<1>1. /\ w'.pc = "empty" /\ w'.i = w.j /\ w'.key = w.key /\ w'.ret = w.ret
      /\ w'.size = w.size
      /\ \A s \in Slot : idx'[s].hash = idx[IF s = w.i THEN w.j ELSE s].hash
      /\ \A s \in Slot : idx'[s].off = idx[s].off
      /\ hd' = hd
  BY <1>0 DEF RemoveMoveHash, Writers
<1>2. /\ w.j \in Counted /\ w.i \notin Counted
      /\ Counted' = (Counted \ {w.j}) \cup {w.i}
  BY <1>0, <1>1 DEF Counted
<1>3. \A s \in Slot : Entry(s)' = Entry(s)
  BY <1>1 DEF Entry, HdrAt, Phys
<1>4. Entry(w.i) = Entry(w.j)
  BY <1>0 DEF Entry
<1>5. \A i \in Slot : i = w.i => Entry(i)' = Entry(w.j)
  BY <1>3, <1>4
<1>6. Counted \subseteq Slot
  BY DEF Counted
<1> QED BY <1>0, <1>1, <1>2, <1>3, <1>5, <1>6

LEMMA MoveHashKeeps ==
  ASSUME NEW S, Inv(S), Mapped, RemoveMoveHash
  PROVE  Mapped'
<1>1. /\ w.i \in Slot /\ w.j \in Counted /\ w.i \notin Counted /\ w.i # w.j
      /\ Counted' = (Counted \ {w.j}) \cup {w.i}
      /\ \A s \in Slot : idx'[s].hash = idx[IF s = w.i THEN w.j ELSE s].hash
      /\ \A s \in Counted : Entry(s)'.key = Entry(s).key
      /\ \A i \in Slot : i = w.i => Entry(i)'.key = Entry(w.j).key
      /\ w.pc = "movehash" /\ w'.pc = "empty"
      /\ w'.i = w.j /\ w'.key = w.key /\ w'.ret = w.ret /\ w.ret \in Returns
  BY MoveHashCounts
<1>2. Typed /\ Counted \subseteq Slot /\ idx[w.j].hash # Empty
  BY <1>1 DEF Inv, Counted
<1>3. PICK i \in Slot, j \in Slot : i = w.i /\ j = w.j /\ i # j
  BY <1>1, <1>2
<1>4. \A s \in Counted, t \in Slot :
        Arc(Home(idx[s].hash), t, s) => idx[t].hash # Empty \/ t = i
  BY <1>3 DEF Mapped, Paths, Hole
<1>5. \A t \in Slot : (idx[t].hash # Empty \/ t = i) => idx'[t].hash # Empty
  BY <1>1, <1>2, <1>3
<1>6. ~MustStay(i, j)
  BY <1>1, <1>3 DEF Mapped
<1>7. Paths'
  <2> SUFFICES ASSUME NEW s \in (Counted \ {j}) \cup {i}, NEW t \in Slot,
                      Arc(Home(idx'[s].hash), t, s)
               PROVE  idx'[t].hash # Empty
    BY <1>1, <1>3 DEF Paths, Home, Arc
  <2>1. CASE s # i
    <3>1. idx'[s].hash = idx[s].hash /\ s \in Counted
      BY <1>1, <1>2, <1>3, <2>1
    <3> QED BY <1>4, <1>5, <3>1
  <2>2. CASE s = i
    <3>1. idx'[s].hash = idx[j].hash
      BY <1>1, <1>3, <2>2
    <3>2. PICK k \in Nat : k = Home(idx[j].hash) /\ k < Slots
      BY <1>2, SlotTyped, HomeType
    <3>3. Arc(k, i, j) /\ Arc(k, t, i)
      BY <1>2, <1>3, <1>6, <2>2, <3>1, <3>2, StayArc
    <3>4. i \in Nat /\ j \in Nat /\ t \in Nat /\ i < Slots /\ j < Slots /\ t < Slots
      BY Constants DEF Slot
    <3>5. Arc(k, t, j)
      BY <1>3, <3>2, <3>3, <3>4 DEF Arc
    <3> QED BY <1>1, <1>3, <1>4, <1>5, <3>2, <3>5
  <2> QED BY <2>1, <2>2
<1>8. OneEach'
  <2> SUFFICES ASSUME NEW s \in (Counted \ {j}) \cup {i}, NEW t \in (Counted \ {j}) \cup {i},
                      Entry(s)'.key = Entry(t)'.key
               PROVE  s = t
    BY <1>1, <1>3 DEF OneEach
  <2>1. \A u, v \in Counted : Entry(u).key = Entry(v).key => u = v
    BY DEF Mapped, OneEach
  <2>5. Entry(i)'.key = Entry(j).key /\ j \in Counted
    BY <1>1, <1>3
  <2>2. CASE s = i /\ t # i
    BY <1>1, <1>3, <2>1, <2>2, <2>5
  <2>3. CASE s # i /\ t = i
    BY <1>1, <1>3, <2>1, <2>3, <2>5
  <2>4. CASE s # i /\ t # i
    BY <1>1, <1>3, <2>1, <2>4
  <2> QED BY <2>2, <2>3, <2>4
<1>9. NewKey'
  <2>1. Stage = w.ret /\ Stage' = w.ret
    BY <1>1 DEF Stage, Shifts
  <2>2. Entry(i)'.key = Entry(j).key /\ j \in Counted
    BY <1>1, <1>3
  <2>3. \A s \in Counted' : s = i \/ s \in Counted
    BY <1>1, <1>3
  <2> SUFFICES ASSUME Stage \in Publishing \cup {"unlinked"}, NEW s \in Counted'
               PROVE  Entry(s)'.key # w.key
    BY <1>1, <2>1 DEF NewKey
  <2>4. \A u \in Counted : Entry(u).key # w.key
    BY DEF NewKey, Mapped
  <2> QED BY <1>1, <2>2, <2>3, <2>4
<1>10. NewPath'
  BY <1>1 DEF NewPath, Publishing
<1> QED BY <1>1, <1>7, <1>8, <1>9, <1>10 DEF Mapped

\* The set publishes its entry.
LEMMA PublishCounts ==
  ASSUME NEW S, Inv(S), PublishHash
  PROVE  /\ w.i \in Slot /\ w.i \notin Counted /\ Counted' = Counted \cup {w.i}
         /\ \A s \in Slot : idx'[s].hash = IF s = w.i THEN Hash[w.key] ELSE idx[s].hash
         /\ \A s \in Counted : Entry(s)'.key = Entry(s).key /\ Entry(s)'.size = Entry(s).size
         /\ \A i \in Slot : i = w.i => Entry(i)'.key = w.key /\ Entry(i)'.size = w.n
         /\ w.pc = "pubhash" /\ w' = IdleWriter /\ Hash[w.key] \in Nat \ {0}
<1>0. /\ w.pc = "pubhash" /\ w' = IdleWriter /\ hd' = hd /\ idx[w.i].off = w.pos
      /\ w.i \in Slot /\ idx[w.i].hash = Empty /\ Typed
      /\ idx \in [Slot -> [hash : Nat, off : Nat]]
  BY DEF Inv, Typed, PublishHash, AtHead, Staged
<1>1. w.key \in Keys
  BY <1>0 DEF Inv, Staged, Phase, Dropping, Stage, Moves, Shifts, SetStages
<1>2. Hash[w.key] \in Nat \ {0} /\ Hash[w.key] # Empty
  BY <1>1, Constants DEF Empty
<1>3. /\ \A s \in Slot : idx'[s].hash = IF s = w.i THEN Hash[w.key] ELSE idx[s].hash
      /\ \A s \in Slot : idx'[s].off = idx[s].off
  BY <1>0, <1>2 DEF PublishHash
<1>4. w.i \notin Counted /\ Counted' = Counted \cup {w.i}
  BY <1>0, <1>2, <1>3 DEF Counted, IdleWriter
<1>5. \A s \in Slot : Entry(s)' = Entry(s)
  BY <1>0, <1>3 DEF Entry, HdrAt, Phys
<1>6. Entry(w.i).key = w.key /\ Entry(w.i).size = w.n
  BY <1>0 DEF Inv, AtHead, Entry
<1>7. Counted \subseteq Slot
  BY DEF Counted
<1> QED BY <1>0, <1>2, <1>3, <1>4, <1>5, <1>6, <1>7

LEMMA PublishKeeps ==
  ASSUME NEW S, Inv(S), Mapped, PublishHash
  PROVE  Mapped'
<1>1. /\ w.i \in Slot /\ w.i \notin Counted /\ Counted' = Counted \cup {w.i}
      /\ \A s \in Slot : idx'[s].hash = IF s = w.i THEN Hash[w.key] ELSE idx[s].hash
      /\ \A s \in Counted : Entry(s)'.key = Entry(s).key
      /\ \A i \in Slot : i = w.i => Entry(i)'.key = w.key
      /\ w.pc = "pubhash" /\ w' = IdleWriter /\ Hash[w.key] \in Nat \ {0}
  BY PublishCounts
<1>2. PICK i \in Slot : i = w.i
  BY <1>1
<1>3. w'.pc = "idle" /\ Counted \subseteq Slot
  BY <1>1 DEF IdleWriter, Counted
<1>4. \A t \in Slot : t = i \/ idx[t].hash # Empty => idx'[t].hash # Empty
  BY <1>1, <1>2 DEF Empty
<1>5. Paths'
  <2> SUFFICES ASSUME NEW s \in Counted \cup {i}, NEW t \in Slot, Arc(Home(idx'[s].hash), t, s)
               PROVE  idx'[t].hash # Empty
    BY <1>1, <1>2 DEF Paths, Home, Arc
  <2>1. CASE s = i
    <3>1. Arc(Home(Hash[w.key]), t, i)
      BY <1>1, <1>2, <2>1
    <3>2. t = i \/ idx[t].hash # Empty
      BY <1>1, <1>2, <3>1 DEF Mapped, NewPath, Publishing
    <3> QED BY <1>4, <3>2
  <2>2. CASE s # i
    <3>1. s \in Counted /\ idx'[s].hash = idx[s].hash
      BY <1>1, <1>2, <1>3, <2>2
    <3>2. idx[t].hash # Empty
      BY <1>1, <3>1 DEF Mapped, Paths, Hole
    <3> QED BY <1>4, <3>2
  <2> QED BY <2>1, <2>2
<1>6. OneEach'
  <2> SUFFICES ASSUME NEW s \in Counted \cup {i}, NEW t \in Counted \cup {i},
                      Entry(s)'.key = Entry(t)'.key
               PROVE  s = t
    BY <1>1, <1>2 DEF OneEach
  <2>1. \A u \in Counted : Entry(u).key # w.key
    BY <1>1 DEF Mapped, NewKey, Stage, Shifts, Publishing
  <2>2. \A u, v \in Counted : Entry(u).key = Entry(v).key => u = v
    BY DEF Mapped, OneEach
  <2>3. Entry(i)'.key = w.key
    BY <1>1, <1>2
  <2> QED BY <1>1, <2>1, <2>2, <2>3
<1>7. Stage' = "idle"
  BY <1>3 DEF Stage, Shifts
<1> QED BY <1>3, <1>5, <1>6, <1>7 DEF Mapped, NewKey, NewPath, Publishing

LEMMA ClearMaps ==
  ASSUME NEW S, Inv(S), Clear
  PROVE  Counted' = {} /\ Mapped' /\ w.pc = "idle" /\ w'.pc = "clear"
<1>1. \A s \in Slot : idx'[s].hash = Empty
  BY DEF Clear
<1>2. Counted' = {}
  BY <1>1 DEF Counted
<1>3. w.pc = "idle" /\ w'.pc = "clear"
  BY DEF Clear, IdleWriter
<1> QED BY <1>2, <1>3 DEF Mapped, Paths, OneEach, NewKey, NewPath, Stage, Shifts, Publishing

\* What a step of the writer does to the entries.
LEMMA StepMaps ==
  ASSUME NEW S, Inv(S), Mapped, WriterStep
  PROVE  \/ Plain \/ Settles \/ (\E s : Begins(s))
         \/ RemoveEmpty \/ RemoveMoveOff \/ RemoveMoveHash \/ PublishHash \/ Clear
<1>1. CASE \/ \E k \in Keys, n \in Sizes, t \in Ttls : SetBegin(k, n, t)
           \/ Cleared \/ SweepBegin \/ SweepSkip \/ Swept \/ SweepEnd \/ Removed
           \/ DropDead \/ Evicted \/ Bump
           \/ ReappendInPlace \/ ReappendCopy \/ ReappendCopied \/ ReappendPublish
           \/ PressDone \/ AllocGap \/ AllocPad \/ AllocPadded \/ AllocTake
           \/ RefuseSlot \/ Refused \/ Write \/ Written \/ PublishOff
  BY <1>1, PlainSteps
<1>2. CASE \E k \in Keys : Delete(k)
  BY <1>2, DeleteMaps
<1>3. CASE SweepRemove \/ DropLive
  BY <1>3, RemovalsBegin
<1>4. CASE SetUnlink
  BY <1>4, SetUnlinkMaps
<1>5. CASE Unlinked
  BY <1>5, UnlinkedMaps
<1> QED BY <1>1, <1>2, <1>3, <1>4, <1>5 DEF WriterStep

LEMMA MappedKeeps ==
  ASSUME NEW S, Inv(S), Mapped, WriterStep
  PROVE  Mapped'
BY StepMaps, PlainKeeps, SettlesKeeps, BeginKeeps, EmptyKeeps, MoveOffKeeps, MoveHashKeeps,
   PublishKeeps, ClearMaps

-----------------------------------------------------------------------------
(* The counters.                                                           *)

SizeOf == [s \in Slot |-> Entry(s).size]

Counts ==
  w.pc # "clear" =>
    /\ Stage \in Returns => /\ live = Cardinality(Counted) + 1
                            /\ liveBytes = Total(Counted, SizeOf) + w.size
    /\ Stage \notin Returns => /\ live = Cardinality(Counted)
                               /\ liveBytes = Total(Counted, SizeOf)

LEMMA CountedFinite ==
  ASSUME Typed
  PROVE  /\ Counted \subseteq Slot /\ IsFiniteSet(Slot) /\ IsFiniteSet(Counted)
         /\ Cardinality(Counted) \in Nat /\ Cardinality(Counted) <= Slots
         /\ \A s \in Slot : SizeOf[s] = Entry(s).size /\ SizeOf[s] \in Nat
         /\ Total(Counted, SizeOf) \in Nat
<1>1. Counted \subseteq Slot
  BY DEF Counted
<1>2. IsFiniteSet(Slot) /\ Cardinality(Slot) = Slots
  <2>1. 0 \in Int /\ Slots - 1 \in Int /\ ~(0 > Slots - 1) /\ (Slots - 1) - 0 + 1 = Slots
    BY Constants
  <2> QED BY <2>1, FS_Interval DEF Slot
<1>3. IsFiniteSet(Counted) /\ Cardinality(Counted) <= Slots /\ Cardinality(Counted) \in Nat
  BY <1>1, <1>2, FS_Subset, FS_CardinalityType
<1>4. \A s \in Slot : SizeOf[s] = Entry(s).size /\ SizeOf[s] \in Nat
  BY SlotTyped DEF SizeOf
<1>5. Total(Counted, SizeOf) \in Nat
  BY <1>1, <1>3, <1>4, TotalType
<1> QED BY <1>1, <1>2, <1>3, <1>4, <1>5

LEMMA SizesNext ==
  /\ \A s \in Slot : SizeOf'[s] = Entry(s)'.size /\ SizeOf[s] = Entry(s).size
  /\ Total(Counted, SizeOf)' = Total(Counted', SizeOf')
  /\ Cardinality(Counted)' = Cardinality(Counted')
<1>1. \A s \in Slot : SizeOf'[s] = Entry(s)'.size /\ SizeOf[s] = Entry(s).size
  BY DEF SizeOf
<1>2. Total(Counted, SizeOf)' = Total(Counted', SizeOf')
  BY DEF Total, MapThenSumSet, MapThenFoldSet
<1>3. Cardinality(Counted)' = Cardinality(Counted')
  OBVIOUS
<1> QED BY <1>1, <1>2, <1>3

\* The same entries, or one fewer, or one more.
LEMMA SameTotal ==
  ASSUME Typed, Counted' = Counted,
         \A s \in Counted : Entry(s)'.size = Entry(s).size
  PROVE  /\ Cardinality(Counted)' = Cardinality(Counted)
         /\ Total(Counted, SizeOf)' = Total(Counted, SizeOf)
<1>1. \A s \in Counted : SizeOf'[s] = SizeOf[s]
  BY CountedFinite, SizesNext
<1>2. Total(Counted, SizeOf') = Total(Counted, SizeOf)
  BY <1>1, CountedFinite, TotalSame
<1> QED BY <1>2, SizesNext

LEMMA OneFewer ==
  ASSUME Typed, NEW s \in Counted, Counted' = Counted \ {s},
         \A t \in Counted : Entry(t)'.size = Entry(t).size
  PROVE  /\ Cardinality(Counted) = Cardinality(Counted)' + 1
         /\ Total(Counted, SizeOf) = Total(Counted, SizeOf)' + Entry(s).size
<1>1. \A t \in Counted \ {s} : SizeOf'[t] = SizeOf[t] /\ SizeOf[t] \in Nat
  BY CountedFinite, SizesNext
<1>2. IsFiniteSet(Counted \ {s}) /\ Cardinality(Counted \ {s}) = Cardinality(Counted) - 1
  BY CountedFinite, FS_RemoveElement
<1>3. Total(Counted \ {s}, SizeOf') = Total(Counted \ {s}, SizeOf)
  BY <1>1, <1>2, TotalSame
<1>4. Total(Counted, SizeOf) = SizeOf[s] + Total(Counted \ {s}, SizeOf)
  BY CountedFinite, TotalTakes
<1>5. SizeOf[s] = Entry(s).size /\ SizeOf[s] \in Nat
  BY CountedFinite
<1>6. Total(Counted \ {s}, SizeOf) \in Nat
  BY <1>1, <1>2, TotalType
<1> QED BY <1>2, <1>3, <1>4, <1>5, <1>6, CountedFinite, SizesNext

LEMMA OneMore ==
  ASSUME Typed, NEW s \in Slot, s \notin Counted, Counted' = Counted \cup {s},
         \A t \in Counted : Entry(t)'.size = Entry(t).size, Entry(s)'.size \in Nat
  PROVE  /\ Cardinality(Counted)' = Cardinality(Counted) + 1
         /\ Total(Counted, SizeOf)' = Total(Counted, SizeOf) + Entry(s)'.size
<1>1. \A t \in Counted : SizeOf'[t] = SizeOf[t] /\ SizeOf'[t] \in Nat
  BY CountedFinite, SizesNext
<1>2. Cardinality(Counted \cup {s}) = Cardinality(Counted) + 1 /\ IsFiniteSet(Counted \cup {s})
  BY CountedFinite, FS_AddElement
<1>3. Total(Counted, SizeOf') = Total(Counted, SizeOf)
  BY <1>1, CountedFinite, TotalSame
<1>4. SizeOf'[s] = Entry(s)'.size
  BY SizesNext
<1>5. (Counted \cup {s}) \ {s} = Counted
  OBVIOUS
<1>6. \A t \in Counted \cup {s} : SizeOf'[t] \in Nat
  BY <1>1, <1>4
<1>7. Total(Counted \cup {s}, SizeOf') = SizeOf'[s] + Total((Counted \cup {s}) \ {s}, SizeOf')
  BY <1>2, <1>6, TotalTakes
<1>8. Total(Counted \cup {s}, SizeOf') = Entry(s)'.size + Total(Counted, SizeOf)
  BY <1>3, <1>4, <1>5, <1>7
<1>9. /\ Total(Counted, SizeOf)' = Total(Counted \cup {s}, SizeOf')
      /\ Cardinality(Counted)' = Cardinality(Counted \cup {s})
  BY SizesNext
<1>10. Total(Counted, SizeOf) \in Nat
  BY CountedFinite
<1> QED BY <1>2, <1>8, <1>9, <1>10

\* Who writes the counters, and where the writer comes from.
LEMMA CounterStep ==
  ASSUME NEW S, Inv(S), WriterStep
  PROVE  /\ w.pc \in Returns => Uncount
         /\ w.pc = "clear" => Cleared
         /\ w.pc \notin Returns \cup {"clear"} =>
              PublishHash \/ UNCHANGED <<live, liveBytes>>
         /\ w'.pc \in Returns => RemoveEmpty
         /\ w'.pc = "clear" => Clear
<1>0. w \in Writers
  BY DEF Inv, Typed
<1>1. CASE \E k \in Keys, n \in Sizes, t \in Ttls : SetBegin(k, n, t)
  BY <1>1 DEF SetBegin, IdleWriter, Returns
<1>2. CASE \E k \in Keys : Delete(k)
  <2>1. PICK k \in Keys : Delete(k)
    BY <1>2
  <2>2. w.pc = "idle" /\ UNCHANGED <<live, liveBytes>>
    BY <2>1 DEF Delete
  <2>3. w'.pc \in {"idle", "empty"}
    <3>1. CASE FindSlot(k) >= 0
      <4>1. w' = Removing(FindSlot(k), "removed") /\ FindSlot(k) \in Slot
        BY <2>1, <3>1, SlotFound DEF Delete
      <4> QED BY <4>1, RemovingTyped DEF Inv, Returns
    <3>2. CASE ~(FindSlot(k) >= 0)
      BY <2>1, <2>2, <3>2 DEF Delete
    <3> QED BY <3>1, <3>2
  <2> QED BY <2>2, <2>3 DEF Returns
<1>3. CASE Clear
  <2>1. w.pc = "idle" /\ UNCHANGED <<live, liveBytes>>
    BY <1>3 DEF Clear
  <2>2. w'.pc = "clear"
    BY <1>3 DEF Clear, IdleWriter
  <2> QED BY <1>3, <2>1, <2>2 DEF Returns
<1>17. CASE Cleared
  <2>1. w.pc = "clear" /\ w'.pc = "idle"
    BY <1>17 DEF Cleared, IdleWriter
  <2> QED BY <1>17, <2>1 DEF Returns
<1>4. CASE SweepBegin
  BY <1>4 DEF SweepBegin, IdleWriter, Returns
<1>19. CASE SweepEnd
  BY <1>19 DEF SweepEnd, IdleWriter, Returns
<1>5. CASE SweepSkip \/ SweepRemove
  <2>1. w.pc = "sweep" /\ UNCHANGED <<live, liveBytes>>
    BY <1>5 DEF SweepSkip, SweepRemove, Scanning
  <2>2. w'.pc \in {"sweep", "empty"}
    BY <1>0, <1>5, <2>1 DEF SweepSkip, SweepRemove, Removing, Writers
  <2> QED BY <2>1, <2>2 DEF Returns
<1>6. CASE Swept \/ Removed
  <2>1. w.pc \in {"swept", "removed"} /\ Uncount
    BY <1>6 DEF Swept, Removed
  <2>2. w'.pc \in {"idle", "sweep"}
    <3>1. CASE Swept
      BY <1>0, <3>1 DEF Swept, Writers
    <3>2. CASE Removed
      BY <3>2 DEF Removed, IdleWriter
    <3> QED BY <1>6, <3>1, <3>2
  <2> QED BY <2>1, <2>2 DEF Returns
<1>7. CASE RemoveEmpty \/ RemoveMoveOff \/ RemoveMoveHash
  BY <1>0, <1>7 DEF RemoveEmpty, RemoveMoveOff, RemoveMoveHash, Writers, Returns, Inv, Staged,
     Shifts
<1>8. CASE DropDead
  BY <1>0, <1>8 DEF DropDead, MustDrop, Writers, Returns
<1>9. CASE DropLive
  <2>1. w.pc \in {"press", "alloc"} /\ UNCHANGED <<live, liveBytes>>
    BY <1>9 DEF DropLive, MustDrop
  <2>2. w'.pc = "empty"
    BY <1>0, <1>9, RemovalsBegin DEF Begins
  <2> QED BY <2>1, <2>2 DEF Returns
<1>10. CASE Evicted \/ Bump
  <2>1. w.pc \in {"evicted", "bump"} /\ w' = [w EXCEPT !.pc = w.loop]
    BY <1>10 DEF Evicted, Bump
  <2>2. w.loop \in {"press", "alloc"}
    BY <2>1 DEF Inv, Staged, Dropping, Stage, Moves, Shifts
  <2> QED BY <1>0, <1>10, <2>1, <2>2 DEF Evicted, Bump, Writers, Returns
<1>11. CASE ReappendInPlace \/ ReappendCopy \/ ReappendCopied \/ ReappendPublish
  BY <1>0, <1>11 DEF ReappendInPlace, ReappendCopy, ReappendCopied, ReappendPublish, MustDrop,
     Writers, Returns
<1>12. CASE PressDone \/ AllocGap \/ AllocPad \/ AllocPadded \/ AllocTake
  <2>1. w.pc \in {"press", "alloc", "padding"} /\ UNCHANGED <<live, liveBytes>>
    BY <1>12 DEF PressDone, AllocGap, AllocPad, AllocPadded, AllocTake
  <2>2. w'.pc \in {"idle", "alloc", "padding", "slot"}
    <3>1. CASE PressDone
      BY <1>0, <3>1 DEF PressDone, IdleWriter, Writers
    <3>2. CASE AllocGap
      BY <3>2 DEF AllocGap
    <3>3. CASE AllocPad \/ AllocPadded \/ AllocTake
      BY <1>0, <3>3 DEF AllocPad, AllocPadded, AllocTake, Writers
    <3> QED BY <1>12, <3>1, <3>2, <3>3
  <2> QED BY <2>1, <2>2 DEF Returns
<1>13. CASE RefuseSlot \/ Refused
  <2>1. w.pc \in {"slot", "refuse"} /\ UNCHANGED <<live, liveBytes>>
    BY <1>13 DEF RefuseSlot, Refused
  <2>2. w'.pc \in {"refuse", "idle"}
    BY <1>0, <1>13 DEF RefuseSlot, Refused, IdleWriter, Writers
  <2> QED BY <2>1, <2>2 DEF Returns
<1>18. CASE SetUnlink
  <2>1. w.pc = "slot" /\ UNCHANGED <<live, liveBytes>>
    BY <1>18 DEF SetUnlink
  <2>2. w'.pc \in {"empty", "write"}
    <3>1. CASE FindSlot(w.key) >= 0
      <4>1. w.key \in Keys
        BY <2>1 DEF Inv, Staged, Phase, Dropping, Stage, Moves, Shifts, SetStages
      <4>2. w' = Removing(FindSlot(w.key), "unlinked") /\ FindSlot(w.key) \in Slot
        BY <1>18, <3>1, <4>1, SlotFound DEF SetUnlink
      <4> QED BY <4>2, RemovingTyped DEF Inv, Returns
    <3>2. CASE ~(FindSlot(w.key) >= 0)
      BY <1>0, <1>18, <3>2 DEF SetUnlink, Writers
    <3> QED BY <3>1, <3>2
  <2> QED BY <2>1, <2>2 DEF Returns
<1>14. CASE Unlinked
  BY <1>0, <1>14 DEF Unlinked, IdleWriter, Writers, Returns
<1>15. CASE Write \/ Written \/ PublishOff
  BY <1>0, <1>15 DEF Write, Written, PublishOff, Writers, Returns
<1>16. CASE PublishHash
  BY <1>16 DEF PublishHash, IdleWriter, Returns
<1> QED
  BY <1>1, <1>2, <1>3, <1>4, <1>5, <1>6, <1>7, <1>8, <1>9, <1>10, <1>11, <1>12, <1>13,
     <1>14, <1>15, <1>16, <1>17, <1>18, <1>19 DEF WriterStep

\* An entry moves from slot j to slot i.
LEMMA OneMoved ==
  ASSUME Typed, NEW i \in Slot, NEW j \in Counted, i \notin Counted,
         Counted' = (Counted \ {j}) \cup {i},
         \A t \in Counted : Entry(t)'.size = Entry(t).size,
         Entry(i)'.size = Entry(j).size
  PROVE  /\ Cardinality(Counted)' = Cardinality(Counted)
         /\ Total(Counted, SizeOf)' = Total(Counted, SizeOf)
<1> DEFINE C == Counted \ {j}
<1>1. \A t \in C : SizeOf'[t] = SizeOf[t] /\ SizeOf[t] \in Nat
  BY CountedFinite, SizesNext
<1>2. /\ SizeOf'[i] = SizeOf[j] /\ SizeOf[j] \in Nat
  BY CountedFinite, SizesNext
<1>3. IsFiniteSet(C) /\ Cardinality(C) = Cardinality(Counted) - 1 /\ Cardinality(C) \in Nat
  BY CountedFinite, FS_RemoveElement, FS_CardinalityType
<1>4. i \notin C /\ (C \cup {i}) \ {i} = C
  OBVIOUS
<1>5. IsFiniteSet(C \cup {i}) /\ Cardinality(C \cup {i}) = Cardinality(C) + 1
  BY <1>3, <1>4, FS_AddElement
<1>6. Total(C, SizeOf') = Total(C, SizeOf)
  BY <1>1, <1>3, TotalSame
<1>7. Total(Counted, SizeOf) = SizeOf[j] + Total(C, SizeOf)
  BY CountedFinite, TotalTakes
<1>8. \A t \in C \cup {i} : SizeOf'[t] \in Nat
  BY <1>1, <1>2
<1>9. Total(C \cup {i}, SizeOf') = SizeOf'[i] + Total((C \cup {i}) \ {i}, SizeOf')
  BY <1>5, <1>8, TotalTakes
<1>10. /\ Total(Counted, SizeOf)' = Total(C \cup {i}, SizeOf')
       /\ Cardinality(Counted)' = Cardinality(C \cup {i})
  BY SizesNext
<1>11. Cardinality(Counted) \in Nat
  BY CountedFinite
<1>12. Total(C \cup {i}, SizeOf') = Total(Counted, SizeOf)
  BY <1>2, <1>4, <1>6, <1>7, <1>9
<1> QED BY <1>3, <1>5, <1>10, <1>11, <1>12

LEMMA CountsOf ==
  ASSUME w.pc # "clear", Counts
  PROVE  IF Stage \in Returns
         THEN live = Cardinality(Counted) + 1 /\ liveBytes = Total(Counted, SizeOf) + w.size
         ELSE live = Cardinality(Counted) /\ liveBytes = Total(Counted, SizeOf)
BY DEF Counts

\* A step after which the entries are the same ones, outside indexRemove.
LEMMA SteadyCounts ==
  ASSUME NEW S, Inv(S), Counts, WriterStep, ~PublishHash, Counted' = Counted,
         \A s \in Counted : Entry(s)'.size = Entry(s).size,
         w.pc \notin Shifts, w'.pc \notin Shifts
  PROVE  Counts'
<1>0. Typed /\ w \in Writers
  BY DEF Inv, Typed
<1>1. Stage = w.pc /\ Stage' = w'.pc
  BY DEF Stage
<1>2. w'.pc \notin Returns
  <2> SUFFICES ASSUME RemoveEmpty PROVE FALSE
    BY CounterStep
  <2> QED BY DEF RemoveEmpty, Shifts
<1>3. PICK c, b : c = Cardinality(Counted) /\ b = Total(Counted, SizeOf)
  OBVIOUS
<1>4. c \in Nat /\ b \in Nat
  BY <1>0, <1>3, CountedFinite
<1>5. Cardinality(Counted)' = c /\ Total(Counted, SizeOf)' = b
  BY <1>0, <1>3, SameTotal
<1> SUFFICES ASSUME w'.pc # "clear" PROVE live' = c /\ liveBytes' = b
  BY <1>1, <1>2, <1>5 DEF Counts
<1>6. CASE w.pc = "clear"
  <2>1. live' = 0 /\ liveBytes' = 0
    BY <1>6, CounterStep DEF Cleared
  <2>2. Counted = {}
    BY <1>6 DEF Inv, Staged, Counted
  <2>3. c = 0 /\ b = 0
    BY <1>3, <2>2, FS_EmptySet, TotalEmpty
  <2> QED BY <2>1, <2>3
<1>7. CASE w.pc \in Returns
  <2>1. live' = live - 1 /\ liveBytes' = liveBytes - w.size
    BY <1>7, CounterStep DEF Uncount
  <2>2. live = c + 1 /\ liveBytes = b + w.size
    BY <1>1, <1>3, <1>7 DEF Counts, Returns
  <2>3. w.size \in Nat
    BY <1>0 DEF Writers
  <2> QED BY <1>4, <2>1, <2>2, <2>3
<1>8. CASE w.pc \notin Returns \cup {"clear"}
  <2>1. live' = live /\ liveBytes' = liveBytes
    BY <1>8, CounterStep
  <2>2. live = c /\ liveBytes = b
    BY <1>1, <1>3, <1>8 DEF Counts
  <2> QED BY <2>1, <2>2
<1> QED BY <1>6, <1>7, <1>8

LEMMA CountsKeeps ==
  ASSUME NEW S, Inv(S), Mapped, Counts, WriterStep
  PROVE  Counts'
<1>0. Typed
  BY DEF Inv
<1>1. CASE Plain
  <2>1. /\ Counted' = Counted /\ \A s \in Counted : Entry(s)'.size = Entry(s).size
        /\ w.pc \notin Shifts /\ w'.pc \notin Shifts
    BY <1>1, PlainCounts DEF Plain
  <2>2. ~PublishHash
    <3> SUFFICES ASSUME PublishHash PROVE FALSE
      OBVIOUS
    <3> QED BY <2>1, PublishCounts
  <2> QED BY <2>1, <2>2, SteadyCounts
<1>2. CASE Settles
  <2>1. /\ Counted' = Counted /\ \A s \in Counted : Entry(s)'.size = Entry(s).size
        /\ w.pc \notin Shifts /\ w'.pc \notin Shifts
    BY <1>2, SettlesCounts DEF Settles, Shifts
  <2>2. ~PublishHash
    BY <1>2 DEF Settles, PublishHash
  <2> QED BY <2>1, <2>2, SteadyCounts
<1>3. CASE \E s : Begins(s)
  <2>1. PICK s : Begins(s)
    BY <1>3
  <2>2. /\ Counted' = Counted \ {s} /\ s \in Counted
        /\ \A t \in Counted : Entry(t)'.size = Entry(t).size
    BY <2>1, BeginCounts
  <2>3. /\ Stage = w.pc /\ w.pc \notin Returns \cup {"clear"}
        /\ Stage' = w'.ret /\ w'.ret \in Returns /\ w'.pc = "empty" /\ w'.size = Entry(s).size
    BY <2>1 DEF Begins, Stage, Shifts
  <2>4. ~PublishHash
    BY <2>3 DEF PublishHash, IdleWriter
  <2>5. live' = live /\ liveBytes' = liveBytes
    BY <2>3, <2>4, CounterStep
  <2>6. live = Cardinality(Counted) /\ liveBytes = Total(Counted, SizeOf)
    BY <2>3 DEF Counts
  <2>7. /\ Cardinality(Counted) = Cardinality(Counted)' + 1
        /\ Total(Counted, SizeOf) = Total(Counted, SizeOf)' + Entry(s).size
    BY <1>0, <2>2, OneFewer
  <2>8. live' = Cardinality(Counted)' + 1 /\ liveBytes' = Total(Counted, SizeOf)' + w'.size
    BY <2>3, <2>5, <2>6, <2>7
  <2> QED BY <2>3, <2>8 DEF Counts
<1>4. CASE RemoveEmpty \/ RemoveMoveOff
  <2>1. /\ Counted' = Counted /\ \A s \in Counted : Entry(s)'.size = Entry(s).size
        /\ w.ret \in Returns /\ w'.ret = w.ret /\ w'.size = w.size /\ w.pc \in Shifts
        /\ w'.pc \in {w.ret, "moveoff", "movehash"}
    <3>1. CASE RemoveEmpty
      BY <3>1, EmptyCounts DEF RemoveEmpty, Shifts
    <3>2. CASE RemoveMoveOff
      BY <3>2, MoveOffCounts DEF Shifts
    <3> QED BY <1>4, <3>1, <3>2
  <2>2. Stage = w.ret /\ Stage' = w.ret /\ w.pc # "clear"
    BY <2>1 DEF Stage, Shifts, Returns
  <2>3. live' = live /\ liveBytes' = liveBytes
    BY <1>4 DEF RemoveEmpty, RemoveMoveOff
  <2>4. /\ Cardinality(Counted)' = Cardinality(Counted)
        /\ Total(Counted, SizeOf)' = Total(Counted, SizeOf)
    BY <1>0, <2>1, SameTotal
  <2>5. live = Cardinality(Counted) + 1 /\ liveBytes = Total(Counted, SizeOf) + w.size
    BY <2>1, <2>2 DEF Counts
  <2> QED BY <2>1, <2>2, <2>3, <2>4, <2>5 DEF Counts
<1>5. CASE RemoveMoveHash
  <2>1. PICK i \in Slot : i = w.i
    BY <1>5, MoveHashCounts
  <2>2. PICK j \in Counted : j = w.j
    BY <1>5, MoveHashCounts
  <2>3. /\ i \notin Counted /\ Counted' = (Counted \ {j}) \cup {i}
        /\ \A s \in Counted : Entry(s)'.size = Entry(s).size
        /\ Entry(i)'.size = Entry(j).size
        /\ w.ret \in Returns /\ w'.ret = w.ret /\ w'.size = w.size /\ w.pc = "movehash"
        /\ w'.pc = "empty"
    BY <1>5, <2>1, <2>2, MoveHashCounts
  <2>4. Stage = w.ret /\ Stage' = w.ret /\ w.pc # "clear"
    BY <2>3 DEF Stage, Shifts
  <2>5. live' = live /\ liveBytes' = liveBytes
    BY <1>5 DEF RemoveMoveHash
  <2>6. /\ Cardinality(Counted)' = Cardinality(Counted)
        /\ Total(Counted, SizeOf)' = Total(Counted, SizeOf)
    BY <1>0, <2>3, OneMoved
  <2>7. live = Cardinality(Counted) + 1 /\ liveBytes = Total(Counted, SizeOf) + w.size
    BY <2>3, <2>4 DEF Counts
  <2> QED BY <2>3, <2>4, <2>5, <2>6, <2>7 DEF Counts
<1>6. CASE PublishHash
  <2>1. PICK i \in Slot : i = w.i
    BY <1>6, PublishCounts
  <2>2. /\ i \notin Counted /\ Counted' = Counted \cup {i}
        /\ \A s \in Counted : Entry(s)'.size = Entry(s).size
        /\ Entry(i)'.size = w.n /\ w.pc = "pubhash" /\ w'.pc = "idle"
    BY <1>6, <2>1, PublishCounts DEF IdleWriter
  <2>3. w.n \in Nat
    BY <1>0 DEF Typed, Writers
  <2>4. /\ Cardinality(Counted)' = Cardinality(Counted) + 1
        /\ Total(Counted, SizeOf)' = Total(Counted, SizeOf) + Entry(i)'.size
    BY <1>0, <2>2, <2>3, OneMore
  <2>5. Stage = "pubhash" /\ Stage' = "idle"
    BY <2>2 DEF Stage, Shifts
  <2>6. live = Cardinality(Counted) /\ liveBytes = Total(Counted, SizeOf)
    BY <2>2, <2>5 DEF Counts, Returns
  <2>7. live' = live + 1 /\ liveBytes' = liveBytes + w.n
    BY <1>6 DEF PublishHash
  <2> QED BY <2>2, <2>4, <2>5, <2>6, <2>7 DEF Counts, Returns
<1>7. CASE Clear
  BY <1>7, ClearMaps DEF Counts
<1> QED BY <1>1, <1>2, <1>3, <1>4, <1>5, <1>6, <1>7, StepMaps

-----------------------------------------------------------------------------
(* The bytes counted fit in the log.                                       *)

\* Distinct blocks of a chain, none before u, fit between u and its top.
LEMMA Packed ==
  ASSUME NEW S, NEW h \in [Units -> Hdrs], NEW t \in Nat, NEW top \in Nat,
         Chain(S, h, t, top),
         NEW C, IsFiniteSet(C), NEW off, NEW f,
         \A s \in C : off[s] \in S /\ off[s] < top /\ f[s] = Span(h, off[s]),
         \A s, c \in C : off[s] = off[c] => s = c,
         NEW u \in S, \A s \in C : u <= off[s]
  PROVE  Total(C, f) <= top - u
<1> DEFINE Good(n) == \A A \in SUBSET C, v \in S :
                        Cardinality(A) < n /\ (\A s \in A : v <= off[s]) => Total(A, f) <= top - v
           Bad == {n \in Nat : ~Good(n)}
<1>0. /\ S \subseteq Nat /\ \A v \in S : v \in Nat /\ v <= top
      /\ \A s \in C : /\ off[s] \in S /\ off[s] < top /\ off[s] \in Nat /\ f[s] \in Nat
                      /\ 0 < f[s] /\ off[s] + f[s] \in S
                      /\ \A q \in S : q <= off[s] \/ off[s] + f[s] <= q
  <2>1. S \subseteq Nat /\ \A v \in S : v \in Nat /\ v <= top
    BY DEF Chain
  <2>2. ASSUME NEW s \in C
        PROVE  /\ off[s] \in S /\ off[s] < top /\ off[s] \in Nat /\ f[s] \in Nat
               /\ 0 < f[s] /\ off[s] + f[s] \in S
               /\ \A q \in S : q <= off[s] \/ off[s] + f[s] <= q
    <3>1. off[s] \in S /\ off[s] < top /\ f[s] = Span(h, off[s])
      OBVIOUS
    <3>2. /\ off[s] \in Nat /\ Span(h, off[s]) \in Nat /\ 0 < Span(h, off[s])
          /\ off[s] + Span(h, off[s]) \in S
      BY <3>1, ChainFacts
    <3>3. \A q \in S : q <= off[s] \/ off[s] + Span(h, off[s]) <= q
      BY <3>1 DEF Chain
    <3> QED BY <3>1, <3>2, <3>3
  <2> QED BY <2>1, <2>2
<1>1. Good(0)
  <2> SUFFICES ASSUME NEW A \in SUBSET C, Cardinality(A) < 0 PROVE FALSE
    OBVIOUS
  <2> QED BY FS_Subset, FS_CardinalityType
<1>2. ASSUME NEW n \in Nat, Good(n) PROVE Good(n + 1)
  <2> SUFFICES ASSUME NEW A \in SUBSET C, NEW v \in S, Cardinality(A) < n + 1,
                      \A s \in A : v <= off[s]
               PROVE  Total(A, f) <= top - v
    OBVIOUS
  <2>0. IsFiniteSet(A) /\ v \in Nat /\ v <= top /\ Cardinality(A) \in Nat
    BY <1>0, FS_Subset, FS_CardinalityType
  <2>1. CASE A = {}
    <3>1. Total(A, f) = 0
      BY <2>1, TotalEmpty
    <3> QED BY <2>0, <3>1
  <2>2. CASE A # {}
    <3> DEFINE P == {off[s] : s \in A}
    <3>1. P # {} /\ P \subseteq Nat
      BY <1>0, <2>2
    <3>2. PICK p \in P : \A q \in P : p <= q
      BY <3>1, Least
    <3>3. PICK a \in A : p = off[a]
      BY <3>2
    <3>4. \A s \in A : off[a] <= off[s]
      BY <3>2, <3>3
    <3> HIDE DEF P
    <3>5. /\ off[a] \in Nat /\ f[a] \in Nat /\ 0 < f[a] /\ off[a] + f[a] \in S /\ v <= off[a]
          /\ \A q \in S : q <= off[a] \/ off[a] + f[a] <= q
      BY <1>0
    <3>6. \A s \in A \ {a} : off[a] + f[a] <= off[s]
      <4> SUFFICES ASSUME NEW s \in A \ {a} PROVE off[a] + f[a] <= off[s]
        OBVIOUS
      <4>1. off[s] \in S /\ off[s] \in Nat /\ off[s] # off[a]
        BY <1>0
      <4>2. off[a] <= off[s]
        BY <3>4
      <4>3. off[s] <= off[a] \/ off[a] + f[a] <= off[s]
        BY <3>5, <4>1
      <4> QED BY <3>5, <4>1, <4>2, <4>3
    <3>7. A \ {a} \in SUBSET C /\ Cardinality(A \ {a}) < n /\ IsFiniteSet(A \ {a})
      BY <2>0, FS_RemoveElement, FS_Subset
    <3>8. Total(A \ {a}, f) <= top - (off[a] + f[a])
      BY <1>2, <3>5, <3>6, <3>7
    <3>9. Total(A, f) = f[a] + Total(A \ {a}, f)
      BY <1>0, <2>0, TotalTakes
    <3>10. Total(A \ {a}, f) \in Nat
      BY <1>0, <3>7, TotalType
    <3>11. PICK b \in Nat : b = Total(A \ {a}, f)
      BY <3>10
    <3> QED BY <2>0, <3>5, <3>8, <3>9, <3>11
  <2> QED BY <2>1, <2>2
<1>3. \A n \in Nat : Good(n)
  <2> SUFFICES ASSUME Bad # {} PROVE FALSE
    OBVIOUS
  <2>1. PICK m \in Bad : \A n \in Bad : m <= n
    BY Least
  <2>2. m \in Nat /\ m # 0 /\ ~Good(m)
    BY <1>1, <2>1
  <2>3. m - 1 \in Nat /\ m - 1 < m
    BY <2>2
  <2>4. Good(m - 1)
    BY <2>1, <2>3
  <2>5. Good((m - 1) + 1)
    BY <1>2, <2>3, <2>4
  <2>6. (m - 1) + 1 = m
    BY <2>2
  <2> QED BY <2>2, <2>5, <2>6
<1> HIDE DEF Good
<1>4. Cardinality(C) \in Nat
  BY FS_CardinalityType
<1>5. Cardinality(C) + 1 \in Nat /\ Cardinality(C) < Cardinality(C) + 1
  BY <1>4
<1>6. Good(Cardinality(C) + 1)
  BY <1>3, <1>5
<1> QED BY <1>5, <1>6 DEF Good

\* Once the tail has passed the block it stands on, the entries lie beyond it.
LEMMA DropRoom ==
  ASSUME NEW S, Inv(S), DropDead
  PROVE  tail' \in Nat /\ Total(Counted, SizeOf) <= Top - tail'
<1>1. /\ MustDrop /\ ~LiveTail
  BY DEF DropDead
<1>2. /\ w.pc \in {"press", "alloc"} /\ tail < head /\ Top = head
      /\ head \in Nat /\ tail \in Nat /\ hd \in [Units -> Hdrs] /\ TailRec = hd[Phys(tail)]
      /\ Whole(hd, tail)
  BY <1>1, DropFacts
<1>3. Typed /\ Chain(S, hd, tail, Top) /\ Top \in Nat
  BY TopFacts
<1>4. tail' = tail + Span(hd, tail)
  <2>1. CASE GapAt(tail) > 0
    BY <2>1 DEF DropDead, Span
  <2>2. CASE ~(GapAt(tail) > 0)
    <3>1. TailRec.size \in 1 .. Data
      BY <1>2, <2>2, PhysType, Constants DEF Whole
    <3> QED BY <1>2, <2>2, <3>1 DEF DropDead, Span
  <2> QED BY <2>1, <2>2
<1>5. tail' \in S /\ tail' \in Nat /\ \A q \in S : q <= tail \/ tail' <= q
  BY <1>2, <1>3, <1>4 DEF Chain
<1>6. ASSUME NEW s \in Counted
      PROVE  /\ idx[s].off \in S /\ idx[s].off < Top /\ Entry(s).slot = s
             /\ SizeOf[s] = Span(hd, idx[s].off) /\ tail' <= idx[s].off
  <2>1. s \in Slot /\ idx[s].hash # Empty
    BY DEF Counted
  <2>2. /\ idx[s].off \in S /\ idx[s].off < Top
        /\ Rec(hd, body, idx[s].off, idx[s].hash) /\ Entry(s).slot = s
    BY <1>2, <2>1, AtRest DEF Shifts
  <2>3. idx[s].off \in Nat
    BY <1>3, <2>2 DEF Chain
  <2>4. SizeOf[s] = Span(hd, idx[s].off)
    BY <1>2, <2>1, <2>2, <2>3, RecFacts DEF SizeOf, Entry, HdrAt
  <2>5. idx[s].off # tail
    BY <1>1, <2>1, TailOwner
  <2>6. tail <= idx[s].off
    BY <1>3, <2>2 DEF Chain
  <2>7. tail' <= idx[s].off
    BY <1>2, <1>5, <2>2, <2>3, <2>5, <2>6
  <2> QED BY <2>2, <2>4, <2>7
<1> DEFINE off == [s \in Slot |-> idx[s].off]
<1>7. \A s \in Counted : /\ off[s] \in S /\ off[s] < Top /\ SizeOf[s] = Span(hd, off[s])
                         /\ tail' <= off[s]
  BY <1>6 DEF Counted
<1>8. \A s, c \in Counted : off[s] = off[c] => s = c
  <2> SUFFICES ASSUME NEW s \in Counted, NEW c \in Counted, off[s] = off[c] PROVE s = c
    OBVIOUS
  <2>1. Entry(s) = Entry(c)
    BY DEF Entry, Counted
  <2> QED BY <1>6, <2>1
<1>9. IsFiniteSet(Counted)
  BY <1>3, CountedFinite
<1>10. PICK o, v : o = off /\ v = tail'
  OBVIOUS
<1>11. /\ v \in S /\ \A s \in Counted : v <= o[s]
       /\ \A s \in Counted : o[s] \in S /\ o[s] < Top /\ SizeOf[s] = Span(hd, o[s])
       /\ \A s, c \in Counted : o[s] = o[c] => s = c
  BY <1>5, <1>7, <1>8, <1>10
<1>12. Total(Counted, SizeOf) <= Top - v
  BY <1>2, <1>3, <1>9, <1>11, Packed
<1> QED BY <1>5, <1>10, <1>12

\* Who moves the tail.
LEMMA TailMoves ==
  ASSUME WriterStep
  PROVE  tail' = tail \/ DropDead \/ Evicted \/ Bump \/ Cleared
<1>1. CASE \/ \E k \in Keys, n \in Sizes, t \in Ttls : SetBegin(k, n, t)
           \/ \E k \in Keys : Delete(k)
           \/ Clear \/ SweepBegin \/ SweepSkip \/ SweepRemove \/ Swept \/ SweepEnd \/ Removed
  BY <1>1 DEF SetBegin, Delete, Clear, SweepBegin, SweepSkip, SweepRemove, Swept, SweepEnd,
     Removed
<1>2. CASE \/ RemoveEmpty \/ RemoveMoveOff \/ RemoveMoveHash \/ DropLive
           \/ ReappendInPlace \/ ReappendCopy \/ ReappendCopied \/ ReappendPublish
  BY <1>2 DEF RemoveEmpty, RemoveMoveOff, RemoveMoveHash, DropLive, ReappendInPlace,
     ReappendCopy, ReappendCopied, ReappendPublish
<1>3. CASE \/ PressDone \/ AllocGap \/ AllocPad \/ AllocPadded \/ AllocTake
           \/ RefuseSlot \/ Refused \/ SetUnlink \/ Unlinked
           \/ Write \/ Written \/ PublishOff \/ PublishHash
  BY <1>3 DEF PressDone, AllocGap, AllocPad, AllocPadded, AllocTake, RefuseSlot, Refused,
     SetUnlink, Unlinked, Write, Written, PublishOff, PublishHash
<1> QED BY <1>1, <1>2, <1>3 DEF WriterStep

\* A set that is publishing does nothing else.
LEMMA FromPublishing ==
  ASSUME WriterStep, w.pc \in Publishing
  PROVE  Write \/ Written \/ PublishOff \/ PublishHash
<1>0. w.pc \in {"write", "writing", "puboff", "pubhash"}
  BY DEF Publishing
<1>1. ~\E k \in Keys, n \in Sizes, t \in Ttls : SetBegin(k, n, t)
  BY <1>0 DEF SetBegin
<1>2. ~\E k \in Keys : Delete(k)
  BY <1>0 DEF Delete
<1>3. ~(Clear \/ Cleared \/ SweepBegin \/ SweepSkip \/ SweepRemove \/ Swept \/ SweepEnd \/ Removed)
  BY <1>0 DEF Clear, Cleared, SweepBegin, SweepSkip, SweepRemove, Swept, SweepEnd, Removed,
     Scanning
<1>4. ~(RemoveEmpty \/ RemoveMoveOff \/ RemoveMoveHash \/ Evicted \/ Bump)
  BY <1>0 DEF RemoveEmpty, RemoveMoveOff, RemoveMoveHash, Evicted, Bump
<1>5. ~(DropDead \/ DropLive \/ ReappendInPlace \/ ReappendCopy \/ ReappendCopied
        \/ ReappendPublish)
  BY <1>0 DEF DropDead, DropLive, ReappendInPlace, ReappendCopy, ReappendCopied,
     ReappendPublish, MustDrop
<1>6. ~(PressDone \/ AllocGap \/ AllocPad \/ AllocPadded \/ AllocTake \/ RefuseSlot \/ Refused
        \/ SetUnlink \/ Unlinked)
  BY <1>0 DEF PressDone, AllocGap, AllocPad, AllocPadded, AllocTake, RefuseSlot, Refused,
     SetUnlink, Unlinked
<1> QED BY <1>1, <1>2, <1>3, <1>4, <1>5, <1>6 DEF WriterStep

\* The block a set has written and not yet published.
Pending == IF w.pc \in {"puboff", "pubhash"} THEN w.n ELSE 0

LEMMA PendingStep ==
  ASSUME NEW S, Inv(S), Mapped, WriterStep, ~Written
  PROVE  IF PublishOff THEN Pending' = Pending ELSE Pending' = 0
<1>0. w \in Writers
  BY DEF Inv, Typed
<1>1. CASE PublishOff
  BY <1>0, <1>1 DEF PublishOff, Pending, Writers
<1>2. CASE ~PublishOff
  <2> SUFFICES ASSUME w'.pc \in {"puboff", "pubhash"} PROVE FALSE
    BY <1>2 DEF Pending
  <2>1. w.pc \in Publishing => Write \/ PublishHash
    BY <1>2, FromPublishing
  <2>2. ~Write /\ ~PublishHash
    <3>1. Write => w'.pc = "writing"
      BY <1>0 DEF Write, Writers
    <3>2. PublishHash => w'.pc = "idle"
      BY DEF PublishHash, IdleWriter
    <3> QED BY <3>1, <3>2
  <2>3. w.pc \notin Publishing
    BY <2>1, <2>2
  <2>4. ~Plain
    BY <2>3 DEF Plain, Publishing
  <2>5. ~Settles
    BY DEF Settles
  <2>6. ~\E s : Begins(s)
    BY DEF Begins
  <2>7. ~(RemoveEmpty \/ RemoveMoveOff \/ RemoveMoveHash)
    <3>1. RemoveEmpty \/ RemoveMoveOff \/ RemoveMoveHash =>
            w'.pc \in Shifts \cup {w.ret} /\ w.ret \in Returns
      BY ShiftStage
    <3> QED BY <3>1 DEF Shifts, Returns
  <2>8. ~Clear
    BY DEF Clear, IdleWriter
  <2> QED BY <2>2, <2>4, <2>5, <2>6, <2>7, <2>8, StepMaps
<1> QED BY <1>1, <1>2

\* The counters are numbers, and what they count lies between the tail and the top.
Fits ==
  /\ live \in 0 .. Slots
  /\ liveBytes \in Nat /\ liveBytes + Pending <= Top - tail

LEMMA LiveFits ==
  ASSUME NEW S, Inv(S), Mapped, Counts, Fits, WriterStep
  PROVE  live' \in 0 .. Slots
<1>0. Typed /\ live \in Nat /\ live <= Slots /\ Slots \in Nat
  BY Constants DEF Inv, Fits
<1>1. CASE w.pc \in Returns
  <2>1. live' = live - 1
    BY <1>1, CounterStep DEF Uncount
  <2>2. live = Cardinality(Counted) + 1
    BY <1>1 DEF Counts, Stage, Shifts, Returns
  <2>3. Cardinality(Counted) \in Nat
    BY <1>0, CountedFinite
  <2> QED BY <1>0, <2>1, <2>2, <2>3
<1>2. CASE w.pc = "clear"
  <2>1. live' = 0
    BY <1>2, CounterStep DEF Cleared
  <2> QED BY <1>0, <2>1
<1>3. CASE PublishHash
  <2>1. Counts'
    BY CountsKeeps
  <2>2. w'.pc = "idle"
    BY <1>3 DEF PublishHash, IdleWriter
  <2>3. live' = Cardinality(Counted')
    <3>1. Stage' \notin Returns /\ w'.pc # "clear"
      BY <2>2 DEF Stage, Shifts, Returns
    <3>2. live' = Cardinality(Counted)'
      BY <2>1, <3>1 DEF Counts
    <3> QED BY <3>2, SizesNext
  <2>4. Counted' \subseteq Slot
    BY DEF Counted
  <2>5. 0 \in Int /\ Slots - 1 \in Int /\ ~(0 > Slots - 1) /\ (Slots - 1) - 0 + 1 = Slots
    BY Constants
  <2>6. IsFiniteSet(Slot) /\ Cardinality(Slot) = Slots
    BY <2>5, FS_Interval DEF Slot
  <2>7. Cardinality(Counted') <= Slots /\ Cardinality(Counted') \in Nat
    BY <2>4, <2>6, FS_Subset, FS_CardinalityType
  <2> QED BY <1>0, <2>3, <2>7
<1>4. CASE w.pc \notin Returns \cup {"clear"} /\ ~PublishHash
  <2>1. live' = live
    BY <1>4, CounterStep
  <2> QED BY <1>0, <2>1
<1> QED BY <1>1, <1>2, <1>3, <1>4

LEMMA BytesFit ==
  ASSUME NEW S, Inv(S), Mapped, Counts, Fits, WriterStep
  PROVE  liveBytes' \in Nat /\ liveBytes' + Pending' <= Top' - tail'
<1>0. /\ Typed /\ w \in Writers /\ tail \in Nat /\ Top \in Nat /\ head \in Nat /\ tail <= Top
      /\ liveBytes \in Nat /\ liveBytes + Pending <= Top - tail
  BY TopFacts DEF Inv, Fits, Typed
<1>1. w.n \in Nat /\ w.size \in Nat /\ Pending \in Nat /\ (Pending = 0 \/ Pending = w.n)
  BY <1>0 DEF Writers, Pending
<1>2. PICK T : Inv(T)'
  BY WriterKeeps
<1>3. /\ tail' \in Nat /\ Top' \in Nat /\ tail' <= Top' /\ Top' >= Top
  <2>1. tail' \in Nat /\ Top' \in Nat /\ tail' <= Top'
    BY <1>2 DEF Inv, Typed, Chain
  <2> QED BY <2>1, TopStep
<1>4. Total(Counted, SizeOf) \in Nat
  BY <1>0, CountedFinite
<1>5. CASE Written
  <2>1. /\ w.pc = "writing" /\ tail' = tail /\ head' = head /\ liveBytes' = liveBytes
        /\ w' = [w EXCEPT !.pc = "puboff"]
    BY <1>5 DEF Written
  <2>2. Top = w.pos /\ head = w.pos + w.n /\ w.pos \in Nat
    BY <2>1, TakenFacts
  <2>3. w'.pc = "puboff" /\ w'.n = w.n
    BY <1>0, <2>1 DEF Writers
  <2>4. Top' = head
    BY <2>1, <2>3 DEF Top, Taken, Stage, Shifts
  <2>5. Pending = 0 /\ Pending' = w.n
    BY <2>1, <2>3 DEF Pending
  <2> QED BY <1>0, <1>1, <2>1, <2>2, <2>4, <2>5
<1>6. CASE PublishHash
  <2>1. w.pc = "pubhash" /\ tail' = tail /\ liveBytes' = liveBytes + w.n /\ w'.pc = "idle"
    BY <1>6 DEF PublishHash, IdleWriter
  <2>2. Pending = w.n /\ Pending' = 0
    BY <2>1 DEF Pending
  <2> QED BY <1>0, <1>1, <1>3, <2>1, <2>2
<1>7. CASE DropDead
  <2>1. /\ w.pc \in {"press", "alloc"} /\ liveBytes' = liveBytes
        /\ w' = [w EXCEPT !.guard = w.guard + 1]
    BY <1>7 DEF DropDead, MustDrop
  <2>2. Total(Counted, SizeOf) <= Top - tail'
    BY <1>7, DropRoom
  <2>3. liveBytes = Total(Counted, SizeOf)
    BY <2>1 DEF Counts, Stage, Shifts, Returns
  <2>4. w'.pc = w.pc
    BY <1>0, <2>1 DEF Writers
  <2>5. Pending' = 0
    BY <2>1, <2>4 DEF Pending
  <2> QED BY <1>0, <1>3, <2>1, <2>2, <2>3, <2>5
<1>8. CASE Evicted
  <2>1. /\ w.pc = "evicted" /\ liveBytes' = liveBytes - w.size /\ tail' = tail + w.size
        /\ w' = [w EXCEPT !.pc = w.loop]
    BY <1>8 DEF Evicted, Uncount
  <2>2. liveBytes = Total(Counted, SizeOf) + w.size
    BY <2>1 DEF Counts, Stage, Shifts, Returns
  <2>3. w.loop \in {"press", "alloc"}
    BY <2>1 DEF Inv, Staged, Dropping, Stage, Shifts, Moves
  <2>4. w'.pc \in {"press", "alloc"}
    BY <1>0, <2>1, <2>3 DEF Writers
  <2>5. Pending = 0 /\ Pending' = 0
    BY <2>1, <2>4 DEF Pending
  <2> QED BY <1>0, <1>1, <1>3, <1>4, <2>1, <2>2, <2>5
<1>9. CASE Bump
  <2>1. /\ w.pc = "bump" /\ liveBytes' = liveBytes /\ tail' = tail + w.size
        /\ head' = head + w.size /\ w' = [w EXCEPT !.pc = w.loop]
    BY <1>9 DEF Bump
  <2>2. w.loop \in {"press", "alloc"}
    BY <2>1 DEF Inv, Staged, Dropping, Stage, Shifts, Moves
  <2>3. w'.pc \in {"press", "alloc"}
    BY <1>0, <2>1, <2>2 DEF Writers
  <2>4. Pending = 0 /\ Pending' = 0
    BY <2>1, <2>3 DEF Pending
  <2>5. Top = head
    BY <2>1 DEF Top, Taken, Stage, Shifts
  <2>6. Top' = head'
    BY <2>3 DEF Top, Taken, Stage, Shifts
  <2> QED BY <1>0, <1>1, <2>1, <2>4, <2>5, <2>6
<1>10. CASE Cleared
  <2>1. liveBytes' = 0 /\ tail' = head /\ w'.pc = "idle"
    BY <1>10 DEF Cleared, IdleWriter
  <2>2. Pending' = 0
    BY <2>1 DEF Pending
  <2>3. PICK a \in Nat : a = Top'
    BY <1>3
  <2>4. PICK b \in Nat : b = tail'
    BY <1>3
  <2>5. b <= a
    BY <1>3, <2>3, <2>4
  <2>6. 0 + 0 <= a - b
    BY <2>5
  <2> QED BY <2>1, <2>2, <2>3, <2>4, <2>6
<1>11. CASE tail' = tail /\ ~Written /\ ~PublishHash
  <2>1. Pending' \in Nat /\ Pending' <= Pending
    BY <1>1, <1>11, PendingStep
  <2>2. liveBytes' \in Nat /\ liveBytes' <= liveBytes
    <3>1. CASE w.pc \in Returns
      <4>1. liveBytes' = liveBytes - w.size
        BY <3>1, CounterStep DEF Uncount
      <4>2. liveBytes = Total(Counted, SizeOf) + w.size
        BY <3>1 DEF Counts, Stage, Shifts, Returns
      <4> QED BY <1>1, <1>4, <4>1, <4>2
    <3>2. CASE w.pc = "clear"
      <4>1. liveBytes' = 0
        BY <3>2, CounterStep DEF Cleared
      <4> QED BY <1>0, <4>1
    <3>3. CASE w.pc \notin Returns \cup {"clear"}
      BY <1>0, <1>11, <3>3, CounterStep
    <3> QED BY <3>1, <3>2, <3>3
  <2>3. PICK a \in Nat : a = Top'
    BY <1>3
  <2>4. PICK b \in Nat : b = liveBytes'
    BY <2>2
  <2>5. PICK c \in Nat : c = Pending'
    BY <2>1
  <2>6. b + c <= a - tail
    <3>1. b <= liveBytes /\ c <= Pending /\ Top <= a
      BY <1>3, <2>1, <2>2, <2>3, <2>4, <2>5
    <3> QED BY <1>0, <1>1, <3>1
  <2> QED BY <1>11, <2>2, <2>3, <2>4, <2>5, <2>6
<1> QED BY <1>5, <1>6, <1>7, <1>8, <1>9, <1>10, <1>11, TailMoves

LEMMA FitsKeeps ==
  ASSUME NEW S, Inv(S), Mapped, Counts, Fits, WriterStep
  PROVE  Fits'
BY LiveFits, BytesFit DEF Fits

-----------------------------------------------------------------------------
(* The ranges of what is stored.                                           *)

Small(h, b) ==
  \A u \in Units : /\ h[u].size <= Data /\ h[u].ver <= MaxOps
                   /\ b[u] \in (0 .. MaxOps) \X Units

Ranged ==
  /\ Small(hd, body) /\ hint \in [Slot -> BOOLEAN]
  /\ w.ver <= MaxOps /\ nops <= MaxOps /\ aged \subseteq 1 .. MaxOps /\ cursor \in Slot

LEMMA UnsettleSmall ==
  ASSUME Typed, Small(hd, body), NEW u, NEW n, Unsettle(u, n)
  PROVE  Small(hd', body')
<1>1. PICK s \in SeqsAt(u) :
        hd' = [x \in Units |-> IF x = u THEN [NoHdr EXCEPT !.seq = Odd(s)]
                               ELSE IF x \in u .. u + n - 1 THEN NoHdr ELSE hd[x]]
  BY DEF Unsettle
<1>2. body' = [x \in Units |-> IF x \in u .. u + n - 1 THEN Garbage ELSE body[x]]
  BY DEF Unsettle
<1>3. Garbage \in (0 .. MaxOps) \X Units /\ MaxOps \in Nat /\ 0 <= Data
  BY ArenaAssumption DEF Garbage, Units
<1>4. PICK o : o = [NoHdr EXCEPT !.seq = Odd(s)]
  OBVIOUS
<1>5. o.size = 0 /\ o.ver = 0 /\ NoHdr.size = 0 /\ NoHdr.ver = 0
  BY <1>4 DEF NoHdr
<1>6. ASSUME NEW x \in Units
      PROVE  /\ hd'[x].size <= Data /\ hd'[x].ver <= MaxOps
             /\ body'[x] \in (0 .. MaxOps) \X Units
  <2>1. hd'[x] \in {o, NoHdr, hd[x]} /\ body'[x] \in {Garbage, body[x]}
    BY <1>1, <1>2, <1>4
  <2> QED BY <1>3, <1>5, <2>1 DEF Small
<1> QED BY <1>6 DEF Small

LEMMA SettleSmall ==
  ASSUME Typed, Small(hd, body), NEW q \in Nat, NEW e \in Hdrs, Settle(Phys(q), e),
         e.size <= Data, e.ver <= MaxOps, body' = body \/ Payload(Phys(q), e)
  PROVE  Small(hd', body')
<1>1. PICK u \in Units : u = Phys(q)
  BY PhysType
<1>2. PICK m \in Nat, v \in Nat : m = e.size /\ v = e.ver
  BY DEF Hdrs
<1>3. ASSUME NEW x \in Units PROVE hd'[x].size <= Data /\ hd'[x].ver <= MaxOps
  <2>1. CASE x = u
    BY <1>1, <2>1, Settled
  <2>2. CASE x # u
    BY <1>1, <2>2, Settled DEF Small
  <2> QED BY <2>1, <2>2
<1>4. ASSUME NEW x \in Units PROVE body'[x] \in (0 .. MaxOps) \X Units
  <2>1. CASE body' = body
    BY <2>1 DEF Small
  <2>2. CASE Payload(Phys(q), e)
    <3>1. body'[x] = IF x \in u .. u + m - 1 THEN <<v, x - u>> ELSE body[x]
      BY <1>1, <1>2, <2>2 DEF Payload
    <3>2. CASE x \in u .. u + m - 1
      <4>1. x - u \in Units /\ v \in 0 .. MaxOps
        BY <1>2, <3>2, Constants, ArenaAssumption DEF Units
      <4> QED BY <3>1, <3>2, <4>1
    <3>3. CASE x \notin u .. u + m - 1
      BY <3>1, <3>3 DEF Small
    <3> QED BY <3>2, <3>3
  <2> QED BY <2>1, <2>2
<1> QED BY <1>3, <1>4 DEF Small

LEMMA SmallKeeps ==
  ASSUME NEW S, Inv(S), Ranged, WriterStep
  PROVE  Small(hd', body')
<1>0. /\ Typed /\ Small(hd, body) /\ tail \in Nat /\ head \in Nat /\ w.pos \in Nat
      /\ MaxOps \in Nat /\ w.ver \in Nat /\ w.ver <= MaxOps /\ w.n \in Nat
  BY WriterFields, ArenaAssumption DEF Inv, Typed, Ranged
<1>1. CASE ReappendCopy \/ AllocPad \/ RefuseSlot \/ Write
  BY <1>0, <1>1, UnsettleSmall DEF ReappendCopy, AllocPad, RefuseSlot, Write
<1>2. CASE ReappendCopied
  <2>1. w.pc = "copying" /\ Settle(Phys(head), TailRec) /\ Payload(Phys(head), TailRec)
    BY <1>2 DEF ReappendCopied
  <2>2. TailRec \in Hdrs /\ TailRec = hd[Phys(tail)] /\ Phys(tail) \in Units
    BY <1>0, HdrTyped, PhysType DEF TailRec
  <2>3. TailRec.size <= Data /\ TailRec.ver <= MaxOps
    BY <1>0, <2>2 DEF Small
  <2> QED BY <1>0, <2>1, <2>2, <2>3, SettleSmall
<1>3. CASE AllocPadded
  <2>1. Settle(Phys(head), PadRecord(Remain(head))) /\ body' = body
    BY <1>3 DEF AllocPadded
  <2>2. Remain(head) \in Nat /\ Remain(head) <= Data
    BY <1>0, PhysType
  <2>3. PICK e : e = PadRecord(Remain(head))
    OBVIOUS
  <2>4. e \in Hdrs /\ e.size <= Data
    BY <2>2, <2>3, PadTyped
  <2>5. e.ver <= MaxOps
    BY <1>0, <2>3 DEF PadRecord, NoHdr
  <2> QED BY <1>0, <2>1, <2>3, <2>4, <2>5, SettleSmall
<1>4. CASE Refused
  <2>1. Settle(Phys(w.pos), PadRecord(w.n)) /\ body' = body /\ w.pc = "refuse"
    BY <1>4 DEF Refused
  <2>2. w.n <= Data
    BY <1>0, <2>1, TakenFacts, Constants
  <2>3. PICK e : e = PadRecord(w.n)
    OBVIOUS
  <2>4. e \in Hdrs /\ e.size <= Data
    BY <1>0, <2>2, <2>3, PadTyped
  <2>5. e.ver <= MaxOps
    BY <1>0, <2>3 DEF PadRecord, NoHdr
  <2> QED BY <1>0, <2>1, <2>3, <2>4, <2>5, SettleSmall
<1>5. CASE Written
  <2>1. PICK e : e = [NoHdr EXCEPT !.slot = w.i, !.hash = Hash[w.key], !.size = w.n,
                                   !.key = w.key, !.ver = w.ver, !.ttl = w.ttl]
    OBVIOUS
  <2>2. w.pc = "writing" /\ Settle(Phys(w.pos), e) /\ Payload(Phys(w.pos), e)
    BY <1>5, <2>1 DEF Written
  <2>3. /\ w.key \in Keys /\ w.n > Hdr /\ Hash[w.key] \in Nat \ {0, 1} /\ w.n <= Data
        /\ w.i \in Slot
    BY <1>0, <2>2, TakenFacts, Constants DEF Inv, Staged
  <2>4. e \in Hdrs /\ e.size = w.n /\ e.ver = w.ver
    BY <1>0, <2>1, <2>3, WrittenHeader
  <2> QED BY <1>0, <2>2, <2>3, <2>4, SettleSmall
<1>6. CASE RemoveMoveOff
  <2>1. body' = body
    BY <1>6 DEF RemoveMoveOff
  <2>2. ASSUME NEW u \in Units PROVE hd'[u].size <= Data /\ hd'[u].ver <= MaxOps
    <3>1. u \in Nat /\ Phys(u) = u
      <4>1. u \in 0 .. (Data - 1) /\ Data \in Nat \ {0} /\ u \in Int
        BY Constants DEF Units
      <4>2. u = Data * 0 + u
        BY <4>1
      <4>3. u % Data = u
        BY <4>1, <4>2, LapUnique
      <4> QED BY <4>1, <4>3 DEF Phys
    <3>2. hd'[u].size = hd[u].size /\ hd'[u].ver = hd[u].ver
      BY <1>6, <3>1, SlotWordOnly
    <3> QED BY <1>0, <3>2 DEF Small
  <2> QED BY <1>0, <2>1, <2>2 DEF Small
<1>7. CASE UNCHANGED <<hd, body>>
  BY <1>0, <1>7
<1>8. CASE \/ \E k \in Keys, n \in Sizes, t \in Ttls : SetBegin(k, n, t)
           \/ \E k \in Keys : Delete(k)
           \/ Clear \/ Cleared \/ SweepBegin \/ SweepSkip \/ SweepRemove \/ Swept \/ SweepEnd
           \/ Removed
  BY <1>7, <1>8 DEF SetBegin, Delete, Clear, Cleared, SweepBegin, SweepSkip, SweepRemove,
     Swept, SweepEnd, Removed
<1>9. CASE \/ RemoveEmpty \/ RemoveMoveHash \/ DropDead \/ DropLive \/ Evicted \/ Bump
           \/ ReappendInPlace \/ ReappendPublish \/ PressDone \/ AllocGap \/ AllocTake
           \/ SetUnlink \/ Unlinked \/ PublishOff \/ PublishHash
  BY <1>7, <1>9 DEF RemoveEmpty, RemoveMoveHash, DropDead, DropLive, Evicted, Bump,
     ReappendInPlace, ReappendPublish, PressDone, AllocGap, AllocTake, SetUnlink, Unlinked,
     PublishOff, PublishHash
<1> QED BY <1>1, <1>2, <1>3, <1>4, <1>5, <1>6, <1>8, <1>9 DEF WriterStep

LEMMA HintKeeps ==
  ASSUME NEW S, Inv(S), Ranged, WriterStep
  PROVE  hint' \in [Slot -> BOOLEAN]
<1>0. hint \in [Slot -> BOOLEAN] /\ Typed
  BY DEF Ranged, Inv
<1>1. CASE RemoveEmpty
  BY <1>0, <1>1 DEF RemoveEmpty
<1>2. CASE RemoveMoveOff
  <2>1. w.j \in Slot
    BY <1>2 DEF RemoveMoveOff, Inv, Staged
  <2> QED BY <1>0, <1>2, <2>1 DEF RemoveMoveOff
<1>3. CASE ReappendInPlace \/ ReappendCopied
  BY <1>0, <1>3 DEF ReappendInPlace, ReappendCopied
<1>4. CASE PublishHash
  BY <1>0, <1>4 DEF PublishHash
<1>5. CASE Clear
  BY <1>5 DEF Clear
<1>6. CASE hint' = hint
  BY <1>0, <1>6
<1>7. CASE \/ \E k \in Keys, n \in Sizes, t \in Ttls : SetBegin(k, n, t)
           \/ \E k \in Keys : Delete(k)
           \/ Cleared \/ SweepBegin \/ SweepSkip \/ SweepRemove \/ Swept \/ SweepEnd
           \/ Removed \/ RemoveMoveHash \/ DropDead \/ DropLive \/ Evicted \/ Bump
  BY <1>6, <1>7 DEF SetBegin, Delete, Cleared, SweepBegin, SweepSkip, SweepRemove,
     Swept, SweepEnd, Removed, RemoveMoveHash, DropDead, DropLive, Evicted, Bump
<1>8. CASE \/ ReappendCopy \/ ReappendPublish \/ PressDone \/ AllocGap \/ AllocPad
           \/ AllocPadded \/ AllocTake \/ RefuseSlot \/ Refused
           \/ SetUnlink \/ Unlinked \/ Write \/ Written \/ PublishOff
  BY <1>6, <1>8 DEF ReappendCopy, ReappendPublish, PressDone, AllocGap, AllocPad,
     AllocPadded, AllocTake, RefuseSlot, Refused, SetUnlink, Unlinked, Write, Written, PublishOff
<1> QED BY <1>1, <1>2, <1>3, <1>4, <1>5, <1>7, <1>8 DEF WriterStep

\* The version of a set is the number of its operation.
LEMMA AsideKeeps ==
  ASSUME NEW S, Inv(S), Ranged, WriterStep
  PROVE  /\ w'.ver <= MaxOps /\ nops' <= MaxOps /\ aged' = aged /\ cursor' \in Slot
<1>0. /\ w \in Writers /\ w.i \in Nat /\ MaxOps \in Nat /\ nops \in Nat /\ w.ver <= MaxOps
      /\ nops <= MaxOps /\ cursor \in Slot /\ IdleWriter.ver = 0
  BY ArenaAssumption DEF Inv, Typed, Writers, Ranged, IdleWriter
<1>1. CASE \E k \in Keys, n \in Sizes, t \in Ttls : SetBegin(k, n, t)
  BY <1>0, <1>1 DEF SetBegin, IdleWriter
<1>2. CASE \E k \in Keys : Delete(k)
  <2>1. PICK k \in Keys : Delete(k)
    BY <1>2
  <2>2. nops' = nops + 1 /\ nops < MaxOps /\ aged' = aged /\ cursor' = cursor
    BY <2>1 DEF Delete
  <2>3. w'.ver = w.ver
    BY <1>0, <2>1 DEF Delete, Removing, Writers
  <2> QED BY <1>0, <2>2, <2>3
<1>3. CASE Clear \/ SweepBegin
  <2>1. nops' = nops + 1 /\ nops < MaxOps /\ aged' = aged /\ cursor' = cursor
    BY <1>3 DEF Clear, SweepBegin
  <2>2. w'.ver = 0
    BY <1>3 DEF Clear, SweepBegin, IdleWriter
  <2> QED BY <1>0, <2>1, <2>2
<1>4. CASE SweepEnd
  <2>1. cursor' = (IF w.i >= Slots THEN 0 ELSE w.i) /\ w' = IdleWriter /\ UNCHANGED <<aged, nops>>
    BY <1>4 DEF SweepEnd
  <2>2. cursor' \in Slot
    BY <1>0, <2>1, Constants DEF Slot
  <2> QED BY <1>0, <2>1, <2>2
<1>5. CASE UNCHANGED aside /\ (w' = IdleWriter \/ w' = w \/ w'.ver = w.ver)
  BY <1>0, <1>5 DEF aside
<1>6. CASE SweepSkip \/ SweepRemove \/ Swept
  BY <1>0, <1>5, <1>6 DEF SweepSkip, SweepRemove, Swept, Removing, Writers
<1>7. CASE Cleared \/ Removed \/ Refused \/ PublishHash
  BY <1>5, <1>7 DEF Cleared, Removed, Refused, PublishHash
<1>8. CASE RemoveEmpty
  BY <1>0, <1>5, <1>8 DEF RemoveEmpty, Writers
<1>9. CASE RemoveMoveOff \/ RemoveMoveHash
  BY <1>0, <1>5, <1>9 DEF RemoveMoveOff, RemoveMoveHash, Writers
<1>10. CASE DropDead \/ Evicted \/ Bump
  BY <1>0, <1>5, <1>10 DEF DropDead, Evicted, Bump, Writers
<1>11. CASE DropLive
  BY <1>0, <1>5, <1>11 DEF DropLive, Removing, Writers
<1>12. CASE ReappendInPlace \/ ReappendCopy \/ ReappendCopied \/ ReappendPublish
  BY <1>0, <1>5, <1>12 DEF ReappendInPlace, ReappendCopy, ReappendCopied, ReappendPublish, Writers
<1>13. CASE PressDone
  BY <1>0, <1>5, <1>13 DEF PressDone, Writers
<1>14. CASE AllocGap \/ AllocPad \/ AllocPadded \/ AllocTake \/ RefuseSlot
  BY <1>0, <1>5, <1>14 DEF AllocGap, AllocPad, AllocPadded, AllocTake, RefuseSlot, Writers
<1>15. CASE SetUnlink
  BY <1>0, <1>5, <1>15 DEF SetUnlink, Removing, Writers
<1>16. CASE Unlinked
  BY <1>0, <1>5, <1>16 DEF Unlinked, Writers
<1>17. CASE Write \/ Written \/ PublishOff
  BY <1>0, <1>5, <1>17 DEF Write, Written, PublishOff, Writers
<1> QED
  BY <1>1, <1>2, <1>3, <1>4, <1>6, <1>7, <1>8, <1>9, <1>10, <1>11, <1>12, <1>13, <1>14,
     <1>15, <1>16, <1>17 DEF WriterStep

LEMMA RangedKeeps ==
  ASSUME NEW S, Inv(S), Ranged, WriterStep
  PROVE  Ranged'
<1>1. aged' = aged /\ aged \subseteq 1 .. MaxOps
  BY AsideKeeps DEF Ranged
<1> QED BY <1>1, SmallKeeps, HintKeeps, AsideKeeps DEF Ranged

-----------------------------------------------------------------------------

SoundInv == IInv /\ Mapped /\ Counts /\ Fits /\ Ranged

LEMMA InitSound == Init => SoundInv
<1> SUFFICES ASSUME Init PROVE SoundInv
  OBVIOUS
<1>0. /\ \A s \in Slot : idx[s].hash = Empty
      /\ w.pc = "idle" /\ w.ver = 0 /\ head = 0 /\ tail = 0 /\ live = 0 /\ liveBytes = 0
      /\ nops = 0 /\ aged = {} /\ cursor = 0 /\ hint = [s \in Slot |-> FALSE]
      /\ hd = [u \in Units |-> ZeroHdr] /\ body = [u \in Units |-> Garbage]
  BY DEF Init, IdleWriter
<1>1. IInv
  BY InitInv DEF IInv
<1>2. Counted = {}
  BY <1>0 DEF Counted
<1>3. Mapped
  BY <1>0, <1>2 DEF Mapped, Paths, OneEach, NewKey, NewPath, Publishing
<1>4. Stage = "idle" /\ Top = 0 /\ Pending = 0
  BY <1>0 DEF Stage, Top, Taken, Shifts, Pending
<1>5. Counts
  <2>1. Cardinality(Counted) = 0 /\ Total(Counted, SizeOf) = 0
    BY <1>2, FS_EmptySet, TotalEmpty
  <2> QED BY <1>0, <1>4, <2>1 DEF Counts, Returns
<1>6. Fits
  BY <1>0, <1>4, Constants DEF Fits
<1>7. Small(hd, body)
  <2>1. ZeroHdr.size = 0 /\ ZeroHdr.ver = 0
    BY DEF ZeroHdr, NoHdr
  <2>2. Garbage \in (0 .. MaxOps) \X Units /\ MaxOps \in Nat
    BY Constants, ArenaAssumption DEF Garbage, Units
  <2> QED BY <1>0, <2>1, <2>2, Constants DEF Small
<1>8. Ranged
  BY <1>0, <1>7, Constants, ArenaAssumption DEF Ranged, Slot
<1> QED BY <1>1, <1>3, <1>5, <1>6, <1>8 DEF SoundInv

\* A step that the writer does not take.
LEMMA StillSound ==
  ASSUME NEW S, Inv(S), Mapped, Counts, Fits, UNCHANGED wvars
  PROVE  Mapped' /\ Counts' /\ Fits'
<1>0. UNCHANGED <<idx, hd, body, head, tail, live, liveBytes, w>>
  BY DEF wvars
<1>1. Stage' = Stage /\ Counted' = Counted /\ Top' = Top /\ Pending' = Pending
  BY <1>0 DEF Stage, Counted, Top, Taken, Pending
<1>2. \A s : Entry(s)' = Entry(s)
  BY <1>0 DEF Entry, HdrAt, Phys
<1>3. Paths'
  BY <1>0, <1>1 DEF Mapped, Paths, Hole, Home, Arc
<1>4. OneEach' /\ NewKey'
  BY <1>0, <1>1, <1>2 DEF Mapped, OneEach, NewKey
<1>5. NewPath' /\ (w.pc \in {"moveoff", "movehash"} => ~MustStay(w.i, w.j))'
  BY <1>0 DEF Mapped, NewPath, MustStay, Home, Arc
<1>6. Mapped'
  BY <1>3, <1>4, <1>5 DEF Mapped
<1>7. /\ Cardinality(Counted)' = Cardinality(Counted)
      /\ Total(Counted, SizeOf)' = Total(Counted, SizeOf)
  <2>1. \A s \in Counted : Entry(s)'.size = Entry(s).size
    BY <1>2
  <2> QED BY <1>1, <2>1, SameTotal DEF Inv
<1>8. Counts'
  BY <1>0, <1>1, <1>7 DEF Counts
<1>9. Fits'
  BY <1>0, <1>1 DEF Fits
<1> QED BY <1>6, <1>8, <1>9

LEMMA SoundNext == SoundInv /\ [Next]_vars => SoundInv'
<1> SUFFICES ASSUME SoundInv, [Next]_vars PROVE SoundInv'
  OBVIOUS
<1>0. PICK S : Inv(S)
  BY DEF SoundInv, IInv
<1>1. Mapped /\ Counts /\ Fits /\ Ranged /\ IInv'
  BY NextKeeps DEF SoundInv
<1>2. CASE WriterStep
  BY <1>0, <1>1, <1>2, MappedKeeps, CountsKeeps, FitsKeeps, RangedKeeps DEF SoundInv
<1>3. CASE UNCHANGED wvars /\ aged' \subseteq 1 .. MaxOps /\ hint' \in [Slot -> BOOLEAN]
  <2>1. UNCHANGED <<hd, body, w, nops, cursor>>
    BY <1>3 DEF wvars
  <2>2. Ranged'
    BY <1>1, <1>3, <2>1 DEF Ranged
  <2> QED BY <1>0, <1>1, <1>3, <2>2, StillSound DEF SoundInv
<1>4. hint \in [Slot -> BOOLEAN] /\ aged \subseteq 1 .. MaxOps
  BY <1>1 DEF Ranged
<1>5. CASE \E v \in 1 .. nops : Age(v)
  <2>1. PICK v \in 1 .. nops : Age(v)
    BY <1>5
  <2>2. v \in 1 .. MaxOps
    <3>1. nops \in Nat /\ MaxOps \in Nat /\ nops <= MaxOps
      BY <1>0, <1>1, ArenaAssumption DEF Inv, Typed, Ranged
    <3> QED BY <3>1
  <2> QED BY <1>3, <1>4, <2>1, <2>2 DEF Age
<1>6. CASE CheckTail /\ UNCHANGED <<wvars, aged>>
  <2>1. hint' \in [Slot -> BOOLEAN]
    BY <1>4, <1>6 DEF CheckTail
  <2> QED BY <1>3, <1>4, <1>6, <2>1
<1>7. CASE UNCHANGED <<wvars, hint, aged>>
  BY <1>3, <1>4, <1>7
<1>8. CASE UNCHANGED vars
  BY <1>7, <1>8 DEF vars
<1> QED BY <1>2, <1>5, <1>6, <1>7, <1>8 DEF Next

\* A sum over the occupied slots is a total.
LEMMA BytesTotal ==
  ASSUME Typed, NEW C, C \subseteq Slot
  PROVE  MapThenSumSet(LAMBDA s : Entry(s).size, C) = Total(C, SizeOf)
<1>1. IsFiniteSet(Slot) /\ IsFiniteSet(C)
  BY CountedFinite, FS_Subset
<1> DEFINE Sums(g) == g = [s \in SUBSET C |->
                            IF s = {} THEN 0 ELSE Entry(Pick(s)).size + g[s \ {Pick(s)}]]
           h == CHOOSE g : Sums(g)
<1>2. ASSUME NEW g PROVE FoldOf(C, SizeOf, g) <=> Sums(g)
  <2>1. \A s \in SUBSET C : s # {} => Pick(s) \in Slot
    BY DEF Pick
  <2>2. \A s \in SUBSET C : s # {} => SizeOf[Pick(s)] = Entry(Pick(s)).size
    BY <2>1 DEF SizeOf
  <2>3. [s \in SUBSET C |-> SumUpTo(SizeOf, g, s)] =
        [s \in SUBSET C |-> IF s = {} THEN 0 ELSE Entry(Pick(s)).size + g[s \ {Pick(s)}]]
    BY <2>2 DEF SumUpTo
  <2> QED BY <2>3 DEF FoldOf
<1>3. PICK g : FoldOf(C, SizeOf, g) /\ Total(C, SizeOf) = g[C]
  BY <1>1, TotalFold
<1>4. Sums(h)
  BY <1>2, <1>3
<1>5. FoldOf(C, SizeOf, h)
  BY <1>2, <1>4
<1>6. MapThenSumSet(LAMBDA s : Entry(s).size, C) = h[C]
  BY DEF MapThenSumSet, MapThenFoldSet, Pick
<1> HIDE DEF h
<1>7. h[C] = g[C]
  BY <1>1, <1>3, <1>5, FoldSame
<1> QED BY <1>3, <1>6, <1>7

LEMMA SoundTypes == SoundInv => TypeOK
<1> SUFFICES ASSUME SoundInv PROVE TypeOK
  OBVIOUS
<1>0. PICK S : Inv(S)
  BY DEF SoundInv, IInv
<1>1. /\ Typed /\ tail \in Nat /\ head \in Nat /\ Top \in Nat /\ tail <= Top /\ Top <= head
      /\ head - tail <= Data
  BY <1>0, TopFacts
<1>2. Fits /\ Ranged /\ MaxOps \in Nat
  BY ArenaAssumption DEF SoundInv
<1>3. idx \in [Slot -> [hash : {Empty} \cup {Hash[k] : k \in Keys}, off : Nat]]
  <2>1. idx \in [Slot -> [hash : Nat, off : Nat]]
    BY <1>1 DEF Typed
  <2>2. ASSUME NEW s \in Slot
        PROVE  idx[s].hash \in {Empty} \cup {Hash[k] : k \in Keys}
    <3>1. CASE idx[s].hash # Empty
      <4>1. Entry(s).key \in Keys /\ idx[s].hash = Hash[Entry(s).key]
        BY <1>0, <3>1, HeldSlot
      <4> QED BY <4>1
    <3>2. CASE idx[s].hash = Empty
      BY <3>2
    <3> QED BY <3>1, <3>2
  <2> QED BY <2>1, <2>2
<1>4. hd \in [Units -> Headers]
  <2>1. hd \in [Units -> Hdrs]
    BY <1>1 DEF Typed
  <2>2. ASSUME NEW u \in Units PROVE hd[u] \in Headers
    <3>1. hd[u] \in Hdrs /\ hd[u].size <= Data /\ hd[u].ver <= MaxOps
      BY <1>2, <2>1 DEF Ranged, Small
    <3>2. hd[u].size \in 0 .. Data /\ hd[u].ver \in 0 .. MaxOps
      BY <1>2, <3>1, Constants DEF Hdrs
    <3> QED BY <3>1, <3>2 DEF Hdrs, Headers
  <2> QED BY <2>1, <2>2
<1>5. body \in [Units -> (0 .. MaxOps) \X Units]
  BY <1>1, <1>2 DEF Typed, Ranged, Small
<1>6. live \in 0 .. Slots /\ liveBytes \in 0 .. Data
  <2>1. Pending \in Nat
    BY <1>1, WriterFields DEF Pending
  <2> QED BY <1>1, <1>2, <2>1, Constants DEF Fits
<1> QED BY <1>1, <1>2, <1>3, <1>4, <1>5, <1>6 DEF TypeOK, Ranged

\* Between operations every entry is found by the probe for its key, so no key is
\* stored twice and no removal has lost one, each record knows its slot, and live and
\* liveBytes count what the index holds; and all through, every variable is in its
\* range, so the log never holds more than the data region.
THEOREM IndexIsSound == Spec => []IndexSound
<1>1. Spec => []SoundInv
  BY InitSound, SoundNext, PTL DEF Spec
<1>2. ASSUME SoundInv, w.pc = "idle"
      PROVE  /\ \A s \in Occupied : FindSlot(Entry(s).key) = s /\ Entry(s).slot = s
             /\ live = Cardinality(Occupied)
             /\ liveBytes = MapThenSumSet(LAMBDA s : Entry(s).size, Occupied)
  <2>0. PICK S : Inv(S)
    BY <1>2 DEF SoundInv, IInv
  <2>1. Typed /\ Mapped /\ Counts
    BY <1>2, <2>0 DEF SoundInv, Inv
  <2>2. Counted = Occupied /\ Occupied \subseteq Slot
    BY <1>2 DEF Counted, Occupied
  <2>3. ASSUME NEW s \in Occupied PROVE FindSlot(Entry(s).key) = s /\ Entry(s).slot = s
    <3>1. s \in Slot /\ idx[s].hash # Empty
      BY DEF Occupied
    <3>2. FindSlot(Entry(s).key) = s
      BY <1>2, <2>0, <2>1, <3>1, FindsEntries DEF Shifts
    <3>3. Entry(s).slot = s
      BY <1>2, <2>0, <3>1, AtRest DEF Shifts
    <3> QED BY <3>2, <3>3
  <2>4. live = Cardinality(Occupied) /\ liveBytes = Total(Occupied, SizeOf)
    BY <1>2, <2>1, <2>2 DEF Counts, Stage, Shifts, Returns
  <2>5. MapThenSumSet(LAMBDA s : Entry(s).size, Occupied) = Total(Occupied, SizeOf)
    BY <2>1, <2>2, BytesTotal
  <2> QED BY <2>3, <2>4, <2>5
<1>3. SoundInv => IndexSound
  BY <1>2, SoundTypes DEF IndexSound
<1> QED BY <1>1, <1>3, PTL

-----------------------------------------------------------------------------
(* The sweep.                                                              *)

\* The order in which the slots follow the slot c.
Lin(c, s) == IF s > c THEN s ELSE s + Slots

\* No probe for an entry passes from c to the slot after it.
Cut(c) == \A s \in Counted : Lin(c, Home(idx[s].hash)) <= Lin(c, s)

Clean(m) == \A s \in w.pos .. m - 1 : ~ExpiredAt(s)

\* The shift under a sweep moves away from the slot that is removed, and not past c.
SweepInv(c) ==
  /\ c \in Slot /\ Cut(c)
  /\ Stage = "sweep" => w.i <= Slots /\ Clean(w.i)
  /\ Stage = "swept" =>
       /\ w.guard \in Slot /\ Clean(w.guard)
       /\ w.pc \in Shifts => Lin(c, w.guard) <= Lin(c, w.i)

\* What has i on its way to j moves on to i in that order.
LEMMA Nearer ==
  ASSUME NEW c \in Slot, NEW k \in Slot, NEW i \in Slot, NEW j \in Slot,
         Arc(k, i, j), Lin(c, k) <= Lin(c, j)
  PROVE  /\ Lin(c, k) <= Lin(c, i) /\ Lin(c, i) <= Lin(c, j)
         /\ i # j => Lin(c, i) < Lin(c, j)
<1>1. /\ c \in Nat /\ k \in Nat /\ i \in Nat /\ j \in Nat /\ Slots \in Nat
      /\ c < Slots /\ k < Slots /\ i < Slots /\ j < Slots
  BY Constants DEF Slot
<1> QED BY <1>1 DEF Arc, Lin

\* A free slot is one that no probe passes.
LEMMA FreeCut ==
  ASSUME NEW i \in Slot, NEW k \in Slot, NEW s \in Slot, ~Arc(k, i, s) \/ s = i
  PROVE  Lin(i, k) <= Lin(i, s)
<1>1. /\ k \in Nat /\ i \in Nat /\ s \in Nat /\ Slots \in Nat
      /\ k < Slots /\ i < Slots /\ s < Slots
  BY Constants DEF Slot
<1> QED BY <1>1 DEF Arc, Lin

LEMMA CutKept ==
  ASSUME NEW S, Inv(S), Mapped, WriterStep, ~PublishHash, NEW c \in Slot, Cut(c)
  PROVE  Cut(c)'
<1>0. Counted \subseteq Slot /\ Typed
  BY DEF Counted, Inv
<1>1. ASSUME Counted' \subseteq Counted, \A s \in Counted' : idx'[s].hash = idx[s].hash
      PROVE  Cut(c)'
  <2> SUFFICES ASSUME NEW s \in Counted'
               PROVE  Lin(c, Home(idx'[s].hash)) <= Lin(c, s)
    BY DEF Cut, Lin, Home
  <2> QED BY <1>1 DEF Cut
<1>2. CASE Plain
  BY <1>0, <1>1, <1>2, PlainCounts DEF Plain
<1>3. CASE Settles
  BY <1>1, <1>3, SettlesCounts DEF Settles
<1>4. CASE \E s : Begins(s)
  <2>1. PICK s : Begins(s)
    BY <1>4
  <2> QED BY <1>1, <2>1, BeginCounts DEF Begins
<1>5. CASE RemoveEmpty
  BY <1>1, <1>5, EmptyCounts
<1>6. CASE RemoveMoveOff
  BY <1>0, <1>1, <1>6, MoveOffCounts
<1>7. CASE RemoveMoveHash
  <2>1. /\ w.i \in Slot /\ w.j \in Counted /\ w.i # w.j
        /\ Counted' = (Counted \ {w.j}) \cup {w.i}
        /\ \A s \in Slot : idx'[s].hash = idx[IF s = w.i THEN w.j ELSE s].hash
        /\ w.pc = "movehash"
    BY <1>7, MoveHashCounts
  <2>2. PICK i \in Slot, j \in Slot : i = w.i /\ j = w.j /\ i # j
    BY <1>0, <2>1
  <2>3. PICK k \in Slot : k = Home(idx[j].hash)
    BY <1>0, SlotTyped, HomeType
  <2>4. Arc(k, i, j)
    BY <1>0, <2>1, <2>2, <2>3, StayArc DEF Mapped
  <2>5. Lin(c, k) <= Lin(c, j)
    BY <2>1, <2>2, <2>3 DEF Cut
  <2>6. Lin(c, k) <= Lin(c, i)
    BY <2>4, <2>5, Nearer
  <2> SUFFICES ASSUME NEW s \in (Counted \ {j}) \cup {i}
               PROVE  Lin(c, Home(idx'[s].hash)) <= Lin(c, s)
    BY <2>1, <2>2 DEF Cut, Lin, Home
  <2>7. CASE s = i
    BY <2>1, <2>2, <2>3, <2>6, <2>7
  <2>8. CASE s # i
    <3>1. idx'[s].hash = idx[s].hash /\ s \in Counted
      BY <1>0, <2>1, <2>2, <2>8
    <3> QED BY <3>1 DEF Cut
  <2> QED BY <2>7, <2>8
<1>8. CASE Clear
  BY <1>1, <1>8, ClearMaps
<1> QED BY <1>2, <1>3, <1>4, <1>5, <1>6, <1>7, <1>8, StepMaps

\* The slot a set publishes in was free: no probe passed it, and none does now.
LEMMA CutPublished ==
  ASSUME NEW S, Inv(S), Mapped, PublishHash
  PROVE  w.i \in Slot /\ \A i \in Slot : i = w.i => Cut(i)'
<1>1. /\ w.i \in Slot /\ w.i \notin Counted /\ Counted' = Counted \cup {w.i}
      /\ \A s \in Slot : idx'[s].hash = IF s = w.i THEN Hash[w.key] ELSE idx[s].hash
      /\ w.pc = "pubhash" /\ Hash[w.key] \in Nat
  BY PublishCounts
<1>2. PICK i \in Slot : i = w.i
  BY <1>1
<1>3. idx[i].hash = Empty /\ Counted \subseteq Slot /\ Typed
  BY <1>1, <1>2 DEF Inv, Staged, Counted
<1> SUFFICES ASSUME NEW s \in Counted \cup {i}
             PROVE  Lin(i, Home(idx'[s].hash)) <= Lin(i, s)
  BY <1>1, <1>2 DEF Cut, Lin, Home
<1>4. CASE s = i
  BY <1>1, <1>2, <1>4, HomeType, FreeCut
<1>5. CASE s # i
  <2>1. s \in Counted /\ s \in Slot /\ idx'[s].hash = idx[s].hash
    BY <1>1, <1>2, <1>3, <1>5
  <2>2. ~Arc(Home(idx[s].hash), i, s)
    BY <1>1, <1>3, <2>1 DEF Mapped, Paths, Hole
  <2> QED BY <1>3, <2>1, <2>2, SlotTyped, HomeType, FreeCut
<1> QED BY <1>4, <1>5

\* A step that neither begins a sweep nor belongs to one leads to none.
LEMMA SweepOff ==
  ASSUME NEW S, Inv(S), WriterStep, ~SweepBegin, Stage \notin {"sweep", "swept"}
  PROVE  Stage' \notin {"sweep", "swept"}
<1>0. Typed /\ w \in Writers
  BY DEF Inv, Typed
<1>1. w.pc \notin {"sweep", "swept"} /\ (w.pc \in Shifts => w.ret # "swept")
  BY DEF Stage, Shifts
<1>2. ASSUME w'.pc \in Pcs \ (Shifts \cup {"sweep", "swept"})
      PROVE  Stage' \notin {"sweep", "swept"}
  BY <1>2 DEF Stage
<1>3. ASSUME w'.pc \in Shifts, w'.ret \in Returns \ {"swept"}
      PROVE  Stage' \notin {"sweep", "swept"}
  BY <1>3 DEF Stage, Returns
<1>4. IdleWriter.pc = "idle" /\ "idle" \in Pcs \ (Shifts \cup {"sweep", "swept"})
  BY DEF IdleWriter, Pcs, Shifts
<1>5. CASE Cleared \/ Removed \/ Refused \/ PublishHash
  <2>1. w' = IdleWriter
    BY <1>5 DEF Cleared, Removed, Refused, PublishHash
  <2> QED BY <1>2, <1>4, <2>1
<1>6. CASE \/ \E k \in Keys, n \in Sizes, t \in Ttls : SetBegin(k, n, t)
           \/ Clear
  <2>1. w'.pc \in {"press", "clear"}
    BY <1>6 DEF SetBegin, Clear, IdleWriter
  <2> QED BY <1>2, <2>1 DEF Pcs, Shifts, SetStages
<1>7. CASE \E k \in Keys : Delete(k)
  <2>1. PICK k \in Keys : Delete(k)
    BY <1>7
  <2>2. CASE FindSlot(k) >= 0
    <3>1. PICK s \in Slot : s = FindSlot(k)
      BY <2>2, SlotFound
    <3>2. w' = Removing(s, "removed") /\ "removed" \in Returns
      BY <2>1, <2>2, <3>1 DEF Delete, Returns
    <3>3. w'.pc = "empty" /\ w'.ret = "removed"
      BY <1>0, <3>2, RemovingTyped
    <3> QED BY <1>3, <3>2, <3>3 DEF Shifts
  <2>3. CASE ~(FindSlot(k) >= 0)
    <3>1. w' = w
      BY <2>1, <2>3 DEF Delete
    <3> QED BY <3>1 DEF Stage
  <2> QED BY <2>2, <2>3
<1>8. CASE RemoveEmpty
  <2>1. w.pc = "empty" /\ w'.ret = w.ret /\ w.ret \in Returns
        /\ (w'.pc = w.ret \/ w'.pc = "moveoff")
    BY <1>8, EmptyCounts DEF RemoveEmpty
  <2> QED BY <1>1, <2>1 DEF Stage, Shifts, Returns
<1>9. CASE RemoveMoveOff
  BY <1>1, <1>9, MoveOffCounts DEF Stage, Shifts, Returns
<1>10. CASE RemoveMoveHash
  BY <1>1, <1>10, MoveHashCounts DEF Stage, Shifts, Returns
<1>11. CASE DropDead \/ ReappendInPlace \/ ReappendCopy \/ ReappendCopied \/ ReappendPublish
  <2>1. w'.pc \in {w.pc, "bump", "copying", "copied"} /\ w.pc \notin Shifts
    BY <1>0, <1>11 DEF DropDead, ReappendInPlace, ReappendCopy, ReappendCopied,
       ReappendPublish, MustDrop, Shifts, Writers
  <2>2. w'.pc \in Pcs \ (Shifts \cup {"sweep", "swept"})
    BY <1>0, <1>1, <2>1, WriterFields DEF Pcs, Moves, Shifts
  <2> QED BY <1>2, <2>2
<1>12. CASE DropLive
  <2>1. PICK v \in Writers : v = Removing(TailRec.slot, "evicted")
    BY <1>0, <1>12, LiveTailSlot, RemovingTyped DEF DropLive, Returns
  <2>2. v.pc = "empty" /\ v.ret = "evicted" /\ v.guard = w.guard
    BY <1>0, <1>12, <2>1, LiveTailSlot, RemovingTyped DEF DropLive, Returns
  <2>3. w' = [v EXCEPT !.guard = v.guard + 1, !.loop = w.pc]
    BY <1>12, <2>1 DEF DropLive
  <2>4. w'.pc = "empty" /\ w'.ret = "evicted"
    BY <2>2, <2>3 DEF Writers
  <2> QED BY <1>3, <2>4 DEF Shifts, Returns
<1>13. CASE Evicted \/ Bump
  <2>1. w.pc \in {"evicted", "bump"} /\ w' = [w EXCEPT !.pc = w.loop]
    BY <1>13 DEF Evicted, Bump
  <2>2. w.loop \in {"press", "alloc"}
    BY <2>1 DEF Inv, Staged, Dropping, Stage, Moves, Shifts
  <2>3. w'.pc \in {"press", "alloc"}
    BY <1>0, <2>1, <2>2 DEF Writers
  <2> QED BY <1>2, <2>3 DEF Pcs, SetStages, Shifts
<1>14. CASE PressDone \/ AllocGap \/ AllocPad \/ AllocPadded \/ AllocTake \/ RefuseSlot
            \/ Write \/ Written \/ PublishOff
  <2>1. w'.pc \in {"idle", "alloc", "padding", "slot", "refuse", "writing", "puboff", "pubhash"}
    BY <1>0, <1>4, <1>14 DEF PressDone, AllocGap, AllocPad, AllocPadded, AllocTake,
       RefuseSlot, Write, Written, PublishOff, Writers
  <2> QED BY <1>2, <2>1 DEF Pcs, SetStages, Shifts
<1>15. CASE SetUnlink
  <2>1. CASE FindSlot(w.key) >= 0
    <3>0. w.key \in Keys
      BY <1>15 DEF SetUnlink, Inv, Staged, Phase, Dropping, Stage, Moves, Shifts, SetStages
    <3>1. PICK s \in Slot : s = FindSlot(w.key)
      BY <2>1, <3>0, FindsKey
    <3>2. w' = Removing(s, "unlinked") /\ "unlinked" \in Returns
      BY <1>15, <2>1, <3>1 DEF SetUnlink, Returns
    <3>3. w'.pc = "empty" /\ w'.ret = "unlinked"
      BY <1>0, <3>2, RemovingTyped
    <3> QED BY <1>3, <3>2, <3>3 DEF Shifts
  <2>2. CASE ~(FindSlot(w.key) >= 0)
    <3>1. w'.pc = "write"
      BY <1>0, <1>15, <2>2 DEF SetUnlink, Writers
    <3> QED BY <1>2, <3>1 DEF Pcs, SetStages, Shifts
  <2> QED BY <2>1, <2>2
<1>16. CASE Unlinked
  <2>1. w'.pc \in {"idle", "write"}
    BY <1>0, <1>4, <1>16 DEF Unlinked, Writers
  <2> QED BY <1>2, <2>1 DEF Pcs, SetStages, Shifts
<1>17. CASE SweepSkip \/ SweepRemove \/ Swept \/ SweepEnd
  BY <1>1, <1>17 DEF SweepSkip, SweepRemove, Scanning, Swept, SweepEnd
<1> QED BY <1>5, <1>6, <1>7, <1>8, <1>9, <1>10, <1>11, <1>12, <1>13, <1>14, <1>15, <1>16, <1>17
        DEF WriterStep

\* What a step of a sweep may not do: bring an expired entry among the slots passed.
LEMMA CleanStep ==
  ASSUME NEW S, Inv(S), WriterStep, NEW m \in Nat, m <= Slots, Clean(m),
         w'.pos = w.pos, w'.now = w.now,
         \A s \in Slot : s \in w.pos .. m - 1 =>
           \/ idx'[s].hash = Empty \/ idx[s].hash # Empty \/ ~ExpiredAt(s)'
  PROVE  Clean(m)'
<1>0. w.pos \in Nat
  BY WriterFields DEF Inv
<1> SUFFICES ASSUME NEW s \in w.pos .. m - 1, ExpiredAt(s)' PROVE FALSE
  BY DEF Clean, ExpiredAt, HdrAt, Phys
<1>1. s \in Slot
  BY <1>0, Constants DEF Slot
<1>2. idx'[s].hash # Empty /\ Entry(s)'.ver \in w.now
  BY DEF ExpiredAt, Entry
<1>3. idx[s].hash # Empty
  BY <1>1, <1>2
<1>4. Entry(s)'.ver = Entry(s).ver
  BY <1>1, <1>2, <1>3, EntryStays
<1>5. ExpiredAt(s)
  BY <1>2, <1>3, <1>4 DEF ExpiredAt, Entry
<1> QED BY <1>5 DEF Clean

\* The steps of a sweep.
LEMMA SweepOnly ==
  ASSUME WriterStep
  PROVE  /\ w.pc = "sweep" => SweepSkip \/ SweepRemove \/ SweepEnd
         /\ w.pc = "swept" => Swept
         /\ w.pc \in Shifts => RemoveEmpty \/ RemoveMoveOff \/ RemoveMoveHash
BY DEF WriterStep, SetBegin, Delete, Clear, Cleared, SweepBegin, SweepSkip, SweepRemove,
   Swept, SweepEnd, RemoveEmpty, RemoveMoveOff, RemoveMoveHash, Removed, DropDead, DropLive,
   MustDrop, Evicted, Bump, ReappendInPlace, ReappendCopy, ReappendCopied, ReappendPublish,
   PressDone, AllocGap, AllocPad, AllocPadded, AllocTake, RefuseSlot, Refused, SetUnlink,
   Unlinked, Write, Written, PublishOff, PublishHash, Scanning, Shifts

LEMMA SweepStep ==
  ASSUME NEW S, Inv(S), Mapped, Ranged, WriterStep, NEW c, SweepInv(c)
  PROVE  \E d : SweepInv(d)'
<1>0. Typed /\ w \in Writers /\ c \in Slot /\ Cut(c)
  BY DEF Inv, Typed, SweepInv
<1>1. ASSUME ~PublishHash PROVE Cut(c)'
  BY <1>0, <1>1, CutKept
<1>2. CASE PublishHash
  <2>1. PICK d \in Slot : d = w.i
    BY <1>2, CutPublished
  <2>2. Cut(d)'
    BY <1>2, <2>1, CutPublished
  <2>3. Stage' \notin {"sweep", "swept"}
    BY <1>2 DEF PublishHash, IdleWriter, Stage, Shifts
  <2>4. SweepInv(d)'
    BY <2>2, <2>3 DEF SweepInv
  <2> QED BY <2>4
<1> SUFFICES ASSUME ~PublishHash, Cut(c)' PROVE SweepInv(c)'
  BY <1>1, <1>2
<1>3. CASE Stage \notin {"sweep", "swept"} /\ ~SweepBegin
  <2>1. Stage' \notin {"sweep", "swept"}
    BY <1>3, SweepOff
  <2> QED BY <1>0, <2>1 DEF SweepInv
<1>4. CASE SweepBegin
  <2>1. cursor \in Slot /\ cursor \in Nat /\ cursor < Slots /\ Slots \in Nat
    BY Constants DEF Ranged, Slot
  <2>2. PICK m \in Nat, g \in SUBSET Nat : m = cursor /\ g = aged
    BY <1>0, <2>1 DEF Typed
  <2>3. w' = [IdleWriter EXCEPT !.pc = "sweep", !.i = m, !.pos = m, !.now = g]
    BY <1>4, <2>2 DEF SweepBegin
  <2>4. w'.pc = "sweep" /\ w'.i = m /\ w'.pos = m
    BY <2>3, IdleTyped DEF Writers
  <2>5. Stage' = "sweep" /\ w'.i <= Slots
    BY <2>1, <2>2, <2>4 DEF Stage, Shifts
  <2>6. Clean(w.i)'
    BY <2>2, <2>4 DEF Clean
  <2> QED BY <1>0, <2>5, <2>6 DEF SweepInv
<1>5. CASE w.pc = "sweep"
  <2>0. /\ Stage = "sweep" /\ w.i <= Slots /\ Clean(w.i) /\ w.i \in Nat /\ w.n \in Nat
        /\ Slots \in Nat
    BY <1>0, <1>5, WriterFields, Constants DEF Stage, Shifts, SweepInv
  <2>1. CASE SweepSkip
    <3>1. /\ w'.pc = "sweep" /\ w'.i = w.i + 1 /\ w'.pos = w.pos /\ w'.now = w.now
          /\ idx' = idx /\ hd' = hd /\ w.i < Slots /\ ~ExpiredAt(w.i)
      BY <1>0, <2>1 DEF SweepSkip, Scanning, Writers
    <3>2. PICK m \in Nat : m = w.i
      BY <2>0
    <3>3. \A s : ExpiredAt(s)' <=> ExpiredAt(s)
      BY <3>1 DEF ExpiredAt, HdrAt, Phys
    <3>4. ASSUME NEW s \in w.pos .. m PROVE ~ExpiredAt(s)
      <4>1. w.pos \in Nat /\ (s = m \/ s \in w.pos .. m - 1)
        BY <1>0, <3>2, WriterFields
      <4> QED BY <2>0, <3>1, <3>2, <4>1 DEF Clean
    <3>5. (m + 1) - 1 = m
      BY <3>2
    <3>6. Clean(w.i)'
      BY <3>1, <3>2, <3>3, <3>4, <3>5 DEF Clean
    <3>7. Stage' = "sweep" /\ w'.i <= Slots
      BY <2>0, <3>1 DEF Stage, Shifts
    <3> QED BY <1>0, <3>6, <3>7 DEF SweepInv
  <2>2. CASE SweepRemove
    <3>1. /\ idx' = idx /\ hd' = hd /\ w.i \in Slot
          /\ w' = [Removing(w.i, "swept") EXCEPT !.guard = w.i]
      BY <1>0, <2>0, <2>2, Constants DEF SweepRemove, Scanning, Slot
    <3>2. PICK v \in Writers : v = Removing(w.i, "swept")
      BY <1>0, <3>1, RemovingTyped DEF Returns
    <3>3. v.pc = "empty" /\ v.i = w.i /\ v.ret = "swept" /\ v.pos = w.pos /\ v.now = w.now
      BY <1>0, <3>1, <3>2, RemovingTyped DEF Returns
    <3>4. w' = [v EXCEPT !.guard = w.i]
      BY <3>1, <3>2
    <3>5. /\ w'.pc = "empty" /\ w'.i = w.i /\ w'.guard = w.i /\ w'.ret = "swept"
          /\ w'.pos = w.pos /\ w'.now = w.now
      BY <3>3, <3>4 DEF Writers
    <3>6. \A s : ExpiredAt(s)' <=> ExpiredAt(s)
      BY <3>1, <3>5 DEF ExpiredAt, HdrAt, Phys
    <3>7. Clean(w.guard)'
      BY <2>0, <3>5, <3>6 DEF Clean
    <3>8. Stage' = "swept" /\ Lin(c, w'.guard) <= Lin(c, w'.i)
      BY <1>0, <3>1, <3>5, Constants DEF Stage, Shifts, Lin, Slot
    <3> QED BY <1>0, <3>1, <3>5, <3>7, <3>8 DEF SweepInv, Lin
  <2>3. CASE SweepEnd
    <3>1. Stage' \notin {"sweep", "swept"}
      BY <2>3 DEF SweepEnd, IdleWriter, Stage, Shifts
    <3> QED BY <1>0, <3>1 DEF SweepInv
  <2> QED BY <1>5, <2>1, <2>2, <2>3, SweepOnly
<1>6. CASE w.pc = "swept"
  <2>0. Swept
    BY <1>6, SweepOnly
  <2>1. /\ w'.pc = "sweep" /\ w'.i = w.guard /\ w'.pos = w.pos /\ w'.now = w.now
        /\ idx' = idx /\ hd' = hd
    BY <1>0, <2>0 DEF Swept, Writers
  <2>2. w.guard \in Slot /\ Clean(w.guard)
    BY <1>6 DEF SweepInv, Stage, Shifts
  <2>3. \A s : ExpiredAt(s)' <=> ExpiredAt(s)
    BY <2>1 DEF ExpiredAt, HdrAt, Phys
  <2>4. Clean(w.i)'
    BY <2>1, <2>2, <2>3 DEF Clean
  <2>5. Stage' = "sweep" /\ w'.i <= Slots
    BY <2>1, <2>2, Constants DEF Stage, Shifts, Slot
  <2> QED BY <1>0, <2>4, <2>5 DEF SweepInv
<1>7. CASE w.pc \in Shifts /\ w.ret = "swept"
  <2>1. /\ Stage = "swept" /\ w.guard \in Slot /\ Clean(w.guard)
        /\ Lin(c, w.guard) <= Lin(c, w.i) /\ w.i \in Slot
    BY <1>7 DEF SweepInv, Stage, Inv, Staged
  <2>2. PICK m \in Slot : m = w.guard /\ m \in Nat /\ m <= Slots
    BY <2>1, Constants DEF Slot
  <2>3. Clean(m) /\ w.pos \in Nat
    BY <1>0, <2>1, <2>2, WriterFields
  <2>4. CASE RemoveEmpty \/ RemoveMoveOff
    <3>1. w'.pos = w.pos /\ w'.now = w.now /\ w'.guard = m /\ w'.i = w.i
      BY <1>0, <2>2, <2>4 DEF RemoveEmpty, RemoveMoveOff, Writers
    <3>2. w'.ret = "swept" /\ (w'.pc = "swept" \/ w'.pc \in Shifts)
      BY <1>7, <2>4, EmptyCounts, MoveOffCounts DEF Shifts
    <3>3. \A s \in Slot : idx'[s].hash = Empty \/ idx[s].hash # Empty
      BY <2>4, EmptyCounts, MoveOffCounts
    <3>4. Clean(m)'
      BY <2>2, <2>3, <3>1, <3>3, CleanStep
    <3>5. Clean(w.guard)'
      BY <2>2, <3>1, <3>4 DEF Clean, ExpiredAt, HdrAt, Phys
    <3>6. Stage' = "swept"
      BY <3>2 DEF Stage, Shifts
    <3> QED BY <1>0, <2>1, <2>2, <3>1, <3>5, <3>6 DEF SweepInv, Lin
  <2>5. CASE RemoveMoveHash
    <3>1. /\ w.j \in Counted /\ w.i # w.j /\ w.pc = "movehash" /\ w'.pc = "empty"
          /\ \A s \in Slot : idx'[s].hash = idx[IF s = w.i THEN w.j ELSE s].hash
          /\ w'.i = w.j /\ w'.ret = "swept"
      BY <1>7, <2>5, MoveHashCounts
    <3>2. w'.pos = w.pos /\ w'.now = w.now /\ w'.guard = m
      BY <1>0, <2>2, <2>5 DEF RemoveMoveHash, Writers
    <3>3. PICK i \in Slot, j \in Slot : i = w.i /\ j = w.j /\ i # j
      BY <2>1, <3>1 DEF Counted
    <3>4. PICK k \in Slot : k = Home(idx[j].hash)
      BY <1>0, SlotTyped, HomeType
    <3>5. Arc(k, i, j)
      BY <1>0, <3>1, <3>3, <3>4, StayArc DEF Mapped
    <3>6. Lin(c, k) <= Lin(c, j)
      BY <1>0, <3>1, <3>3, <3>4 DEF Cut
    <3>7. Lin(c, i) < Lin(c, j) /\ Lin(c, m) <= Lin(c, i)
      BY <1>0, <2>1, <2>2, <3>3, <3>5, <3>6, Nearer
    <3>8. c \in Nat /\ i \in Nat /\ j \in Nat /\ Slots \in Nat /\ c < Slots /\ i < Slots
          /\ j < Slots /\ w.pos \in Nat /\ m < Slots
      BY <1>0, <2>2, <2>3, <3>3, Constants DEF Slot
    <3>9. ASSUME i \in w.pos .. m - 1 PROVE j \in w.pos .. m - 1
      BY <2>2, <3>7, <3>8, <3>9 DEF Lin
    <3>10. ASSUME NEW s \in Slot, s \in w.pos .. m - 1, idx[s].hash = Empty, ExpiredAt(s)'
           PROVE  FALSE
      <4>1. s = i
        BY <3>1, <3>3, <3>10 DEF ExpiredAt
      <4>2. ~ExpiredAt(j)
        BY <2>3, <3>9, <3>10, <4>1 DEF Clean
      <4>3. idx[i].off = idx[j].off /\ idx[j].hash # Empty
        BY <3>1, <3>3 DEF Inv, Staged
      <4>4. idx'[i].off = idx[i].off /\ hd' = hd
        BY <1>0, <2>5, <3>3 DEF RemoveMoveHash, Typed
      <4>5. HdrAt(idx[s].off)' = HdrAt(idx[j].off)
        BY <4>1, <4>3, <4>4 DEF HdrAt, Phys
      <4> QED BY <3>2, <3>10, <4>2, <4>3, <4>5 DEF ExpiredAt
    <3>11. Clean(m)'
      BY <2>2, <2>3, <3>2, <3>10, CleanStep
    <3>12. Clean(w.guard)'
      BY <2>2, <3>2, <3>11 DEF Clean, ExpiredAt, HdrAt, Phys
    <3>13. Stage' = "swept"
      BY <3>1 DEF Stage, Shifts
    <3>14. Lin(c, m) <= Lin(c, j)
      BY <2>2, <3>7, <3>8 DEF Lin
    <3> QED BY <1>0, <2>2, <3>1, <3>2, <3>3, <3>12, <3>13, <3>14 DEF SweepInv, Lin
  <2> QED BY <1>7, <2>4, <2>5, SweepOnly
<1>8. w.pc \in Shifts => w.ret # "sweep"
  BY DEF Inv, Staged, Returns
<1> QED BY <1>3, <1>4, <1>5, <1>6, <1>7, <1>8 DEF Stage

\* A sweep leaves no entry behind it that had expired when it began, although the
\* backward shift moves entries under the scan, round the end of the index too.
THEOREM SweepLeavesNoneBehind == Spec => []SweepLeavesNone
<1> DEFINE I == SoundInv /\ \E c : SweepInv(c)
<1>1. Init => I
  <2> SUFFICES ASSUME Init PROVE I
    OBVIOUS
  <2>1. 0 \in Slot /\ (\A s \in Slot : idx[s].hash = Empty) /\ w.pc = "idle"
    BY Constants DEF Init, Slot, IdleWriter
  <2>2. Counted = {} /\ Stage = "idle"
    BY <2>1 DEF Counted, Stage, Shifts
  <2>3. SweepInv(0)
    BY <2>1, <2>2 DEF SweepInv, Cut
  <2> QED BY <2>3, InitSound
<1>2. I /\ [Next]_vars => I'
  <2> SUFFICES ASSUME SoundInv, NEW c, SweepInv(c), [Next]_vars PROVE I'
    OBVIOUS
  <2>1. SoundInv'
    BY SoundNext
  <2>2. CASE WriterStep
    <3>1. PICK S : Inv(S)
      BY DEF SoundInv, IInv
    <3> QED BY <2>1, <2>2, <3>1, SweepStep DEF SoundInv
  <2>3. CASE UNCHANGED wvars
    <3>1. UNCHANGED <<idx, hd, w>>
      BY <2>3 DEF wvars
    <3>2. Stage' = Stage /\ Counted' = Counted
      BY <3>1 DEF Stage, Counted
    <3>3. \A s : ExpiredAt(s)' <=> ExpiredAt(s)
      BY <3>1 DEF ExpiredAt, HdrAt, Phys
    <3>4. SweepInv(c)'
      BY <3>1, <3>2, <3>3 DEF SweepInv, Cut, Clean, Lin, Home
    <3> QED BY <2>1, <3>4
  <2> QED BY <2>2, <2>3 DEF Next, Age, vars
<1>3. I => SweepLeavesNone
  BY DEF SweepInv, SweepLeavesNone, Stage, Shifts, Clean
<1> QED BY <1>1, <1>2, <1>3, PTL DEF Spec

-----------------------------------------------------------------------------
(* A read the writer leaves alone.                                         *)

ReadFields == {"pc", "key", "i", "probes", "pos", "seq", "n", "eh", "copy", "retry",
               "now", "hit", "ok", "quiet"}
Shaped == r = [f \in ReadFields |-> r[f]]

\* No two keys share a hash.
OwnHash == \A j, k \in Keys : Hash[j] = Hash[k] => j = k

\* The slots probed held entries of other hashes.
Unmet(d) == \A e \in 0 .. d - 1 : idx[At(Hash[r.key], e)].hash \notin {Empty, Hash[r.key]}

\* The reader is at the record of its key.
AtKey(p) ==
  \E s \in Slot : idx[s].hash = Hash[r.key] /\ idx[s].off = p /\ Entry(s).key = r.key

QuietInv ==
  /\ Shaped
  /\ r.quiet /\ r.pc # "idle" =>
       /\ w.pc = "idle" /\ r.key \in Keys /\ r.ok = Published(r.key) /\ r.pc \in ReadPcs
       /\ r.pc # "done" => ~r.hit
       /\ r.pc = "probe" => /\ r.probes \in Slot /\ r.i = At(Hash[r.key], r.probes)
                            /\ Unmet(r.probes)
       /\ r.pc = "off" => AtKey(idx[r.i].off)
       /\ r.pc \in AtRecord => AtKey(r.pos) /\ ~r.retry
       /\ r.pc \in {"fields", "copy", "seq2", "tail"} => r.seq = HdrAt(r.pos).seq
       /\ r.pc \in {"copy", "seq2", "tail"} =>
            /\ r.eh /\ r.n = HdrAt(r.pos).size
            /\ r.copy \in Seq(Nat \X Nat)
            /\ r.copy # <<>> => r.copy[1] = <<HdrAt(r.pos).ver, Hdr>>
       /\ r.pc = "copy" => Hdr + Len(r.copy) < r.n
       /\ r.pc = "fields" => r.copy = <<>>
       /\ r.pc = "seq" => r.copy = <<>>
       /\ r.pc \in {"probe", "off"} => r.copy = <<>> /\ ~r.retry
       /\ r.pc \in {"seq2", "tail"} => r.copy # <<>>
       /\ QuietReadHits

\* What the index holds for the key is the one record at p.
LEMMA OnePublished ==
  ASSUME NEW S, Inv(S), Mapped, w.pc = "idle", r.key \in Keys, NEW p, AtKey(p)
  PROVE  /\ p \in Nat /\ tail <= p /\ Rec(hd, body, p, Hash[r.key])
         /\ HdrAt(p).key = r.key /\ HdrAt(p).hash = Hash[r.key]
         /\ Published(r.key) = {HdrAt(p).ver}
<1>1. PICK s \in Slot : idx[s].hash = Hash[r.key] /\ idx[s].off = p /\ Entry(s).key = r.key
  BY DEF AtKey
<1>2. Hash[r.key] # Empty
  BY Constants DEF Empty
<1>3. p \in Nat /\ Held(p) /\ Entry(s) = HdrAt(p) /\ Entry(s).hash = Hash[r.key]
  BY <1>1, <1>2, HeldSlot DEF Entry
<1>4. ASSUME NEW t \in Slot, idx[t].hash = Hash[r.key], Entry(t).key = r.key
      PROVE  t = s
  <2>1. s \in Counted /\ t \in Counted
    BY <1>1, <1>2, <1>4 DEF Counted
  <2> QED BY <1>1, <1>4, <2>1 DEF Mapped, OneEach
<1>5. {t \in Slot : idx[t].hash = Hash[r.key] /\ HdrAt(idx[t].off).key = r.key} = {s}
  BY <1>1, <1>4 DEF Entry
<1>6. Published(r.key) = {HdrAt(p).ver}
  BY <1>1, <1>5 DEF Published
<1> QED BY <1>1, <1>3, <1>6 DEF Held

\* A probe that meets a free slot, or the end, has nothing to find.
LEMMA NonePublished ==
  ASSUME NEW S, Inv(S), Mapped, w.pc = "idle", r.key \in Keys, NEW d \in Slot, Unmet(d),
         \/ idx[At(Hash[r.key], d)].hash = Empty
         \/ idx[At(Hash[r.key], d)].hash # Hash[r.key] /\ d = Slots - 1
  PROVE  Published(r.key) = {}
<1> SUFFICES ASSUME NEW s \in Slot, idx[s].hash = Hash[r.key] PROVE FALSE
  BY DEF Published
<1>1. Hash[r.key] \in Nat /\ Hash[r.key] # Empty
  BY Constants DEF Empty
<1>2. PICK h \in Nat : h = Hash[r.key]
  BY <1>1
<1>3. PICK e \in Slot : At(h, e) = s
  BY AtOnto
<1>4. d \in Nat /\ e \in Nat /\ e < Slots /\ d < Slots /\ Slots \in Nat
  BY Constants DEF Slot
<1>5. ~(e \in 0 .. d - 1) /\ idx[At(h, d)].hash # h
  BY <1>1, <1>2, <1>3 DEF Unmet
<1>6. e # d
  BY <1>2, <1>3, <1>5
<1>7. d < e /\ idx[At(h, d)].hash = Empty
  BY <1>2, <1>4, <1>5, <1>6
<1>8. At(h, d) \in Slot /\ d \in 0 .. e
  BY <1>4, <1>7, AtType
<1>9. Arc(Home(h), At(h, d), s)
  BY <1>3, <1>8, Probed
<1>10. s \in Counted /\ idx[s].hash = h
  BY <1>1, <1>2 DEF Counted
<1>11. idx[At(h, d)].hash # Empty
  BY <1>8, <1>9, <1>10 DEF Mapped, Paths, Hole
<1> QED BY <1>7, <1>11

\* A step under the read ends its quiet.
LEMMA Disturbed ==
  ASSUME Shaped, Observe
  PROVE  QuietInv'
<1>1. CASE ~Reading
  <2>1. r' = IdleReader
    BY <1>1 DEF Observe
  <2>2. Shaped'
    BY <2>1 DEF Shaped, IdleReader, ReadFields
  <2> QED BY <2>1, <2>2 DEF QuietInv, IdleReader
<1>2. CASE Reading
  <2>1. PICK g : r' = [r EXCEPT !.quiet = FALSE, !.ok = g]
    BY <1>2 DEF Observe
  <2>2. Shaped' /\ r'.quiet = FALSE
    BY <2>1 DEF Shaped, ReadFields
  <2> QED BY <2>2 DEF QuietInv
<1> QED BY <1>1, <1>2

LEMMA LoadShape ==
  ASSUME Shaped, ReadWord \/ CheckTail
  PROVE  /\ Shaped' /\ Reading /\ r'.quiet = r.quiet /\ r'.key = r.key /\ r'.ok = r.ok
         /\ r'.now = r.now
<1> DEFINE Goal == /\ Shaped' /\ r'.quiet = r.quiet /\ r'.key = r.key /\ r'.ok = r.ok
                   /\ r'.now = r.now
<1>0. Reading
  BY DEF ReadWord, Probe, LoadOff, LoadSeq, LoadFields, CopyWord, LoadSeqAgain, CheckTail, Reading
<1> SUFFICES Goal
  BY <1>0
<1>1. ASSUME Miss PROVE Goal
  BY <1>1 DEF Miss, Shaped, ReadFields
<1>2. ASSUME Retry PROVE Goal
  BY <1>2 DEF Retry, Shaped, ReadFields
<1>3. CASE Probe
  <2>1. \/ Miss \/ r' = [r EXCEPT !.pc = "off"]
        \/ r' = [r EXCEPT !.i = At(r.i, 1), !.probes = @ + 1,
                          !.pc = IF r.probes + 1 < Slots THEN "probe" ELSE "done"]
    BY <1>3 DEF Probe
  <2>2. Miss \/ \E i, n, pc : \/ r' = [r EXCEPT !.pc = "off"]
                            \/ r' = [r EXCEPT !.i = i, !.probes = n, !.pc = pc]
    BY <2>1
  <2> QED BY <1>1, <2>2 DEF Shaped, ReadFields
<1>4. CASE LoadOff
  BY <1>4 DEF LoadOff, Shaped, ReadFields
<1>5. CASE LoadSeq
  <2>1. Miss \/ \E s : r' = [r EXCEPT !.retry = TRUE] \/ r' = [r EXCEPT !.pc = "fields", !.seq = s]
    BY <1>5 DEF LoadSeq
  <2> QED BY <1>1, <2>1 DEF Shaped, ReadFields
<1>6. CASE LoadFields
  <2>1. Miss \/ Retry \/ \E n, eh : r' = [r EXCEPT !.pc = "copy", !.n = n, !.eh = eh]
    BY <1>6 DEF LoadFields
  <2> QED BY <1>1, <1>2, <2>1 DEF Shaped, ReadFields
<1>7. CASE CopyWord
  <2>1. \E c, pc : r' = [r EXCEPT !.copy = c, !.pc = pc]
    BY <1>7 DEF CopyWord
  <2> QED BY <2>1 DEF Shaped, ReadFields
<1>8. CASE LoadSeqAgain
  <2>1. Retry \/ r' = [r EXCEPT !.pc = "tail"]
    BY <1>8 DEF LoadSeqAgain
  <2> QED BY <1>2, <2>1 DEF Shaped, ReadFields
<1>9. CASE CheckTail
  <2>1. \E hit : r' = [r EXCEPT !.pc = "done", !.hit = hit]
    BY <1>9 DEF CheckTail
  <2> QED BY <2>1 DEF Shaped, ReadFields
<1> QED BY <1>3, <1>4, <1>5, <1>6, <1>7, <1>8, <1>9 DEF ReadWord

LEMMA QuietLoad ==
  ASSUME OwnHash, NEW S, Inv(S), Mapped, QuietInv, ReadWord \/ CheckTail, UNCHANGED wvars
  PROVE  QuietInv'
<1>1. /\ Shaped' /\ Reading /\ r'.quiet = r.quiet /\ r'.key = r.key /\ r'.ok = r.ok
      /\ r'.now = r.now /\ Shaped
  BY LoadShape DEF QuietInv
<1>2. CASE ~r.quiet
  BY <1>1, <1>2 DEF QuietInv
<1> SUFFICES ASSUME r.quiet PROVE QuietInv'
  BY <1>2
<1>3. /\ w.pc = "idle" /\ r.key \in Keys /\ r.ok = Published(r.key) /\ ~r.hit /\ r.pc \in ReadPcs
      /\ r.pc # "idle" /\ r.pc # "done"
  BY <1>1 DEF QuietInv, Reading
<1>4. UNCHANGED <<tail, idx, hd, body, w>>
  BY DEF wvars
<1>5. /\ \A p : HdrAt(p)' = HdrAt(p)
      /\ Published(r.key)' = Published(r.key)
      /\ \A p : AtKey(p)' <=> AtKey(p)
      /\ \A d : Unmet(d)' <=> Unmet(d)
  <2>1. \A p : HdrAt(p)' = HdrAt(p)
    BY <1>4 DEF HdrAt, Phys
  <2> QED BY <1>1, <1>4, <2>1 DEF Published, AtKey, Entry, Unmet, At
\* What is left to show of each load.
<1>6. ASSUME r'.pc \in ReadPcs, r'.pc # "done" => ~r'.hit,
             r'.pc = "probe" => /\ r'.probes \in Slot /\ r'.i = At(Hash[r.key], r'.probes)
                                /\ Unmet(r'.probes),
             r'.pc = "off" => \E p : p = idx[r'.i].off /\ AtKey(p),
             r'.pc \in AtRecord => AtKey(r'.pos) /\ ~r'.retry,
             r'.pc \in {"fields", "copy", "seq2", "tail"} => r'.seq = HdrAt(r'.pos).seq,
             r'.pc \in {"copy", "seq2", "tail"} =>
               /\ r'.eh /\ r'.n = HdrAt(r'.pos).size
               /\ r'.copy \in Seq(Nat \X Nat)
               /\ r'.copy # <<>> => r'.copy[1] = <<HdrAt(r'.pos).ver, Hdr>>,
             r'.pc = "copy" => Hdr + Len(r'.copy) < r'.n,
             r'.pc \in {"probe", "off", "seq", "fields"} => r'.copy = <<>>,
             r'.pc \in {"probe", "off"} => ~r'.retry,
             r'.pc \in {"seq2", "tail"} => r'.copy # <<>>,
             r'.pc = "done" => (r'.hit <=> \E v \in r.ok : v \notin r.now)
      PROVE  QuietInv'
  <2>1. r'.pc = "off" => AtKey(idx[r.i].off)'
    <3>1. PICK p : p = idx[r'.i].off
      OBVIOUS
    <3>2. r'.pc = "off" => AtKey(p)'
      BY <1>5, <1>6, <3>1
    <3>3. (idx[r.i].off)' = p
      BY <1>4, <3>1
    <3> QED BY <3>2, <3>3 DEF AtKey, Entry, HdrAt
  <2>2. r'.pc \in AtRecord => AtKey(r.pos)'
    <3>1. PICK p : p = r'.pos
      OBVIOUS
    <3>2. r'.pc \in AtRecord => AtKey(p)'
      BY <1>5, <1>6, <3>1
    <3> QED BY <3>1, <3>2 DEF AtKey, Entry, HdrAt
  <2>3. HdrAt(r.pos)' = HdrAt(r'.pos)
    BY <1>4 DEF HdrAt, Phys
  <2>4. r'.pc = "probe" => (r.i = At(Hash[r.key], r.probes))' /\ Unmet(r.probes)'
    <3>1. PICK d : d = r'.probes
      OBVIOUS
    <3>2. r'.pc = "probe" => Unmet(d)'
      BY <1>5, <1>6, <3>1
    <3> QED BY <1>1, <1>6, <3>1, <3>2 DEF Unmet, At
  <2>5. QuietReadHits'
    BY <1>1, <1>6 DEF QuietReadHits
  <2>6. r'.ok = Published(r.key)' /\ w'.pc = "idle"
    BY <1>1, <1>3, <1>4, <1>5
  <2> QED BY <1>1, <1>3, <1>6, <2>1, <2>2, <2>3, <2>4, <2>5, <2>6 DEF QuietInv
<1>7. ASSUME Miss, Published(r.key) = {} PROVE QuietInv'
  <2>1. r'.pc = "done" /\ r'.hit = r.hit
    BY <1>1, <1>7 DEF Miss, Shaped, ReadFields
  <2> QED BY <1>3, <1>6, <1>7, <2>1 DEF AtRecord, ReadPcs
\* The record the reader is at.
<1>8. ASSUME NEW p, AtKey(p)
      PROVE  /\ p \in Nat /\ tail <= p /\ Rec(hd, body, p, Hash[r.key])
             /\ HdrAt(p).key = r.key /\ HdrAt(p).hash = Hash[r.key]
             /\ Published(r.key) = {HdrAt(p).ver} /\ HdrAt(p).seq \in {0, 2}
             /\ HdrAt(p).size > Hdr /\ HdrAt(p).size <= Remain(p) /\ HdrAt(p).size \in Nat
             /\ Phys(p) \in Units /\ HdrAt(p) = hd[Phys(p)]
  <2>1. /\ p \in Nat /\ tail <= p /\ Rec(hd, body, p, Hash[r.key])
        /\ HdrAt(p).key = r.key /\ HdrAt(p).hash = Hash[r.key]
        /\ Published(r.key) = {HdrAt(p).ver}
    BY <1>3, <1>8, OnePublished
  <2>2. HdrAt(p) = hd[Phys(p)] /\ HdrAt(p).size \in Nat /\ Phys(p) \in Units
    BY <2>1, HdrTyped, PhysType DEF Inv
  <2> QED BY <2>1, <2>2 DEF Rec, Sits
<1>9. CASE Probe
  <2>1. /\ r.pc = "probe" /\ r.probes \in Slot /\ r.i = At(Hash[r.key], r.probes)
        /\ Unmet(r.probes) /\ r.copy = <<>> /\ ~r.retry
    BY <1>3, <1>9 DEF Probe, QuietInv
  <2>2. Hash[r.key] \in Nat /\ Hash[r.key] # Empty
    BY <1>3, Constants DEF Empty
  <2>3. r.probes \in Nat /\ r.probes < Slots /\ Slots \in Nat /\ r.i \in Slot
    <3>1. r.probes \in Nat /\ r.probes < Slots /\ Slots \in Nat
      BY <2>1, Constants DEF Slot
    <3> QED BY <2>1, <2>2, <3>1, AtType
  <2>4. CASE idx[r.i].hash = Empty
    <3>1. Published(r.key) = {}
      BY <1>3, <2>1, <2>4, NonePublished
    <3>2. Miss
      BY <1>9, <2>2, <2>4 DEF Probe
    <3> QED BY <1>7, <3>1, <3>2
  <2>5. CASE idx[r.i].hash = Hash[r.key]
    <3>1. r' = [r EXCEPT !.pc = "off"]
      BY <1>9, <2>2, <2>5 DEF Probe
    <3>2. r'.pc = "off" /\ r'.i = r.i /\ r'.copy = <<>> /\ ~r'.retry /\ ~r'.hit
      BY <1>1, <1>3, <2>1, <3>1 DEF Shaped, ReadFields
    <3>3. Entry(r.i).key \in Keys /\ idx[r.i].hash = Hash[Entry(r.i).key]
      BY <2>2, <2>3, <2>5, HeldSlot
    <3>4. Entry(r.i).key = r.key
      BY <1>3, <2>5, <3>3 DEF OwnHash
    <3>5. AtKey(idx[r.i].off)
      BY <2>3, <2>5, <3>4 DEF AtKey
    <3> QED BY <1>6, <3>2, <3>5 DEF AtRecord, ReadPcs
  <2>6. CASE idx[r.i].hash # Empty /\ idx[r.i].hash # Hash[r.key]
    <3>1. PICK d, pc, i :
            /\ d \in Nat /\ pc \in ReadPcs
            /\ d = r.probes + 1 /\ i = At(r.i, 1)
            /\ pc = IF d < Slots THEN "probe" ELSE "done"
      BY <2>3 DEF ReadPcs
    <3>2. r' = [r EXCEPT !.i = i, !.probes = d, !.pc = pc]
      BY <1>9, <2>6, <3>1 DEF Probe
    <3>3. r'.pc = pc /\ r'.i = i /\ r'.probes = d /\ r'.copy = <<>> /\ ~r'.retry /\ r'.hit = r.hit
      BY <1>1, <2>1, <3>2 DEF Shaped, ReadFields
    <3>4. CASE d < Slots
      <4>1. pc = "probe" /\ d \in Slot
        BY <2>3, <3>1, <3>4 DEF Slot
      <4>2. Unmet(d)
        <5> SUFFICES ASSUME NEW e \in 0 .. d - 1
                     PROVE  idx[At(Hash[r.key], e)].hash \notin {Empty, Hash[r.key]}
          BY DEF Unmet
        <5>1. e \in 0 .. r.probes - 1 \/ e = r.probes
          BY <2>3, <3>1
        <5> QED BY <2>1, <2>6, <5>1 DEF Unmet
      <4>3. i = At(Hash[r.key], d)
        <5>1. PICK k \in Nat : k = Home(Hash[r.key]) /\ k < Slots
          BY <2>2, HomeType
        <5>2. /\ r.probes \in 0 .. Slots /\ d \in 0 .. Slots /\ 1 \in 0 .. Slots
          BY <2>3, <3>1, <3>4
        <5>3. /\ r.i = IF k + r.probes < Slots THEN k + r.probes ELSE k + r.probes - Slots
              /\ At(Hash[r.key], d) = IF k + d < Slots THEN k + d ELSE k + d - Slots
          BY <2>1, <2>2, <5>1, <5>2, AtForm
        <5>4. Home(r.i) = r.i /\ r.i \in Nat
          BY <2>3, HomeOfSlot DEF Slot
        <5>5. At(r.i, 1) = IF r.i + 1 < Slots THEN r.i + 1 ELSE r.i + 1 - Slots
          BY <5>2, <5>4, AtForm
        <5> QED BY <2>3, <3>1, <3>4, <5>1, <5>3, <5>5
      <4> QED BY <1>3, <1>6, <3>3, <4>1, <4>2, <4>3 DEF AtRecord, ReadPcs
    <3>5. CASE ~(d < Slots)
      <4>1. pc = "done" /\ r.probes = Slots - 1
        BY <2>3, <3>1, <3>5
      <4>2. Published(r.key) = {}
        BY <1>3, <2>1, <2>6, <4>1, NonePublished
      <4> QED BY <1>3, <1>6, <3>3, <4>1, <4>2 DEF AtRecord, ReadPcs
    <3> QED BY <3>4, <3>5
  <2> QED BY <2>4, <2>5, <2>6
<1>10. CASE LoadOff
  <2>1. PICK p : p = idx[r.i].off
    OBVIOUS
  <2>2. /\ r.pc = "off" /\ AtKey(p) /\ r.copy = <<>> /\ ~r.retry
    BY <1>3, <1>10, <2>1 DEF LoadOff, QuietInv
  <2>3. r' = [r EXCEPT !.pc = "seq", !.pos = p]
    BY <1>10, <2>1 DEF LoadOff
  <2>4. r'.pc = "seq" /\ r'.pos = p /\ r'.copy = <<>> /\ ~r'.retry /\ ~r'.hit
    BY <1>1, <1>3, <2>2, <2>3 DEF Shaped, ReadFields
  <2> QED BY <1>6, <2>2, <2>4 DEF AtRecord, ReadPcs
<1>11. PICK p : p = r.pos
  OBVIOUS
<1>12. r.pc \in AtRecord =>
         /\ AtKey(p) /\ ~r.retry /\ p \in Nat /\ tail <= p /\ Rec(hd, body, p, Hash[r.key])
         /\ HdrAt(p).key = r.key /\ HdrAt(p).hash = Hash[r.key]
         /\ Published(r.key) = {HdrAt(p).ver} /\ HdrAt(p).seq \in {0, 2}
         /\ HdrAt(p).size > Hdr /\ HdrAt(p).size <= Remain(p) /\ HdrAt(p).size \in Nat
         /\ Phys(p) \in Units /\ HdrAt(p) = hd[Phys(p)]
  BY <1>3, <1>8, <1>11 DEF QuietInv
<1>13. CASE LoadSeq
  <2>1. r.pc = "seq" /\ r.pc \in AtRecord /\ r.copy = <<>>
    BY <1>3, <1>13 DEF LoadSeq, AtRecord, QuietInv
  <2>2. SeqsAt(Phys(p)) = {HdrAt(p).seq}
    BY <1>12, <2>1 DEF SeqsAt
  <2>3. r' = [r EXCEPT !.pc = "fields", !.seq = HdrAt(p).seq]
    BY <1>11, <1>12, <1>13, <2>1, <2>2 DEF LoadSeq
  <2>4. /\ r'.pc = "fields" /\ r'.seq = HdrAt(p).seq /\ r'.pos = p /\ r'.copy = <<>>
        /\ r'.retry = r.retry /\ ~r'.hit
    BY <1>1, <1>3, <1>11, <2>1, <2>3 DEF Shaped, ReadFields
  <2> QED BY <1>6, <1>12, <2>1, <2>4 DEF AtRecord, ReadPcs
<1>14. CASE LoadFields
  <2>1. r.pc = "fields" /\ r.pc \in AtRecord /\ r.copy = <<>> /\ r.seq = HdrAt(p).seq
    BY <1>3, <1>11, <1>14 DEF LoadFields, AtRecord, QuietInv
  <2>2. Stable(Phys(p)) /\ Remain(p) = Data - Phys(p)
    BY <1>12, <2>1 DEF Stable, Remain
  <2>3. ~(HdrAt(p).size > Data - Phys(p))
    <3>1. Data - Phys(p) \in Int
      BY <1>12, <2>1, Constants DEF Units
    <3> QED BY <1>12, <2>1, <2>2, <3>1
  <2>4. r' = [r EXCEPT !.pc = "copy", !.n = HdrAt(p).size, !.eh = TRUE]
    BY <1>11, <1>12, <1>14, <2>1, <2>2, <2>3 DEF LoadFields
  <2>5. /\ r'.pc = "copy" /\ r'.n = HdrAt(p).size /\ r'.eh = TRUE /\ r'.pos = p
        /\ r'.seq = r.seq /\ r'.copy = <<>> /\ r'.retry = r.retry /\ ~r'.hit
    BY <1>1, <1>3, <1>11, <2>1, <2>4 DEF Shaped, ReadFields
  <2>6. Hdr + Len(<<>>) < HdrAt(p).size /\ <<>> \in Seq(Nat \X Nat)
    BY <1>12, <2>1, Constants
  <2> QED BY <1>6, <1>12, <2>1, <2>5, <2>6 DEF AtRecord, ReadPcs
<1>15. CASE CopyWord
  <2>1. /\ r.pc = "copy" /\ r.pc \in AtRecord /\ r.seq = HdrAt(p).seq /\ r.eh
        /\ r.n = HdrAt(p).size /\ r.copy \in Seq(Nat \X Nat)
        /\ (r.copy # <<>> => r.copy[1] = <<HdrAt(p).ver, Hdr>>) /\ Hdr + Len(r.copy) < r.n
    BY <1>3, <1>11, <1>15 DEF CopyWord, AtRecord, QuietInv
  <2>2. PICK n \in Nat : n = Len(r.copy)
    BY <2>1
  <2>3. PICK v : v = body[Phys(p) + Hdr + n]
    OBVIOUS
  <2>4. PICK y \in Nat : y = Hdr + n
    BY <2>2, Constants
  <2>5. y \in Hdr .. hd[Phys(p)].size - 1
    BY <1>12, <2>1, <2>2, <2>4, Constants
  <2>6. body[Phys(p) + y] = <<HdrAt(p).ver, y>>
    BY <1>12, <2>1, <2>5 DEF Rec
  <2>7. Phys(p) + y = Phys(p) + Hdr + n
    BY <1>12, <2>1, <2>2, <2>4, Constants DEF Units
  <2>8. v = <<HdrAt(p).ver, y>> /\ HdrAt(p).ver \in Nat
    BY <1>12, <2>1, <2>3, <2>6, <2>7, HdrTyped DEF Inv
  <2>9. PICK c : c = Append(r.copy, v)
    OBVIOUS
  <2>10. /\ c \in Seq(Nat \X Nat) /\ Len(c) = n + 1 /\ c[n + 1] = v
         /\ \A x \in 1 .. n : c[x] = r.copy[x]
    BY <2>1, <2>2, <2>4, <2>8, <2>9
  <2>11. c # <<>> /\ c[1] = <<HdrAt(p).ver, Hdr>>
    <3>1. CASE n = 0
      <4>1. y = Hdr /\ c[1] = v /\ Len(c) = 1
        BY <2>4, <2>10, <3>1, Constants
      <4> QED BY <2>8, <4>1
    <3>2. CASE n # 0
      <4>1. r.copy # <<>> /\ 1 \in 1 .. n
        BY <2>2, <3>2
      <4> QED BY <2>1, <2>2, <2>10, <4>1
    <3> QED BY <3>1, <3>2
  <2>12. PICK pc : pc = IF Hdr + Len(c) = r.n THEN "seq2" ELSE "copy"
    OBVIOUS
  <2>13. r' = [r EXCEPT !.copy = c, !.pc = pc]
    BY <1>11, <1>15, <2>2, <2>3, <2>9, <2>12 DEF CopyWord
  <2>14. /\ r'.pc = pc /\ r'.copy = c /\ r'.n = r.n /\ r'.eh = r.eh /\ r'.pos = p
         /\ r'.seq = r.seq /\ r'.retry = r.retry /\ ~r'.hit
    BY <1>1, <1>3, <1>11, <2>13 DEF Shaped, ReadFields
  <2>15. pc = "copy" => Hdr + Len(c) < r.n
    <3>1. PICK m \in Nat, z \in Nat : m = Hdr + Len(c) /\ z = r.n
      BY <1>12, <2>1, <2>2, <2>10, Constants
    <3>2. m <= z
      BY <2>1, <2>2, <2>10, <3>1, Constants
    <3>3. pc = "copy" => m # z
      BY <2>12, <3>1
    <3> QED BY <3>1, <3>2, <3>3
  <2>16. pc \in {"copy", "seq2"}
    BY <2>12
  <2> QED BY <1>6, <1>12, <2>1, <2>10, <2>11, <2>14, <2>15, <2>16 DEF AtRecord, ReadPcs
<1>16. CASE LoadSeqAgain
  <2>1. /\ r.pc = "seq2" /\ r.pc \in AtRecord /\ r.seq = HdrAt(p).seq /\ r.eh
        /\ r.n = HdrAt(p).size /\ r.copy \in Seq(Nat \X Nat)
        /\ r.copy # <<>> /\ r.copy[1] = <<HdrAt(p).ver, Hdr>>
    BY <1>3, <1>11, <1>16 DEF LoadSeqAgain, AtRecord, QuietInv
  <2>2. SeqsAt(Phys(p)) = {HdrAt(p).seq}
    BY <1>12, <2>1 DEF SeqsAt
  <2>3. r' = [r EXCEPT !.pc = "tail"]
    BY <1>11, <1>16, <2>1, <2>2 DEF LoadSeqAgain
  <2>4. /\ r'.pc = "tail" /\ r'.copy = r.copy /\ r'.n = r.n /\ r'.eh = r.eh /\ r'.pos = p
        /\ r'.seq = r.seq /\ r'.retry = r.retry /\ ~r'.hit
    BY <1>1, <1>3, <1>11, <2>3 DEF Shaped, ReadFields
  <2> QED BY <1>6, <1>12, <2>1, <2>4 DEF AtRecord, ReadPcs
<1>17. CASE CheckTail
  <2>1. /\ r.pc = "tail" /\ r.pc \in AtRecord /\ r.copy # <<>>
        /\ r.copy[1] = <<HdrAt(p).ver, Hdr>>
    BY <1>3, <1>11, <1>17 DEF CheckTail, AtRecord, QuietInv
  <2>2. PICK hit : hit = (HdrAt(p).ver \notin r.now)
    OBVIOUS
  <2>3. r' = [r EXCEPT !.pc = "done", !.hit = hit]
    <3>1. PICK g : g = HdrAt(p).ver
      OBVIOUS
    <3>2. r.copy[1][1] = g
      BY <2>1, <3>1
    <3>3. hit = (tail <= r.pos /\ r.copy[1][1] \notin r.now)
      BY <1>11, <1>12, <2>1, <2>2, <3>1, <3>2
    <3> QED BY <1>17, <3>3 DEF CheckTail
  <2>4. r'.pc = "done" /\ r'.hit = hit
    BY <1>1, <2>3 DEF Shaped, ReadFields
  <2>5. r.ok = {HdrAt(p).ver}
    BY <1>3, <1>12, <2>1
  <2>6. r'.hit <=> \E v \in r.ok : v \notin r.now
    BY <2>2, <2>4, <2>5
  <2> QED BY <1>6, <2>4, <2>6 DEF AtRecord, ReadPcs
<1> QED BY <1>9, <1>10, <1>13, <1>14, <1>15, <1>16, <1>17 DEF ReadWord

LEMMA QuietBegins ==
  ASSUME NEW k \in ReadKeys, ReadBegin(k), Shaped, UNCHANGED wvars
  PROVE  QuietInv'
<1>1. PICK i, g, ok, q : /\ i = Home(Hash[k]) /\ g = aged /\ ok = Published(k) /\ q = (w.pc = "idle")
                         /\ r' = [IdleReader EXCEPT !.pc = "probe", !.key = k, !.i = i,
                                                    !.now = g, !.ok = ok, !.quiet = q]
  BY DEF ReadBegin
<1>2. /\ r'.pc = "probe" /\ r'.key = k /\ r'.i = i /\ r'.ok = ok /\ r'.quiet = q
      /\ r'.copy = <<>> /\ r'.retry = FALSE /\ r'.hit = FALSE /\ r'.probes = 0 /\ Shaped'
  BY <1>1 DEF IdleReader, Shaped, ReadFields
<1>3. k \in Keys /\ Hash[k] \in Nat /\ 0 \in Slot
  BY ArenaAssumption, Constants DEF Slot
<1>4. UNCHANGED <<idx, hd, w>>
  BY DEF wvars
<1>5. Published(k)' = Published(k)
  BY <1>4 DEF Published, HdrAt, Phys
<1>6. At(Hash[k], 0) = i
  <2>1. Home(Hash[k]) \in Nat /\ Home(Hash[k]) < Slots /\ 0 \in 0 .. Slots
    BY <1>3, HomeType, Constants
  <2> QED BY <1>1, <1>3, <2>1, AtForm
<1>7. Unmet(r.probes)'
  BY <1>2 DEF Unmet
<1>8. QuietReadHits'
  BY <1>2 DEF QuietReadHits
<1>9. r'.quiet => w'.pc = "idle"
  BY <1>1, <1>2, <1>4
<1>10. r'.ok = Published(r.key)' /\ (r.i = At(Hash[r.key], r.probes))'
  <2>1. Published(r.key)' = Published(k)'
    BY <1>2 DEF Published, HdrAt, Phys
  <2>2. At(Hash[r'.key], r'.probes) = At(Hash[k], 0)
    BY <1>2
  <2> QED BY <1>1, <1>2, <1>5, <1>6, <2>1, <2>2 DEF At
<1> QED BY <1>2, <1>3, <1>7, <1>8, <1>9, <1>10 DEF QuietInv, AtRecord, ReadPcs

\* A read the writer leaves alone finds what is there: its value if it has not expired,
\* and nothing only if the index holds nothing for the key. That no two keys share a
\* hash is needed: storeGet ends its probe at the first entry of the hash.
THEOREM QuietReadsHit == OwnHash => (Spec => []QuietReadHits)
<1> SUFFICES ASSUME OwnHash PROVE Spec => []QuietReadHits
  OBVIOUS
<1>1. Init => QuietInv
  <2>1. IdleReader = [f \in ReadFields |-> IdleReader[f]] /\ IdleReader.pc = "idle"
    BY DEF IdleReader, ReadFields
  <2> QED BY <2>1 DEF Init, QuietInv, Shaped
<1>2. SoundInv /\ QuietInv /\ [Next]_vars => QuietInv'
  <2> SUFFICES ASSUME SoundInv, QuietInv, [Next]_vars PROVE QuietInv'
    OBVIOUS
  <2>1. PICK S : Inv(S)
    BY DEF SoundInv, IInv
  <2>2. Mapped /\ Shaped
    BY DEF SoundInv, QuietInv
  <2>3. CASE Observe
    BY <2>2, <2>3, Disturbed
  <2>4. ASSUME NEW k \in ReadKeys, ReadBegin(k), UNCHANGED <<wvars, hint, aged>>
        PROVE  QuietInv'
    BY <2>2, <2>4, QuietBegins
  <2>5. CASE (ReadWord \/ CheckTail) /\ UNCHANGED wvars
    BY <2>1, <2>2, <2>5, QuietLoad
  <2>6. CASE UNCHANGED vars
    <3>1. UNCHANGED <<idx, hd, tail, w, r>>
      BY <2>6 DEF vars, wvars
    <3> QED BY <3>1 DEF QuietInv, Shaped, Published, Unmet, AtKey, Entry, HdrAt, Phys, At,
                        QuietReadHits
  <2> QED BY <2>3, <2>4, <2>5, <2>6 DEF Next
<1>3. QuietInv => QuietReadHits
  <2> SUFFICES ASSUME QuietInv, r.pc = "done", r.quiet PROVE QuietReadHits
    BY DEF QuietReadHits
  <2> QED BY DEF QuietInv
<1> QED BY <1>1, <1>2, <1>3, InitSound, SoundNext, PTL DEF Spec

=============================================================================
