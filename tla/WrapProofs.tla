----------------------------- MODULE WrapProofs -----------------------------
(***************************************************************************)
(* Proofs about the two components that count in a word or a ring that     *)
(* wraps: Expiry and SubmitRing.  Both rest on the same facts about        *)
(* remainders, which come first.                                           *)
(*                                                                         *)
(* Expiry, for every clock width, every set of lifetimes and every sweep   *)
(* and pause no longer than half the clock's range: no entry is expired    *)
(* early and none is served late. The expiry word of an entry is its end   *)
(* modulo the clock's range, so the whole argument is that end and clock   *)
(* are never half the range apart while the word is compared: ahead of the *)
(* clock the clamp of the lifetime says so, behind it the sweep does in    *)
(* the arena, and the length of a pause for a get under way.               *)
(*                                                                         *)
(* SubmitRing, for every capacity, header size, set of record lengths,     *)
(* budget and number of processes: the indices keep their order, no record *)
(* is rejected, and the ring implements the queue.                         *)
(***************************************************************************)
EXTENDS SubmitRing, Expiry, TLAPS

-----------------------------------------------------------------------------
(* Remainders: a number is so many laps of M and what is left.             *)

\* A number is a number of laps and a remainder below M ...
LEMMA ModLaps ==
  ASSUME NEW M \in Nat \ {0}, NEW x \in Int
  PROVE  /\ x % M \in 0 .. (M - 1)
         /\ \E q \in Int : x = M * q + (x % M)
         /\ x >= 0 => \E q \in Nat : x = M * q + (x % M)
<1>1. x % M \in 0 .. (M - 1)
  OBVIOUS
<1>2. x = M * (x \div M) + (x % M)
  OBVIOUS
<1>3. x \div M \in Int /\ (x >= 0 => x \div M \in Nat)
  OBVIOUS
<1>4. \E q \in Int : x = M * q + (x % M)
  BY <1>2, <1>3, Zenon
<1>5. x >= 0 => \E q \in Nat : x = M * q + (x % M)
  BY <1>2, <1>3, Zenon
<1> QED BY <1>1, <1>4, <1>5

\* ... and only one of each.
LEMMA ModUnique ==
  ASSUME NEW M \in Nat \ {0}, NEW x \in Int, NEW q \in Int, NEW r \in 0 .. (M - 1),
         x = M * q + r
  PROVE  x % M = r
<1>1. PICK s \in Int : x = M * s + (x % M)
  BY ModLaps
<1> DEFINE y == x % M
<1>2. y \in 0 .. (M - 1) /\ x = M * s + y
  BY <1>1, ModLaps
<1> HIDE DEF y
<1>3. CASE s = q
  BY <1>2, <1>3 DEF y
<1>4. CASE s >= q + 1
  <2>1. M * s >= M * (q + 1)
    BY <1>4
  <2>2. M * (q + 1) = M * q + M
    OBVIOUS
  <2> QED BY <1>2, <2>1, <2>2
<1>5. CASE q >= s + 1
  <2>1. M * q >= M * (s + 1)
    BY <1>5
  <2>2. M * (s + 1) = M * s + M
    OBVIOUS
  <2> QED BY <1>2, <2>1, <2>2
<1> QED BY <1>3, <1>4, <1>5

\* Whole laps do not change the remainder.
LEMMA ModShift ==
  ASSUME NEW M \in Nat \ {0}, NEW x \in Int, NEW z \in Int, NEW k \in Int, x = M * k + z
  PROVE  x % M = z % M
<1>1. PICK t \in Int : z = M * t + (z % M)
  BY ModLaps
<1> DEFINE r == z % M
<1>2. r \in 0 .. (M - 1) /\ z = M * t + r
  BY <1>1, ModLaps
<1> HIDE DEF r
<1> DEFINE u == k + t
<1>3. M * u = M * k + M * t /\ u \in Int
  OBVIOUS
<1> HIDE DEF u
<1>4. x = M * u + r
  BY <1>2, <1>3
<1>5. x % M = r
  BY <1>2, <1>3, <1>4, ModUnique
<1> QED BY <1>5 DEF r

\* Adding to a remainder, or to the number, gives the same remainder; so does
\* the difference of two remainders, or of the numbers.
LEMMA ModAdd ==
  ASSUME NEW M \in Nat \ {0}, NEW x \in Int, NEW y \in Int
  PROVE  /\ ((x % M) + y) % M = (x + y) % M
         /\ ((x % M) - (y % M)) % M = (x - y) % M
<1>1. PICK q \in Int : x = M * q + (x % M)
  BY ModLaps
<1>2. PICK s \in Int : y = M * s + (y % M)
  BY ModLaps
<1> DEFINE a == x % M
           b == y % M
<1>3. a \in Int /\ b \in Int /\ x = M * q + a /\ y = M * s + b
  BY <1>1, <1>2, ModLaps
<1> HIDE DEF a, b
<1>4. (x + y) % M = (a + y) % M
  <2> DEFINE u == x + y
             z == a + y
  <2>1. u \in Int /\ z \in Int /\ u = M * q + z
    BY <1>3
  <2> HIDE DEF u, z
  <2>2. u % M = z % M
    BY <2>1, ModShift
  <2> QED BY <2>2 DEF u, z
<1>5. (x - y) % M = (a - b) % M
  <2> DEFINE u == x - y
             z == a - b
             k == q - s
  <2>1. u \in Int /\ z \in Int /\ k \in Int /\ u = M * k + z
    <3>1. M * (q - s) = M * q - M * s
      OBVIOUS
    <3> QED BY <1>3, <3>1
  <2> HIDE DEF u, z, k
  <2>2. u % M = z % M
    BY <2>1, ModShift
  <2> QED BY <2>2 DEF u, z
<1> QED BY <1>4, <1>5 DEF a, b

-----------------------------------------------------------------------------
(* Expiry: the inductive invariant                                         *)

Entry == [exp : 0 .. Wrap - 1, due : Int]

\* The word of an entry is its end modulo the clock's range, and the end is less than
\* half that range ahead.
WordOK(e) ==
  e # None =>
    /\ e.due \in Nat
    /\ e.due = 0 => e.exp = 0
    /\ e.due > 0 => e.exp = e.due % Wrap /\ e.due - time < Half

\* What the sweep has left in the arena had not ended when it passed.
SweptOK ==
  /\ time - swept <= SweepEvery
  /\ arena # None /\ arena.exp # 0 => arena.due > swept

\* What a get under way has read had not ended when it read it.
GetOK == get # None /\ get.exp # 0 => time - paused < get.due

\* An L1 copy of an entry that ends has a deadline, at most a pause later than that.
L1OK ==
  l1 # None =>
    /\ l1.due \in Nat
    /\ l1.due % Wrap # 0 => l1.exp > 0 /\ l1.exp <= l1.due + Pause

LifeInv ==
  /\ LifeTypeOK /\ served \in Int
  /\ WordOK(arena) /\ WordOK(get)
  /\ SweptOK /\ GetOK /\ L1OK
  /\ ServedInTime

-----------------------------------------------------------------------------

\* What is assumed of the constants, and the clock's range.
LEMMA WordFacts ==
  /\ Half \in Nat /\ Half > 1 /\ Wrap \in Nat \ {0} /\ Wrap = 2 * Half
  /\ Asked \subseteq Nat
  /\ SweepEvery \in Nat /\ SweepEvery <= Half
  /\ Pause \in Nat /\ Pause <= Half /\ MaxTime \in Nat
BY ExpiryAssumption DEF Wrap

\* The signed word is the difference itself when that is within half the range.
LEMMA SignedExact ==
  ASSUME NEW d \in Int, -Half <= d, d < Half
  PROVE  Signed(d) = d
<1>1. CASE d >= 0
  <2>1. d = Wrap * 0 + d /\ d \in 0 .. (Wrap - 1)
    BY <1>1, WordFacts
  <2>2. d % Wrap = d
    BY <2>1, WordFacts, ModUnique
  <2> QED
    BY <2>2 DEF Signed
<1>2. CASE d < 0
  <2>1. d = Wrap * (-1) + (d + Wrap) /\ d + Wrap \in 0 .. (Wrap - 1)
    BY <1>2, WordFacts
  <2>2. d % Wrap = d + Wrap
    BY <2>1, WordFacts, ModUnique
  <2>3. ~(d + Wrap < Half) /\ (d + Wrap) - Wrap = d
    BY WordFacts
  <2> QED
    BY <2>2, <2>3 DEF Signed
<1> QED
  BY <1>1, <1>2

\* The two comparisons of tcExpired and of LastTtlRemainingMs see the true distance
\* between the clock and the end of an entry, as long as it is within half the range.
LEMMA WordDistance ==
  ASSUME time \in Nat, NEW due \in Nat, time - due < Half, due - time < Half
  PROVE  /\ Signed(Now - (due % Wrap)) = time - due
         /\ Signed((due % Wrap) - Now) = due - time
<1>1. Wrap \in Nat \ {0} /\ time \in Int /\ due \in Int
  BY WordFacts
<1>2. /\ (Now - (due % Wrap)) % Wrap = (time - due) % Wrap
      /\ ((due % Wrap) - Now) % Wrap = (due - time) % Wrap
  BY <1>1, ModAdd DEF Now
<1>3. /\ Signed(Now - (due % Wrap)) = Signed(time - due)
      /\ Signed((due % Wrap) - Now) = Signed(due - time)
  BY <1>2 DEF Signed
<1>4. /\ time - due \in Int /\ due - time \in Int
      /\ -Half <= due - time /\ -Half <= time - due
  BY WordFacts
<1> QED
  BY <1>3, <1>4, SignedExact

\* The word of a new entry is its end modulo the clock's range.
LEMMA NewWord ==
  ASSUME time \in Nat, NEW t \in Nat, t > 0
  PROVE  ExpiresAt(t) = (time + t) % Wrap
<1>1. Wrap \in Nat \ {0} /\ time \in Int /\ t \in Int
  BY WordFacts
<1>2. ((time % Wrap) + t) % Wrap = (time + t) % Wrap
  BY <1>1, ModAdd
<1> QED
  BY <1>2 DEF ExpiresAt, Now

\* A word is zero or the residue of a positive number: what the arithmetic needs.
LEMMA WordRange ==
  ASSUME NEW n \in Nat
  PROVE  n % Wrap \in 0 .. (Wrap - 1)
BY WordFacts, ModLaps

\* What the state holds, in the form the steps below use it.
LEMMA StateFacts ==
  ASSUME LifeInv
  PROVE  /\ time \in Nat /\ time <= MaxTime /\ swept \in Nat /\ swept <= time
         /\ time - swept <= SweepEvery
         /\ paused \in Nat /\ paused <= Pause
         /\ arena \in Entry /\ get \in Entry /\ l1 \in [exp : Nat, due : Int]
BY WordFacts DEF LifeInv, LifeTypeOK, SweptOK, Entry

\* tcExpired says of the entry in the arena exactly that its end has come: the sweep
\* has passed since the end came within reach, and the clamp keeps it in reach ahead.
LEMMA ArenaExpired ==
  ASSUME LifeInv, arena # None, arena.exp # 0
  PROVE  /\ arena.due > 0
         /\ Expired(arena.exp) <=> arena.due <= time
<1> DEFINE due == arena.due
<1>1. /\ due \in Nat /\ (due = 0 => arena.exp = 0)
      /\ due > 0 => arena.exp = due % Wrap /\ due - time < Half
      /\ due > swept
  BY DEF LifeInv, WordOK, SweptOK
<1>2. arena.exp = due % Wrap
  BY <1>1
<1> HIDE DEF due
<1>3. due > 0 /\ due - time < Half /\ time - due < Half
  BY <1>1, StateFacts, WordFacts
<1>4. Signed(Now - (due % Wrap)) = time - due
  BY <1>1, <1>3, StateFacts, WordDistance
<1>5. (time - due >= 0) <=> (due <= time)
  BY <1>1, StateFacts
<1>6. Expired(arena.exp) <=> due <= time
  BY <1>2, <1>4, <1>5 DEF Expired
<1> QED
  BY <1>3, <1>6 DEF due

\* The lifetime an L1 copy is given ends at most a pause after that of the entry read,
\* and is given if the entry's word is not zero.
LEMMA CopyDeadline ==
  ASSUME LifeInv, get # None, get.exp # 0
  PROVE  /\ get.due \in Nat
         /\ Remaining(get.exp) \in Nat /\ Remaining(get.exp) > 0
         /\ time + Remaining(get.exp) <= get.due + Pause
<1> DEFINE due == get.due
           d == Signed(get.exp - Now)
<1>1. /\ due \in Nat /\ (due = 0 => get.exp = 0)
      /\ due > 0 => get.exp = due % Wrap /\ due - time < Half
      /\ time - paused < due
  BY DEF LifeInv, WordOK, GetOK
<1>2. get.exp = due % Wrap
  BY <1>1
<1>3. Remaining(get.exp) = IF d > 0 THEN d ELSE 1
  BY DEF Remaining
<1> HIDE DEF due
<1>4. due > 0 /\ due - time < Half /\ time - due < Half
  BY <1>1, StateFacts, WordFacts
<1>5. d = due - time
  BY <1>1, <1>2, <1>4, StateFacts, WordDistance
<1> HIDE DEF d
<1> DEFINE r == Remaining(get.exp)
<1>6. r = IF due - time > 0 THEN due - time ELSE 1
  BY <1>3, <1>5
<1> HIDE DEF r
<1>7. r \in Nat /\ r > 0 /\ time + r <= due + Pause
  BY <1>1, <1>6, StateFacts, WordFacts
<1> QED
  BY <1>1, <1>7 DEF due, r

-----------------------------------------------------------------------------

\* The first state: nothing is stored.
LEMMA InitLifeInv == LifeInit => LifeInv
<1> SUFFICES ASSUME LifeInit PROVE LifeInv
  OBVIOUS
<1>1. None \in Entry /\ None \in [exp : Nat, due : Int] /\ None.due = -1
  BY WordFacts DEF None, Entry
<1>2. LifeTypeOK /\ served \in Int
  BY <1>1, WordFacts DEF LifeInit, LifeTypeOK, Entry
<1>3. WordOK(arena) /\ WordOK(get) /\ GetOK /\ L1OK
  BY DEF LifeInit, WordOK, GetOK, L1OK
<1>4. SweptOK /\ ServedInTime
  BY WordFacts DEF LifeInit, SweptOK, ServedInTime
<1> QED
  BY <1>2, <1>3, <1>4 DEF LifeInv

\* Time passes: an end comes nearer, the sweep falls behind by no more than its pass,
\* and a get under way is paused for as long as the clock has moved.
LEMMA TickIInv == LifeInv /\ Tick => LifeInv'
<1> SUFFICES ASSUME LifeInv, Tick PROVE LifeInv'
  OBVIOUS
<1>1. /\ time' = time + 1 /\ served' = -1 /\ time < MaxTime /\ time - swept < SweepEvery
      /\ arena' = arena /\ l1' = l1 /\ get' = get /\ swept' = swept
      /\ get # None => paused < Pause /\ paused' = paused + 1
      /\ get = None => paused' = 0
  BY DEF Tick
<1>2. time' \in 0 .. MaxTime /\ swept' \in 0 .. time' /\ paused' \in 0 .. Pause
  BY <1>1, StateFacts, WordFacts
<1>3. LifeTypeOK' /\ served' \in Int
  BY <1>1, <1>2, StateFacts DEF LifeTypeOK, Entry
<1>4. WordOK(arena)' /\ WordOK(get)'
  <2>1. WordOK(arena) /\ WordOK(get)
    BY DEF LifeInv
  <2>2. ASSUME NEW d \in Nat, d - time < Half
        PROVE  d - (time + 1) < Half
    BY <2>2, StateFacts, WordFacts
  <2>3. WordOK(arena)'
    BY <1>1, <2>1, <2>2 DEF WordOK, None
  <2>4. WordOK(get)'
    BY <1>1, <2>1, <2>2 DEF WordOK, None
  <2> QED
    BY <2>3, <2>4
<1>5. SweptOK'
  <2>1. (time + 1) - swept <= SweepEvery
    BY <1>1, StateFacts, WordFacts
  <2> QED
    BY <1>1, <2>1 DEF LifeInv, SweptOK, None
<1>6. GetOK'
  <2>1. CASE get = None
    BY <1>1, <2>1 DEF GetOK, None
  <2>2. CASE get # None
    <3>1. (time + 1) - (paused + 1) = time - paused
      BY StateFacts
    <3> QED
      BY <1>1, <2>2, <3>1 DEF LifeInv, GetOK, None
  <2> QED
    BY <2>1, <2>2
<1>7. L1OK'
  BY <1>1 DEF LifeInv, L1OK, None, Wrap
<1>8. ServedInTime'
  BY <1>1 DEF ServedInTime
<1> QED
  BY <1>3, <1>4, <1>5, <1>6, <1>7, <1>8 DEF LifeInv

\* A set: the clamp keeps the end within half the range, and the end is ahead.
LEMMA SetIInv ==
  ASSUME LifeInv, NEW ttl \in Asked, NEW level \in {1, 2}, Set(ttl, level)
  PROVE  LifeInv'
<1> DEFINE t == Clamp(ttl)
           due == IF t = 0 THEN 0 ELSE time + t
<1>1. /\ arena' = [exp |-> ExpiresAt(t), due |-> due]
      /\ l1' = IF level = 1 THEN [exp |-> due, due |-> due] ELSE None
      /\ get = None /\ get' = None /\ served' = -1
      /\ time' = time /\ paused' = paused /\ swept' = swept
  BY DEF Set
<1>2. t \in Nat /\ t < Half
  BY WordFacts DEF Clamp
<1> HIDE DEF t
<1>3. /\ due \in Nat /\ due - time < Half
      /\ due = 0 <=> t = 0
      /\ due > 0 => due > swept /\ due = time + t
  BY <1>2, StateFacts, WordFacts
<1> DEFINE w == ExpiresAt(t)
<1>4. /\ due = 0 => w = 0
      /\ due > 0 => w = due % Wrap
  <2>1. CASE t = 0
    BY <1>3, <2>1 DEF ExpiresAt
  <2>2. CASE t # 0
    BY <1>2, <1>3, <2>2, StateFacts, NewWord
  <2> QED
    BY <2>1, <2>2
<1> HIDE DEF w
<1>5. w \in 0 .. (Wrap - 1)
  <2>1. due % Wrap \in 0 .. (Wrap - 1)
    BY <1>3, WordRange
  <2>2. due = 0 \/ due > 0
    BY <1>3
  <2>3. 0 \in 0 .. (Wrap - 1)
    BY WordFacts
  <2> QED
    BY <1>4, <2>1, <2>2, <2>3
<1>6. /\ arena' = [exp |-> w, due |-> due]
      /\ l1' = [exp |-> due, due |-> due] \/ l1' = None
  BY <1>1 DEF w
<1> HIDE DEF due
<1>7. LifeTypeOK' /\ served' \in Int
  <2>1. arena' \in Entry
    BY <1>3, <1>5, <1>6 DEF Entry
  <2>2. l1' \in [exp : Nat, due : Int]
    BY <1>3, <1>6 DEF None
  <2>3. get' \in Entry
    BY <1>1, StateFacts
  <2>4. served' \in Int
    BY <1>1
  <2> QED
    BY <1>1, <2>1, <2>2, <2>3, <2>4 DEF LifeInv, LifeTypeOK, Entry
<1>8. WordOK(arena)'
  <2>1. arena'.due = due /\ arena'.exp = w
    BY <1>6
  <2>2. /\ arena'.due \in Nat
        /\ arena'.due = 0 => arena'.exp = 0
        /\ arena'.due > 0 => arena'.exp = arena'.due % Wrap /\ arena'.due - time' < Half
    BY <1>1, <1>3, <1>4, <2>1
  <2> QED
    BY <2>2 DEF WordOK, Wrap
<1>9. WordOK(get)' /\ GetOK' /\ ServedInTime'
  BY <1>1 DEF WordOK, GetOK, ServedInTime, None
<1>10. SweptOK'
  <2>1. time' - swept' <= SweepEvery
    BY <1>1, StateFacts
  <2>2. arena'.exp # 0 => arena'.due > swept'
    BY <1>1, <1>3, <1>4, <1>6
  <2> QED
    BY <2>1, <2>2 DEF SweptOK
<1>11. L1OK'
  <2>1. due % Wrap # 0 => due > 0
    <3>1. 0 % Wrap = 0
      BY WordFacts, ModUnique
    <3> QED
      BY <1>3, <3>1
  <2>2. due <= due + Pause
    BY <1>3, WordFacts
  <2>3. CASE l1' = None
    BY <2>3 DEF L1OK, None
  <2>4. CASE l1' = [exp |-> due, due |-> due]
    <3>1. l1'.due = due /\ l1'.exp = due
      BY <2>4
    <3> QED
      BY <1>3, <2>1, <2>2, <3>1 DEF L1OK, Wrap
  <2> QED
    BY <1>6, <2>3, <2>4
<1> QED
  BY <1>7, <1>8, <1>9, <1>10, <1>11 DEF LifeInv

\* A hit in L1: what is served has a deadline that has not come.
LEMMA GetL1IInv == LifeInv /\ GetL1 => LifeInv'
<1> SUFFICES ASSUME LifeInv, GetL1 PROVE LifeInv'
  OBVIOUS
<1>1. /\ served' = l1.due /\ l1 # None /\ (l1.exp = 0 \/ l1.exp > time)
      /\ UNCHANGED <<time, arena, l1, get, paused, swept>>
  BY DEF GetL1, L1Live
<1>2. ServedInTime'
  <2> SUFFICES ASSUME l1.due % Wrap # 0 PROVE ~(time >= l1.due + Pause)
    BY <1>1 DEF ServedInTime, Wrap
  <2>1. l1.due \in Nat /\ l1.exp > 0 /\ l1.exp <= l1.due + Pause
    BY <1>1 DEF LifeInv, L1OK
  <2>2. l1.exp > time /\ l1.exp \in Nat
    BY <1>1, <2>1, StateFacts
  <2> QED
    BY <2>1, <2>2, StateFacts, WordFacts
<1>3. LifeTypeOK' /\ served' \in Int
  BY <1>1 DEF LifeInv, LifeTypeOK, Wrap
<1>4. WordOK(arena)' /\ WordOK(get)' /\ SweptOK' /\ GetOK' /\ L1OK'
  BY <1>1 DEF LifeInv, WordOK, SweptOK, GetOK, L1OK, None, Wrap
<1> QED
  BY <1>2, <1>3, <1>4 DEF LifeInv

\* A read of the arena: what it returns had not ended, and a get that goes on with it
\* is not paused yet.
LEMMA GetArenaIInv == LifeInv /\ GetArena => LifeInv'
<1> SUFFICES ASSUME LifeInv, GetArena PROVE LifeInv'
  OBVIOUS
<1>1. /\ l1' = None /\ served' = get'.due /\ paused' = 0
      /\ get' = None \/ (get' = arena /\ arena # None /\ ~Expired(arena.exp))
      /\ time' = time /\ arena' = arena /\ swept' = swept
  BY DEF GetArena
<1>2. None \in Entry /\ None \in [exp : Nat, due : Int] /\ None.due = -1
  BY WordFacts DEF None, Entry
<1>3. get' # None /\ get'.exp # 0 => get'.due \in Nat /\ time < get'.due
  <2> SUFFICES ASSUME get' # None, get'.exp # 0
               PROVE  arena.due \in Nat /\ time < arena.due
    BY <1>1
  <2>1. arena # None /\ arena.exp # 0 /\ ~Expired(arena.exp)
    BY <1>1
  <2>2. arena.due \in Nat /\ ~(arena.due <= time)
    BY <2>1, ArenaExpired DEF LifeInv, WordOK
  <2> QED
    BY <2>2, StateFacts
<1>4. LifeTypeOK' /\ served' \in Int
  <2>1. get' \in Entry
    BY <1>1, <1>2, StateFacts
  <2>2. served' \in Int
    BY <1>1, <2>1 DEF Entry
  <2>3. paused' \in 0 .. Pause
    BY <1>1, WordFacts
  <2> QED
    BY <1>1, <1>2, <2>1, <2>2, <2>3 DEF LifeInv, LifeTypeOK, Entry, Wrap
<1>5. WordOK(arena)' /\ SweptOK'
  BY <1>1 DEF LifeInv, WordOK, SweptOK, None, Wrap
<1>6. WordOK(get)'
  BY <1>1 DEF LifeInv, WordOK, None, Wrap
<1>7. GetOK'
  <2>1. time' - paused' = time
    BY <1>1, StateFacts
  <2> QED
    BY <1>3, <2>1 DEF GetOK, None
<1>8. L1OK'
  BY <1>1 DEF L1OK, None
<1>9. ServedInTime'
  <2> SUFFICES ASSUME get'.due > 0, get'.due % Wrap # 0
               PROVE  ~(time >= get'.due + Pause)
    BY <1>1 DEF ServedInTime, Wrap
  <2>1. get' # None
    BY <1>2
  <2>2. get'.exp # 0
    BY <1>1, <2>1 DEF LifeInv, WordOK
  <2>3. get'.due \in Nat /\ time < get'.due
    BY <1>3, <2>1, <2>2
  <2> QED
    BY <2>3, StateFacts, WordFacts
<1> QED
  BY <1>4, <1>5, <1>6, <1>7, <1>8, <1>9 DEF LifeInv

\* The end of a get: the copy's deadline is the entry's end, or one tick if the entry
\* ended during the pause.
LEMMA FillL1IInv == LifeInv /\ FillL1 => LifeInv'
<1> SUFFICES ASSUME LifeInv, FillL1 PROVE LifeInv'
  OBVIOUS
<1> DEFINE rem == Remaining(get.exp)
           dl == IF rem = 0 THEN 0 ELSE time + rem
<1>1. /\ get # None /\ l1' = [exp |-> dl, due |-> get.due]
      /\ get' = None /\ served' = -1
      /\ time' = time /\ arena' = arena /\ paused' = paused /\ swept' = swept
  BY DEF FillL1
<1>2. get.due \in Nat /\ (get.due = 0 => get.exp = 0)
      /\ (get.due > 0 => get.exp = get.due % Wrap)
  BY <1>1 DEF LifeInv, WordOK
<1>3. /\ get.exp = 0 => rem = 0
      /\ get.exp # 0 => rem \in Nat /\ rem > 0 /\ time + rem <= get.due + Pause
  BY <1>1, CopyDeadline DEF Remaining
<1> HIDE DEF rem
<1>4. /\ dl \in Nat
      /\ get.exp # 0 => dl > 0 /\ dl <= get.due + Pause
  BY <1>3, StateFacts
<1> HIDE DEF dl
<1>5. None \in Entry
  BY WordFacts DEF None, Entry
<1>6. LifeTypeOK' /\ served' \in Int
  <2>1. l1' \in [exp : Nat, due : Int]
    BY <1>1, <1>2, <1>4
  <2> QED
    BY <1>1, <1>5, <2>1 DEF LifeInv, LifeTypeOK, Entry, Wrap
<1>7. WordOK(arena)' /\ WordOK(get)' /\ SweptOK' /\ GetOK' /\ ServedInTime'
  BY <1>1 DEF LifeInv, WordOK, SweptOK, GetOK, ServedInTime, None, Wrap
<1>8. L1OK'
  <2>1. l1'.due = get.due /\ l1'.exp = dl
    BY <1>1
  <2>2. get.due % Wrap # 0 => get.exp # 0
    <3>1. 0 % Wrap = 0
      BY WordFacts, ModUnique
    <3> QED
      BY <1>2, <3>1
  <2> QED
    BY <1>2, <1>4, <2>1, <2>2 DEF L1OK, Wrap
<1> QED
  BY <1>6, <1>7, <1>8 DEF LifeInv

\* A delete leaves nothing.
LEMMA DeleteIInv == LifeInv /\ Delete => LifeInv'
<1> SUFFICES ASSUME LifeInv, Delete PROVE LifeInv'
  OBVIOUS
<1>1. /\ arena' = None /\ l1' = None /\ served' = -1
      /\ time' = time /\ get' = get /\ paused' = paused /\ swept' = swept
  BY DEF Delete
<1>2. None \in Entry /\ None \in [exp : Nat, due : Int]
  BY WordFacts DEF None, Entry
<1>3. LifeTypeOK' /\ served' \in Int
  BY <1>1, <1>2 DEF LifeInv, LifeTypeOK, Entry, Wrap
<1>4. WordOK(arena)' /\ WordOK(get)' /\ SweptOK' /\ GetOK' /\ L1OK' /\ ServedInTime'
  BY <1>1 DEF LifeInv, WordOK, SweptOK, GetOK, L1OK, ServedInTime, None, Wrap
<1> QED
  BY <1>3, <1>4 DEF LifeInv

\* A pass of the sweep leaves an entry only if its end is still ahead.
LEMMA SweepIInv == LifeInv /\ Sweep => LifeInv'
<1> SUFFICES ASSUME LifeInv, Sweep PROVE LifeInv'
  OBVIOUS
<1>1. /\ arena' = None \/ (arena' = arena /\ (arena = None \/ ~Expired(arena.exp)))
      /\ swept' = time /\ served' = -1
      /\ time' = time /\ l1' = l1 /\ get' = get /\ paused' = paused
  BY DEF Sweep
<1>2. None \in Entry
  BY WordFacts DEF None, Entry
<1>3. LifeTypeOK' /\ served' \in Int
  <2>1. swept' \in 0 .. time'
    BY <1>1, StateFacts
  <2>2. arena' \in Entry
    BY <1>1, <1>2, StateFacts
  <2> QED
    BY <1>1, <2>1, <2>2 DEF LifeInv, LifeTypeOK, Entry, Wrap
<1>4. WordOK(arena)' /\ WordOK(get)' /\ GetOK' /\ L1OK' /\ ServedInTime'
  BY <1>1 DEF LifeInv, WordOK, GetOK, L1OK, ServedInTime, None, Wrap
<1>5. SweptOK'
  <2>1. time' - swept' <= SweepEvery
    BY <1>1, StateFacts, WordFacts
  <2>2. ASSUME arena' # None, arena'.exp # 0
        PROVE  arena'.due > swept'
    <3>1. arena' = arena /\ arena # None /\ arena.exp # 0 /\ ~Expired(arena.exp)
      BY <1>1, <2>2
    <3>2. arena.due \in Nat /\ ~(arena.due <= time)
      BY <3>1, ArenaExpired DEF LifeInv, WordOK
    <3> QED
      BY <1>1, <3>1, <3>2, StateFacts
  <2> QED
    BY <2>1, <2>2 DEF SweptOK, None
<1> QED
  BY <1>3, <1>4, <1>5 DEF LifeInv

-----------------------------------------------------------------------------

LEMMA NextLifeInv == LifeInv /\ [LifeNext]_lifeVars => LifeInv'
<1> SUFFICES ASSUME LifeInv, [LifeNext]_lifeVars PROVE LifeInv'
  OBVIOUS
<1>1. CASE UNCHANGED lifeVars
  BY <1>1 DEF lifeVars, LifeInv, LifeTypeOK, WordOK, SweptOK, GetOK, L1OK, ServedInTime, None, Wrap
<1>2. CASE \E ttl \in Asked, level \in {1, 2} : Set(ttl, level)
  BY <1>2, SetIInv
<1> QED
  BY <1>1, <1>2, TickIInv, GetL1IInv, GetArenaIInv, FillL1IInv, DeleteIInv, SweepIInv
     DEF LifeNext

\* The inductive invariant holds throughout.
LEMMA ExpiryInvariant == LifeSpec => []LifeInv
BY InitLifeInv, NextLifeInv, PTL DEF LifeSpec

\* An entry is not taken for expired, by a read or by the sweep, while it has time left,
\* wherever in its lap the clock stands: tcExpired and sweepExpired for a clock of any
\* width, any lifetimes, and any sweep that passes a key at least every half lap.
THEOREM NeverEarlyHolds == LifeSpec => []NeverEarly
<1>1. LifeInv => NeverEarly
  <2> SUFFICES ASSUME LifeInv, arena # None, arena.due = 0 \/ time < arena.due
               PROVE  ~Expired(arena.exp)
    BY DEF NeverEarly, LifeInv
  <2>1. CASE arena.exp = 0
    BY <2>1 DEF Expired
  <2>2. CASE arena.exp # 0
    <3>1. arena.due > 0 /\ arena.due \in Nat
      BY <2>2, ArenaExpired DEF LifeInv, WordOK
    <3>2. ~(arena.due <= time)
      BY <3>1, StateFacts
    <3> QED
      BY <2>2, <3>2, ArenaExpired
  <2> QED
    BY <2>1, <2>2
<1> QED
  BY <1>1, ExpiryInvariant, PTL

\* No value is returned past its end, from the arena or from L1, by more than a pause of
\* get, unless that end is a multiple of the clock's range (get, LastTtlRemainingMs).
THEOREM ServedInTimeHolds == LifeSpec => []ServedInTime
<1>1. LifeInv => ServedInTime
  BY DEF LifeInv
<1> QED
  BY <1>1, ExpiryInvariant, PTL

-----------------------------------------------------------------------------
(* SubmitRing: the inductive invariant                                     *)

\* The position behind the n-th record published.
End(n) == IF n = 0 THEN 0 ELSE pushed[n].end

\* A record at a that ends at e is where submitPush puts it when the head is
\* b: behind the head or at the start of the buffer, and in one piece.
Fits(b, a, e) ==
  /\ a \in Nat /\ e \in Nat
  /\ a = b \/ a = b + Remain(b)
  /\ e - a > Hdr /\ Off(a) + (e - a) <= Cap

\* The first n words of record id of length len are in place at a.
Written(a, id, len, n) ==
  \A j \in 0 .. (n - 1) : mem[Off(a) + j] = Word(id, "record", len, j)

\* The rest of the buffer from b on is marked, where a header fits.
Skipped(b) ==
  Remain(b) >= Hdr => \A j \in 0 .. (Hdr - 1) : mem[Off(b) + j] = Word(0, "skip", Remain(b), j)

\* What the history keeps of a record.
Record == [id : Ids, at : Nat, end : Nat]

\* The records lie one behind the other up to the head.
Layout ==
  /\ pushed \in Seq(Record)
  /\ \A i \in 1 .. Len(pushed) : Fits(End(i - 1), pushed[i].at, pushed[i].end)
  /\ \A i, j \in 1 .. Len(pushed) : i < j => pushed[i].end <= pushed[j].at
  /\ head = End(Len(pushed))

\* What the consumer has not given back is intact.
Intact ==
  \A i \in 1 .. Len(pushed) :
    /\ tail <= pushed[i].at =>
         Written(pushed[i].at, pushed[i].id, pushed[i].end - pushed[i].at,
                 pushed[i].end - pushed[i].at)
    /\ tail <= End(i - 1) /\ End(i - 1) < pushed[i].at => Skipped(End(i - 1))

\* Only the live owner is in the middle of anything, and a claim expects an
\* owner that cannot come back.
Holds(p) == pc[p].op \in {"idle", "skip", "write"}
SoleProducer ==
  \A p \in Procs :
    /\ Holds(p) => owner = p /\ p \in alive
    /\ pc[p].op = "claim" => pc[p].expect = Free \/ pc[p].expect \notin alive

\* What is left of the room check, and what has been written so far.
PushOK(p) ==
  /\ pc[p].op = "skip" =>
       /\ Admissible(pc[p].need) /\ Room(head, tail, pc[p].need)
       /\ pc[p].pad = Pad(head, pc[p].need)
  /\ pc[p].op = "write" =>
       /\ Fits(head, pc[p].at, pc[p].at + pc[p].need)
       /\ pc[p].at + pc[p].need - tail <= Cap
       /\ pc[p].done <= pc[p].need
       /\ Written(pc[p].at, pc[p].id, pc[p].need, pc[p].done)
       /\ head < pc[p].at => Skipped(head)

\* The consumer is before the first record it has not applied, or before the
\* padding in front of it, and the head it works up to is one that was stored.
WordType == [id : 0 .. MaxPush, op : {"none", "skip", "record"}, len : 0 .. Cap, j : 0 .. Cap]
ConsumerType ==
  [mode : {"asleep", "walk", "apply"}, head : Nat, tail : Nat, steps : Nat,
   applied : Nat, rec : WordType]
Position == IF cons.mode = "asleep" THEN tail ELSE cons.tail
ConsumerOK ==
  /\ cons \in ConsumerType /\ corrupt = 0
  /\ cons.mode = "asleep" => cons = Asleep
  /\ applied \in Seq(Nat) /\ Len(applied) <= Len(pushed)
  /\ \/ Position = End(Len(applied))
     \/ Len(applied) < Len(pushed) /\ Position = pushed[Len(applied) + 1].at
  /\ cons.mode # "asleep" =>
       /\ tail <= cons.tail /\ cons.tail <= cons.head
       /\ \E m \in 0 .. Len(pushed) : cons.head = End(m)
  /\ cons.mode = "apply" =>
       /\ Len(applied) < Len(pushed) /\ cons.tail < cons.head
       /\ LET r == pushed[Len(applied) + 1] IN
          cons.tail = r.at /\ cons.rec = Word(r.id, "record", r.end - r.at, 0)

IInv ==
  /\ TypeOK /\ Layout /\ Intact /\ SoleProducer /\ ConsumerOK
  /\ \A p \in Procs : PushOK(p)

-----------------------------------------------------------------------------
(* Positions and offsets *)

\* The constants.
LEMMA ConstantFacts ==
  /\ Cap \in Nat /\ Cap > 0 /\ Hdr \in Nat /\ Hdr > 0 /\ Cap \div 2 \in Nat
  /\ Hdr <= Cap /\ Cap \div 2 < Cap /\ Hdr < Cap
  /\ \A n \in Sizes : n \in Nat /\ n > Hdr
BY RingAssumption

\* A position is a number of laps and an offset.
LEMMA OffLaps ==
  ASSUME NEW x \in Nat
  PROVE  Off(x) \in 0 .. (Cap - 1) /\ \E q \in Nat : x = Cap * q + Off(x)
<1>1. Cap \in Nat \ {0} /\ x \in Int /\ x >= 0
  BY ConstantFacts
<1> QED BY <1>1, ModLaps DEF Off

\* ... and only one.
LEMMA OffUnique ==
  ASSUME NEW x \in Nat, NEW q \in Nat, NEW r \in 0 .. (Cap - 1), x = Cap * q + r
  PROVE  Off(x) = r
<1>1. Cap \in Nat \ {0} /\ x \in Int /\ q \in Int
  BY ConstantFacts
<1> QED BY <1>1, ModUnique DEF Off

\* Up to the end of the buffer offsets run with the positions; the position
\* there is at offset 0.
LEMMA OffStep ==
  ASSUME NEW x \in Nat, NEW j \in Nat
  PROVE  /\ Off(x) + j < Cap => Off(x + j) = Off(x) + j
         /\ Off(x) + j = Cap => Off(x + j) = 0
<1>1. Cap \in Nat /\ Cap > 0
  BY ConstantFacts
<1>2. PICK q \in Nat : x = Cap * q + Off(x)
  BY OffLaps
<1>3. Off(x) \in 0 .. (Cap - 1)
  BY OffLaps
<1>4. ASSUME Off(x) + j < Cap PROVE Off(x + j) = Off(x) + j
  <2>1. x + j = Cap * q + (Off(x) + j)
    BY <1>1, <1>2, <1>3
  <2>2. x + j \in Nat /\ Off(x) + j \in 0 .. (Cap - 1)
    BY <1>1, <1>3, <1>4
  <2> QED BY <2>1, <2>2, OffUnique
<1>5. ASSUME Off(x) + j = Cap PROVE Off(x + j) = 0
  <2>1. x + j = Cap * (q + 1) + 0
    <3>1. Cap * (q + 1) = Cap * q + Cap
      BY <1>1
    <3> QED BY <1>1, <1>2, <1>3, <1>5, <3>1
  <2>2. x + j \in Nat /\ 0 \in 0 .. (Cap - 1) /\ q + 1 \in Nat
    BY <1>1
  <2> QED BY <2>1, <2>2, OffUnique
<1> QED BY <1>4, <1>5

\* Two positions less than a lap apart are at different offsets.
LEMMA OffApart ==
  ASSUME NEW x \in Nat, NEW y \in Nat, x < y, y < x + Cap
  PROVE  Off(x) # Off(y)
<1>1. Cap \in Nat /\ Cap > 0
  BY ConstantFacts
<1>2. PICK q \in Nat : x = Cap * q + Off(x)
  BY OffLaps
<1>3. PICK s \in Nat : y = Cap * s + Off(y)
  BY OffLaps
<1>4. Off(x) \in 0 .. (Cap - 1) /\ Off(y) \in 0 .. (Cap - 1)
  BY OffLaps
<1> SUFFICES ASSUME Off(x) = Off(y) PROVE FALSE
  OBVIOUS
<1>5. CASE s <= q
  <2>1. Cap * s <= Cap * q
    BY <1>1, <1>5
  <2> QED BY <1>1, <1>2, <1>3, <1>4, <2>1
<1>6. CASE s >= q + 1
  <2>1. Cap * s >= Cap * (q + 1)
    BY <1>1, <1>6
  <2>2. Cap * (q + 1) = Cap * q + Cap
    BY <1>1
  <2> QED BY <1>1, <1>2, <1>3, <1>4, <2>1, <2>2
<1> QED BY <1>5, <1>6

\* The same for words counted from two starts.
LEMMA WordsApart ==
  ASSUME NEW x \in Nat, NEW i \in Nat, Off(x) + i < Cap,
         NEW y \in Nat, NEW j \in Nat, Off(y) + j < Cap,
         x + i < y + j, y + j < x + i + Cap
  PROVE  Off(x) + i # Off(y) + j
<1>1. Off(x + i) = Off(x) + i /\ Off(y + j) = Off(y) + j
  BY OffStep
<1>2. x + i \in Nat /\ y + j \in Nat /\ Cap \in Nat
  BY ConstantFacts
<1> QED BY <1>1, <1>2, OffApart

\* What remains to the end of the buffer.
LEMMA RemainFacts ==
  ASSUME NEW x \in Nat
  PROVE  /\ Off(x) \in Nat /\ Off(x) < Cap
         /\ Remain(x) \in Nat /\ Remain(x) > 0 /\ Remain(x) <= Cap
         /\ Off(x) + Remain(x) = Cap
         /\ x + Remain(x) \in Nat /\ Off(x + Remain(x)) = 0
<1>1. Off(x) \in 0 .. (Cap - 1) /\ Cap \in Nat /\ Cap > 0
  BY OffLaps, ConstantFacts
<1>2. Remain(x) \in Nat /\ Off(x) + Remain(x) = Cap /\ Remain(x) > 0 /\ Remain(x) <= Cap
  BY <1>1 DEF Remain
<1>3. Off(x + Remain(x)) = 0
  BY <1>2, OffStep
<1> QED BY <1>1, <1>2, <1>3

\* A record that fits is whole, behind the head, and not next to the end.
LEMMA FitsFacts ==
  ASSUME NEW b \in Nat, NEW a, NEW e, Fits(b, a, e)
  PROVE  /\ a \in Nat /\ e \in Nat /\ b <= a /\ a < e /\ e - a \in Nat /\ e - a <= Cap
         /\ e - a > Hdr /\ Off(a) + (e - a) <= Cap /\ Remain(a) >= e - a
         /\ b < a => a = b + Remain(b)
<1>1. a \in Nat /\ e \in Nat /\ (a = b \/ a = b + Remain(b)) /\ e - a > Hdr
      /\ Off(a) + (e - a) <= Cap
  BY DEF Fits
<1>2. Off(a) \in Nat /\ Remain(b) \in Nat /\ Remain(b) > 0 /\ Off(a) + Remain(a) = Cap
      /\ Remain(a) \in Nat
  BY <1>1, RemainFacts
<1> QED BY <1>1, <1>2, ConstantFacts

\* The same for a record given by its length.
LEMMA FitsLen ==
  ASSUME NEW b \in Nat, NEW a \in Nat, NEW n \in Nat, Fits(b, a, a + n)
  PROVE  /\ b <= a /\ a < a + n /\ a + n \in Nat /\ n > Hdr /\ n <= Cap
         /\ Off(a) + n <= Cap
         /\ b < a => a = b + Remain(b)
<1> DEFINE e == a + n
<1>1. Fits(b, a, e) /\ e - a = n
  OBVIOUS
<1>2. e = a + n
  OBVIOUS
<1> HIDE DEF e
<1>3. /\ b <= a /\ a < e /\ e \in Nat /\ e - a > Hdr /\ e - a <= Cap /\ Off(a) + (e - a) <= Cap
      /\ b < a => a = b + Remain(b)
  BY <1>1, FitsFacts
<1> QED BY <1>1, <1>2, <1>3

\* Where submitPush puts a record, and that it is less than the buffer away.
LEMMA PadFacts ==
  ASSUME NEW h \in Nat, NEW t \in Nat, NEW need \in Sizes,
         Admissible(need), Room(h, t, need)
  PROVE  /\ Pad(h, need) \in 0 .. (Cap - 1)
         /\ Fits(h, h + Pad(h, need), h + Pad(h, need) + need)
         /\ h + Pad(h, need) + need - t <= Cap
         /\ Pad(h, need) > 0 => Pad(h, need) = Remain(h)
<1>1. /\ need \in Nat /\ need > Hdr /\ need <= Cap \div 2 /\ Cap \in Nat /\ Hdr \in Nat
      /\ Cap \div 2 \in Nat /\ Cap \div 2 < Cap /\ Hdr < Cap
  BY ConstantFacts DEF Admissible
<1>2. /\ Off(h) \in Nat /\ Off(h) < Cap /\ Remain(h) \in Nat /\ Remain(h) > 0
      /\ Off(h) + Remain(h) = Cap /\ h + Remain(h) \in Nat /\ Off(h + Remain(h)) = 0
  BY RemainFacts
<1>3. CASE Pad(h, need) = 0 /\ Off(h) + need <= Cap
  BY <1>1, <1>2, <1>3 DEF Fits, Room
<1>4. CASE Pad(h, need) = Remain(h) /\ Off(h) > 0
  BY <1>1, <1>2, <1>4 DEF Fits, Room
<1> QED BY <1>1, <1>2, <1>3, <1>4 DEF Pad
-----------------------------------------------------------------------------
(* Facts about the state *)

\* Where the records start and end.
LEMMA EndFacts ==
  ASSUME Layout
  PROVE  /\ Len(pushed) \in Nat
         /\ \A n \in 0 .. Len(pushed) : End(n) \in Nat /\ End(n) <= head
         /\ \A n \in 1 .. Len(pushed) :
              /\ Fits(End(n - 1), pushed[n].at, pushed[n].end)
              /\ pushed[n].id \in Ids /\ pushed[n].at \in Nat /\ pushed[n].end \in Nat
              /\ pushed[n].at < pushed[n].end /\ End(n) = pushed[n].end
              /\ End(n - 1) \in Nat /\ End(n - 1) <= pushed[n].at
              /\ pushed[n].end <= head
         /\ \A m, n \in 0 .. Len(pushed) : m < n => End(m) <= pushed[n].at
<1>1. Len(pushed) \in Nat
  BY DEF Layout
<1>2. \A n \in 1 .. Len(pushed) :
        pushed[n].id \in Ids /\ pushed[n].at \in Nat /\ pushed[n].end \in Nat
  <2>1. \A n \in 1 .. Len(pushed) : pushed[n] \in Record
    <3>1. pushed \in Seq(Record)
      BY DEF Layout
    <3> QED BY <3>1
  <2> QED BY <2>1 DEF Record
<1>3. \A n \in 0 .. Len(pushed) : End(n) \in Nat
  BY <1>1, <1>2 DEF End
<1>4. ASSUME NEW n \in 1 .. Len(pushed)
      PROVE  /\ Fits(End(n - 1), pushed[n].at, pushed[n].end)
             /\ pushed[n].at < pushed[n].end /\ End(n) = pushed[n].end
             /\ End(n - 1) \in Nat /\ End(n - 1) <= pushed[n].at
  <2>1. n - 1 \in 0 .. Len(pushed) /\ n # 0
    BY <1>1
  <2>2. Fits(End(n - 1), pushed[n].at, pushed[n].end)
    BY DEF Layout
  <2> QED BY <1>2, <1>3, <2>1, <2>2, FitsFacts DEF End
<1>5. \A m, n \in 0 .. Len(pushed) : m < n => End(m) <= pushed[n].at
  BY <1>1, <1>2 DEF Layout, End
<1>6. \A n \in 0 .. Len(pushed) : End(n) <= head
  <2>1. head = End(Len(pushed)) /\ Len(pushed) \in 0 .. Len(pushed)
    BY <1>1 DEF Layout
  <2>2. ASSUME NEW n \in 0 .. Len(pushed), n < Len(pushed) PROVE End(n) <= head
    <3>1. Len(pushed) \in 1 .. Len(pushed) /\ n \in 0 .. Len(pushed)
      BY <1>1, <2>2
    <3>2. End(n) <= pushed[Len(pushed)].at
      BY <1>5, <2>1, <2>2
    <3>3. pushed[Len(pushed)].at < head
      BY <1>4, <2>1, <3>1
    <3> QED BY <1>2, <1>3, <2>1, <3>1, <3>2, <3>3
  <2> QED BY <1>1, <1>3, <2>1, <2>2
<1>7. \A n \in 1 .. Len(pushed) : pushed[n].end <= head
  BY <1>1, <1>4, <1>6
<1> QED BY <1>1, <1>2, <1>3, <1>4, <1>5, <1>6, <1>7

\* What a process that is in the middle of something carries.
LEMMA PcFields ==
  ASSUME pc \in [Procs -> ProcPc], NEW p \in Procs
  PROVE  /\ pc[p].op = "claim" => pc[p].expect \in Procs \cup {Free}
         /\ pc[p].op = "skip" => /\ pc[p].id \in Ids /\ pc[p].need \in Sizes
                                 /\ pc[p].pad \in 0 .. (Cap - 1)
         /\ pc[p].op = "write" => /\ pc[p].id \in Ids /\ pc[p].need \in Sizes
                                  /\ pc[p].at \in Nat /\ pc[p].done \in Nat
<1>1. pc[p] \in ProcPc
  OBVIOUS
<1> QED BY <1>1 DEF ProcPc, Idle, Without

\* Memory that keeps the words between tail and head keeps the records intact.
LEMMA IntactKeeps ==
  ASSUME Layout, Intact, pushed' = pushed, tail \in Nat, tail' \in Nat, tail <= tail',
         \A x \in Nat : tail' <= x /\ x < head => mem'[Off(x)] = mem[Off(x)]
  PROVE  Intact'
<1> USE ConstantFacts
<1>1. SUFFICES ASSUME NEW i \in 1 .. Len(pushed)
      PROVE  /\ tail' <= pushed[i].at =>
                  Written(pushed[i].at, pushed[i].id, pushed[i].end - pushed[i].at,
                          pushed[i].end - pushed[i].at)'
             /\ tail' <= End(i - 1) /\ End(i - 1) < pushed[i].at => Skipped(End(i - 1))'
  <2>1. \A n : End(n)' = End(n)
    BY DEF End
  <2> QED BY <2>1 DEF Intact, Written, Skipped
<1> DEFINE a == pushed[i].at
           e == pushed[i].end
           b == End(i - 1)
<1>2. /\ Fits(b, a, e) /\ a \in Nat /\ e \in Nat /\ b \in Nat /\ b <= a /\ a < e /\ e <= head
  BY EndFacts
<1>3. head \in Nat
  <2>1. Len(pushed) \in 0 .. Len(pushed)
    BY EndFacts
  <2> QED BY <2>1, EndFacts DEF Layout
<1>4. tail <= a => Written(a, pushed[i].id, e - a, e - a)
  BY DEF Intact
<1>5. tail <= b /\ b < a => Skipped(b)
  BY DEF Intact
<1>9. a' = a /\ e' = e /\ b' = b
  BY DEF End
<1> HIDE DEF a, e, b
<1>8. Off(a) + (e - a) <= Cap /\ Off(a) \in Nat /\ (b < a => a = b + Remain(b))
  BY <1>2, FitsFacts, RemainFacts
<1>6. ASSUME tail' <= a PROVE Written(a, pushed[i].id, e - a, e - a)'
  <2>1. ASSUME NEW j \in 0 .. (e - a - 1)
        PROVE  mem'[Off(a) + j] = mem[Off(a) + j]
    <3>1. j \in Nat /\ a + j \in Nat /\ tail' <= a + j /\ a + j < head /\ Off(a) + j < Cap
      BY <1>2, <1>3, <1>6, <1>8
    <3>2. Off(a + j) = Off(a) + j
      BY <1>2, <3>1, OffStep
    <3> QED BY <3>1, <3>2
  <2>2. tail <= a
    BY <1>2, <1>6
  <2> QED BY <1>4, <1>9, <2>1, <2>2 DEF Written
<1>7. ASSUME tail' <= b, b < a PROVE Skipped(b)'
  <2>0. Remain(b) \in Nat /\ Off(b) + Remain(b) = Cap /\ Off(b) \in Nat
    BY <1>2, RemainFacts
  <2>1. ASSUME Remain(b) >= Hdr, NEW j \in 0 .. (Hdr - 1)
        PROVE  mem'[Off(b) + j] = mem[Off(b) + j]
    <3>1. j \in Nat /\ b + j \in Nat /\ tail' <= b + j /\ b + j < head /\ Off(b) + j < Cap
      <4>1. j \in Nat /\ j < Hdr /\ Hdr \in Nat /\ Cap \in Nat
        BY <2>1, ConstantFacts
      <4>2. tail' \in Nat
        OBVIOUS
      <4>3. j < Remain(b) /\ a = b + Remain(b)
        BY <1>7, <1>8, <2>0, <2>1, <4>1
      <4> QED BY <1>2, <1>3, <1>7, <2>0, <4>1, <4>2, <4>3
    <3>2. Off(b + j) = Off(b) + j
      BY <1>2, <3>1, OffStep
    <3> QED BY <3>1, <3>2
  <2>2. tail <= b
    BY <1>2, <1>7
  <2> QED BY <1>5, <1>7, <1>9, <2>1, <2>2 DEF Skipped, Remain, Off
<1> QED BY <1>6, <1>7 DEF a, e, b

-----------------------------------------------------------------------------
(* The steps of the workers *)

\* The consumer's part does not depend on the memory or on the producers.
LEMMA ConsumerKeeps ==
  ASSUME ConsumerOK, UNCHANGED <<consumerVars, pushed>>
  PROVE  ConsumerOK'
BY DEF ConsumerOK, consumerVars, Position, End

\* A step of process p that leaves ring and indices alone keeps the invariant
\* when it keeps the owner rule and what p itself is in the middle of.
LEMMA QuietStep ==
  ASSUME IInv, NEW p \in Procs, UNCHANGED <<mem, head, pushed, consumerVars>>,
         NEW s \in ProcPc, pc' = [pc EXCEPT ![p] = s], PushOK(p)', SoleProducer',
         owner' \in Procs \cup {Free}, alive' \subseteq Procs, nops' \in 0 .. MaxPush
  PROVE  IInv'
<1>1. tail' = tail /\ cons' = cons /\ corrupt' = corrupt /\ applied' = applied
  BY DEF consumerVars
<1>2. pc' \in [Procs -> ProcPc] /\ \A q \in Procs : q # p => pc'[q] = pc[q]
  BY DEF IInv, TypeOK
<1>3. TypeOK'
  BY <1>1, <1>2 DEF IInv, TypeOK
<1>4. Layout' /\ Intact'
  BY <1>1 DEF IInv, Layout, Intact, Written, Skipped, End
<1>5. ConsumerOK'
  BY ConsumerKeeps DEF IInv
<1>6. ASSUME NEW q \in Procs, q # p PROVE PushOK(q)'
  <2>1. PushOK(q) /\ pc'[q] = pc[q]
    BY <1>2, <1>6 DEF IInv
  <2> QED BY <1>1, <2>1 DEF PushOK, Written, Skipped
<1> QED BY <1>3, <1>4, <1>5, <1>6 DEF IInv

\* Claiming, releasing, crashing and the beginning of a push.
LEMMA OwnerStep ==
  ASSUME IInv, NEW p \in Procs,
         ClaimLoad(p) \/ ClaimCas(p) \/ Release(p) \/ Crash(p)
  PROVE  IInv'
<1> USE RingAssumption
<1>0. /\ pc \in [Procs -> ProcPc] /\ SoleProducer /\ owner \in Procs \cup {Free}
      /\ alive \subseteq Procs /\ nops \in 0 .. MaxPush
  BY DEF IInv, TypeOK
<1>1. Idle \in ProcPc /\ Without \in ProcPc /\ Idle.op = "idle" /\ Without.op = "unclaimed"
  BY DEF ProcPc, Idle, Without
<1>2. CASE ClaimLoad(p)
  <2> DEFINE s == [op |-> "claim", expect |-> owner]
  <2>1. s \in ProcPc /\ s.op = "claim" /\ s.expect = owner
    BY <1>0 DEF ProcPc
  <2>2. /\ pc' = [pc EXCEPT ![p] = s] /\ owner' = owner /\ alive' = alive /\ nops' = nops
        /\ owner \in {Free} \cup (Procs \ alive)
        /\ UNCHANGED <<mem, head, pushed, consumerVars>>
    BY <1>2 DEF ClaimLoad
  <2> HIDE DEF s
  <2>3. pc'[p] = s /\ \A q \in Procs : q # p => pc'[q] = pc[q]
    BY <1>0, <2>2
  <2>4. PushOK(p)' /\ SoleProducer'
    BY <1>0, <2>1, <2>2, <2>3 DEF PushOK, SoleProducer, Holds
  <2> QED BY <1>0, <2>1, <2>2, <2>4, QuietStep
<1>3. CASE ClaimCas(p) /\ owner = pc[p].expect
  <2>1. /\ pc' = [pc EXCEPT ![p] = Idle] /\ owner' = p /\ alive' = alive /\ nops' = nops
        /\ UNCHANGED <<mem, head, pushed, consumerVars>> /\ p \in alive /\ pc[p].op = "claim"
    BY <1>3 DEF ClaimCas
  <2>2. pc'[p] = Idle /\ \A q \in Procs : q # p => pc'[q] = pc[q]
    BY <1>0, <2>1
  <2>3. owner = Free \/ owner \notin alive
    BY <1>0, <1>3, <2>1 DEF SoleProducer
  <2>4. \A q \in Procs : ~Holds(q)
    BY <1>0, <2>3 DEF SoleProducer
  <2>5. PushOK(p)' /\ SoleProducer'
    BY <1>0, <1>1, <2>1, <2>2, <2>4 DEF PushOK, SoleProducer, Holds
  <2> QED BY <1>0, <1>1, <2>1, <2>5, QuietStep
<1>4. CASE ClaimCas(p) /\ owner # pc[p].expect
  <2>1. /\ pc' = [pc EXCEPT ![p] = Without] /\ owner' = owner /\ alive' = alive /\ nops' = nops
        /\ UNCHANGED <<mem, head, pushed, consumerVars>>
    BY <1>4 DEF ClaimCas
  <2>2. pc'[p] = Without /\ \A q \in Procs : q # p => pc'[q] = pc[q]
    BY <1>0, <2>1
  <2>3. PushOK(p)' /\ SoleProducer'
    BY <1>0, <1>1, <2>1, <2>2 DEF PushOK, SoleProducer, Holds
  <2> QED BY <1>0, <1>1, <2>1, <2>3, QuietStep
<1>5. CASE Release(p)
  <2>1. /\ pc' = [pc EXCEPT ![p] = Without] /\ owner' = Free /\ alive' = alive /\ nops' = nops
        /\ UNCHANGED <<mem, head, pushed, consumerVars>> /\ Holds(p)
    BY <1>1, <1>5 DEF Release, Holds
  <2>2. pc'[p] = Without /\ \A q \in Procs : q # p => pc'[q] = pc[q]
    BY <1>0, <2>1
  <2>3. \A q \in Procs : q # p => ~Holds(q)
    BY <1>0, <2>1 DEF SoleProducer
  <2>4. PushOK(p)' /\ SoleProducer'
    BY <1>0, <1>1, <2>1, <2>2, <2>3 DEF PushOK, SoleProducer, Holds
  <2> QED BY <1>0, <1>1, <2>1, <2>4, QuietStep
<1>6. CASE Crash(p)
  <2>1. /\ pc' = [pc EXCEPT ![p] = Without] /\ owner' = owner /\ alive' = alive \ {p}
        /\ nops' = nops /\ UNCHANGED <<mem, head, pushed, consumerVars>>
    BY <1>6 DEF Crash
  <2>2. pc'[p] = Without /\ \A q \in Procs : q # p => pc'[q] = pc[q]
    BY <1>0, <2>1
  <2>3. PushOK(p)' /\ SoleProducer'
    BY <1>0, <1>1, <2>1, <2>2 DEF PushOK, SoleProducer, Holds
  <2> QED BY <1>0, <1>1, <2>1, <2>3, QuietStep
<1> QED BY <1>2, <1>3, <1>4, <1>5, <1>6
\* The room check of submitPush: the record it lets through has its place.
LEMMA PushBeginStep ==
  ASSUME IInv, NEW p \in Procs, NEW need \in Sizes, PushBegin(p, need)
  PROVE  IInv'
<1>0. /\ pc \in [Procs -> ProcPc] /\ SoleProducer /\ owner \in Procs \cup {Free}
      /\ alive \subseteq Procs /\ nops \in 0 .. MaxPush /\ MaxPush \in Nat
      /\ head \in Nat /\ tail \in Nat
  BY RingAssumption DEF IInv, TypeOK
<1>1. /\ owner' = owner /\ alive' = alive /\ nops' = nops + 1 /\ nops' \in Ids
      /\ nops' \in 0 .. MaxPush /\ pc[p] = Idle
      /\ UNCHANGED <<mem, head, pushed, consumerVars>>
  BY <1>0 DEF PushBegin, Ids
<1>2. Idle.op = "idle" /\ Holds(p) /\ tail' = tail /\ head' = head
  BY <1>1 DEF Idle, Holds, consumerVars
<1>3. CASE Admissible(need) /\ Room(head, tail, need)
  <2> DEFINE s == [op |-> "skip", id |-> nops', need |-> need, pad |-> Pad(head, need)]
  <2>1. Pad(head, need) \in 0 .. (Cap - 1)
    BY <1>0, <1>3, PadFacts
  <2>2. /\ s \in ProcPc /\ s.op = "skip" /\ s.need = need /\ s.pad = Pad(head, need)
    BY <1>1, <2>1 DEF ProcPc
  <2>3. pc' = [pc EXCEPT ![p] = s]
    BY <1>3 DEF PushBegin
  <2> HIDE DEF s
  <2>4. pc'[p] = s /\ \A q \in Procs : q # p => pc'[q] = pc[q]
    BY <1>0, <2>3
  <2>5. PushOK(p)'
    BY <1>2, <1>3, <2>2, <2>4 DEF PushOK, Admissible, Room, Pad, Remain, Off
  <2>6. SoleProducer'
    BY <1>0, <1>1, <1>2, <2>2, <2>4 DEF SoleProducer, Holds
  <2> QED BY <1>0, <1>1, <2>2, <2>3, <2>5, <2>6, QuietStep
<1>4. CASE ~(Admissible(need) /\ Room(head, tail, need))
  <2>1. pc' = [pc EXCEPT ![p] = pc[p]] /\ pc' = pc /\ pc[p] \in ProcPc
    BY <1>0, <1>4 DEF PushBegin
  <2>2. PushOK(p)' /\ SoleProducer'
    BY <1>0, <1>1, <1>2, <2>1 DEF PushOK, SoleProducer, Holds
  <2> QED BY <1>0, <1>1, <2>1, <2>2, QuietStep
<1> QED BY <1>3, <1>4

\* A step of the owner p that writes beyond the head, and nowhere else, keeps
\* the invariant when it keeps what p is in the middle of.
LEMMA WriteStep ==
  ASSUME IInv, NEW p \in Procs, Holds(p), UNCHANGED <<head, owner, alive, pushed, nops, consumerVars>>,
         NEW s \in ProcPc, pc' = [pc EXCEPT ![p] = s], s.op = "write", PushOK(p)',
         DOMAIN mem' = 0 .. (Cap - 1), \A o \in 0 .. (Cap - 1) : mem'[o] \in WordType,
         \A x \in Nat : tail <= x /\ x < head => mem'[Off(x)] = mem[Off(x)]
  PROVE  IInv'
<1>1. tail' = tail /\ cons' = cons /\ corrupt' = corrupt /\ applied' = applied
  BY DEF consumerVars
<1>2. /\ pc' \in [Procs -> ProcPc] /\ pc'[p] = s
      /\ \A q \in Procs : q # p => pc'[q] = pc[q]
  BY DEF IInv, TypeOK
<1>3. TypeOK'
  BY <1>1, <1>2 DEF IInv, TypeOK, WordType
<1>4. Layout'
  BY DEF IInv, Layout, End
<1>5. Intact'
  <2>1. tail \in Nat /\ tail' \in Nat /\ tail <= tail'
    BY <1>1 DEF IInv, TypeOK
  <2> QED BY <1>1, <2>1, IntactKeeps DEF IInv
<1>6. ConsumerOK'
  BY ConsumerKeeps DEF IInv
<1>7. SoleProducer'
  BY <1>2 DEF IInv, SoleProducer, Holds
<1>8. ASSUME NEW q \in Procs, q # p PROVE PushOK(q)'
  <2>1. ~Holds(q) /\ pc'[q] = pc[q]
    BY <1>2, <1>8 DEF IInv, SoleProducer
  <2> QED BY <2>1 DEF PushOK, Holds
<1> QED BY <1>3, <1>4, <1>5, <1>6, <1>7, <1>8 DEF IInv

\* The SKIP header goes where the padding is.
LEMMA WriteSkipStep ==
  ASSUME IInv, NEW p \in Procs, WriteSkip(p)
  PROVE  IInv'
<1> USE ConstantFacts
<1> DEFINE need == pc[p].need
           pad == pc[p].pad
           at == head + pad
           s == [op |-> "write", id |-> pc[p].id, need |-> need, at |-> at, done |-> 0]
<1>0. /\ pc \in [Procs -> ProcPc] /\ head \in Nat /\ tail \in Nat /\ tail <= head
      /\ DOMAIN mem = 0 .. (Cap - 1) /\ \A o \in 0 .. (Cap - 1) : mem[o] \in WordType
      /\ MaxPush \in Nat
  BY RingAssumption DEF IInv, TypeOK, WordType
<1>1. /\ pc[p].op = "skip" /\ Holds(p) /\ pc' = [pc EXCEPT ![p] = s]
      /\ UNCHANGED <<head, owner, alive, pushed, nops, consumerVars>>
      /\ mem' = [o \in 0 .. (Cap - 1) |->
           IF pad >= Hdr /\ o \in Off(head) .. (Off(head) + Hdr - 1)
             THEN Word(0, "skip", pad, o - Off(head)) ELSE mem[o]]
  BY DEF WriteSkip, Holds
<1>2. pc[p].id \in Ids /\ need \in Sizes /\ pad \in 0 .. (Cap - 1)
  BY <1>0, <1>1, PcFields
<1>3. Admissible(need) /\ Room(head, tail, need) /\ pad = Pad(head, need)
  BY <1>1 DEF IInv, PushOK
<1>4. /\ Fits(head, at, at + need) /\ at + need - tail <= Cap
      /\ pad > 0 => pad = Remain(head)
  BY <1>0, <1>2, <1>3, PadFacts
<1>5. at \in Nat /\ need \in Nat /\ need > Hdr
  BY <1>0, <1>2
<1>6. s \in ProcPc /\ s.op = "write" /\ s.id = pc[p].id /\ s.need = need /\ s.at = at /\ s.done = 0
  BY <1>2, <1>5 DEF ProcPc
<1>7. tail' = tail /\ head' = head
  BY <1>1 DEF consumerVars
<1> HIDE DEF s, at
<1>8. pc'[p] = s
  BY <1>0, <1>1
<1>9. Off(head) \in Nat /\ Off(head) < Cap /\ Off(head) + Remain(head) = Cap
      /\ Remain(head) \in Nat
  BY <1>0, RemainFacts
<1>10. DOMAIN mem' = 0 .. (Cap - 1) /\ \A o \in 0 .. (Cap - 1) : mem'[o] \in WordType
  <2>1. DOMAIN mem' = 0 .. (Cap - 1)
    BY <1>1
  <2>2. ASSUME NEW o \in 0 .. (Cap - 1) PROVE mem'[o] \in WordType
    <3>1. CASE pad >= Hdr /\ o \in Off(head) .. (Off(head) + Hdr - 1)
      <4>1. mem'[o] = Word(0, "skip", pad, o - Off(head))
        BY <1>1, <3>1
      <4>2. o - Off(head) \in 0 .. Cap /\ pad \in 0 .. Cap
        BY <1>2, <1>9, <3>1
      <4> QED BY <1>0, <4>1, <4>2 DEF Word, WordType
    <3>2. CASE ~(pad >= Hdr /\ o \in Off(head) .. (Off(head) + Hdr - 1))
      BY <1>0, <1>1, <3>2
    <3> QED BY <3>1, <3>2
  <2> QED BY <2>1, <2>2
<1>11. ASSUME NEW x \in Nat, tail <= x, x < head PROVE mem'[Off(x)] = mem[Off(x)]
  <2>1. Off(x) \in 0 .. (Cap - 1)
    BY OffLaps
  <2>2. SUFFICES ASSUME pad >= Hdr, Off(x) \in Off(head) .. (Off(head) + Hdr - 1) PROVE FALSE
    BY <1>1, <2>1
  <2>3. PICK j \in 0 .. (Hdr - 1) : Off(x) = Off(head) + j
    <3>1. Off(x) - Off(head) \in 0 .. (Hdr - 1) /\ Off(x) = Off(head) + (Off(x) - Off(head))
      BY <1>9, <2>1, <2>2
    <3> QED BY <3>1
  <2>4. Off(x) + 0 = Off(x) /\ Off(x) + 0 < Cap /\ j \in Nat /\ Off(head) + j < Cap
        /\ x + 0 < head + j /\ head + j < x + 0 + Cap
    <3>1. at + need - tail <= Cap /\ need \in Nat /\ at = head + pad /\ pad \in Nat
          /\ pad >= Hdr /\ pad = Remain(head)
      BY <1>2, <1>4, <1>5, <2>2 DEF at
    <3> HIDE DEF need, pad
    <3> QED BY <1>0, <1>9, <1>11, <2>1, <3>1
  <2> QED BY <1>0, <2>3, <2>4, WordsApart
<1>12. PushOK(p)'
  <2>1. \A j \in 0 .. (0 - 1) : FALSE
    OBVIOUS
  <2>2. head < at => Skipped(head)'
    <3>1. SUFFICES ASSUME pad = Remain(head), pad >= Hdr
                   PROVE  \A j \in 0 .. (Hdr - 1) : mem'[Off(head) + j] = Word(0, "skip", pad, j)
      BY <1>0, <1>2, <1>4, <1>7 DEF Skipped, Remain, Off, at
    <3>2. ASSUME NEW j \in 0 .. (Hdr - 1)
          PROVE  mem'[Off(head) + j] = Word(0, "skip", pad, j)
      <4>1. /\ Off(head) + j \in 0 .. (Cap - 1)
            /\ Off(head) + j \in Off(head) .. (Off(head) + Hdr - 1)
            /\ (Off(head) + j) - Off(head) = j
        BY <1>9, <3>1
      <4> QED BY <1>1, <3>1, <4>1
    <3> QED BY <3>2
  <2> QED BY <1>4, <1>5, <1>6, <1>7, <1>8, <2>1, <2>2 DEF PushOK, Fits, Written, Skipped, Remain, Off
<1> QED BY <1>1, <1>6, <1>8, <1>10, <1>11, <1>12, WriteStep
\* One more word of the record.
LEMMA WriteWordStep ==
  ASSUME IInv, NEW p \in Procs, WriteWord(p)
  PROVE  IInv'
<1> USE ConstantFacts
<1> DEFINE need == pc[p].need
           at == pc[p].at
           done == pc[p].done
           id == pc[p].id
           s == [op |-> "write", id |-> id, need |-> need, at |-> at, done |-> done + 1]
           o1 == Off(at) + done
<1>0. /\ pc \in [Procs -> ProcPc] /\ head \in Nat /\ tail \in Nat /\ tail <= head
      /\ DOMAIN mem = 0 .. (Cap - 1) /\ \A o \in 0 .. (Cap - 1) : mem[o] \in WordType
      /\ MaxPush \in Nat
  BY RingAssumption DEF IInv, TypeOK, WordType
<1>1. /\ pc[p].op = "write" /\ Holds(p) /\ done < need /\ pc' = [pc EXCEPT ![p].done = @ + 1]
      /\ UNCHANGED <<head, owner, alive, pushed, nops, consumerVars>>
      /\ mem' = [mem EXCEPT ![o1] = Word(id, "record", need, done)]
  BY DEF WriteWord, Holds
<1>2. id \in Ids /\ need \in Sizes /\ at \in Nat /\ done \in Nat
  BY <1>0, <1>1, PcFields
<1>3. /\ Fits(head, at, at + need) /\ at + need - tail <= Cap
      /\ Written(at, id, need, done) /\ (head < at => Skipped(head))
  BY <1>1 DEF IInv, PushOK
<1>4. pc[p] = [op |-> "write", id |-> id, need |-> need, at |-> at, done |-> done]
  <2>1. pc[p] \in ProcPc
    BY <1>0
  <2> QED BY <1>1, <2>1 DEF ProcPc, Idle, Without
<1>5. pc' = [pc EXCEPT ![p] = s] /\ pc'[p] = s
  <2>1. pc'[p] = [pc[p] EXCEPT !.done = done + 1] /\ pc' = [pc EXCEPT ![p] = pc'[p]]
    BY <1>0, <1>1
  <2>2. pc'[p] = s
    BY <1>4, <2>1
  <2> QED BY <2>1, <2>2
<1>6. /\ s \in ProcPc /\ s.op = "write" /\ s.id = id /\ s.need = need /\ s.at = at
      /\ s.done = done + 1
  BY <1>2 DEF ProcPc
<1>7. tail' = tail /\ head' = head
  BY <1>1 DEF consumerVars
<1> HIDE DEF s, at, need, done, id, o1
<1>8. /\ at + need \in Nat /\ head <= at /\ need \in Nat /\ Off(at) + need <= Cap
      /\ Off(at) \in Nat /\ need <= Cap /\ (head < at => at = head + Remain(head))
  <2>1. need \in Nat /\ at + need - at = need
    BY <1>2
  <2>2. /\ head <= at /\ Off(at) + need <= Cap /\ at + need \in Nat /\ need <= Cap
        /\ head < at => at = head + Remain(head)
    BY <1>0, <1>2, <1>3, <2>1, FitsLen
  <2>3. Off(at) \in Nat
    BY <1>2, RemainFacts
  <2> QED BY <2>1, <2>2, <2>3
<1>16. done < need /\ at + need - tail <= Cap /\ done \in Nat /\ at \in Nat /\ head \in Nat
       /\ tail \in Nat /\ tail <= head
  BY <1>0, <1>1, <1>2, <1>3
<1>9. o1 = Off(at) + done /\ o1 \in 0 .. (Cap - 1)
  BY <1>1, <1>2, <1>8 DEF o1
<1>10. /\ DOMAIN mem' = 0 .. (Cap - 1) /\ \A o \in 0 .. (Cap - 1) : mem'[o] \in WordType
       /\ mem'[o1] = Word(id, "record", need, done)
       /\ \A o \in 0 .. (Cap - 1) : o # o1 => mem'[o] = mem[o]
  <2>1. Word(id, "record", need, done) \in WordType
    BY <1>0, <1>1, <1>2, <1>8 DEF Word, WordType, Ids
  <2> QED BY <1>0, <1>1, <1>9, <2>1
<1>11. ASSUME NEW x \in Nat, NEW j \in Nat, tail <= x + j, x + j < at, Off(x) + j < Cap
       PROVE  mem'[Off(x) + j] = mem[Off(x) + j]
  <2>1. x + j < at + done /\ at + done < x + j + Cap /\ Off(at) + done < Cap
    BY <1>8, <1>11, <1>16
  <2>2. Off(x) + j # Off(at) + done
    BY <1>2, <1>11, <2>1, WordsApart
  <2>3. Off(x) + j \in 0 .. (Cap - 1)
    <3>1. Off(x) \in 0 .. (Cap - 1) /\ Cap \in Nat
      BY <1>11, OffLaps, ConstantFacts
    <3> QED BY <1>11, <3>1
  <2> QED BY <1>9, <1>10, <2>2, <2>3
<1>12. ASSUME NEW x \in Nat, tail <= x, x < head PROVE mem'[Off(x)] = mem[Off(x)]
  <2>1. 0 \in Nat /\ tail <= x + 0 /\ x + 0 < at /\ Off(x) + 0 < Cap /\ Off(x) + 0 = Off(x)
    <3>1. Off(x) \in 0 .. (Cap - 1)
      BY OffLaps
    <3> QED BY <1>8, <1>12, <1>16, <3>1
  <2> QED BY <1>11, <2>1
<1>13. ASSUME NEW j \in 0 .. (done + 1 - 1)
       PROVE  mem'[Off(at) + j] = Word(id, "record", need, j)
  <2>1. CASE j = done
    BY <1>9, <1>10, <2>1
  <2>2. CASE j # done
    <3>1. j \in 0 .. (done - 1) /\ Off(at) + j # o1 /\ Off(at) + j \in 0 .. (Cap - 1)
      BY <1>1, <1>2, <1>8, <1>9, <2>2
    <3>2. mem[Off(at) + j] = Word(id, "record", need, j)
      BY <1>3, <3>1 DEF Written
    <3> QED BY <1>10, <3>1, <3>2
  <2> QED BY <2>1, <2>2
<1>14. ASSUME head < at, Remain(head) >= Hdr, NEW j \in 0 .. (Hdr - 1)
       PROVE  mem'[Off(head) + j] = Word(0, "skip", Remain(head), j)
  <2>1. Off(head) \in Nat /\ Off(head) + Remain(head) = Cap /\ Remain(head) \in Nat
    BY <1>0, RemainFacts
  <2>2. j \in Nat /\ tail <= head + j /\ head + j < at /\ Off(head) + j < Cap
    BY <1>0, <1>8, <1>14, <2>1
  <2>3. mem[Off(head) + j] = Word(0, "skip", Remain(head), j)
    BY <1>3, <1>14 DEF Skipped
  <2> QED BY <1>0, <1>11, <2>2, <2>3
<1>15. PushOK(p)'
  <2>1. Fits(head', at, at + need)
    BY <1>3, <1>7
  <2>2. /\ pc'[p].op = "write" /\ pc'[p].id = id /\ pc'[p].need = need /\ pc'[p].at = at
        /\ pc'[p].done = done + 1 /\ done + 1 <= need
    BY <1>5, <1>6, <1>8, <1>16
  <2>3. Written(pc[p].at, pc[p].id, pc[p].need, pc[p].done)'
    BY <1>13, <1>16, <2>2 DEF Written, Off
  <2>4. (head < pc[p].at => Skipped(head))'
    BY <1>7, <1>14, <2>2 DEF Skipped, Remain, Off
  <2> QED BY <1>7, <1>16, <2>1, <2>2, <2>3, <2>4 DEF PushOK
<1> QED BY <1>1, <1>5, <1>6, <1>10, <1>12, <1>15, WriteStep

\* The store of the head: the new record joins the ones published.
LEMMA PublishStep ==
  ASSUME IInv, NEW p \in Procs, Publish(p)
  PROVE  IInv'
<1> USE ConstantFacts
<1> DEFINE need == pc[p].need
           at == pc[p].at
           id == pc[p].id
           r == [id |-> id, at |-> at, end |-> at + need]
           N == Len(pushed)
<1>0. /\ pc \in [Procs -> ProcPc] /\ head \in Nat /\ tail \in Nat /\ tail <= head
      /\ Layout /\ head = End(N) /\ N \in Nat /\ pushed \in Seq(Record)
  BY EndFacts DEF IInv, TypeOK, Layout
<1>1. /\ pc[p].op = "write" /\ Holds(p) /\ pc[p].done = need /\ pc' = [pc EXCEPT ![p] = Idle]
      /\ head' = at + need /\ pushed' = Append(pushed, r)
      /\ UNCHANGED <<mem, owner, alive, nops, consumerVars>>
  BY DEF Publish, Holds
<1>2. id \in Ids /\ need \in Sizes /\ at \in Nat
  BY <1>0, <1>1, PcFields
<1>3. /\ Fits(head, at, at + need) /\ at + need - tail <= Cap
      /\ Written(at, id, need, need) /\ (head < at => Skipped(head))
  BY <1>1 DEF IInv, PushOK
<1>4. r \in Record /\ r.id = id /\ r.at = at /\ r.end = at + need
  BY <1>2 DEF Record
<1> HIDE DEF r, at, need, id, N
<1>5. /\ pushed' \in Seq(Record) /\ Len(pushed') = N + 1 /\ pushed'[N + 1] = r
      /\ \A n \in 1 .. N : pushed'[n] = pushed[n]
  BY <1>0, <1>1, <1>4 DEF N
<1>6. /\ \A n \in 0 .. N : End(n)' = End(n)
      /\ End(Len(pushed))' = at + need
  <2>1. ASSUME NEW n \in 0 .. N PROVE End(n)' = End(n)
    <3>1. n # 0 => n \in 1 .. N
      BY <1>0
    <3> QED BY <1>5, <3>1 DEF End
  <2>2. Len(pushed') # 0 /\ pushed'[Len(pushed')].end = at + need
    BY <1>0, <1>4, <1>5
  <2> QED BY <2>1, <2>2 DEF End
<1>7. /\ at + need \in Nat /\ head <= at /\ need \in Nat /\ at < at + need
      /\ at + need - at = need
  <2>1. need \in Nat /\ at + need - at = need
    BY <1>2
  <2> QED BY <1>0, <1>2, <1>3, <2>1, FitsFacts
<1>8. /\ \A n \in 0 .. N : End(n) \in Nat /\ End(n) <= head
      /\ \A n \in 1 .. N : /\ Fits(End(n - 1), pushed[n].at, pushed[n].end)
                           /\ pushed[n].end \in Nat /\ pushed[n].end <= head
      /\ \A i, j \in 1 .. N : i < j => pushed[i].end <= pushed[j].at
  <2>1. \A i, j \in 1 .. N : i < j => pushed[i].end <= pushed[j].at
    BY <1>0 DEF Layout, N
  <2> QED BY <1>0, <2>1, EndFacts DEF N
<1>9. tail' = tail /\ mem' = mem /\ cons' = cons /\ corrupt' = corrupt /\ applied' = applied
      /\ owner' = owner /\ alive' = alive /\ nops' = nops
  BY <1>1 DEF consumerVars
<1>10. Layout'
  <2>1. ASSUME NEW n \in 1 .. (N + 1)
        PROVE  Fits(End(n - 1), pushed[n].at, pushed[n].end)'
    <3>1. CASE n \in 1 .. N
      <4>1. End(n - 1)' = End(n - 1) /\ pushed'[n] = pushed[n]
        BY <1>0, <1>5, <1>6, <3>1
      <4> QED BY <1>8, <3>1, <4>1 DEF Fits, Remain, Off
    <3>2. CASE n = N + 1
      <4>1. End(n - 1)' = head /\ pushed'[n].at = at /\ pushed'[n].end = at + need
        <5>1. n - 1 = N /\ N \in 0 .. N
          BY <1>0, <3>2
        <5> QED BY <1>0, <1>4, <1>5, <1>6, <3>2, <5>1
      <4> QED BY <1>3, <4>1 DEF Fits, Remain, Off
    <3> QED BY <1>0, <3>1, <3>2
  <2>2. ASSUME NEW i \in 1 .. (N + 1), NEW j \in 1 .. (N + 1), i < j
        PROVE  pushed'[i].end <= pushed'[j].at
    <3>1. i \in 1 .. N /\ pushed'[i] = pushed[i]
      BY <1>0, <1>5, <2>2
    <3>2. CASE j \in 1 .. N
      BY <1>5, <1>8, <2>2, <3>1, <3>2
    <3>3. CASE j = N + 1
      <4>1. pushed'[j].at = at /\ pushed[i].end \in Nat /\ pushed[i].end <= head
        BY <1>4, <1>5, <1>8, <3>1, <3>3
      <4> QED BY <1>0, <1>2, <1>7, <3>1, <4>1
    <3>4. j \in 1 .. N \/ j = N + 1
      BY <1>0
    <3> QED BY <3>2, <3>3, <3>4
  <2> QED BY <1>1, <1>5, <1>6, <2>1, <2>2 DEF Layout
<1>11. Intact'
  <2>1. SUFFICES ASSUME NEW i \in 1 .. (N + 1)
        PROVE  (/\ tail <= pushed[i].at =>
                     Written(pushed[i].at, pushed[i].id, pushed[i].end - pushed[i].at,
                             pushed[i].end - pushed[i].at)
                /\ tail <= End(i - 1) /\ End(i - 1) < pushed[i].at => Skipped(End(i - 1)))'
    BY <1>5 DEF Intact
  <2>2. CASE i \in 1 .. N
    <3>1. End(i - 1)' = End(i - 1) /\ pushed'[i] = pushed[i]
      BY <1>0, <1>5, <1>6, <2>2
    <3>2. /\ tail <= pushed[i].at =>
               Written(pushed[i].at, pushed[i].id, pushed[i].end - pushed[i].at,
                       pushed[i].end - pushed[i].at)
          /\ tail <= End(i - 1) /\ End(i - 1) < pushed[i].at => Skipped(End(i - 1))
      BY <2>2 DEF IInv, Intact, N
    <3> QED BY <1>9, <3>1, <3>2 DEF Written, Skipped, Remain, Off
  <2>3. CASE i = N + 1
    <3>1. End(i - 1)' = head
      <4>1. i - 1 = N /\ N \in 0 .. N
        BY <1>0, <2>3
      <4> QED BY <1>0, <1>6, <4>1
    <3>2. pushed'[i].at = at /\ pushed'[i].end - pushed'[i].at = need /\ pushed'[i].id = id
      <4>1. pushed'[i] = r
        BY <1>5, <2>3
      <4>2. r.end - r.at = need
        BY <1>2, <1>4, <1>7
      <4> QED BY <1>4, <4>1, <4>2
    <3> QED BY <1>3, <1>9, <3>1, <3>2 DEF Written, Skipped, Remain, Off
  <2> QED BY <1>0, <2>2, <2>3
<1>12. pc' \in [Procs -> ProcPc] /\ pc'[p] = Idle /\ \A q \in Procs : q # p => pc'[q] = pc[q]
  <2>1. Idle \in ProcPc
    BY DEF ProcPc
  <2> QED BY <1>0, <1>1, <2>1
<1>13. TypeOK'
  <2>1. head' \in Nat /\ tail <= head' /\ head' - tail <= Cap /\ head <= head'
    BY <1>0, <1>1, <1>2, <1>3, <1>7
  <2>2. cons.mode # "asleep" => cons.head <= head'
    <3>1. cons.mode # "asleep" => cons.head <= head /\ cons.head \in Nat
      BY DEF IInv, TypeOK, ConsumerOK, ConsumerType
    <3> QED BY <1>0, <2>1, <3>1
  <2> QED BY <1>9, <1>12, <2>1, <2>2 DEF IInv, TypeOK
<1>14. SoleProducer'
  BY <1>1, <1>9, <1>12 DEF IInv, SoleProducer, Holds, Idle
<1>15. ASSUME NEW q \in Procs PROVE PushOK(q)'
  <2>1. CASE q = p
    BY <1>12, <2>1 DEF PushOK, Idle
  <2>2. CASE q # p
    <3>1. ~Holds(q) /\ pc'[q] = pc[q]
      BY <1>1, <1>12, <2>2 DEF IInv, SoleProducer
    <3> QED BY <3>1 DEF PushOK, Holds
  <2> QED BY <2>1, <2>2
<1>16. ConsumerOK'
  <2> DEFINE k == Len(applied)
  <2>1. k \in Nat /\ k <= N /\ k \in 0 .. N /\ (k < N => k + 1 \in 1 .. N)
    BY <1>0 DEF IInv, ConsumerOK, N
  <2>2. End(k)' = End(k) /\ (k < N => pushed'[k + 1] = pushed[k + 1])
    BY <1>5, <1>6, <2>1, <1>9
  <2>3. ASSUME NEW m \in 0 .. N PROVE m \in 0 .. Len(pushed') /\ End(m)' = End(m)
    BY <1>0, <1>5, <1>6
  <2>4. Position' = Position
    BY <1>9 DEF Position
  <2>5. Len(applied') <= Len(pushed') /\ (k < N => k < Len(pushed'))
    BY <1>0, <1>5, <1>9, <2>1
  <2>6. \/ Position' = End(k)'
        \/ k < Len(pushed') /\ Position' = pushed'[k + 1].at
    BY <2>2, <2>4, <2>5 DEF IInv, ConsumerOK, N
  <2>7. cons.mode # "asleep" => \E m \in 0 .. Len(pushed') : cons.head = End(m)'
    BY <2>3 DEF IInv, ConsumerOK, N
  <2>8. cons.mode = "apply" =>
          /\ k < Len(pushed') /\ cons.tail < cons.head
          /\ cons.tail = pushed'[k + 1].at
          /\ cons.rec = Word(pushed'[k + 1].id, "record", pushed'[k + 1].end - pushed'[k + 1].at, 0)
    BY <2>2, <2>5 DEF IInv, ConsumerOK, N
  <2> QED BY <1>9, <2>5, <2>6, <2>7, <2>8 DEF IInv, ConsumerOK
<1> QED BY <1>10, <1>11, <1>13, <1>14, <1>15, <1>16 DEF IInv
-----------------------------------------------------------------------------
(* The steps of the consumer *)

\* A step of the consumer keeps what is the producer's: a tail that moves on
\* within what is published only adds room.
LEMMA ConsumerFrame ==
  ASSUME IInv, UNCHANGED <<mem, producerVars>>, tail' \in Nat, tail <= tail', tail' <= head,
         ConsumerOK'
  PROVE  IInv'
<1> USE ConstantFacts
<1>0. /\ head' = head /\ owner' = owner /\ alive' = alive /\ pc' = pc /\ pushed' = pushed
      /\ nops' = nops /\ mem' = mem
  BY DEF producerVars
<1>1. head \in Nat /\ tail \in Nat /\ head - tail <= Cap /\ pc \in [Procs -> ProcPc]
  BY DEF IInv, TypeOK
<1>2. Layout' /\ SoleProducer'
  BY <1>0 DEF IInv, Layout, End, SoleProducer, Holds
<1>3. Intact'
  BY <1>0, <1>1, IntactKeeps DEF IInv
<1>4. TypeOK'
  <2>1. head - tail' <= Cap
    <3> DEFINE t == tail'
    <3>1. t \in Nat /\ tail <= t /\ Cap \in Nat
      OBVIOUS
    <3> HIDE DEF t
    <3>2. head - t <= Cap
      BY <1>1, <3>1
    <3> QED BY <3>2 DEF t
  <2>2. cons'.mode # "asleep" =>
          tail' <= cons'.tail /\ cons'.tail <= cons'.head /\ cons'.head <= head
    <3>1. \A n \in 0 .. Len(pushed) : End(n)' <= head
      BY <1>0, EndFacts DEF IInv, End
    <3> QED BY <1>0, <3>1 DEF ConsumerOK
  <2>3. cons'.mode \in {"asleep", "walk", "apply"} /\ corrupt' = 0
    BY DEF ConsumerOK, ConsumerType
  <2> QED BY <1>0, <2>1, <2>2, <2>3 DEF IInv, TypeOK
<1>5. ASSUME NEW p \in Procs PROVE PushOK(p)'
  <2>0. PushOK(p)
    BY DEF IInv
  <2>1. ASSUME pc[p].op = "skip"
        PROVE  Room(head, tail', pc[p].need)
    <3>1. Admissible(pc[p].need) /\ Room(head, tail, pc[p].need) /\ pc[p].need \in Sizes
      BY <1>1, <2>0, <2>1, PcFields DEF PushOK
    <3>2. Pad(head, pc[p].need) \in 0 .. (Cap - 1) /\ pc[p].need \in Nat
      BY <1>1, <3>1, PadFacts
    <3> QED BY <1>1, <3>1, <3>2 DEF Room
  <2>2. ASSUME pc[p].op = "write"
        PROVE  pc[p].at + pc[p].need - tail' <= Cap
    <3>1. pc[p].at \in Nat /\ pc[p].need \in Nat /\ pc[p].at + pc[p].need - tail <= Cap
      BY <1>1, <2>0, <2>2, PcFields DEF PushOK
    <3> QED BY <1>1, <3>1
  <2> QED BY <1>0, <2>0, <2>1, <2>2 DEF PushOK, Room, Written, Skipped, Off, Remain, Pad
<1> QED BY <1>2, <1>3, <1>4, <1>5 DEF IInv

\* A consumer that is short of the head it works up to has a record before it,
\* whole and below that head; it is at the record or at its padding.
LEMMA NextRecord ==
  ASSUME IInv, cons.mode # "asleep", cons.tail < cons.head
  PROVE  LET k == Len(applied) + 1 IN
         /\ k \in 1 .. Len(pushed) /\ k - 1 = Len(applied)
         /\ cons.tail = End(k - 1) \/ cons.tail = pushed[k].at
         /\ pushed[k].end <= cons.head /\ cons.tail \in Nat /\ cons.head \in Nat
<1> DEFINE n == Len(applied)
           N == Len(pushed)
<1>1. /\ n \in Nat /\ N \in Nat /\ n <= N /\ cons.tail \in Nat /\ cons.head \in Nat
      /\ cons.tail = End(n) \/ (n < N /\ cons.tail = pushed[n + 1].at)
  BY EndFacts DEF IInv, ConsumerOK, ConsumerType, Position
<1>2. PICK m \in 0 .. N : cons.head = End(m)
  BY DEF IInv, ConsumerOK
<1>3. Layout /\ n \in 0 .. N
  BY <1>1 DEF IInv
<1> HIDE DEF n, N
<1>4. n < m
  <2>1. SUFFICES ASSUME m <= n PROVE FALSE
    BY <1>1
  <2>2. End(m) <= End(n)
    <3>1. CASE m = n
      BY <1>3, <3>1, EndFacts DEF N
    <3>2. CASE m < n
      <4>1. n \in 1 .. N
        BY <1>1, <1>3, <3>2
      <4>2. End(m) <= pushed[n].at /\ End(m) \in Nat
        BY <1>2, <1>3, <3>2, EndFacts DEF N
      <4>3. pushed[n].at < End(n) /\ pushed[n].at \in Nat /\ End(n) \in Nat
        BY <1>3, <4>1, EndFacts DEF N
      <4> QED BY <4>2, <4>3
    <3> QED BY <1>1, <2>1, <3>1, <3>2
  <2>3. End(n) <= cons.tail /\ End(n) \in Nat /\ End(m) \in Nat
    <3>1. End(n) \in Nat /\ End(m) \in Nat
      BY <1>2, <1>3, EndFacts DEF N
    <3>2. CASE cons.tail = End(n)
      BY <3>1, <3>2
    <3>3. CASE n < N /\ cons.tail = pushed[n + 1].at
      <4>1. n < n + 1 /\ n + 1 \in 0 .. N
        BY <1>1, <3>3
      <4> QED BY <1>3, <3>1, <3>3, <4>1, EndFacts DEF N
    <3> QED BY <1>1, <3>2, <3>3
  <2> QED BY <1>1, <1>2, <2>2, <2>3
<1>5. n + 1 \in 1 .. N /\ (n + 1) - 1 = n
  BY <1>1, <1>4
<1>6. pushed[n + 1].end <= cons.head
  <2>1. pushed[n + 1].end = End(n + 1) /\ End(n + 1) \in Nat
    BY <1>3, <1>5, EndFacts DEF N
  <2>2. CASE m = n + 1
    BY <1>2, <2>1, <2>2
  <2>3. CASE m > n + 1
    <3>1. m \in 1 .. N /\ n + 1 \in 0 .. N /\ n + 1 < m
      BY <1>1, <1>5, <2>3
    <3>2. End(n + 1) <= pushed[m].at
      BY <1>3, <3>1, EndFacts DEF N
    <3>3. pushed[m].at < End(m) /\ pushed[m].at \in Nat /\ End(m) \in Nat
      BY <1>3, <3>1, EndFacts DEF N
    <3> QED BY <1>2, <2>1, <3>2, <3>3
  <2> QED BY <1>1, <1>4, <2>2, <2>3
<1>7. cons.tail = End((n + 1) - 1) \/ cons.tail = pushed[n + 1].at
  BY <1>1, <1>5
<1> QED BY <1>1, <1>5, <1>6, <1>7 DEF n, N

\* SubmitDrain turns to the ring: the span is never more than the ring holds.
LEMMA DrainBeginStep ==
  ASSUME IInv, DrainBegin
  PROVE  IInv'
<1>0. /\ head \in Nat /\ tail \in Nat /\ tail <= head /\ head - tail <= Cap /\ cons = Asleep
      /\ Cap \in Nat
  BY ConstantFacts DEF IInv, TypeOK, DrainBegin
<1>1. /\ cons' = [Asleep EXCEPT !.mode = "walk", !.head = head, !.tail = tail]
      /\ corrupt' = corrupt /\ tail' = tail /\ applied' = applied
      /\ UNCHANGED <<mem, producerVars>> /\ pushed' = pushed
  BY <1>0 DEF DrainBegin, producerVars
<1>2. /\ cons'.mode = "walk" /\ cons'.head = head /\ cons'.tail = tail
      /\ cons' \in ConsumerType
  <2>1. Blank \in WordType
    BY RingAssumption DEF Blank, Word, WordType
  <2> QED BY <1>0, <1>1, <2>1 DEF Asleep, ConsumerType
<1>3. Position = tail /\ Position' = tail
  BY <1>0, <1>2 DEF Position, Asleep
<1>4. Len(pushed) \in 0 .. Len(pushed) /\ head = End(Len(pushed)) /\ \A n : End(n)' = End(n)
  BY <1>1, EndFacts DEF IInv, Layout, End
<1>5. ConsumerOK'
  BY <1>0, <1>1, <1>2, <1>3, <1>4 DEF IInv, ConsumerOK
<1> QED BY <1>0, <1>1, <1>5, ConsumerFrame
\* What the consumer finds at its position: at a record no gap and a header
\* that passes submitValidate; before one, a gap or a SKIP that ends at it.
LEMMA Found ==
  ASSUME IInv, Walking
  PROVE  LET k     == Len(applied) + 1
             t     == cons.tail
             avail == IF cons.head - t < Cap - Off(t) THEN cons.head - t ELSE Cap - Off(t)
         IN
         /\ t = pushed[k].at =>
              /\ GapAt(t) = 0 /\ Valid(Off(t), avail)
              /\ mem[Off(t)] = Word(pushed[k].id, "record", pushed[k].end - pushed[k].at, 0)
         /\ t # pushed[k].at =>
              \/ GapAt(t) > 0 /\ t + GapAt(t) = pushed[k].at
              \/ /\ GapAt(t) = 0 /\ Valid(Off(t), avail)
                 /\ mem[Off(t)].op = "skip" /\ t + mem[Off(t)].len = pushed[k].at
<1> USE ConstantFacts
<1> DEFINE k == Len(applied) + 1
           t == cons.tail
           h == cons.head
           a == pushed[k].at
           e == pushed[k].end
           id == pushed[k].id
           b == End(k - 1)
           avail == IF h - t < Cap - Off(t) THEN h - t ELSE Cap - Off(t)
<1>1. cons.mode = "walk" /\ t < h
  BY DEF Walking
<1>2. k \in 1 .. Len(pushed) /\ (t = b \/ t = a) /\ e <= h /\ t \in Nat /\ h \in Nat
  BY <1>1, NextRecord
<1>3. /\ Fits(b, a, e) /\ a \in Nat /\ e \in Nat /\ b \in Nat /\ b <= a /\ a < e
  BY <1>2, EndFacts DEF IInv
<1>4. tail <= t /\ tail \in Nat
  BY <1>1 DEF IInv, ConsumerOK, TypeOK
<1>5. /\ tail <= a => Written(a, id, e - a, e - a)
      /\ tail <= b /\ b < a => Skipped(b)
  BY <1>2 DEF IInv, Intact
<1> HIDE DEF k, t, h, a, e, id, b, avail
<1>6. /\ e - a \in Nat /\ e - a <= Cap /\ e - a > Hdr /\ Off(a) + (e - a) <= Cap
      /\ Remain(a) >= e - a /\ (b < a => a = b + Remain(b))
  BY <1>3, FitsFacts
<1>7. /\ Off(a) \in Nat /\ Remain(a) \in Nat /\ Off(a) + Remain(a) = Cap
      /\ Off(b) \in Nat /\ Remain(b) \in Nat /\ Off(b) + Remain(b) = Cap /\ Remain(b) > 0
  BY <1>3, RemainFacts
<1>8. ASSUME t = a
      PROVE  /\ GapAt(t) = 0 /\ Valid(Off(t), avail)
             /\ mem[Off(t)] = Word(id, "record", e - a, 0)
  <2>1. GapAt(t) = 0
    BY <1>6, <1>7, <1>8 DEF GapAt
  <2>2. \A j \in 0 .. (e - a - 1) : mem[Off(t) + j] = Word(id, "record", e - a, j)
    BY <1>4, <1>5, <1>8 DEF Written
  <2>3. mem[Off(t)] = Word(id, "record", e - a, 0)
    <3>1. 0 \in 0 .. (e - a - 1) /\ Off(t) + 0 = Off(t)
      BY <1>6, <1>7, <1>8
    <3> QED BY <2>2, <3>1
  <2>4. avail \in Nat /\ e - a <= avail
    BY <1>2, <1>3, <1>6, <1>7, <1>8 DEF avail
  <2>5. /\ mem[Off(t)].id = id /\ mem[Off(t)].op = "record" /\ mem[Off(t)].len = e - a
    BY <2>3 DEF Word
  <2>6. \A j \in 0 .. (Hdr - 1) : mem[Off(t) + j] = Word(id, "record", e - a, j)
    <3>1. \A j \in 0 .. (Hdr - 1) : j \in 0 .. (e - a - 1)
      BY <1>6
    <3> QED BY <2>2, <3>1
  <2>7. Valid(Off(t), avail)
    BY <1>6, <2>4, <2>5, <2>6 DEF Valid
  <2> QED BY <2>1, <2>3, <2>7
<1>9. ASSUME t # a
      PROVE  \/ GapAt(t) > 0 /\ t + GapAt(t) = a
             \/ /\ GapAt(t) = 0 /\ Valid(Off(t), avail)
                /\ mem[Off(t)].op = "skip" /\ t + mem[Off(t)].len = a
  <2>1. t = b /\ b < a /\ a = b + Remain(b)
    BY <1>2, <1>3, <1>6, <1>9
  <2>2. CASE Remain(b) < Hdr
    BY <1>7, <2>1, <2>2 DEF GapAt
  <2>3. CASE Remain(b) >= Hdr
    <3>1. \A j \in 0 .. (Hdr - 1) : mem[Off(t) + j] = Word(0, "skip", Remain(b), j)
      BY <1>4, <1>5, <2>1, <2>3 DEF Skipped
    <3>2. mem[Off(t)] = Word(0, "skip", Remain(b), 0)
      <4>1. 0 \in 0 .. (Hdr - 1) /\ Off(t) + 0 = Off(t)
        BY <1>7, <2>1
      <4> QED BY <3>1, <4>1
    <3>3. mem[Off(t)].id = 0 /\ mem[Off(t)].op = "skip" /\ mem[Off(t)].len = Remain(b)
      BY <3>2 DEF Word
    <3>4. avail \in Nat /\ Remain(b) <= avail
      BY <1>2, <1>3, <1>7, <2>1 DEF avail
    <3>5. Valid(Off(t), avail)
      BY <1>7, <2>3, <3>1, <3>3, <3>4 DEF Valid
    <3>6. GapAt(t) = 0
      BY <1>7, <2>1, <2>3 DEF GapAt
    <3> QED BY <2>1, <3>3, <3>5, <3>6
  <2> QED BY <1>7, <2>2, <2>3
<1> QED BY <1>8, <1>9 DEF k, t, h, a, e, id, avail

\* One step of the walk: to the record behind the padding, or into applying
\* the record the consumer is at.  Nothing is rejected.
LEMMA DrainStepStep ==
  ASSUME IInv, DrainStep
  PROVE  IInv'
<1> USE ConstantFacts
<1> DEFINE k == Len(applied) + 1
           t == cons.tail
           avail == IF cons.head - t < Cap - Off(t) THEN cons.head - t ELSE Cap - Off(t)
           next == [cons EXCEPT !.steps = @ + 1]
<1>0. /\ Walking /\ cons.mode = "walk" /\ t < cons.head /\ cons \in ConsumerType
      /\ UNCHANGED <<mem, producerVars>> /\ tail' = tail /\ applied' = applied
      /\ pushed' = pushed /\ tail \in Nat /\ tail <= head
  BY DEF DrainStep, Walking, IInv, ConsumerOK, producerVars, TypeOK
<1>1. /\ k \in 1 .. Len(pushed) /\ k - 1 = Len(applied)
      /\ t = End(k - 1) \/ t = pushed[k].at
      /\ pushed[k].end <= cons.head /\ t \in Nat /\ cons.head \in Nat
  BY <1>0, NextRecord
<1>2. /\ pushed[k].at \in Nat /\ pushed[k].end \in Nat /\ pushed[k].at < pushed[k].end
      /\ pushed[k].id \in Ids /\ End(k - 1) <= pushed[k].at /\ End(k - 1) \in Nat
      /\ pushed[k].end - pushed[k].at <= Cap
  <2>1. Layout
    BY DEF IInv
  <2>2. /\ pushed[k].at \in Nat /\ pushed[k].end \in Nat /\ pushed[k].at < pushed[k].end
        /\ pushed[k].id \in Ids /\ End(k - 1) <= pushed[k].at /\ End(k - 1) \in Nat
        /\ Fits(End(k - 1), pushed[k].at, pushed[k].end)
    BY <1>1, <2>1, EndFacts
  <2> QED BY <2>2, FitsFacts
<1>3. /\ t = pushed[k].at =>
              /\ GapAt(t) = 0 /\ Valid(Off(t), avail)
              /\ mem[Off(t)] = Word(pushed[k].id, "record", pushed[k].end - pushed[k].at, 0)
      /\ t # pushed[k].at =>
              \/ GapAt(t) > 0 /\ t + GapAt(t) = pushed[k].at
              \/ /\ GapAt(t) = 0 /\ Valid(Off(t), avail)
                 /\ mem[Off(t)].op = "skip" /\ t + mem[Off(t)].len = pushed[k].at
  BY <1>0, Found
<1>4. IF GapAt(t) > 0
        THEN cons' = [next EXCEPT !.tail = @ + GapAt(t)] /\ UNCHANGED corrupt
        ELSE IF ~Valid(Off(t), avail)
        THEN cons' = [next EXCEPT !.mode = "publish"] /\ corrupt' = corrupt + 1
        ELSE /\ cons' = IF mem[Off(t)].op = "skip" THEN [next EXCEPT !.tail = @ + mem[Off(t)].len]
                        ELSE [next EXCEPT !.mode = "apply", !.rec = mem[Off(t)]]
             /\ UNCHANGED corrupt
  BY DEF DrainStep
<1>5. /\ next \in ConsumerType /\ next.mode = cons.mode /\ next.head = cons.head
      /\ next.tail = t
  BY <1>0 DEF ConsumerType
<1> HIDE DEF k, t, avail, next
<1>6. /\ tail <= t /\ corrupt = 0 /\ applied \in Seq(Nat) /\ Len(applied) <= Len(pushed)
      /\ \E m \in 0 .. Len(pushed) : cons.head = End(m)
  BY <1>0 DEF IInv, ConsumerOK, t
<1>7. \A n : End(n)' = End(n)
  BY <1>0 DEF End
<1>8. k = Len(applied) + 1 /\ Len(applied) < Len(pushed)
  BY <1>1, <1>6 DEF k
<1>9. CASE t = pushed[k].at
  <2>1. mem[Off(t)] = Word(pushed[k].id, "record", pushed[k].end - pushed[k].at, 0)
        /\ mem[Off(t)].op # "skip" /\ GapAt(t) = 0 /\ Valid(Off(t), avail)
    BY <1>3, <1>9 DEF Word
  <2>2. cons' = [next EXCEPT !.mode = "apply", !.rec = mem[Off(t)]] /\ corrupt' = 0
    BY <1>4, <1>6, <2>1
  <2>3. mem[Off(t)] \in WordType
    BY <1>2, <2>1, RingAssumption DEF Word, WordType, Ids
  <2>4. /\ cons' \in ConsumerType /\ cons'.mode = "apply" /\ cons'.head = cons.head
        /\ cons'.tail = t /\ cons'.rec = mem[Off(t)]
    BY <1>5, <2>2, <2>3 DEF ConsumerType
  <2>5. Position' = pushed[k].at
    BY <1>9, <2>4 DEF Position
  <2>6. t <= cons.head /\ t < cons.head
    BY <1>0, <1>1 DEF t
  <2>7. ConsumerOK'
    BY <1>0, <1>6, <1>7, <1>8, <1>9, <2>1, <2>2, <2>4, <2>5, <2>6 DEF ConsumerOK
  <2> QED BY <1>0, <2>7, ConsumerFrame
<1>10. CASE t # pushed[k].at
  <2>1. PICK n \in {GapAt(t), mem[Off(t)].len} :
          /\ t + n = pushed[k].at
          /\ cons' = [next EXCEPT !.tail = @ + n] /\ corrupt' = 0
    BY <1>3, <1>4, <1>6, <1>10
  <2>2. cons' = [next EXCEPT !.tail = pushed[k].at]
    BY <1>5, <2>1
  <2>3. /\ cons' \in ConsumerType /\ cons'.mode = "walk" /\ cons'.head = cons.head
        /\ cons'.tail = pushed[k].at
    BY <1>0, <1>2, <1>5, <2>2 DEF ConsumerType
  <2>4. Position' = pushed[k].at
    BY <2>3 DEF Position
  <2>5. tail <= pushed[k].at /\ pushed[k].at <= cons.head
    BY <1>0, <1>1, <1>2, <1>6
  <2>6. ConsumerOK'
    BY <1>0, <1>6, <1>7, <1>8, <2>1, <2>3, <2>4, <2>5 DEF ConsumerOK
  <2> QED BY <1>0, <2>6, ConsumerFrame
<1> QED BY <1>9, <1>10
\* What the consumer applies is the next record, read back whole.
LEMMA Applies ==
  ASSUME IInv, DrainApply
  PROVE  LET k == Len(applied) + 1 IN
         /\ k \in 1 .. Len(pushed) /\ k - 1 = Len(applied)
         /\ pushed[k].end <= cons.head /\ cons.head \in Nat /\ cons.tail \in Nat
         /\ cons.tail = pushed[k].at /\ cons.rec.len = pushed[k].end - pushed[k].at
         /\ pushed[k].id \in Ids /\ pushed[k].at \in Nat /\ pushed[k].end \in Nat
         /\ pushed[k].at < pushed[k].end /\ pushed[k].end = End(k)
         /\ applied' = Append(applied, pushed[k].id)
<1> DEFINE k == Len(applied) + 1
           a == pushed[k].at
           e == pushed[k].end
           id == pushed[k].id
<1>1. /\ cons.mode = "apply" /\ cons.tail < cons.head /\ cons.tail = a
      /\ cons.rec = Word(id, "record", e - a, 0) /\ tail <= cons.tail
  BY DEF IInv, ConsumerOK, DrainApply
<1>2. /\ k \in 1 .. Len(pushed) /\ k - 1 = Len(applied)
      /\ e <= cons.head /\ cons.head \in Nat /\ cons.tail \in Nat
  BY <1>1, NextRecord
<1>3. id \in Ids /\ a \in Nat /\ e \in Nat /\ a < e /\ e = End(k)
  BY <1>2, EndFacts DEF IInv
<1>4. Written(a, id, e - a, e - a)
  BY <1>1, <1>2 DEF IInv, Intact
<1>5. applied' = Append(applied, ReadBack(Off(a), cons.rec))
  BY <1>1 DEF DrainApply
<1> HIDE DEF k, a, e, id
<1>6. cons.rec.id = id /\ cons.rec.op = "record" /\ cons.rec.len = e - a
  BY <1>1 DEF Word
<1>7. ReadBack(Off(a), cons.rec) = id
  BY <1>4, <1>6 DEF ReadBack, Written
<1> QED BY <1>1, <1>2, <1>3, <1>5, <1>6, <1>7 DEF k, a, e, id

\* Applying a record takes the consumer behind it.
LEMMA DrainApplyStep ==
  ASSUME IInv, DrainApply
  PROVE  IInv'
<1> DEFINE k == Len(applied) + 1
<1>0. /\ cons.mode = "apply" /\ cons \in ConsumerType /\ corrupt = 0
      /\ UNCHANGED <<mem, producerVars>> /\ tail' = tail /\ corrupt' = corrupt
      /\ pushed' = pushed /\ tail \in Nat /\ tail <= head /\ tail <= cons.tail
      /\ applied \in Seq(Nat)
      /\ \E m \in 0 .. Len(pushed) : cons.head = End(m)
      /\ cons' = [cons EXCEPT !.mode = "walk", !.tail = @ + cons.rec.len,
                              !.applied = @ + 1, !.rec = Blank]
  BY DEF DrainApply, IInv, ConsumerOK, producerVars, TypeOK
<1>1. /\ k \in 1 .. Len(pushed) /\ k - 1 = Len(applied)
      /\ pushed[k].end <= cons.head /\ cons.head \in Nat /\ cons.tail \in Nat
      /\ cons.tail = pushed[k].at /\ cons.rec.len = pushed[k].end - pushed[k].at
      /\ pushed[k].id \in Ids /\ pushed[k].at \in Nat /\ pushed[k].end \in Nat
      /\ pushed[k].at < pushed[k].end /\ pushed[k].end = End(k)
      /\ applied' = Append(applied, pushed[k].id)
  BY Applies
<1>2. applied' \in Seq(Nat) /\ Len(applied') = k /\ k <= Len(pushed)
  <2>1. pushed[k].id \in Nat
    BY <1>1, RingAssumption DEF Ids
  <2> QED BY <1>0, <1>1, <2>1
<1> HIDE DEF k
<1>3. cons.tail + cons.rec.len = pushed[k].end
  BY <1>1
<1>4. /\ cons' \in ConsumerType /\ cons'.mode = "walk" /\ cons'.head = cons.head
      /\ cons'.tail = pushed[k].end
  <2>1. Blank \in WordType
    BY RingAssumption DEF Blank, Word, WordType
  <2>2. cons' = [cons EXCEPT !.mode = "walk", !.tail = pushed[k].end,
                             !.applied = cons.applied + 1, !.rec = Blank]
    BY <1>0, <1>3
  <2>3. cons.applied + 1 \in Nat
    BY <1>0 DEF ConsumerType
  <2> QED BY <1>0, <1>1, <2>1, <2>2, <2>3 DEF ConsumerType
<1>5. \A n : End(n)' = End(n)
  BY <1>0 DEF End
<1>6. Position' = End(k)
  BY <1>1, <1>4 DEF Position
<1>7. tail <= pushed[k].end
  BY <1>0, <1>1
<1>8. ConsumerOK'
  BY <1>0, <1>1, <1>2, <1>4, <1>5, <1>6, <1>7 DEF ConsumerOK
<1> QED BY <1>0, <1>8, ConsumerFrame

\* The turn ends where the walk stands.
LEMMA DrainEndStep ==
  ASSUME IInv, DrainEnd
  PROVE  IInv'
<1>0. /\ cons.mode = "walk" /\ cons \in ConsumerType /\ UNCHANGED <<mem, producerVars>>
      /\ tail' = cons.tail /\ cons' = Asleep /\ corrupt' = corrupt /\ applied' = applied
      /\ pushed' = pushed /\ tail <= cons.tail /\ cons.tail <= cons.head /\ cons.head <= head
      /\ head \in Nat
  BY DEF DrainEnd, IInv, ConsumerOK, ConsumerType, producerVars, TypeOK
<1>1. tail' \in Nat /\ tail <= tail' /\ tail' <= head
  BY <1>0 DEF ConsumerType
<1>2. Asleep.mode = "asleep" /\ Asleep \in ConsumerType
  <2>1. Blank \in WordType
    BY RingAssumption DEF Blank, Word, WordType
  <2> QED BY <2>1 DEF Asleep, ConsumerType
<1>3. Position' = Position
  BY <1>0, <1>2 DEF Position
<1>4. \A n : End(n)' = End(n)
  BY <1>0 DEF End
<1>5. ConsumerOK'
  BY <1>0, <1>2, <1>3, <1>4 DEF IInv, ConsumerOK
<1> QED BY <1>0, <1>1, <1>5, ConsumerFrame

-----------------------------------------------------------------------------
(* The theorems *)

\* The invariant holds at the start.
LEMMA InitIInv == Init => IInv
<1> SUFFICES ASSUME Init PROVE IInv
  OBVIOUS
<1> USE ConstantFacts, RingAssumption DEF Init
<1>1. Blank \in WordType /\ Asleep \in ConsumerType /\ Asleep.mode = "asleep"
  BY DEF Blank, Word, WordType, Asleep, ConsumerType
<1>2. Without \in ProcPc /\ Without.op = "unclaimed"
  BY DEF Without, ProcPc
<1>3. TypeOK
  BY <1>1, <1>2 DEF TypeOK, WordType
<1>4. Layout /\ Intact
  BY DEF Layout, Intact, End
<1>5. SoleProducer /\ \A p \in Procs : PushOK(p)
  BY <1>2 DEF SoleProducer, Holds, PushOK
<1>6. ConsumerOK
  BY <1>1 DEF ConsumerOK, Position, End
<1> QED BY <1>3, <1>4, <1>5, <1>6 DEF IInv

\* Every step keeps the invariant.
LEMMA NextIInv ==
  ASSUME IInv, [Next]_vars
  PROVE  IInv'
<1>1. CASE UNCHANGED vars
  <2>1. UNCHANGED <<consumerVars, pushed>> /\ UNCHANGED <<mem, producerVars>>
    BY <1>1 DEF vars, consumerVars, producerVars
  <2>2. ConsumerOK'
    BY <2>1, ConsumerKeeps DEF IInv
  <2>3. tail' \in Nat /\ tail <= tail' /\ tail' <= head
    BY <1>1 DEF vars, IInv, TypeOK
  <2> QED BY <2>1, <2>2, <2>3, ConsumerFrame
<1>2. CASE Consumer
  BY <1>2, DrainBeginStep, DrainStepStep, DrainApplyStep, DrainEndStep DEF Consumer
<1>3. ASSUME NEW p \in Procs, Worker(p) PROVE IInv'
  BY <1>3, OwnerStep, PushBeginStep, WriteSkipStep, WriteWordStep, PublishStep DEF Worker
<1> QED BY <1>1, <1>2, <1>3 DEF Next

\* The invariant holds throughout.
LEMMA RingInvariant == Spec => []IInv
BY InitIInv, NextIInv, PTL DEF Spec

\* What the consumer index has passed has been applied.
LEMMA PassedIsApplied == IInv => TailMeansApplied
<1> SUFFICES ASSUME IInv, NEW i \in DOMAIN pushed, pushed[i].end <= tail
             PROVE  i <= Len(applied)
  BY DEF IInv, ConsumerOK, TailMeansApplied
<1> DEFINE n == Len(applied)
           N == Len(pushed)
<1>1. /\ Layout /\ n \in Nat /\ N \in Nat /\ i \in 1 .. N /\ n <= N /\ tail \in Nat
      /\ Position = End(n) \/ (n < N /\ Position = pushed[n + 1].at)
      /\ cons.tail \in Nat
  <2>1. Layout /\ pushed \in Seq(Record)
    BY DEF IInv, Layout
  <2> QED BY <2>1 DEF IInv, ConsumerOK, ConsumerType, TypeOK
<1>2. tail <= Position /\ Position \in Nat
  BY <1>1 DEF IInv, ConsumerOK, Position
<1> HIDE DEF n, N
<1>3. SUFFICES ASSUME n < i PROVE FALSE
  BY <1>1 DEF n
<1>4. n + 1 \in 1 .. N /\ (n + 1) - 1 = n
  BY <1>1, <1>3
<1>5. /\ pushed[n + 1].at \in Nat /\ pushed[n + 1].end \in Nat
      /\ pushed[n + 1].at < pushed[n + 1].end /\ End(n) <= pushed[n + 1].at /\ End(n) \in Nat
  BY <1>1, <1>4, EndFacts DEF N
<1>6. Position < pushed[n + 1].end
  BY <1>1, <1>5
<1>7. pushed[n + 1].end <= pushed[i].end /\ pushed[i].end \in Nat
  <2>1. pushed[i].at \in Nat /\ pushed[i].end \in Nat /\ pushed[i].at < pushed[i].end
    BY <1>1, EndFacts DEF N
  <2>2. CASE i = n + 1
    BY <1>5, <2>2
  <2>3. CASE n + 1 < i
    <3>1. pushed[n + 1].end <= pushed[i].at
      BY <1>1, <1>4, <2>3 DEF Layout, N
    <3> QED BY <1>5, <2>1, <3>1
  <2> QED BY <1>1, <1>3, <2>2, <2>3
<1> QED BY <1>1, <1>2, <1>5, <1>6, <1>7

\* The indices keep their order and distance, no record is ever rejected, and
\* once the consumer index has passed a record it has been applied: what
\* #reconcileWrites takes from submitTail.
THEOREM TailMeansAppliedHolds == Spec => []TailMeansApplied
BY RingInvariant, PassedIsApplied, PTL

\* The ring implements the queue: submitPush and SubmitDrain, over a buffer
\* that wraps, through crashes and changes of the owner, lose, invent, repeat
\* and reorder nothing.
THEOREM RingImplementsQueue == Spec => ImplementsQueue
<1> DEFINE Sent == [i \in DOMAIN pushed |-> pushed[i].id]
<1>1. Init => Queue!Init
  <2>1. ASSUME Init PROVE Sent = <<>>
    BY <2>1 DEF Init
  <2> QED BY <2>1 DEF Init, Queue!Init
<1>2. ASSUME IInv, [Next]_vars PROVE [Queue!Next]_<<Sent, applied>>
  <2>0. pushed \in Seq(Record) /\ Len(pushed) \in Nat
    BY <1>2, EndFacts DEF IInv, Layout
  <2>1. ASSUME pushed' = pushed, applied' = applied
        PROVE  UNCHANGED <<Sent, applied>>
    BY <2>1
  <2>2. ASSUME DrainApply PROVE Queue!Take
    <3> DEFINE k == Len(applied) + 1
    <3>1. /\ k \in 1 .. Len(pushed) /\ k - 1 = Len(applied)
          /\ applied' = Append(applied, pushed[k].id)
      BY <1>2, <2>2, Applies
    <3>2. pushed' = pushed
      BY <2>2 DEF DrainApply, producerVars
    <3>3. Sent[k] = pushed[k].id /\ Len(Sent) = Len(pushed)
      BY <2>0, <3>1
    <3>4. Len(applied) < Len(Sent)
      BY <2>0, <3>1, <3>3
    <3> QED BY <3>1, <3>2, <3>3, <3>4 DEF Queue!Take
  <2>3. ASSUME NEW p \in Procs, Publish(p) PROVE Queue!Accept
    <3> DEFINE r == [id |-> pc[p].id, at |-> pc[p].at, end |-> head']
    <3>1. pushed' = Append(pushed, r) /\ applied' = applied /\ r.id = pc[p].id
      BY <2>3 DEF Publish, consumerVars
    <3>2. pc[p].id \in Ids
      BY <1>2, <2>3, PcFields DEF Publish, IInv, TypeOK
    <3>3. Sent' = Append(Sent, pc[p].id)
      BY <2>0, <3>1
    <3> QED BY <3>1, <3>2, <3>3 DEF Queue!Accept, Ids
  <2>4. CASE UNCHANGED vars
    BY <2>1, <2>4 DEF vars
  <2>5. CASE DrainBegin \/ DrainStep \/ DrainEnd
    BY <2>1, <2>5 DEF DrainBegin, DrainStep, DrainEnd, producerVars
  <2>6. ASSUME NEW p \in Procs,
               \/ ClaimLoad(p) \/ ClaimCas(p) \/ Release(p) \/ Crash(p)
               \/ \E need \in Sizes : PushBegin(p, need)
               \/ WriteSkip(p) \/ WriteWord(p)
        PROVE  UNCHANGED <<Sent, applied>>
    <3>1. pushed' = pushed /\ applied' = applied
      BY <2>6 DEF ClaimLoad, ClaimCas, Release, Crash, PushBegin, WriteSkip, WriteWord,
         consumerVars
    <3> QED BY <2>1, <3>1
  <2> QED BY <1>2, <2>2, <2>3, <2>4, <2>5, <2>6 DEF Next, Consumer, Worker, Queue!Next
<1> QED BY <1>1, <1>2, RingInvariant, PTL DEF Spec, ImplementsQueue, Queue!Spec

=============================================================================
