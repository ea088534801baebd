------------------------------- MODULE Expiry -------------------------------
(***************************************************************************)
(* The lifetime of one key. The arena keeps its expiry as milliseconds     *)
(* since its creation in an unsigned word, 2 * Half values, 0 meaning none,*)
(* and compares by signed difference; an L1 copy keeps a deadline on the   *)
(* process's own clock, which does not wrap. time is true time: one unit   *)
(* is one tick of either clock. due is when an entry should end, 0 if it   *)
(* should not.                                                             *)
(***************************************************************************)
EXTENDS Integers

CONSTANTS
  Half,        \* half the values of expiresAt: 2 ^ 31 in the code
  Asked,       \* values of ttlMs that callers pass
  SweepEvery,  \* the longest a full pass of the sweep can take
  Pause,       \* the longest pause between two statements of get
  MaxTime      \* bound: the end of the run

ASSUME ExpiryAssumption ==
  /\ Half \in Nat \ {0, 1} /\ Asked \subseteq Nat
  /\ SweepEvery \in 1 .. Half /\ Pause \in 0 .. Half /\ MaxTime \in Nat

VARIABLES
  time,
  arena,   \* the entry in L2: exp, due; due = -1 when there is none
  l1,      \* the entry in L1: exp (deadline), due
  get,     \* a get between native.get and #l1Put: the entry it read
  paused,  \* ticks since that native.get
  swept,   \* when the last full sweep ended
  served   \* the due time of the value last returned; -1 for none

lifeVars == <<time, arena, l1, get, paused, swept, served>>

Wrap == 2 * Half
None == [exp |-> 0, due |-> -1]

Signed(x) == LET u == x % Wrap IN IF u < Half THEN u ELSE u - Wrap

\* nowRelMs
Now == time % Wrap

\* readTtlMs, and the clamp of set
Clamp(ttl) == IF ttl > Half - 1 THEN Half - 1 ELSE ttl

ExpiresAt(ttl) == IF ttl = 0 THEN 0 ELSE (Now + ttl) % Wrap

\* mutant: the comparison before it was made wrap-aware
Expired_plain(exp) == exp # 0 /\ exp <= Now

\* tcExpired
Expired(exp) == exp # 0 /\ Signed(Now - exp) >= 0

\* mutant: an entry that expires between the read and the question has no expiry
Remaining_zero(exp) ==
  LET d == Signed(exp - Now) IN IF exp # 0 /\ d > 0 THEN d ELSE 0

\* LastTtlRemainingMs
Remaining(exp) ==
  LET d == Signed(exp - Now) IN
  IF exp = 0 THEN 0 ELSE IF d > 0 THEN d ELSE 1

LifeInit ==
  /\ time = 0 /\ arena = None /\ l1 = None /\ get = None
  /\ paused = 0 /\ swept = 0 /\ served = -1

Tick ==
  /\ time < MaxTime
  /\ time - swept < SweepEvery
  /\ get # None => paused < Pause
  /\ time' = time + 1
  /\ paused' = IF get = None THEN 0 ELSE paused + 1
  /\ served' = -1
  /\ UNCHANGED <<arena, l1, get, swept>>

\* set on the primary, at level 1 and at level 2.
Set(ttl, level) ==
  LET t == Clamp(ttl)
      due == IF t = 0 THEN 0 ELSE time + t IN
  /\ get = None
  /\ arena' = [exp |-> ExpiresAt(t), due |-> due]
  /\ l1' = IF level = 1 THEN [exp |-> due, due |-> due] ELSE None
  /\ served' = -1
  /\ UNCHANGED <<time, get, paused, swept>>

L1Live == l1 # None /\ (l1.exp = 0 \/ l1.exp > time)

GetL1 ==
  /\ get = None /\ L1Live
  /\ served' = l1.due
  /\ UNCHANGED <<time, arena, l1, get, paused, swept>>

\* L1 holds nothing that may be served; the arena is asked.
GetArena ==
  /\ get = None /\ ~L1Live
  /\ l1' = None
  /\ get' = IF arena = None \/ Expired(arena.exp) THEN None ELSE arena
  /\ served' = get'.due
  /\ paused' = 0
  /\ UNCHANGED <<time, arena, swept>>

\* The rest of get: the deadline of the L1 copy.
FillL1 ==
  /\ get # None
  /\ LET rem == Remaining(get.exp) IN
     l1' = [exp |-> IF rem = 0 THEN 0 ELSE time + rem, due |-> get.due]
  /\ get' = None /\ served' = -1
  /\ UNCHANGED <<time, arena, paused, swept>>

Delete ==
  /\ get = None
  /\ arena' = None /\ l1' = None /\ served' = -1
  /\ UNCHANGED <<time, get, paused, swept>>

\* A full pass of sweepExpired has gone by the key. An L1 copy ends by its own deadline.
Sweep ==
  /\ get = None
  /\ arena' = IF arena # None /\ Expired(arena.exp) THEN None ELSE arena
  /\ swept' = time /\ served' = -1
  /\ UNCHANGED <<time, l1, get, paused>>

LifeNext ==
  \/ Tick \/ GetL1 \/ GetArena \/ FillL1 \/ Delete \/ Sweep
  \/ \E ttl \in Asked, level \in {1, 2} : Set(ttl, level)

LifeSpec == LifeInit /\ [][LifeNext]_lifeVars

-----------------------------------------------------------------------------

\* The types of the variables; expiry words keep to their width.
LifeTypeOK ==
  /\ time \in 0 .. MaxTime /\ swept \in 0 .. time /\ paused \in 0 .. Pause
  /\ arena \in [exp : 0 .. Wrap - 1, due : Int]
  /\ get \in [exp : 0 .. Wrap - 1, due : Int]
  /\ l1 \in [exp : Nat, due : Int]

\* An entry is not taken for expired, by a read or by the sweep, while it has time
\* left, wherever in its lap the clock stands, and its word keeps to the clock's width.
NeverEarly ==
  /\ LifeTypeOK
  /\ arena # None /\ (arena.due = 0 \/ time < arena.due) => ~Expired(arena.exp)

\* No value is returned past its end, from either tier, by more than a pause of get,
\* provided the end does not fall on a multiple of Wrap: the expiry word is then 0 and
\* the entry has none (binding.cc 623).
ServedInTime ==
  served > 0 /\ time >= served + Pause => served % Wrap = 0

=============================================================================
