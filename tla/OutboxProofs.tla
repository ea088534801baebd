---------------------------- MODULE OutboxProofs ----------------------------
(***************************************************************************)
(* What Outbox guarantees for any finite set of workers, any keys and any  *)
(* bounds of outbox and window: a batch that is lost takes the marks of    *)
(* its own operations and no newer ones, and an L3 clear that has emptied  *)
(* the arena is guarded until L3 has applied it.                           *)
(*                                                                         *)
(* The operations of a worker that are on their way are seen as lots: one  *)
(* for every batch it has sent, in their order, and its outbox as the last *)
(* lot.  A flush, a loss, a delivery and an operation are then described   *)
(* by what they do to lots and marks (Calm, Sent, Drops, Delivered, Adds), *)
(* and what holds of a worker (Fit) is kept by each kind of step.          *)
(***************************************************************************)
EXTENDS Outbox, FiniteSetTheorems, WellFoundedInduction, TLAPS

-----------------------------------------------------------------------------
(* Sums, as the number of pairs of an index and one of what it counts.     *)

Units(S, f) == UNION {{x} \X (1 .. f[x]) : x \in S}
Tally(S, f) == Cardinality(Units(S, f))

LEMMA TallyEmpty ==
  ASSUME NEW f
  PROVE  IsFiniteSet(Units({}, f)) /\ Tally({}, f) = 0
<1>1. Units({}, f) = {}
  BY DEF Units
<1> QED BY <1>1, FS_EmptySet DEF Tally

LEMMA TallyType ==
  ASSUME NEW S, IsFiniteSet(S), NEW f, \A x \in S : f[x] \in Nat
  PROVE  IsFiniteSet(Units(S, f)) /\ Tally(S, f) \in Nat
<1> DEFINE C == {{x} \X (1 .. f[x]) : x \in S}
<1>1. IsFiniteSet(C)
  <2>1. PICK g : g = [x \in S |-> {x} \X (1 .. f[x])]
    OBVIOUS
  <2>2. g \in Surjection(S, C)
    BY <2>1 DEF Surjection
  <2> QED BY <2>2, FS_Surjection
<1>2. ASSUME NEW T \in C PROVE IsFiniteSet(T)
  <2>1. PICK x \in S : T = {x} \X (1 .. f[x])
    OBVIOUS
  <2>2. f[x] \in Nat /\ IsFiniteSet({x})
    BY FS_Singleton
  <2>3. IsFiniteSet(1 .. f[x])
    BY <2>2, FS_Interval
  <2> QED BY <2>1, <2>2, <2>3, FS_Product
<1>3. IsFiniteSet(UNION C)
  BY <1>1, <1>2, FS_UNION
<1> QED BY <1>3, FS_CardinalityType DEF Tally, Units

LEMMA TallySame ==
  ASSUME NEW S, NEW f, NEW g, \A x \in S : f[x] = g[x]
  PROVE  Tally(S, f) = Tally(S, g)
<1>1. Units(S, f) = Units(S, g)
  BY DEF Units
<1> QED BY <1>1 DEF Tally

\* An element may be taken out of a sum.
LEMMA TallyTakes ==
  ASSUME NEW S, IsFiniteSet(S), NEW f, \A x \in S : f[x] \in Nat, NEW x \in S
  PROVE  /\ Tally(S, f) = f[x] + Tally(S \ {x}, f)
         /\ Tally(S \ {x}, f) \in Nat
<1> DEFINE A == {x} \X (1 .. f[x])
           B == Units(S \ {x}, f)
<1>1. IsFiniteSet(S \ {x})
  BY FS_RemoveElement
<1>2. IsFiniteSet(B) /\ Cardinality(B) \in Nat
  BY <1>1, TallyType DEF Tally
<1>3. IsFiniteSet(A) /\ Cardinality(A) = f[x]
  <2>1. IsFiniteSet(1 .. f[x]) /\ Cardinality(1 .. f[x]) = f[x]
    BY FS_Interval
  <2>2. IsFiniteSet({x}) /\ Cardinality({x}) = 1
    BY FS_Singleton
  <2>3. IsFiniteSet(A) /\ Cardinality(A) = 1 * f[x]
    BY <2>1, <2>2, FS_Product
  <2> QED BY <2>3
<1>4. A \cap B = {}
  BY DEF Units
<1>5. Units(S, f) = A \cup B
  BY DEF Units
<1>6. Cardinality(A \cup B) = Cardinality(A) + Cardinality(B) - Cardinality(A \cap B)
  BY <1>2, <1>3, FS_Union
<1>7. Cardinality(A \cap B) = 0
  BY <1>4, FS_EmptySet
<1> QED BY <1>2, <1>3, <1>5, <1>6, <1>7 DEF Tally

\* What has at least one each is no more than the sum.
LEMMA TallyCount ==
  ASSUME NEW S, IsFiniteSet(S), NEW f, \A x \in S : f[x] \in Nat,
         NEW U, U \subseteq S, \A x \in U : f[x] >= 1
  PROVE  /\ IsFiniteSet(U) /\ Cardinality(U) \in Nat
         /\ Cardinality(U) <= Tally(S, f)
<1>1. IsFiniteSet(U) /\ Cardinality(U) \in Nat
  BY FS_Subset, FS_CardinalityType
<1>2. IsFiniteSet({1}) /\ Cardinality({1}) = 1
  BY FS_Singleton
<1>3. Cardinality(U \X {1}) = Cardinality(U)
  <2>1. Cardinality(U \X {1}) = Cardinality(U) * 1
    BY <1>1, <1>2, FS_Product
  <2> QED BY <1>1, <2>1
<1>4. U \X {1} \subseteq Units(S, f)
  <2> SUFFICES ASSUME NEW x \in U PROVE <<x, 1>> \in Units(S, f)
    OBVIOUS
  <2>1. 1 \in 1 .. f[x]
    OBVIOUS
  <2> QED BY <2>1 DEF Units
<1>5. IsFiniteSet(Units(S, f))
  BY TallyType
<1>6. Cardinality(U \X {1}) <= Cardinality(Units(S, f))
  BY <1>4, <1>5, FS_Subset
<1> QED BY <1>1, <1>3, <1>6 DEF Tally

\* One summand changes.
LEMMA TallyChange ==
  ASSUME NEW S, IsFiniteSet(S), NEW f, \A x \in S : f[x] \in Nat,
         NEW g, \A x \in S : g[x] \in Nat, NEW x \in S,
         \A y \in S : y # x => g[y] = f[y]
  PROVE  /\ Tally(S, g) = Tally(S, f) - f[x] + g[x]
         /\ Tally(S, f) \in Nat /\ Tally(S, g) \in Nat /\ f[x] <= Tally(S, f)
<1>1. Tally(S \ {x}, f) = Tally(S \ {x}, g)
  BY TallySame
<1>2. Tally(S, f) = f[x] + Tally(S \ {x}, f) /\ Tally(S \ {x}, f) \in Nat
  BY TallyTakes
<1>3. Tally(S, g) = g[x] + Tally(S \ {x}, g)
  BY TallyTakes
<1> QED BY <1>1, <1>2, <1>3, TallyType

-----------------------------------------------------------------------------
(* The entries that a congested flush keeps.                               *)

\* A non-empty set of numbers has a least.
LEMMA Least ==
  ASSUME NEW T, T \subseteq Nat, T # {}
  PROVE  \E x \in T : \A y \in T : x <= y
<1> DEFINE R == OpToRel(<, Nat)
<1>1. IsWellFoundedOn(R, Nat)
  BY NatLessThanWellFounded
<1>2. \A x, y \in Nat : <<y, x>> \in R <=> y < x
  BY DEF OpToRel
<1> HIDE DEF R
<1>3. PICK x \in T : \A y \in T : ~(<<y, x>> \in R)
  BY <1>1, WFMin
<1>4. \A y \in T : ~(y < x) /\ x \in Nat /\ y \in Nat
  BY <1>2, <1>3
<1> QED BY <1>4

\* What holds of 0, and of n + 1 when of n, holds of every number. G is a set.
LEMMA Climb ==
  ASSUME NEW G, 0 \in G, \A n \in Nat : n \in G => n + 1 \in G
  PROVE  \A n \in Nat : n \in G
<1> SUFFICES ASSUME {n \in Nat : n \notin G} # {} PROVE FALSE
  OBVIOUS
<1>1. PICK m \in {n \in Nat : n \notin G} : \A n \in {x \in Nat : x \notin G} : m <= n
  BY Least
<1>2. m \in Nat /\ m # 0 /\ m \notin G
  BY <1>1
<1>3. m - 1 \in Nat /\ ~(m <= m - 1)
  BY <1>2
<1>4. m - 1 \in G
  BY <1>1, <1>3
<1>5. (m - 1) + 1 \in G /\ (m - 1) + 1 = m
  BY <1>2, <1>3, <1>4
<1> QED BY <1>2, <1>5

\* One round of the function that Kept computes with, and a function of that kind.
KeepOne(q, I, f, i) ==
  IF i = 0 THEN <<>> ELSE IF i \in I THEN Append(f[i - 1], q[i]) ELSE f[i - 1]
Keeps(q, I, f) == f = [i \in 0 .. Len(q) |-> KeepOne(q, I, f, i)]

LEMMA KeepsExists ==
  ASSUME NEW q, Len(q) \in Nat, NEW I
  PROVE  \E f : Keeps(q, I, f)
<1> DEFINE n == Len(q)
           Good(m) == \E g : \A i \in 0 .. n : i < m => g[i] = KeepOne(q, I, g, i)
           G == {m \in Nat : Good(m)}
<1>1. Good(0)
  OBVIOUS
<1>2. ASSUME NEW m \in Nat, Good(m) PROVE Good(m + 1)
  <2>1. PICK g : \A i \in 0 .. n : i < m => g[i] = KeepOne(q, I, g, i)
    BY <1>2
  <2>2. PICK h : h = [i \in 0 .. n |-> KeepOne(q, I, g, i)]
    OBVIOUS
  <2>3. ASSUME NEW i \in 0 .. n, i < m + 1 PROVE h[i] = KeepOne(q, I, h, i)
    <3>1. h[i] = KeepOne(q, I, g, i)
      BY <2>2
    <3>2. CASE i = 0
      BY <3>1, <3>2 DEF KeepOne
    <3>3. CASE i # 0
      <4>1. i - 1 \in 0 .. n /\ i - 1 < m
        BY <2>3, <3>3
      <4>2. h[i - 1] = g[i - 1]
        BY <2>1, <2>2, <4>1
      <4> QED BY <3>1, <3>3, <4>2 DEF KeepOne
    <3> QED BY <3>2, <3>3
  <2> QED BY <2>3
<1>3. \A m \in Nat : m \in G
  <2>1. 0 \in G /\ \A m \in Nat : m \in G => m + 1 \in G
    <3> HIDE DEF Good
    <3> QED BY <1>1, <1>2
  <2> HIDE DEF G
  <2> QED BY <2>1, Climb
<1>4. Good(n + 1)
  <2> HIDE DEF Good
  <2> QED BY <1>3
<1>5. PICK g : \A i \in 0 .. n : i < n + 1 => g[i] = KeepOne(q, I, g, i)
  BY <1>4
<1>6. PICK h : h = [i \in 0 .. n |-> g[i]]
  OBVIOUS
<1>7. ASSUME NEW i \in 0 .. n PROVE h[i] = KeepOne(q, I, h, i)
  <2>1. h[i] = KeepOne(q, I, g, i)
    BY <1>5, <1>6
  <2>2. i # 0 => h[i - 1] = g[i - 1]
    BY <1>6
  <2> QED BY <2>1, <2>2 DEF KeepOne
<1>8. h = [i \in 0 .. n |-> KeepOne(q, I, h, i)]
  BY <1>6, <1>7
<1> QED BY <1>8 DEF Keeps

\* h takes the places of t to those of q that are in J, in their order.
Places(h, t, q, J) ==
  /\ h \in [1 .. Len(t) -> J]
  /\ \A i \in 1 .. Len(t) : t[i] = q[h[i]]
  /\ \A i, j \in 1 .. Len(t) : i < j => h[i] < h[j]
  /\ \A x \in J : \E i \in 1 .. Len(t) : h[i] = x

LEMMA KeptPlaces ==
  ASSUME NEW S, NEW q \in Seq(S), NEW I, I \subseteq 1 .. Len(q)
  PROVE  Kept(q, I) \in Seq(S) /\ \E h : Places(h, Kept(q, I), q, I)
<1> DEFINE n == Len(q)
           f == CHOOSE f : Keeps(q, I, f)
<1>0. n \in Nat
  OBVIOUS
<1>1. Kept(q, I) = f[n]
  BY DEF Kept, Keeps, KeepOne
<1>2. Keeps(q, I, f)
  <2>1. \E g : Keeps(q, I, g)
    BY <1>0, KeepsExists
  <2> QED BY <2>1
<1>3. \A i \in 0 .. n : f[i] = KeepOne(q, I, f, i)
  BY <1>2 DEF Keeps
<1> HIDE DEF f
<1> DEFINE Fits(t, i) == t \in Seq(S) /\ \E h : Places(h, t, q, I \cap (1 .. i))
           G == {i \in Nat : i <= n => Fits(f[i], i)}
<1>4. 0 \in G
  <2>1. f[0] = <<>>
    BY <1>0, <1>3 DEF KeepOne
  <2>2. PICK h : h = [j \in 1 .. 0 |-> 0]
    OBVIOUS
  <2>3. PICK t : t = <<>>
    OBVIOUS
  <2>4. t \in Seq(S) /\ Len(t) = 0 /\ I \cap (1 .. 0) = {} /\ \A j \in 1 .. Len(t) : FALSE
    BY <2>3
  <2>5. h \in [1 .. Len(t) -> I \cap (1 .. 0)]
    BY <2>2, <2>4
  <2>6. Places(h, t, q, I \cap (1 .. 0))
    BY <2>4, <2>5 DEF Places
  <2>7. Fits(t, 0)
    BY <2>4, <2>6
  <2> HIDE DEF Fits
  <2> QED BY <2>1, <2>3, <2>7
<1>5. ASSUME NEW i \in Nat, i + 1 <= n, Fits(f[i], i) PROVE Fits(f[i + 1], i + 1)
  <2>1. PICK t : t = f[i]
    OBVIOUS
  <2>2. Fits(t, i)
    <3> HIDE DEF Fits
    <3> QED BY <1>5, <2>1
  <2>3. t \in Seq(S) /\ Len(t) \in Nat
    BY <2>2
  <2>7. PICK h : Places(h, t, q, I \cap (1 .. i))
    BY <2>2
  <2>4. f[i + 1] = IF i + 1 \in I THEN Append(t, q[i + 1]) ELSE t
    <3>1. i + 1 \in 0 .. n /\ (i + 1) - 1 = i /\ i + 1 # 0
      BY <1>0, <1>5
    <3>2. f[i + 1] = KeepOne(q, I, f, i + 1)
      BY <1>3, <3>1
    <3> QED BY <2>1, <3>1, <3>2 DEF KeepOne
  <2>5. CASE i + 1 \notin I
    <3>1. I \cap (1 .. (i + 1)) = I \cap (1 .. i)
      BY <2>5
    <3>2. Fits(t, i + 1)
      BY <2>3, <2>7, <3>1
    <3> HIDE DEF Fits
    <3> QED BY <2>4, <2>5, <3>2
  <2>6. CASE i + 1 \in I
    <3>1. PICK u : u = Append(t, q[i + 1])
      OBVIOUS
    <3>2. q[i + 1] \in S
      BY <1>0, <1>5
    <3>3. /\ u \in Seq(S) /\ Len(u) = Len(t) + 1 /\ u[Len(t) + 1] = q[i + 1]
          /\ \A j \in 1 .. Len(t) : u[j] = t[j]
      BY <2>3, <3>1, <3>2
    <3>4. PICK e : e = [j \in 1 .. Len(u) |-> IF j = Len(t) + 1 THEN i + 1 ELSE h[j]]
      OBVIOUS
    <3>5. ASSUME NEW j \in 1 .. Len(u)
          PROVE  \/ j = Len(t) + 1 /\ e[j] = i + 1
                 \/ /\ j \in 1 .. Len(t) /\ e[j] = h[j]
                    /\ h[j] \in I \cap (1 .. i) /\ t[j] = q[h[j]]
      <4>1. CASE j = Len(t) + 1
        BY <3>4, <4>1
      <4>2. CASE j # Len(t) + 1
        <5>1. j \in 1 .. Len(t)
          BY <2>3, <3>3, <4>2
        <5> QED BY <2>7, <3>4, <4>2, <5>1 DEF Places
      <4> QED BY <4>1, <4>2
    <3>6. e \in [1 .. Len(u) -> I \cap (1 .. (i + 1))]
      <4>1. \A j \in 1 .. Len(u) : e[j] \in I \cap (1 .. (i + 1))
        BY <2>6, <3>5
      <4> QED BY <3>4, <4>1
    <3>7. \A j \in 1 .. Len(u) : u[j] = q[e[j]]
      BY <3>3, <3>5
    <3>8. ASSUME NEW j \in 1 .. Len(u), NEW k \in 1 .. Len(u), j < k PROVE e[j] < e[k]
      <4>1. j \in 1 .. Len(t) /\ e[j] = h[j] /\ h[j] \in 1 .. i
        BY <2>3, <3>3, <3>5, <3>8
      <4>2. CASE k = Len(t) + 1 /\ e[k] = i + 1
        BY <4>1, <4>2
      <4>3. CASE k \in 1 .. Len(t) /\ e[k] = h[k]
        BY <2>7, <3>8, <4>1, <4>3 DEF Places
      <4> QED BY <3>5, <4>2, <4>3
    <3>9. ASSUME NEW x \in I \cap (1 .. (i + 1)) PROVE \E j \in 1 .. Len(u) : e[j] = x
      <4>1. CASE x = i + 1
        <5>1. Len(t) + 1 \in 1 .. Len(u)
          BY <2>3, <3>3
        <5> QED BY <3>4, <4>1, <5>1
      <4>2. CASE x # i + 1
        <5>1. x \in I \cap (1 .. i)
          BY <4>2
        <5>2. PICK j \in 1 .. Len(t) : h[j] = x
          BY <2>7, <5>1 DEF Places
        <5>3. j \in 1 .. Len(u) /\ j # Len(t) + 1
          BY <2>3, <3>3
        <5> QED BY <3>4, <5>2, <5>3
      <4> QED BY <4>1, <4>2
    <3>10. Places(e, u, q, I \cap (1 .. (i + 1)))
      BY <3>6, <3>7, <3>8, <3>9 DEF Places
    <3>11. Fits(u, i + 1)
      BY <3>3, <3>10
    <3> HIDE DEF Fits
    <3> QED BY <2>4, <2>6, <3>1, <3>11
  <2> QED BY <2>5, <2>6
<1>6. \A i \in Nat : i \in G
  <2>1. \A i \in Nat : i \in G => i + 1 \in G
    <3> HIDE DEF Fits
    <3> QED BY <1>0, <1>5
  <2> HIDE DEF G
  <2> QED BY <1>4, <2>1, Climb
<1>7. I \cap (1 .. n) = I
  OBVIOUS
<1>8. Fits(f[n], n)
  <2> HIDE DEF Fits
  <2> QED BY <1>0, <1>6
<1>9. f[n] \in Seq(S) /\ \E h : Places(h, f[n], q, I)
  BY <1>7, <1>8
<1> HIDE DEF Fits, G
<1> QED BY <1>1, <1>9

-----------------------------------------------------------------------------
(* The loop of applyBatch.                                                 *)

OpNames == {"s", "d", "c", "+", "-"}
Entries ==
  {e \in [op : OpNames, key : Keys \cup {NoKey}, seq : Nat, at : Nat, bad : BOOLEAN, n : Nat] :
     IF Keyless(e) THEN e.key = NoKey /\ e.seq = 0 ELSE e.key \in Keys}
Records == Keys \cup {FlushAll}
Header == [ring : Seq(Records), gen : Nat, settled : Nat, owed : Nat, applied : Nat]

\* The operations of one kind among the first n, and among all.
First(ops, n, op) == {i \in 1 .. n : ops[i].op = op}
Count(ops, op) == Cardinality(First(ops, Len(ops), op))

LEMMA FirstFacts ==
  ASSUME NEW ops, NEW n \in Nat, NEW op
  PROVE  /\ IsFiniteSet(First(ops, n, op)) /\ Cardinality(First(ops, n, op)) \in Nat
         /\ Cardinality(First(ops, 0, op)) = 0
         /\ Cardinality(First(ops, n + 1, op)) =
              Cardinality(First(ops, n, op)) + IF ops[n + 1].op = op THEN 1 ELSE 0
<1> DEFINE A == First(ops, n, op)
<1>1. A \subseteq 1 .. n /\ IsFiniteSet(1 .. n)
  BY FS_Interval DEF First
<1>2. IsFiniteSet(A) /\ Cardinality(A) \in Nat
  BY <1>1, FS_Subset, FS_CardinalityType
<1>3. First(ops, 0, op) = {}
  BY DEF First
<1>4. CASE ops[n + 1].op = op
  <2>1. First(ops, n + 1, op) = A \cup {n + 1} /\ n + 1 \notin A
    BY <1>4 DEF First
  <2>2. Cardinality(A \cup {n + 1}) = Cardinality(A) + 1
    BY <1>2, <2>1, FS_AddElement
  <2> QED BY <1>2, <1>3, <1>4, <2>1, <2>2, FS_EmptySet
<1>5. CASE ops[n + 1].op # op
  <2>1. First(ops, n + 1, op) = A
    BY <1>5 DEF First
  <2> QED BY <1>2, <1>3, <1>5, <2>1, FS_EmptySet
<1> QED BY <1>4, <1>5

ApplyOne(a, ops, f, i) == IF i = 0 THEN a ELSE ApplyOp(f[i - 1], ops[i])
Applies(a, ops, f) == f = [i \in 0 .. Len(ops) |-> ApplyOne(a, ops, f, i)]

LEMMA AppliesExists ==
  ASSUME NEW a, NEW ops, Len(ops) \in Nat
  PROVE  \E f : Applies(a, ops, f)
<1> DEFINE n == Len(ops)
           Good(m) == \E g : \A i \in 0 .. n : i < m => g[i] = ApplyOne(a, ops, g, i)
           G == {m \in Nat : Good(m)}
<1>1. Good(0)
  OBVIOUS
<1>2. ASSUME NEW m \in Nat, Good(m) PROVE Good(m + 1)
  <2>1. PICK g : \A i \in 0 .. n : i < m => g[i] = ApplyOne(a, ops, g, i)
    BY <1>2
  <2>2. PICK h : h = [i \in 0 .. n |-> ApplyOne(a, ops, g, i)]
    OBVIOUS
  <2>3. ASSUME NEW i \in 0 .. n, i < m + 1 PROVE h[i] = ApplyOne(a, ops, h, i)
    <3>1. h[i] = ApplyOne(a, ops, g, i)
      BY <2>2
    <3>2. CASE i = 0
      BY <3>1, <3>2 DEF ApplyOne
    <3>3. CASE i # 0
      <4>1. i - 1 \in 0 .. n /\ i - 1 < m
        BY <2>3, <3>3
      <4>2. h[i - 1] = g[i - 1]
        BY <2>1, <2>2, <4>1
      <4> QED BY <3>1, <3>3, <4>2 DEF ApplyOne
    <3> QED BY <3>2, <3>3
  <2> QED BY <2>3
<1>3. \A m \in Nat : m \in G
  <2>1. 0 \in G /\ \A m \in Nat : m \in G => m + 1 \in G
    <3> HIDE DEF Good
    <3> QED BY <1>1, <1>2
  <2> HIDE DEF G
  <2> QED BY <2>1, Climb
<1>4. Good(n + 1)
  <2> HIDE DEF Good
  <2> QED BY <1>3
<1>5. PICK g : \A i \in 0 .. n : i < n + 1 => g[i] = ApplyOne(a, ops, g, i)
  BY <1>4
<1>6. PICK h : h = [i \in 0 .. n |-> g[i]]
  OBVIOUS
<1>7. ASSUME NEW i \in 0 .. n PROVE h[i] = ApplyOne(a, ops, h, i)
  <2>1. h[i] = ApplyOne(a, ops, g, i)
    BY <1>5, <1>6
  <2>2. i # 0 => h[i - 1] = g[i - 1]
    BY <1>6
  <2> QED BY <2>1, <2>2 DEF ApplyOne
<1>8. h = [i \in 0 .. n |-> ApplyOne(a, ops, h, i)]
  BY <1>6, <1>7
<1> QED BY <1>8 DEF Applies

\* What i entries of ops make of the header a.
Extends(q, p) == Len(p) <= Len(q) /\ \A i \in 1 .. Len(p) : q[i] = p[i]
Booked(a, r, p, m) ==
  /\ r.owed >= a.owed + p - m
  /\ a.owed <= a.gen - a.settled =>
       /\ r.owed <= r.gen - r.settled
       /\ r.gen - r.settled = a.gen - a.settled + r.owed - a.owed
Recorded(a, r, ops, i) ==
  \A j \in 1 .. i : ~Keyless(ops[j]) =>
    \E p \in Len(a.ring) + 1 .. Len(r.ring) : r.ring[p] = ops[j].key
Made(a, r, ops, i) ==
  /\ r \in Header /\ Extends(r.ring, a.ring) /\ Recorded(a, r, ops, i)
  /\ Booked(a, r, Cardinality(First(ops, i, "+")), Cardinality(First(ops, i, "-")))
  /\ r.applied = a.applied + Cardinality(First(ops, i, "c"))

LEMMA BookPlus ==
  ASSUME NEW a \in Header, NEW r \in Header, NEW p \in Nat, NEW m \in Nat, Booked(a, r, p, m),
         NEW t, t.gen = r.gen + 1, t.settled = r.settled, t.owed = r.owed + 1
  PROVE  Booked(a, t, p + 1, m)
<1>1. /\ r.gen \in Nat /\ r.owed \in Nat /\ r.settled \in Nat
      /\ a.gen \in Nat /\ a.owed \in Nat /\ a.settled \in Nat
  BY DEF Header
<1> QED BY <1>1 DEF Booked

LEMMA BookMinus ==
  ASSUME NEW a \in Header, NEW r \in Header, NEW p \in Nat, NEW m \in Nat, Booked(a, r, p, m),
         NEW t, t.gen = r.gen, t.owed = IF r.owed > 0 THEN r.owed - 1 ELSE r.owed,
         t.settled = IF r.owed > 0 /\ r.settled < r.gen THEN r.settled + 1 ELSE r.settled
  PROVE  Booked(a, t, p, m + 1)
<1>1. /\ r.gen \in Nat /\ r.owed \in Nat /\ r.settled \in Nat
      /\ a.gen \in Nat /\ a.owed \in Nat /\ a.settled \in Nat
  BY DEF Header
<1>2. CASE r.owed > 0
  BY <1>1, <1>2 DEF Booked
<1>3. CASE ~(r.owed > 0)
  BY <1>1, <1>3 DEF Booked
<1> QED BY <1>2, <1>3

LEMMA OpMakes ==
  ASSUME NEW a \in Header, NEW ops \in Seq(Entries), NEW i \in Nat, i + 1 <= Len(ops),
         NEW r, Made(a, r, ops, i)
  PROVE  Made(a, ApplyOp(r, ops[i + 1]), ops, i + 1)
<1> DEFINE P == Cardinality(First(ops, i, "+"))
           M == Cardinality(First(ops, i, "-"))
           C == Cardinality(First(ops, i, "c"))
<1>1. PICK e \in Entries : e = ops[i + 1]
  OBVIOUS
<1>2. /\ P \in Nat /\ M \in Nat /\ C \in Nat
      /\ Cardinality(First(ops, i + 1, "+")) = P + IF e.op = "+" THEN 1 ELSE 0
      /\ Cardinality(First(ops, i + 1, "-")) = M + IF e.op = "-" THEN 1 ELSE 0
      /\ Cardinality(First(ops, i + 1, "c")) = C + IF e.op = "c" THEN 1 ELSE 0
  <2>1. /\ P \in Nat /\ M \in Nat /\ C \in Nat
        /\ Cardinality(First(ops, i + 1, "+")) = P + IF ops[i + 1].op = "+" THEN 1 ELSE 0
        /\ Cardinality(First(ops, i + 1, "-")) = M + IF ops[i + 1].op = "-" THEN 1 ELSE 0
        /\ Cardinality(First(ops, i + 1, "c")) = C + IF ops[i + 1].op = "c" THEN 1 ELSE 0
    <3>1. \A op : /\ Cardinality(First(ops, i, op)) \in Nat
                   /\ Cardinality(First(ops, i + 1, op)) =
                        Cardinality(First(ops, i, op)) + IF ops[i + 1].op = op THEN 1 ELSE 0
      BY FirstFacts
    <3> QED BY <3>1
  <2> HIDE DEF P, M, C
  <2> QED BY <1>1, <2>1
<1> HIDE DEF P, M, C
<1>3. r \in Header /\ Extends(r.ring, a.ring) /\ Recorded(a, r, ops, i) /\ Booked(a, r, P, M)
      /\ r.applied = a.applied + C
  BY DEF Made, P, M, C
<1>0. /\ r.gen \in Nat /\ r.owed \in Nat /\ r.settled \in Nat /\ r.applied \in Nat
      /\ a.gen \in Nat /\ a.owed \in Nat /\ a.settled \in Nat /\ a.applied \in Nat
      /\ r.ring \in Seq(Records)
  BY <1>3 DEF Header
<1>4. PICK t : t = ApplyOp(r, e)
  OBVIOUS
<1>5. ASSUME t \in Header, NEW x \in Records, t.ring = Append(r.ring, x),
             ~Keyless(e) => x = e.key
      PROVE  Extends(t.ring, a.ring) /\ Recorded(a, t, ops, i + 1)
  <2>1. /\ Len(t.ring) = Len(r.ring) + 1 /\ t.ring[Len(r.ring) + 1] = x
        /\ \A p \in 1 .. Len(r.ring) : t.ring[p] = r.ring[p]
        /\ Len(r.ring) \in Nat /\ Len(a.ring) \in Nat
    BY <1>3, <1>5 DEF Header
  <2>2. Len(a.ring) <= Len(r.ring) /\ \A p \in 1 .. Len(a.ring) : r.ring[p] = a.ring[p]
    BY <1>3 DEF Extends
  <2>3. Extends(t.ring, a.ring)
    BY <2>1, <2>2 DEF Extends
  <2>4. ASSUME NEW j \in 1 .. i + 1, ~Keyless(ops[j])
        PROVE  \E p \in Len(a.ring) + 1 .. Len(t.ring) : t.ring[p] = ops[j].key
    <3>1. CASE j = i + 1
      <4>1. Len(r.ring) + 1 \in Len(a.ring) + 1 .. Len(t.ring)
        BY <2>1, <2>2
      <4> QED BY <1>1, <1>5, <2>1, <2>4, <3>1, <4>1
    <3>2. CASE j # i + 1
      <4>1. j \in 1 .. i
        BY <3>2
      <4>2. PICK p \in Len(a.ring) + 1 .. Len(r.ring) : r.ring[p] = ops[j].key
        BY <1>3, <2>4, <4>1 DEF Recorded
      <4>3. p \in 1 .. Len(r.ring) /\ p \in Len(a.ring) + 1 .. Len(t.ring)
        BY <2>1
      <4> QED BY <2>1, <4>2, <4>3
    <3> QED BY <3>1, <3>2
  <2> QED BY <2>3, <2>4 DEF Recorded
<1>6. ASSUME t.ring = r.ring, Keyless(e)
      PROVE  Extends(t.ring, a.ring) /\ Recorded(a, t, ops, i + 1)
  <2>1. ASSUME NEW j \in 1 .. i + 1, ~Keyless(ops[j])
        PROVE  \E p \in Len(a.ring) + 1 .. Len(t.ring) : t.ring[p] = ops[j].key
    <3>1. j \in 1 .. i
      BY <1>1, <1>6, <2>1
    <3> QED BY <1>3, <1>6, <2>1, <3>1 DEF Recorded
  <2> QED BY <1>3, <1>6, <2>1 DEF Recorded
<1>7. e.op \in OpNames /\ (Keyless(e) <=> e.op \in {"c", "+", "-"}) /\ (~Keyless(e) => e.key \in Keys)
  BY DEF Entries, Keyless
<1>8. CASE e.op \in {"s", "d"}
  <2>1. t = [r EXCEPT !.ring = Append(@, e.key)] /\ e.key \in Records /\ ~Keyless(e)
    BY <1>4, <1>7, <1>8 DEF ApplyOp, Records
  <2>2. t \in Header /\ t.ring = Append(r.ring, e.key)
        /\ t.gen = r.gen /\ t.settled = r.settled /\ t.owed = r.owed /\ t.applied = r.applied
    <3>1. PICK q : q = Append(r.ring, e.key)
      OBVIOUS
    <3>2. q \in Seq(Records)
      BY <1>0, <2>1, <3>1
    <3>3. t = [r EXCEPT !.ring = q]
      BY <2>1, <3>1
    <3> QED BY <1>3, <3>1, <3>2, <3>3 DEF Header
  <2>3. Booked(a, t, P, M)
    BY <1>3, <2>2 DEF Booked
  <2>4. /\ Cardinality(First(ops, i + 1, "+")) = P /\ Cardinality(First(ops, i + 1, "-")) = M
        /\ Cardinality(First(ops, i + 1, "c")) = C
    BY <1>2, <1>8
  <2>5. Extends(t.ring, a.ring) /\ Recorded(a, t, ops, i + 1)
    BY <1>5, <2>1, <2>2
  <2>6. Made(a, t, ops, i + 1)
    BY <1>3, <2>2, <2>3, <2>4, <2>5 DEF Made
  <2> QED BY <1>1, <1>4, <2>6
<1>9. CASE e.op = "c"
  <2>1. t = [r EXCEPT !.ring = Append(@, FlushAll), !.applied = @ + 1] /\ Keyless(e)
        /\ FlushAll \in Records
    BY <1>4, <1>7, <1>9 DEF ApplyOp, Records
  <2>2. t \in Header /\ t.ring = Append(r.ring, FlushAll)
        /\ t.gen = r.gen /\ t.settled = r.settled /\ t.owed = r.owed /\ t.applied = r.applied + 1
    <3>1. PICK q, n : q = Append(r.ring, FlushAll) /\ n = r.applied + 1
      OBVIOUS
    <3>2. q \in Seq(Records) /\ n \in Nat
      BY <1>0, <2>1, <3>1
    <3>3. t = [r EXCEPT !.ring = q, !.applied = n]
      BY <2>1, <3>1
    <3> QED BY <1>3, <3>1, <3>2, <3>3 DEF Header
  <2>3. Booked(a, t, P, M)
    BY <1>3, <2>2 DEF Booked
  <2>4. t.applied = a.applied + (C + 1)
    BY <1>0, <1>2, <1>3, <2>2
  <2> QED BY <1>1, <1>2, <1>3, <1>4, <1>5, <1>9, <2>1, <2>2, <2>3, <2>4 DEF Made
<1>10. CASE e.op = "+"
  <2>1. t = [r EXCEPT !.gen = @ + 1, !.owed = @ + 1] /\ Keyless(e)
    BY <1>4, <1>7, <1>10 DEF ApplyOp
  <2>2. t \in Header /\ t.ring = r.ring
        /\ t.gen = r.gen + 1 /\ t.settled = r.settled /\ t.owed = r.owed + 1 /\ t.applied = r.applied
    <3>0. r.gen + 1 \in Nat /\ r.owed + 1 \in Nat
      BY <1>0
    <3>1. PICK x \in Nat, y \in Nat : x = r.gen + 1 /\ y = r.owed + 1
      BY <3>0
    <3>2. t = [r EXCEPT !.gen = x, !.owed = y]
      BY <2>1, <3>1
    <3> QED BY <1>3, <3>1, <3>2 DEF Header
  <2>3. Booked(a, t, P + 1, M)
    BY <1>2, <1>3, <2>2, BookPlus
  <2> QED BY <1>1, <1>2, <1>3, <1>4, <1>6, <1>10, <2>1, <2>2, <2>3 DEF Made
<1>11. CASE e.op = "-"
  <2>1. Keyless(e)
    BY <1>7, <1>11
  <2>2. CASE r.owed > 0
    <3>1. t = [r EXCEPT !.settled = IF @ < r.gen THEN @ + 1 ELSE @,
                        !.owed = IF @ > 0 THEN @ - 1 ELSE 0]
      BY <1>4, <1>11, <2>2 DEF ApplyOp, MaySettle
    <3>2. t \in Header /\ t.ring = r.ring
          /\ t.gen = r.gen /\ t.settled = (IF r.settled < r.gen THEN r.settled + 1 ELSE r.settled)
          /\ t.owed = r.owed - 1 /\ t.applied = r.applied
      <4>1. PICK x \in Nat, y \in Nat :
              x = (IF r.settled < r.gen THEN r.settled + 1 ELSE r.settled) /\ y = r.owed - 1
        BY <1>0, <2>2
      <4>2. t = [r EXCEPT !.settled = x, !.owed = y]
        BY <2>2, <3>1, <4>1
      <4> QED BY <1>3, <4>1, <4>2 DEF Header
    <3>3. Booked(a, t, P, M + 1)
      BY <1>2, <1>3, <2>2, <3>2, BookMinus
    <3> QED BY <1>1, <1>2, <1>3, <1>4, <1>6, <1>11, <2>1, <3>2, <3>3 DEF Made
  <2>3. CASE ~(r.owed > 0)
    <3>1. t = r
      BY <1>4, <1>11, <2>3 DEF ApplyOp, MaySettle
    <3>2. Booked(a, t, P, M + 1)
      BY <1>2, <1>3, <2>3, <3>1, BookMinus
    <3> QED BY <1>1, <1>2, <1>3, <1>4, <1>6, <1>11, <2>1, <3>1, <3>2 DEF Made
  <2> QED BY <2>2, <2>3
<1> QED BY <1>7, <1>8, <1>9, <1>10, <1>11 DEF OpNames

LEMMA OpsMake ==
  ASSUME NEW a \in Header, NEW ops \in Seq(Entries)
  PROVE  Made(a, ApplyOps(a, ops), ops, Len(ops))
<1> DEFINE n == Len(ops)
           f == CHOOSE f : Applies(a, ops, f)
<1>0. n \in Nat
  OBVIOUS
<1>1. ApplyOps(a, ops) = f[n]
  BY DEF ApplyOps, Applies, ApplyOne
<1>2. Applies(a, ops, f)
  <2>1. \E g : Applies(a, ops, g)
    BY <1>0, AppliesExists
  <2> QED BY <2>1
<1>3. \A i \in 0 .. n : f[i] = ApplyOne(a, ops, f, i)
  BY <1>2 DEF Applies
<1> HIDE DEF f
<1> DEFINE G == {i \in Nat : i <= n => Made(a, f[i], ops, i)}
<1>4. 0 \in G
  <2>1. f[0] = a
    BY <1>0, <1>3 DEF ApplyOne
  <2>2. \A op : Cardinality(First(ops, 0, op)) = 0
    BY FirstFacts
  <2>3. Extends(a.ring, a.ring) /\ Recorded(a, a, ops, 0) /\ Booked(a, a, 0, 0)
    BY DEF Extends, Recorded, Booked, Header
  <2>4. a.applied = a.applied + 0
    BY DEF Header
  <2>5. Made(a, a, ops, 0)
    BY <2>2, <2>3, <2>4 DEF Made
  <2> QED BY <2>1, <2>5
<1>5. ASSUME NEW i \in Nat, i + 1 <= n, Made(a, f[i], ops, i) PROVE Made(a, f[i + 1], ops, i + 1)
  <2>1. i + 1 \in 0 .. n /\ (i + 1) - 1 = i /\ i + 1 # 0
    BY <1>0, <1>5
  <2>2. f[i + 1] = ApplyOne(a, ops, f, i + 1)
    BY <1>3, <2>1
  <2>3. f[i + 1] = ApplyOp(f[i], ops[i + 1])
    BY <2>1, <2>2 DEF ApplyOne
  <2> QED BY <1>5, <2>3, OpMakes
<1>6. \A i \in Nat : i \in G
  <2>1. \A i \in Nat : i \in G => i + 1 \in G
    BY <1>0, <1>5
  <2> HIDE DEF G
  <2> QED BY <1>4, <2>1, Climb
<1>7. Made(a, f[n], ops, n)
  BY <1>0, <1>6
<1> QED BY <1>1, <1>7

-----------------------------------------------------------------------------
(* A worker, and its operations in lots: those of the batches it has sent, *)
(* and those of its outbox as the last lot.                                *)

Mark == [seq : Nat, at : Nat]
MarkTable == [Keys -> Mark]
OpLists == Seq(Entries)
Batch == [ops : OpLists, seq : Nat, bytes : Nat, due : BOOLEAN, cb : BOOLEAN]
Wires == Seq(Batch)
LastOps == [Keys -> Nat]
WorkerSet ==
  [outbox : OpLists, bytes : Nat, sched : BOOLEAN, chase : BOOLEAN, wire : Wires,
   window : Int, del : MarkTable, write : MarkTable, seq : Nat, cursor : Nat,
   clears : Nat, out : Nat, last : LastOps]

Lots(s) == 1 .. Len(s.wire) + 1
LastLot(s) == Len(s.wire) + 1
OpsAt(s, i) == IF i \in DOMAIN s.wire THEN s.wire[i].ops ELSE s.outbox
SeqAt(s, i) == IF i \in DOMAIN s.wire THEN s.wire[i].seq ELSE s.seq
Due(s) == {i \in Lots(s) : i \in DOMAIN s.wire => s.wire[i].due}

Sides == {"d", "s"}
MarkOf(s, side, k) == IF side = "d" THEN s.del[k] ELSE s.write[k]

\* What the marks are judged by, and what a batch that is lost does to one.
Steady(s, t) == t.seq = s.seq /\ t.last = s.last /\ t.cursor = s.cursor
SameMarks(s, t) == t.del = s.del /\ t.write = s.write
Released(s, t, ops, seq) ==
  \A side \in Sides, k \in Keys :
    MarkOf(t, side, k) =
      IF Carried(k, ops, side) /\ MarkOf(s, side, k).seq <= seq THEN NoMark
      ELSE MarkOf(s, side, k)

\* The lots of t are those of s with the same operations, but for lot x.
Alike(s, t, x) ==
  /\ Lots(t) = Lots(s) /\ \A i \in Lots(s) : SeqAt(t, i) = SeqAt(s, i)
  /\ \A i \in Lots(s) \ {x} : OpsAt(t, i) = OpsAt(s, i) /\ (i \in Due(t) <=> i \in Due(s))
  /\ \A i \in DOMAIN OpsAt(t, x) : \E j \in DOMAIN OpsAt(s, x) : OpsAt(t, x)[i] = OpsAt(s, x)[j]
  /\ x \in Due(t) => x \in Due(s)

\* The operations of lot x are lost, those of a clear excepted where it stays.
Drops(s, t, x) ==
  /\ x \in Lots(s) /\ Alike(s, t, x) /\ Steady(s, t) /\ Released(s, t, OpsAt(s, x), SeqAt(s, x))
  /\ x \in Due(t) => \A i \in DOMAIN OpsAt(t, x) : Keyless(OpsAt(t, x)[i])
Calm(s, t) ==
  /\ Alike(s, t, 0) /\ Steady(s, t) /\ SameMarks(s, t)
Sent(s, t) ==
  /\ Steady(s, t) /\ SameMarks(s, t)
  /\ Lots(t) = Lots(s) \cup {LastLot(s) + 1}
  /\ \A i \in Lots(s) :
       SeqAt(t, i) = SeqAt(s, i) /\ OpsAt(t, i) = OpsAt(s, i) /\ (i \in Due(t) <=> i \in Due(s))
  /\ OpsAt(t, LastLot(s) + 1) = <<>> /\ SeqAt(t, LastLot(s) + 1) = s.seq
  /\ LastLot(s) + 1 \in Due(t)

LEMMA WorkerFields ==
  ASSUME NEW s \in WorkerSet
  PROVE  /\ s.outbox \in Seq(Entries) /\ s.bytes \in Nat /\ s.sched \in BOOLEAN
         /\ s.chase \in BOOLEAN /\ s.wire \in Seq(Batch) /\ s.window \in Int
         /\ s.del \in [Keys -> Mark] /\ s.write \in [Keys -> Mark] /\ s.seq \in Nat
         /\ s.cursor \in Nat /\ s.clears \in Nat /\ s.out \in Nat /\ s.last \in [Keys -> Nat]
         /\ Len(s.wire) \in Nat /\ DOMAIN s.wire = 1 .. Len(s.wire)
<1>1. s.wire \in Wires /\ s.outbox \in OpLists /\ s.del \in MarkTable /\ s.write \in MarkTable
      /\ s.last \in LastOps
  BY DEF WorkerSet
<1>2. s.wire \in Seq(Batch)
  BY <1>1 DEF Wires
<1>3. Len(s.wire) \in Nat /\ DOMAIN s.wire = 1 .. Len(s.wire)
  BY <1>2
<1> QED BY <1>1, <1>2, <1>3 DEF WorkerSet, OpLists, MarkTable, LastOps

LEMMA BatchFields ==
  ASSUME NEW s \in WorkerSet, NEW i \in DOMAIN s.wire
  PROVE  /\ s.wire[i] \in Batch /\ s.wire[i].ops \in Seq(Entries) /\ s.wire[i].seq \in Nat
         /\ s.wire[i].bytes \in Nat /\ s.wire[i].due \in BOOLEAN /\ s.wire[i].cb \in BOOLEAN
<1>1. s.wire \in Seq(Batch) /\ i \in 1 .. Len(s.wire)
  BY WorkerFields
<1>2. s.wire[i] \in Batch
  BY <1>1
<1> QED BY <1>2 DEF Batch, OpLists

LEMMA LotFacts ==
  ASSUME NEW s \in WorkerSet, NEW i \in Lots(s)
  PROVE  /\ OpsAt(s, i) \in Seq(Entries) /\ SeqAt(s, i) \in Nat /\ i \in Nat
         /\ DOMAIN OpsAt(s, i) = 1 .. Len(OpsAt(s, i)) /\ Len(OpsAt(s, i)) \in Nat
         /\ \A j \in DOMAIN OpsAt(s, i) : OpsAt(s, i)[j] \in Entries
<1>1. OpsAt(s, i) \in Seq(Entries) /\ SeqAt(s, i) \in Nat
  BY WorkerFields, BatchFields DEF OpsAt, SeqAt
<1>2. i \in Nat
  BY WorkerFields DEF Lots
<1>3. \A q \in Seq(Entries) : DOMAIN q = 1 .. Len(q) /\ Len(q) \in Nat /\ \A j \in DOMAIN q : q[j] \in Entries
  OBVIOUS
<1> QED BY <1>1, <1>2, <1>3

LEMMA MarkFacts ==
  ASSUME NEW s \in WorkerSet, NEW side \in Sides, NEW k \in Keys
  PROVE  /\ MarkOf(s, side, k) \in Mark /\ MarkOf(s, side, k).seq \in Nat
         /\ MarkOf(s, side, k).at \in Nat
<1>1. MarkOf(s, side, k) \in Mark
  BY WorkerFields DEF MarkOf
<1> QED BY <1>1 DEF Mark

LEMMA EntryFields ==
  ASSUME NEW e \in Entries
  PROVE  /\ e.op \in OpNames /\ e.seq \in Nat /\ e.at \in Nat /\ e.n \in Nat /\ e.bad \in BOOLEAN
         /\ Keyless(e) => e.key = NoKey /\ e.seq = 0
         /\ ~Keyless(e) => e.key \in Keys
         /\ Keyless(e) <=> e.op \notin {"s", "d"}
BY DEF Entries, OpNames, Keyless

LEMMA ReleaseFacts ==
  ASSUME NEW s \in WorkerSet, NEW ops, NEW n \in Nat, NEW t, t = ReleaseBatchMarks(s, ops, n)
  PROVE  /\ t \in WorkerSet /\ Released(s, t, ops, n)
         /\ t.wire = s.wire /\ t.window = s.window /\ t.outbox = s.outbox
         /\ t.clears = s.clears /\ t.out = s.out /\ Steady(s, t)
<1>1. PICK D : D = [k \in Keys |->
        IF Carried(k, ops, "d") /\ s.del[k].seq <= n THEN NoMark ELSE s.del[k]]
  OBVIOUS
<1>2. PICK W : W = [k \in Keys |->
        IF Carried(k, ops, "s") /\ s.write[k].seq <= n THEN NoMark ELSE s.write[k]]
  OBVIOUS
<1>3. t = [s EXCEPT !.del = D, !.write = W]
  BY <1>1, <1>2 DEF ReleaseBatchMarks
<1>4. NoMark \in Mark /\ s.del \in [Keys -> Mark] /\ s.write \in [Keys -> Mark]
  BY WorkerFields DEF NoMark, Mark
<1>5. D \in MarkTable /\ W \in MarkTable
  BY <1>1, <1>2, <1>4 DEF MarkTable
<1>6. /\ t \in WorkerSet /\ t.del = D /\ t.write = W
      /\ t.wire = s.wire /\ t.window = s.window /\ t.outbox = s.outbox
      /\ t.clears = s.clears /\ t.out = s.out /\ Steady(s, t)
  BY <1>3, <1>5 DEF WorkerSet, Steady
<1>7. Released(s, t, ops, n)
  BY <1>1, <1>2, <1>6 DEF Released, MarkOf, Sides
<1> QED BY <1>6, <1>7

-----------------------------------------------------------------------------
(* flush.                                                                  *)

LEMMA LastFacts ==
  ASSUME NEW s \in WorkerSet
  PROVE  /\ LastLot(s) \in Lots(s) /\ LastLot(s) \notin DOMAIN s.wire /\ LastLot(s) \in Due(s)
         /\ OpsAt(s, LastLot(s)) = s.outbox /\ SeqAt(s, LastLot(s)) = s.seq
         /\ Lots(s) = DOMAIN s.wire \cup {LastLot(s)}
         /\ \A i \in Lots(s) : i <= LastLot(s) /\ i \in Nat
         /\ 0 \notin Lots(s) /\ LastLot(s) \in Nat
<1>1. Len(s.wire) \in Nat /\ DOMAIN s.wire = 1 .. Len(s.wire)
  BY WorkerFields
<1>2. LastLot(s) \in Lots(s) /\ LastLot(s) \notin DOMAIN s.wire
  BY <1>1 DEF LastLot, Lots
<1>3. Lots(s) = DOMAIN s.wire \cup {LastLot(s)}
  BY <1>1 DEF LastLot, Lots
<1>4. \A i \in Lots(s) : i <= LastLot(s) /\ i \in Nat
  BY <1>1 DEF LastLot, Lots
<1>5. 0 \notin Lots(s) /\ LastLot(s) \in Nat
  BY <1>1 DEF LastLot, Lots
<1>6. LastLot(s) \in Due(s) /\ OpsAt(s, LastLot(s)) = s.outbox /\ SeqAt(s, LastLot(s)) = s.seq
  BY <1>2 DEF Due, OpsAt, SeqAt
<1> QED BY <1>2, <1>3, <1>4, <1>5, <1>6

LEMMA WireKept ==
  ASSUME NEW s \in WorkerSet, NEW t \in WorkerSet, t.wire = s.wire
  PROVE  /\ Lots(t) = Lots(s) /\ LastLot(t) = LastLot(s) /\ Due(t) = Due(s)
         /\ \A i \in Lots(s) \ {LastLot(s)} : OpsAt(t, i) = OpsAt(s, i) /\ SeqAt(t, i) = SeqAt(s, i)
<1>1. Lots(t) = Lots(s) /\ LastLot(t) = LastLot(s)
  BY DEF Lots, LastLot
<1>2. Due(t) = Due(s)
  BY <1>1 DEF Due
<1>3. \A i \in Lots(s) \ {LastLot(s)} : i \in DOMAIN s.wire
  BY LastFacts
<1> QED BY <1>1, <1>2, <1>3 DEF OpsAt, SeqAt

LEMMA CalmStep ==
  ASSUME NEW s \in WorkerSet, NEW t \in WorkerSet, t.wire = s.wire, t.outbox = s.outbox,
         Steady(s, t), SameMarks(s, t)
  PROVE  Calm(s, t)
<1>1. /\ Lots(t) = Lots(s) /\ LastLot(t) = LastLot(s) /\ Due(t) = Due(s)
      /\ \A i \in Lots(s) \ {LastLot(s)} : OpsAt(t, i) = OpsAt(s, i) /\ SeqAt(t, i) = SeqAt(s, i)
  BY WireKept
<1>2. OpsAt(t, LastLot(s)) = OpsAt(s, LastLot(s)) /\ SeqAt(t, LastLot(s)) = SeqAt(s, LastLot(s))
  BY <1>1, LastFacts DEF Steady
<1>3. 0 \notin Lots(s) /\ 0 \notin DOMAIN s.wire
  BY LastFacts
<1>4. OpsAt(t, 0) = OpsAt(s, 0)
  BY <1>3 DEF OpsAt
<1> QED BY <1>1, <1>2, <1>3, <1>4 DEF Calm, Alike

LEMMA DropStep ==
  ASSUME NEW s \in WorkerSet, NEW t \in WorkerSet, t.wire = s.wire, Steady(s, t),
         Released(s, t, s.outbox, s.seq),
         \A i \in DOMAIN t.outbox : /\ Keyless(t.outbox[i])
                                    /\ \E j \in DOMAIN s.outbox : t.outbox[i] = s.outbox[j]
  PROVE  Drops(s, t, LastLot(s))
<1>1. /\ Lots(t) = Lots(s) /\ LastLot(t) = LastLot(s) /\ Due(t) = Due(s)
      /\ \A i \in Lots(s) \ {LastLot(s)} : OpsAt(t, i) = OpsAt(s, i) /\ SeqAt(t, i) = SeqAt(s, i)
  BY WireKept
<1>2. /\ LastLot(s) \in Lots(s) /\ OpsAt(s, LastLot(s)) = s.outbox /\ SeqAt(s, LastLot(s)) = s.seq
      /\ OpsAt(t, LastLot(s)) = t.outbox /\ SeqAt(t, LastLot(s)) = t.seq
  BY <1>1, LastFacts
<1>3. Alike(s, t, LastLot(s))
  BY <1>1, <1>2 DEF Alike, Steady
<1> QED BY <1>2, <1>3 DEF Drops

\* The outbox as a batch.
BatchOf(s) == [ops |-> s.outbox, seq |-> s.seq, bytes |-> s.bytes, due |-> TRUE, cb |-> TRUE]

LEMMA SentStep ==
  ASSUME NEW s \in WorkerSet, NEW t \in WorkerSet, Steady(s, t), SameMarks(s, t),
         t.outbox = <<>>, t.wire = Append(s.wire, BatchOf(s))
  PROVE  Sent(s, t)
<1>0. PICK b : b = BatchOf(s)
  OBVIOUS
<1>1. b \in Batch /\ b.ops = s.outbox /\ b.seq = s.seq /\ b.due /\ s.wire \in Seq(Batch)
  BY <1>0, WorkerFields DEF BatchOf, Batch, OpLists
<1>2. /\ Len(t.wire) = Len(s.wire) + 1 /\ t.wire[Len(s.wire) + 1] = b
      /\ \A i \in 1 .. Len(s.wire) : t.wire[i] = s.wire[i]
      /\ Len(s.wire) \in Nat /\ DOMAIN s.wire = 1 .. Len(s.wire)
      /\ DOMAIN t.wire = 1 .. Len(s.wire) + 1
  <2>1. t.wire = Append(s.wire, b)
    BY <1>0
  <2> QED BY <1>1, <2>1
<1>3. Lots(t) = Lots(s) \cup {LastLot(s) + 1}
  BY <1>2 DEF Lots, LastLot
<1>4. ASSUME NEW i \in Lots(s)
      PROVE  /\ SeqAt(t, i) = SeqAt(s, i) /\ OpsAt(t, i) = OpsAt(s, i)
             /\ i \in Due(t) <=> i \in Due(s)
  <2>1. CASE i \in DOMAIN s.wire
    <3>1. i \in DOMAIN t.wire /\ t.wire[i] = s.wire[i] /\ i \in Lots(t)
      BY <1>2, <1>3, <2>1
    <3> QED BY <2>1, <3>1 DEF SeqAt, OpsAt, Due
  <2>2. CASE i = LastLot(s)
    <3>1. i \in DOMAIN t.wire /\ t.wire[i] = b /\ i \in Lots(t) /\ i \notin DOMAIN s.wire
      BY <1>2, <1>3, <2>2 DEF LastLot
    <3> QED BY <1>1, <3>1 DEF SeqAt, OpsAt, Due
  <2> QED BY <2>1, <2>2, LastFacts
<1>5. LastLot(s) + 1 = LastLot(t)
  BY <1>2 DEF LastLot
<1>6. /\ OpsAt(t, LastLot(s) + 1) = <<>> /\ SeqAt(t, LastLot(s) + 1) = s.seq
      /\ LastLot(s) + 1 \in Due(t)
  BY <1>5, LastFacts DEF Steady
<1> QED BY <1>3, <1>4, <1>6 DEF Sent

KeylessAt(s) == {i \in DOMAIN s.outbox : Keyless(s.outbox[i])}
HasBad(s) == \E i \in DOMAIN s.outbox : s.outbox[i].bad

\* The four ends of a flush.
Rests(s, t) == Calm(s, t) /\ t.wire = s.wire /\ t.window = s.window /\ t.outbox = s.outbox
Leaves(s, t, connected) ==
  /\ Sent(s, t) /\ connected /\ ~HasBad(s) /\ t.outbox = <<>>
  /\ t.wire = Append(s.wire, BatchOf(s)) /\ t.window = s.window + s.bytes
IsLost(s, t, connected) ==
  /\ Drops(s, t, LastLot(s)) /\ t.wire = s.wire /\ t.window = s.window
  /\ t.outbox = <<>> /\ (~connected \/ HasBad(s))
IsShed(s, t) ==
  /\ Drops(s, t, LastLot(s)) /\ t.wire = s.wire /\ t.window = s.window
  /\ t.outbox = Kept(s.outbox, KeylessAt(s))

LEMMA OutboxSet ==
  ASSUME NEW v \in WorkerSet, NEW q \in OpLists, NEW t, t = [v EXCEPT !.outbox = q, !.bytes = 0]
  PROVE  /\ t \in WorkerSet /\ t.outbox = q /\ t.wire = v.wire /\ t.window = v.window
         /\ t.clears = v.clears /\ t.out = v.out /\ t.del = v.del /\ t.write = v.write
         /\ t.seq = v.seq /\ t.last = v.last /\ t.cursor = v.cursor
BY DEF WorkerSet

LEMMA FlushEnds ==
  ASSUME NEW s \in WorkerSet, NEW connected \in BOOLEAN, NEW t, t = Flush(s, connected)
  PROVE  /\ t \in WorkerSet /\ t.clears = s.clears /\ t.out = s.out
         /\ \/ Rests(s, t) \/ Leaves(s, t, connected) \/ IsLost(s, t, connected) \/ IsShed(s, t)
<1> DEFINE u == [s EXCEPT !.sched = FALSE]
<1>1. /\ u \in WorkerSet /\ Steady(s, u) /\ SameMarks(s, u) /\ u.wire = s.wire
      /\ u.outbox = s.outbox /\ u.window = s.window /\ u.bytes = s.bytes
      /\ u.clears = s.clears /\ u.out = s.out
  BY DEF WorkerSet, Steady, SameMarks
<1>2. t = u \/ t = Send(u, connected) \/ t = Shed(u)
  BY <1>1, WorkerFields, OutboxAssumption DEF Flush
<1> HIDE DEF u
<1>3. CASE t = u
  BY <1>1, <1>3, CalmStep DEF Rests
<1>4. CASE t = Send(u, connected)
  <2> DEFINE v == [u EXCEPT !.outbox = <<>>, !.bytes = 0]
  <2>1. <<>> \in OpLists
    BY DEF OpLists
  <2>2. /\ v \in WorkerSet /\ Steady(u, v) /\ SameMarks(u, v) /\ v.wire = u.wire
        /\ v.outbox = <<>> /\ v.window = u.window /\ v.clears = u.clears /\ v.out = u.out
    BY <1>1, <2>1 DEF WorkerSet, Steady, SameMarks
  <2>3. CASE ~connected \/ HasBad(s)
    <3>1. t = ReleaseBatchMarks(v, u.outbox, u.seq)
      BY <1>1, <1>4, <2>3 DEF Send, HasBad
    <3> HIDE DEF v
    <3>2. u.seq \in Nat
      BY <1>1, WorkerFields
    <3>3. v \in WorkerSet
      BY <2>2
    <3>8. PICK o, n : o = u.outbox /\ n = u.seq
      OBVIOUS
    <3>9. t = ReleaseBatchMarks(v, o, n) /\ n \in Nat
      BY <3>1, <3>2, <3>8
    <3>4. /\ t \in WorkerSet /\ Released(v, t, o, n)
          /\ t.wire = v.wire /\ t.window = v.window /\ t.outbox = v.outbox
          /\ t.clears = v.clears /\ t.out = v.out /\ Steady(v, t)
      BY <3>3, <3>9, ReleaseFacts
    <3>5. /\ t.wire = s.wire /\ t.window = s.window /\ t.outbox = <<>>
          /\ t.clears = s.clears /\ t.out = s.out /\ Steady(s, t)
      BY <1>1, <2>2, <3>4 DEF Steady
    <3>6. Released(s, t, s.outbox, s.seq)
      BY <1>1, <2>2, <3>4, <3>8 DEF Released, SameMarks, MarkOf, Steady
    <3>7. Drops(s, t, LastLot(s))
      BY <3>4, <3>5, <3>6, DropStep
    <3> QED BY <2>3, <3>4, <3>5, <3>7 DEF IsLost
  <2>4. CASE connected /\ ~HasBad(s)
    <3>1. t = [v EXCEPT !.window = @ + u.bytes, !.wire = Append(@, BatchOf(u))]
      BY <1>1, <1>4, <2>4 DEF Send, HasBad, BatchOf
    <3> HIDE DEF v
    <3>2. PICK x, q : x = s.window + s.bytes /\ q = Append(s.wire, BatchOf(s))
      OBVIOUS
    <3>3. BatchOf(u) = BatchOf(s)
      BY <1>1 DEF BatchOf, Steady
    <3>4. BatchOf(s) \in Batch
      BY WorkerFields DEF BatchOf, Batch, OpLists
    <3>5. x \in Int /\ q \in Wires
      BY <3>2, <3>4, WorkerFields DEF Wires
    <3>6. t = [v EXCEPT !.window = x, !.wire = q]
      BY <1>1, <2>2, <3>1, <3>2, <3>3
    <3>7. /\ t \in WorkerSet /\ t.window = x /\ t.wire = q /\ t.outbox = <<>>
          /\ t.clears = s.clears /\ t.out = s.out /\ Steady(s, t) /\ SameMarks(s, t)
      BY <1>1, <2>2, <3>5, <3>6 DEF WorkerSet, Steady, SameMarks
    <3>8. Sent(s, t)
      BY <3>2, <3>7, SentStep
    <3> QED BY <2>4, <3>2, <3>7, <3>8 DEF Leaves
  <2> QED BY <2>3, <2>4
<1>5. CASE t = Shed(u)
  <2>1. PICK v : v = ReleaseBatchMarks(u, u.outbox, u.seq)
    OBVIOUS
  <2>2. u.seq \in Nat
    BY <1>1, WorkerFields
  <2>3. u \in WorkerSet
    BY <1>1
  <2>13. PICK o, n : o = u.outbox /\ n = u.seq
    OBVIOUS
  <2>14. v = ReleaseBatchMarks(u, o, n) /\ n \in Nat
    BY <2>1, <2>2, <2>13
  <2>4. /\ v \in WorkerSet /\ Released(u, v, o, n)
        /\ v.wire = u.wire /\ v.window = u.window /\ v.outbox = u.outbox
        /\ v.clears = u.clears /\ v.out = u.out /\ Steady(u, v)
    BY <2>3, <2>14, ReleaseFacts
  <2>5. PICK q : q = Kept(s.outbox, KeylessAt(s))
    OBVIOUS
  <2>6. KeylessAt(s) \subseteq 1 .. Len(s.outbox) /\ s.outbox \in Seq(Entries)
    BY WorkerFields DEF KeylessAt
  <2>7. q \in Seq(Entries) /\ \E h : Places(h, q, s.outbox, KeylessAt(s))
    BY <2>5, <2>6, KeptPlaces
  <2>8. t = [v EXCEPT !.outbox = q, !.bytes = 0]
    BY <1>1, <1>5, <2>1, <2>5 DEF Shed, KeylessAt
  <2>9. /\ t \in WorkerSet /\ t.outbox = q /\ t.wire = s.wire /\ t.window = s.window
        /\ t.clears = s.clears /\ t.out = s.out /\ Steady(s, t) /\ t.del = v.del /\ t.write = v.write
    <3>1. q \in OpLists
      BY <2>7 DEF OpLists
    <3>2. /\ t \in WorkerSet /\ t.outbox = q /\ t.wire = v.wire /\ t.window = v.window
          /\ t.clears = v.clears /\ t.out = v.out /\ t.del = v.del /\ t.write = v.write
          /\ t.seq = v.seq /\ t.last = v.last /\ t.cursor = v.cursor
      <4>1. v \in WorkerSet
        BY <2>4
      <4>2. PICK p \in OpLists : p = q
        BY <3>1
      <4>3. t = [v EXCEPT !.outbox = p, !.bytes = 0]
        BY <2>8, <4>2
      <4>4. t \in WorkerSet
        BY <4>1, <4>3, OutboxSet
      <4> QED BY <2>8, <4>1, <4>2, <4>4 DEF WorkerSet
    <3> QED BY <1>1, <2>4, <3>2 DEF Steady
  <2>10. Released(s, t, s.outbox, s.seq)
    BY <1>1, <2>4, <2>9, <2>13 DEF Released, SameMarks, MarkOf, Steady
  <2>11. ASSUME NEW i \in DOMAIN t.outbox
         PROVE  /\ Keyless(t.outbox[i])
                /\ \E j \in DOMAIN s.outbox : t.outbox[i] = s.outbox[j]
    <3>1. PICK h : Places(h, q, s.outbox, KeylessAt(s))
      BY <2>7
    <3>2. i \in 1 .. Len(q)
      BY <2>7, <2>9
    <3>3. h[i] \in KeylessAt(s) /\ q[i] = s.outbox[h[i]]
      BY <3>1, <3>2 DEF Places
    <3> QED BY <2>9, <3>3 DEF KeylessAt
  <2>12. Drops(s, t, LastLot(s))
    BY <2>9, <2>10, <2>11, DropStep
  <2> QED BY <2>5, <2>9, <2>12 DEF IsShed
<1> QED BY <1>2, <1>3, <1>4, <1>5

-----------------------------------------------------------------------------
(* What holds of a worker that reads the ring q when N operations were     *)
(* made.                                                                   *)

At(s, i) == {OpsAt(s, i)[j] : j \in DOMAIN OpsAt(s, i)}

\* No mark is ahead of the sequence or of the ring, no entry ahead of its lot.
Sane(s, q) ==
  /\ s \in WorkerSet /\ q \in Seq(Records) /\ s.cursor <= Len(q)
  /\ \A side \in Sides, k \in Keys :
       MarkOf(s, side, k).seq <= s.seq /\ MarkOf(s, side, k).at <= Len(q)
  /\ \A i \in Lots(s) : \A e \in At(s, i) :
       e.seq <= SeqAt(s, i) /\ (~Keyless(e) => e.n >= 1)

\* The lots are in the order of the operations, and a mark is its operation's.
Ordered(s, N) ==
  /\ \A i, j \in Lots(s) : i < j =>
       /\ \A e \in At(s, j) : e.seq > 0 => e.seq > SeqAt(s, i)
       /\ \A e \in At(s, i), d \in At(s, j) : ~Keyless(e) /\ ~Keyless(d) => e.n < d.n
  /\ \A i \in Lots(s) :
       /\ SeqAt(s, i) <= s.seq
       /\ \A e \in At(s, i) : ~Keyless(e) => e.n <= s.last[e.key]
       /\ \A e \in At(s, i), side \in Sides :
            e.seq > 0 /\ MarkOf(s, side, e.key).seq = e.seq => MarkOf(s, side, e.key).at = e.at
  /\ \A k \in Keys : s.last[k] <= N

Ahead(s, q, k, at) == \E p \in s.cursor + 1 .. Len(q) : q[p] \in {k, FlushAll} /\ p > at
Queued(s, op, k, seq) == \E i \in Due(s) : \E e \in At(s, i) : e.op = op /\ e.key = k /\ e.seq = seq
Anchored(s, q) ==
  \A side \in Sides, k \in Keys :
    LET m == MarkOf(s, side, k) IN
    m = NoMark \/ Queued(s, side, k, m.seq) \/ Ahead(s, q, k, m.at)

Passed(s, q, e) == \E p \in 1 .. s.cursor : q[p] = FlushAll \/ (q[p] = e.key /\ p > e.at)
HasMark(s, e) == \E side \in Sides : MarkOf(s, side, e.key).seq = e.seq
Live(s, q) ==
  \A i \in Due(s) : \A e \in At(s, i) :
    e.seq > 0 /\ e.n = s.last[e.key] => HasMark(s, e) \/ Passed(s, q, e)

\* Marks only go, and entries only go.
Thin(s, t) ==
  /\ t.seq = s.seq /\ t.last = s.last
  /\ Lots(t) = Lots(s) /\ Due(t) \subseteq Due(s)
  /\ \A i \in Lots(s) : SeqAt(t, i) = SeqAt(s, i) /\ At(t, i) \subseteq At(s, i)
  /\ \A side \in Sides, k \in Keys : MarkOf(t, side, k) \in {MarkOf(s, side, k), NoMark}

LEMMA AtFacts ==
  ASSUME NEW s \in WorkerSet, NEW i \in Lots(s), NEW e \in At(s, i)
  PROVE  /\ e \in Entries /\ e.seq \in Nat /\ e.at \in Nat /\ e.n \in Nat /\ SeqAt(s, i) \in Nat
         /\ Keyless(e) => e.seq = 0
         /\ ~Keyless(e) => e.key \in Keys /\ s.last[e.key] \in Nat
         /\ e.seq > 0 => e.key \in Keys /\ ~Keyless(e)
<1>1. e \in Entries /\ SeqAt(s, i) \in Nat
  BY LotFacts DEF At
<1>2. s.last \in [Keys -> Nat]
  BY WorkerFields
<1>3. /\ e.seq \in Nat /\ e.at \in Nat /\ e.n \in Nat
      /\ Keyless(e) => e.seq = 0
      /\ ~Keyless(e) => e.key \in Keys
  BY <1>1, EntryFields
<1> QED BY <1>1, <1>2, <1>3

LEMMA DueLots ==
  ASSUME NEW s
  PROVE  Due(s) \subseteq Lots(s)
BY DEF Due

LEMMA ThinSane ==
  ASSUME NEW s, NEW t \in WorkerSet, NEW q, NEW r \in Seq(Records), Sane(s, q), Thin(s, t),
         Len(q) <= Len(r), t.cursor <= Len(r)
  PROVE  Sane(t, r)
<1>0. s \in WorkerSet /\ Len(q) \in Nat /\ Len(r) \in Nat
  BY DEF Sane
<1>1. ASSUME NEW side \in Sides, NEW k \in Keys
      PROVE  MarkOf(t, side, k).seq <= t.seq /\ MarkOf(t, side, k).at <= Len(r)
  <2>1. MarkOf(s, side, k).seq <= s.seq /\ MarkOf(s, side, k).at <= Len(q)
    BY DEF Sane
  <2>2. MarkOf(s, side, k).at \in Nat
    BY <1>0, MarkFacts
  <2>3. s.seq \in Nat
    BY <1>0, WorkerFields
  <2>4. MarkOf(t, side, k) \in {MarkOf(s, side, k), NoMark} /\ t.seq = s.seq
    BY DEF Thin
  <2> QED BY <1>0, <2>1, <2>2, <2>3, <2>4 DEF NoMark
<1>2. ASSUME NEW i \in Lots(t), NEW e \in At(t, i)
      PROVE  e.seq <= SeqAt(t, i) /\ (~Keyless(e) => e.n >= 1)
  <2>1. i \in Lots(s) /\ e \in At(s, i) /\ SeqAt(t, i) = SeqAt(s, i)
    BY DEF Thin
  <2> QED BY <2>1 DEF Sane
<1> QED BY <1>1, <1>2 DEF Sane

LEMMA ThinOrdered ==
  ASSUME NEW s, s \in WorkerSet, NEW t \in WorkerSet, NEW N, Ordered(s, N), Thin(s, t)
  PROVE  Ordered(t, N)
<1>0. /\ t.seq = s.seq /\ t.last = s.last /\ Lots(t) = Lots(s)
      /\ \A i \in Lots(s) : SeqAt(t, i) = SeqAt(s, i) /\ At(t, i) \subseteq At(s, i)
      /\ \A side \in Sides, k \in Keys : MarkOf(t, side, k) \in {MarkOf(s, side, k), NoMark}
  BY DEF Thin
<1>1. ASSUME NEW i \in Lots(t), NEW j \in Lots(t), i < j
      PROVE  /\ \A e \in At(t, j) : e.seq > 0 => e.seq > SeqAt(t, i)
             /\ \A e \in At(t, i), d \in At(t, j) : ~Keyless(e) /\ ~Keyless(d) => e.n < d.n
  <2>1. /\ \A e \in At(s, j) : e.seq > 0 => e.seq > SeqAt(s, i)
        /\ \A e \in At(s, i), d \in At(s, j) : ~Keyless(e) /\ ~Keyless(d) => e.n < d.n
    BY <1>0, <1>1 DEF Ordered
  <2> QED BY <1>0, <2>1
<1>2. ASSUME NEW i \in Lots(t)
      PROVE  SeqAt(t, i) <= t.seq /\ \A e \in At(t, i) : ~Keyless(e) => e.n <= t.last[e.key]
  <2>1. SeqAt(s, i) <= s.seq /\ \A e \in At(s, i) : ~Keyless(e) => e.n <= s.last[e.key]
    BY <1>0 DEF Ordered
  <2> QED BY <1>0, <2>1
<1>3. ASSUME NEW i \in Lots(t), NEW e \in At(t, i), NEW side \in Sides,
             e.seq > 0, MarkOf(t, side, e.key).seq = e.seq
      PROVE  MarkOf(t, side, e.key).at = e.at
  <2>1. i \in Lots(s) /\ e \in At(s, i)
    BY <1>0
  <2>2. e.key \in Keys
    BY <1>3, <2>1, AtFacts
  <2>3. e.seq # 0
    BY <1>3, <2>1, AtFacts
  <2>4. MarkOf(t, side, e.key) = MarkOf(s, side, e.key)
    BY <1>0, <1>3, <2>2, <2>3 DEF NoMark
  <2>5. MarkOf(s, side, e.key).seq = e.seq => MarkOf(s, side, e.key).at = e.at
    BY <1>3, <2>1 DEF Ordered
  <2> QED BY <1>3, <2>4, <2>5
<1>4. \A k \in Keys : t.last[k] <= N
  BY <1>0 DEF Ordered
<1> QED BY <1>1, <1>2, <1>3, <1>4 DEF Ordered

LEMMA AlikeAt ==
  ASSUME NEW s, NEW t, NEW x, Alike(s, t, x)
  PROVE  /\ Lots(t) = Lots(s) /\ Due(t) \subseteq Due(s)
         /\ \A i \in Lots(s) : SeqAt(t, i) = SeqAt(s, i) /\ At(t, i) \subseteq At(s, i)
         /\ \A i \in Lots(s) \ {x} : At(t, i) = At(s, i) /\ (i \in Due(t) <=> i \in Due(s))
<1>1. \A i \in Lots(s) \ {x} : At(t, i) = At(s, i) /\ (i \in Due(t) <=> i \in Due(s))
  BY DEF Alike, At
<1>2. At(t, x) \subseteq At(s, x)
  BY DEF Alike, At
<1>3. Lots(t) = Lots(s) /\ \A i \in Lots(s) : SeqAt(t, i) = SeqAt(s, i)
  BY DEF Alike
<1>4. Due(t) \subseteq Due(s)
  <2> SUFFICES ASSUME NEW i \in Due(t) PROVE i \in Due(s)
    OBVIOUS
  <2>1. i \in Lots(s)
    BY <1>3, DueLots
  <2> QED BY <1>1, <2>1 DEF Alike
<1> QED BY <1>1, <1>2, <1>3, <1>4

LEMMA CalmThin ==
  ASSUME NEW s, NEW t, Calm(s, t)
  PROVE  Thin(s, t)
<1>1. \A side \in Sides, k \in Keys : MarkOf(t, side, k) = MarkOf(s, side, k)
  BY DEF Calm, SameMarks, MarkOf
<1> QED BY <1>1, AlikeAt DEF Calm, Thin, Steady

LEMMA DropThin ==
  ASSUME NEW s, NEW t, NEW x, Drops(s, t, x)
  PROVE  Thin(s, t)
<1>1. \A side \in Sides, k \in Keys : MarkOf(t, side, k) \in {MarkOf(s, side, k), NoMark}
  BY DEF Drops, Released
<1> QED BY <1>1, AlikeAt DEF Drops, Thin, Steady

-----------------------------------------------------------------------------
(* The steps of a flush keep what holds of a worker.                       *)

LEMMA CalmAnchored ==
  ASSUME NEW s \in WorkerSet, NEW t, NEW q, Calm(s, t), Anchored(s, q)
  PROVE  Anchored(t, q)
<1>1. \A i \in Lots(s) : At(t, i) = At(s, i) /\ (i \in Due(t) <=> i \in Due(s))
  <2>1. 0 \notin Lots(s)
    BY LastFacts
  <2> QED BY <2>1, AlikeAt DEF Calm
<1>2. Due(t) \subseteq Lots(s) /\ Due(s) \subseteq Lots(s)
  BY DueLots DEF Calm, Alike
<1>3. Due(t) = Due(s) /\ \A i \in Due(s) : At(t, i) = At(s, i)
  BY <1>1, <1>2
<1>4. \A op, k, n : Queued(t, op, k, n) <=> Queued(s, op, k, n)
  BY <1>3 DEF Queued
<1>5. t.cursor = s.cursor /\ \A side \in Sides, k \in Keys : MarkOf(t, side, k) = MarkOf(s, side, k)
  BY DEF Calm, Steady, SameMarks, MarkOf
<1> QED BY <1>4, <1>5 DEF Anchored, Ahead

LEMMA CalmLive ==
  ASSUME NEW s, s \in WorkerSet, NEW t, NEW q, Calm(s, t), Live(s, q)
  PROVE  Live(t, q)
<1>1. \A i \in Lots(s) : At(t, i) \subseteq At(s, i) /\ (i \in Due(t) => i \in Due(s))
  BY AlikeAt DEF Calm
<1>2. Due(t) \subseteq Lots(s)
  BY DueLots DEF Calm, Alike
<1>3. t.cursor = s.cursor /\ t.del = s.del /\ t.write = s.write /\ t.last = s.last
  BY DEF Calm, Steady, SameMarks
<1> SUFFICES ASSUME NEW i \in Due(t), NEW e \in At(t, i), e.seq > 0, e.n = t.last[e.key]
             PROVE  HasMark(t, e) \/ Passed(t, q, e)
  BY DEF Live
<1>4. i \in Due(s) /\ e \in At(s, i)
  BY <1>1, <1>2
<1>5. HasMark(s, e) \/ Passed(s, q, e)
  BY <1>3, <1>4 DEF Live
<1> QED BY <1>3, <1>5 DEF HasMark, MarkOf, Passed

LEMMA DropAnchored ==
  ASSUME NEW s, NEW t, NEW q, NEW x, Sane(s, q), Drops(s, t, x), Anchored(s, q)
  PROVE  Anchored(t, q)
<1>0. /\ t.cursor = s.cursor /\ Released(s, t, OpsAt(s, x), SeqAt(s, x)) /\ x \in Lots(s)
      /\ \A i \in Lots(s) \ {x} : At(t, i) = At(s, i) /\ (i \in Due(t) <=> i \in Due(s))
  BY AlikeAt DEF Drops, Steady
<1> SUFFICES ASSUME NEW side \in Sides, NEW k \in Keys, NEW m, m = MarkOf(t, side, k), m # NoMark
             PROVE  Queued(t, side, k, m.seq) \/ Ahead(t, q, k, m.at)
  BY DEF Anchored
<1>1. m = MarkOf(s, side, k) /\ ~(Carried(k, OpsAt(s, x), side) /\ m.seq <= SeqAt(s, x))
  BY <1>0 DEF Released
<1>2. CASE Ahead(s, q, k, m.at)
  BY <1>0, <1>2 DEF Ahead
<1>3. CASE Queued(s, side, k, m.seq)
  <2>1. PICK i \in Due(s) : \E e \in At(s, i) : e.op = side /\ e.key = k /\ e.seq = m.seq
    BY <1>3 DEF Queued
  <2>2. PICK e \in At(s, i) : e.op = side /\ e.key = k /\ e.seq = m.seq
    BY <2>1
  <2>3. i \in Lots(s)
    BY DueLots
  <2>4. i # x
    <3> SUFFICES ASSUME i = x PROVE FALSE
      OBVIOUS
    <3>1. Carried(k, OpsAt(s, x), side)
      BY <2>2 DEF At, Carried
    <3>2. e.seq <= SeqAt(s, x)
      BY <1>0 DEF Sane
    <3> QED BY <1>1, <2>2, <3>1, <3>2
  <2>5. i \in Due(t) /\ e \in At(t, i)
    BY <1>0, <2>3, <2>4
  <2> QED BY <2>2, <2>5 DEF Queued
<1> QED BY <1>1, <1>2, <1>3 DEF Anchored

LEMMA DropLive ==
  ASSUME NEW s, NEW t, NEW q, NEW N, NEW x, Sane(s, q), t \in WorkerSet, Ordered(s, N),
         Drops(s, t, x), Live(s, q)
  PROVE  Live(t, q)
<1>0. /\ t.cursor = s.cursor /\ t.last = s.last
      /\ Released(s, t, OpsAt(s, x), SeqAt(s, x)) /\ x \in Lots(s) /\ Lots(t) = Lots(s)
      /\ \A i \in Lots(s) \ {x} : At(t, i) = At(s, i) /\ (i \in Due(t) <=> i \in Due(s))
      /\ s \in WorkerSet
  BY AlikeAt DEF Drops, Steady, Sane
<1> SUFFICES ASSUME NEW i \in Due(t), NEW e \in At(t, i), e.seq > 0, e.n = t.last[e.key]
             PROVE  HasMark(t, e) \/ Passed(t, q, e)
  BY DEF Live
<1>1. i \in Lots(t) /\ i \in Lots(s)
  BY <1>0, DueLots
<1>2. ~Keyless(e) /\ e.key \in Keys
  BY <1>1, AtFacts
<1>3. i # x
  <2> SUFFICES ASSUME i = x PROVE FALSE
    OBVIOUS
  <2>1. \A j \in DOMAIN OpsAt(t, x) : Keyless(OpsAt(t, x)[j])
    BY DEF Drops
  <2> QED BY <1>2, <2>1 DEF At
<1>4. i \in Due(s) /\ e \in At(s, i)
  BY <1>0, <1>1, <1>3
<1>5. CASE Passed(s, q, e)
  BY <1>0, <1>5 DEF Passed
<1>6. CASE HasMark(s, e)
  <2>1. PICK side \in Sides : MarkOf(s, side, e.key).seq = e.seq
    BY <1>6 DEF HasMark
  <2>2. ASSUME Carried(e.key, OpsAt(s, x), side), e.seq <= SeqAt(s, x) PROVE FALSE
    <3>1. PICK j \in DOMAIN OpsAt(s, x) : OpsAt(s, x)[j].op = side /\ OpsAt(s, x)[j].key = e.key
      BY <2>2 DEF Carried
    <3>2. PICK d \in At(s, x) : d.op = side /\ d.key = e.key
      BY <3>1 DEF At
    <3>3. ~Keyless(d)
      BY <3>2 DEF Keyless, Sides
    <3>4. i \in Nat /\ x \in Nat
      BY <1>0, <1>1, LotFacts
    <3>5. CASE x < i
      <4>1. e.seq > SeqAt(s, x)
        BY <1>0, <1>1, <1>4, <3>5 DEF Ordered
      <4>2. e.seq \in Nat /\ SeqAt(s, x) \in Nat
        BY <1>0, <1>1, <1>4, AtFacts, LotFacts
      <4> QED BY <2>2, <4>1, <4>2
    <3>6. CASE i < x
      <4>1. e.n < d.n
        BY <1>0, <1>1, <1>2, <1>4, <3>3, <3>6 DEF Ordered
      <4>2. d.n <= s.last[d.key]
        BY <1>0, <3>3 DEF Ordered
      <4>3. e.n \in Nat /\ d.n \in Nat /\ e.n = s.last[d.key]
        BY <1>0, <1>1, <1>4, <3>2, AtFacts
      <4> QED BY <4>1, <4>2, <4>3
    <3> QED BY <1>3, <3>4, <3>5, <3>6
  <2>3. MarkOf(t, side, e.key) = MarkOf(s, side, e.key)
    BY <1>0, <1>2, <2>1, <2>2 DEF Released
  <2> QED BY <2>1, <2>3 DEF HasMark
<1>7. HasMark(s, e) \/ Passed(s, q, e)
  BY <1>0, <1>4 DEF Live
<1> QED BY <1>5, <1>6, <1>7

\* The outbox as a batch: a new lot, and empty.
LEMMA SentAt ==
  ASSUME NEW s \in WorkerSet, NEW t, Sent(s, t)
  PROVE  /\ Lots(t) = Lots(s) \cup {LastLot(s) + 1} /\ LastLot(s) + 1 \notin Lots(s)
         /\ \A i \in Lots(s) : /\ SeqAt(t, i) = SeqAt(s, i) /\ At(t, i) = At(s, i)
                               /\ i \in Due(t) <=> i \in Due(s)
         /\ At(t, LastLot(s) + 1) = {} /\ SeqAt(t, LastLot(s) + 1) = s.seq
         /\ Due(t) = Due(s) \cup {LastLot(s) + 1}
         /\ \A i \in Lots(s) : i \in Nat /\ i <= LastLot(s)
         /\ LastLot(s) \in Nat
<1>1. /\ Lots(t) = Lots(s) \cup {LastLot(s) + 1} /\ SeqAt(t, LastLot(s) + 1) = s.seq
      /\ \A i \in Lots(s) : /\ SeqAt(t, i) = SeqAt(s, i) /\ At(t, i) = At(s, i)
                            /\ i \in Due(t) <=> i \in Due(s)
      /\ LastLot(s) + 1 \in Due(t)
  BY DEF Sent, At
<1>2. At(t, LastLot(s) + 1) = {}
  BY DEF Sent, At
<1>3. (\A i \in Lots(s) : i \in Nat /\ i <= LastLot(s)) /\ LastLot(s) \in Nat
  BY LastFacts
<1>4. LastLot(s) + 1 \notin Lots(s)
  BY <1>3
<1>5. Due(t) \subseteq Lots(t) /\ Due(s) \subseteq Lots(s)
  BY DueLots
<1>6. Due(t) = Due(s) \cup {LastLot(s) + 1}
  BY <1>1, <1>5
<1> QED BY <1>1, <1>2, <1>3, <1>4, <1>6

LEMMA SentSane ==
  ASSUME NEW s, NEW t \in WorkerSet, NEW q, Sane(s, q), Sent(s, t)
  PROVE  Sane(t, q)
<1>0. s \in WorkerSet /\ t.seq = s.seq /\ t.cursor = s.cursor
  BY DEF Sane, Sent, Steady
<1>1. \A side \in Sides, k \in Keys : MarkOf(t, side, k) = MarkOf(s, side, k)
  BY DEF Sent, SameMarks, MarkOf
<1>2. ASSUME NEW i \in Lots(t), NEW e \in At(t, i)
      PROVE  e.seq <= SeqAt(t, i) /\ (~Keyless(e) => e.n >= 1)
  <2>1. i \in Lots(s) /\ e \in At(s, i) /\ SeqAt(t, i) = SeqAt(s, i)
    BY <1>0, SentAt
  <2> QED BY <2>1 DEF Sane
<1> QED BY <1>0, <1>1, <1>2 DEF Sane

LEMMA SentOrdered ==
  ASSUME NEW s \in WorkerSet, NEW t \in WorkerSet, NEW N, Ordered(s, N), Sent(s, t)
  PROVE  Ordered(t, N)
<1>0. t.seq = s.seq /\ t.last = s.last /\ s.seq \in Nat
  BY WorkerFields DEF Sent, Steady
<1>1. \A side \in Sides, k \in Keys : MarkOf(t, side, k) = MarkOf(s, side, k)
  BY DEF Sent, SameMarks, MarkOf
<1>2. \A i \in Lots(t) : \A e \in At(t, i) : i \in Lots(s) /\ e \in At(s, i) /\ SeqAt(t, i) = SeqAt(s, i)
  BY SentAt
<1>3. ASSUME NEW i \in Lots(t), NEW j \in Lots(t), i < j
      PROVE  /\ \A e \in At(t, j) : e.seq > 0 => e.seq > SeqAt(t, i)
             /\ \A e \in At(t, i), d \in At(t, j) : ~Keyless(e) /\ ~Keyless(d) => e.n < d.n
  <2>1. CASE j = LastLot(s) + 1
    BY <2>1, SentAt
  <2>2. CASE j # LastLot(s) + 1
    <3>1. i \in Lots(s) /\ j \in Lots(s)
      <4>1. j \in Lots(s)
        BY <2>2, SentAt
      <4>2. j <= LastLot(s) /\ j \in Nat /\ LastLot(s) \in Nat
        BY <4>1, SentAt
      <4>3. i # LastLot(s) + 1
        BY <1>3, <4>2
      <4> QED BY <4>1, <4>3, SentAt
    <3>2. /\ \A e \in At(s, j) : e.seq > 0 => e.seq > SeqAt(s, i)
          /\ \A e \in At(s, i), d \in At(s, j) : ~Keyless(e) /\ ~Keyless(d) => e.n < d.n
      BY <1>3, <3>1 DEF Ordered
    <3>3. At(t, i) = At(s, i) /\ At(t, j) = At(s, j) /\ SeqAt(t, i) = SeqAt(s, i)
      BY <3>1, SentAt
    <3> QED BY <3>2, <3>3
  <2> QED BY <2>1, <2>2
<1>4. ASSUME NEW i \in Lots(t)
      PROVE  SeqAt(t, i) <= t.seq /\ \A e \in At(t, i) : ~Keyless(e) => e.n <= t.last[e.key]
  <2>1. SeqAt(t, i) <= s.seq
    <3>1. CASE i \in Lots(s)
      BY <3>1, SentAt DEF Ordered
    <3>2. CASE i = LastLot(s) + 1
      BY <1>0, <3>2, SentAt
    <3> QED BY <3>1, <3>2, SentAt
  <2> QED BY <1>0, <1>2, <2>1 DEF Ordered
<1>5. ASSUME NEW i \in Lots(t), NEW e \in At(t, i), NEW side \in Sides,
             e.seq > 0, MarkOf(t, side, e.key).seq = e.seq
      PROVE  MarkOf(t, side, e.key).at = e.at
  <2>1. i \in Lots(s) /\ e \in At(s, i)
    BY <1>2
  <2>2. e.key \in Keys
    BY <1>5, <2>1, AtFacts
  <2>3. MarkOf(s, side, e.key).seq = e.seq => MarkOf(s, side, e.key).at = e.at
    BY <1>5, <2>1 DEF Ordered
  <2> QED BY <1>1, <1>5, <2>2, <2>3
<1>6. \A k \in Keys : t.last[k] <= N
  BY <1>0 DEF Ordered
<1> QED BY <1>3, <1>4, <1>5, <1>6 DEF Ordered

LEMMA SentAnchored ==
  ASSUME NEW s \in WorkerSet, NEW t, NEW q, Sent(s, t), Anchored(s, q)
  PROVE  Anchored(t, q)
<1>1. t.cursor = s.cursor /\ \A side \in Sides, k \in Keys : MarkOf(t, side, k) = MarkOf(s, side, k)
  BY DEF Sent, Steady, SameMarks, MarkOf
<1>2. \A i \in Due(s) : i \in Due(t) /\ At(t, i) = At(s, i)
  BY SentAt, DueLots
<1>3. \A op, k, n : Queued(s, op, k, n) => Queued(t, op, k, n)
  BY <1>2 DEF Queued
<1> QED BY <1>1, <1>3 DEF Anchored, Ahead

LEMMA SentLive ==
  ASSUME NEW s \in WorkerSet, NEW t, NEW q, Sent(s, t), Live(s, q)
  PROVE  Live(t, q)
<1>1. t.cursor = s.cursor /\ t.del = s.del /\ t.write = s.write /\ t.last = s.last
  BY DEF Sent, Steady, SameMarks
<1> SUFFICES ASSUME NEW i \in Due(t), NEW e \in At(t, i), e.seq > 0, e.n = t.last[e.key]
             PROVE  HasMark(t, e) \/ Passed(t, q, e)
  BY DEF Live
<1>2. i \in Due(s) /\ e \in At(s, i)
  BY SentAt, DueLots
<1>3. HasMark(s, e) \/ Passed(s, q, e)
  BY <1>1, <1>2 DEF Live
<1> QED BY <1>1, <1>3 DEF HasMark, MarkOf, Passed

\* All that is asked of a worker whose process runs.
Fit(s, q, N) == Sane(s, q) /\ Ordered(s, N) /\ Live(s, q)

LEMMA DropFit ==
  ASSUME NEW s, NEW t \in WorkerSet, NEW q, NEW N, NEW x, Drops(s, t, x), Fit(s, q, N)
  PROVE  Fit(t, q, N) /\ (Anchored(s, q) => Anchored(t, q))
<1>1. /\ Sane(s, q) /\ s \in WorkerSet /\ q \in Seq(Records) /\ Len(q) \in Nat /\ s.cursor <= Len(q)
      /\ Ordered(s, N) /\ Live(s, q)
  BY DEF Fit, Sane
<1>2. Thin(s, t) /\ t.cursor <= Len(q)
  BY <1>1, DropThin DEF Drops, Steady
<1>3. Sane(t, q)
  BY <1>1, <1>2, ThinSane
<1> QED BY <1>1, <1>2, <1>3, ThinOrdered, DropAnchored, DropLive DEF Fit

LEMMA FlushFit ==
  ASSUME NEW s, NEW q, NEW N, Fit(s, q, N), NEW connected \in BOOLEAN,
         NEW t, t = Flush(s, connected)
  PROVE  /\ Fit(t, q, N) /\ (Anchored(s, q) => Anchored(t, q))
         /\ t \in WorkerSet /\ Steady(s, t)
<1>1. /\ Sane(s, q) /\ s \in WorkerSet /\ q \in Seq(Records) /\ Len(q) \in Nat /\ s.cursor <= Len(q)
      /\ Ordered(s, N) /\ Live(s, q)
  BY DEF Fit, Sane
<1>2. /\ t \in WorkerSet
      /\ Calm(s, t) \/ Sent(s, t) \/ Drops(s, t, LastLot(s))
  BY <1>1, FlushEnds DEF Rests, Leaves, IsLost, IsShed
<1>3. Steady(s, t)
  BY <1>2 DEF Calm, Sent, Drops
<1>4. CASE Calm(s, t)
  <2>1. Thin(s, t) /\ t.cursor <= Len(q)
    BY <1>1, <1>3, <1>4, CalmThin DEF Steady
  <2>2. Sane(t, q)
    BY <1>1, <1>2, <2>1, ThinSane
  <2> QED BY <1>1, <1>2, <1>3, <1>4, <2>1, <2>2, ThinOrdered, CalmAnchored, CalmLive DEF Fit
<1>5. CASE Sent(s, t)
  BY <1>1, <1>2, <1>3, <1>5, SentSane, SentOrdered, SentAnchored, SentLive DEF Fit
<1>6. CASE Drops(s, t, LastLot(s))
  BY <1>2, <1>3, <1>6, DropFit
<1> QED BY <1>2, <1>4, <1>5, <1>6

-----------------------------------------------------------------------------
(* The ring grows, a batch is delivered, records are drained, a process    *)
(* dies.                                                                   *)

LEMMA GrowFit ==
  ASSUME NEW s, NEW q, NEW N, NEW r \in Seq(Records), Extends(r, q), Fit(s, q, N)
  PROVE  Fit(s, r, N) /\ (Anchored(s, q) => Anchored(s, r))
<1>1. /\ s \in WorkerSet /\ Len(q) \in Nat /\ Len(r) \in Nat /\ s.cursor <= Len(q)
      /\ Len(q) <= Len(r) /\ \A p \in 1 .. Len(q) : r[p] = q[p]
      /\ s.cursor \in Nat
  BY WorkerFields DEF Fit, Sane, Extends
<1>2. ASSUME NEW side \in Sides, NEW k \in Keys PROVE MarkOf(s, side, k).at <= Len(r)
  <2>1. MarkOf(s, side, k).at <= Len(q) /\ MarkOf(s, side, k).at \in Nat
    BY <1>1, MarkFacts DEF Fit, Sane
  <2> QED BY <1>1, <2>1
<1>3. s.cursor <= Len(r)
  BY <1>1
<1>4. Sane(s, r)
  BY <1>2, <1>3 DEF Fit, Sane
<1>5. \A e : Passed(s, q, e) => Passed(s, r, e)
  BY <1>1 DEF Passed
<1>6. Live(s, r)
  BY <1>5 DEF Fit, Live
<1>7. \A k, at : Ahead(s, q, k, at) => Ahead(s, r, k, at)
  BY <1>1 DEF Ahead
<1>8. Anchored(s, q) => Anchored(s, r)
  BY <1>7 DEF Anchored
<1> QED BY <1>4, <1>6, <1>8 DEF Fit

\* Batch x has been delivered and is as it was otherwise.
Delivered(s, t, x) ==
  /\ Steady(s, t) /\ SameMarks(s, t) /\ x \in DOMAIN s.wire /\ x \in Due(s)
  /\ Lots(t) = Lots(s) /\ Due(t) = Due(s) \ {x}
  /\ \A i \in Lots(s) : SeqAt(t, i) = SeqAt(s, i) /\ OpsAt(t, i) = OpsAt(s, i)

LEMMA DeliverFit ==
  ASSUME NEW s, NEW t \in WorkerSet, NEW x, Delivered(s, t, x), NEW q, NEW N, Fit(s, q, N),
         NEW r \in Seq(Records), Extends(r, q),
         \A e \in At(s, x) : ~Keyless(e) => \E p \in Len(q) + 1 .. Len(r) : r[p] = e.key
  PROVE  Fit(t, r, N) /\ (Anchored(s, q) => Anchored(t, r))
<1>0. Fit(s, r, N) /\ (Anchored(s, q) => Anchored(s, r))
  BY GrowFit
<1>1. /\ s \in WorkerSet /\ Len(q) \in Nat /\ Len(r) \in Nat /\ s.cursor <= Len(q)
      /\ Len(q) <= Len(r) /\ s.cursor \in Nat /\ t.cursor = s.cursor /\ t.last = s.last
      /\ t.cursor <= Len(r)
  BY WorkerFields DEF Fit, Sane, Extends, Delivered, Steady
<1>2. \A side \in Sides, k \in Keys : MarkOf(t, side, k) = MarkOf(s, side, k)
  BY DEF Delivered, SameMarks, MarkOf
<1>3. /\ Lots(t) = Lots(s) /\ Due(t) = Due(s) \ {x} /\ Due(s) \subseteq Lots(s)
      /\ \A i \in Lots(s) : SeqAt(t, i) = SeqAt(s, i) /\ At(t, i) = At(s, i)
  BY DueLots DEF Delivered, At
<1>4. Thin(s, t)
  BY <1>2, <1>3 DEF Thin, Delivered, Steady
<1>5. Sane(t, r) /\ Ordered(t, N)
  BY <1>0, <1>1, <1>4, ThinSane, ThinOrdered DEF Fit
<1>6. ASSUME NEW i \in Due(t), NEW e \in At(t, i), e.seq > 0, e.n = t.last[e.key]
      PROVE  HasMark(t, e) \/ Passed(t, r, e)
  <2>1. i \in Due(s) /\ i \in Lots(s) /\ e \in At(s, i)
    BY <1>3
  <2>2. HasMark(s, e) \/ Passed(s, r, e)
    BY <1>0, <1>1, <1>6, <2>1 DEF Fit, Live
  <2>3. e.key \in Keys
    BY <1>1, <1>6, <2>1, AtFacts
  <2> QED BY <1>1, <1>2, <2>2, <2>3 DEF HasMark, Passed
<1>7. Live(t, r)
  BY <1>6 DEF Live
<1>8. ASSUME Anchored(s, q), NEW side \in Sides, NEW k \in Keys, NEW m,
             m = MarkOf(t, side, k), m # NoMark
      PROVE  Queued(t, side, k, m.seq) \/ Ahead(t, r, k, m.at)
  <2>1. m = MarkOf(s, side, k)
    BY <1>2, <1>8
  <2>2. m.at <= Len(q) /\ m.at \in Nat
    BY <1>1, <2>1, MarkFacts DEF Fit, Sane
  <2>3. Queued(s, side, k, m.seq) \/ Ahead(s, r, k, m.at)
    BY <1>0, <1>8, <2>1 DEF Anchored
  <2>4. CASE Ahead(s, r, k, m.at)
    BY <1>1, <2>4 DEF Ahead
  <2>5. CASE Queued(s, side, k, m.seq)
    <3>1. PICK i \in Due(s) : \E e \in At(s, i) : e.op = side /\ e.key = k /\ e.seq = m.seq
      BY <2>5 DEF Queued
    <3>2. PICK e \in At(s, i) : e.op = side /\ e.key = k /\ e.seq = m.seq
      BY <3>1
    <3>3. CASE i = x
      <4>1. ~Keyless(e)
        BY <3>2 DEF Keyless, Sides
      <4>2. PICK p \in Len(q) + 1 .. Len(r) : r[p] = k
        BY <3>2, <3>3, <4>1
      <4>3. p \in t.cursor + 1 .. Len(r) /\ p > m.at
        BY <1>1, <2>2
      <4> QED BY <4>2, <4>3 DEF Ahead
    <3>4. CASE i # x
      <4>1. i \in Due(t) /\ e \in At(t, i)
        BY <1>3, <3>4
      <4> QED BY <3>2, <4>1 DEF Queued
    <3> QED BY <3>3, <3>4
  <2> QED BY <2>3, <2>4, <2>5
<1>9. Anchored(s, q) => Anchored(t, r)
  BY <1>8 DEF Anchored
<1> QED BY <1>5, <1>7, <1>9 DEF Fit

\* A record that a drain meets and that releases the mark m of k.
Met(s, q, k, m) ==
  \E i \in (s.cursor + 1) .. Len(q) : q[i] = FlushAll \/ (q[i] = k /\ i > m.at)
Drained(s, t, q) ==
  /\ t.seq = s.seq /\ t.last = s.last /\ t.cursor = Len(q)
  /\ t.wire = s.wire /\ t.outbox = s.outbox
  /\ \A side \in Sides, k \in Keys :
       MarkOf(t, side, k) =
         IF Met(s, q, k, MarkOf(s, side, k)) THEN NoMark ELSE MarkOf(s, side, k)

LEMMA SameLots ==
  ASSUME NEW s, NEW t, t.wire = s.wire, t.outbox = s.outbox, t.seq = s.seq
  PROVE  /\ Lots(t) = Lots(s) /\ Due(t) = Due(s)
         /\ \A i : SeqAt(t, i) = SeqAt(s, i) /\ OpsAt(t, i) = OpsAt(s, i) /\ At(t, i) = At(s, i)
<1>1. \A i : SeqAt(t, i) = SeqAt(s, i) /\ OpsAt(t, i) = OpsAt(s, i)
  BY DEF SeqAt, OpsAt
<1>2. \A i : At(t, i) = At(s, i)
  BY <1>1 DEF At
<1>3. Lots(t) = Lots(s)
  BY DEF Lots
<1> QED BY <1>1, <1>2, <1>3 DEF Due

LEMMA DrainFit ==
  ASSUME NEW s, NEW t \in WorkerSet, NEW q, NEW N, Drained(s, t, q), Fit(s, q, N)
  PROVE  Fit(t, q, N) /\ (Anchored(s, q) => Anchored(t, q))
<1>1. /\ s \in WorkerSet /\ q \in Seq(Records) /\ Len(q) \in Nat
      /\ s.cursor \in Nat /\ s.cursor <= Len(q)
      /\ t.cursor = Len(q) /\ t.last = s.last /\ t.seq = s.seq
  BY WorkerFields DEF Fit, Sane, Drained
<1>2. /\ Lots(t) = Lots(s) /\ Due(t) = Due(s)
      /\ \A i : SeqAt(t, i) = SeqAt(s, i) /\ At(t, i) = At(s, i)
  BY SameLots DEF Drained
<1>3. \A side \in Sides, k \in Keys : MarkOf(t, side, k) \in {MarkOf(s, side, k), NoMark}
  BY DEF Drained
<1>4. Thin(s, t) /\ t.cursor <= Len(q)
  BY <1>1, <1>2, <1>3 DEF Thin
<1>5. Sane(t, q) /\ Ordered(t, N)
  BY <1>1, <1>4, ThinSane, ThinOrdered DEF Fit
<1>6. ASSUME NEW i \in Due(t), NEW e \in At(t, i), e.seq > 0, e.n = t.last[e.key]
      PROVE  HasMark(t, e) \/ Passed(t, q, e)
  <2>1. i \in Due(s) /\ i \in Lots(s) /\ e \in At(s, i)
    BY <1>2, DueLots
  <2>2. e.key \in Keys
    BY <1>1, <1>6, <2>1, AtFacts
  <2>3. CASE Passed(s, q, e)
    BY <1>1, <2>3 DEF Passed
  <2>4. CASE HasMark(s, e)
    <3>1. PICK side \in Sides : MarkOf(s, side, e.key).seq = e.seq
      BY <2>4 DEF HasMark
    <3>2. MarkOf(s, side, e.key).at = e.at
      BY <1>6, <2>1, <3>1 DEF Fit, Ordered
    <3>3. CASE Met(s, q, e.key, MarkOf(s, side, e.key))
      <4>1. PICK p \in (s.cursor + 1) .. Len(q) : q[p] = FlushAll \/ (q[p] = e.key /\ p > e.at)
        BY <3>2, <3>3 DEF Met
      <4>2. p \in 1 .. t.cursor
        BY <1>1
      <4> QED BY <4>1, <4>2 DEF Passed
    <3>4. CASE ~Met(s, q, e.key, MarkOf(s, side, e.key))
      BY <2>2, <3>1, <3>4 DEF Drained, HasMark
    <3> QED BY <3>3, <3>4
  <2>5. HasMark(s, e) \/ Passed(s, q, e)
    BY <1>1, <1>6, <2>1 DEF Fit, Live
  <2> QED BY <2>3, <2>4, <2>5
<1>7. Live(t, q)
  BY <1>6 DEF Live
<1>8. ASSUME Anchored(s, q), NEW side \in Sides, NEW k \in Keys, NEW m,
             m = MarkOf(t, side, k), m # NoMark
      PROVE  Queued(t, side, k, m.seq) \/ Ahead(t, q, k, m.at)
  <2>1. m = MarkOf(s, side, k) /\ ~Met(s, q, k, m)
    BY <1>8 DEF Drained
  <2>2. ~Ahead(s, q, k, m.at)
    BY <2>1 DEF Ahead, Met
  <2>3. Queued(s, side, k, m.seq)
    BY <1>8, <2>1, <2>2 DEF Anchored
  <2> QED BY <1>2, <2>3 DEF Queued
<1> QED BY <1>5, <1>7, <1>8 DEF Fit, Anchored

\* A process that has died: what it had written is still to be delivered.
Dead(s) ==
  /\ s.outbox = <<>> /\ ~s.sched /\ ~s.chase /\ s.out = 0
  /\ \A side \in Sides, k \in Keys : MarkOf(s, side, k) = NoMark
  /\ \A k \in Keys : s.last[k] = 0
  /\ \A i \in DOMAIN s.wire : ~s.wire[i].cb

LEMMA DeadHolds ==
  ASSUME NEW s, NEW q, Sane(s, q), Dead(s)
  PROVE  Live(s, q) /\ Anchored(s, q)
<1>1. ASSUME NEW i \in Due(s), NEW e \in At(s, i), e.seq > 0, e.n = s.last[e.key] PROVE FALSE
  <2>1. i \in Lots(s) /\ s \in WorkerSet
    BY DueLots DEF Sane
  <2>2. ~Keyless(e) /\ e.key \in Keys
    BY <1>1, <2>1, AtFacts
  <2>3. e.n >= 1
    BY <2>1, <2>2 DEF Sane
  <2> QED BY <1>1, <2>2, <2>3 DEF Dead
<1> QED BY <1>1 DEF Dead, Live, Anchored

\* The wire of a dead process, as Exit leaves it.
Severed(wire) == [i \in DOMAIN wire |-> [wire[i] EXCEPT !.due = @ /\ ~wire[i].cb, !.cb = FALSE]]

LEMMA SeveredWire ==
  ASSUME NEW wire \in Seq(Batch)
  PROVE  /\ Severed(wire) \in Seq(Batch) /\ DOMAIN Severed(wire) = DOMAIN wire
         /\ Len(Severed(wire)) = Len(wire)
         /\ \A i \in DOMAIN wire :
              /\ Severed(wire)[i].ops = wire[i].ops /\ Severed(wire)[i].seq = wire[i].seq
              /\ ~Severed(wire)[i].cb /\ (Severed(wire)[i].due => wire[i].due)
              /\ Severed(wire)[i].bytes = wire[i].bytes
<1>1. ASSUME NEW b \in Batch, NEW c, c = [b EXCEPT !.due = @ /\ ~b.cb, !.cb = FALSE]
      PROVE  /\ c \in Batch /\ c.ops = b.ops /\ c.seq = b.seq /\ ~c.cb /\ (c.due => b.due)
             /\ c.bytes = b.bytes
  <2>1. PICK d \in BOOLEAN : d = (b.due /\ ~b.cb)
    BY DEF Batch
  <2>2. c = [b EXCEPT !.due = d, !.cb = FALSE]
    BY <1>1, <2>1
  <2> QED BY <2>1, <2>2 DEF Batch
<1>2. PICK v : v = Severed(wire)
  OBVIOUS
<1>3. DOMAIN v = DOMAIN wire /\ \A i \in DOMAIN wire :
        v[i] = [wire[i] EXCEPT !.due = @ /\ ~wire[i].cb, !.cb = FALSE]
  BY <1>2 DEF Severed
<1>4. \A i \in DOMAIN wire : wire[i] \in Batch
  OBVIOUS
<1>5. \A i \in DOMAIN wire : /\ v[i] \in Batch /\ v[i].ops = wire[i].ops /\ v[i].seq = wire[i].seq
                             /\ ~v[i].cb /\ (v[i].due => wire[i].due) /\ v[i].bytes = wire[i].bytes
  BY <1>1, <1>3, <1>4
<1>6. Len(wire) \in Nat /\ DOMAIN wire = 1 .. Len(wire)
  OBVIOUS
<1>7. v \in [1 .. Len(wire) -> Batch]
  BY <1>2, <1>5, <1>6 DEF Severed
<1>8. v \in Seq(Batch) /\ Len(v) = Len(wire)
  BY <1>6, <1>7
<1> QED BY <1>2, <1>3, <1>5, <1>8

LEMMA ExitDead ==
  ASSUME NEW s, NEW q, Sane(s, q), NEW t, t = [FreshWorker EXCEPT !.wire = Severed(s.wire)]
  PROVE  Sane(t, q) /\ Dead(t) /\ t.window = 0 /\ t.wire = Severed(s.wire)
<1>0. s \in WorkerSet /\ q \in Seq(Records) /\ s.wire \in Seq(Batch) /\ Len(s.wire) \in Nat
      /\ DOMAIN s.wire = 1 .. Len(s.wire)
  BY WorkerFields DEF Sane
<1>1. PICK v \in Wires : v = Severed(s.wire)
  BY <1>0, SeveredWire DEF Wires
<1>2. t = [FreshWorker EXCEPT !.wire = v]
  BY <1>1
<1>3. /\ t.outbox = <<>> /\ t.bytes = 0 /\ t.sched = FALSE /\ t.chase = FALSE /\ t.wire = v
      /\ t.window = 0 /\ t.del = NoMarks /\ t.write = NoMarks /\ t.seq = 0 /\ t.cursor = 0
      /\ t.clears = 0 /\ t.out = 0 /\ t.last = [k \in Keys |-> 0]
  BY <1>2 DEF FreshWorker
<1>4. t \in WorkerSet
  <2>1. NoMarks \in MarkTable /\ [k \in Keys |-> 0] \in LastOps /\ <<>> \in OpLists
    BY DEF NoMarks, NoMark, Mark, MarkTable, LastOps, OpLists
  <2>2. FreshWorker \in [outbox : OpLists, bytes : Nat, sched : BOOLEAN, chase : BOOLEAN,
          wire : {<<>>}, window : Int, del : MarkTable, write : MarkTable, seq : Nat, cursor : Nat,
          clears : Nat, out : Nat, last : LastOps]
    BY <2>1 DEF FreshWorker
  <2> QED BY <1>2, <2>2 DEF WorkerSet
<1>5. /\ DOMAIN v = DOMAIN s.wire /\ Len(v) = Len(s.wire)
      /\ \A i \in DOMAIN s.wire : /\ v[i].ops = s.wire[i].ops /\ v[i].seq = s.wire[i].seq
                                  /\ ~v[i].cb
  BY <1>0, <1>1, SeveredWire
<1>6. \A side \in Sides, k \in Keys : MarkOf(t, side, k) = NoMark
  BY <1>3 DEF MarkOf, NoMarks
<1>7. Dead(t)
  BY <1>3, <1>5, <1>6 DEF Dead
<1>8. ASSUME NEW i \in Lots(t), NEW e \in At(t, i)
      PROVE  e.seq <= SeqAt(t, i) /\ (~Keyless(e) => e.n >= 1)
  <2>1. i \in DOMAIN s.wire
    <3> SUFFICES ASSUME i \notin DOMAIN s.wire PROVE FALSE
      OBVIOUS
    <3>1. OpsAt(t, i) = <<>>
      BY <1>3, <1>5 DEF OpsAt
    <3> QED BY <3>1 DEF At
  <2>2. i \in Lots(s)
    BY <1>0, <2>1, LastFacts
  <2>3. At(t, i) = At(s, i) /\ SeqAt(t, i) = SeqAt(s, i)
    BY <1>3, <1>5, <2>1 DEF At, OpsAt, SeqAt
  <2> QED BY <2>2, <2>3 DEF Sane
<1>9. Sane(t, q)
  <2>1. Len(q) \in Nat
    BY <1>0
  <2>2. NoMark.seq = 0 /\ NoMark.at = 0
    BY DEF NoMark
  <2>3. t.cursor <= Len(q)
    BY <1>3, <2>1
  <2>4. \A side \in Sides, k \in Keys :
          MarkOf(t, side, k).seq <= t.seq /\ MarkOf(t, side, k).at <= Len(q)
    BY <1>3, <1>6, <2>1, <2>2
  <2> QED BY <1>0, <1>4, <1>8, <2>3, <2>4 DEF Sane
<1> QED BY <1>1, <1>3, <1>7, <1>9

-----------------------------------------------------------------------------
(* The outbox takes an entry.                                              *)

\* t is s with e at the end of its outbox; the marks are left open.
Adds(s, t, e) ==
  /\ Lots(t) = Lots(s) /\ Due(t) = Due(s) /\ LastLot(t) = LastLot(s)
  /\ \A i \in Lots(s) \ {LastLot(s)} : At(t, i) = At(s, i) /\ SeqAt(t, i) = SeqAt(s, i)
  /\ At(t, LastLot(s)) = At(s, LastLot(s)) \cup {e}
  /\ SeqAt(t, LastLot(s)) = t.seq

LEMMA AddsShape ==
  ASSUME NEW s \in WorkerSet, NEW t \in WorkerSet, NEW e \in Entries,
         t.wire = s.wire, t.outbox = Append(s.outbox, e)
  PROVE  Adds(s, t, e)
<1>1. /\ Lots(t) = Lots(s) /\ LastLot(t) = LastLot(s) /\ Due(t) = Due(s)
      /\ \A i \in Lots(s) \ {LastLot(s)} : OpsAt(t, i) = OpsAt(s, i) /\ SeqAt(t, i) = SeqAt(s, i)
  BY WireKept
<1>2. OpsAt(s, LastLot(s)) = s.outbox
  BY LastFacts
<1>3. OpsAt(t, LastLot(s)) = t.outbox /\ SeqAt(t, LastLot(s)) = t.seq
  BY <1>1, LastFacts
<1>4. \A o \in Seq(Entries) : \A p : p = Append(o, e) =>
        {p[j] : j \in DOMAIN p} = {o[j] : j \in DOMAIN o} \cup {e}
  <2> SUFFICES ASSUME NEW o \in Seq(Entries), NEW p, p = Append(o, e)
               PROVE  {p[j] : j \in DOMAIN p} = {o[j] : j \in DOMAIN o} \cup {e}
    OBVIOUS
  <2>1. /\ DOMAIN p = DOMAIN o \cup {Len(o) + 1} /\ p[Len(o) + 1] = e
        /\ \A j \in DOMAIN o : p[j] = o[j]
    <3>1. Len(o) \in Nat /\ DOMAIN o = 1 .. Len(o)
      OBVIOUS
    <3>2. p \in Seq(Entries) /\ Len(p) = Len(o) + 1
      OBVIOUS
    <3>3. DOMAIN p = 1 .. Len(o) + 1
      BY <3>2
    <3> QED BY <3>1, <3>3
  <2> QED BY <2>1
<1>5. s.outbox \in Seq(Entries)
  BY WorkerFields
<1>6. At(t, LastLot(s)) = At(s, LastLot(s)) \cup {e}
  BY <1>2, <1>3, <1>4, <1>5 DEF At
<1> QED BY <1>1, <1>3, <1>6 DEF Adds, At

\* An entry of a clear.
LEMMA AddQuiet ==
  ASSUME NEW s, NEW t \in WorkerSet, NEW e \in Entries, Keyless(e), NEW q, NEW N, Fit(s, q, N),
         Adds(s, t, e), Steady(s, t), SameMarks(s, t)
  PROVE  Fit(t, q, N) /\ (Anchored(s, q) => Anchored(t, q))
<1>0. e.seq = 0
  BY EntryFields
<1>1. /\ s \in WorkerSet /\ q \in Seq(Records) /\ Len(q) \in Nat /\ s.cursor <= Len(q)
      /\ t.seq = s.seq /\ t.last = s.last /\ t.cursor = s.cursor /\ s.seq \in Nat
  BY WorkerFields DEF Fit, Sane, Steady
<1>2. \A side \in Sides, k \in Keys : MarkOf(t, side, k) = MarkOf(s, side, k)
  BY DEF SameMarks, MarkOf
<1>3. LastLot(s) \in Lots(s) /\ SeqAt(s, LastLot(s)) = s.seq
  BY <1>1, LastFacts
<1>4. /\ Lots(t) = Lots(s) /\ Due(t) = Due(s) /\ Due(s) \subseteq Lots(s)
      /\ \A i \in Lots(s) : SeqAt(t, i) = SeqAt(s, i) /\ At(s, i) \subseteq At(t, i)
      /\ \A i \in Lots(s) : \A d \in At(t, i) : d = e \/ d \in At(s, i)
  BY <1>1, <1>3, DueLots DEF Adds
<1>5. ASSUME NEW i \in Lots(t), NEW d \in At(t, i)
      PROVE  d.seq <= SeqAt(t, i) /\ (~Keyless(d) => d.n >= 1)
  <2>1. CASE d = e
    BY <1>0, <1>1, <1>4, <2>1, LotFacts
  <2>2. CASE d # e
    BY <1>4, <2>2 DEF Fit, Sane
  <2> QED BY <2>1, <2>2
<1>6. Sane(t, q)
  BY <1>1, <1>2, <1>5 DEF Fit, Sane
<1>7. ASSUME NEW i \in Lots(t), NEW j \in Lots(t), i < j
      PROVE  /\ \A d \in At(t, j) : d.seq > 0 => d.seq > SeqAt(t, i)
             /\ \A c \in At(t, i), d \in At(t, j) : ~Keyless(c) /\ ~Keyless(d) => c.n < d.n
  <2>1. /\ \A d \in At(s, j) : d.seq > 0 => d.seq > SeqAt(s, i)
        /\ \A c \in At(s, i), d \in At(s, j) : ~Keyless(c) /\ ~Keyless(d) => c.n < d.n
    BY <1>4, <1>7 DEF Fit, Ordered
  <2> QED BY <1>0, <1>4, <2>1
<1>8. ASSUME NEW i \in Lots(t)
      PROVE  /\ SeqAt(t, i) <= t.seq
             /\ \A d \in At(t, i) : ~Keyless(d) => d.n <= t.last[d.key]
             /\ \A d \in At(t, i), side \in Sides :
                  d.seq > 0 /\ MarkOf(t, side, d.key).seq = d.seq => MarkOf(t, side, d.key).at = d.at
  <2>1. /\ SeqAt(s, i) <= s.seq
        /\ \A d \in At(s, i) : ~Keyless(d) => d.n <= s.last[d.key]
        /\ \A d \in At(s, i), side \in Sides :
             d.seq > 0 /\ MarkOf(s, side, d.key).seq = d.seq => MarkOf(s, side, d.key).at = d.at
    BY <1>4 DEF Fit, Ordered
  <2>2. \A d \in At(s, i) : d.seq > 0 => d.key \in Keys
    BY <1>1, <1>4, AtFacts
  <2> QED BY <1>0, <1>1, <1>2, <1>4, <2>1, <2>2
<1>9. Ordered(t, N)
  BY <1>1, <1>7, <1>8 DEF Fit, Ordered
<1>10. ASSUME NEW i \in Due(t), NEW d \in At(t, i), d.seq > 0, d.n = t.last[d.key]
       PROVE  HasMark(t, d) \/ Passed(t, q, d)
  <2>1. i \in Due(s) /\ i \in Lots(s) /\ d \in At(s, i)
    BY <1>0, <1>4, <1>10
  <2>2. HasMark(s, d) \/ Passed(s, q, d)
    BY <1>1, <1>10, <2>1 DEF Fit, Live
  <2>3. d.key \in Keys
    BY <1>1, <1>10, <2>1, AtFacts
  <2> QED BY <1>1, <1>2, <2>2, <2>3 DEF HasMark, Passed
<1>11. \A op, k, n : Queued(s, op, k, n) => Queued(t, op, k, n)
  BY <1>4 DEF Queued
<1>12. Anchored(s, q) => Anchored(t, q)
  BY <1>1, <1>2, <1>11 DEF Anchored, Ahead
<1> QED BY <1>6, <1>9, <1>10, <1>12 DEF Fit, Live

\* An operation on the key k: the newest, with the mark it takes, if any.
Writes(s, t, e, k, q, N) ==
  /\ k \in Keys /\ e.key = k /\ e.n = N + 1 /\ ~Keyless(e)
  /\ t.cursor = s.cursor /\ t.last = [s.last EXCEPT ![k] = N + 1]
  /\ \/ t.seq = s.seq /\ e.seq = 0
     \/ t.seq = s.seq + 1 /\ e.seq = t.seq /\ e.at = Len(q) /\ HasMark(t, e)
  /\ \A side \in Sides, j \in Keys :
       \/ MarkOf(t, side, j) = MarkOf(s, side, j)
       \/ j = k /\ MarkOf(t, side, j) = NoMark
       \/ j = k /\ MarkOf(t, side, j) = [seq |-> e.seq, at |-> e.at] /\ e.seq > 0

LEMMA AddKey ==
  ASSUME NEW s, NEW t \in WorkerSet, NEW e \in Entries, NEW k, NEW q, NEW N \in Nat,
         Fit(s, q, N), Adds(s, t, e), Writes(s, t, e, k, q, N)
  PROVE  /\ Fit(t, q, N + 1)
         /\ Anchored(s, q) /\ (\A side \in Sides : MarkOf(t, side, k) = [seq |-> e.seq, at |-> e.at]
                                /\ e.seq > 0 => e.op = side)
              => Anchored(t, q)
<1>0. e.seq \in Nat /\ e.n = N + 1 /\ e.key = k /\ k \in Keys /\ ~Keyless(e) /\ N + 1 >= 1
  BY EntryFields DEF Writes
<1>1. /\ s \in WorkerSet /\ q \in Seq(Records) /\ Len(q) \in Nat /\ s.cursor <= Len(q)
      /\ t.cursor = s.cursor /\ s.seq \in Nat /\ t.seq \in Nat /\ s.seq <= t.seq
      /\ s.last \in [Keys -> Nat] /\ t.last = [s.last EXCEPT ![k] = N + 1]
      /\ e.seq <= t.seq /\ (e.seq > 0 => e.seq > s.seq /\ e.at = Len(q) /\ HasMark(t, e))
  BY <1>0, WorkerFields DEF Fit, Sane, Writes
<1>3. LastLot(s) \in Lots(s) /\ SeqAt(s, LastLot(s)) = s.seq /\ SeqAt(t, LastLot(s)) = t.seq
      /\ \A i \in Lots(s) : i <= LastLot(s) /\ i \in Nat
  BY <1>1, LastFacts DEF Adds
<1>4. /\ Lots(t) = Lots(s) /\ Due(t) = Due(s) /\ Due(s) \subseteq Lots(s)
      /\ \A i \in Lots(s) : At(s, i) \subseteq At(t, i)
      /\ \A i \in Lots(s) \ {LastLot(s)} : SeqAt(t, i) = SeqAt(s, i) /\ At(t, i) = At(s, i)
      /\ \A i \in Lots(s) : \A d \in At(t, i) : d = e \/ d \in At(s, i)
      /\ e \in At(t, LastLot(s)) /\ LastLot(s) \in Due(s)
  BY <1>1, DueLots, LastFacts DEF Adds
<1>5. \A i \in Lots(s) : SeqAt(s, i) <= s.seq /\ SeqAt(s, i) \in Nat /\ SeqAt(s, i) <= SeqAt(t, i)
                         /\ SeqAt(t, i) <= t.seq /\ SeqAt(t, i) \in Nat
  <2>1. \A i \in Lots(s) : SeqAt(s, i) <= s.seq /\ SeqAt(s, i) \in Nat
    BY <1>1, LotFacts DEF Fit, Ordered
  <2> QED BY <1>1, <1>3, <1>4, <2>1
<1>6. \A i \in Lots(s) : \A d \in At(s, i) :
        d.seq \in Nat /\ d.seq <= s.seq /\ d.seq <= SeqAt(s, i)
        /\ (d.seq > 0 => d.key \in Keys /\ ~Keyless(d))
  <2> SUFFICES ASSUME NEW i \in Lots(s), NEW d \in At(s, i)
               PROVE  d.seq \in Nat /\ d.seq <= s.seq /\ d.seq <= SeqAt(s, i)
                      /\ (d.seq > 0 => d.key \in Keys /\ ~Keyless(d))
    OBVIOUS
  <2>1. d.seq <= SeqAt(s, i)
    BY DEF Fit, Sane
  <2>2. d.seq \in Nat /\ (d.seq > 0 => d.key \in Keys /\ ~Keyless(d))
    BY <1>1, AtFacts
  <2> QED BY <1>1, <1>5, <2>1, <2>2
<1>7. \A i \in Lots(s) : \A d \in At(s, i) :
        ~Keyless(d) => d.n \in Nat /\ d.n <= N /\ d.n <= s.last[d.key] /\ d.key \in Keys
  <2> SUFFICES ASSUME NEW i \in Lots(s), NEW d \in At(s, i), ~Keyless(d)
               PROVE  d.n \in Nat /\ d.n <= N /\ d.n <= s.last[d.key] /\ d.key \in Keys
    OBVIOUS
  <2>1. d.n \in Nat /\ d.key \in Keys /\ s.last[d.key] \in Nat
    BY <1>1, AtFacts
  <2>2. d.n <= s.last[d.key]
    BY DEF Fit, Ordered
  <2>3. s.last[d.key] <= N
    BY <2>1 DEF Fit, Ordered
  <2> QED BY <2>1, <2>2, <2>3
<1>8. ASSUME NEW side \in Sides, NEW j \in Keys
      PROVE  MarkOf(t, side, j).seq <= t.seq /\ MarkOf(t, side, j).at <= Len(q)
  <2>1. /\ MarkOf(s, side, j).seq <= s.seq /\ MarkOf(s, side, j).at <= Len(q)
        /\ MarkOf(s, side, j).seq \in Nat /\ MarkOf(s, side, j).at \in Nat
    BY <1>1, MarkFacts DEF Fit, Sane
  <2>2. CASE MarkOf(t, side, j) \in {MarkOf(s, side, j), NoMark}
    BY <1>1, <2>1, <2>2 DEF NoMark
  <2>3. CASE MarkOf(t, side, j) = [seq |-> e.seq, at |-> e.at] /\ e.seq > 0
    BY <1>1, <2>3
  <2> QED BY <2>2, <2>3 DEF Writes
<1>9. ASSUME NEW i \in Lots(t), NEW d \in At(t, i)
      PROVE  d.seq <= SeqAt(t, i) /\ (~Keyless(d) => d.n >= 1)
  <2>1. CASE d \in At(s, i)
    <3>1. ~Keyless(d) => d.n >= 1
      BY <1>4, <2>1 DEF Fit, Sane
    <3> QED BY <1>4, <1>5, <1>6, <2>1, <3>1
  <2>2. CASE d \notin At(s, i)
    <3>1. d = e /\ i = LastLot(s)
      BY <1>4, <2>2
    <3> QED BY <1>0, <1>1, <1>3, <3>1
  <2> QED BY <2>1, <2>2
<1>10. Sane(t, q)
  BY <1>1, <1>8, <1>9 DEF Sane
<1>11. ASSUME NEW i \in Lots(t), NEW j \in Lots(t), i < j
       PROVE  /\ \A d \in At(t, j) : d.seq > 0 => d.seq > SeqAt(t, i)
              /\ \A c \in At(t, i), d \in At(t, j) : ~Keyless(c) /\ ~Keyless(d) => c.n < d.n
  <2>1. /\ \A d \in At(s, j) : d.seq > 0 => d.seq > SeqAt(s, i)
        /\ \A c \in At(s, i), d \in At(s, j) : ~Keyless(c) /\ ~Keyless(d) => c.n < d.n
    BY <1>4, <1>11 DEF Fit, Ordered
  <2>2. i # LastLot(s)
    BY <1>3, <1>4, <1>11
  <2>3. At(t, i) = At(s, i) /\ SeqAt(t, i) = SeqAt(s, i)
    BY <1>4, <2>2
  <2>4. e.seq > 0 => e.seq > SeqAt(s, i)
    BY <1>0, <1>1, <1>4, <1>5
  <2>5. \A c \in At(s, i) : ~Keyless(c) => c.n < e.n
    BY <1>0, <1>4, <1>7
  <2> QED BY <1>4, <2>1, <2>3, <2>4, <2>5
<1>12. ASSUME NEW i \in Lots(t), NEW d \in At(t, i), ~Keyless(d)
       PROVE  d.n <= t.last[d.key]
  <2>1. CASE d = e
    BY <1>0, <1>1, <2>1
  <2>2. CASE d \in At(s, i)
    <3>1. d.n \in Nat /\ d.n <= N /\ d.n <= s.last[d.key] /\ d.key \in Keys
      BY <1>4, <1>7, <1>12, <2>2
    <3>2. t.last[d.key] = IF d.key = k THEN N + 1 ELSE s.last[d.key]
      BY <1>1, <3>1
    <3> QED BY <3>1, <3>2
  <2> QED BY <1>4, <2>1, <2>2
<1>13. ASSUME NEW i \in Lots(t), NEW d \in At(t, i), NEW side \in Sides, NEW m, d.key \in Keys,
              m = MarkOf(t, side, d.key), d.seq > 0, m.seq = d.seq
       PROVE  m.at = d.at
  <2>1. \/ m = MarkOf(s, side, d.key)
        \/ m = NoMark
        \/ m = [seq |-> e.seq, at |-> e.at] /\ e.seq > 0
    BY <1>13 DEF Writes
  <2>2. m # NoMark
    BY <1>13 DEF NoMark
  <2>3. CASE d \in At(s, i)
    <3>1. m = MarkOf(s, side, d.key)
      <4>1. d.seq <= s.seq /\ d.seq \in Nat
        BY <1>4, <1>6, <2>3
      <4>2. ~(m = [seq |-> e.seq, at |-> e.at] /\ e.seq > 0)
        BY <1>0, <1>1, <1>13, <4>1
      <4> QED BY <2>1, <2>2, <4>2
    <3> QED BY <1>4, <1>13, <2>3, <3>1 DEF Fit, Ordered
  <2>4. CASE d = e
    <3>1. m # MarkOf(s, side, d.key)
      <4>1. MarkOf(s, side, d.key).seq <= s.seq /\ MarkOf(s, side, d.key).seq \in Nat
        BY <1>1, <1>13, MarkFacts DEF Fit, Sane
      <4> QED BY <1>0, <1>1, <1>13, <2>4, <4>1
    <3> QED BY <2>1, <2>2, <2>4, <3>1
  <2> QED BY <1>4, <2>3, <2>4
<1>14. \A j \in Keys : t.last[j] <= N + 1
  <2> SUFFICES ASSUME NEW j \in Keys PROVE t.last[j] <= N + 1
    OBVIOUS
  <2>1. s.last[j] <= N /\ s.last[j] \in Nat
    BY <1>1 DEF Fit, Ordered
  <2>2. t.last[j] = IF j = k THEN N + 1 ELSE s.last[j]
    BY <1>1
  <2> QED BY <2>1, <2>2
<1>15. \A i \in Lots(t), j \in Lots(t) : i < j =>
         /\ \A d \in At(t, j) : d.seq > 0 => d.seq > SeqAt(t, i)
         /\ \A c \in At(t, i), d \in At(t, j) : ~Keyless(c) /\ ~Keyless(d) => c.n < d.n
  BY <1>11
<1>16. \A i \in Lots(t) : \A d \in At(t, i), side \in Sides :
         d.seq > 0 /\ MarkOf(t, side, d.key).seq = d.seq => MarkOf(t, side, d.key).at = d.at
  <2>1. \A i \in Lots(t) : \A d \in At(t, i) : d.seq > 0 => d.key \in Keys
    BY <1>4, AtFacts
  <2> QED BY <1>13, <2>1
<1>17. Ordered(t, N + 1)
  BY <1>4, <1>5, <1>12, <1>14, <1>15, <1>16 DEF Ordered
<1>18. ASSUME NEW i \in Due(t), NEW d \in At(t, i), d.seq > 0, d.n = t.last[d.key]
       PROVE  HasMark(t, d) \/ Passed(t, q, d)
  <2>1. CASE d = e
    BY <1>1, <1>18, <2>1
  <2>2. CASE d \in At(s, i)
    <3>1. i \in Lots(s) /\ i \in Due(s)
      BY <1>4
    <3>2. d.n \in Nat /\ d.n <= N /\ d.key \in Keys /\ d.seq <= s.seq /\ d.seq \in Nat
      BY <1>6, <1>7, <1>18, <2>2, <3>1
    <3>3. d.key # k /\ t.last[d.key] = s.last[d.key]
      BY <1>1, <1>18, <3>2
    <3>4. HasMark(s, d) \/ Passed(s, q, d)
      BY <1>18, <2>2, <3>1, <3>3 DEF Fit, Live
    <3>5. CASE Passed(s, q, d)
      BY <1>1, <3>5 DEF Passed
    <3>6. CASE HasMark(s, d)
      <4>1. \A side \in Sides : MarkOf(t, side, d.key) = MarkOf(s, side, d.key)
        BY <3>2, <3>3 DEF Writes
      <4> QED BY <3>6, <4>1 DEF HasMark
    <3> QED BY <3>4, <3>5, <3>6
  <2> QED BY <1>4, <2>1, <2>2, DueLots
<1>19. ASSUME Anchored(s, q),
              \A side \in Sides : MarkOf(t, side, k) = [seq |-> e.seq, at |-> e.at] /\ e.seq > 0
                                   => e.op = side,
              NEW side \in Sides, NEW j \in Keys, NEW m, m = MarkOf(t, side, j), m # NoMark
       PROVE  Queued(t, side, j, m.seq) \/ Ahead(t, q, j, m.at)
  <2>1. CASE m = MarkOf(s, side, j)
    <3>1. Queued(s, side, j, m.seq) \/ Ahead(s, q, j, m.at)
      BY <1>19, <2>1 DEF Anchored
    <3>2. Queued(s, side, j, m.seq) => Queued(t, side, j, m.seq)
      BY <1>4 DEF Queued
    <3> QED BY <1>1, <3>1, <3>2 DEF Ahead
  <2>2. CASE j = k /\ m = [seq |-> e.seq, at |-> e.at] /\ e.seq > 0
    <3>1. e.op = side /\ m.seq = e.seq
      BY <1>19, <2>2
    <3> QED BY <1>0, <1>4, <2>2, <3>1 DEF Queued
  <2> QED BY <1>19, <2>1, <2>2 DEF Writes
<1> QED BY <1>10, <1>17, <1>18, <1>19 DEF Fit, Live, Anchored
\* A clear gives every mark up, and is the newest operation on every key.
Wipes(s, t, N) ==
  /\ t.wire = s.wire /\ t.outbox = s.outbox /\ t.seq = s.seq /\ t.cursor = s.cursor
  /\ \A side \in Sides, k \in Keys : MarkOf(t, side, k) = NoMark
  /\ t.last = [k \in Keys |-> N + 1]

LEMMA WipeFit ==
  ASSUME NEW s, NEW t \in WorkerSet, NEW q, NEW N \in Nat, Fit(s, q, N), Wipes(s, t, N)
  PROVE  Fit(t, q, N + 1) /\ Anchored(t, q)
<1>1. /\ s \in WorkerSet /\ q \in Seq(Records) /\ Len(q) \in Nat /\ s.cursor <= Len(q)
      /\ t.cursor = s.cursor /\ t.seq = s.seq /\ s.seq \in Nat
  BY WorkerFields DEF Fit, Sane, Wipes
<1>2. /\ Lots(t) = Lots(s) /\ Due(t) = Due(s) /\ Due(s) \subseteq Lots(s)
      /\ \A i : SeqAt(t, i) = SeqAt(s, i) /\ At(t, i) = At(s, i)
  BY SameLots, DueLots DEF Wipes
<1>3. NoMark.seq = 0 /\ NoMark.at = 0
  BY DEF NoMark
<1>4. \A side \in Sides, k \in Keys : MarkOf(t, side, k) = NoMark
  BY DEF Wipes
<1>5. \A side \in Sides, k \in Keys :
        MarkOf(t, side, k).seq <= t.seq /\ MarkOf(t, side, k).at <= Len(q)
  BY <1>1, <1>3, <1>4
<1>6. Sane(t, q)
  BY <1>1, <1>2, <1>5 DEF Fit, Sane
<1>7. \A k \in Keys : t.last[k] = N + 1
  BY DEF Wipes
<1>8. \A i \in Lots(s) : \A d \in At(s, i) :
        ~Keyless(d) => d.n \in Nat /\ d.n <= N /\ d.key \in Keys
  <2> SUFFICES ASSUME NEW i \in Lots(s), NEW d \in At(s, i), ~Keyless(d)
               PROVE  d.n \in Nat /\ d.n <= N /\ d.key \in Keys
    OBVIOUS
  <2>1. d.n \in Nat /\ d.key \in Keys /\ s.last[d.key] \in Nat
    BY <1>1, AtFacts
  <2>2. d.n <= s.last[d.key] /\ s.last[d.key] <= N
    BY <2>1 DEF Fit, Ordered
  <2> QED BY <2>1, <2>2
<1>9. \A i \in Lots(s) : \A d \in At(s, i) :
        d.seq \in Nat /\ (d.seq > 0 => d.key \in Keys /\ ~Keyless(d))
  BY <1>1, AtFacts
<1>10. \A i \in Lots(t) :
         /\ SeqAt(t, i) <= t.seq
         /\ \A d \in At(t, i) : ~Keyless(d) => d.n <= t.last[d.key]
  <2>1. \A i \in Lots(s) : SeqAt(s, i) <= s.seq
    BY DEF Fit, Ordered
  <2>2. \A i \in Lots(s) : \A d \in At(s, i) : ~Keyless(d) => d.n <= t.last[d.key]
    BY <1>7, <1>8
  <2> QED BY <1>1, <1>2, <2>1, <2>2
<1>11. \A i \in Lots(t) : \A d \in At(t, i), side \in Sides :
         d.seq > 0 => MarkOf(t, side, d.key).seq # d.seq
  BY <1>2, <1>3, <1>4, <1>9
<1>12. \A k \in Keys : t.last[k] <= N + 1
  BY <1>7
<1>13. \A i, j \in Lots(t) : i < j =>
         /\ \A d \in At(t, j) : d.seq > 0 => d.seq > SeqAt(t, i)
         /\ \A c \in At(t, i), d \in At(t, j) : ~Keyless(c) /\ ~Keyless(d) => c.n < d.n
  BY <1>2 DEF Fit, Ordered
<1>14. Ordered(t, N + 1)
  BY <1>10, <1>11, <1>12, <1>13 DEF Ordered
<1>15. ASSUME NEW i \in Due(t), NEW d \in At(t, i), d.seq > 0, d.n = t.last[d.key] PROVE FALSE
  <2>1. i \in Lots(s) /\ d \in At(s, i)
    BY <1>2
  <2>2. d.n \in Nat /\ d.n <= N /\ d.key \in Keys
    BY <1>8, <1>9, <1>15, <2>1
  <2>3. d.n = N + 1
    BY <1>7, <1>15, <2>2
  <2> QED BY <2>2, <2>3
<1> QED BY <1>4, <1>6, <1>14, <1>15 DEF Fit, Live, Anchored

LEMMA FitMore ==
  ASSUME NEW s, NEW q, NEW N \in Nat, Fit(s, q, N)
  PROVE  Fit(s, q, N + 1)
<1>1. s.last \in [Keys -> Nat]
  BY WorkerFields DEF Fit, Sane
<1>2. ASSUME NEW k \in Keys PROVE s.last[k] <= N + 1
  BY <1>1 DEF Fit, Ordered
<1> QED BY <1>2 DEF Fit, Ordered

\* The outbox with one more entry, before Publish flushes or schedules.
Appended(s, e) == [s EXCEPT !.outbox = Append(@, e), !.bytes = @ + 1]

LEMMA AppendedFields ==
  ASSUME NEW s \in WorkerSet, NEW e \in Entries, NEW t, t = Appended(s, e)
  PROVE  /\ t \in WorkerSet /\ Steady(s, t) /\ SameMarks(s, t) /\ t.wire = s.wire
         /\ t.outbox = Append(s.outbox, e) /\ t.window = s.window /\ t.bytes = s.bytes + 1
         /\ t.clears = s.clears /\ t.out = s.out
<1>1. PICK o : o = Append(s.outbox, e)
  OBVIOUS
<1>2. PICK b : b = s.bytes + 1
  OBVIOUS
<1>3. o \in OpLists /\ b \in Nat
  BY <1>1, <1>2, WorkerFields DEF OpLists
<1>4. t = [s EXCEPT !.outbox = o, !.bytes = b]
  BY <1>1, <1>2 DEF Appended
<1> QED BY <1>1, <1>2, <1>3, <1>4 DEF WorkerSet, Steady, SameMarks

\* What Publish does to the outbox that has the entry.
LEMMA PublishIs ==
  ASSUME NEW s \in WorkerSet, NEW e \in Entries, NEW connected \in BOOLEAN,
         NEW t, t = Publish(s, e, connected)
  PROVE  \/ t = Flush(Appended(s, e), connected)
         \/ t = [Appended(s, e) EXCEPT !.sched = TRUE]
BY DEF Publish, Appended

LEMMA SchedCalm ==
  ASSUME NEW s \in WorkerSet, NEW t, t = [s EXCEPT !.sched = TRUE]
  PROVE  /\ t \in WorkerSet /\ Calm(s, t) /\ Rests(s, t) /\ t.clears = s.clears /\ t.out = s.out
<1>1. /\ t \in WorkerSet /\ Steady(s, t) /\ SameMarks(s, t) /\ t.wire = s.wire
      /\ t.outbox = s.outbox /\ t.window = s.window
      /\ t.clears = s.clears /\ t.out = s.out
  BY DEF WorkerSet, Steady, SameMarks
<1> QED BY <1>1, CalmStep DEF Rests

LEMMA CalmFit ==
  ASSUME NEW s, NEW t \in WorkerSet, NEW q, NEW N, Fit(s, q, N), Calm(s, t)
  PROVE  Fit(t, q, N) /\ (Anchored(s, q) => Anchored(t, q))
<1>1. /\ Sane(s, q) /\ s \in WorkerSet /\ q \in Seq(Records) /\ Len(q) \in Nat /\ s.cursor <= Len(q)
      /\ Ordered(s, N) /\ Live(s, q)
  BY DEF Fit, Sane
<1>2. Thin(s, t) /\ t.cursor <= Len(q)
  BY <1>1, CalmThin DEF Calm, Steady
<1>3. Sane(t, q)
  BY <1>1, <1>2, ThinSane
<1> QED BY <1>1, <1>2, <1>3, ThinOrdered, CalmAnchored, CalmLive DEF Fit

\* Publish does what its flush does: the entry is in, the rest may follow.
LEMMA PublishFit ==
  ASSUME NEW s \in WorkerSet, NEW e \in Entries, NEW connected \in BOOLEAN, NEW q, NEW N,
         Fit(Appended(s, e), q, N), NEW t, t = Publish(s, e, connected)
  PROVE  /\ Fit(t, q, N) /\ (Anchored(Appended(s, e), q) => Anchored(t, q))
         /\ t \in WorkerSet
<1>1. PICK u : u = Appended(s, e)
  OBVIOUS
<1>2. u \in WorkerSet
  BY <1>1, AppendedFields
<1>3. t = Flush(u, connected) \/ t = [u EXCEPT !.sched = TRUE]
  BY <1>1, PublishIs
<1>4. Fit(u, q, N)
  BY <1>1
<1>5. CASE t = Flush(u, connected)
  BY <1>1, <1>4, <1>5, FlushFit
<1>6. CASE t = [u EXCEPT !.sched = TRUE]
  <2>1. t \in WorkerSet /\ Calm(u, t)
    BY <1>2, <1>6, SchedCalm
  <2> QED BY <1>1, <1>4, <2>1, CalmFit
<1> QED BY <1>3, <1>5, <1>6

-----------------------------------------------------------------------------
(* The window is what is in flight.                                        *)

Awaiting(s) == {j \in DOMAIN s.wire : s.wire[j].cb}
Bytes(s) == [j \in DOMAIN s.wire |-> s.wire[j].bytes]
Windowed(s) == s.window = Tally(Awaiting(s), Bytes(s))

LEMMA InFlightTally ==
  ASSUME NEW s
  PROVE  Cardinality(InFlight(s)) = Tally(Awaiting(s), Bytes(s))
<1>1. \A i \in Awaiting(s) : Bytes(s)[i] = s.wire[i].bytes
  BY DEF Awaiting, Bytes
<1>2. InFlight(s) = Units(Awaiting(s), Bytes(s))
  BY <1>1 DEF InFlight, Units, Awaiting
<1> QED BY <1>2 DEF Tally

LEMMA AwaitingFacts ==
  ASSUME NEW s \in WorkerSet
  PROVE  /\ IsFiniteSet(Awaiting(s)) /\ \A i \in Awaiting(s) : Bytes(s)[i] \in Nat
         /\ Awaiting(s) \subseteq DOMAIN s.wire
<1>1. Awaiting(s) \subseteq 1 .. Len(s.wire) /\ Len(s.wire) \in Nat
  BY WorkerFields DEF Awaiting
<1>2. IsFiniteSet(1 .. Len(s.wire))
  BY <1>1, FS_Interval
<1>3. IsFiniteSet(Awaiting(s))
  BY <1>1, <1>2, FS_Subset
<1> QED BY <1>3, BatchFields DEF Awaiting, Bytes

LEMMA SameWindow ==
  ASSUME NEW s, NEW t, t.wire = s.wire, t.window = s.window, Windowed(s)
  PROVE  Windowed(t)
<1>1. Awaiting(t) = Awaiting(s) /\ Bytes(t) = Bytes(s)
  BY DEF Awaiting, Bytes
<1> QED BY <1>1 DEF Windowed

LEMMA AppendedBatch ==
  ASSUME NEW wire \in Seq(Batch), NEW b \in Batch, NEW v, v = Append(wire, b)
  PROVE  /\ DOMAIN v = DOMAIN wire \cup {Len(wire) + 1} /\ Len(wire) + 1 \notin DOMAIN wire
         /\ v[Len(wire) + 1] = b /\ \A i \in DOMAIN wire : v[i] = wire[i]
<1>1. Len(wire) \in Nat /\ DOMAIN wire = 1 .. Len(wire)
  OBVIOUS
<1>2. v \in Seq(Batch) /\ Len(v) = Len(wire) + 1
  OBVIOUS
<1>3. DOMAIN v = 1 .. Len(wire) + 1
  BY <1>2
<1>4. v[Len(wire) + 1] = b /\ \A i \in DOMAIN wire : v[i] = wire[i]
  BY <1>1
<1> QED BY <1>1, <1>3, <1>4

LEMMA LeavesWindow ==
  ASSUME NEW s \in WorkerSet, NEW t \in WorkerSet, t.wire = Append(s.wire, BatchOf(s)),
         t.window = s.window + s.bytes, Windowed(s)
  PROVE  Windowed(t)
<1>1. PICK b : b = BatchOf(s)
  OBVIOUS
<1>2. b \in Batch /\ b.cb /\ b.bytes = s.bytes /\ s.wire \in Seq(Batch) /\ s.bytes \in Nat
  BY <1>1, WorkerFields DEF BatchOf, Batch, OpLists
<1>3. PICK n : n = Len(s.wire) + 1
  OBVIOUS
<1>4. t.wire = Append(s.wire, b)
  BY <1>1
<1>5. /\ DOMAIN t.wire = DOMAIN s.wire \cup {n} /\ n \notin DOMAIN s.wire
      /\ t.wire[n] = b /\ \A i \in DOMAIN s.wire : t.wire[i] = s.wire[i]
  BY <1>2, <1>3, <1>4, AppendedBatch
<1>6. n \in Awaiting(t) /\ Awaiting(t) \ {n} = Awaiting(s) /\ Bytes(t)[n] = s.bytes
  BY <1>2, <1>5 DEF Awaiting, Bytes
<1>7. \A i \in Awaiting(s) : Bytes(s)[i] = Bytes(t)[i]
  BY <1>5 DEF Awaiting, Bytes
<1>8. Tally(Awaiting(s), Bytes(s)) = Tally(Awaiting(s), Bytes(t))
  BY <1>7, TallySame
<1>9. /\ IsFiniteSet(Awaiting(t)) /\ \A i \in Awaiting(t) : Bytes(t)[i] \in Nat
  BY AwaitingFacts
<1>10. /\ Tally(Awaiting(t), Bytes(t)) = Bytes(t)[n] + Tally(Awaiting(t) \ {n}, Bytes(t))
       /\ Tally(Awaiting(t) \ {n}, Bytes(t)) \in Nat
  <2>1. PICK S, f : S = Awaiting(t) /\ f = Bytes(t)
    OBVIOUS
  <2>2. IsFiniteSet(S) /\ (\A x \in S : f[x] \in Nat) /\ n \in S
    BY <1>6, <1>9, <2>1
  <2>3. Tally(S, f) = f[n] + Tally(S \ {n}, f) /\ Tally(S \ {n}, f) \in Nat
    BY <2>2, TallyTakes
  <2> QED BY <2>1, <2>3
<1>11. PICK x, y : x = Tally(Awaiting(t), Bytes(t)) /\ y = Tally(Awaiting(s), Bytes(s))
  OBVIOUS
<1>12. x = s.bytes + y /\ y \in Nat
  BY <1>6, <1>8, <1>10, <1>11
<1>13. s.window = y
  BY <1>11 DEF Windowed
<1>14. t.window = x
  BY <1>2, <1>12, <1>13
<1> QED BY <1>11, <1>14 DEF Windowed

LEMMA CallbackWindow ==
  ASSUME NEW s \in WorkerSet, NEW t \in WorkerSet, NEW i \in DOMAIN s.wire, s.wire[i].cb,
         DOMAIN t.wire = DOMAIN s.wire, ~t.wire[i].cb, t.wire[i].bytes = s.wire[i].bytes,
         \A j \in DOMAIN s.wire \ {i} : t.wire[j] = s.wire[j],
         t.window = s.window - s.wire[i].bytes, Windowed(s)
  PROVE  Windowed(t)
<1>1. i \in Awaiting(s) /\ Awaiting(t) = Awaiting(s) \ {i} /\ Bytes(s)[i] = s.wire[i].bytes
  BY DEF Awaiting, Bytes
<1>2. \A j \in Awaiting(t) : Bytes(t)[j] = Bytes(s)[j]
  BY DEF Awaiting, Bytes
<1>3. Tally(Awaiting(t), Bytes(t)) = Tally(Awaiting(t), Bytes(s))
  BY <1>2, TallySame
<1>4. /\ IsFiniteSet(Awaiting(s)) /\ \A j \in Awaiting(s) : Bytes(s)[j] \in Nat
  BY AwaitingFacts
<1>5. /\ Tally(Awaiting(s), Bytes(s)) = Bytes(s)[i] + Tally(Awaiting(s) \ {i}, Bytes(s))
      /\ Tally(Awaiting(s) \ {i}, Bytes(s)) \in Nat
  <2>1. PICK S, f : S = Awaiting(s) /\ f = Bytes(s)
    OBVIOUS
  <2>2. IsFiniteSet(S) /\ (\A x \in S : f[x] \in Nat) /\ i \in S
    BY <1>1, <1>4, <2>1
  <2>3. Tally(S, f) = f[i] + Tally(S \ {i}, f) /\ Tally(S \ {i}, f) \in Nat
    BY <2>2, TallyTakes
  <2> QED BY <2>1, <2>3
<1>6. s.wire[i].bytes \in Nat
  BY BatchFields
<1> QED BY <1>1, <1>3, <1>5, <1>6 DEF Windowed

LEMMA FlushWindow ==
  ASSUME NEW s \in WorkerSet, NEW connected \in BOOLEAN, Windowed(s),
         NEW t, t = Flush(s, connected)
  PROVE  Windowed(t) /\ t \in WorkerSet
<1>1. /\ t \in WorkerSet
      /\ \/ t.wire = s.wire /\ t.window = s.window
         \/ t.wire = Append(s.wire, BatchOf(s)) /\ t.window = s.window + s.bytes
  BY FlushEnds DEF Rests, Leaves, IsLost, IsShed
<1> QED BY <1>1, SameWindow, LeavesWindow

LEMMA PublishWindow ==
  ASSUME NEW s \in WorkerSet, NEW e \in Entries, NEW connected \in BOOLEAN, Windowed(s),
         NEW t, t = Publish(s, e, connected)
  PROVE  Windowed(t) /\ t \in WorkerSet
<1>1. PICK u : u = Appended(s, e)
  OBVIOUS
<1>2. u \in WorkerSet /\ u.wire = s.wire /\ u.window = s.window
  BY <1>1, AppendedFields
<1>3. Windowed(u)
  BY <1>2, SameWindow
<1>4. t = Flush(u, connected) \/ t = [u EXCEPT !.sched = TRUE]
  BY <1>1, PublishIs
<1>5. CASE t = [u EXCEPT !.sched = TRUE]
  BY <1>2, <1>3, <1>5, SchedCalm, SameWindow DEF Rests
<1> QED BY <1>2, <1>3, <1>4, <1>5, FlushWindow

-----------------------------------------------------------------------------
(* The steps of a worker and of its channel.                               *)

LEMMA OneBatch ==
  ASSUME NEW wire \in Seq(Batch), NEW i \in DOMAIN wire, NEW b \in Batch,
         NEW v, v = [wire EXCEPT ![i] = b]
  PROVE  /\ v \in Seq(Batch) /\ DOMAIN v = DOMAIN wire /\ Len(v) = Len(wire) /\ v[i] = b
         /\ \A j \in DOMAIN wire \ {i} : v[j] = wire[j]
<1>1. Len(wire) \in Nat /\ DOMAIN wire = 1 .. Len(wire) /\ wire \in [1 .. Len(wire) -> Batch]
  OBVIOUS
<1>2. v \in [1 .. Len(wire) -> Batch] /\ v[i] = b /\ \A j \in DOMAIN wire \ {i} : v[j] = wire[j]
  BY <1>1
<1>3. v \in Seq(Batch) /\ Len(v) = Len(wire)
  BY <1>1, <1>2
<1> QED BY <1>1, <1>2, <1>3

\* One batch of the wire has other flags, and the window may change.
Flags(s, t, i) ==
  /\ t \in WorkerSet /\ Steady(s, t) /\ SameMarks(s, t) /\ t.outbox = s.outbox
  /\ t.clears = s.clears /\ t.out = s.out
  /\ t.sched = s.sched /\ t.chase = s.chase
  /\ DOMAIN t.wire = DOMAIN s.wire /\ Len(t.wire) = Len(s.wire)
  /\ t.wire[i].ops = s.wire[i].ops /\ t.wire[i].seq = s.wire[i].seq
  /\ t.wire[i].bytes = s.wire[i].bytes
  /\ \A j \in DOMAIN s.wire \ {i} : t.wire[j] = s.wire[j]

Reflag(s, i, b, x) == [s EXCEPT !.window = x, !.wire = [s.wire EXCEPT ![i] = b]]

LEMMA FlagsStep ==
  ASSUME NEW s \in WorkerSet, NEW i \in DOMAIN s.wire, NEW b \in Batch, NEW x \in Int,
         b.ops = s.wire[i].ops, b.seq = s.wire[i].seq, b.bytes = s.wire[i].bytes,
         NEW t, t = Reflag(s, i, b, x)
  PROVE  Flags(s, t, i) /\ t.window = x /\ t.wire[i] = b
<1>0. PICK v : v = [s.wire EXCEPT ![i] = b]
  OBVIOUS
<1>1. s.wire \in Seq(Batch)
  BY WorkerFields
<1>2. /\ v \in Seq(Batch) /\ DOMAIN v = DOMAIN s.wire /\ Len(v) = Len(s.wire) /\ v[i] = b
      /\ \A j \in DOMAIN s.wire \ {i} : v[j] = s.wire[j]
  BY <1>0, <1>1, OneBatch
<1>3. PICK u \in Wires : u = v
  BY <1>2 DEF Wires
<1>4. t = [s EXCEPT !.window = x, !.wire = u]
  BY <1>0, <1>3 DEF Reflag
<1>5. /\ t \in WorkerSet /\ Steady(s, t) /\ SameMarks(s, t) /\ t.outbox = s.outbox
      /\ t.clears = s.clears /\ t.out = s.out /\ t.wire = u /\ t.window = x
      /\ t.sched = s.sched /\ t.chase = s.chase
  BY <1>4 DEF WorkerSet, Steady, SameMarks
<1> QED BY <1>2, <1>3, <1>5 DEF Flags

LEMMA FlagLots ==
  ASSUME NEW s \in WorkerSet, NEW i \in DOMAIN s.wire, NEW t, Flags(s, t, i)
  PROVE  /\ Lots(t) = Lots(s) /\ i \in Lots(s) /\ LastLot(t) = LastLot(s)
         /\ \A j \in Lots(s) : OpsAt(t, j) = OpsAt(s, j) /\ SeqAt(t, j) = SeqAt(s, j)
         /\ \A j \in Lots(s) \ {i} : j \in Due(t) <=> j \in Due(s)
         /\ i \in Due(s) <=> s.wire[i].due
         /\ i \in Due(t) <=> t.wire[i].due
<1>1. Lots(t) = Lots(s) /\ i \in Lots(s) /\ LastLot(t) = LastLot(s)
  BY LastFacts DEF Flags, Lots, LastLot
<1>2. \A j \in Lots(s) : OpsAt(t, j) = OpsAt(s, j) /\ SeqAt(t, j) = SeqAt(s, j)
  BY DEF Flags, OpsAt, SeqAt, Steady
<1>3. \A j \in Lots(s) \ {i} : j \in Due(t) <=> j \in Due(s)
  BY <1>1 DEF Flags, Due
<1>4. (i \in Due(s) <=> s.wire[i].due) /\ (i \in Due(t) <=> t.wire[i].due)
  BY <1>1 DEF Flags, Due
<1> QED BY <1>1, <1>2, <1>3, <1>4

CalledBack(s, i) ==
  [s EXCEPT !.window = @ - s.wire[i].bytes,
            !.wire = [s.wire EXCEPT ![i] = [s.wire[i] EXCEPT !.cb = FALSE]]]

LEMMA WrittenStep ==
  ASSUME NEW s \in WorkerSet, NEW i \in DOMAIN s.wire, s.wire[i].cb,
         NEW t, t = CalledBack(s, i)
  PROVE  /\ t \in WorkerSet /\ Calm(s, t) /\ (Windowed(s) => Windowed(t))
         /\ t.outbox = s.outbox /\ Flags(s, t, i) /\ t.wire[i].due = s.wire[i].due
<1> USE DEF CalledBack
<1>1. PICK b : b = [s.wire[i] EXCEPT !.cb = FALSE]
  OBVIOUS
<1>2. /\ b \in Batch /\ b.ops = s.wire[i].ops /\ b.seq = s.wire[i].seq
      /\ b.bytes = s.wire[i].bytes /\ b.due = s.wire[i].due /\ ~b.cb
  <2>1. s.wire[i] \in Batch
    BY BatchFields
  <2> QED BY <1>1, <2>1 DEF Batch
<1>3. PICK x \in Int : x = s.window - s.wire[i].bytes
  BY WorkerFields, BatchFields
<1>5. t = Reflag(s, i, b, x)
  BY <1>1, <1>3 DEF Reflag
<1>6. Flags(s, t, i) /\ t.window = x /\ t.wire[i] = b
  <2>1. PICK u : u = Reflag(s, i, b, x)
    OBVIOUS
  <2>2. Flags(s, u, i) /\ u.window = x /\ u.wire[i] = b
    BY <1>2, <2>1, FlagsStep
  <2> QED BY <1>5, <2>1, <2>2
<1>7. 0 \notin Lots(s) /\ 0 \notin DOMAIN s.wire /\ 0 \notin DOMAIN t.wire
  BY <1>6, LastFacts DEF Flags
<1>8. /\ Lots(t) = Lots(s)
      /\ \A j \in Lots(s) : /\ OpsAt(t, j) = OpsAt(s, j) /\ SeqAt(t, j) = SeqAt(s, j)
                            /\ j \in Due(t) <=> j \in Due(s)
  <2>0. PICK u : u = t
    OBVIOUS
  <2>2. Flags(s, u, i)
    BY <1>6, <2>0
  <2>1. /\ Lots(u) = Lots(s) /\ i \in Lots(s)
        /\ \A j \in Lots(s) : OpsAt(u, j) = OpsAt(s, j) /\ SeqAt(u, j) = SeqAt(s, j)
        /\ \A j \in Lots(s) \ {i} : j \in Due(u) <=> j \in Due(s)
        /\ i \in Due(s) <=> s.wire[i].due
        /\ i \in Due(u) <=> u.wire[i].due
    BY <2>2, FlagLots
  <2> QED BY <1>2, <1>6, <2>0, <2>1
<1>9. OpsAt(t, 0) = OpsAt(s, 0)
  BY <1>6, <1>7 DEF OpsAt, Flags
<1>10. Due(t) \subseteq Lots(t)
  BY DueLots
<1>11. Calm(s, t)
  <2>1. Alike(s, t, 0)
    BY <1>7, <1>8, <1>9, <1>10 DEF Alike
  <2> QED BY <1>6, <2>1 DEF Calm, Flags
<1>12. Windowed(s) => Windowed(t)
  <2>1. /\ t \in WorkerSet /\ DOMAIN t.wire = DOMAIN s.wire /\ ~t.wire[i].cb
        /\ t.wire[i].bytes = s.wire[i].bytes /\ t.window = s.window - s.wire[i].bytes
        /\ \A j \in DOMAIN s.wire \ {i} : t.wire[j] = s.wire[j]
    BY <1>2, <1>3, <1>6 DEF Flags
  <2> QED BY <2>1, CallbackWindow
<1> QED BY <1>2, <1>6, <1>11, <1>12 DEF Flags

Failed(s, i) ==
  ReleaseBatchMarks([s EXCEPT !.window = @ - s.wire[i].bytes,
                              !.wire[i] = [s.wire[i] EXCEPT !.due = FALSE, !.cb = FALSE]],
                    s.wire[i].ops, s.wire[i].seq)

LEMMA FailedStep ==
  ASSUME NEW s \in WorkerSet, NEW i \in DOMAIN s.wire, s.wire[i].cb, s.wire[i].due,
         NEW t, t = Failed(s, i)
  PROVE  t \in WorkerSet /\ Drops(s, t, i) /\ (Windowed(s) => Windowed(t))
<1> USE DEF Failed
<1>1. PICK b : b = [s.wire[i] EXCEPT !.due = FALSE, !.cb = FALSE]
  OBVIOUS
<1>2. /\ b \in Batch /\ b.ops = s.wire[i].ops /\ b.seq = s.wire[i].seq
      /\ b.bytes = s.wire[i].bytes /\ ~b.due /\ ~b.cb
  <2>1. s.wire[i] \in Batch
    BY BatchFields
  <2> QED BY <1>1, <2>1 DEF Batch
<1>3. PICK x \in Int : x = s.window - s.wire[i].bytes
  BY WorkerFields, BatchFields
<1>5. PICK u : u = Reflag(s, i, b, x)
  OBVIOUS
<1>6. Flags(s, u, i) /\ u.window = x /\ u.wire[i] = b
  BY <1>2, <1>5, FlagsStep
<1>7. PICK o, n : o = s.wire[i].ops /\ n = s.wire[i].seq
  OBVIOUS
<1>8. t = ReleaseBatchMarks(u, o, n) /\ n \in Nat /\ u \in WorkerSet
  BY <1>1, <1>3, <1>5, <1>6, <1>7, BatchFields DEF Flags, Reflag
<1>9. /\ t \in WorkerSet /\ Released(u, t, o, n)
      /\ t.wire = u.wire /\ t.window = u.window /\ t.outbox = u.outbox
      /\ t.clears = u.clears /\ t.out = u.out /\ Steady(u, t)
  BY <1>8, ReleaseFacts
<1>10. OpsAt(s, i) = o /\ SeqAt(s, i) = n
  BY <1>7 DEF OpsAt, SeqAt
<1>11. Steady(s, t) /\ Released(s, t, OpsAt(s, i), SeqAt(s, i))
  <2>1. \A side \in Sides, k \in Keys : MarkOf(u, side, k) = MarkOf(s, side, k)
    BY <1>6 DEF Flags, SameMarks, MarkOf
  <2>2. Released(s, t, o, n)
    BY <1>9, <2>1 DEF Released
  <2> QED BY <1>6, <1>9, <1>10, <2>2 DEF Flags, Steady
<1>12. /\ Lots(t) = Lots(u) /\ Due(t) = Due(u)
       /\ \A j : SeqAt(t, j) = SeqAt(u, j) /\ OpsAt(t, j) = OpsAt(u, j)
  BY <1>9, SameLots DEF Steady
<1>13. /\ Lots(u) = Lots(s) /\ i \in Lots(s)
       /\ \A j \in Lots(s) : OpsAt(u, j) = OpsAt(s, j) /\ SeqAt(u, j) = SeqAt(s, j)
       /\ \A j \in Lots(s) \ {i} : j \in Due(u) <=> j \in Due(s)
       /\ i \notin Due(u)
  <2>1. /\ Lots(u) = Lots(s) /\ i \in Lots(s)
        /\ \A j \in Lots(s) : OpsAt(u, j) = OpsAt(s, j) /\ SeqAt(u, j) = SeqAt(s, j)
        /\ \A j \in Lots(s) \ {i} : j \in Due(u) <=> j \in Due(s)
        /\ i \in Due(s) <=> s.wire[i].due
        /\ i \in Due(u) <=> u.wire[i].due
    BY <1>6, FlagLots
  <2> QED BY <1>2, <1>6, <2>1
<1>14. Alike(s, t, i)
  BY <1>12, <1>13 DEF Alike
<1>15. Drops(s, t, i)
  BY <1>11, <1>12, <1>13, <1>14 DEF Drops
<1>16. Windowed(s) => Windowed(t)
  BY <1>2, <1>3, <1>6, <1>8, <1>9, CallbackWindow DEF Flags
<1> QED BY <1>9, <1>15, <1>16

Taken(s, i) == [s EXCEPT !.wire = [s.wire EXCEPT ![i] = [s.wire[i] EXCEPT !.due = FALSE]]]

LEMMA DeliverStep ==
  ASSUME NEW s \in WorkerSet, NEW i \in DOMAIN s.wire, s.wire[i].due,
         NEW t, t = Taken(s, i)
  PROVE  /\ t \in WorkerSet /\ Delivered(s, t, i) /\ (Windowed(s) => Windowed(t))
         /\ Flags(s, t, i) /\ (Dead(s) => Dead(t))
<1> USE DEF Taken
<1>1. PICK b : b = [s.wire[i] EXCEPT !.due = FALSE]
  OBVIOUS
<1>2. /\ b \in Batch /\ b.ops = s.wire[i].ops /\ b.seq = s.wire[i].seq
      /\ b.bytes = s.wire[i].bytes /\ b.cb = s.wire[i].cb /\ ~b.due
  <2>1. s.wire[i] \in Batch
    BY BatchFields
  <2> QED BY <1>1, <2>1 DEF Batch
<1>3. PICK x \in Int : x = s.window
  BY WorkerFields
<1>5. t = Reflag(s, i, b, x)
  BY <1>1, <1>3 DEF WorkerSet, Reflag
<1>6. Flags(s, t, i) /\ t.window = x /\ t.wire[i] = b
  <2>1. PICK u : u = Reflag(s, i, b, x)
    OBVIOUS
  <2>2. Flags(s, u, i) /\ u.window = x /\ u.wire[i] = b
    BY <1>2, <2>1, FlagsStep
  <2> QED BY <1>5, <2>1, <2>2
<1>7. /\ Lots(t) = Lots(s) /\ i \in Lots(s)
      /\ \A j \in Lots(s) : OpsAt(t, j) = OpsAt(s, j) /\ SeqAt(t, j) = SeqAt(s, j)
      /\ \A j \in Lots(s) \ {i} : j \in Due(t) <=> j \in Due(s)
      /\ i \in Due(s) /\ i \notin Due(t)
  <2>0. PICK u : u = t
    OBVIOUS
  <2>2. Flags(s, u, i)
    BY <1>6, <2>0
  <2>1. /\ Lots(u) = Lots(s) /\ i \in Lots(s)
        /\ \A j \in Lots(s) : OpsAt(u, j) = OpsAt(s, j) /\ SeqAt(u, j) = SeqAt(s, j)
        /\ \A j \in Lots(s) \ {i} : j \in Due(u) <=> j \in Due(s)
        /\ i \in Due(s) <=> s.wire[i].due
        /\ i \in Due(u) <=> u.wire[i].due
    BY <2>2, FlagLots
  <2> QED BY <1>2, <1>6, <2>0, <2>1
<1>8. Due(t) = Due(s) \ {i}
  BY <1>7, DueLots
<1>9. Delivered(s, t, i)
  BY <1>6, <1>7, <1>8 DEF Delivered, Flags
<1>10. Awaiting(t) = Awaiting(s) /\ Bytes(t) = Bytes(s)
  BY <1>2, <1>6 DEF Awaiting, Bytes, Flags
<1>11. Windowed(s) => Windowed(t)
  BY <1>3, <1>6, <1>10 DEF Windowed
<1>12. \A j \in DOMAIN s.wire : t.wire[j].cb = s.wire[j].cb
  BY <1>2, <1>6 DEF Flags
<1>13. Dead(s) => Dead(t)
  BY <1>6, <1>12 DEF Flags, Dead, Steady, SameMarks, MarkOf
<1> QED BY <1>6, <1>9, <1>11, <1>13 DEF Flags

DrainOf(s, q) ==
  [s EXCEPT !.cursor = Len(q),
            !.del = [k \in Keys |-> IF Met(s, q, k, @[k]) THEN NoMark ELSE @[k]],
            !.write = [k \in Keys |-> IF Met(s, q, k, @[k]) THEN NoMark ELSE @[k]]]

LEMMA DrainStep ==
  ASSUME NEW s \in WorkerSet, NEW q \in Seq(Records), NEW t, t = DrainOf(s, q)
  PROVE  /\ t \in WorkerSet /\ Drained(s, t, q) /\ (Windowed(s) => Windowed(t))
         /\ t.clears = s.clears /\ t.out = s.out
<1> USE DEF DrainOf
<1>1. PICK D : D = [k \in Keys |-> IF Met(s, q, k, s.del[k]) THEN NoMark ELSE s.del[k]]
  OBVIOUS
<1>2. PICK W : W = [k \in Keys |-> IF Met(s, q, k, s.write[k]) THEN NoMark ELSE s.write[k]]
  OBVIOUS
<1>3. PICK n \in Nat : n = Len(q)
  OBVIOUS
<1>4. t = [s EXCEPT !.cursor = n, !.del = D, !.write = W]
  BY <1>1, <1>2, <1>3
<1>5. NoMark \in Mark /\ s.del \in [Keys -> Mark] /\ s.write \in [Keys -> Mark]
  BY WorkerFields DEF NoMark, Mark
<1>6. D \in MarkTable /\ W \in MarkTable
  BY <1>1, <1>2, <1>5 DEF MarkTable
<1>7. /\ t \in WorkerSet /\ t.cursor = n /\ t.del = D /\ t.write = W /\ t.seq = s.seq
      /\ t.last = s.last /\ t.wire = s.wire /\ t.outbox = s.outbox /\ t.window = s.window
      /\ t.clears = s.clears /\ t.out = s.out
  BY <1>4, <1>6 DEF WorkerSet
<1>8. Drained(s, t, q)
  BY <1>1, <1>2, <1>3, <1>7 DEF Drained, MarkOf, Sides
<1> QED BY <1>7, <1>8, SameWindow

-----------------------------------------------------------------------------
(* The operations of a clear that are on their way.                        *)

ClearOps == {"c", "+", "-"}
Counts(s, op) == [i \in Lots(s) |-> Count(OpsAt(s, i), op)]
Pend(s, op) == Tally(Due(s), Counts(s, op))
\* What opens a generation is followed by its clear.
Covered(s) ==
  \A i \in Due(s) : Counts(s, "+")[i] >= 1 => \E j \in Due(s) : j >= i /\ Counts(s, "c")[j] >= 1

LEMMA TallyZero ==
  ASSUME NEW S, IsFiniteSet(S), NEW f, \A x \in S : f[x] \in Nat
  PROVE  /\ (\A x \in S : f[x] = 0) => Tally(S, f) = 0
         /\ \A x \in S : f[x] <= Tally(S, f)
<1>1. ASSUME \A x \in S : f[x] = 0 PROVE Tally(S, f) = 0
  <2>1. Units(S, f) = {}
    <3> SUFFICES ASSUME NEW x \in S, NEW p \in {x} \X (1 .. f[x]) PROVE FALSE
      BY DEF Units
    <3>1. f[x] = 0
      BY <1>1
    <3>2. 1 .. f[x] = {}
      BY <3>1
    <3> QED BY <3>2
  <2> QED BY <2>1, FS_EmptySet DEF Tally
<1>2. ASSUME NEW x \in S PROVE f[x] <= Tally(S, f)
  <2>1. Tally(S, f) = f[x] + Tally(S \ {x}, f) /\ Tally(S \ {x}, f) \in Nat
    BY TallyTakes
  <2> QED BY <2>1
<1> QED BY <1>1, <1>2

LEMMA DueFinite ==
  ASSUME NEW s \in WorkerSet, NEW op
  PROVE  /\ IsFiniteSet(Due(s)) /\ (\A i \in Due(s) : Counts(s, op)[i] \in Nat) /\ Pend(s, op) \in Nat
         /\ \A i \in Lots(s) : Counts(s, op)[i] = Count(OpsAt(s, i), op) /\ Counts(s, op)[i] \in Nat
<1>1. LastLot(s) \in Nat /\ Lots(s) = 1 .. LastLot(s)
  BY WorkerFields DEF LastLot, Lots
<1>2. IsFiniteSet(1 .. LastLot(s))
  BY <1>1, FS_Interval
<1>3. IsFiniteSet(Due(s)) /\ Due(s) \subseteq Lots(s)
  BY <1>1, <1>2, FS_Subset, DueLots
<1>4. \A i \in Lots(s) : Counts(s, op)[i] = Count(OpsAt(s, i), op) /\ Counts(s, op)[i] \in Nat
  BY LotFacts, FirstFacts DEF Counts, Count
<1>5. \A i \in Due(s) : Counts(s, op)[i] \in Nat
  BY <1>3, <1>4
<1>6. Pend(s, op) \in Nat
  <2>1. PICK S, f : S = Due(s) /\ f = Counts(s, op)
    OBVIOUS
  <2>2. Tally(S, f) \in Nat
    BY <1>3, <1>5, <2>1, TallyType
  <2> QED BY <2>1, <2>2 DEF Pend
<1> QED BY <1>3, <1>4, <1>5, <1>6

LEMMA FirstStep ==
  ASSUME NEW p, NEW n \in Nat, NEW op
  PROVE  \A m : m = n + 1 =>
           Cardinality(First(p, m, op)) =
             Cardinality(First(p, n, op)) + IF p[m].op = op THEN 1 ELSE 0
<1>1. Cardinality(First(p, n + 1, op)) =
        Cardinality(First(p, n, op)) + IF p[n + 1].op = op THEN 1 ELSE 0
  BY FirstFacts
<1> QED BY <1>1

LEMMA CountNext ==
  ASSUME NEW p, NEW q, NEW n \in Nat, NEW op, Len(p) = n + 1, Len(q) = n,
         \A i \in 1 .. n : p[i] = q[i]
  PROVE  Count(p, op) = Count(q, op) + IF p[n + 1].op = op THEN 1 ELSE 0
<1>1. First(p, n, op) = First(q, n, op)
  BY DEF First
<1>2. Cardinality(First(p, Len(p), op)) =
        Cardinality(First(p, n, op)) + IF p[Len(p)].op = op THEN 1 ELSE 0
  BY FirstStep
<1> QED BY <1>1, <1>2 DEF Count

LEMMA CountAppend ==
  ASSUME NEW q \in Seq(Entries), NEW e \in Entries, NEW op
  PROVE  Count(Append(q, e), op) = Count(q, op) + IF e.op = op THEN 1 ELSE 0
<1>1. PICK p : p = Append(q, e)
  OBVIOUS
<1>2. PICK n \in Nat : n = Len(q)
  OBVIOUS
<1>3. n \in Nat /\ Len(p) = n + 1 /\ Len(q) = n /\ p[n + 1] = e /\ \A i \in 1 .. n : p[i] = q[i]
  BY <1>1, <1>2
<1>4. Count(p, op) = Count(q, op) + IF p[n + 1].op = op THEN 1 ELSE 0
  BY <1>3, CountNext
<1> QED BY <1>1, <1>3, <1>4

\* Leaving the writes out leaves the count of a clear's operations.
LEMMA CountKept ==
  ASSUME NEW q \in Seq(Entries), NEW op \in ClearOps
  PROVE  Count(Kept(q, {i \in DOMAIN q : Keyless(q[i])}), op) = Count(q, op)
<1>0. PICK J : J = {i \in DOMAIN q : Keyless(q[i])}
  OBVIOUS
<1>1. J \subseteq 1 .. Len(q) /\ Len(q) \in Nat /\ \A i \in 1 .. Len(q) : Keyless(q[i]) => i \in J
  BY <1>0
<1>2. PICK p : p = Kept(q, J)
  OBVIOUS
<1>3. p \in Seq(Entries) /\ \E h : Places(h, p, q, J)
  BY <1>1, <1>2, KeptPlaces
<1>4. PICK h : Places(h, p, q, J)
  BY <1>3
<1> DEFINE A == First(p, Len(p), op)
           B == First(q, Len(q), op)
<1>5. Len(p) \in Nat
  BY <1>3
<1>6. IsFiniteSet(A) /\ IsFiniteSet(B)
  BY <1>1, <1>5, FirstFacts
<1>7. /\ \A i \in 1 .. Len(p) : h[i] \in J /\ p[i] = q[h[i]]
      /\ \A i, j \in 1 .. Len(p) : i < j => h[i] < h[j]
      /\ \A x \in J : \E i \in 1 .. Len(p) : h[i] = x
  BY <1>4 DEF Places
<1>8. \A i \in A : i \in 1 .. Len(p) /\ p[i].op = op /\ i \in Nat
  BY DEF First
<1>9. \A i \in A : h[i] \in B
  <2> SUFFICES ASSUME NEW i \in A PROVE h[i] \in B
    OBVIOUS
  <2>1. h[i] \in J /\ p[i] = q[h[i]] /\ p[i].op = op
    BY <1>7, <1>8
  <2> QED BY <1>1, <2>1 DEF First
<1>10. ASSUME NEW x \in B PROVE \E i \in A : h[i] = x
  <2>1. x \in 1 .. Len(q) /\ q[x].op = op
    BY DEF First
  <2>2. Keyless(q[x])
    BY <2>1 DEF Keyless, ClearOps
  <2>3. x \in J
    BY <1>1, <2>1, <2>2
  <2>4. PICK i \in 1 .. Len(p) : h[i] = x
    BY <1>7, <2>3
  <2>5. p[i].op = op
    BY <1>7, <2>1, <2>4
  <2> QED BY <2>4, <2>5 DEF First
<1>11. ASSUME NEW i \in A, NEW j \in A, h[i] = h[j] PROVE i = j
  <2>1. i \in 1 .. Len(p) /\ j \in 1 .. Len(p) /\ i \in Nat /\ j \in Nat
    BY <1>8
  <2>4. h[i] \in 1 .. Len(q) /\ h[j] \in 1 .. Len(q)
    BY <1>1, <1>7, <2>1
  <2>2. h[i] \in Nat /\ h[j] \in Nat
    BY <1>1, <2>4
  <2>3. (i < j => h[i] < h[j]) /\ (j < i => h[j] < h[i])
    BY <1>7, <2>1
  <2> QED BY <1>11, <2>1, <2>2, <2>3
<1> HIDE DEF A, B
<1>12. PICK g : g = [i \in A |-> h[i]]
  OBVIOUS
<1>13. g \in [A -> B] /\ (\A i, j \in A : g[i] = g[j] => i = j) /\ \A x \in B : \E i \in A : g[i] = x
  BY <1>9, <1>10, <1>11, <1>12
<1>14. g \in Surjection(A, B)
  BY <1>13 DEF Surjection
<1>15. Cardinality(B) <= Cardinality(A)
  BY <1>6, <1>14, FS_Surjection
<1>16. PICK f : f = [x \in B |-> CHOOSE i \in A : g[i] = x]
  OBVIOUS
<1>17. \A x \in B : f[x] \in A /\ g[f[x]] = x
  BY <1>13, <1>16
<1>18. \A i \in A : f[g[i]] = i /\ g[i] \in B
  BY <1>13, <1>17
<1>19. f \in [B -> A]
  BY <1>16, <1>17
<1>20. f \in Surjection(B, A)
  BY <1>18, <1>19 DEF Surjection
<1>21. Cardinality(A) <= Cardinality(B)
  BY <1>6, <1>20, FS_Surjection
<1>22. Cardinality(A) \in Nat /\ Cardinality(B) \in Nat
  BY <1>6, FS_CardinalityType
<1>23. Cardinality(A) = Cardinality(B)
  BY <1>15, <1>21, <1>22
<1>24. Count(p, op) = Count(q, op)
  BY <1>23 DEF A, B, Count
<1> QED BY <1>0, <1>2, <1>24

\* The same counts at the same lots.
LEMMA SamePend ==
  ASSUME NEW s \in WorkerSet, NEW t \in WorkerSet, Due(t) = Due(s), Lots(t) = Lots(s),
         \A op \in ClearOps : \A i \in Due(s) : Count(OpsAt(t, i), op) = Count(OpsAt(s, i), op)
  PROVE  (\A op \in ClearOps : Pend(t, op) = Pend(s, op)) /\ (Covered(s) => Covered(t))
<1>1. \A op \in ClearOps : \A i \in Due(s) : Counts(t, op)[i] = Counts(s, op)[i]
  BY DueLots DEF Counts
<1>2. \A op \in ClearOps : Pend(t, op) = Pend(s, op)
  BY <1>1, TallySame DEF Pend
<1>3. \A i \in Due(s) : Counts(t, "+")[i] = Counts(s, "+")[i] /\ Counts(t, "c")[i] = Counts(s, "c")[i]
  BY <1>1 DEF ClearOps
<1> QED BY <1>2, <1>3 DEF Covered

LEMMA SentPend ==
  ASSUME NEW s \in WorkerSet, NEW t \in WorkerSet, Sent(s, t)
  PROVE  (\A op \in ClearOps : Pend(t, op) = Pend(s, op)) /\ (Covered(s) => Covered(t))
<1>1. PICK n : n = LastLot(s) + 1
  OBVIOUS
<1>2. /\ n \notin Lots(s) /\ Due(t) = Due(s) \cup {n} /\ OpsAt(t, n) = <<>> /\ Due(s) \subseteq Lots(s)
      /\ \A i \in Lots(s) : OpsAt(t, i) = OpsAt(s, i)
      /\ Lots(t) = Lots(s) \cup {n}
  BY <1>1, SentAt, DueLots DEF Sent
<1>3. \A op : Count(<<>>, op) = 0
  <2> SUFFICES ASSUME NEW op PROVE Count(<<>>, op) = 0
    OBVIOUS
  <2>1. First(<<>>, 0, op) = {}
    BY DEF First
  <2> QED BY <2>1, FS_EmptySet DEF Count
<1>4. ASSUME NEW op
      PROVE  Counts(t, op)[n] = 0 /\ \A i \in Due(s) : Counts(t, op)[i] = Counts(s, op)[i]
  <2>1. n \in Lots(t) /\ Counts(t, op)[n] = Count(<<>>, op)
    BY <1>2 DEF Counts
  <2> QED BY <1>2, <1>3, <2>1 DEF Counts
<1>5. ASSUME NEW op PROVE Pend(t, op) = Pend(s, op)
  <2>1. PICK S, T, f, g : S = Due(s) /\ T = Due(t) /\ f = Counts(s, op) /\ g = Counts(t, op)
    OBVIOUS
  <2>2. IsFiniteSet(T) /\ (\A i \in T : g[i] \in Nat) /\ n \in T /\ T \ {n} = S /\ g[n] = 0
    BY <1>2, <1>4, <2>1, DueFinite
  <2>3. Tally(T, g) = g[n] + Tally(T \ {n}, g) /\ Tally(T \ {n}, g) \in Nat
    BY <2>2, TallyTakes
  <2>4. \A i \in S : f[i] = g[i]
    BY <1>4, <2>1
  <2>5. Tally(S, f) = Tally(S, g)
    BY <2>4, TallySame
  <2>6. Tally(T \ {n}, g) = Tally(S, f)
    BY <2>2, <2>5
  <2>7. Tally(T, g) = Tally(S, f)
    BY <2>2, <2>3, <2>6
  <2> QED BY <2>1, <2>7 DEF Pend
<1>6. Covered(s) => Covered(t)
  BY <1>2, <1>4 DEF Covered
<1> QED BY <1>5, <1>6

\* One more entry at the end of the outbox.
LEMMA AddPend ==
  ASSUME NEW s \in WorkerSet, NEW t \in WorkerSet, NEW e \in Entries,
         t.wire = s.wire, t.outbox = Append(s.outbox, e)
  PROVE  /\ \A op \in ClearOps : Pend(t, op) = Pend(s, op) + IF e.op = op THEN 1 ELSE 0
         /\ Covered(s) /\ e.op # "+" => Covered(t)
         /\ e.op = "c" => Covered(t)
<1>1. /\ Lots(t) = Lots(s) /\ LastLot(t) = LastLot(s) /\ Due(t) = Due(s)
      /\ \A i \in Lots(s) \ {LastLot(s)} : OpsAt(t, i) = OpsAt(s, i)
  BY WireKept
<1>2. PICK n : n = LastLot(s)
  OBVIOUS
<1>3. /\ n \in Lots(s) /\ n \in Due(s) /\ OpsAt(s, n) = s.outbox /\ OpsAt(t, n) = t.outbox
      /\ Due(s) \subseteq Lots(s) /\ \A i \in Lots(s) : i <= n /\ i \in Nat
  BY <1>1, <1>2, LastFacts, DueLots
<1>4. s.outbox \in Seq(Entries)
  BY WorkerFields
<1>5. ASSUME NEW op
      PROVE  /\ Counts(t, op)[n] = Counts(s, op)[n] + IF e.op = op THEN 1 ELSE 0
             /\ \A i \in Due(s) \ {n} : Counts(t, op)[i] = Counts(s, op)[i]
  <2>1. Count(t.outbox, op) = Count(s.outbox, op) + IF e.op = op THEN 1 ELSE 0
    BY <1>4, CountAppend
  <2> QED BY <1>1, <1>2, <1>3, <2>1 DEF Counts
<1>6. ASSUME NEW op PROVE Pend(t, op) = Pend(s, op) + IF e.op = op THEN 1 ELSE 0
  <2>1. PICK S, f, g : S = Due(s) /\ f = Counts(s, op) /\ g = Counts(t, op)
    OBVIOUS
  <2>2. /\ IsFiniteSet(S) /\ (\A i \in S : f[i] \in Nat) /\ (\A i \in S : g[i] \in Nat) /\ n \in S
        /\ \A i \in S : i # n => g[i] = f[i]
    BY <1>1, <1>3, <1>5, <2>1, DueFinite
  <2>3. Tally(S, g) = Tally(S, f) - f[n] + g[n] /\ Tally(S, f) \in Nat /\ f[n] \in Nat /\ g[n] \in Nat
    BY <2>2, TallyChange
  <2>4. g[n] = f[n] + IF e.op = op THEN 1 ELSE 0
    BY <1>5, <2>1
  <2>5. Tally(S, g) = Tally(S, f) + IF e.op = op THEN 1 ELSE 0
    BY <2>3, <2>4
  <2> QED BY <1>1, <2>1, <2>5 DEF Pend
<1>7. \A i \in Due(s) : /\ Counts(t, "c")[i] >= 1 \/ ~(Counts(s, "c")[i] >= 1)
                        /\ e.op # "+" => Counts(t, "+")[i] = Counts(s, "+")[i]
  <2> SUFFICES ASSUME NEW i \in Due(s)
               PROVE  /\ Counts(t, "c")[i] >= 1 \/ ~(Counts(s, "c")[i] >= 1)
                      /\ e.op # "+" => Counts(t, "+")[i] = Counts(s, "+")[i]
    OBVIOUS
  <2>1. Counts(s, "c")[i] \in Nat /\ Counts(s, "+")[i] \in Nat
    BY DueFinite
  <2>2. CASE i = n
    BY <1>5, <2>1, <2>2
  <2>3. CASE i # n
    BY <1>5, <2>3
  <2> QED BY <2>2, <2>3
<1>8. Covered(s) /\ e.op # "+" => Covered(t)
  BY <1>1, <1>7 DEF Covered
<1>9. ASSUME e.op = "c" PROVE Covered(t)
  <2>1. Counts(t, "c")[n] >= 1
    <3>1. Counts(s, "c")[n] \in Nat
      BY <1>3, DueFinite
    <3> QED BY <1>5, <1>9, <3>1
  <2>2. \A i \in Due(t) : n >= i
    BY <1>1, <1>3
  <2> QED BY <1>1, <1>3, <2>1, <2>2 DEF Covered
<1> QED BY <1>6, <1>8, <1>9

-----------------------------------------------------------------------------
(* The operations of a clear survive a flush, and a delivery takes them.   *)

\* t has the same of them on their way as s.
SameClears(s, t) ==
  /\ \A op \in ClearOps : Pend(t, op) = Pend(s, op)
  /\ Covered(s) => Covered(t)
  /\ ~HasBad(s) => ~HasBad(t)
  /\ t.clears = s.clears /\ t.out = s.out

LEMMA SameClearsStep ==
  ASSUME NEW s \in WorkerSet, NEW t \in WorkerSet, t.wire = s.wire, t.outbox = s.outbox
  PROVE  /\ \A op \in ClearOps : Pend(t, op) = Pend(s, op)
         /\ Covered(s) => Covered(t)
         /\ ~HasBad(s) => ~HasBad(t)
<1>1. Lots(t) = Lots(s) /\ Due(t) = Due(s) /\ LastLot(t) = LastLot(s)
  BY WireKept
<1>2. \A i : OpsAt(t, i) = OpsAt(s, i)
  BY DEF OpsAt
<1> QED BY <1>1, <1>2, SamePend DEF HasBad

LEMMA SameClearsMore ==
  ASSUME NEW s, NEW t, NEW u, SameClears(s, t), SameClears(t, u)
  PROVE  SameClears(s, u)
BY DEF SameClears

LEMMA FlushClears ==
  ASSUME NEW s \in WorkerSet, ~HasBad(s), NEW t, t = Flush(s, TRUE)
  PROVE  t \in WorkerSet /\ SameClears(s, t)
<1>1. /\ t \in WorkerSet /\ t.clears = s.clears /\ t.out = s.out
      /\ \/ Rests(s, t) \/ Leaves(s, t, TRUE) \/ IsLost(s, t, TRUE) \/ IsShed(s, t)
  BY FlushEnds
<1>2. CASE Rests(s, t)
  BY <1>1, <1>2, SameClearsStep DEF Rests, SameClears
<1>3. CASE Leaves(s, t, TRUE)
  <2>1. Sent(s, t) /\ t.outbox = <<>>
    BY <1>3 DEF Leaves
  <2>2. ~HasBad(t)
    <3>1. \A q : q = <<>> => DOMAIN q = {}
      OBVIOUS
    <3> QED BY <2>1, <3>1 DEF HasBad
  <2> QED BY <1>1, <2>1, <2>2, SentPend DEF SameClears
<1>4. CASE IsShed(s, t)
  <2>1. PICK J : J = KeylessAt(s)
    OBVIOUS
  <2>2. t.wire = s.wire /\ t.outbox = Kept(s.outbox, J)
    BY <1>4, <2>1 DEF IsShed
  <2>3. /\ Lots(t) = Lots(s) /\ Due(t) = Due(s) /\ LastLot(t) = LastLot(s)
        /\ \A i \in Lots(s) \ {LastLot(s)} : OpsAt(t, i) = OpsAt(s, i)
    BY <1>1, <2>2, WireKept
  <2>4. /\ OpsAt(s, LastLot(s)) = s.outbox /\ OpsAt(t, LastLot(s)) = t.outbox
        /\ Due(s) \subseteq Lots(s)
    BY <1>1, <2>3, LastFacts, DueLots
  <2>5. s.outbox \in Seq(Entries)
    BY WorkerFields
  <2>6. \A op \in ClearOps : Count(t.outbox, op) = Count(s.outbox, op)
    BY <2>1, <2>2, <2>5, CountKept DEF KeylessAt
  <2>7. \A op \in ClearOps : \A i \in Due(s) : Count(OpsAt(t, i), op) = Count(OpsAt(s, i), op)
    BY <2>3, <2>4, <2>6
  <2>8. (\A op \in ClearOps : Pend(t, op) = Pend(s, op)) /\ (Covered(s) => Covered(t))
    BY <1>1, <2>3, <2>7, SamePend
  <2>9. ~HasBad(t)
    <3> SUFFICES ASSUME NEW i \in DOMAIN t.outbox PROVE ~t.outbox[i].bad
      BY DEF HasBad
    <3>1. \E j \in DOMAIN s.outbox : t.outbox[i] = s.outbox[j]
      <4>1. Alike(s, t, LastLot(s))
        BY <1>4 DEF IsShed, Drops
      <4> QED BY <2>4, <4>1 DEF Alike
    <3> QED BY <3>1 DEF HasBad
  <2> QED BY <1>1, <2>8, <2>9 DEF SameClears
<1>5. CASE IsLost(s, t, TRUE)
  BY <1>5 DEF IsLost
<1> QED BY <1>1, <1>2, <1>3, <1>4, <1>5

\* A published entry is one more of its kind; of a clear, the last covers the rest.
LEMMA PublishClears ==
  ASSUME NEW s \in WorkerSet, ~HasBad(s), NEW e \in Entries, ~e.bad,
         NEW t, t = Publish(s, e, TRUE)
  PROVE  /\ t \in WorkerSet /\ ~HasBad(t) /\ t.clears = s.clears /\ t.out = s.out
         /\ \A op \in ClearOps : Pend(t, op) = Pend(s, op) + IF e.op = op THEN 1 ELSE 0
         /\ Covered(s) /\ e.op # "+" => Covered(t)
         /\ e.op = "c" => Covered(t)
<1>1. PICK u : u = Appended(s, e)
  OBVIOUS
<1>2. /\ u \in WorkerSet /\ u.wire = s.wire /\ u.outbox = Append(s.outbox, e)
      /\ u.clears = s.clears /\ u.out = s.out
  BY <1>1, AppendedFields
<1>3. /\ \A op \in ClearOps : Pend(u, op) = Pend(s, op) + IF e.op = op THEN 1 ELSE 0
      /\ Covered(s) /\ e.op # "+" => Covered(u)
      /\ e.op = "c" => Covered(u)
  BY <1>2, AddPend
<1>4. ~HasBad(u)
  <2>1. \A o \in Seq(Entries) : \A p : p = Append(o, e) =>
          \A i \in DOMAIN p : p[i] = e \/ (i \in DOMAIN o /\ p[i] = o[i])
    OBVIOUS
  <2>2. s.outbox \in Seq(Entries)
    BY WorkerFields
  <2> QED BY <1>2, <2>1, <2>2 DEF HasBad
<1>5. t = Flush(u, TRUE) \/ t = [u EXCEPT !.sched = TRUE]
  <2>1. \/ t = Flush(Appended(s, e), TRUE)
        \/ t = [Appended(s, e) EXCEPT !.sched = TRUE]
    BY PublishIs
  <2> QED BY <1>1, <2>1
<1>6. t \in WorkerSet /\ SameClears(u, t)
  <2>1. CASE t = Flush(u, TRUE)
    BY <1>2, <1>4, <2>1, FlushClears
  <2>2. CASE t = [u EXCEPT !.sched = TRUE]
    <3>1. t \in WorkerSet /\ t.wire = u.wire /\ t.outbox = u.outbox /\ t.clears = u.clears /\ t.out = u.out
      BY <1>2, <2>2, SchedCalm DEF Rests
    <3> QED BY <1>2, <3>1, SameClearsStep DEF SameClears
  <2> QED BY <1>5, <2>1, <2>2
<1> QED BY <1>2, <1>3, <1>4, <1>6 DEF SameClears

\* The oldest batch is taken.
LEMMA DeliverClears ==
  ASSUME NEW s \in WorkerSet, NEW t \in WorkerSet, NEW x, Delivered(s, t, x),
         \A i \in Due(s) : x <= i, t.outbox = s.outbox
  PROVE  /\ \A op \in ClearOps : /\ Pend(s, op) = Pend(t, op) + Count(OpsAt(s, x), op)
                                 /\ Count(OpsAt(s, x), op) \in Nat
         /\ Covered(s) => Covered(t)
         /\ ~HasBad(s) => ~HasBad(t)
<1>1. /\ Due(t) = Due(s) \ {x} /\ x \in Due(s) /\ Lots(t) = Lots(s) /\ Due(s) \subseteq Lots(s)
      /\ \A i \in Lots(s) : OpsAt(t, i) = OpsAt(s, i)
  BY DueLots DEF Delivered
<1>2. \A op : \A i \in Lots(s) : Counts(t, op)[i] = Counts(s, op)[i]
  BY <1>1 DEF Counts
<1>3. ASSUME NEW op
      PROVE  /\ Pend(s, op) = Pend(t, op) + Count(OpsAt(s, x), op)
             /\ Count(OpsAt(s, x), op) \in Nat
  <2>1. PICK S, T, f, g : S = Due(s) /\ T = Due(t) /\ f = Counts(s, op) /\ g = Counts(t, op)
    OBVIOUS
  <2>2. /\ IsFiniteSet(S) /\ (\A i \in S : f[i] \in Nat) /\ x \in S /\ T = S \ {x}
        /\ f[x] = Count(OpsAt(s, x), op)
    BY <1>1, <2>1, DueFinite
  <2>3. Tally(S, f) = f[x] + Tally(S \ {x}, f) /\ Tally(S \ {x}, f) \in Nat /\ f[x] \in Nat
    BY <2>2, TallyTakes
  <2>4. \A i \in T : f[i] = g[i]
    BY <1>1, <1>2, <2>1
  <2>5. Tally(T, f) = Tally(T, g)
    BY <2>4, TallySame
  <2>6. Tally(S \ {x}, f) = Tally(T, g)
    BY <2>2, <2>5
  <2>7. Tally(S, f) = Tally(T, g) + f[x]
    BY <2>3, <2>6
  <2> QED BY <2>1, <2>2, <2>3, <2>7 DEF Pend
<1>4. ASSUME Covered(s), NEW i \in Due(t), Counts(t, "+")[i] >= 1
      PROVE  \E j \in Due(t) : j >= i /\ Counts(t, "c")[j] >= 1
  <2>1. i \in Due(s) /\ i # x /\ Counts(s, "+")[i] >= 1
    BY <1>1, <1>2, <1>4
  <2>2. PICK j \in Due(s) : j >= i /\ Counts(s, "c")[j] >= 1
    BY <1>4, <2>1 DEF Covered
  <2>3. j # x
    <3>1. x <= i /\ i \in Nat /\ x \in Nat
      BY <1>1, <2>1, LotFacts
    <3> QED BY <2>1, <2>2, <3>1
  <2> QED BY <1>1, <1>2, <2>2, <2>3
<1>5. ~HasBad(s) => ~HasBad(t)
  BY DEF HasBad
<1> QED BY <1>3, <1>4, <1>5 DEF Covered

\* The clears of a worker on a channel that works: what is owed for them, and on
\* its way, covers those that L3 has not applied.
Fenced(s, owed, done) ==
  /\ ~HasBad(s) /\ Covered(s)
  /\ Pend(s, "-") + s.out <= owed + Pend(s, "+")
  /\ done + Pend(s, "c") <= s.clears

LEMMA SameFenced ==
  ASSUME NEW s, NEW t, SameClears(s, t), NEW owed, NEW done, Fenced(s, owed, done)
  PROVE  Fenced(t, owed, done)
BY DEF SameClears, Fenced, ClearOps

LEMMA DeliverFenced ==
  ASSUME NEW s \in WorkerSet, NEW t \in WorkerSet, NEW x, Delivered(s, t, x),
         \A i \in Due(s) : x <= i, t.outbox = s.outbox, t.clears = s.clears, t.out = s.out,
         NEW owed \in Nat, NEW done \in Nat, Fenced(s, owed, done), NEW owes \in Nat,
         owes >= owed + Count(OpsAt(s, x), "+") - Count(OpsAt(s, x), "-")
  PROVE  Fenced(t, owes, done + Count(OpsAt(s, x), "c"))
<1>1. /\ Pend(s, "+") = Pend(t, "+") + Count(OpsAt(s, x), "+") /\ Count(OpsAt(s, x), "+") \in Nat
      /\ Pend(s, "-") = Pend(t, "-") + Count(OpsAt(s, x), "-") /\ Count(OpsAt(s, x), "-") \in Nat
      /\ Pend(s, "c") = Pend(t, "c") + Count(OpsAt(s, x), "c") /\ Count(OpsAt(s, x), "c") \in Nat
      /\ Covered(s) => Covered(t)
      /\ ~HasBad(s) => ~HasBad(t)
  <2>1. \A op \in ClearOps : /\ Pend(s, op) = Pend(t, op) + Count(OpsAt(s, x), op)
                             /\ Count(OpsAt(s, x), op) \in Nat
    BY DeliverClears
  <2>2. (Covered(s) => Covered(t)) /\ (~HasBad(s) => ~HasBad(t))
    BY DeliverClears
  <2> QED BY <2>1, <2>2 DEF ClearOps
<1>2. /\ Pend(t, "+") \in Nat /\ Pend(t, "-") \in Nat /\ Pend(t, "c") \in Nat
      /\ s.out \in Nat /\ s.clears \in Nat
  BY DueFinite, WorkerFields
<1> QED BY <1>1, <1>2 DEF Fenced

\* A clear that has emptied the arena and that L3 has not applied is owed for.
LEMMA FencedOwes ==
  ASSUME NEW s \in WorkerSet, NEW owed \in Nat, NEW done \in Nat, Fenced(s, owed, done),
         done = s.clears, s.out > 0
  PROVE  owed >= 1
<1>1. /\ Pend(s, "+") \in Nat /\ Pend(s, "-") \in Nat /\ Pend(s, "c") \in Nat
      /\ s.out \in Nat /\ s.clears \in Nat
  BY DueFinite, WorkerFields
<1>2. Pend(s, "c") = 0
  BY <1>1 DEF Fenced
<1>3. \A i \in Due(s) : Counts(s, "c")[i] = 0
  <2>1. PICK S, f : S = Due(s) /\ f = Counts(s, "c")
    OBVIOUS
  <2>2. IsFiniteSet(S) /\ \A i \in S : f[i] \in Nat
    BY <2>1, DueFinite
  <2>3. \A i \in S : f[i] <= Tally(S, f)
    BY <2>2, TallyZero
  <2>4. Tally(S, f) = 0
    BY <1>2, <2>1 DEF Pend
  <2>5. \A i \in S : f[i] = 0
    BY <2>2, <2>3, <2>4
  <2> QED BY <2>1, <2>5
<1>4. \A i \in Due(s) : Counts(s, "+")[i] = 0
  <2>1. \A i \in Due(s) : Counts(s, "+")[i] \in Nat
    BY DueFinite
  <2>2. \A i \in Due(s) : ~(Counts(s, "+")[i] >= 1)
    BY <1>3 DEF Fenced, Covered
  <2> QED BY <2>1, <2>2
<1>5. Pend(s, "+") = 0
  <2>1. PICK S, f : S = Due(s) /\ f = Counts(s, "+")
    OBVIOUS
  <2>2. IsFiniteSet(S) /\ (\A i \in S : f[i] \in Nat) /\ \A i \in S : f[i] = 0
    BY <1>4, <2>1, DueFinite
  <2>3. Tally(S, f) = 0
    BY <2>2, TallyZero
  <2> QED BY <2>1, <2>3 DEF Pend
<1> QED BY <1>1, <1>5 DEF Fenced

-----------------------------------------------------------------------------
(* The operations of a worker.                                             *)

EntryOf(op, k, seq, at, bad, n) ==
  [op |-> op, key |-> k, seq |-> seq, at |-> at, bad |-> bad, n |-> n]

LEMMA EntryIs ==
  ASSUME NEW op, NEW k, NEW seq \in Nat, NEW at \in Nat, NEW bad \in BOOLEAN, NEW n \in Nat,
         \/ op \in {"s", "d"} /\ k \in Keys
         \/ op \in ClearOps /\ k = NoKey /\ seq = 0,
         NEW e, e = EntryOf(op, k, seq, at, bad, n)
  PROVE  /\ e \in Entries /\ (Keyless(e) <=> op \in ClearOps)
         /\ e.op = op /\ e.key = k /\ e.seq = seq /\ e.at = at /\ e.bad = bad /\ e.n = n
<1>1. /\ e.op = op /\ e.key = k /\ e.seq = seq /\ e.at = at /\ e.bad = bad /\ e.n = n
      /\ op \in OpNames /\ k \in Keys \cup {NoKey}
  BY DEF EntryOf, OpNames, ClearOps
<1>2. e \in [op : OpNames, key : Keys \cup {NoKey}, seq : Nat, at : Nat, bad : BOOLEAN, n : Nat]
  BY <1>1 DEF EntryOf
<1>3. Keyless(e) <=> op \in ClearOps
  BY <1>1 DEF Keyless, ClearOps
<1>4. op \in ClearOps => op \notin {"s", "d"}
  BY DEF ClearOps
<1> QED BY <1>1, <1>2, <1>3, <1>4 DEF Entries

After(N) == N + 1

\* What is published after the marks were changed.
LEMMA WriteStep ==
  ASSUME NEW s, NEW q, NEW N \in Nat, Fit(s, q, N), Windowed(s), NEW e \in Entries, NEW k,
         NEW u \in WorkerSet, u.wire = s.wire, u.outbox = s.outbox, u.window = s.window,
         u.clears = s.clears, u.out = s.out, Writes(s, u, e, k, q, N),
         NEW connected \in BOOLEAN, NEW t, t = Publish(u, e, connected), NEW M, M = After(N)
  PROVE  /\ t \in WorkerSet /\ Fit(t, q, M) /\ Windowed(t)
         /\ Anchored(s, q) /\ (\A side \in Sides : MarkOf(u, side, k) = [seq |-> e.seq, at |-> e.at]
                                /\ e.seq > 0 => e.op = side)
              => Anchored(t, q)
         /\ connected /\ ~e.bad /\ ~HasBad(s) => SameClears(s, t)
<1> USE DEF After
<1>0. s \in WorkerSet
  BY DEF Fit, Sane
<1>1. PICK v : v = Appended(u, e)
  OBVIOUS
<1>2. /\ v \in WorkerSet /\ Steady(u, v) /\ SameMarks(u, v) /\ v.wire = s.wire
      /\ v.outbox = Append(s.outbox, e)
  BY <1>1, AppendedFields
<1>3. Adds(s, v, e)
  BY <1>0, <1>2, AddsShape
<1>4. \A side \in Sides, j \in Keys : MarkOf(v, side, j) = MarkOf(u, side, j)
  BY <1>2 DEF SameMarks, MarkOf
<1>5. k \in Keys /\ e.key = k
  BY DEF Writes
<1>6. Writes(s, v, e, k, q, N)
  <2>1. HasMark(u, e) => HasMark(v, e)
    BY <1>4, <1>5 DEF HasMark
  <2>2. v.seq = u.seq /\ v.last = u.last /\ v.cursor = u.cursor
    BY <1>2 DEF Steady
  <2> QED BY <1>4, <2>1, <2>2 DEF Writes
<1>7. /\ Fit(v, q, N + 1)
      /\ Anchored(s, q) /\ (\A side \in Sides : MarkOf(v, side, k) = [seq |-> e.seq, at |-> e.at]
                             /\ e.seq > 0 => e.op = side)
           => Anchored(v, q)
  BY <1>2, <1>3, <1>6, AddKey
<1>8. /\ t \in WorkerSet /\ Fit(t, q, N + 1) /\ (Anchored(v, q) => Anchored(t, q))
  <2>1. Fit(Appended(u, e), q, N + 1)
    BY <1>1, <1>7
  <2>2. /\ t \in WorkerSet /\ Fit(t, q, N + 1) /\ (Anchored(Appended(u, e), q) => Anchored(t, q))
    BY <2>1, PublishFit
  <2> QED BY <1>1, <2>2
<1>9. Windowed(u)
  BY SameWindow
<1>10. Windowed(t)
  BY <1>9, PublishWindow
<1>11. ASSUME connected, ~e.bad, ~HasBad(s) PROVE SameClears(s, t)
  <2>1. /\ \A op \in ClearOps : Pend(u, op) = Pend(s, op)
        /\ Covered(s) => Covered(u)
        /\ ~HasBad(u)
    BY <1>0, <1>11, SameClearsStep
  <2>2. t = Publish(u, e, TRUE)
    BY <1>11
  <2>3. /\ ~HasBad(t) /\ t.clears = u.clears /\ t.out = u.out
        /\ \A op \in ClearOps : Pend(t, op) = Pend(u, op) + IF e.op = op THEN 1 ELSE 0
        /\ Covered(u) /\ e.op # "+" => Covered(t)
    BY <1>11, <2>1, <2>2, PublishClears
  <2>4. \A op \in ClearOps : e.op # op
    BY DEF Writes, Keyless, ClearOps
  <2>5. \A op \in ClearOps : Pend(s, op) \in Nat
    BY <1>0, DueFinite
  <2>6. \A op \in ClearOps : Pend(t, op) = Pend(s, op)
    BY <2>1, <2>3, <2>4, <2>5
  <2>7. e.op # "+"
    BY <2>4 DEF ClearOps
  <2> QED BY <2>1, <2>3, <2>6, <2>7 DEF SameClears
<1> QED BY <1>4, <1>5, <1>7, <1>8, <1>10, <1>11

\* The sequence, the mark and the entry of a set, and the worker with its mark.
SetSeq(s, level) == IF level = 1 THEN s.seq ELSE s.seq + 1
SetMark(level, seq, q) == IF level = 1 THEN NoMark ELSE [seq |-> seq, at |-> Len(q)]
SetEntry(level, k, mark, bad, N) ==
  EntryOf(IF level = 3 THEN "d" ELSE "s", k, mark.seq, mark.at, bad, N + 1)
SetMarked(s, k, mark, seq, N) ==
  [s EXCEPT !.del[k] = NoMark, !.write[k] = mark, !.seq = seq, !.last[k] = N + 1]

LEMMA SetIs ==
  ASSUME NEW s, NEW q, NEW N \in Nat, Fit(s, q, N), NEW k \in Keys, NEW level \in {1, 2, 3},
         NEW bad \in BOOLEAN, NEW seq, seq = SetSeq(s, level),
         NEW mark, mark = SetMark(level, seq, q),
         NEW e, e = SetEntry(level, k, mark, bad, N),
         NEW u, u = SetMarked(s, k, mark, seq, N)
  PROVE  /\ u \in WorkerSet /\ u.wire = s.wire /\ u.outbox = s.outbox /\ u.window = s.window
         /\ u.clears = s.clears /\ u.out = s.out /\ Writes(s, u, e, k, q, N)
         /\ e \in Entries /\ e.bad = bad
         /\ \A side \in Sides : MarkOf(u, side, k) = [seq |-> e.seq, at |-> e.at] /\ e.seq > 0
                                  => side = "s"
         /\ level # 3 => e.op = "s"
<1> USE DEF SetSeq, SetMark, SetEntry, SetMarked
<1>1. /\ s \in WorkerSet /\ s.seq \in Nat /\ Len(q) \in Nat /\ s.del \in [Keys -> Mark]
      /\ s.write \in [Keys -> Mark] /\ s.last \in [Keys -> Nat]
  BY WorkerFields DEF Fit, Sane
<1>2. /\ seq \in Nat /\ mark \in Mark /\ mark.seq \in Nat /\ mark.at \in Nat /\ NoMark \in Mark
      /\ NoMark.seq = 0
      /\ level = 1 => seq = s.seq /\ mark = NoMark /\ mark.seq = 0
      /\ level # 1 => seq = s.seq + 1 /\ mark.seq = seq /\ mark.at = Len(q)
      /\ mark = [seq |-> mark.seq, at |-> mark.at]
  BY <1>1 DEF Mark, NoMark
<1>3. PICK D : D = [s.del EXCEPT ![k] = NoMark]
  OBVIOUS
<1>4. PICK W : W = [s.write EXCEPT ![k] = mark]
  OBVIOUS
<1>5. PICK L : L = [s.last EXCEPT ![k] = N + 1]
  OBVIOUS
<1>6. D \in MarkTable /\ W \in MarkTable /\ L \in LastOps
  BY <1>1, <1>2, <1>3, <1>4, <1>5 DEF MarkTable, LastOps
<1>7. PICK n : n = seq
  OBVIOUS
<1>8. PICK v : v = [s EXCEPT !.del = D, !.write = W, !.seq = n, !.last = L]
  OBVIOUS
<1>9. u = v
  BY <1>3, <1>4, <1>5, <1>7, <1>8
<1>10. n \in Nat
  BY <1>2, <1>7
<1>11. /\ v \in WorkerSet /\ v.wire = s.wire /\ v.outbox = s.outbox /\ v.window = s.window
       /\ v.clears = s.clears /\ v.out = s.out /\ v.cursor = s.cursor
       /\ v.del = D /\ v.write = W /\ v.seq = n /\ v.last = L
  BY <1>1, <1>6, <1>8, <1>10 DEF WorkerSet
<1>12. /\ e \in Entries /\ ~Keyless(e) /\ e.op = (IF level = 3 THEN "d" ELSE "s")
       /\ e.key = k /\ e.seq = mark.seq /\ e.at = mark.at /\ e.bad = bad /\ e.n = N + 1
  <2>1. PICK op : op = IF level = 3 THEN "d" ELSE "s"
    OBVIOUS
  <2>2. op \in {"s", "d"} /\ op \notin ClearOps /\ N + 1 \in Nat
    BY <2>1 DEF ClearOps
  <2>3. PICK x, y, m : x = mark.seq /\ y = mark.at /\ m = N + 1
    OBVIOUS
  <2>4. PICK d : d = EntryOf(op, k, x, y, bad, m)
    OBVIOUS
  <2>5. d = e
    BY <2>1, <2>3, <2>4
  <2>6. x \in Nat /\ y \in Nat /\ m \in Nat
    BY <1>2, <2>2, <2>3
  <2>7. /\ d \in Entries /\ (Keyless(d) <=> op \in ClearOps)
        /\ d.op = op /\ d.key = k /\ d.seq = x /\ d.at = y /\ d.bad = bad /\ d.n = m
    BY <2>2, <2>4, <2>6, EntryIs
  <2> QED BY <2>1, <2>2, <2>3, <2>5, <2>7
<1>13. /\ MarkOf(v, "d", k) = NoMark /\ MarkOf(v, "s", k) = mark
       /\ \A side \in Sides, j \in Keys : j # k => MarkOf(v, side, j) = MarkOf(s, side, j)
  BY <1>1, <1>3, <1>4, <1>11 DEF MarkOf
<1>14. level # 1 => HasMark(v, e) /\ e.seq = v.seq /\ v.seq = s.seq + 1 /\ e.at = Len(q)
  BY <1>2, <1>7, <1>11, <1>12, <1>13 DEF HasMark, Sides
<1>15. level = 1 => v.seq = s.seq /\ e.seq = 0
  BY <1>2, <1>7, <1>11, <1>12
<1>16. ASSUME NEW side \in Sides, NEW j \in Keys
       PROVE  \/ MarkOf(v, side, j) = MarkOf(s, side, j)
              \/ j = k /\ MarkOf(v, side, j) = NoMark
              \/ j = k /\ MarkOf(v, side, j) = [seq |-> e.seq, at |-> e.at] /\ e.seq > 0
  <2>1. CASE j # k
    BY <1>13, <2>1
  <2>2. CASE j = k /\ side = "d"
    BY <1>13, <2>2
  <2>3. CASE j = k /\ side = "s" /\ level = 1
    BY <1>2, <1>13, <2>3
  <2>4. CASE j = k /\ side = "s" /\ level # 1
    <3>1. e.seq > 0
      BY <1>1, <1>14, <2>4
    <3>2. mark = [seq |-> e.seq, at |-> e.at]
      BY <1>2, <1>12
    <3> QED BY <1>13, <2>4, <3>1, <3>2
  <2> QED BY <2>1, <2>2, <2>3, <2>4 DEF Sides
<1>17. Writes(s, v, e, k, q, N)
  BY <1>5, <1>11, <1>12, <1>14, <1>15, <1>16 DEF Writes
<1>18. \A side \in Sides : MarkOf(v, side, k) = [seq |-> e.seq, at |-> e.at] /\ e.seq > 0
                             => side = "s"
  <2> SUFFICES ASSUME MarkOf(v, "d", k) = [seq |-> e.seq, at |-> e.at], e.seq > 0 PROVE FALSE
    BY DEF Sides
  <2> QED BY <1>13 DEF NoMark
<1> QED BY <1>9, <1>11, <1>12, <1>17, <1>18

\* The same of a delete.
DelMark(s, q) == [seq |-> s.seq + 1, at |-> Len(q)]
DelEntry(k, mark, N) == EntryOf("d", k, mark.seq, mark.at, FALSE, N + 1)
DelMarked(s, k, mark, N) == [s EXCEPT !.del[k] = mark, !.seq = @ + 1, !.last[k] = N + 1]

LEMMA DeleteIs ==
  ASSUME NEW s, NEW q, NEW N \in Nat, Fit(s, q, N), NEW k \in Keys,
         NEW mark, mark = DelMark(s, q), NEW e, e = DelEntry(k, mark, N),
         NEW u, u = DelMarked(s, k, mark, N)
  PROVE  /\ u \in WorkerSet /\ u.wire = s.wire /\ u.outbox = s.outbox /\ u.window = s.window
         /\ u.clears = s.clears /\ u.out = s.out /\ Writes(s, u, e, k, q, N)
         /\ e \in Entries /\ ~e.bad /\ e.op = "d"
         /\ \A side \in Sides : MarkOf(u, side, k) = [seq |-> e.seq, at |-> e.at] /\ e.seq > 0
                                  => side = "d"
<1> USE DEF DelMark, DelEntry, DelMarked
<1>1. /\ s \in WorkerSet /\ s.seq \in Nat /\ Len(q) \in Nat /\ s.del \in [Keys -> Mark]
      /\ s.write \in [Keys -> Mark] /\ s.last \in [Keys -> Nat]
  BY WorkerFields DEF Fit, Sane
<1>2. /\ mark \in Mark /\ mark.seq = s.seq + 1 /\ mark.at = Len(q)
      /\ mark = [seq |-> mark.seq, at |-> mark.at]
  BY <1>1 DEF Mark
<1>3. PICK D : D = [s.del EXCEPT ![k] = mark]
  OBVIOUS
<1>5. PICK L : L = [s.last EXCEPT ![k] = N + 1]
  OBVIOUS
<1>6. D \in MarkTable /\ L \in LastOps
  BY <1>1, <1>2, <1>3, <1>5 DEF MarkTable, LastOps
<1>7. PICK n : n = s.seq + 1
  OBVIOUS
<1>8. PICK v : v = [s EXCEPT !.del = D, !.seq = n, !.last = L]
  OBVIOUS
<1>9. u = v
  BY <1>3, <1>5, <1>7, <1>8
<1>10. n \in Nat
  BY <1>1, <1>7
<1>11. /\ v \in WorkerSet /\ v.wire = s.wire /\ v.outbox = s.outbox /\ v.window = s.window
       /\ v.clears = s.clears /\ v.out = s.out /\ v.cursor = s.cursor
       /\ v.del = D /\ v.write = s.write /\ v.seq = n /\ v.last = L
  BY <1>1, <1>6, <1>8, <1>10 DEF WorkerSet
<1>12. /\ e \in Entries /\ ~Keyless(e) /\ e.op = "d"
       /\ e.key = k /\ e.seq = mark.seq /\ e.at = mark.at /\ ~e.bad /\ e.n = N + 1
  <2>0. PICK op : op = "d"
    OBVIOUS
  <2>1. PICK bad \in BOOLEAN : bad = FALSE
    OBVIOUS
  <2>2. op \in {"s", "d"} /\ op \notin ClearOps /\ N + 1 \in Nat /\ bad \in BOOLEAN
    BY <2>0, <2>1 DEF ClearOps
  <2>3. PICK x, y, m : x = mark.seq /\ y = mark.at /\ m = N + 1
    OBVIOUS
  <2>4. PICK d : d = EntryOf(op, k, x, y, bad, m)
    OBVIOUS
  <2>5. d = e
    BY <2>0, <2>1, <2>3, <2>4
  <2>6. x \in Nat /\ y \in Nat /\ m \in Nat
    BY <1>1, <1>2, <2>2, <2>3
  <2>7. /\ d \in Entries /\ (Keyless(d) <=> op \in ClearOps)
        /\ d.op = op /\ d.key = k /\ d.seq = x /\ d.at = y /\ d.bad = bad /\ d.n = m
    BY <2>2, <2>4, <2>6, EntryIs
  <2> QED BY <2>0, <2>1, <2>2, <2>3, <2>5, <2>7
<1>13. /\ MarkOf(v, "d", k) = mark /\ MarkOf(v, "s", k) = MarkOf(s, "s", k)
       /\ \A side \in Sides, j \in Keys : j # k => MarkOf(v, side, j) = MarkOf(s, side, j)
  BY <1>1, <1>3, <1>11 DEF MarkOf
<1>14. HasMark(v, e) /\ e.seq = v.seq /\ v.seq = s.seq + 1 /\ e.at = Len(q) /\ e.seq > 0
  <2>1. e.seq = v.seq /\ v.seq = s.seq + 1 /\ e.at = Len(q)
    BY <1>2, <1>7, <1>11, <1>12
  <2>2. MarkOf(v, "d", e.key).seq = e.seq /\ "d" \in Sides
    BY <1>12, <1>13 DEF Sides
  <2>3. HasMark(v, e)
    BY <2>2 DEF HasMark
  <2>4. \A z \in Nat : z + 1 > 0
    OBVIOUS
  <2>5. s.seq + 1 > 0
    BY <1>1, <2>4
  <2> QED BY <2>1, <2>3, <2>5
<1>15. mark = [seq |-> e.seq, at |-> e.at]
  BY <1>2, <1>12
<1>16. ASSUME NEW side \in Sides, NEW j \in Keys
       PROVE  \/ MarkOf(v, side, j) = MarkOf(s, side, j)
              \/ j = k /\ MarkOf(v, side, j) = NoMark
              \/ j = k /\ MarkOf(v, side, j) = [seq |-> e.seq, at |-> e.at] /\ e.seq > 0
  BY <1>13, <1>14, <1>15 DEF Sides
<1>17. Writes(s, v, e, k, q, N)
  BY <1>5, <1>11, <1>12, <1>14, <1>16 DEF Writes
<1>18. \A side \in Sides : MarkOf(v, side, k) = [seq |-> e.seq, at |-> e.at] /\ e.seq > 0
                             => side = "d"
  <2> SUFFICES ASSUME MarkOf(v, "s", k) = [seq |-> e.seq, at |-> e.at], e.seq > 0 PROVE FALSE
    BY DEF Sides
  <2>1. MarkOf(s, "s", k).seq <= s.seq
    BY DEF Fit, Sane, Sides
  <2>2. MarkOf(s, "s", k).seq = s.seq + 1
    <3>1. PICK m : m = MarkOf(s, "s", k)
      OBVIOUS
    <3>2. m = [seq |-> e.seq, at |-> e.at]
      BY <1>13, <3>1
    <3>3. m.seq = e.seq
      BY <3>2
    <3> QED BY <1>14, <3>1, <3>3
  <2> QED BY <1>1, <2>1, <2>2
<1> QED BY <1>9, <1>11, <1>12, <1>17, <1>18

-----------------------------------------------------------------------------
(* A clear, its settle and the flushes.                                    *)

LEMMA QuietPublish ==
  ASSUME NEW s, NEW q, NEW N, Fit(s, q, N), Windowed(s), NEW e \in Entries, Keyless(e),
         NEW connected \in BOOLEAN, NEW t, t = Publish(s, e, connected)
  PROVE  /\ t \in WorkerSet /\ Fit(t, q, N) /\ Windowed(t)
         /\ Anchored(s, q) => Anchored(t, q)
<1>0. s \in WorkerSet
  BY DEF Fit, Sane
<1>1. PICK v : v = Appended(s, e)
  OBVIOUS
<1>2. /\ v \in WorkerSet /\ Steady(s, v) /\ SameMarks(s, v) /\ v.wire = s.wire
      /\ v.outbox = Append(s.outbox, e)
  BY <1>0, <1>1, AppendedFields
<1>3. Adds(s, v, e)
  BY <1>0, <1>2, AddsShape
<1>4. Fit(v, q, N) /\ (Anchored(s, q) => Anchored(v, q))
  BY <1>2, <1>3, AddQuiet
<1>5. Fit(Appended(s, e), q, N)
  BY <1>1, <1>4
<1>6. /\ t \in WorkerSet /\ Fit(t, q, N) /\ (Anchored(Appended(s, e), q) => Anchored(t, q))
  BY <1>0, <1>5, PublishFit
<1>7. Windowed(t)
  BY <1>0, PublishWindow
<1> QED BY <1>1, <1>4, <1>6, <1>7

LEMMA FlushStep ==
  ASSUME NEW s, NEW q, NEW N, Fit(s, q, N), Windowed(s),
         NEW connected \in BOOLEAN, NEW t, t = Flush(s, connected)
  PROVE  /\ t \in WorkerSet /\ Fit(t, q, N) /\ Windowed(t)
         /\ Anchored(s, q) => Anchored(t, q)
         /\ connected /\ ~HasBad(s) => SameClears(s, t)
<1>0. s \in WorkerSet
  BY DEF Fit, Sane
<1>1. t \in WorkerSet /\ Fit(t, q, N) /\ (Anchored(s, q) => Anchored(t, q))
  BY FlushFit
<1>2. Windowed(t)
  BY <1>0, FlushWindow
<1>3. connected /\ ~HasBad(s) => SameClears(s, t)
  BY <1>0, FlushClears
<1> QED BY <1>1, <1>2, <1>3

LEMMA ChasedStep ==
  ASSUME NEW s, NEW q, NEW N, Fit(s, q, N), Windowed(s),
         NEW connected \in BOOLEAN, NEW t, t = Chased(s, connected)
  PROVE  /\ t \in WorkerSet /\ Fit(t, q, N) /\ Windowed(t)
         /\ Anchored(s, q) => Anchored(t, q)
         /\ connected /\ ~HasBad(s) => SameClears(s, t)
<1>1. PICK u : u = Flush(s, connected)
  OBVIOUS
<1>2. /\ u \in WorkerSet /\ Fit(u, q, N) /\ Windowed(u)
      /\ Anchored(s, q) => Anchored(u, q)
      /\ connected /\ ~HasBad(s) => SameClears(s, u)
  BY <1>1, FlushStep
<1>3. PICK c \in BOOLEAN : c = (u.outbox # <<>> /\ connected)
  OBVIOUS
<1>4. t = [u EXCEPT !.chase = c]
  BY <1>1, <1>3 DEF Chased
<1>5. /\ t \in WorkerSet /\ Steady(u, t) /\ SameMarks(u, t) /\ t.wire = u.wire
      /\ t.outbox = u.outbox /\ t.window = u.window /\ t.clears = u.clears /\ t.out = u.out
  BY <1>2, <1>3, <1>4 DEF WorkerSet, Steady, SameMarks
<1>6. Calm(u, t)
  BY <1>2, <1>5, CalmStep
<1>7. Fit(t, q, N) /\ (Anchored(u, q) => Anchored(t, q))
  BY <1>2, <1>5, <1>6, CalmFit
<1>8. Windowed(t)
  BY <1>2, <1>5, SameWindow
<1>9. SameClears(u, t)
  BY <1>2, <1>5, SameClearsStep DEF SameClears
<1> QED BY <1>2, <1>5, <1>7, <1>8, <1>9, SameClearsMore

\* L3 has applied one: the settle is published, and chased.
LEMMA SettleStep ==
  ASSUME NEW s, NEW q, NEW N, Fit(s, q, N), Windowed(s), s.out > 0,
         NEW e \in Entries, e.op = "-", ~e.bad, NEW connected \in BOOLEAN,
         NEW t, t = Chased(Publish([s EXCEPT !.out = @ - 1], e, connected), connected)
  PROVE  /\ t \in WorkerSet /\ Fit(t, q, N) /\ Windowed(t)
         /\ Anchored(s, q) => Anchored(t, q)
         /\ connected => \A owed \in Nat, done \in Nat : Fenced(s, owed, done) => Fenced(t, owed, done)
<1>0. s \in WorkerSet /\ s.out \in Nat /\ s.clears \in Nat
  BY WorkerFields DEF Fit, Sane
<1>1. PICK n \in Nat : n = s.out - 1
  BY <1>0
<1>2. PICK u : u = [s EXCEPT !.out = n]
  OBVIOUS
<1>3. PICK v : v = Publish(u, e, connected)
  OBVIOUS
<1>4. t = Chased(v, connected)
  BY <1>1, <1>2, <1>3
<1>5. /\ u \in WorkerSet /\ Steady(s, u) /\ SameMarks(s, u) /\ u.wire = s.wire
      /\ u.outbox = s.outbox /\ u.window = s.window /\ u.clears = s.clears /\ u.out = n
  BY <1>0, <1>1, <1>2 DEF WorkerSet, Steady, SameMarks
<1>6. Calm(s, u)
  BY <1>0, <1>5, CalmStep
<1>7. Fit(u, q, N) /\ (Anchored(s, q) => Anchored(u, q))
  BY <1>5, <1>6, CalmFit
<1>8. Windowed(u)
  BY <1>5, SameWindow
<1>9. Keyless(e)
  BY DEF Keyless
<1>10. /\ v \in WorkerSet /\ Fit(v, q, N) /\ Windowed(v)
       /\ Anchored(u, q) => Anchored(v, q)
  BY <1>3, <1>7, <1>8, <1>9, QuietPublish
<1>11. /\ t \in WorkerSet /\ Fit(t, q, N) /\ Windowed(t)
       /\ Anchored(v, q) => Anchored(t, q)
       /\ connected /\ ~HasBad(v) => SameClears(v, t)
  BY <1>4, <1>10, ChasedStep
<1>12. ASSUME connected, NEW owed \in Nat, NEW done \in Nat, Fenced(s, owed, done)
       PROVE  Fenced(t, owed, done)
  <2>1. /\ \A op \in ClearOps : Pend(u, op) = Pend(s, op)
        /\ Covered(u) /\ ~HasBad(u)
    BY <1>0, <1>5, <1>12, SameClearsStep DEF Fenced
  <2>2. v = Publish(u, e, TRUE)
    BY <1>3, <1>12
  <2>3. /\ ~HasBad(v) /\ v.clears = u.clears /\ v.out = u.out
        /\ \A op \in ClearOps : Pend(v, op) = Pend(u, op) + IF e.op = op THEN 1 ELSE 0
        /\ Covered(v)
    BY <1>5, <2>1, <2>2, PublishClears
  <2>4. /\ Pend(u, "+") = Pend(s, "+") /\ Pend(u, "-") = Pend(s, "-") /\ Pend(u, "c") = Pend(s, "c")
        /\ Pend(s, "+") \in Nat /\ Pend(s, "-") \in Nat /\ Pend(s, "c") \in Nat
    BY <1>0, <2>1, DueFinite DEF ClearOps
  <2>5. Pend(v, "+") = Pend(s, "+") /\ Pend(v, "-") = Pend(s, "-") + 1 /\ Pend(v, "c") = Pend(s, "c")
    <3>1. /\ Pend(v, "+") = Pend(u, "+") + (IF e.op = "+" THEN 1 ELSE 0)
          /\ Pend(v, "-") = Pend(u, "-") + (IF e.op = "-" THEN 1 ELSE 0)
          /\ Pend(v, "c") = Pend(u, "c") + (IF e.op = "c" THEN 1 ELSE 0)
      BY <2>3 DEF ClearOps
    <3> QED BY <2>4, <3>1
  <2>6. Fenced(v, owed, done)
    BY <1>0, <1>1, <1>5, <1>12, <2>3, <2>4, <2>5 DEF Fenced
  <2>7. SameClears(v, t)
    BY <1>11, <1>12, <2>3
  <2> QED BY <2>6, <2>7, SameFenced
<1> QED BY <1>7, <1>10, <1>11, <1>12

\* clearAll: the marks go, a generation is opened, the clear follows.
Cleared(s, N) ==
  [s EXCEPT !.del = NoMarks, !.write = NoMarks, !.clears = @ + 1, !.out = @ + 1,
            !.last = [k \in Keys |-> N + 1]]

LEMMA ClearStep ==
  ASSUME NEW s, NEW q, NEW N \in Nat, Fit(s, q, N), Windowed(s),
         NEW e \in Entries, e.op = "+", ~e.bad, NEW d \in Entries, d.op = "c", ~d.bad,
         NEW connected \in BOOLEAN,
         NEW u, u = Cleared(s, N),
         NEW t, t = Publish(Publish(u, e, connected), d, connected), NEW M, M = After(N)
  PROVE  /\ t \in WorkerSet /\ Fit(t, q, M) /\ Windowed(t) /\ Anchored(t, q)
         /\ connected => \A owed \in Nat, done \in Nat : Fenced(s, owed, done) => Fenced(t, owed, done)
<1> USE DEF After, Cleared
<1>0. s \in WorkerSet /\ s.out \in Nat /\ s.clears \in Nat
  BY WorkerFields DEF Fit, Sane
<1>1. PICK c \in Nat : c = s.clears + 1
  BY <1>0
<1>2. PICK o \in Nat : o = s.out + 1
  BY <1>0
<1>3. PICK L : L = [k \in Keys |-> N + 1]
  OBVIOUS
<1>4. PICK w : w = [s EXCEPT !.del = NoMarks, !.write = NoMarks, !.clears = c, !.out = o, !.last = L]
  OBVIOUS
<1>5. u = w
  BY <1>1, <1>2, <1>3, <1>4
<1>6. NoMarks \in MarkTable /\ L \in LastOps
  BY <1>3 DEF NoMarks, NoMark, Mark, MarkTable, LastOps
<1>7. /\ w \in WorkerSet /\ w.wire = s.wire /\ w.outbox = s.outbox /\ w.window = s.window
      /\ w.seq = s.seq /\ w.cursor = s.cursor /\ w.clears = c /\ w.out = o /\ w.last = L
      /\ w.del = NoMarks /\ w.write = NoMarks
  BY <1>0, <1>1, <1>2, <1>4, <1>6 DEF WorkerSet
<1>8. \A side \in Sides, k \in Keys : MarkOf(w, side, k) = NoMark
  BY <1>7 DEF MarkOf, NoMarks
<1>9. Wipes(s, w, N)
  BY <1>3, <1>7, <1>8 DEF Wipes
<1>10. Fit(w, q, N + 1) /\ Anchored(w, q)
  BY <1>7, <1>9, WipeFit
<1>11. Windowed(w)
  BY <1>7, SameWindow
<1>12. PICK v : v = Publish(w, e, connected)
  OBVIOUS
<1>13. Keyless(e) /\ Keyless(d)
  BY DEF Keyless
<1>14. v \in WorkerSet /\ Fit(v, q, N + 1) /\ Windowed(v) /\ Anchored(v, q)
  BY <1>10, <1>11, <1>12, <1>13, QuietPublish
<1>15. PICK z : z = Publish(v, d, connected)
  OBVIOUS
<1>16. t = z
  BY <1>5, <1>12, <1>15
<1>17. z \in WorkerSet /\ Fit(z, q, N + 1) /\ Windowed(z) /\ Anchored(z, q)
  BY <1>13, <1>14, <1>15, QuietPublish
<1>18. ASSUME connected, NEW owed \in Nat, NEW done \in Nat, Fenced(s, owed, done)
       PROVE  Fenced(z, owed, done)
  <2>1. /\ \A op \in ClearOps : Pend(w, op) = Pend(s, op)
        /\ ~HasBad(w)
    BY <1>0, <1>7, <1>18, SameClearsStep DEF Fenced
  <2>2. v = Publish(w, e, TRUE) /\ z = Publish(v, d, TRUE)
    BY <1>12, <1>15, <1>18
  <2>3. /\ ~HasBad(v) /\ v.clears = w.clears /\ v.out = w.out
        /\ \A op \in ClearOps : Pend(v, op) = Pend(w, op) + IF e.op = op THEN 1 ELSE 0
    BY <1>7, <2>1, <2>2, PublishClears
  <2>4. /\ ~HasBad(z) /\ z.clears = v.clears /\ z.out = v.out
        /\ \A op \in ClearOps : Pend(z, op) = Pend(v, op) + IF d.op = op THEN 1 ELSE 0
        /\ Covered(z)
    <3>1. z = Publish(v, d, TRUE) /\ v \in WorkerSet /\ ~HasBad(v)
      BY <1>14, <2>2, <2>3
    <3>2. /\ ~HasBad(z) /\ z.clears = v.clears /\ z.out = v.out
          /\ \A op \in ClearOps : Pend(z, op) = Pend(v, op) + IF d.op = op THEN 1 ELSE 0
          /\ d.op = "c" => Covered(z)
      BY <3>1, PublishClears
    <3> QED BY <3>2
  <2>5. /\ Pend(w, "+") = Pend(s, "+") /\ Pend(w, "-") = Pend(s, "-") /\ Pend(w, "c") = Pend(s, "c")
        /\ Pend(s, "+") \in Nat /\ Pend(s, "-") \in Nat /\ Pend(s, "c") \in Nat
    BY <1>0, <2>1, DueFinite DEF ClearOps
  <2>6. Pend(v, "+") = Pend(s, "+") + 1 /\ Pend(v, "-") = Pend(s, "-") /\ Pend(v, "c") = Pend(s, "c")
    <3>1. /\ Pend(v, "+") = Pend(w, "+") + (IF e.op = "+" THEN 1 ELSE 0)
          /\ Pend(v, "-") = Pend(w, "-") + (IF e.op = "-" THEN 1 ELSE 0)
          /\ Pend(v, "c") = Pend(w, "c") + (IF e.op = "c" THEN 1 ELSE 0)
      BY <2>3 DEF ClearOps
    <3> QED BY <2>5, <3>1
  <2>7. Pend(z, "+") = Pend(s, "+") + 1 /\ Pend(z, "-") = Pend(s, "-") /\ Pend(z, "c") = Pend(s, "c") + 1
    <3>1. /\ Pend(z, "+") = Pend(v, "+") + (IF d.op = "+" THEN 1 ELSE 0)
          /\ Pend(z, "-") = Pend(v, "-") + (IF d.op = "-" THEN 1 ELSE 0)
          /\ Pend(z, "c") = Pend(v, "c") + (IF d.op = "c" THEN 1 ELSE 0)
      BY <2>4 DEF ClearOps
    <3> QED BY <2>5, <2>6, <3>1
  <2>8. z.out = s.out + 1 /\ z.clears = s.clears + 1
    BY <1>1, <1>2, <1>7, <2>3, <2>4
  <2> QED BY <1>0, <1>18, <2>4, <2>5, <2>7, <2>8 DEF Fenced
<1> QED BY <1>16, <1>17, <1>18

-----------------------------------------------------------------------------
(* The invariant.                                                          *)

TypeInv ==
  /\ ws \in [Workers -> WorkerSet] /\ chan \in [Workers -> {"up", "broken", "gone"}]
  /\ ring \in Seq(Records) /\ gen \in Nat /\ settled \in Nat /\ nops \in Nat
  /\ gensOwed \in [Workers -> Nat] /\ applied \in [Workers -> Nat] /\ pclr \in BOOLEAN

Works(s, q, N, gone) ==
  Windowed(s) /\ (Fit(s, q, N) \/ (gone /\ Sane(s, q) /\ Dead(s)))
\* What is open is what the attachments and the primary still owe.
Balanced == gen - settled = Tally(Workers, gensOwed) + IF pclr THEN 1 ELSE 0
Safe == TypeInv /\ Balanced /\ \A w \in Workers : Works(ws[w], ring, nops, chan[w] = "gone")
AnchorInv == 3 \notin SetLevels => \A w \in Workers : Anchored(ws[w], ring)
FenceInv ==
  TRUE \notin Unsendable =>
    \A w \in Workers : chan[w] = "up" => Fenced(ws[w], gensOwed[w], applied[w])
IInv == Safe /\ AnchorInv /\ FenceInv

\* The ring grows, an operation is made elsewhere.
LEMMA OtherWorks ==
  ASSUME NEW s, NEW q, NEW N \in Nat, NEW gone \in BOOLEAN, Works(s, q, N, gone),
         NEW r \in Seq(Records), Extends(r, q), NEW M, M = N \/ M = N + 1
  PROVE  Works(s, r, M, gone) /\ (Anchored(s, q) => Anchored(s, r))
<1>1. CASE Fit(s, q, N)
  <2>1. Fit(s, r, N) /\ (Anchored(s, q) => Anchored(s, r))
    BY <1>1, GrowFit
  <2>2. Fit(s, r, N + 1)
    BY <2>1, FitMore
  <2> QED BY <2>1, <2>2 DEF Works
<1>2. CASE gone /\ Sane(s, q) /\ Dead(s)
  <2>1. s \in WorkerSet /\ Len(q) \in Nat /\ Len(r) \in Nat /\ s.cursor \in Nat /\ s.cursor <= Len(q)
    BY <1>2, WorkerFields DEF Sane
  <2>2. Len(q) <= Len(r) /\ s.cursor <= Len(r)
    <3>1. Len(q) <= Len(r)
      BY DEF Extends
    <3> QED BY <2>1, <3>1
  <2>3. Thin(s, s)
    BY DEF Thin
  <2>4. Sane(s, r)
    BY <1>2, <2>1, <2>2, <2>3, ThinSane
  <2>5. Anchored(s, r)
    BY <1>2, <2>4, DeadHolds
  <2> QED BY <1>2, <2>4, <2>5 DEF Works
<1> QED BY <1>1, <1>2 DEF Works

LEMMA ExtendsItself ==
  ASSUME NEW q \in Seq(Records)
  PROVE  Extends(q, q)
BY DEF Extends

\* A worker whose process runs makes a step of its own.
LEMMA WorkerMoves ==
  ASSUME IInv, NEW w \in Workers, NEW t \in WorkerSet, ws' = [ws EXCEPT ![w] = t],
         UNCHANGED <<chan, primaryVars, pclr>>, nops' = nops \/ nops' = nops + 1,
         Windowed(t), Fit(t, ring, nops'),
         3 \notin SetLevels => Anchored(t, ring),
         TRUE \notin Unsendable /\ chan[w] = "up" => Fenced(t, gensOwed[w], applied[w])
  PROVE  IInv'
<1>1. /\ ring' = ring /\ gen' = gen /\ settled' = settled /\ gensOwed' = gensOwed
      /\ applied' = applied /\ pclr' = pclr /\ chan' = chan
  BY DEF primaryVars
<1>2. /\ ws \in [Workers -> WorkerSet] /\ ring \in Seq(Records) /\ nops \in Nat
  BY DEF IInv, Safe, TypeInv
<1>3. /\ ws' \in [Workers -> WorkerSet] /\ ws'[w] = t
      /\ \A v \in Workers : v # w => ws'[v] = ws[v]
      /\ nops' \in Nat
  BY <1>2
<1>4. TypeInv'
  BY <1>1, <1>3 DEF IInv, Safe, TypeInv
<1>5. Balanced'
  BY <1>1 DEF IInv, Safe, Balanced
<1>6. ASSUME NEW v \in Workers, v # w
      PROVE  Works(ws[v], ring, nops', chan[v] = "gone")
  <2>1. Works(ws[v], ring, nops, chan[v] = "gone")
    BY DEF IInv, Safe
  <2>2. Extends(ring, ring)
    BY <1>2, ExtendsItself
  <2>3. (chan[v] = "gone") \in BOOLEAN
    OBVIOUS
  <2> QED BY <1>2, <2>1, <2>2, <2>3, OtherWorks
<1>7. \A v \in Workers : Works(ws'[v], ring', nops', chan'[v] = "gone")
  <2> SUFFICES ASSUME NEW v \in Workers PROVE Works(ws'[v], ring, nops', chan[v] = "gone")
    BY <1>1
  <2>1. CASE v = w
    BY <1>3, <2>1 DEF Works
  <2>2. CASE v # w
    BY <1>3, <1>6, <2>2
  <2> QED BY <2>1, <2>2
<1>8. AnchorInv'
  <2> SUFFICES ASSUME 3 \notin SetLevels, NEW v \in Workers PROVE Anchored(ws'[v], ring)
    BY <1>1 DEF AnchorInv
  <2> QED BY <1>3 DEF IInv, AnchorInv
<1>9. FenceInv'
  <2> SUFFICES ASSUME TRUE \notin Unsendable, NEW v \in Workers, chan[v] = "up"
               PROVE  Fenced(ws'[v], gensOwed[v], applied[v])
    BY <1>1 DEF FenceInv
  <2> QED BY <1>3 DEF IInv, FenceInv
<1> QED BY <1>4, <1>5, <1>7, <1>8, <1>9 DEF IInv, Safe

\* What is known of the worker that makes a step.
LEMMA Known ==
  ASSUME IInv, NEW w \in Workers, NEW s, s = ws[w]
  PROVE  /\ s \in WorkerSet /\ Sane(s, ring) /\ Windowed(s)
         /\ ring \in Seq(Records) /\ nops \in Nat /\ gensOwed[w] \in Nat /\ applied[w] \in Nat
         /\ Fit(s, ring, nops) \/ (chan[w] = "gone" /\ Dead(s))
         /\ 3 \notin SetLevels => Anchored(s, ring)
         /\ TRUE \notin Unsendable /\ chan[w] = "up" => Fenced(s, gensOwed[w], applied[w])
<1>1. /\ ring \in Seq(Records) /\ nops \in Nat /\ gensOwed[w] \in Nat /\ applied[w] \in Nat
      /\ s \in WorkerSet
  BY DEF IInv, Safe, TypeInv
<1>2. Works(s, ring, nops, chan[w] = "gone")
  BY DEF IInv, Safe
<1>3. /\ 3 \notin SetLevels => Anchored(s, ring)
      /\ TRUE \notin Unsendable /\ chan[w] = "up" => Fenced(s, gensOwed[w], applied[w])
  BY DEF IInv, AnchorInv, FenceInv
<1>4. Fit(s, ring, nops) => Sane(s, ring)
  BY DEF Fit
<1> QED BY <1>1, <1>2, <1>3, <1>4 DEF Works

LEMMA UpConnected ==
  ASSUME NEW w
  PROVE  Connected(w) \in BOOLEAN /\ (chan[w] = "up" => Connected(w))
BY DEF Connected

LEMMA DeadQuiet ==
  ASSUME NEW s, Dead(s)
  PROVE  ~s.sched /\ ~s.chase /\ ~(s.out > 0) /\ \A i \in DOMAIN s.wire : ~s.wire[i].cb
BY DEF Dead

-----------------------------------------------------------------------------
(* The steps of a worker.                                                  *)

LEMMA FlushKeeps ==
  ASSUME IInv, NEW w \in Workers, ScheduledFlush(w)
  PROVE  IInv'
<1>1. PICK s : s = ws[w]
  OBVIOUS
<1>2. PICK t : t = Flush(s, Connected(w))
  OBVIOUS
<1>3. ws' = [ws EXCEPT ![w] = t] /\ s.sched
  BY <1>1, <1>2 DEF ScheduledFlush
<1>4. Fit(s, ring, nops) /\ Windowed(s)
  BY <1>1, <1>3, Known, DeadQuiet
<1>5. /\ t \in WorkerSet /\ Fit(t, ring, nops) /\ Windowed(t)
      /\ Anchored(s, ring) => Anchored(t, ring)
      /\ Connected(w) /\ ~HasBad(s) => SameClears(s, t)
  BY <1>2, <1>4, UpConnected, FlushStep
<1>6. 3 \notin SetLevels => Anchored(t, ring)
  BY <1>1, <1>5, Known
<1>7. ASSUME TRUE \notin Unsendable, chan[w] = "up" PROVE Fenced(t, gensOwed[w], applied[w])
  <2>1. Fenced(s, gensOwed[w], applied[w])
    BY <1>1, <1>7, Known
  <2>2. ~HasBad(s)
    BY <2>1 DEF Fenced
  <2> QED BY <1>5, <1>7, <2>1, <2>2, UpConnected, SameFenced
<1>8. UNCHANGED <<chan, primaryVars, pclr>> /\ nops' = nops
  BY DEF ScheduledFlush
<1> QED BY <1>3, <1>5, <1>6, <1>7, <1>8, WorkerMoves

LEMMA ChaseKeeps ==
  ASSUME IInv, NEW w \in Workers, ChaseTimer(w)
  PROVE  IInv'
<1>1. PICK s : s = ws[w]
  OBVIOUS
<1>2. PICK t : t = Chased(s, Connected(w))
  OBVIOUS
<1>3. ws' = [ws EXCEPT ![w] = t] /\ s.chase
  BY <1>1, <1>2 DEF ChaseTimer
<1>4. Fit(s, ring, nops) /\ Windowed(s)
  BY <1>1, <1>3, Known, DeadQuiet
<1>5. /\ t \in WorkerSet /\ Fit(t, ring, nops) /\ Windowed(t)
      /\ Anchored(s, ring) => Anchored(t, ring)
      /\ Connected(w) /\ ~HasBad(s) => SameClears(s, t)
  BY <1>2, <1>4, UpConnected, ChasedStep
<1>6. 3 \notin SetLevels => Anchored(t, ring)
  BY <1>1, <1>5, Known
<1>7. ASSUME TRUE \notin Unsendable, chan[w] = "up" PROVE Fenced(t, gensOwed[w], applied[w])
  <2>1. Fenced(s, gensOwed[w], applied[w])
    BY <1>1, <1>7, Known
  <2>2. ~HasBad(s)
    BY <2>1 DEF Fenced
  <2> QED BY <1>5, <1>7, <2>1, <2>2, UpConnected, SameFenced
<1>8. UNCHANGED <<chan, primaryVars, pclr>> /\ nops' = nops
  BY DEF ChaseTimer
<1> QED BY <1>3, <1>5, <1>6, <1>7, <1>8, WorkerMoves

LEMMA SettleKeeps ==
  ASSUME IInv, NEW w \in Workers, SettleClearGen(w)
  PROVE  IInv'
<1>1. PICK s : s = ws[w]
  OBVIOUS
<1>2. PICK e : e = EntryOf("-", NoKey, 0, 0, FALSE, nops + 1)
  OBVIOUS
<1>3. e = Op("-")
  BY <1>2 DEF Op, Entry, EntryOf
<1>4. PICK t : t = Chased(Publish([s EXCEPT !.out = @ - 1], e, Connected(w)), Connected(w))
  OBVIOUS
<1>5. ws' = [ws EXCEPT ![w] = t] /\ s.out > 0
  BY <1>1, <1>3, <1>4 DEF SettleClearGen
<1>6. Fit(s, ring, nops) /\ Windowed(s) /\ nops \in Nat /\ gensOwed[w] \in Nat /\ applied[w] \in Nat
  BY <1>1, <1>5, Known, DeadQuiet
<1>7. e \in Entries /\ e.op = "-" /\ ~e.bad
  <2>1. PICK m : m = nops + 1
    OBVIOUS
  <2>2. PICK op : op = "-"
    OBVIOUS
  <2>3. PICK bad \in BOOLEAN : bad = FALSE
    OBVIOUS
  <2>4. m \in Nat /\ op \in ClearOps
    BY <1>6, <2>1, <2>2 DEF ClearOps
  <2>5. e = EntryOf(op, NoKey, 0, 0, bad, m)
    BY <1>2, <2>1, <2>2, <2>3
  <2>6. e \in Entries /\ e.op = op /\ e.bad = bad
    BY <2>3, <2>4, <2>5, EntryIs
  <2> QED BY <2>2, <2>3, <2>6
<1>8. /\ t \in WorkerSet /\ Fit(t, ring, nops) /\ Windowed(t)
      /\ Anchored(s, ring) => Anchored(t, ring)
      /\ Connected(w) => \A owed \in Nat, done \in Nat : Fenced(s, owed, done) => Fenced(t, owed, done)
  BY <1>4, <1>5, <1>6, <1>7, UpConnected, SettleStep
<1>9. 3 \notin SetLevels => Anchored(t, ring)
  BY <1>1, <1>8, Known
<1>10. TRUE \notin Unsendable /\ chan[w] = "up" => Fenced(t, gensOwed[w], applied[w])
  BY <1>1, <1>6, <1>8, Known, UpConnected
<1>11. UNCHANGED <<chan, primaryVars, pclr>> /\ nops' = nops
  BY DEF SettleClearGen
<1> QED BY <1>5, <1>8, <1>9, <1>10, <1>11, WorkerMoves

LEMMA DrainKeeps ==
  ASSUME IInv, NEW w \in Workers, Drain(w)
  PROVE  IInv'
<1>1. PICK s : s = ws[w]
  OBVIOUS
<1>2. PICK t : t = DrainOf(s, ring)
  OBVIOUS
<1>3. ws' = [ws EXCEPT ![w] = t] /\ chan[w] # "gone"
  BY <1>1, <1>2 DEF Drain, Met, Connected, DrainOf
<1>4. Fit(s, ring, nops) /\ Windowed(s) /\ s \in WorkerSet /\ ring \in Seq(Records)
  BY <1>1, <1>3, Known
<1>5. /\ t \in WorkerSet /\ Drained(s, t, ring) /\ Windowed(t) /\ t.clears = s.clears /\ t.out = s.out
  BY <1>2, <1>4, DrainStep
<1>6. Fit(t, ring, nops) /\ (Anchored(s, ring) => Anchored(t, ring))
  BY <1>4, <1>5, DrainFit
<1>7. 3 \notin SetLevels => Anchored(t, ring)
  BY <1>1, <1>6, Known
<1>8. ASSUME TRUE \notin Unsendable, chan[w] = "up" PROVE Fenced(t, gensOwed[w], applied[w])
  <2>1. Fenced(s, gensOwed[w], applied[w])
    BY <1>1, <1>8, Known
  <2>2. t.wire = s.wire /\ t.outbox = s.outbox
    BY <1>5 DEF Drained
  <2>3. SameClears(s, t)
    BY <1>4, <1>5, <2>2, SameClearsStep DEF SameClears
  <2> QED BY <2>1, <2>3, SameFenced
<1>9. UNCHANGED <<chan, primaryVars, pclr>> /\ nops' = nops
  BY DEF Drain
<1> QED BY <1>3, <1>5, <1>6, <1>7, <1>8, <1>9, WorkerMoves

LEMMA WrittenKeeps ==
  ASSUME IInv, NEW w \in Workers, Written(w)
  PROVE  IInv'
<1>1. PICK s : s = ws[w]
  OBVIOUS
<1>2. ws \in [Workers -> WorkerSet] /\ chan[w] = "up"
  BY DEF IInv, Safe, TypeInv, Written
<1>3. PICK i \in DOMAIN ws[w].wire :
        /\ ws[w].wire[i].cb
        /\ ws' = [ws EXCEPT ![w].window = @ - ws[w].wire[i].bytes, ![w].wire[i].cb = FALSE]
  BY DEF Written
<1>4. PICK t : t = CalledBack(s, i)
  OBVIOUS
<1>5. ws' = [ws EXCEPT ![w] = t]
  <2>1. ws' = [ws EXCEPT ![w] =
                 [ws[w] EXCEPT !.window = @ - ws[w].wire[i].bytes,
                               !.wire = [ws[w].wire EXCEPT ![i] = [ws[w].wire[i] EXCEPT !.cb = FALSE]]]]
    BY <1>2, <1>3 DEF WorkerSet
  <2> QED BY <1>1, <1>4, <2>1 DEF CalledBack
<1>6. Fit(s, ring, nops) /\ Windowed(s) /\ s \in WorkerSet
  BY <1>1, <1>2, Known
<1>7. i \in DOMAIN s.wire /\ s.wire[i].cb
  BY <1>1, <1>3
<1>8. /\ t \in WorkerSet /\ Calm(s, t) /\ Windowed(t) /\ t.outbox = s.outbox
      /\ Flags(s, t, i) /\ t.wire[i].due = s.wire[i].due
  BY <1>4, <1>6, <1>7, WrittenStep
<1>9. Fit(t, ring, nops) /\ (Anchored(s, ring) => Anchored(t, ring))
  BY <1>6, <1>8, CalmFit
<1>10. 3 \notin SetLevels => Anchored(t, ring)
  BY <1>1, <1>9, Known
<1>11. ASSUME TRUE \notin Unsendable PROVE Fenced(t, gensOwed[w], applied[w])
  <2>1. Fenced(s, gensOwed[w], applied[w])
    BY <1>1, <1>2, <1>11, Known
  <2>2. /\ Lots(t) = Lots(s) /\ \A j \in Lots(s) : OpsAt(t, j) = OpsAt(s, j)
        /\ \A j \in Lots(s) \ {i} : j \in Due(t) <=> j \in Due(s)
        /\ i \in Due(s) <=> s.wire[i].due
        /\ i \in Due(t) <=> t.wire[i].due
    BY <1>6, <1>7, <1>8, FlagLots
  <2>3. Due(t) = Due(s)
    <3>1. Due(t) \subseteq Lots(s) /\ Due(s) \subseteq Lots(s)
      BY <2>2, DueLots
    <3> QED BY <1>8, <2>2, <3>1
  <2>4. \A op \in ClearOps : \A j \in Due(s) : Count(OpsAt(t, j), op) = Count(OpsAt(s, j), op)
    BY <2>2, DueLots
  <2>5. (\A op \in ClearOps : Pend(t, op) = Pend(s, op)) /\ (Covered(s) => Covered(t))
    BY <1>6, <1>8, <2>2, <2>3, <2>4, SamePend
  <2>6. ~HasBad(s) => ~HasBad(t)
    BY <1>8 DEF HasBad
  <2>7. SameClears(s, t)
    BY <1>8, <2>5, <2>6 DEF SameClears, Flags
  <2> QED BY <2>1, <2>7, SameFenced
<1>12. UNCHANGED <<chan, primaryVars, pclr>> /\ nops' = nops
  BY DEF Written
<1> QED BY <1>5, <1>8, <1>9, <1>10, <1>11, <1>12, WorkerMoves

LEMMA FailedKeeps ==
  ASSUME IInv, NEW w \in Workers, SendFailed(w)
  PROVE  IInv'
<1>1. PICK s : s = ws[w]
  OBVIOUS
<1>2. chan[w] # "up"
  BY DEF SendFailed
<1>3. PICK i \in DOMAIN s.wire :
        /\ s.wire[i].cb /\ s.wire[i].due
        /\ ws' = [ws EXCEPT ![w] = Failed(s, i)]
  BY <1>1 DEF SendFailed, Failed
<1>4. PICK t : t = Failed(s, i)
  OBVIOUS
<1>5. ws' = [ws EXCEPT ![w] = t]
  BY <1>3, <1>4
<1>6. Fit(s, ring, nops) /\ Windowed(s) /\ s \in WorkerSet
  BY <1>1, <1>3, Known, DeadQuiet
<1>7. t \in WorkerSet /\ Drops(s, t, i) /\ Windowed(t)
  BY <1>3, <1>4, <1>6, FailedStep
<1>8. Fit(t, ring, nops) /\ (Anchored(s, ring) => Anchored(t, ring))
  BY <1>6, <1>7, DropFit
<1>9. 3 \notin SetLevels => Anchored(t, ring)
  BY <1>1, <1>8, Known
<1>10. UNCHANGED <<chan, primaryVars, pclr>> /\ nops' = nops
  BY DEF SendFailed
<1> QED BY <1>2, <1>5, <1>7, <1>8, <1>9, <1>10, WorkerMoves

-----------------------------------------------------------------------------
(* The operations.                                                         *)

LEMMA SetKeeps ==
  ASSUME IInv, NEW w \in Workers, NEW k \in Keys, NEW level \in SetLevels, NEW bad \in Unsendable,
         Connected(w), Set(w, k, level, bad)
  PROVE  IInv'
<1>1. PICK s : s = ws[w]
  OBVIOUS
<1>c. PICK c : c = Connected(w)
  OBVIOUS
<1>b. c \in BOOLEAN
  BY <1>c, UpConnected
<1>d. c
  BY <1>c
<1>2. PICK seq : seq = SetSeq(s, level)
  OBVIOUS
<1>3. PICK mark : mark = SetMark(level, seq, ring)
  OBVIOUS
<1>4. PICK e : e = SetEntry(level, k, mark, bad, nops)
  OBVIOUS
<1>5. PICK u : u = SetMarked(s, k, mark, seq, nops)
  OBVIOUS
<1>6. PICK t : t = Publish(u, e, c)
  OBVIOUS
<1>7. ws' = [ws EXCEPT ![w] = t] /\ nops' = nops + 1 /\ UNCHANGED <<chan, primaryVars, pclr>>
  BY <1>c, <1>1, <1>2, <1>3, <1>4, <1>5, <1>6 
     DEF Set, NewOp, Entry, EntryOf, SetSeq, SetMark, SetEntry, SetMarked
<1>8. Fit(s, ring, nops) /\ Windowed(s) /\ nops \in Nat
  BY <1>1, Known DEF Connected
<1>9. level \in {1, 2, 3} /\ bad \in BOOLEAN
  BY OutboxAssumption DEF OutboxAssumption
<1>10. /\ u \in WorkerSet /\ u.wire = s.wire /\ u.outbox = s.outbox /\ u.window = s.window
       /\ u.clears = s.clears /\ u.out = s.out /\ Writes(s, u, e, k, ring, nops)
       /\ e \in Entries /\ e.bad = bad
       /\ \A side \in Sides : MarkOf(u, side, k) = [seq |-> e.seq, at |-> e.at] /\ e.seq > 0
                                => side = "s"
       /\ level # 3 => e.op = "s"
  BY <1>2, <1>3, <1>4, <1>5, <1>8, <1>9, SetIs
<1>0. PICK m : m = After(nops)
  OBVIOUS
<1>00. m = nops + 1
  BY <1>0 DEF After
<1>11. /\ t \in WorkerSet /\ Fit(t, ring, m) /\ Windowed(t)
       /\ Anchored(s, ring) /\ (\A side \in Sides : MarkOf(u, side, k) = [seq |-> e.seq, at |-> e.at]
                              /\ e.seq > 0 => e.op = side)
            => Anchored(t, ring)
       /\ c /\ ~e.bad /\ ~HasBad(s) => SameClears(s, t)
  BY <1>0, <1>6, <1>8, <1>b, <1>10, WriteStep
<1>12. ASSUME 3 \notin SetLevels PROVE Anchored(t, ring)
  <2>1. e.op = "s"
    BY <1>10, <1>12
  <2> QED BY <1>1, <1>10, <1>11, <1>12, <2>1, Known
<1>13. ASSUME TRUE \notin Unsendable, chan[w] = "up" PROVE Fenced(t, gensOwed[w], applied[w])
  <2>1. Fenced(s, gensOwed[w], applied[w])
    BY <1>1, <1>13, Known
  <2>2. ~HasBad(s) /\ ~e.bad
    BY <1>9, <1>10, <1>13, <2>1 DEF Fenced
  <2>3. SameClears(s, t)
    BY <1>d, <1>11, <2>2
  <2> QED BY <2>1, <2>3, SameFenced
<1> QED BY <1>00, <1>7, <1>11, <1>12, <1>13, WorkerMoves

LEMMA DeleteKeeps ==
  ASSUME IInv, NEW w \in Workers, NEW k \in Keys, Connected(w), Delete(w, k)
  PROVE  IInv'
<1>1. PICK s : s = ws[w]
  OBVIOUS
<1>c. PICK c : c = Connected(w)
  OBVIOUS
<1>b. c \in BOOLEAN
  BY <1>c, UpConnected
<1>d. c
  BY <1>c
<1>3. PICK mark : mark = DelMark(s, ring)
  OBVIOUS
<1>4. PICK e : e = DelEntry(k, mark, nops)
  OBVIOUS
<1>5. PICK u : u = DelMarked(s, k, mark, nops)
  OBVIOUS
<1>6. PICK t : t = Publish(u, e, c)
  OBVIOUS
<1>7. ws' = [ws EXCEPT ![w] = t] /\ nops' = nops + 1 /\ UNCHANGED <<chan, primaryVars, pclr>>
  BY <1>c, <1>1, <1>3, <1>4, <1>5, <1>6 
     DEF Delete, NewOp, Entry, EntryOf, DelMark, DelEntry, DelMarked
<1>8. Fit(s, ring, nops) /\ Windowed(s) /\ nops \in Nat
  BY <1>1, Known DEF Connected
<1>10. /\ u \in WorkerSet /\ u.wire = s.wire /\ u.outbox = s.outbox /\ u.window = s.window
       /\ u.clears = s.clears /\ u.out = s.out /\ Writes(s, u, e, k, ring, nops)
       /\ e \in Entries /\ ~e.bad /\ e.op = "d"
       /\ \A side \in Sides : MarkOf(u, side, k) = [seq |-> e.seq, at |-> e.at] /\ e.seq > 0
                                => side = "d"
  BY <1>3, <1>4, <1>5, <1>8, DeleteIs
<1>0. PICK m : m = After(nops)
  OBVIOUS
<1>00. m = nops + 1
  BY <1>0 DEF After
<1>11. /\ t \in WorkerSet /\ Fit(t, ring, m) /\ Windowed(t)
       /\ Anchored(s, ring) /\ (\A side \in Sides : MarkOf(u, side, k) = [seq |-> e.seq, at |-> e.at]
                              /\ e.seq > 0 => e.op = side)
            => Anchored(t, ring)
       /\ c /\ ~e.bad /\ ~HasBad(s) => SameClears(s, t)
  BY <1>0, <1>6, <1>8, <1>b, <1>10, WriteStep
<1>12. ASSUME 3 \notin SetLevels PROVE Anchored(t, ring)
  BY <1>1, <1>10, <1>11, <1>12, Known
<1>13. ASSUME TRUE \notin Unsendable, chan[w] = "up" PROVE Fenced(t, gensOwed[w], applied[w])
  <2>1. Fenced(s, gensOwed[w], applied[w])
    BY <1>1, <1>13, Known
  <2>2. ~HasBad(s)
    BY <2>1 DEF Fenced
  <2>3. SameClears(s, t)
    BY <1>d, <1>10, <1>11, <2>2
  <2> QED BY <2>1, <2>3, SameFenced
<1> QED BY <1>00, <1>7, <1>11, <1>12, <1>13, WorkerMoves

\* The two entries of a clear.
LEMMA ClearEntry ==
  ASSUME nops \in Nat, NEW op \in ClearOps, NEW e, e = Op(op)
  PROVE  e \in Entries /\ e.op = op /\ ~e.bad
<1>1. PICK m : m = nops + 1
  OBVIOUS
<1>2. PICK bad \in BOOLEAN : bad = FALSE
  OBVIOUS
<1>3. e = EntryOf(op, NoKey, 0, 0, FALSE, nops + 1)
  BY DEF Op, Entry, EntryOf
<1>4. e = EntryOf(op, NoKey, 0, 0, bad, m)
  BY <1>1, <1>2, <1>3
<1>5. m \in Nat
  BY <1>1
<1> QED BY <1>2, <1>4, <1>5, EntryIs

LEMMA ClearKeeps ==
  ASSUME IInv, NEW w \in Workers, Connected(w), ClearAll(w)
  PROVE  IInv'
<1>1. PICK s : s = ws[w]
  OBVIOUS
<1>c. PICK c : c = Connected(w)
  OBVIOUS
<1>b. c \in BOOLEAN
  BY <1>c, UpConnected
<1>d. c
  BY <1>c
<1>2. PICK e : e = Op("+")
  OBVIOUS
<1>3. PICK d : d = Op("c")
  OBVIOUS
<1>4. PICK u : u = Cleared(s, nops)
  OBVIOUS
<1>5. PICK t : t = Publish(Publish(u, e, c), d, c)
  OBVIOUS
<1>6. ws' = [ws EXCEPT ![w] = t] /\ nops' = nops + 1 /\ UNCHANGED <<chan, primaryVars, pclr>>
  BY <1>c, <1>1, <1>2, <1>3, <1>4, <1>5 DEF ClearAll, NewOp, Cleared
<1>7. Fit(s, ring, nops) /\ Windowed(s) /\ nops \in Nat /\ gensOwed[w] \in Nat /\ applied[w] \in Nat
  BY <1>1, Known DEF Connected
<1>8. /\ e \in Entries /\ e.op = "+" /\ ~e.bad
      /\ d \in Entries /\ d.op = "c" /\ ~d.bad
  BY <1>2, <1>3, <1>7, ClearEntry DEF ClearOps
<1>0. PICK m : m = After(nops)
  OBVIOUS
<1>00. m = nops + 1
  BY <1>0 DEF After
<1>9. /\ t \in WorkerSet /\ Fit(t, ring, m) /\ Windowed(t) /\ Anchored(t, ring)
      /\ c => \A owed \in Nat, done \in Nat : Fenced(s, owed, done) => Fenced(t, owed, done)
  BY <1>0, <1>4, <1>5, <1>7, <1>8, <1>b, ClearStep
<1>10. TRUE \notin Unsendable /\ chan[w] = "up" => Fenced(t, gensOwed[w], applied[w])
  BY <1>d, <1>1, <1>7, <1>9, Known
<1> QED BY <1>00, <1>6, <1>9, <1>10, WorkerMoves

-----------------------------------------------------------------------------
(* The channel breaks, its end is seen, the process dies.                  *)

\* The channel of a worker gets worse and nothing else happens.
LEMMA ChannelEnds ==
  ASSUME IInv, NEW w \in Workers, chan[w] # "gone", NEW state \in {"broken", "gone"},
         chan' = [chan EXCEPT ![w] = state], UNCHANGED <<ws, primaryVars, pclr, nops>>
  PROVE  IInv'
<1>1. /\ ring' = ring /\ gen' = gen /\ settled' = settled /\ gensOwed' = gensOwed
      /\ applied' = applied /\ pclr' = pclr /\ ws' = ws /\ nops' = nops
  BY DEF primaryVars
<1>2. chan \in [Workers -> {"up", "broken", "gone"}]
  BY DEF IInv, Safe, TypeInv
<1>3. /\ chan' \in [Workers -> {"up", "broken", "gone"}] /\ chan'[w] = state
      /\ \A v \in Workers : v # w => chan'[v] = chan[v]
  BY <1>2
<1>4. TypeInv' /\ Balanced'
  BY <1>1, <1>3 DEF IInv, Safe, TypeInv, Balanced
<1>5. \A v \in Workers : Works(ws'[v], ring', nops', chan'[v] = "gone")
  <2> SUFFICES ASSUME NEW v \in Workers PROVE Works(ws[v], ring, nops, chan'[v] = "gone")
    BY <1>1
  <2>1. Works(ws[v], ring, nops, chan[v] = "gone")
    BY DEF IInv, Safe
  <2>2. CASE v = w
    BY <2>1, <2>2 DEF Works
  <2>3. CASE v # w
    BY <1>3, <2>1, <2>3
  <2> QED BY <2>2, <2>3
<1>6. AnchorInv'
  BY <1>1 DEF IInv, AnchorInv
<1>7. FenceInv'
  <2> SUFFICES ASSUME TRUE \notin Unsendable, NEW v \in Workers, chan'[v] = "up"
               PROVE  Fenced(ws[v], gensOwed[v], applied[v])
    BY <1>1 DEF FenceInv
  <2>1. chan[v] = "up"
    BY <1>3
  <2> QED BY <2>1 DEF IInv, FenceInv
<1> QED BY <1>4, <1>5, <1>6, <1>7 DEF IInv, Safe

LEMMA BreakKeeps ==
  ASSUME IInv, NEW w \in Workers, Break(w)
  PROVE  IInv'
<1>1. /\ chan[w] # "gone" /\ chan' = [chan EXCEPT ![w] = "broken"]
      /\ UNCHANGED <<ws, primaryVars, pclr, nops>>
  BY DEF Break
<1> QED BY <1>1, ChannelEnds

LEMMA DisconnectKeeps ==
  ASSUME IInv, NEW w \in Workers, Disconnected(w)
  PROVE  IInv'
<1>1. /\ chan[w] # "gone" /\ chan' = [chan EXCEPT ![w] = "gone"]
      /\ UNCHANGED <<ws, primaryVars, pclr, nops>>
  BY DEF Disconnected
<1> QED BY <1>1, ChannelEnds

LEMMA ExitKeeps ==
  ASSUME IInv, NEW w \in Workers, Exit(w)
  PROVE  IInv'
<1>1. PICK s : s = ws[w]
  OBVIOUS
<1>2. PICK t : t = [FreshWorker EXCEPT !.wire = Severed(s.wire)]
  OBVIOUS
<1>3. /\ ws' = [ws EXCEPT ![w] = t] /\ chan' = [chan EXCEPT ![w] = "gone"]
      /\ ring' = ring /\ gen' = gen /\ settled' = settled /\ gensOwed' = gensOwed
      /\ applied' = applied /\ pclr' = pclr /\ nops' = nops
  BY <1>1, <1>2 DEF Exit, primaryVars, Severed
<1>4. /\ ws \in [Workers -> WorkerSet] /\ chan \in [Workers -> {"up", "broken", "gone"}]
  BY DEF IInv, Safe, TypeInv
<1>5. Sane(s, ring) /\ s \in WorkerSet
  BY <1>1, Known
<1>6. Sane(t, ring) /\ Dead(t) /\ t.window = 0 /\ t.wire = Severed(s.wire)
  BY <1>2, <1>5, ExitDead
<1>7. t \in WorkerSet /\ Anchored(t, ring)
  BY <1>6, DeadHolds DEF Sane
<1>8. Windowed(t)
  <2>1. Awaiting(t) = {}
    BY <1>6 DEF Dead, Awaiting
  <2> QED BY <1>6, <2>1, TallyEmpty DEF Windowed
<1>9. /\ ws' \in [Workers -> WorkerSet] /\ ws'[w] = t /\ \A v \in Workers : v # w => ws'[v] = ws[v]
  BY <1>3, <1>4, <1>7
<1>10. /\ chan' \in [Workers -> {"up", "broken", "gone"}] /\ chan'[w] = "gone"
       /\ \A v \in Workers : v # w => chan'[v] = chan[v]
  BY <1>3, <1>4
<1>11. TypeInv' /\ Balanced'
  BY <1>3, <1>9, <1>10 DEF IInv, Safe, TypeInv, Balanced
<1>12. \A v \in Workers : Works(ws'[v], ring', nops', chan'[v] = "gone")
  <2> SUFFICES ASSUME NEW v \in Workers PROVE Works(ws'[v], ring, nops, chan'[v] = "gone")
    BY <1>3
  <2>1. CASE v = w
    BY <1>6, <1>8, <1>9, <1>10, <2>1 DEF Works
  <2>2. CASE v # w
    <3>1. Works(ws[v], ring, nops, chan[v] = "gone")
      BY DEF IInv, Safe
    <3> QED BY <1>9, <1>10, <2>2, <3>1
  <2> QED BY <2>1, <2>2
<1>13. AnchorInv'
  BY <1>3, <1>7, <1>9 DEF IInv, AnchorInv
<1>14. FenceInv'
  <2> SUFFICES ASSUME TRUE \notin Unsendable, NEW v \in Workers, chan'[v] = "up"
               PROVE  Fenced(ws'[v], gensOwed[v], applied[v])
    BY <1>3 DEF FenceInv
  <2>1. v # w /\ chan[v] = "up"
    BY <1>10
  <2> QED BY <1>9, <2>1 DEF IInv, FenceInv
<1> QED BY <1>11, <1>12, <1>13, <1>14 DEF IInv, Safe

-----------------------------------------------------------------------------
(* The steps of the primary.                                               *)

\* What one attachment owes is no more than what is open.
LEMMA OwedIsOpen ==
  ASSUME IInv, NEW w \in Workers
  PROVE  /\ gensOwed[w] \in Nat /\ gensOwed[w] <= gen - settled
         /\ \A g \in [Workers -> Nat] : (\A v \in Workers : v # w => g[v] = gensOwed[v]) =>
              Tally(Workers, g) = Tally(Workers, gensOwed) - gensOwed[w] + g[w]
<1>1. /\ IsFiniteSet(Workers) /\ gensOwed \in [Workers -> Nat] /\ gen \in Nat /\ settled \in Nat
      /\ gen - settled = Tally(Workers, gensOwed) + IF pclr THEN 1 ELSE 0
  BY OutboxAssumption DEF OutboxAssumption, IInv, Safe, TypeInv, Balanced
<1>2. \A v \in Workers : gensOwed[v] \in Nat
  BY <1>1
<1>3. Tally(Workers, gensOwed) \in Nat /\ gensOwed[w] <= Tally(Workers, gensOwed)
  BY <1>1, <1>2, TallyChange
<1>4. ASSUME NEW g \in [Workers -> Nat], \A v \in Workers : v # w => g[v] = gensOwed[v]
      PROVE  Tally(Workers, g) = Tally(Workers, gensOwed) - gensOwed[w] + g[w]
  <2>1. \A v \in Workers : g[v] \in Nat
    OBVIOUS
  <2> QED BY <1>1, <1>2, <1>4, <2>1, TallyChange
<1>5. gensOwed[w] <= gen - settled
  BY <1>1, <1>2, <1>3
<1> QED BY <1>2, <1>4, <1>5

LEMMA GoneKeeps ==
  ASSUME IInv, NEW w \in Workers, NEW event, Gone(w, event)
  PROVE  IInv'
<1>1. /\ ws' = ws /\ chan' = chan /\ ring' = ring /\ gen' = gen /\ applied' = applied
      /\ pclr' = pclr /\ nops' = nops /\ chan[w] = "gone"
  BY DEF Gone
<1>2. /\ gensOwed \in [Workers -> Nat] /\ settled \in Nat /\ gen \in Nat
      /\ gen - settled = Tally(Workers, gensOwed) + IF pclr THEN 1 ELSE 0
  BY DEF IInv, Safe, TypeInv, Balanced
<1>3. PICK x \in Nat : x = gensOwed[w]
  BY <1>2
<1>4. \/ settled' = settled /\ gensOwed' = gensOwed
      \/ settled' = settled + x /\ gensOwed' = [gensOwed EXCEPT ![w] = 0]
  BY <1>3 DEF Gone, ReleaseWorker, Attachment
<1>5. /\ gensOwed' \in [Workers -> Nat] /\ settled' \in Nat
      /\ \A v \in Workers : v # w => gensOwed'[v] = gensOwed[v]
  BY <1>2, <1>3, <1>4
<1>6. Balanced'
  <2>1. CASE settled' = settled /\ gensOwed' = gensOwed
    BY <1>1, <1>2, <2>1 DEF Balanced
  <2>2. CASE settled' = settled + x /\ gensOwed' = [gensOwed EXCEPT ![w] = 0]
    <3>1. PICK g : g = gensOwed'
      OBVIOUS
    <3>2. g \in [Workers -> Nat] /\ g[w] = 0 /\ \A v \in Workers : v # w => g[v] = gensOwed[v]
      BY <1>2, <1>5, <2>2, <3>1
    <3>3. Tally(Workers, g) = Tally(Workers, gensOwed) - x + 0
      BY <1>3, <3>2, OwedIsOpen
    <3>4. Tally(Workers, gensOwed) \in Nat
      <4>1. \A v \in Workers : gensOwed[v] \in Nat
        BY <1>2
      <4> QED BY <4>1, TallyType, OutboxAssumption DEF OutboxAssumption
    <3>5. gen - (settled + x) = Tally(Workers, g) + IF pclr THEN 1 ELSE 0
      BY <1>2, <1>3, <3>3, <3>4
    <3> QED BY <1>1, <2>2, <3>1, <3>5 DEF Balanced
  <2> QED BY <1>4, <2>1, <2>2
<1>7. TypeInv'
  BY <1>1, <1>5 DEF IInv, Safe, TypeInv
<1>8. \A v \in Workers : Works(ws'[v], ring', nops', chan'[v] = "gone")
  BY <1>1 DEF IInv, Safe
<1>9. AnchorInv'
  BY <1>1 DEF IInv, AnchorInv
<1>10. FenceInv'
  <2> SUFFICES ASSUME TRUE \notin Unsendable, NEW v \in Workers, chan[v] = "up"
               PROVE  Fenced(ws[v], gensOwed'[v], applied[v])
    BY <1>1 DEF FenceInv
  <2>1. v # w
    BY <1>1
  <2> QED BY <1>5, <2>1 DEF IInv, FenceInv
<1> QED BY <1>6, <1>7, <1>8, <1>9, <1>10 DEF IInv, Safe

LEMMA PrimarySettleKeeps ==
  ASSUME IInv, PrimarySettle
  PROVE  IInv'
<1>1. /\ ws' = ws /\ chan' = chan /\ ring' = ring /\ gen' = gen /\ applied' = applied
      /\ gensOwed' = gensOwed /\ nops' = nops /\ pclr /\ pclr' = FALSE /\ settled' = settled + 1
  BY DEF PrimarySettle
<1>2. TypeInv'
  <2>1. pclr' \in BOOLEAN
    BY <1>1
  <2>2. settled' \in Nat
    BY <1>1 DEF IInv, Safe, TypeInv
  <2>3. /\ ws' = ws /\ chan' = chan /\ ring' = ring /\ gen' = gen /\ applied' = applied
        /\ gensOwed' = gensOwed /\ nops' = nops
    BY <1>1
  <2> QED BY <2>1, <2>2, <2>3 DEF IInv, Safe, TypeInv
<1>3. Balanced'
  <2>1. Tally(Workers, gensOwed) \in Nat
    <3>1. \A v \in Workers : gensOwed[v] \in Nat
      BY DEF IInv, Safe, TypeInv
    <3> QED BY <3>1, TallyType, OutboxAssumption DEF OutboxAssumption
  <2>2. /\ settled \in Nat /\ gen \in Nat /\ gen - settled = Tally(Workers, gensOwed) + 1
    BY <1>1 DEF IInv, Safe, TypeInv, Balanced
  <2>3. gen - (settled + 1) = Tally(Workers, gensOwed) + 0
    BY <2>1, <2>2
  <2> QED BY <1>1, <2>3 DEF Balanced
<1>4. \A v \in Workers : Works(ws'[v], ring', nops', chan'[v] = "gone")
  BY <1>1 DEF IInv, Safe
<1>5. AnchorInv' /\ FenceInv'
  BY <1>1 DEF IInv, AnchorInv, FenceInv
<1> QED BY <1>2, <1>3, <1>4, <1>5 DEF IInv, Safe

LEMMA PrimaryClearKeeps ==
  ASSUME IInv, PrimaryClear
  PROVE  IInv'
<1>1. /\ ws' = ws /\ chan' = chan /\ ring' = Append(ring, FlushAll) /\ gen' = gen + 1
      /\ applied' = applied /\ gensOwed' = gensOwed /\ nops' = nops + 1 /\ ~pclr /\ pclr' = TRUE
      /\ settled' = settled
  BY DEF PrimaryClear, NewOp
<1>2. /\ ring \in Seq(Records) /\ gen \in Nat /\ settled \in Nat /\ nops \in Nat
      /\ gen - settled = Tally(Workers, gensOwed) + 0
  BY <1>1 DEF IInv, Safe, TypeInv, Balanced
<1>3. ring' \in Seq(Records) /\ Extends(ring', ring)
  <2>1. FlushAll \in Records
    BY DEF Records
  <2> QED BY <1>1, <1>2, <2>1 DEF Extends
<1>4. TypeInv'
  BY <1>1, <1>2, <1>3 DEF IInv, Safe, TypeInv
<1>5. Balanced'
  <2>1. Tally(Workers, gensOwed) \in Nat
    <3>1. \A v \in Workers : gensOwed[v] \in Nat
      BY DEF IInv, Safe, TypeInv
    <3> QED BY <3>1, TallyType, OutboxAssumption DEF OutboxAssumption
  <2>2. (gen + 1) - settled = Tally(Workers, gensOwed) + 1
    BY <1>2, <2>1
  <2> QED BY <1>1, <2>2 DEF Balanced
<1>6. PICK r : r = ring'
  OBVIOUS
<1>7. PICK m : m = nops + 1
  OBVIOUS
<1>8. ASSUME NEW v \in Workers
      PROVE  /\ Works(ws[v], r, m, chan[v] = "gone")
             /\ Anchored(ws[v], ring) => Anchored(ws[v], r)
  <2>1. Works(ws[v], ring, nops, chan[v] = "gone") /\ (chan[v] = "gone") \in BOOLEAN
    BY DEF IInv, Safe
  <2>2. r \in Seq(Records) /\ Extends(r, ring)
    BY <1>3, <1>6
  <2> QED BY <1>2, <1>7, <2>1, <2>2, OtherWorks
<1>9. \A v \in Workers : Works(ws'[v], ring', nops', chan'[v] = "gone")
  BY <1>1, <1>6, <1>7, <1>8
<1>10. AnchorInv'
  BY <1>1, <1>6, <1>8 DEF IInv, AnchorInv
<1>11. FenceInv'
  BY <1>1 DEF IInv, FenceInv
<1> QED BY <1>4, <1>5, <1>9, <1>10, <1>11 DEF IInv, Safe

HeaderFor(w) ==
  [ring |-> ring, gen |-> gen, settled |-> settled, owed |-> gensOwed[w], applied |-> applied[w]]

LEMMA ApplyKeeps ==
  ASSUME IInv, NEW w \in Workers, ApplyBatch(w)
  PROVE  IInv'
<1>1. PICK s : s = ws[w]
  OBVIOUS
<1>2. PICK a : a = HeaderFor(w)
  OBVIOUS
<1>3. PICK i \in DOMAIN ws[w].wire :
        /\ ws[w].wire[i].due /\ \A j \in 1 .. (i - 1) : ~ws[w].wire[j].due
        /\ ws' = [ws EXCEPT ![w].wire[i].due = FALSE]
        /\ ring' = ApplyOps(a, ws[w].wire[i].ops).ring
        /\ gen' = ApplyOps(a, ws[w].wire[i].ops).gen
        /\ settled' = ApplyOps(a, ws[w].wire[i].ops).settled
        /\ gensOwed' = [gensOwed EXCEPT ![w] = ApplyOps(a, ws[w].wire[i].ops).owed]
        /\ applied' = [applied EXCEPT ![w] = ApplyOps(a, ws[w].wire[i].ops).applied]
        /\ chan' = chan /\ pclr' = pclr /\ nops' = nops
  BY <1>2 DEF ApplyBatch, Attachment, HeaderFor
<1>4. PICK ops : ops = s.wire[i].ops
  OBVIOUS
<1>5. PICK r : r = ApplyOps(a, ops)
  OBVIOUS
<1>6. PICK t : t = Taken(s, i)
  OBVIOUS
<1>7. /\ i \in DOMAIN s.wire /\ s.wire[i].due /\ \A j \in 1 .. (i - 1) : ~s.wire[j].due
      /\ ring' = r.ring /\ gen' = r.gen /\ settled' = r.settled
      /\ gensOwed' = [gensOwed EXCEPT ![w] = r.owed]
      /\ applied' = [applied EXCEPT ![w] = r.applied]
      /\ chan' = chan /\ pclr' = pclr /\ nops' = nops
  BY <1>1, <1>3, <1>4, <1>5
<1>8. ws' = [ws EXCEPT ![w] = t]
  <2>1. ws' = [ws EXCEPT ![w] =
                 [ws[w] EXCEPT !.wire = [ws[w].wire EXCEPT ![i] = [ws[w].wire[i] EXCEPT !.due = FALSE]]]]
    BY <1>3
  <2> QED BY <1>1, <1>6, <2>1 DEF Taken
<1>9. /\ s \in WorkerSet /\ Sane(s, ring) /\ Windowed(s)
      /\ ring \in Seq(Records) /\ nops \in Nat /\ gensOwed[w] \in Nat /\ applied[w] \in Nat
      /\ Fit(s, ring, nops) \/ (chan[w] = "gone" /\ Dead(s))
  BY <1>1, Known
<1>10. /\ ws \in [Workers -> WorkerSet] /\ gensOwed \in [Workers -> Nat]
       /\ applied \in [Workers -> Nat] /\ gen \in Nat /\ settled \in Nat
       /\ chan \in [Workers -> {"up", "broken", "gone"}] /\ pclr \in BOOLEAN
  BY DEF IInv, Safe, TypeInv
<1>11. /\ a \in Header /\ a.ring = ring /\ a.gen = gen /\ a.settled = settled
       /\ a.owed = gensOwed[w] /\ a.applied = applied[w]
  BY <1>2, <1>9, <1>10 DEF Header, HeaderFor
<1>12. ops \in Seq(Entries) /\ Len(ops) \in Nat /\ DOMAIN ops = 1 .. Len(ops)
  <2>1. ops \in Seq(Entries)
    BY <1>4, <1>7, <1>9, BatchFields
  <2> QED BY <2>1
<1>13. Made(a, r, ops, Len(ops))
  BY <1>5, <1>11, <1>12, OpsMake
<1>14. /\ r \in Header /\ Extends(r.ring, ring)
       /\ r.applied = applied[w] + Count(ops, "c")
       /\ r.owed >= gensOwed[w] + Count(ops, "+") - Count(ops, "-")
       /\ gensOwed[w] <= gen - settled =>
            r.gen - r.settled = gen - settled + r.owed - gensOwed[w]
  BY <1>11, <1>13 DEF Made, Booked, Count
<1>15. r.ring \in Seq(Records) /\ r.gen \in Nat /\ r.settled \in Nat /\ r.owed \in Nat /\ r.applied \in Nat
  BY <1>14 DEF Header
<1>16. /\ t \in WorkerSet /\ Delivered(s, t, i) /\ Windowed(t) /\ Flags(s, t, i) /\ (Dead(s) => Dead(t))
  BY <1>6, <1>7, <1>9, DeliverStep
<1>17. OpsAt(s, i) = ops
  BY <1>4, <1>7 DEF OpsAt
<1>18. \A e \in At(s, i) : ~Keyless(e) => \E p \in Len(ring) + 1 .. Len(r.ring) : r.ring[p] = e.key
  <2>1. Recorded(a, r, ops, Len(ops))
    BY <1>13 DEF Made
  <2> SUFFICES ASSUME NEW e \in At(s, i), ~Keyless(e)
               PROVE  \E p \in Len(ring) + 1 .. Len(r.ring) : r.ring[p] = e.key
    OBVIOUS
  <2>2. PICK j \in 1 .. Len(ops) : e = ops[j]
    BY <1>12, <1>17 DEF At
  <2> QED BY <1>11, <2>1, <2>2 DEF Recorded
<1>19. Works(t, r.ring, nops, chan[w] = "gone") /\ (Anchored(s, ring) => Anchored(t, r.ring))
  <2>1. CASE Fit(s, ring, nops)
    <3>1. Fit(t, r.ring, nops) /\ (Anchored(s, ring) => Anchored(t, r.ring))
      BY <1>14, <1>15, <1>16, <1>18, <2>1, DeliverFit
    <3> QED BY <1>16, <3>1 DEF Works
  <2>2. CASE chan[w] = "gone" /\ Dead(s)
    <3>1. Thin(s, t)
      <4>1. \A j \in Lots(s) : At(t, j) = At(s, j)
        BY <1>16 DEF Delivered, At
      <4> QED BY <1>16, <4>1 DEF Delivered, Thin, Steady, SameMarks, MarkOf
    <3>2. Len(ring) <= Len(r.ring) /\ t.cursor <= Len(r.ring)
      <4>1. /\ Len(ring) \in Nat /\ Len(r.ring) \in Nat /\ Len(ring) <= Len(r.ring)
            /\ s.cursor \in Nat /\ s.cursor <= Len(ring)
        BY <1>9, <1>14, <1>15, WorkerFields DEF Extends, Sane
      <4>2. t.cursor = s.cursor
        BY <1>16 DEF Flags, Steady
      <4> QED BY <4>1, <4>2
    <3>3. Sane(t, r.ring)
      BY <1>9, <1>15, <1>16, <3>1, <3>2, ThinSane
    <3>4. Dead(t)
      BY <1>16, <2>2
    <3>5. Anchored(t, r.ring)
      BY <3>3, <3>4, DeadHolds
    <3> QED BY <1>16, <2>2, <3>3, <3>4, <3>5 DEF Works
  <2> QED BY <1>9, <2>1, <2>2
<1>20. /\ ws' \in [Workers -> WorkerSet] /\ ws'[w] = t /\ \A v \in Workers : v # w => ws'[v] = ws[v]
       /\ gensOwed' \in [Workers -> Nat] /\ gensOwed'[w] = r.owed
       /\ \A v \in Workers : v # w => gensOwed'[v] = gensOwed[v]
       /\ applied' \in [Workers -> Nat] /\ applied'[w] = r.applied
       /\ \A v \in Workers : v # w => applied'[v] = applied[v]
  BY <1>7, <1>8, <1>10, <1>15, <1>16
<1>21. TypeInv'
  BY <1>7, <1>9, <1>10, <1>15, <1>20 DEF TypeInv
<1>22. Balanced'
  <2>1. gensOwed[w] <= gen - settled
    BY OwedIsOpen
  <2>2. r.gen - r.settled = gen - settled + r.owed - gensOwed[w]
    BY <1>14, <2>1
  <2>3. PICK g : g = gensOwed'
    OBVIOUS
  <2>4. g \in [Workers -> Nat] /\ g[w] = r.owed /\ \A v \in Workers : v # w => g[v] = gensOwed[v]
    BY <1>20, <2>3
  <2>5. Tally(Workers, g) = Tally(Workers, gensOwed) - gensOwed[w] + r.owed
    BY <2>4, OwedIsOpen
  <2>6. Tally(Workers, gensOwed) \in Nat
    <3>1. \A v \in Workers : gensOwed[v] \in Nat
      BY <1>10
    <3> QED BY <3>1, TallyType, OutboxAssumption DEF OutboxAssumption
  <2>7. gen - settled = Tally(Workers, gensOwed) + IF pclr THEN 1 ELSE 0
    BY DEF IInv, Safe, Balanced
  <2>8. r.gen - r.settled = Tally(Workers, g) + IF pclr THEN 1 ELSE 0
    <3>1. PICK y \in {0, 1} : y = IF pclr THEN 1 ELSE 0
      OBVIOUS
    <3>2. PICK x \in Nat : x = Tally(Workers, gensOwed)
      BY <2>6
    <3>3. PICK o \in Nat : o = gensOwed[w]
      BY <1>9
    <3>4. gen - settled = x + y
      BY <2>7, <3>1, <3>2
    <3>5. Tally(Workers, g) = x - o + r.owed
      BY <2>5, <3>2, <3>3
    <3>6. r.gen - r.settled = gen - settled + r.owed - o
      BY <2>2, <3>3
    <3>7. r.gen - r.settled = Tally(Workers, g) + y
      BY <1>10, <1>15, <3>1, <3>2, <3>3, <3>4, <3>5, <3>6
    <3> QED BY <3>1, <3>7
  <2> QED BY <1>7, <2>3, <2>8 DEF Balanced
<1>23. ASSUME NEW v \in Workers, v # w
       PROVE  /\ Works(ws[v], r.ring, nops, chan[v] = "gone")
              /\ Anchored(ws[v], ring) => Anchored(ws[v], r.ring)
  <2>1. Works(ws[v], ring, nops, chan[v] = "gone") /\ (chan[v] = "gone") \in BOOLEAN
    BY DEF IInv, Safe
  <2> QED BY <1>9, <1>14, <1>15, <2>1, OtherWorks
<1>24. \A v \in Workers : Works(ws'[v], ring', nops', chan'[v] = "gone")
  <2> SUFFICES ASSUME NEW v \in Workers PROVE Works(ws'[v], r.ring, nops, chan[v] = "gone")
    BY <1>7
  <2>1. CASE v = w
    BY <1>19, <1>20, <2>1
  <2>2. CASE v # w
    BY <1>20, <1>23, <2>2
  <2> QED BY <2>1, <2>2
<1>25. AnchorInv'
  <2> SUFFICES ASSUME 3 \notin SetLevels, NEW v \in Workers PROVE Anchored(ws'[v], r.ring)
    BY <1>7 DEF AnchorInv
  <2>1. Anchored(ws[v], ring)
    BY DEF IInv, AnchorInv
  <2> QED BY <1>1, <1>19, <1>20, <1>23, <2>1
<1>26. FenceInv'
  <2> SUFFICES ASSUME TRUE \notin Unsendable, NEW v \in Workers, chan[v] = "up"
               PROVE  Fenced(ws'[v], gensOwed'[v], applied'[v])
    BY <1>7 DEF FenceInv
  <2>1. Fenced(ws[v], gensOwed[v], applied[v])
    BY DEF IInv, FenceInv
  <2>2. CASE v # w
    BY <1>20, <2>1, <2>2
  <2>3. CASE v = w
    <3>1. \A j \in Due(s) : i <= j
      <4> SUFFICES ASSUME NEW j \in Due(s), ~(i <= j) PROVE FALSE
        OBVIOUS
      <4>1. i \in 1 .. Len(s.wire) /\ j \in 1 .. Len(s.wire) + 1 /\ Len(s.wire) \in Nat
            /\ DOMAIN s.wire = 1 .. Len(s.wire)
        BY <1>7, <1>9, WorkerFields, DueLots DEF Lots
      <4>2. j \in 1 .. (i - 1) /\ j \in DOMAIN s.wire
        BY <4>1
      <4> QED BY <1>7, <4>2 DEF Due
    <3>2. t.outbox = s.outbox /\ t.clears = s.clears /\ t.out = s.out
      BY <1>16 DEF Flags
    <3>3. Fenced(s, gensOwed[w], applied[w])
      BY <1>1, <2>1, <2>3
    <3>4. r.owed >= gensOwed[w] + Count(OpsAt(s, i), "+") - Count(OpsAt(s, i), "-")
      BY <1>14, <1>17
    <3>5. Fenced(t, r.owed, applied[w] + Count(OpsAt(s, i), "c"))
      BY <1>9, <1>15, <1>16, <3>1, <3>2, <3>3, <3>4, DeliverFenced
    <3>6. Fenced(t, r.owed, r.applied)
      BY <1>14, <1>17, <3>5
    <3> QED BY <1>20, <2>3, <3>6
  <2> QED BY <2>2, <2>3
<1> QED BY <1>21, <1>22, <1>24, <1>25, <1>26 DEF IInv, Safe

-----------------------------------------------------------------------------
(* It holds in the beginning, and every step keeps it.                     *)

LEMMA FreshFits ==
  ASSUME NEW s, s = FreshWorker
  PROVE  s \in WorkerSet /\ Works(s, <<>>, 0, FALSE) /\ Anchored(s, <<>>) /\ Fenced(s, 0, 0)
<1>1. /\ s.outbox = <<>> /\ s.bytes = 0 /\ s.wire = <<>> /\ s.window = 0 /\ s.del = NoMarks
      /\ s.write = NoMarks /\ s.seq = 0 /\ s.cursor = 0 /\ s.clears = 0 /\ s.out = 0
      /\ s.last = [k \in Keys |-> 0]
  BY DEF FreshWorker
<1>2. s \in WorkerSet
  <2>1. /\ NoMarks \in MarkTable /\ [k \in Keys |-> 0] \in LastOps
        /\ <<>> \in OpLists /\ <<>> \in Wires
    BY DEF NoMarks, NoMark, Mark, MarkTable, LastOps, OpLists, Wires
  <2> QED BY <2>1 DEF FreshWorker, WorkerSet
<1>3. DOMAIN <<>> = {} /\ Len(<<>>) = 0
  OBVIOUS
<1>4. Lots(s) = {1} /\ OpsAt(s, 1) = <<>> /\ SeqAt(s, 1) = 0 /\ At(s, 1) = {}
  <2>1. Lots(s) = {1}
    BY <1>1, <1>3 DEF Lots
  <2>2. OpsAt(s, 1) = <<>> /\ SeqAt(s, 1) = 0
    BY <1>1, <1>3 DEF OpsAt, SeqAt
  <2> QED BY <1>3, <2>1, <2>2 DEF At
<1>5. /\ NoMark.seq = 0 /\ NoMark.at = 0
      /\ \A side \in Sides, k \in Keys : MarkOf(s, side, k) = NoMark
  BY <1>1 DEF NoMark, NoMarks, MarkOf
<1>6. Sane(s, <<>>)
  <2>1. <<>> \in Seq(Records)
    OBVIOUS
  <2>2. \A side \in Sides, k \in Keys : MarkOf(s, side, k).seq = 0 /\ MarkOf(s, side, k).at = 0
    BY <1>5
  <2> QED BY <1>1, <1>2, <1>3, <1>4, <2>1, <2>2 DEF Sane
<1>7. Ordered(s, 0)
  <2>1. \A k \in Keys : s.last[k] = 0
    BY <1>1
  <2> QED BY <1>1, <1>4, <2>1 DEF Ordered
<1>8. Live(s, <<>>)
  BY <1>4, DueLots DEF Live
<1>9. Anchored(s, <<>>)
  BY <1>5 DEF Anchored
<1>10. Windowed(s)
  <2>1. Awaiting(s) = {}
    BY <1>1, <1>3 DEF Awaiting
  <2> QED BY <1>1, <2>1, TallyEmpty DEF Windowed
<1>11. Fenced(s, 0, 0)
  <2>1. \A op : Count(<<>>, op) = 0
    <3> SUFFICES ASSUME NEW op PROVE Count(<<>>, op) = 0
      OBVIOUS
    <3>1. Cardinality(First(<<>>, 0, op)) = 0
      BY FirstFacts
    <3> QED BY <1>3, <3>1 DEF Count
  <2>2. \A op, i : i \in Due(s) => Counts(s, op)[i] = 0
    BY <1>4, <2>1, DueLots DEF Counts
  <2>3. \A op : Pend(s, op) = 0
    <3> SUFFICES ASSUME NEW op PROVE Pend(s, op) = 0
      OBVIOUS
    <3>1. PICK f : f = Counts(s, op)
      OBVIOUS
    <3>2. \A i \in Due(s) : f[i] = 0
      BY <2>2, <3>1
    <3>3. IsFiniteSet(Due(s))
      BY <1>2, DueFinite
    <3>4. Tally(Due(s), f) = 0
      BY <3>2, <3>3, TallyZero
    <3> QED BY <3>1, <3>4 DEF Pend
  <2>4. Covered(s)
    BY <2>2 DEF Covered
  <2>5. ~HasBad(s)
    BY <1>1, <1>3 DEF HasBad
  <2> QED BY <1>1, <2>3, <2>4, <2>5 DEF Fenced
<1> QED BY <1>2, <1>6, <1>7, <1>8, <1>9, <1>10, <1>11 DEF Works, Fit

LEMMA InitIInv ==
  ASSUME Init
  PROVE  IInv
<1>1. \A w \in Workers : ws[w] = FreshWorker /\ chan[w] = "up" /\ gensOwed[w] = 0 /\ applied[w] = 0
  BY DEF Init
<1>2. ring = <<>> /\ gen = 0 /\ settled = 0 /\ pclr = FALSE /\ nops = 0
  BY DEF Init
<1>3. \A w \in Workers : /\ ws[w] \in WorkerSet /\ Works(ws[w], <<>>, 0, FALSE)
                         /\ Anchored(ws[w], <<>>) /\ Fenced(ws[w], 0, 0)
  BY <1>1, FreshFits
<1>4. TypeInv
  <2>1. ws \in [Workers -> WorkerSet]
    BY <1>3 DEF Init
  <2>2. /\ chan \in [Workers -> {"up", "broken", "gone"}]
        /\ gensOwed \in [Workers -> Nat] /\ applied \in [Workers -> Nat]
    BY DEF Init
  <2>3. pclr \in BOOLEAN
    BY <1>2
  <2>4. ring \in Seq(Records) /\ gen \in Nat /\ settled \in Nat /\ nops \in Nat
    BY <1>2
  <2> QED BY <2>1, <2>2, <2>3, <2>4 DEF TypeInv
<1>5. Balanced
  <2>1. PICK f : f = gensOwed
    OBVIOUS
  <2>2. (\A w \in Workers : f[w] = 0) /\ IsFiniteSet(Workers)
    BY <1>1, <2>1, OutboxAssumption DEF OutboxAssumption
  <2>3. Tally(Workers, f) = 0
    BY <2>2, TallyZero
  <2>4. gen = 0 /\ settled = 0 /\ ~pclr
    BY <1>2
  <2> QED BY <2>1, <2>3, <2>4 DEF Balanced
<1>6. \A w \in Workers : Works(ws[w], ring, nops, chan[w] = "gone")
  <2> SUFFICES ASSUME NEW w \in Workers PROVE Works(ws[w], <<>>, 0, chan[w] = "gone")
    BY <1>2
  <2> QED BY <1>3 DEF Works
<1>7. AnchorInv /\ FenceInv
  BY <1>1, <1>2, <1>3 DEF AnchorInv, FenceInv
<1> QED BY <1>4, <1>5, <1>6, <1>7 DEF IInv, Safe

LEMMA NextIInv ==
  ASSUME IInv, [Next]_vars
  PROVE  IInv'
<1>1. CASE UNCHANGED vars
  BY <1>1 DEF IInv, Safe, TypeInv, Balanced, AnchorInv, FenceInv, vars, primaryVars
<1>2. ASSUME NEW w \in Workers, Operation(w) PROVE IInv'
  <2>1. Connected(w)
    BY <1>2 DEF Operation
  <2>2. CASE \E k \in Keys, level \in SetLevels, bad \in Unsendable : Set(w, k, level, bad)
    BY <2>1, <2>2, SetKeeps
  <2>3. CASE \E k \in Keys : Delete(w, k)
    BY <2>1, <2>3, DeleteKeeps
  <2>4. CASE ClearAll(w)
    BY <2>1, <2>4, ClearKeeps
  <2> QED BY <1>2, <2>2, <2>3, <2>4 DEF Operation
<1>3. ASSUME NEW w \in Workers,
             \/ ScheduledFlush(w) \/ SettleClearGen(w) \/ ChaseTimer(w) \/ Drain(w)
             \/ Written(w) \/ SendFailed(w) \/ Break(w) \/ Disconnected(w) \/ Exit(w)
             \/ ApplyBatch(w)
             \/ \E event \in {"exit", "disconnect"} : Gone(w, event)
      PROVE  IInv'
  BY <1>3, FlushKeeps, SettleKeeps, ChaseKeeps, DrainKeeps, WrittenKeeps, FailedKeeps,
     BreakKeeps, DisconnectKeeps, ExitKeeps, ApplyKeeps, GoneKeeps
<1>4. CASE PrimaryClear
  BY <1>4, PrimaryClearKeeps
<1>5. CASE PrimarySettle
  BY <1>5, PrimarySettleKeeps
<1> QED BY <1>1, <1>2, <1>3, <1>4, <1>5 DEF Next

-----------------------------------------------------------------------------
(* What it says of the properties.                                         *)

LEMMA UndeliveredIs ==
  ASSUME NEW w, ws[w] \in WorkerSet, NEW e
  PROVE  e \in Undelivered(w) <=> \E i \in Due(ws[w]) : e \in At(ws[w], i)
<1>1. PICK s : s = ws[w]
  OBVIOUS
<1>2. DOMAIN s.wire = 1 .. Len(s.wire) /\ Len(s.wire) \in Nat
  BY <1>1, WorkerFields
<1>3. /\ LastLot(s) \in Due(s) /\ At(s, LastLot(s)) = {s.outbox[j] : j \in DOMAIN s.outbox}
      /\ \A i \in DOMAIN s.wire : /\ i \in Due(s) <=> s.wire[i].due
                                  /\ At(s, i) = {s.wire[i].ops[j] : j \in DOMAIN s.wire[i].ops}
      /\ \A i \in Due(s) : i \in DOMAIN s.wire \/ i = LastLot(s)
  BY <1>2 DEF LastLot, Due, Lots, At, OpsAt
<1>4. e \in Undelivered(w) <=>
        \/ e \in {s.outbox[j] : j \in DOMAIN s.outbox}
        \/ \E i \in DOMAIN s.wire :
             s.wire[i].due /\ e \in {s.wire[i].ops[j] : j \in DOMAIN s.wire[i].ops}
  BY <1>1 DEF Undelivered
<1> QED BY <1>1, <1>3, <1>4

LEMMA SaneMarks ==
  ASSUME IInv
  PROVE  TypeOK
<1>1. settled <= gen
  <2>1. Tally(Workers, gensOwed) \in Nat
    <3>1. \A v \in Workers : gensOwed[v] \in Nat
      BY DEF IInv, Safe, TypeInv
    <3> QED BY <3>1, TallyType, OutboxAssumption DEF OutboxAssumption
  <2>2. /\ settled \in Nat /\ gen \in Nat
        /\ gen - settled = Tally(Workers, gensOwed) + (IF pclr THEN 1 ELSE 0)
    BY DEF IInv, Safe, TypeInv, Balanced
  <2>3. PICK y \in {0, 1} : y = IF pclr THEN 1 ELSE 0
    OBVIOUS
  <2>4. gen - settled = Tally(Workers, gensOwed) + y
    BY <2>2, <2>3
  <2> QED BY <2>1, <2>2, <2>3, <2>4
<1>2. ASSUME NEW w \in Workers
      PROVE  /\ chan[w] \in {"up", "broken", "gone"}
             /\ ws[w].window = Cardinality(InFlight(ws[w]))
             /\ \A k \in Keys : ws[w].del[k].seq <= ws[w].seq /\ ws[w].write[k].seq <= ws[w].seq
  <2>1. chan[w] \in {"up", "broken", "gone"}
    BY DEF IInv, Safe, TypeInv
  <2>2. PICK s : s = ws[w]
    OBVIOUS
  <2>3. Windowed(s) /\ Sane(s, ring)
    BY <2>2, Known
  <2>4. s.window = Cardinality(InFlight(s))
    BY <2>3, InFlightTally DEF Windowed
  <2>5. \A k \in Keys : s.del[k].seq <= s.seq /\ s.write[k].seq <= s.seq
    <3> SUFFICES ASSUME NEW k \in Keys PROVE s.del[k].seq <= s.seq /\ s.write[k].seq <= s.seq
      OBVIOUS
    <3>1. MarkOf(s, "d", k).seq <= s.seq /\ MarkOf(s, "s", k).seq <= s.seq
      BY <2>3 DEF Sane, Sides
    <3> QED BY <3>1 DEF MarkOf
  <2> QED BY <2>1, <2>2, <2>4, <2>5
<1> QED BY <1>1, <1>2 DEF TypeOK

LEMMA AnchorsHold ==
  ASSUME IInv, 3 \notin SetLevels
  PROVE  NoOrphanMark
<1> SUFFICES ASSUME NEW w \in Workers, NEW k \in Keys,
                    NEW m \in {ws[w].del[k], ws[w].write[k]} \ {NoMark}
             PROVE  \/ \E e \in Undelivered(w) : e.key = k /\ e.seq = m.seq
                    \/ \E i \in (ws[w].cursor + 1) .. Len(ring) : ring[i] \in {k, FlushAll} /\ i > m.at
  BY SaneMarks DEF NoOrphanMark
<1>1. PICK s : s = ws[w]
  OBVIOUS
<1>2. s \in WorkerSet /\ Anchored(s, ring)
  BY <1>1, Known
<1>3. PICK side \in Sides : m = MarkOf(s, side, k)
  <2>1. m = MarkOf(s, "d", k) \/ m = MarkOf(s, "s", k)
    BY <1>1 DEF MarkOf
  <2> QED BY <2>1 DEF Sides
<1>4. Queued(s, side, k, m.seq) \/ Ahead(s, ring, k, m.at)
  BY <1>2, <1>3 DEF Anchored
<1>5. CASE Queued(s, side, k, m.seq)
  <2>1. PICK i \in Due(s) : \E e \in At(s, i) : e.key = k /\ e.seq = m.seq
    BY <1>5 DEF Queued
  <2>2. PICK e \in At(s, i) : e.key = k /\ e.seq = m.seq
    BY <2>1
  <2>3. e \in Undelivered(w)
    BY <1>1, <1>2, <2>1, <2>2, UndeliveredIs
  <2> QED BY <2>2, <2>3
<1>6. CASE Ahead(s, ring, k, m.at)
  BY <1>1, <1>6 DEF Ahead
<1> QED BY <1>4, <1>5, <1>6

LEMMA LivesHold ==
  ASSUME IInv
  PROVE  LiveMarkKept
<1> SUFFICES ASSUME NEW w \in Workers, NEW e \in Undelivered(w), e.seq > 0, e.n = ws[w].last[e.key]
             PROVE  \/ e.seq \in {ws[w].del[e.key].seq, ws[w].write[e.key].seq}
                    \/ \E i \in 1 .. ws[w].cursor : ring[i] = FlushAll \/ (ring[i] = e.key /\ i > e.at)
  BY DEF LiveMarkKept
<1>1. PICK s : s = ws[w]
  OBVIOUS
<1>2. s \in WorkerSet /\ Live(s, ring)
  BY <1>1, Known, DeadHolds DEF Fit
<1>3. PICK i \in Due(s) : e \in At(s, i)
  BY <1>1, <1>2, UndeliveredIs
<1>4. HasMark(s, e) \/ Passed(s, ring, e)
  BY <1>1, <1>2, <1>3 DEF Live
<1>5. CASE HasMark(s, e)
  BY <1>1, <1>5 DEF HasMark, Sides, MarkOf
<1>6. CASE Passed(s, ring, e)
  BY <1>1, <1>6 DEF Passed
<1> QED BY <1>4, <1>5, <1>6

LEMMA FencesHold ==
  ASSUME IInv, TRUE \notin Unsendable
  PROVE  ClearGuarded
<1>1. PICK U : U = {w \in Workers : chan[w] = "up" /\ applied[w] = ws[w].clears /\ ws[w].out > 0}
  OBVIOUS
<1>2. ASSUME NEW w \in U PROVE gensOwed[w] >= 1
  <2>1. PICK s : s = ws[w]
    OBVIOUS
  <2>2. w \in Workers /\ chan[w] = "up" /\ applied[w] = s.clears /\ s.out > 0
    BY <1>1, <2>1
  <2>3. /\ s \in WorkerSet /\ gensOwed[w] \in Nat /\ applied[w] \in Nat
        /\ Fenced(s, gensOwed[w], applied[w])
    BY <2>1, <2>2, Known
  <2> QED BY <2>2, <2>3, FencedOwes
<1>3. PICK f : f = gensOwed
  OBVIOUS
<1>4. /\ IsFiniteSet(Workers) /\ (\A w \in Workers : f[w] \in Nat)
      /\ U \subseteq Workers /\ \A w \in U : f[w] >= 1
  BY <1>1, <1>2, <1>3, OutboxAssumption DEF OutboxAssumption, IInv, Safe, TypeInv
<1>5. Cardinality(U) \in Nat /\ Cardinality(U) <= Tally(Workers, f)
  BY <1>4, TallyCount
<1>6. Tally(Workers, f) \in Nat
  BY <1>4, TallyType
<1>7. PICK y \in {0, 1} : y = IF pclr THEN 1 ELSE 0
  OBVIOUS
<1>8. gen - settled = Tally(Workers, f) + y
  BY <1>3, <1>7 DEF IInv, Safe, Balanced
<1>9. gen - settled >= Cardinality(U) + y
  BY <1>5, <1>6, <1>7, <1>8
<1> QED BY <1>1, <1>7, <1>9 DEF ClearGuarded

-----------------------------------------------------------------------------
(***************************************************************************)
(* The inductive invariant: every worker's outbox, channel, window and     *)
(* marks fit its sequence of operations and the ring; the generations that *)
(* are open are what the attachments and the primary owe; the marks are    *)
(* anchored and the clears fenced, where the bounds rule out the two cases *)
(* in which the code drops an operation without its own release.           *)
(***************************************************************************)
THEOREM Invariant == Spec => []IInv
<1>1. Init => IInv
  BY InitIInv
<1>2. IInv /\ [Next]_vars => IInv'
  BY NextIInv
<1> QED BY <1>1, <1>2, PTL DEF Spec

(***************************************************************************)
(* Losing a batch (#releaseBatchMarks), shedding the outbox (#shedOutbox)  *)
(* or the end of the channel never releases the mark of a later operation: *)
(* the newest operation on a key keeps its mark while it is on its way,    *)
(* until a record of the key past it or a clear's releases it.             *)
(***************************************************************************)
THEOREM NewestKeepsItsMark == Spec => []LiveMarkKept
<1>1. IInv => LiveMarkKept
  BY LivesHold
<1> QED BY <1>1, Invariant, PTL

(***************************************************************************)
(* A key is never left marked with nothing on its way to unmark it: every  *)
(* mark has its operation in the outbox or in the channel, or a record the *)
(* worker has yet to read, whichever of the four ways its batch was lost.  *)
(* A set with minLevel 3 is kept out: it takes a write mark and sends a    *)
(* 'd', and the loss of a 'd' releases removal marks only.                 *)
(***************************************************************************)
THEOREM NoOrphans ==
  ASSUME 3 \notin SetLevels
  PROVE  Spec => []NoOrphanMark
<1>1. IInv => NoOrphanMark
  BY AnchorsHold
<1> QED BY <1>1, Invariant, PTL

(***************************************************************************)
(* While a worker's clear that has emptied the arena is still on its way   *)
(* to L3, or the primary's own is, the generation is open, so no process   *)
(* promotes what it is erasing; no '-' of another process, alive, dead or  *)
(* replaced, settles it (#l3ClearSettleFor, #settleClearGen).  A value     *)
(* that process.send throws for can take the '+' of a clear in its batch   *)
(* with it, so such values are kept out.                                   *)
(***************************************************************************)
THEOREM ClearsAreGuarded ==
  ASSUME TRUE \notin Unsendable
  PROVE  Spec => []ClearGuarded
<1>1. IInv => ClearGuarded
  BY FencesHold
<1> QED BY <1>1, Invariant, PTL

=============================================================================
