--------------------------- MODULE DataInduction ----------------------------
(***************************************************************************)
(* Induction over data, in a form first-order provers can use: the         *)
(* parameter of a lemma is a set or a function, never an operator.  A      *)
(* predicate becomes the set of the numbers that satisfy it, and the body  *)
(* of a loop the function from its index and its state to its next state.  *)
(***************************************************************************)
EXTENDS Integers, FiniteSetsExt, SequencesExt, FiniteSetTheorems, SequenceTheorems, TLAPS

\* Every set of numbers up to some bound has a least element: downward closed
\* parts of a finite set are ordered by inclusion, which is well-founded.
LEMMA LeastElement ==
    ASSUME NEW M \in Nat, NEW S \in SUBSET (0 .. M), S # {}
    PROVE  \E x \in S : \A y \in S : x <= y
<1> DEFINE Down(x) == {y \in S : y <= x}
           T == {Down(x) : x \in S}
           R == StrictSubsetOrdering(S)
<1>1. \A x \in S : Down(x) \in FiniteSubsetsOf(S)
  <2>1. IsFiniteSet(0 .. M)
    BY FS_Interval
  <2>2. IsFiniteSet(S)
    BY <2>1, FS_Subset
  <2>3. \A x \in S : Down(x) \in SUBSET S
    OBVIOUS
  <2>4. \A x \in S : IsFiniteSet(Down(x))
    BY <2>2, <2>3, FS_Subset
  <2> QED
    BY <2>3, <2>4 DEF FiniteSubsetsOf
<1>2. T \subseteq FiniteSubsetsOf(S) /\ T # {}
  BY <1>1
<1>3. IsWellFoundedOn(R, FiniteSubsetsOf(S))
  BY FS_StrictSubsetOrderingWellFounded
<1> HIDE DEF T, R
<1>4. PICK t \in T : \A u \in T : ~(<<u, t>> \in R)
  BY <1>2, <1>3, WFMin
<1>5. PICK x \in S : t = Down(x)
  BY DEF T
<1>6. ASSUME NEW y \in S, ~(x <= y)
      PROVE  FALSE
  <2>0. \A z \in S : z \in Int
    OBVIOUS
  <2>1. Down(y) \subseteq Down(x) /\ x \notin Down(y) /\ x \in Down(x)
    <3>1. x \in Int /\ y \in Int /\ y < x
      BY <1>6, <2>0
    <3>2. x \notin Down(y) /\ x \in Down(x)
      BY <3>1
    <3>3. ASSUME NEW z \in Down(y)
          PROVE  z \in Down(x)
      <4>1. z \in S /\ z \in Int /\ z <= y
        BY <2>0
      <4>2. z <= x
        BY <3>1, <4>1
      <4> QED
        BY <4>1, <4>2
    <3> QED
      BY <3>2, <3>3
  <2>2. <<Down(y), Down(x)>> \in R
    BY <2>1 DEF R, StrictSubsetOrdering
  <2> QED
    BY <2>2, <1>4, <1>5 DEF T
<1> QED
  BY <1>6

\* Induction on a loop index: a set with 0 and with the successor of each of
\* its members holds all indices.
LEMMA Induction ==
    ASSUME NEW n \in Nat, NEW P, 0 \in P,
           \A i \in 1 .. n : i - 1 \in P => i \in P
    PROVE  \A i \in 0 .. n : i \in P
<1> DEFINE Q == {i \in 0 .. n : i \notin P}
<1>1. SUFFICES ASSUME Q # {} PROVE FALSE
  OBVIOUS
<1>2. PICK x \in Q : \A y \in Q : x <= y
  BY <1>1, LeastElement, Q \in SUBSET (0 .. n)
<1>3. x \in 1 .. n
  BY <1>2
<1>4. x - 1 \notin Q /\ x - 1 \in 0 .. n
  BY <1>2, <1>3
<1> QED
  BY <1>2, <1>3, <1>4

\* A loop of n rounds whose round i takes a state in S[i - 1] to one in S[i]
\* defines the states after all its rounds, and they are where S says.
IsLoop(f, n, b, g) == f = [i \in 0 .. n |-> IF i = 0 THEN b ELSE g[<<i, f[i - 1]>>]]

LEMMA LoopExists ==
    ASSUME NEW n \in Nat, NEW S, NEW b \in S[0], NEW g,
           \A i \in 1 .. n : \A t \in S[i - 1] : g[<<i, t>>] \in S[i]
    PROVE  \E f : IsLoop(f, n, b, g) /\ \A i \in 0 .. n : f[i] \in S[i]
<1> DEFINE Runs(m, f) == /\ f = [i \in 0 .. m |-> IF i = 0 THEN b ELSE g[<<i, f[i - 1]>>]]
                         /\ \A i \in 0 .. m : f[i] \in S[i]
           P == {m \in 0 .. n : \E f : Runs(m, f)}
<1>1. 0 \in P
  <2> DEFINE f == [i \in 0 .. 0 |-> b]
  <2>1. Runs(0, f)
    OBVIOUS
  <2> HIDE DEF f, Runs
  <2> QED
    BY <2>1
<1>2. ASSUME NEW i \in 1 .. n, i - 1 \in P
      PROVE  i \in P
  <2>1. PICK f : Runs(i - 1, f)
    BY <1>2
  <2> DEFINE h == [j \in 0 .. i |-> IF j = i THEN g[<<i, f[i - 1]>>] ELSE f[j]]
  <2>2. \A j \in 0 .. i : j # i => h[j] = f[j]
    OBVIOUS
  <2>3. h[i] = g[<<i, f[i - 1]>>] /\ h[i] \in S[i] /\ h[0] = b
    BY <2>1
  <2>4. \A j \in 1 .. i : h[j] = g[<<j, h[j - 1]>>]
    <3>1. \A j \in 1 .. (i - 1) : f[j] = g[<<j, f[j - 1]>>]
      BY <2>1
    <3>2. \A j \in 1 .. (i - 1) : h[j] = g[<<j, h[j - 1]>>]
      <4>1. \A j \in 1 .. (i - 1) : h[j] = f[j] /\ h[j - 1] = f[j - 1]
        BY <2>2
      <4> HIDE DEF h
      <4> QED
        BY <3>1, <4>1
    <3>3. h[i - 1] = f[i - 1]
      BY <2>2
    <3>4. \A j \in 1 .. i : j = i \/ j \in 1 .. (i - 1)
      OBVIOUS
    <3> HIDE DEF h
    <3> QED
      BY <2>3, <3>2, <3>3, <3>4
  <2>5. \A j \in 0 .. i : h[j] \in S[j]
    BY <2>1, <2>2, <2>3
  <2>6. \A j \in 0 .. i : h[j] = IF j = 0 THEN b ELSE g[<<j, h[j - 1]>>]
    <3> HIDE DEF h
    <3> QED
      BY <2>3, <2>4
  <2>7. h = [j \in 0 .. i |-> h[j]]
    OBVIOUS
  <2> HIDE DEF h
  <2>8. h = [j \in 0 .. i |-> IF j = 0 THEN b ELSE g[<<j, h[j - 1]>>]]
    BY <2>6, <2>7
  <2>9. Runs(i, h)
    BY <2>5, <2>8
  <2> HIDE DEF Runs
  <2> QED
    BY <2>9
<1>3. n \in P
  <2> HIDE DEF P
  <2> QED
    BY <1>1, <1>2, Induction
<1> QED
  BY <1>3 DEF IsLoop

\* A search that either stops at i or goes on at j[i], which is larger, and then
\* takes what comes back from there, or b[i] instead of z.
IsDescent(f, n, j, a, b, z) ==
    f = [i \in 0 .. n |-> IF j[i] = 0 THEN a[i] ELSE IF f[j[i]] # z THEN f[j[i]] ELSE b[i]]

LEMMA DescentExists ==
    ASSUME NEW n \in Nat, NEW j, \A i \in 0 .. n : j[i] # 0 => j[i] \in (i + 1) .. n,
           NEW a, NEW b, NEW z
    PROVE  \E f : IsDescent(f, n, j, a, b, z)
<1> DEFINE Body(f, i) == IF j[i] = 0 THEN a[i] ELSE IF f[j[i]] # z THEN f[j[i]] ELSE b[i]
           Runs(k, f) == f = [i \in 0 .. n |-> f[i]] /\ \A i \in (n - k) .. n : f[i] = Body(f, i)
           P == {k \in 0 .. n : \E f : Runs(k, f)}
<1>1. 0 \in P
  <2> DEFINE f == [i \in 0 .. n |-> a[i]]
  <2>1. j[n] = 0 /\ n \in 0 .. n
    OBVIOUS
  <2>2. f = [i \in 0 .. n |-> f[i]] /\ f[n] = a[n]
    OBVIOUS
  <2> HIDE DEF f
  <2>3. \A i \in (n - 0) .. n : i = n
    OBVIOUS
  <2>4. Runs(0, f)
    BY <2>1, <2>2, <2>3
  <2> HIDE DEF Runs
  <2> QED
    BY <2>4
<1>2. ASSUME NEW k \in 1 .. n, k - 1 \in P PROVE k \in P
  <2>1. PICK f : Runs(k - 1, f)
    BY <1>2
  <2> DEFINE c == n - k
             v == Body(f, c)
             h == [i \in 0 .. n |-> IF i = c THEN v ELSE f[i]]
  <2>2. c \in 0 .. n /\ \A i \in c .. n : i = c \/ i \in (n - (k - 1)) .. n
    OBVIOUS
  <2>3. h = [i \in 0 .. n |-> h[i]]
    OBVIOUS
  <2>4. \A i \in c .. n : j[i] # 0 => h[j[i]] = f[j[i]]
    <3>1. \A i \in c .. n : j[i] # 0 => j[i] \in 0 .. n /\ j[i] # c
      BY <2>2
    <3> HIDE DEF c, v
    <3> QED
      BY <3>1
  <2>5. h[c] = v /\ \A i \in (n - (k - 1)) .. n : h[i] = f[i]
    <3>1. \A i \in (n - (k - 1)) .. n : i \in 0 .. n /\ i # c
      OBVIOUS
    <3> HIDE DEF v, c
    <3> QED
      BY <2>2, <3>1
  <2> HIDE DEF h
  <2>6. \A i \in c .. n : h[i] = Body(h, i)
    <3>1. ASSUME NEW i \in c .. n PROVE Body(h, i) = Body(f, i)
      BY <2>4
    <3>2. ASSUME NEW i \in c .. n PROVE h[i] = Body(f, i)
      <4>1. CASE i = c
        BY <2>5, <4>1
      <4>2. CASE i # c
        <5>1. i \in (n - (k - 1)) .. n
          BY <2>2, <4>2
        <5> HIDE DEF Body
        <5> QED
          BY <2>1, <2>5, <5>1
      <4> QED
        BY <4>1, <4>2
    <3> HIDE DEF Body
    <3> QED
      BY <3>1, <3>2
  <2>7. Runs(k, h)
    BY <2>3, <2>6
  <2> HIDE DEF Runs
  <2> QED
    BY <2>7
<1>3. n \in P
  <2> HIDE DEF P
  <2> QED
    BY <1>1, <1>2, Induction
<1>4. PICK f : Runs(n, f)
  BY <1>3
<1>5. \A i \in 0 .. n : f[i] = Body(f, i)
  <2>1. \A i \in 0 .. n : i \in (n - n) .. n
    OBVIOUS
  <2> HIDE DEF Body
  <2> QED
    BY <1>4, <2>1
<1>6. f = [i \in 0 .. n |-> Body(f, i)]
  <2> HIDE DEF Body
  <2> QED
    BY <1>4, <1>5
<1> QED
  BY <1>6 DEF IsDescent

\* The operator Min of the community modules.
LEMMA MinIsLeast ==
    ASSUME NEW n \in Nat, NEW S \in SUBSET (1 .. n), S # {}
    PROVE  Min(S) \in S /\ \A y \in S : Min(S) <= y
<1>1. \E x \in S : \A y \in S : x <= y
  BY LeastElement, S \in SUBSET (0 .. n)
<1> QED
  BY <1>1 DEF Min

\* And the operator Max.
LEMMA MaxIsGreatest ==
    ASSUME NEW n \in Nat, NEW S \in SUBSET (1 .. n), S # {}
    PROVE  Max(S) \in S /\ \A y \in S : y <= Max(S)
<1> DEFINE T == {n - x : x \in S}
<1>1. T \in SUBSET (0 .. n) /\ T # {}
  <2>1. \A x \in S : n - x \in 0 .. n
    OBVIOUS
  <2>2. PICK x \in S : TRUE
    OBVIOUS
  <2>3. n - x \in T
    OBVIOUS
  <2> QED
    BY <2>1, <2>3
<1>2. PICK t \in T : \A u \in T : t <= u
  <2> HIDE DEF T
  <2> QED
    BY <1>1, LeastElement
<1>3. PICK x \in S : t = n - x
  OBVIOUS
<1>4. \A y \in S : x >= y
  <2> SUFFICES ASSUME NEW y \in S PROVE x >= y
    OBVIOUS
  <2>1. n - y \in T /\ x \in Int /\ y \in Int
    OBVIOUS
  <2>2. n - x <= n - y
    BY <1>2, <1>3, <2>1
  <2> QED
    BY <2>1, <2>2
<1>5. Max(S) \in S /\ \A y \in S : Max(S) >= y
  BY <1>4 DEF Max
<1> QED
  BY <1>5

\* Flattening is a loop.
LEMMA FlattenSeqUnfolds ==
    ASSUME NEW X, NEW q \in Seq(Seq(X)), NEW n \in Nat \ {0}, n = Len(q)
    PROVE  \E f : /\ FlattenSeq(q) = f[n]
                  /\ \A i \in 1 .. n : f[i] = IF i = 1 THEN q[i] ELSE f[i - 1] \o q[i]
<1> DEFINE Flat(f) == f = [i \in 1 .. Len(q) |-> IF i = 1 THEN q[i] ELSE f[i - 1] \o q[i]]
<1>0. \A i \in 1 .. n : q[i] \in Seq(X)
  BY ElementOfSeq
<1>1. \E f : Flat(f)
  <2> DEFINE g == [x \in (1 .. n) \X Seq(X) |-> x[2] \o q[x[1]]]
             S == [i \in 0 .. n |-> Seq(X)]
  <2>1. n \in Nat /\ <<>> \in S[0]
    OBVIOUS
  <2>2. ASSUME NEW i \in 1 .. n, NEW t \in S[i - 1]
        PROVE  g[<<i, t>>] \in S[i] /\ t \in Seq(X) /\ g[<<i, t>>] = t \o q[i]
    <3>1. i - 1 \in 0 .. n /\ i \in 0 .. n
      OBVIOUS
    <3>2. t \in Seq(X) /\ q[i] \in Seq(X)
      BY <1>0, <3>1
    <3>3. t \o q[i] \in Seq(X)
      BY <3>2, ConcatProperties
    <3> QED
      BY <3>1, <3>2, <3>3
  <2> HIDE DEF g
  <2>3. PICK h : IsLoop(h, n, <<>>, g) /\ \A i \in 0 .. n : h[i] \in S[i]
    <3> HIDE DEF S
    <3> QED
      BY <2>1, <2>2, LoopExists
  <2> DEFINE f == [i \in 1 .. n |-> h[i]]
  <2>4. ASSUME NEW i \in 1 .. n
        PROVE  f[i] = IF i = 1 THEN q[i] ELSE f[i - 1] \o q[i]
    <3>0. i \in 0 .. n /\ 0 \in 0 .. n /\ i - 1 \in 0 .. n /\ i # 0
      OBVIOUS
    <3>1. h[0] = <<>> /\ h[i] = g[<<i, h[i - 1]>>] /\ h[i - 1] \in S[i - 1]
      <4>1. \A j \in 0 .. n : h[j] = IF j = 0 THEN <<>> ELSE g[<<j, h[j - 1]>>]
        BY <2>3 DEF IsLoop
      <4> HIDE DEF S
      <4> QED
        BY <2>3, <3>0, <4>1
    <3>2. h[i] = h[i - 1] \o q[i]
      <4> HIDE DEF S
      <4> QED
        BY <2>2, <3>1
    <3>3. <<>> \o q[i] = q[i]
      BY <1>0, ConcatEmptySeq
    <3>4. f[i] = h[i] /\ (i # 1 => f[i - 1] = h[i - 1])
      OBVIOUS
    <3> HIDE DEF f
    <3>5. CASE i = 1
      <4>1. i - 1 = 0
        BY <3>5
      <4>2. h[i] = <<>> \o q[i]
        BY <3>1, <3>2, <4>1
      <4> QED
        BY <3>3, <3>4, <3>5, <4>2
    <3>6. CASE i # 1
      BY <3>2, <3>4, <3>6
    <3> QED
      BY <3>5, <3>6
  <2>5. f = [i \in 1 .. n |-> f[i]]
    OBVIOUS
  <2> HIDE DEF f
  <2>6. Flat(f)
    BY <2>4, <2>5
  <2> HIDE DEF Flat
  <2> QED
    BY <2>6
<1> DEFINE f == CHOOSE f : Flat(f)
<1>2. FlattenSeq(q) = f[n]
  BY DEF FlattenSeq
<1>3. Flat(f)
  <2> HIDE DEF Flat
  <2> QED
    BY <1>1
<1> HIDE DEF f
<1> QED
  BY <1>2, <1>3

=============================================================================
