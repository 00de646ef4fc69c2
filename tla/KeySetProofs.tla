---------------------------- MODULE KeySetProofs ----------------------------
(***************************************************************************)
(* KeySet is safe and implements KeyMap, for any keys, names, number of    *)
(* keysets and sequence of calls.                                          *)
(*                                                                         *)
(* First come keysets one at a time, for arrays of any length: order, the  *)
(* binary search of ksSearchInternal(), and what the operators of KeySet   *)
(* return.  The invariant then says that every keyset is Fine (sorted,     *)
(* with room for the null pointer, the cursor on its key), that the trail  *)
(* of an iteration ends at the cursor (Tracks), and that the counters      *)
(* count (Counted).  There is one lemma on what each operation makes of a  *)
(* state that is Good, and one for each action of KeySet.                  *)
(***************************************************************************)
EXTENDS KeySet, DataInduction, SequenceTheorems
-----------------------------------------------------------------------------
(* Sequences *)

LEMMA ToSetProperties ==
    ASSUME NEW S, NEW q \in Seq(S)
    PROVE  /\ ToSet(q) = {q[i] : i \in 1 .. Len(q)}
           /\ ToSet(q) \in SUBSET S
           /\ \A x : x \in ToSet(q) <=> \E i \in 1 .. Len(q) : q[i] = x
  BY LenProperties, ElementOfSeq DEF ToSet

LEMMA FirstOnes ==
    ASSUME NEW S, NEW q, NEW f \in Nat, \A j \in 1 .. f : q[j] \in S
    PROVE  /\ SubSeq(q, 1, f) \in Seq(S) /\ Len(SubSeq(q, 1, f)) = f
           /\ \A j \in 1 .. f : SubSeq(q, 1, f)[j] = q[j]
<1>1. 1 \in Int /\ f \in Int
  OBVIOUS
<1>2. /\ SubSeq(q, 1, f) \in Seq(S)
      /\ Len(SubSeq(q, 1, f)) = (IF 1 <= f THEN f - 1 + 1 ELSE 0)
      /\ \A j \in 1 .. (f - 1 + 1) : SubSeq(q, 1, f)[j] = q[1 + j - 1]
  BY <1>1, SubSeqProperties
<1> DEFINE a == SubSeq(q, 1, f)
<1>3. a \in Seq(S) /\ Len(a) = (IF 1 <= f THEN f - 1 + 1 ELSE 0) /\ \A j \in 1 .. (f - 1 + 1) : a[j] = q[1 + j - 1]
  BY <1>2
<1>4. (IF 1 <= f THEN f - 1 + 1 ELSE 0) = f /\ f - 1 + 1 = f /\ \A j \in 1 .. f : 1 + j - 1 = j
  OBVIOUS
<1> HIDE DEF a
<1>5. a \in Seq(S) /\ Len(a) = f /\ \A j \in 1 .. f : a[j] = q[j]
  BY <1>3, <1>4
<1> QED
  BY <1>5 DEF a

LEMMA InsertAtPlace ==
    ASSUME NEW S, NEW q \in Seq(S), NEW i \in 1 .. Len(q) + 1, NEW e \in S
    PROVE  /\ InsertAt(q, i, e) \in Seq(S)
           /\ Len(InsertAt(q, i, e)) = Len(q) + 1
           /\ \A j \in 1 .. (i - 1) : InsertAt(q, i, e)[j] = q[j]
           /\ InsertAt(q, i, e)[i] = e
           /\ \A j \in (i + 1) .. (Len(q) + 1) : InsertAt(q, i, e)[j] = q[j - 1]
<1> DEFINE a == SubSeq(q, 1, i - 1)
           b == SubSeq(q, i, Len(q))
<1>0. Len(q) \in Nat /\ i \in Int /\ \A j \in 1 .. Len(q) : q[j] \in S
  BY LenProperties, ElementOfSeq
<1>1. a \in Seq(S) /\ Len(a) = i - 1 /\ \A j \in 1 .. (i - 1) : a[j] = q[j]
  <2>1. \A j \in 1 .. (i - 1) : q[j] \in S /\ 1 + j - 1 = j
    BY <1>0
  <2>2. (IF 1 <= i - 1 THEN i - 1 - 1 + 1 ELSE 0) = i - 1 /\ i - 1 - 1 + 1 = i - 1
    BY <1>0
  <2>3. /\ a \in Seq(S) /\ Len(a) = (IF 1 <= i - 1 THEN i - 1 - 1 + 1 ELSE 0)
        /\ \A j \in 1 .. (i - 1 - 1 + 1) : a[j] = q[1 + j - 1]
    BY <1>0, <2>1, SubSeqProperties, i - 1 \in Int
  <2> QED
    BY <2>1, <2>2, <2>3
<1>2. b \in Seq(S) /\ Len(b) = Len(q) - i + 1 /\ \A j \in 1 .. (Len(q) - i + 1) : b[j] = q[i + j - 1]
  <2>1. \A j \in i .. Len(q) : q[j] \in S
    BY <1>0
  <2>2. (IF i <= Len(q) THEN Len(q) - i + 1 ELSE 0) = Len(q) - i + 1
    BY <1>0
  <2>3. /\ b \in Seq(S) /\ Len(b) = (IF i <= Len(q) THEN Len(q) - i + 1 ELSE 0)
        /\ \A j \in 1 .. (Len(q) - i + 1) : b[j] = q[i + j - 1]
    BY <1>0, <2>1, SubSeqProperties
  <2> QED
    BY <2>2, <2>3
<1> HIDE DEF a, b
<1> DEFINE c == a \o <<e>>
<1>3. <<e>> \in Seq(S) /\ Len(<<e>>) = 1 /\ <<e>>[1] = e
  OBVIOUS
<1>4. /\ c \in Seq(S) /\ Len(c) = i
      /\ \A j \in 1 .. i : c[j] = IF j <= i - 1 THEN a[j] ELSE <<e>>[j - (i - 1)]
  BY <1>0, <1>1, <1>3, ConcatProperties
<1>5. c[i] = e /\ \A j \in 1 .. (i - 1) : c[j] = q[j]
  BY <1>0, <1>1, <1>3, <1>4
<1> DEFINE d == c \o b
<1> HIDE DEF c
<1>6. /\ d \in Seq(S) /\ Len(d) = Len(c) + Len(b)
      /\ \A j \in 1 .. (Len(c) + Len(b)) : d[j] = IF j <= Len(c) THEN c[j] ELSE b[j - Len(c)]
  BY <1>2, <1>4, ConcatProperties
<1>7. Len(c) + Len(b) = Len(q) + 1
  BY <1>0, <1>2, <1>4
<1>8. \A j \in 1 .. i : j \in 1 .. (Len(q) + 1) /\ d[j] = c[j]
  BY <1>0, <1>4, <1>6, <1>7
<1>9. ASSUME NEW j \in (i + 1) .. (Len(q) + 1)
      PROVE  d[j] = q[j - 1]
  <2>1. j \in 1 .. (Len(q) + 1) /\ ~(j <= i) /\ j - i \in 1 .. (Len(q) - i + 1) /\ i + (j - i) - 1 = j - 1
    BY <1>0
  <2>2. d[j] = b[j - i]
    BY <1>4, <1>6, <1>7, <2>1
  <2> QED
    BY <1>2, <2>1, <2>2
<1>10. InsertAt(q, i, e) = d
  BY DEF InsertAt, a, b, c
<1>11. \A j \in 1 .. (i - 1) : j \in 1 .. i
  BY <1>0
<1>12. i \in 1 .. i
  BY <1>0
<1> HIDE DEF d
<1> QED
  BY <1>5, <1>6, <1>7, <1>8, <1>9, <1>10, <1>11, <1>12

\* A sequence without the elements from f + 1 to t.
CutOut(q, f, t) == SubSeq(q, 1, f) \o SubSeq(q, t + 1, Len(q))

LEMMA CutOutProperties ==
    ASSUME NEW S, NEW q \in Seq(S), NEW f \in 0 .. Len(q), NEW t \in f .. Len(q)
    PROVE  /\ CutOut(q, f, t) \in Seq(S)
           /\ Len(CutOut(q, f, t)) = Len(q) - (t - f)
           /\ \A j \in 1 .. f : CutOut(q, f, t)[j] = q[j]
           /\ \A j \in (f + 1) .. (Len(q) - (t - f)) : CutOut(q, f, t)[j] = q[j + (t - f)]
<1> DEFINE a == SubSeq(q, 1, f)
           b == SubSeq(q, t + 1, Len(q))
           d == a \o b
<1>0. /\ Len(q) \in Nat /\ f \in Nat /\ t \in Nat /\ f <= t /\ t <= Len(q) /\ t + 1 \in Int
      /\ \A j \in 1 .. Len(q) : q[j] \in S
  BY LenProperties, ElementOfSeq
<1>1. a \in Seq(S) /\ Len(a) = f /\ \A j \in 1 .. f : a[j] = q[j]
  <2>1. \A j \in 1 .. f : q[j] \in S
    BY <1>0
  <2> QED
    BY <2>1, FirstOnes
<1>2. b \in Seq(S) /\ Len(b) = Len(q) - t /\ \A j \in 1 .. (Len(q) - t) : b[j] = q[t + j]
  <2>1. \A j \in (t + 1) .. Len(q) : q[j] \in S
    BY <1>0
  <2>2. /\ (IF t + 1 <= Len(q) THEN Len(q) - (t + 1) + 1 ELSE 0) = Len(q) - t
        /\ Len(q) - (t + 1) + 1 = Len(q) - t
        /\ \A j \in 1 .. (Len(q) - t) : t + 1 + j - 1 = t + j
    BY <1>0
  <2>3. /\ b \in Seq(S) /\ Len(b) = (IF t + 1 <= Len(q) THEN Len(q) - (t + 1) + 1 ELSE 0)
        /\ \A j \in 1 .. (Len(q) - (t + 1) + 1) : b[j] = q[t + 1 + j - 1]
    <3>1. t + 1 \in Int /\ Len(q) \in Int
      BY <1>0
    <3> QED
      BY <2>1, <3>1, SubSeqProperties
  <2> QED
    BY <2>2, <2>3
<1> HIDE DEF a, b
<1>3. /\ d \in Seq(S) /\ Len(d) = Len(a) + Len(b)
      /\ \A j \in 1 .. (Len(a) + Len(b)) : d[j] = IF j <= Len(a) THEN a[j] ELSE b[j - Len(a)]
  BY <1>1, <1>2, ConcatProperties
<1>4. Len(a) + Len(b) = Len(q) - (t - f)
  BY <1>0, <1>1, <1>2
<1>5. \A j \in 1 .. f : j \in 1 .. (Len(q) - (t - f)) /\ d[j] = q[j]
  BY <1>0, <1>1, <1>3, <1>4
<1>6. ASSUME NEW j \in (f + 1) .. (Len(q) - (t - f))
      PROVE  d[j] = q[j + (t - f)]
  <2>1. j \in 1 .. (Len(q) - (t - f)) /\ ~(j <= f) /\ j - f \in 1 .. (Len(q) - t) /\ t + (j - f) = j + (t - f)
    BY <1>0
  <2>2. d[j] = b[j - f]
    BY <1>1, <1>3, <1>4, <2>1
  <2> QED
    BY <1>2, <2>1, <2>2
<1>7. CutOut(q, f, t) = d
  BY DEF CutOut, a, b
<1> HIDE DEF d
<1> QED
  BY <1>3, <1>4, <1>5, <1>6, <1>7

-----------------------------------------------------------------------------
(* Names *)

LEMMA Constants ==
    /\ KEYSET_SIZE \in Nat /\ KEYSET_SIZE > 1
    /\ IsFiniteSet(Sets) /\ Browsed \subseteq Sets /\ Hints \subseteq Nat
    /\ NameOf \in [Keys -> Seq(Nat)]
    /\ \A k \in Keys : NameOf[k] \in Seq(Nat) /\ NameOf[k] # <<>>
    /\ NULL \notin Keys /\ Junk \notin Keys /\ Junk # NULL
    /\ Gone \notin Keysets
    /\ \A S \in SUBSET Keys : S # Gone /\ S # Moved /\ S # Invalid
  BY KeySetAssumption

\* Prefixes and the order of names, place by place.
LEMMA PrefixPointwise ==
    ASSUME NEW m \in Seq(Nat), NEW n \in Seq(Nat)
    PROVE  IsPrefix(m, n) <=> Len(m) <= Len(n) /\ \A i \in 1 .. Len(m) : m[i] = n[i]
<1>1. CASE Len(m) <= Len(n)
  <2> DEFINE a == SubSeq(m, 1, Len(m))
             b == SubSeq(n, 1, Len(m))
  <2>1. /\ a \in Seq(Nat) /\ Len(a) = Len(m) /\ \A i \in 1 .. Len(m) : a[i] = m[i]
        /\ b \in Seq(Nat) /\ Len(b) = Len(m) /\ \A i \in 1 .. Len(m) : b[i] = n[i]
    BY <1>1
  <2> HIDE DEF a, b
  <2>2. a = b <=> \A i \in 1 .. Len(m) : a[i] = b[i]
    BY <2>1, SeqEqual
  <2>3. a = b <=> \A i \in 1 .. Len(m) : m[i] = n[i]
    BY <2>1, <2>2
  <2> QED
    BY <1>1, <2>3 DEF IsPrefix, a, b
<1> QED
  BY <1>1 DEF IsPrefix

LEMMA SubSeqPointwise ==
    ASSUME NEW m \in Seq(Nat), NEW n \in Seq(Nat), NEW i \in Nat, i < Len(m) + 1, i < Len(n) + 1
    PROVE  SubSeq(m, 1, i) = SubSeq(n, 1, i) <=> \A j \in 1 .. i : m[j] = n[j]
<1> DEFINE a == SubSeq(m, 1, i)
           b == SubSeq(n, 1, i)
<1>1. /\ a \in Seq(Nat) /\ Len(a) = i /\ \A j \in 1 .. i : a[j] = m[j]
      /\ b \in Seq(Nat) /\ Len(b) = i /\ \A j \in 1 .. i : b[j] = n[j]
  <2>1. 1 \in Int /\ i \in Int /\ Len(m) \in Nat /\ Len(n) \in Nat
    BY LenProperties
  <2>2. /\ \A j \in 1 .. i : m[j] \in Nat
        /\ \A j \in 1 .. i : n[j] \in Nat
    <3>1. \A j \in 1 .. i : j \in 1 .. Len(m) /\ j \in 1 .. Len(n)
      BY <2>1
    <3> QED
      BY <3>1, ElementOfSeq, Zenon
  <2> QED
    BY <2>2, FirstOnes
<1> HIDE DEF a, b
<1>2. a = b <=> \A j \in 1 .. i : a[j] = b[j]
  BY <1>1, SeqEqual
<1> QED
  BY <1>1, <1>2 DEF a, b

\* The first place where two names differ decides.
FirstDifference(m, n, d) ==
    d <= Len(m) /\ d <= Len(n) /\ m[d] < n[d] /\ \A j \in 1 .. (d - 1) : m[j] = n[j]

LEMMA BeforePointwise ==
    ASSUME NEW m \in Seq(Nat), NEW n \in Seq(Nat)
    PROVE  Before(m, n) <=>
             \/ Len(m) < Len(n) /\ \A i \in 1 .. Len(m) : m[i] = n[i]
             \/ \E d \in Nat \ {0} : FirstDifference(m, n, d)
<1>1. (m # n /\ IsPrefix(m, n)) <=> Len(m) < Len(n) /\ \A i \in 1 .. Len(m) : m[i] = n[i]
  <2>1. CASE Len(m) = Len(n)
    <3>1. (\A i \in 1 .. Len(m) : m[i] = n[i]) => m = n
      BY <2>1, SeqEqual
    <3> QED
      BY <2>1, <3>1, PrefixPointwise
  <2>2. CASE Len(m) # Len(n)
    BY <2>2, PrefixPointwise
  <2> QED
    BY <2>1, <2>2
<1>2. ASSUME NEW i \in DOMAIN m \cap DOMAIN n
      PROVE  (SubSeq(m, 1, i - 1) = SubSeq(n, 1, i - 1) /\ m[i] < n[i]) <=> FirstDifference(m, n, i)
  <2>1. /\ i \in 1 .. Len(m) /\ i \in 1 .. Len(n) /\ i - 1 \in Nat
        /\ i - 1 < Len(m) + 1 /\ i - 1 < Len(n) + 1
    BY LenProperties
  <2>2. SubSeq(m, 1, i - 1) = SubSeq(n, 1, i - 1) <=> \A j \in 1 .. (i - 1) : m[j] = n[j]
    BY <2>1, SubSeqPointwise
  <2>3. FirstDifference(m, n, i) <=> (\A j \in 1 .. (i - 1) : m[j] = n[j]) /\ m[i] < n[i]
    BY <2>1 DEF FirstDifference
  <2> QED
    BY <2>2, <2>3
<1>3. \A d \in Nat \ {0} : FirstDifference(m, n, d) => d \in DOMAIN m \cap DOMAIN n
  BY DEF FirstDifference
<1>4. \A i \in DOMAIN m \cap DOMAIN n : i \in Nat \ {0}
  OBVIOUS
<1> QED
  BY <1>1, <1>2, <1>3, <1>4 DEF Before

LEMMA BeforeIrreflexive ==
    ASSUME NEW m \in Seq(Nat)
    PROVE  ~Before(m, m)
  BY BeforePointwise DEF FirstDifference

LEMMA BeforeTransitive ==
    ASSUME NEW l \in Seq(Nat), NEW m \in Seq(Nat), NEW n \in Seq(Nat), Before(l, m), Before(m, n)
    PROVE  Before(l, n)
<1> DEFINE x == Len(l)
           y == Len(m)
           z == Len(n)
<1>0. /\ x \in Nat /\ y \in Nat /\ z \in Nat
      /\ \A i \in 1 .. x : l[i] \in Nat
      /\ \A i \in 1 .. y : m[i] \in Nat
      /\ \A i \in 1 .. z : n[i] \in Nat
  BY LenProperties, ElementOfSeq
<1>1. \/ x < y /\ \A i \in 1 .. x : l[i] = m[i]
      \/ \E c \in Nat \ {0} : c <= x /\ c <= y /\ l[c] < m[c] /\ \A j \in 1 .. (c - 1) : l[j] = m[j]
  BY BeforePointwise DEF FirstDifference
<1>2. \/ y < z /\ \A i \in 1 .. y : m[i] = n[i]
      \/ \E d \in Nat \ {0} : d <= y /\ d <= z /\ m[d] < n[d] /\ \A j \in 1 .. (d - 1) : m[j] = n[j]
  BY BeforePointwise DEF FirstDifference
<1>3. SUFFICES \/ x < z /\ \A i \in 1 .. x : l[i] = n[i]
               \/ \E e \in Nat \ {0} : e <= x /\ e <= z /\ l[e] < n[e] /\ \A j \in 1 .. (e - 1) : l[j] = n[j]
  BY BeforePointwise DEF FirstDifference
<1> HIDE DEF x, y, z
<1>4. CASE x < y /\ \A i \in 1 .. x : l[i] = m[i]
  <2>1. \A i \in 1 .. x : i \in 1 .. y
    BY <1>0, <1>4
  <2>2. CASE y < z /\ \A i \in 1 .. y : m[i] = n[i]
    BY <1>0, <1>4, <2>1, <2>2
  <2>3. ASSUME NEW d \in Nat \ {0}, d <= y, d <= z, m[d] < n[d], \A j \in 1 .. (d - 1) : m[j] = n[j]
        PROVE  \/ x < z /\ \A i \in 1 .. x : l[i] = n[i]
               \/ \E e \in Nat \ {0} : e <= x /\ e <= z /\ l[e] < n[e] /\ \A j \in 1 .. (e - 1) : l[j] = n[j]
    <3>1. CASE d <= x
      <4>1. l[d] = m[d] /\ \A j \in 1 .. (d - 1) : j \in 1 .. x
        BY <1>0, <1>4, <3>1
      <4> QED
        BY <1>4, <2>3, <3>1, <4>1
    <3>2. CASE x < d
      <4>1. x < z /\ \A i \in 1 .. x : i \in 1 .. (d - 1)
        BY <1>0, <2>3, <3>2
      <4> QED
        BY <1>4, <2>3, <4>1
    <3> QED
      BY <1>0, <3>1, <3>2
  <2> QED
    BY <1>2, <2>2, <2>3
<1>5. ASSUME NEW c \in Nat \ {0}, c <= x, c <= y, l[c] < m[c], \A j \in 1 .. (c - 1) : l[j] = m[j]
      PROVE  \E e \in Nat \ {0} : e <= x /\ e <= z /\ l[e] < n[e] /\ \A j \in 1 .. (e - 1) : l[j] = n[j]
  <2>1. CASE y < z /\ \A i \in 1 .. y : m[i] = n[i]
    <3>1. m[c] = n[c] /\ c <= z /\ \A j \in 1 .. (c - 1) : j \in 1 .. y
      BY <1>0, <1>5, <2>1
    <3> QED
      BY <1>5, <2>1, <3>1
  <2>2. ASSUME NEW d \in Nat \ {0}, d <= y, d <= z, m[d] < n[d], \A j \in 1 .. (d - 1) : m[j] = n[j]
        PROVE  \E e \in Nat \ {0} : e <= x /\ e <= z /\ l[e] < n[e] /\ \A j \in 1 .. (e - 1) : l[j] = n[j]
    <3>0. l[c] \in Nat /\ m[c] \in Nat /\ m[d] \in Nat /\ n[d] \in Nat
      BY <1>0, <1>5, <2>2
    <3>1. CASE c = d
      <4>1. m[c] < n[c] /\ c <= z
        BY <2>2, <3>1
      <4>2. l[c] < n[c]
        BY <1>5, <3>0, <3>1, <4>1
      <4> QED
        BY <1>5, <2>2, <3>1, <4>1, <4>2
    <3>2. CASE c < d
      <4>1. c <= z /\ m[c] = n[c] /\ \A j \in 1 .. (c - 1) : j \in 1 .. (d - 1)
        BY <1>0, <2>2, <3>2
      <4> QED
        BY <1>5, <2>2, <4>1
    <3>3. CASE d < c
      <4>1. d <= x /\ l[d] = m[d] /\ \A j \in 1 .. (d - 1) : j \in 1 .. (c - 1)
        BY <1>0, <1>5, <3>3
      <4> QED
        BY <1>5, <2>2, <4>1
    <3> QED
      BY <3>1, <3>2, <3>3
  <2> QED
    BY <1>2, <2>1, <2>2
<1> QED
  BY <1>1, <1>4, <1>5

LEMMA BeforeTotal ==
    ASSUME NEW m \in Seq(Nat), NEW n \in Seq(Nat), m # n
    PROVE  Before(m, n) \/ Before(n, m)
<1> DEFINE D == {i \in 1 .. Len(m) : i <= Len(n) /\ m[i] # n[i]}
<1>1. CASE D = {}
  <2>1. \A i \in 1 .. Len(m) : i <= Len(n) => m[i] = n[i]
    BY <1>1
  <2>2. CASE Len(m) = Len(n)
    <3>1. m = n
      <4>1. \A i \in 1 .. Len(m) : m[i] = n[i]
        BY <2>1, <2>2
      <4> QED
        BY <2>2, <4>1, SeqEqual
    <3> QED
      BY <3>1
  <2>3. CASE Len(m) < Len(n)
    <3>1. \A i \in 1 .. Len(m) : m[i] = n[i]
      BY <2>1, <2>3
    <3> QED
      BY <2>3, <3>1, BeforePointwise
  <2>4. CASE Len(n) < Len(m)
    <3>1. \A i \in 1 .. Len(n) : n[i] = m[i]
      BY <2>1, <2>4
    <3> QED
      BY <2>4, <3>1, BeforePointwise
  <2> QED
    BY <2>2, <2>3, <2>4
<1>2. CASE D # {}
  <2>1. D \in SUBSET (0 .. Len(m))
    OBVIOUS
  <2>2. PICK d \in D : \A i \in D : d <= i
    <3> HIDE DEF D
    <3> QED
      BY <1>2, <2>1, LeastElement, Len(m) \in Nat
  <2>3. d \in Nat \ {0} /\ d <= Len(m) /\ d <= Len(n) /\ m[d] # n[d]
    BY <2>2
  <2>4. \A j \in 1 .. (d - 1) : m[j] = n[j]
    <3>1. ASSUME NEW j \in 1 .. (d - 1)
          PROVE  m[j] = n[j]
      <4>1. j \in 1 .. Len(m) /\ j <= Len(n) /\ ~(d <= j)
        BY <2>3
      <4>2. j \notin D
        BY <2>2, <4>1
      <4> QED
        BY <4>1, <4>2
    <3> QED
      BY <3>1
  <2>5. m[d] \in Nat /\ n[d] \in Nat
    BY <2>3
  <2>6. m[d] < n[d] \/ n[d] < m[d]
    BY <2>3, <2>5
  <2>7. FirstDifference(m, n, d) \/ FirstDifference(n, m, d)
    BY <2>3, <2>4, <2>6 DEF FirstDifference
  <2> QED
    BY <2>3, <2>7, BeforePointwise
<1> QED
  BY <1>1, <1>2

LEMMA BeforeAsymmetric ==
    ASSUME NEW m \in Seq(Nat), NEW n \in Seq(Nat), Before(m, n)
    PROVE  ~Before(n, m) /\ m # n
  BY BeforeTransitive, BeforeIrreflexive

\* The names below one name are next to each other.
LEMMA PrefixConvex ==
    ASSUME NEW p \in Seq(Nat), NEW l \in Seq(Nat), NEW m \in Seq(Nat), NEW n \in Seq(Nat),
           IsPrefix(p, l), IsPrefix(p, n), Before(l, m), Before(m, n)
    PROVE  IsPrefix(p, m)
<1>1. /\ Len(p) <= Len(l) /\ \A i \in 1 .. Len(p) : p[i] = l[i]
      /\ Len(p) <= Len(n) /\ \A i \in 1 .. Len(p) : p[i] = n[i]
  BY PrefixPointwise
<1>2. CASE Len(l) < Len(m) /\ \A i \in 1 .. Len(l) : l[i] = m[i]
  <2>1. \A i \in 1 .. Len(p) : i \in 1 .. Len(l)
    BY <1>1
  <2>2. Len(p) <= Len(m) /\ \A i \in 1 .. Len(p) : p[i] = m[i]
    BY <1>1, <1>2, <2>1
  <2> QED
    BY <2>2, PrefixPointwise
<1>3. ASSUME NEW d \in Nat \ {0}, FirstDifference(l, m, d)
      PROVE  IsPrefix(p, m)
  <2>1. CASE d > Len(p)
    <3>1. Len(p) <= Len(m) /\ \A i \in 1 .. Len(p) : p[i] = m[i]
      BY <1>1, <1>3, <2>1 DEF FirstDifference
    <3> QED
      BY <3>1, PrefixPointwise
  <2>2. CASE d <= Len(p)
    <3>0. /\ d \in 1 .. Len(p) /\ \A i \in 1 .. (d - 1) : i \in 1 .. Len(p)
          /\ n[d] = l[d] /\ \A i \in 1 .. (d - 1) : n[i] = l[i]
      <4>1. d \in 1 .. Len(p) /\ \A i \in 1 .. (d - 1) : i \in 1 .. Len(p)
        BY <2>2
      <4>2. \A i \in 1 .. Len(p) : n[i] = l[i]
        BY <1>1
      <4> QED
        BY <4>1, <4>2
    <3>1. FirstDifference(n, m, d)
      <4>1. d <= Len(l) /\ d <= Len(m) /\ l[d] < m[d] /\ \A j \in 1 .. (d - 1) : l[j] = m[j]
        BY <1>3 DEF FirstDifference
      <4>2. d <= Len(n) /\ d <= Len(m) /\ n[d] < m[d]
        BY <1>1, <2>2, <3>0, <4>1
      <4>3. \A j \in 1 .. (d - 1) : n[j] = m[j]
        BY <3>0, <4>1
      <4> QED
        BY <4>2, <4>3 DEF FirstDifference
    <3>2. Before(n, m)
      BY <3>1, BeforePointwise
    <3> QED
      BY <3>2, BeforeAsymmetric
  <2> QED
    BY <2>1, <2>2
<1> QED
  BY <1>2, <1>3, BeforePointwise

-----------------------------------------------------------------------------
(* Sorted sequences of keys *)

SortedKeys(q) ==
    \A i, j \in 1 .. Len(q) : i < j => Before(NameOf[q[i]], NameOf[q[j]])

LEMMA KeyNames ==
    ASSUME NEW q \in Seq(Keys)
    PROVE  \A i \in 1 .. Len(q) : q[i] \in Keys /\ NameOf[q[i]] \in Seq(Nat)
  BY Constants, ElementOfSeq

LEMMA SortedDistinct ==
    ASSUME NEW q \in Seq(Keys), SortedKeys(q),
           NEW i \in 1 .. Len(q), NEW j \in 1 .. Len(q), NameOf[q[i]] = NameOf[q[j]]
    PROVE  i = j
<1>1. NameOf[q[i]] \in Seq(Nat) /\ NameOf[q[j]] \in Seq(Nat)
  BY KeyNames
<1>2. ~Before(NameOf[q[i]], NameOf[q[j]]) /\ ~Before(NameOf[q[j]], NameOf[q[i]])
  BY <1>1, BeforeIrreflexive
<1>3. ~(i < j) /\ ~(j < i)
  BY <1>2 DEF SortedKeys
<1> QED
  BY <1>3, LenProperties

\* Only one sorted sequence has given keys: the first difference of two of
\* them would be a key before itself.
LEMMA SortedUnique ==
    ASSUME NEW q \in Seq(Keys), NEW r \in Seq(Keys), SortedKeys(q), SortedKeys(r),
           ToSet(q) = ToSet(r)
    PROVE  q = r
<1>0. Len(q) \in Nat /\ Len(r) \in Nat
  BY LenProperties
<1> DEFINE D == {i \in 1 .. Len(q) : i \in 1 .. Len(r) /\ q[i] # r[i]}
<1>1. /\ \A i \in 1 .. Len(q) : \E j \in 1 .. Len(r) : r[j] = q[i]
      /\ \A i \in 1 .. Len(r) : \E j \in 1 .. Len(q) : q[j] = r[i]
  BY ToSetProperties
<1>2. CASE D # {}
  <2>1. D \in SUBSET (0 .. Len(q))
    BY <1>0
  <2>2. PICK d \in D : \A i \in D : d <= i
    <3> HIDE DEF D
    <3> QED
      BY <1>0, <1>2, <2>1, LeastElement
  <2>3. d \in 1 .. Len(q) /\ d \in 1 .. Len(r) /\ q[d] # r[d]
    OBVIOUS
  <2>4. \A i \in 1 .. (d - 1) : q[i] = r[i]
    <3>1. ASSUME NEW i \in 1 .. (d - 1)
          PROVE  q[i] = r[i]
      <4>1. i \in 1 .. Len(q) /\ i \in 1 .. Len(r) /\ ~(d <= i)
        BY <1>0, <2>3
      <4>2. i \notin D
        BY <2>2, <4>1
      <4> QED
        BY <4>1, <4>2
    <3> QED
      BY <3>1
  <2>5. PICK j \in 1 .. Len(r) : r[j] = q[d]
    BY <1>1, <2>3
  <2>6. PICK l \in 1 .. Len(q) : q[l] = r[d]
    BY <1>1, <2>3
  <2>7. d < j
    <3>1. j # d
      BY <2>3, <2>5
    <3>2. ~(j < d)
      <4>1. SUFFICES ASSUME j < d PROVE FALSE
        OBVIOUS
      <4>2. j \in 1 .. (d - 1) /\ j \in 1 .. Len(q)
        BY <4>1, <1>0, <2>3
      <4>3. q[j] = q[d]
        BY <2>4, <2>5, <4>2
      <4> QED
        BY <2>3, <3>1, <4>2, <4>3, SortedDistinct
    <3> QED
      BY <1>0, <2>3, <3>1, <3>2
  <2>8. d < l
    <3>1. l # d
      BY <2>3, <2>6
    <3>2. ~(l < d)
      <4>1. SUFFICES ASSUME l < d PROVE FALSE
        OBVIOUS
      <4>2. l \in 1 .. (d - 1) /\ l \in 1 .. Len(r)
        BY <4>1, <1>0, <2>3
      <4>3. r[l] = r[d]
        BY <2>4, <2>6, <4>2
      <4> QED
        BY <2>3, <3>1, <4>2, <4>3, SortedDistinct
    <3> QED
      BY <1>0, <2>3, <3>1, <3>2
  <2>9. Before(NameOf[r[d]], NameOf[q[d]]) /\ Before(NameOf[q[d]], NameOf[r[d]])
    BY <2>3, <2>5, <2>6, <2>7, <2>8 DEF SortedKeys
  <2> QED
    BY <2>3, <2>9, KeyNames, BeforeAsymmetric
<1>3. CASE D = {}
  <2>1. \A i \in 1 .. Len(q) : i \in 1 .. Len(r) => q[i] = r[i]
    BY <1>3
  <2>2. ~(Len(q) < Len(r))
    <3>1. SUFFICES ASSUME Len(q) < Len(r) PROVE FALSE
      OBVIOUS
    <3>2. Len(r) \in 1 .. Len(r)
      BY <1>0, <3>1
    <3>3. PICK j \in 1 .. Len(q) : q[j] = r[Len(r)]
      BY <1>1, <3>2
    <3>4. j \in 1 .. Len(r) /\ j # Len(r)
      BY <1>0, <3>1
    <3>5. r[j] = r[Len(r)]
      BY <2>1, <3>3, <3>4
    <3> QED
      BY <3>2, <3>4, <3>5, SortedDistinct
  <2>3. ~(Len(r) < Len(q))
    <3>1. SUFFICES ASSUME Len(r) < Len(q) PROVE FALSE
      OBVIOUS
    <3>2. Len(q) \in 1 .. Len(q)
      BY <1>0, <3>1
    <3>3. PICK j \in 1 .. Len(r) : r[j] = q[Len(q)]
      BY <1>1, <3>2
    <3>4. j \in 1 .. Len(q) /\ j # Len(q)
      BY <1>0, <3>1
    <3>5. q[j] = q[Len(q)]
      BY <2>1, <3>3, <3>4
    <3> QED
      BY <3>2, <3>4, <3>5, SortedDistinct
  <2>4. Len(q) = Len(r)
    BY <1>0, <2>2, <2>3
  <2>5. \A i \in 1 .. Len(q) : q[i] = r[i]
    BY <2>1, <2>4
  <2> QED
    BY <2>4, <2>5, SeqEqual
<1> QED
  BY <1>2, <1>3

-----------------------------------------------------------------------------
(* Binary search *)

\* Where a name is or belongs: the number of keys before it.
LEMMA InsertionPoint ==
    ASSUME NEW q \in Seq(Keys), SortedKeys(q), NEW name \in Seq(Nat)
    PROVE  \E p \in 0 .. Len(q) : \A i \in 1 .. Len(q) : Before(NameOf[q[i]], name) <=> i <= p
<1>0. Len(q) \in Nat
  BY LenProperties
<1> DEFINE P == {p \in 0 .. Len(q) : \A i \in 1 .. Len(q) : i > p => ~Before(NameOf[q[i]], name)}
<1>1. P \in SUBSET (0 .. Len(q)) /\ Len(q) \in P
  BY <1>0
<1>2. PICK p \in P : \A r \in P : p <= r
  <2> HIDE DEF P
  <2> QED
    BY <1>0, <1>1, LeastElement
<1>3. p \in 0 .. Len(q) /\ \A i \in 1 .. Len(q) : i > p => ~Before(NameOf[q[i]], name)
  OBVIOUS
<1>4. ASSUME p # 0
      PROVE  Before(NameOf[q[p]], name)
  <2>1. p - 1 \in 0 .. Len(q) /\ ~(p <= p - 1)
    BY <1>0, <1>3, <1>4
  <2>2. p - 1 \notin P
    BY <1>2, <2>1
  <2>3. PICK i \in 1 .. Len(q) : i > p - 1 /\ Before(NameOf[q[i]], name)
    BY <2>1, <2>2
  <2>4. i = p
    BY <1>0, <1>3, <2>3
  <2> QED
    BY <2>3, <2>4
<1>5. ASSUME NEW i \in 1 .. Len(q), i <= p
      PROVE  Before(NameOf[q[i]], name)
  <2>1. p \in 1 .. Len(q) /\ p # 0
    BY <1>0, <1>3, <1>5
  <2>2. i = p \/ Before(NameOf[q[i]], NameOf[q[p]])
    BY <1>0, <1>3, <1>5, <2>1 DEF SortedKeys
  <2> QED
    BY <1>4, <2>1, <2>2, KeyNames, BeforeTransitive
<1>6. \A i \in 1 .. Len(q) : Before(NameOf[q[i]], name) <=> i <= p
  BY <1>0, <1>3, <1>5
<1> QED
  BY <1>3, <1>6

\* The comparisons of the search, by the position of what is compared.
LEMMA Comparisons ==
    ASSUME NEW q \in Seq(Keys), SortedKeys(q), NEW name \in Seq(Nat),
           NEW p \in 0 .. Len(q), \A i \in 1 .. Len(q) : Before(NameOf[q[i]], name) <=> i <= p,
           NEW m \in 0 .. (Len(q) - 1)
    PROVE  LET cmp == keyCompareByName(name, NameOf[q[m + 1]])
           IN /\ cmp \in {-1, 0, 1}
              /\ cmp = 1 <=> m < p
              /\ cmp = 0 <=> m = p /\ NameOf[q[m + 1]] = name
              /\ cmp = -1 <=> m >= p /\ Before(name, NameOf[q[m + 1]])
<1>0. Len(q) \in Nat /\ m + 1 \in 1 .. Len(q)
  BY LenProperties
<1> DEFINE n == NameOf[q[m + 1]]
<1>1. n \in Seq(Nat)
  BY <1>0, KeyNames
<1>2. Before(n, name) <=> m < p
  <2>1. Before(n, name) <=> m + 1 <= p
    BY <1>0
  <2> QED
    BY <2>1, <1>0
<1>3. n = name => m = p
  <2>1. SUFFICES ASSUME n = name PROVE m = p
    OBVIOUS
  <2>2. ~(m < p)
    BY <1>1, <1>2, <2>1, BeforeIrreflexive
  <2>3. ASSUME m > p
        PROVE  FALSE
    <3>1. p + 1 \in 1 .. Len(q) /\ p + 1 < m + 1
      BY <1>0, <2>3
    <3>2. Before(NameOf[q[p + 1]], n)
      BY <1>0, <3>1 DEF SortedKeys
    <3>3. p + 1 <= p
      BY <2>1, <3>1, <3>2
    <3> QED
      BY <3>3
  <2> QED
    BY <2>2, <2>3, <1>0
<1>4. n = name \/ Before(n, name) \/ Before(name, n)
  BY <1>1, BeforeTotal
<1>5. ~(Before(n, name) /\ Before(name, n)) /\ (n = name => ~Before(n, name) /\ ~Before(name, n))
  BY <1>1, BeforeAsymmetric, BeforeIrreflexive
<1> HIDE DEF n
<1>6. keyCompareByName(name, n) = IF name = n THEN 0 ELSE IF Before(name, n) THEN -1 ELSE 1
  BY DEF keyCompareByName
<1>7. CASE name = n
  BY <1>0, <1>2, <1>3, <1>5, <1>6, <1>7 DEF n
<1>8. CASE name # n /\ Before(name, n)
  BY <1>0, <1>2, <1>5, <1>6, <1>8 DEF n
<1>9. CASE name # n /\ ~Before(name, n)
  BY <1>0, <1>2, <1>4, <1>5, <1>6, <1>9 DEF n
<1> QED
  BY <1>7, <1>8, <1>9

\* The search ends at the insertion point p, and says whether the name is there.
\* In a part of the array it ends at the end of the part that is next to p.
LEMMA SearchEnds ==
    ASSUME NEW x \in Keysets, SortedKeys(x.keys), NEW name \in Seq(Nat), NEW p \in 0 .. Size(x),
           \A i \in 1 .. Size(x) : Before(NameOf[x.keys[i]], name) <=> i <= p
    PROVE  ksSearchInternal(x, name) =
             IF p < Size(x) /\ NameOf[x.keys[p + 1]] = name THEN p ELSE -p - 1
<1> DEFINE n == Size(x)
           D == (0 .. n) \X (-1 .. (n - 1))
           Cmp(m) == keyCompareByName(name, NameOf[x.keys[m + 1]])
           Mid(l, r) == l + ((r - l) \div 2)
           eq == p < n /\ NameOf[x.keys[p + 1]] = name
           Near(l, r) == IF p > r THEN (IF l <= r + 1 THEN r + 1 ELSE l)
                         ELSE IF l <= p THEN p ELSE l
           F == [w \in D |-> IF eq /\ w[1] <= p /\ p <= w[2] THEN p ELSE -Near(w[1], w[2]) - 1]
           g == CHOOSE Search : Search =
                    [range \in (0..Size(x)) \X (-1..(Size(x) - 1)) |->
                        LET left == range[1]
                            right == range[2]
                            middle == left + ((right - left) \div 2)
                            cmp == keyCompareByName(name, NameOf[x.keys[middle + 1]])
                        IN IF right < left THEN -left - 1
                           ELSE IF cmp > 0 THEN Search[<<middle + 1, right>>]
                           ELSE IF cmp = 0 THEN middle ELSE Search[<<left, middle - 1>>]]
           Step(f, l, r) == IF r < l THEN -l - 1
                            ELSE IF Cmp(Mid(l, r)) > 0 THEN f[<<Mid(l, r) + 1, r>>]
                            ELSE IF Cmp(Mid(l, r)) = 0 THEN Mid(l, r)
                            ELSE f[<<l, Mid(l, r) - 1>>]
<1>0. n \in Nat /\ x.keys \in Seq(Keys) /\ n = Len(x.keys) /\ p \in 0 .. n
  BY LenProperties DEF Size, Keysets
<1>1. \A m \in 0 .. (n - 1) :
        /\ Cmp(m) \in {-1, 0, 1}
        /\ Cmp(m) = 1 <=> m < p
        /\ Cmp(m) = 0 <=> m = p /\ eq
  <2>1. ASSUME NEW m \in 0 .. (n - 1)
        PROVE  /\ Cmp(m) \in {-1, 0, 1}
               /\ Cmp(m) = 1 <=> m < p
               /\ Cmp(m) = 0 <=> m = p /\ NameOf[x.keys[m + 1]] = name
    <3>1. m \in 0 .. (Len(x.keys) - 1) /\ p \in 0 .. Len(x.keys)
      BY <1>0
    <3>2. \A i \in 1 .. Len(x.keys) : Before(NameOf[x.keys[i]], name) <=> i <= p
      BY DEF Size
    <3> DEFINE q == x.keys
    <3>3. q \in Seq(Keys) /\ SortedKeys(q) /\ m \in 0 .. (Len(q) - 1) /\ p \in 0 .. Len(q)
      BY <1>0, <3>1
    <3>4. \A i \in 1 .. Len(q) : Before(NameOf[q[i]], name) <=> i <= p
      BY <3>2
    <3> HIDE DEF q
    <3>5. LET cmp == keyCompareByName(name, NameOf[q[m + 1]])
          IN cmp \in {-1, 0, 1} /\ (cmp = 1 <=> m < p) /\ (cmp = 0 <=> m = p /\ NameOf[q[m + 1]] = name)
      BY <3>3, <3>4, Comparisons
    <3> QED
      BY <3>5 DEF q
  <2>2. ASSUME NEW m \in 0 .. (n - 1)
        PROVE  (m = p /\ NameOf[x.keys[m + 1]] = name) <=> (m = p /\ eq)
    BY <1>0
  <2> QED
    BY <2>1, <2>2
<1>2. \A l \in 0 .. n : \A r \in -1 .. (n - 1) : l <= r =>
        /\ Mid(l, r) \in l .. r /\ Mid(l, r) \in 0 .. (n - 1)
        /\ Mid(l, r) + 1 \in 0 .. n /\ Mid(l, r) - 1 \in -1 .. (n - 1)
  BY <1>0
<1> HIDE DEF Mid, Cmp, eq
<1>3. ASSUME NEW l \in 0 .. n, NEW r \in -1 .. (n - 1)
      PROVE  F[<<l, r>>] = Step(F, l, r)
  <2>1. \A a \in 0 .. n : \A b \in -1 .. (n - 1) :
          F[<<a, b>>] = IF eq /\ a <= p /\ p <= b THEN p ELSE -Near(a, b) - 1
    OBVIOUS
  <2> HIDE DEF F
  <2>2. CASE r < l
    <3>1. Step(F, l, r) = -l - 1
      BY <2>2
    <3>2. ~(l <= p /\ p <= r) /\ Near(l, r) = l
      BY <1>0, <2>2
    <3> HIDE DEF Step, Near
    <3> QED
      BY <2>1, <3>1, <3>2
  <2>3. CASE l <= r
    <3> DEFINE m == Mid(l, r)
    <3>1. m \in l .. r /\ m \in 0 .. (n - 1) /\ m + 1 \in 0 .. n /\ m - 1 \in -1 .. (n - 1)
      BY <1>2, <2>3
    <3>2. /\ Cmp(m) \in {-1, 0, 1}
          /\ Cmp(m) = 1 <=> m < p
          /\ Cmp(m) = 0 <=> m = p /\ eq
      BY <1>1, <3>1
    <3>3. Step(F, l, r) = IF Cmp(m) > 0 THEN F[<<m + 1, r>>]
                          ELSE IF Cmp(m) = 0 THEN m ELSE F[<<l, m - 1>>]
      <4>1. ~(r < l)
        BY <2>3
      <4> QED
        BY <4>1
    <3> HIDE DEF m, Step
    <3>4. CASE Cmp(m) = 1
      <4>1. Step(F, l, r) = F[<<m + 1, r>>]
        BY <3>3, <3>4
      <4>2. F[<<m + 1, r>>] = IF eq /\ m + 1 <= p /\ p <= r THEN p ELSE -Near(m + 1, r) - 1
        BY <2>1, <3>1
      <4>3. F[<<l, r>>] = IF eq /\ l <= p /\ p <= r THEN p ELSE -Near(l, r) - 1
        BY <2>1
      <4>4. Near(m + 1, r) = Near(l, r) /\ m + 1 <= p /\ l <= p
        BY <1>0, <3>1, <3>2, <3>4
      <4> HIDE DEF Near
      <4> QED
        BY <4>1, <4>2, <4>3, <4>4
    <3>5. CASE Cmp(m) = 0
      BY <1>0, <2>1, <3>1, <3>2, <3>3, <3>5
    <3>6. CASE Cmp(m) = -1
      <4>1. Step(F, l, r) = F[<<l, m - 1>>]
        BY <3>3, <3>6
      <4>2. F[<<l, m - 1>>] = IF eq /\ l <= p /\ p <= m - 1 THEN p ELSE -Near(l, m - 1) - 1
        BY <2>1, <3>1
      <4>3. F[<<l, r>>] = IF eq /\ l <= p /\ p <= r THEN p ELSE -Near(l, r) - 1
        BY <2>1
      <4>4. Near(l, m - 1) = Near(l, r) /\ (eq => p <= m - 1) /\ (p <= m - 1 => p <= r)
        BY <1>0, <3>1, <3>2, <3>6
      <4> HIDE DEF Near
      <4> QED
        BY <4>1, <4>2, <4>3, <4>4
    <3> QED
      BY <3>2, <3>4, <3>5, <3>6
  <2>4. r < l \/ l <= r
    BY <1>0
  <2> HIDE DEF Step
  <2> QED
    BY <2>2, <2>3, <2>4
<1>5. F = [w \in D |-> Step(F, w[1], w[2])]
  <2>1. \A w \in D : w = <<w[1], w[2]>> /\ w[1] \in 0 .. n /\ w[2] \in -1 .. (n - 1)
    OBVIOUS
  <2>2. \A w \in D : F[w] = Step(F, w[1], w[2])
    <3> HIDE DEF F, Step
    <3> QED
      BY <1>3, <2>1
  <2>3. F = [w \in D |-> F[w]]
    <3>1. F = [w \in DOMAIN F |-> F[w]] /\ DOMAIN F = D
      <4> HIDE DEF D, Near
      <4> QED
        BY Zenon
    <3> HIDE DEF D, F
    <3> QED
      BY <3>1
  <2> HIDE DEF F, Step, D
  <2> QED
    BY <2>2, <2>3
<1>6. g = [w \in D |-> Step(g, w[1], w[2])]
  <2> HIDE DEF Step, D
  <2>1. F = [range \in (0..Size(x)) \X (-1..(Size(x) - 1)) |->
                        LET left == range[1]
                            right == range[2]
                            middle == left + ((right - left) \div 2)
                            cmp == keyCompareByName(name, NameOf[x.keys[middle + 1]])
                        IN IF right < left THEN -left - 1
                           ELSE IF cmp > 0 THEN F[<<middle + 1, right>>]
                           ELSE IF cmp = 0 THEN middle ELSE F[<<left, middle - 1>>]]
    <3> HIDE DEF F
    <3> QED
      BY <1>5, ZenonT(30) DEF D, Step, Mid, Cmp
  <2> HIDE DEF F
  <2>2. g = [range \in (0..Size(x)) \X (-1..(Size(x) - 1)) |->
                        LET left == range[1]
                            right == range[2]
                            middle == left + ((right - left) \div 2)
                            cmp == keyCompareByName(name, NameOf[x.keys[middle + 1]])
                        IN IF right < left THEN -left - 1
                           ELSE IF cmp > 0 THEN g[<<middle + 1, right>>]
                           ELSE IF cmp = 0 THEN middle ELSE g[<<left, middle - 1>>]]
    BY <2>1
  <2> HIDE DEF g
  <2> QED
    BY <2>2, Zenon DEF D, Step, Mid, Cmp
<1>7. ksSearchInternal(x, name) = g[<<0, n - 1>>]
  BY DEF ksSearchInternal
<1>8. \A l \in 0 .. n : \A r \in -1 .. (n - 1) : <<l, r>> \in D /\ g[<<l, r>>] = Step(g, l, r)
  <2> HIDE DEF g, Step
  <2> QED
    BY <1>6
<1> HIDE DEF F, g, D
<1> DEFINE P == {k \in 0 .. n : \A l \in 0 .. n : \A r \in -1 .. (n - 1) :
                   r - l + 1 <= k => g[<<l, r>>] = F[<<l, r>>]}
<1>9. ASSUME NEW l \in 0 .. n, NEW r \in -1 .. (n - 1), r < l
      PROVE  g[<<l, r>>] = F[<<l, r>>]
  BY <1>3, <1>8, <1>9
<1>10. 0 \in P
  <2>1. ASSUME NEW l \in 0 .. n, NEW r \in -1 .. (n - 1), r - l + 1 <= 0
        PROVE  g[<<l, r>>] = F[<<l, r>>]
    <3>1. r < l
      BY <1>0, <2>1
    <3> HIDE DEF n
    <3> QED
      BY <1>9, <3>1
  <2>2. 0 \in 0 .. n
    BY <1>0
  <2>3. \A l \in 0 .. n : \A r \in -1 .. (n - 1) : r - l + 1 <= 0 => g[<<l, r>>] = F[<<l, r>>]
    BY <2>1
  <2> HIDE DEF n
  <2> QED
    BY <2>2, <2>3
<1>11. ASSUME NEW k \in 1 .. n, k - 1 \in P
       PROVE  k \in P
  <2>1. ASSUME NEW l \in 0 .. n, NEW r \in -1 .. (n - 1), l <= r, r - l + 1 <= k
        PROVE  g[<<l, r>>] = F[<<l, r>>]
    <3> DEFINE m == Mid(l, r)
    <3>1. m \in l .. r /\ m + 1 \in 0 .. n /\ m - 1 \in -1 .. (n - 1)
      BY <1>2, <2>1
    <3> HIDE DEF m
    <3>2. r - (m + 1) + 1 <= k - 1 /\ (m - 1) - l + 1 <= k - 1
      BY <2>1, <3>1, <1>0
    <3>3. g[<<m + 1, r>>] = F[<<m + 1, r>>] /\ g[<<l, m - 1>>] = F[<<l, m - 1>>]
      BY <1>11, <3>1, <3>2
    <3>4. Step(g, l, r) = Step(F, l, r)
      BY <3>3 DEF m
    <3> HIDE DEF Step
    <3> QED
      BY <1>3, <1>8, <3>4
  <2>2. ASSUME NEW l \in 0 .. n, NEW r \in -1 .. (n - 1), r - l + 1 <= k
        PROVE  g[<<l, r>>] = F[<<l, r>>]
    BY <1>0, <1>9, <2>1, <2>2
  <2>3. k \in 0 .. n
    BY <1>0
  <2> QED
    BY <2>2, <2>3
<1>12. n \in P
  <2> HIDE DEF P, n
  <2>1. \A k \in 0 .. n : k \in P
    BY <1>0, <1>10, <1>11, Induction
  <2> QED
    BY <1>0, <2>1
<1>13. g[<<0, n - 1>>] = F[<<0, n - 1>>]
  BY <1>0, <1>12
<1>14. F[<<0, n - 1>>] = IF eq THEN p ELSE -p - 1
  <2>1. 0 \in 0 .. n /\ n - 1 \in -1 .. (n - 1)
    BY <1>0
  <2>2. F[<<0, n - 1>>] = IF eq /\ 0 <= p /\ p <= n - 1 THEN p ELSE -Near(0, n - 1) - 1
    BY <2>1 DEF F, D
  <2>3. Near(0, n - 1) = p /\ (eq => 0 <= p /\ p <= n - 1)
    BY <1>0 DEF eq
  <2> HIDE DEF Near
  <2> QED
    BY <2>2, <2>3
<1> QED
  BY <1>7, <1>13, <1>14 DEF eq

\* ksSearchInternal() in a sorted keyset of any length returns the position of the
\* key of the name or, as -pos - 1, the place between the keys before and the keys
\* behind the name, at which ksAppendKey() inserts.
THEOREM SearchCorrect ==
    ASSUME NEW x \in Keysets, SortedKeys(x.keys), NEW name \in Seq(Nat)
    PROVE  LET pos == ksSearchInternal(x, name)
           IN \/ pos \in 0 .. (Size(x) - 1) /\ NameOf[x.keys[pos + 1]] = name
              \/ /\ pos \in Int /\ pos < 0 /\ -pos - 1 \in 0 .. Size(x)
                 /\ \A i \in 1 .. Size(x) :
                       IF i <= -pos - 1 THEN Before(NameOf[x.keys[i]], name)
                       ELSE Before(name, NameOf[x.keys[i]])
<1>0. Size(x) \in Nat /\ x.keys \in Seq(Keys) /\ Size(x) = Len(x.keys)
  BY LenProperties DEF Size, Keysets
<1>1. PICK p \in 0 .. Size(x) : \A i \in 1 .. Size(x) : Before(NameOf[x.keys[i]], name) <=> i <= p
  BY <1>0, InsertionPoint
<1>2. ksSearchInternal(x, name) = IF p < Size(x) /\ NameOf[x.keys[p + 1]] = name THEN p ELSE -p - 1
  BY <1>1, SearchEnds
<1>3. CASE p < Size(x) /\ NameOf[x.keys[p + 1]] = name
  BY <1>0, <1>2, <1>3
<1>4. CASE ~(p < Size(x) /\ NameOf[x.keys[p + 1]] = name)
  <2> DEFINE pos == ksSearchInternal(x, name)
  <2>1. pos = -p - 1 /\ pos \in Int /\ pos < 0 /\ -pos - 1 = p
    BY <1>0, <1>2, <1>4
  <2>2. ASSUME NEW i \in 1 .. Size(x), ~(i <= p)
        PROVE  Before(name, NameOf[x.keys[i]])
    <3>1. NameOf[x.keys[i]] \in Seq(Nat) /\ ~Before(NameOf[x.keys[i]], name)
      BY <1>0, <1>1, <2>2, KeyNames
    <3>2. NameOf[x.keys[i]] # name
      <4>1. SUFFICES ASSUME NameOf[x.keys[i]] = name PROVE FALSE
        OBVIOUS
      <4>2. p + 1 \in 1 .. Size(x) /\ p + 1 <= i /\ ~(p + 1 <= p)
        BY <1>0, <2>2
      <4>3. p + 1 # i
        BY <1>4, <4>1, <4>2, <1>0
      <4>4. Before(NameOf[x.keys[p + 1]], name)
        BY <1>0, <4>1, <4>2, <4>3 DEF SortedKeys
      <4> QED
        BY <1>1, <4>2, <4>4
    <3> QED
      BY <3>1, <3>2, BeforeTotal
  <2> HIDE DEF pos
  <2> QED
    BY <1>0, <1>1, <2>1, <2>2 DEF pos
<1> QED
  BY <1>3, <1>4

-----------------------------------------------------------------------------
(* One keyset *)

\* There is room for the keys and for the null pointer behind them.
Room(x) == Size(x) < x.alloc /\ KEYSET_SIZE <= x.alloc

\* All that is the same when only the array was resized.
SameBut(y, x) ==
    /\ y.keys = x.keys /\ y.behind = x.behind
    /\ y.current = x.current /\ y.cursor = x.cursor

LEMMA FieldTypes ==
    ASSUME NEW x \in Keysets
    PROVE  /\ x.keys \in Seq(Keys) /\ x.behind \in {NULL, Junk}
           /\ x.alloc \in Nat /\ x.current \in Nat /\ x.cursor \in Keys \cup {NULL, Junk}
           /\ Size(x) = Len(x.keys) /\ Size(x) \in Nat
  BY LenProperties DEF Keysets, Size

LEMMA AtProperties ==
    ASSUME NEW x \in Keysets, NEW c \in Nat
    PROVE  /\ At(x, c) \in Keys \cup {NULL, Junk}
           /\ c < Size(x) => c + 1 \in 1 .. Len(x.keys) /\ At(x, c) = x.keys[c + 1] /\ At(x, c) \in Keys
           /\ c = Size(x) => At(x, c) = x.behind
<1>1. c < Size(x) => c + 1 \in 1 .. Len(x.keys) /\ x.keys[c + 1] \in Keys
  BY FieldTypes, ElementOfSeq
<1> QED
  BY <1>1, FieldTypes DEF At

LEMMA RewindProperties ==
    ASSUME NEW x \in Keysets
    PROVE  /\ ksRewind(x) \in Keysets
           /\ ksRewind(x).keys = x.keys /\ ksRewind(x).behind = x.behind /\ ksRewind(x).alloc = x.alloc
           /\ ksRewind(x).current = 0 /\ ksRewind(x).cursor = NULL
  BY DEF ksRewind, Keysets

LEMMA SetCursorProperties ==
    ASSUME NEW x \in Keysets, NEW c \in Int, c >= -1
    PROVE  LET y == ksSetCursor(x, c)
           IN /\ y \in Keysets
              /\ y.keys = x.keys /\ y.behind = x.behind /\ y.alloc = x.alloc
              /\ c = -1 => y.current = 0 /\ y.cursor = NULL
              /\ c # -1 => y.current = c /\ y.cursor = At(x, c)
<1>1. CASE c = -1
  BY <1>1, RewindProperties DEF ksSetCursor
<1>2. CASE c # -1
  <2>1. c \in Nat
    BY <1>2
  <2>2. ksSetCursor(x, c) = [x EXCEPT !.current = c, !.cursor = At(x, c)]
    BY <1>2 DEF ksSetCursor
  <2> DEFINE a == At(x, c)
  <2>3. a \in Keys \cup {NULL, Junk}
    BY <2>1, AtProperties
  <2>4. ksSetCursor(x, c) = [x EXCEPT !.current = c, !.cursor = a]
    BY <2>2
  <2> HIDE DEF a
  <2> DEFINE y == [x EXCEPT !.current = c, !.cursor = a]
  <2>5. /\ y \in Keysets /\ y.keys = x.keys /\ y.behind = x.behind /\ y.alloc = x.alloc
        /\ y.current = c /\ y.cursor = a
    BY <2>1, <2>3 DEF Keysets
  <2> HIDE DEF y
  <2> QED
    BY <1>2, <2>4, <2>5 DEF a, y
<1> QED
  BY <1>1, <1>2

LEMMA MaxOfTwo ==
    ASSUME NEW a \in Int, NEW b \in Int
    PROVE  Max({a, b}) \in {a, b} /\ Max({a, b}) >= a /\ Max({a, b}) >= b
<1>1. \E m \in {a, b} : \A y \in {a, b} : m >= y
  OBVIOUS
<1> QED
  BY <1>1 DEF Max

LEMMA ResizeProperties ==
    ASSUME NEW x \in Keysets, KEYSET_SIZE <= x.alloc, NEW a \in Nat, a >= Size(x)
    PROVE  LET y == ksResize(x, a)
           IN y \in Keysets /\ SameBut(y, x) /\ y.alloc >= a + 1 /\ Room(y)
<1>0. KEYSET_SIZE \in Nat
  BY Constants
<1> DEFINE y == ksResize(x, a)
<1>1. CASE a + 1 = x.alloc
  <2>1. y = x
    BY <1>1 DEF ksResize
  <2> QED
    BY <1>0, <1>1, <2>1, FieldTypes DEF SameBut, Room
<1>2. CASE a + 1 # x.alloc
  <2> DEFINE m == Max({a + 1, KEYSET_SIZE})
  <2>1. m \in Nat /\ m >= a + 1 /\ m >= KEYSET_SIZE
    BY <1>0, MaxOfTwo, a + 1 \in Int
  <2>2. ~(a + 1 < Size(x))
    BY FieldTypes
  <2>3. y = [x EXCEPT !.alloc = m]
    BY <1>2, <2>2 DEF ksResize
  <2> HIDE DEF m, y
  <2>4. y \in Keysets /\ SameBut(y, x) /\ y.alloc = m
    BY <2>1, <2>3 DEF Keysets, SameBut
  <2>5. Size(y) = Size(x)
    BY <2>4 DEF Size, SameBut
  <2> QED
    BY <1>0, <2>1, <2>4, <2>5, FieldTypes DEF Room, y
<1> QED
  BY <1>1, <1>2

LEMMA MakeRoomProperties ==
    ASSUME NEW x \in Keysets, Room(x)
    PROVE  LET y == MakeRoom(x)
           IN y \in Keysets /\ SameBut(y, x) /\ Size(x) + 1 < y.alloc /\ Room(y)
<1>0. KEYSET_SIZE \in Nat /\ KEYSET_SIZE > 1 /\ x.alloc \in Nat /\ Size(x) \in Nat
  BY Constants, FieldTypes
<1>1. CASE Size(x) + 1 >= x.alloc
  <2>1. x.alloc * 2 - 1 \in Nat /\ x.alloc * 2 - 1 >= Size(x) /\ KEYSET_SIZE <= x.alloc
    BY <1>0 DEF Room
  <2>2. MakeRoom(x) = ksResize(x, x.alloc * 2 - 1)
    BY <1>1 DEF MakeRoom
  <2> DEFINE y == ksResize(x, x.alloc * 2 - 1)
  <2>3. y \in Keysets /\ SameBut(y, x) /\ y.alloc >= (x.alloc * 2 - 1) + 1 /\ Room(y)
    BY <2>1, ResizeProperties
  <2> HIDE DEF y
  <2>4. y.alloc \in Nat
    BY <2>3, FieldTypes
  <2>5. Size(x) + 1 < y.alloc
    BY <1>0, <2>3, <2>4 DEF Room
  <2> QED
    BY <2>2, <2>3, <2>5 DEF y
<1>2. CASE ~(Size(x) + 1 >= x.alloc)
  <2>1. MakeRoom(x) = x
    BY <1>2 DEF MakeRoom
  <2> QED
    BY <1>0, <1>2, <2>1 DEF SameBut
<1> QED
  BY <1>1, <1>2

LEMMA NewProperties ==
    ASSUME NEW a \in Nat
    PROVE  LET x == ksNew(a)
           IN /\ x \in Keysets /\ x.keys = <<>> /\ x.behind = NULL /\ x.alloc >= a + 1
              /\ x.current = 0 /\ x.cursor = NULL /\ Size(x) = 0 /\ Room(x)
<1> DEFINE m == Max({a + 1, KEYSET_SIZE})
<1>0. KEYSET_SIZE \in Nat
  BY Constants
<1>1. m \in Nat /\ m >= a + 1 /\ m >= KEYSET_SIZE
  BY <1>0, MaxOfTwo, a + 1 \in Int
<1>2. ksNew(a) = [keys |-> <<>>, behind |-> NULL, alloc |-> m, current |-> 0, cursor |-> NULL]
  BY DEF ksNew
<1>3. <<>> \in Seq(Keys) /\ Len(<<>>) = 0
  OBVIOUS
<1> HIDE DEF m
<1> QED
  BY <1>1, <1>2, <1>3 DEF Keysets, Size, Room

LEMMA PopProperties ==
    ASSUME NEW x \in Keysets, Room(x), x.keys # <<>>
    PROVE  LET y == ksPop(x)
           IN /\ y \in Keysets /\ y.keys = Front(x.keys) /\ y.behind = NULL
              /\ y.current = x.current /\ y.cursor = x.cursor
              /\ Size(y) = Size(x) - 1 /\ Room(y)
<1>0. /\ KEYSET_SIZE \in Nat /\ KEYSET_SIZE > 1 /\ x.alloc \in Nat /\ Size(x) \in Nat /\ Size(x) > 0
      /\ Size(x) = Len(x.keys) /\ x.keys \in Seq(Keys)
  BY Constants, FieldTypes, EmptySeq
<1>1. Front(x.keys) \in Seq(Keys) /\ Len(Front(x.keys)) = Size(x) - 1
  BY <1>0, ElementOfSeq DEF Front
<1> DEFINE f == Front(x.keys)
           y == [x EXCEPT !.keys = f]
           z == IF Size(y) + 1 < y.alloc \div 2 THEN ksResize(y, y.alloc \div 2 - 1) ELSE y
           w == [z EXCEPT !.behind = NULL]
<1> HIDE DEF f
<1>2. /\ y \in Keysets /\ y.keys = f /\ y.alloc = x.alloc /\ y.behind = x.behind
      /\ y.current = x.current /\ y.cursor = x.cursor
  BY <1>1 DEF Keysets, f
<1> HIDE DEF y
<1>3. Size(y) = Size(x) - 1
  BY <1>1, <1>2 DEF Size, f
<1>4. z \in Keysets /\ SameBut(z, y) /\ Room(z)
  <2>1. CASE Size(y) + 1 < y.alloc \div 2
    <3>1. y.alloc \div 2 - 1 \in Nat /\ y.alloc \div 2 - 1 >= Size(y) /\ KEYSET_SIZE <= y.alloc
      BY <1>0, <1>2, <1>3, <2>1 DEF Room
    <3> QED
      BY <1>2, <2>1, <3>1, ResizeProperties
  <2>2. CASE ~(Size(y) + 1 < y.alloc \div 2)
    BY <1>0, <1>2, <1>3, <2>2 DEF SameBut, Room
  <2> QED
    BY <2>1, <2>2
<1> HIDE DEF z
<1>5. /\ w \in Keysets /\ w.keys = z.keys /\ w.alloc = z.alloc /\ w.behind = NULL
      /\ w.current = z.current /\ w.cursor = z.cursor
  BY <1>4 DEF Keysets
<1> HIDE DEF w
<1>6. Size(w) = Size(y) /\ Size(z) = Size(y)
  BY <1>4, <1>5 DEF Size, SameBut
<1>7. Room(w)
  BY <1>4, <1>5, <1>6 DEF Room
<1>8. ksPop(x) = w
  BY DEF ksPop, w, z, y, f
<1> QED
  BY <1>2, <1>3, <1>4, <1>5, <1>6, <1>7, <1>8 DEF SameBut, f

\* Cutting out, inserting and replacing keep a sequence of keys sorted.
LEMMA CutOutSorted ==
    ASSUME NEW q \in Seq(Keys), SortedKeys(q), NEW f \in 0 .. Len(q), NEW t \in f .. Len(q)
    PROVE  /\ CutOut(q, f, t) \in Seq(Keys) /\ SortedKeys(CutOut(q, f, t))
           /\ Len(CutOut(q, f, t)) = Len(q) - (t - f)
           /\ \A k : k \in ToSet(CutOut(q, f, t)) <=>
                \E i \in 1 .. Len(q) : q[i] = k /\ (i <= f \/ i > t)
           /\ ToSet(CutOut(q, f, t)) = ToSet(q) \ {q[i] : i \in (f + 1) .. t}
<1> DEFINE c == CutOut(q, f, t)
<1>0. Len(q) \in Nat /\ f \in Nat /\ t \in Nat /\ f <= t /\ t <= Len(q)
  BY LenProperties
<1>1. /\ c \in Seq(Keys) /\ Len(c) = Len(q) - (t - f)
      /\ \A j \in 1 .. f : c[j] = q[j]
      /\ \A j \in (f + 1) .. Len(c) : c[j] = q[j + (t - f)]
  BY CutOutProperties
<1> HIDE DEF c
<1>2. ASSUME NEW i \in 1 .. Len(c), NEW j \in 1 .. Len(c), i < j
      PROVE  Before(NameOf[c[i]], NameOf[c[j]])
  <2>1. CASE j <= f
    <3>1. i \in 1 .. f /\ j \in 1 .. f /\ i \in 1 .. Len(q) /\ j \in 1 .. Len(q)
      BY <1>0, <1>1, <1>2, <2>1
    <3> QED
      BY <1>1, <1>2, <3>1 DEF SortedKeys
  <2>2. CASE i <= f /\ j > f
    <3>1. c[i] = q[i] /\ c[j] = q[j + (t - f)] /\ i \in 1 .. Len(q) /\ j + (t - f) \in 1 .. Len(q)
      BY <1>0, <1>1, <2>2
    <3>2. i < j + (t - f)
      BY <1>0, <1>1, <1>2
    <3> QED
      BY <3>1, <3>2 DEF SortedKeys
  <2>3. CASE i > f
    <3>1. /\ c[i] = q[i + (t - f)] /\ c[j] = q[j + (t - f)]
          /\ i + (t - f) \in 1 .. Len(q) /\ j + (t - f) \in 1 .. Len(q)
      BY <1>0, <1>1, <1>2, <2>3
    <3>2. i + (t - f) < j + (t - f)
      BY <1>0, <1>1, <1>2
    <3> QED
      BY <3>1, <3>2 DEF SortedKeys
  <2> QED
    BY <1>0, <1>1, <2>1, <2>2, <2>3
<1>3. ASSUME NEW k
      PROVE  k \in ToSet(c) <=> \E i \in 1 .. Len(q) : q[i] = k /\ (i <= f \/ i > t)
  <2>1. ASSUME NEW j \in 1 .. Len(c), c[j] = k
        PROVE  \E i \in 1 .. Len(q) : q[i] = k /\ (i <= f \/ i > t)
    <3>1. CASE j <= f
      <4>1. j \in 1 .. f /\ j \in 1 .. Len(q)
        BY <1>0, <1>1, <3>1
      <4> QED
        BY <1>1, <2>1, <3>1, <4>1
    <3>2. CASE j > f
      <4>1. j + (t - f) \in 1 .. Len(q) /\ j + (t - f) > t /\ q[j + (t - f)] = k
        BY <1>0, <1>1, <2>1, <3>2
      <4> QED
        BY <4>1
    <3>3. j <= f \/ j > f
      BY <1>0, <1>1
    <3> QED
      BY <3>1, <3>2, <3>3
  <2>2. ASSUME NEW i \in 1 .. Len(q), q[i] = k, i <= f \/ i > t
        PROVE  \E j \in 1 .. Len(c) : c[j] = k
    <3>1. CASE i <= f
      <4>1. i \in 1 .. Len(c) /\ c[i] = k
        BY <1>0, <1>1, <2>2, <3>1
      <4> QED
        BY <4>1
    <3>2. CASE i > t
      <4>1. i - (t - f) \in (f + 1) .. Len(c) /\ i - (t - f) \in 1 .. Len(c) /\ i - (t - f) + (t - f) = i
        BY <1>0, <1>1, <2>2, <3>2
      <4>2. c[i - (t - f)] = k
        BY <1>1, <2>2, <4>1
      <4> QED
        BY <4>1, <4>2
    <3> QED
      BY <2>2, <3>1, <3>2
  <2> QED
    BY <1>1, <2>1, <2>2, ToSetProperties
<1>4. ToSet(c) = ToSet(q) \ {q[i] : i \in (f + 1) .. t}
  <2>1. ASSUME NEW k \in ToSet(c)
        PROVE  k \in ToSet(q) /\ k \notin {q[i] : i \in (f + 1) .. t}
    <3>1. PICK i \in 1 .. Len(q) : q[i] = k /\ (i <= f \/ i > t)
      BY <1>3
    <3>2. ASSUME NEW j \in (f + 1) .. t, q[j] = k
          PROVE  FALSE
      <4>1. j \in 1 .. Len(q) /\ j # i
        BY <1>0, <3>1
      <4> QED
        BY <3>1, <3>2, <4>1, SortedDistinct
    <3> QED
      BY <3>1, <3>2, ToSetProperties
  <2>2. ASSUME NEW k \in ToSet(q), k \notin {q[i] : i \in (f + 1) .. t}
        PROVE  k \in ToSet(c)
    <3>1. PICK i \in 1 .. Len(q) : q[i] = k
      BY ToSetProperties
    <3>2. ~(i \in (f + 1) .. t)
      BY <2>2, <3>1
    <3>3. i <= f \/ i > t
      BY <1>0, <3>2
    <3> QED
      BY <1>3, <3>1, <3>3
  <2> QED
    BY <2>1, <2>2
<1>5. SortedKeys(c)
  BY <1>2 DEF SortedKeys
<1> QED
  BY <1>1, <1>3, <1>4, <1>5 DEF c

LEMMA InsertKey ==
    ASSUME NEW q \in Seq(Keys), NEW k \in Keys, NEW p \in 0 .. Len(q)
    PROVE  LET c == InsertAt(q, p + 1, k)
           IN /\ c \in Seq(Keys) /\ Len(c) = Len(q) + 1
              /\ \A j \in 1 .. p : c[j] = q[j]
              /\ c[p + 1] = k
              /\ \A j \in (p + 2) .. (Len(q) + 1) : c[j] = q[j - 1]
<1> DEFINE i == p + 1
           c == InsertAt(q, i, k)
<1>0. i - 1 = p /\ i + 1 = p + 2
  BY LenProperties
<1>1. i \in 1 .. Len(q) + 1
  BY LenProperties
<1> HIDE DEF i
<1>2. c \in Seq(Keys)
  BY <1>1, InsertAtPlace
<1>3. Len(c) = Len(q) + 1
  BY <1>1, InsertAtPlace
<1>4. \A j \in 1 .. (i - 1) : c[j] = q[j]
  BY <1>1, InsertAtPlace
<1>5. c[i] = k
  BY <1>1, InsertAtPlace
<1>6. \A j \in (i + 1) .. (Len(q) + 1) : c[j] = q[j - 1]
  BY <1>1, InsertAtPlace
<1>7. c = InsertAt(q, p + 1, k)
  BY DEF i
<1> HIDE DEF c
<1> QED
  BY <1>0, <1>2, <1>3, <1>4, <1>5, <1>6, <1>7 DEF i

LEMMA InsertSorted ==
    ASSUME NEW q \in Seq(Keys), SortedKeys(q), NEW k \in Keys, NEW p \in 0 .. Len(q),
           \A i \in 1 .. Len(q) : IF i <= p THEN Before(NameOf[q[i]], NameOf[k])
                                  ELSE Before(NameOf[k], NameOf[q[i]])
    PROVE  LET c == InsertAt(q, p + 1, k)
           IN /\ c \in Seq(Keys) /\ SortedKeys(c) /\ Len(c) = Len(q) + 1 /\ c[p + 1] = k
              /\ ToSet(c) = ToSet(q) \cup {k}
              /\ \A m \in ToSet(q) : NameOf[m] # NameOf[k]
<1> DEFINE c == InsertAt(q, p + 1, k)
<1>0. Len(q) \in Nat /\ p \in Nat /\ p <= Len(q) /\ p + 1 \in 1 .. (Len(q) + 1)
  BY LenProperties
<1>1. /\ c \in Seq(Keys) /\ Len(c) = Len(q) + 1
      /\ \A j \in 1 .. p : c[j] = q[j]
      /\ c[p + 1] = k
      /\ \A j \in (p + 2) .. (Len(q) + 1) : c[j] = q[j - 1]
  BY InsertKey
<1> HIDE DEF c
<1>2. ASSUME NEW i \in 1 .. Len(c), NEW j \in 1 .. Len(c), i < j
      PROVE  Before(NameOf[c[i]], NameOf[c[j]])
  <2>1. CASE j <= p
    <3>1. i \in 1 .. p /\ j \in 1 .. p /\ i \in 1 .. Len(q) /\ j \in 1 .. Len(q)
      BY <1>0, <1>2, <2>1
    <3> QED
      BY <1>1, <1>2, <3>1 DEF SortedKeys
  <2>2. CASE j = p + 1
    <3>1. i \in 1 .. p /\ i \in 1 .. Len(q) /\ i <= p
      BY <1>0, <1>2, <2>2
    <3> QED
      BY <1>1, <2>2, <3>1
  <2>3. CASE j > p + 1 /\ i <= p
    <3>1. i \in 1 .. p /\ i \in 1 .. Len(q) /\ j \in (p + 2) .. (Len(q) + 1) /\ j - 1 \in 1 .. Len(q) /\ i < j - 1
      BY <1>0, <1>1, <2>3
    <3> QED
      BY <1>1, <3>1 DEF SortedKeys
  <2>4. CASE j > p + 1 /\ i = p + 1
    <3>1. j \in (p + 2) .. (Len(q) + 1) /\ j - 1 \in 1 .. Len(q) /\ ~(j - 1 <= p)
      BY <1>0, <1>1, <2>4
    <3> QED
      BY <1>1, <2>4, <3>1
  <2>5. CASE j > p + 1 /\ i > p + 1
    <3>1. /\ j \in (p + 2) .. (Len(q) + 1) /\ j - 1 \in 1 .. Len(q)
          /\ i \in (p + 2) .. (Len(q) + 1) /\ i - 1 \in 1 .. Len(q) /\ i - 1 < j - 1
      BY <1>0, <1>1, <1>2, <2>5
    <3> QED
      BY <1>1, <3>1 DEF SortedKeys
  <2> QED
    BY <1>0, <1>1, <2>1, <2>2, <2>3, <2>4, <2>5
<1>3. ASSUME NEW m
      PROVE  m \in ToSet(c) <=> m \in ToSet(q) \cup {k}
  <2>1. ASSUME NEW j \in 1 .. Len(c), c[j] = m, m # k
        PROVE  \E i \in 1 .. Len(q) : q[i] = m
    <3>1. CASE j <= p
      <4>1. j \in 1 .. Len(q) /\ q[j] = m
        BY <1>0, <1>1, <2>1, <3>1
      <4> QED
        BY <4>1
    <3>2. CASE j > p
      <4>1. j # p + 1
        BY <1>1, <2>1
      <4>2. j \in (p + 2) .. (Len(q) + 1) /\ j - 1 \in 1 .. Len(q)
        BY <1>0, <1>1, <3>2, <4>1
      <4> QED
        BY <1>1, <2>1, <4>2
    <3> QED
      BY <1>0, <1>1, <3>1, <3>2
  <2>2. ASSUME NEW i \in 1 .. Len(q), q[i] = m
        PROVE  \E j \in 1 .. Len(c) : c[j] = m
    <3>1. CASE i <= p
      <4>1. i \in 1 .. Len(c) /\ c[i] = m
        BY <1>0, <1>1, <2>2, <3>1
      <4> QED
        BY <4>1
    <3>2. CASE i > p
      <4>1. i + 1 \in (p + 2) .. (Len(q) + 1) /\ i + 1 \in 1 .. Len(c) /\ (i + 1) - 1 = i
        BY <1>0, <1>1, <3>2
      <4>2. c[i + 1] = m
        BY <1>1, <2>2, <4>1
      <4> QED
        BY <4>1, <4>2
    <3> QED
      BY <1>0, <3>1, <3>2
  <2>3. \E j \in 1 .. Len(c) : c[j] = k
    BY <1>0, <1>1
  <2>4. /\ m \in ToSet(c) <=> \E j \in 1 .. Len(c) : c[j] = m
        /\ m \in ToSet(q) <=> \E i \in 1 .. Len(q) : q[i] = m
    BY <1>1, ToSetProperties
  <2> QED
    BY <2>1, <2>2, <2>3, <2>4
<1>4. ASSUME NEW m \in ToSet(q)
      PROVE  NameOf[m] # NameOf[k]
  <2>1. PICK i \in 1 .. Len(q) : q[i] = m
    BY ToSetProperties
  <2>2. Before(NameOf[m], NameOf[k]) \/ Before(NameOf[k], NameOf[m])
    BY <2>1
  <2> QED
    BY <2>2, Constants, BeforeIrreflexive
<1>5. SortedKeys(c) /\ ToSet(c) = ToSet(q) \cup {k}
  BY <1>2, <1>3 DEF SortedKeys
<1> QED
  BY <1>1, <1>4, <1>5 DEF c

LEMMA ReplaceSorted ==
    ASSUME NEW q \in Seq(Keys), NEW c \in Seq(Keys), SortedKeys(q), Len(c) = Len(q),
           NEW p \in 1 .. Len(q), NameOf[c[p]] = NameOf[q[p]],
           \A j \in 1 .. Len(q) : j # p => c[j] = q[j]
    PROVE  SortedKeys(c) /\ ToSet(c) = (ToSet(q) \ {q[p]}) \cup {c[p]}
<1> DEFINE k == c[p]
<1>0. k \in Keys /\ k = c[p]
  BY ElementOfSeq
<1> HIDE DEF k
<1>1. Len(c) = Len(q) /\ \A j \in 1 .. Len(q) : c[j] = IF j = p THEN k ELSE q[j]
  BY <1>0
<1>2. SortedKeys(c)
  BY <1>1 DEF SortedKeys
<1>3. ASSUME NEW m
      PROVE  m \in ToSet(c) <=> m \in (ToSet(q) \ {q[p]}) \cup {k}
  <2>1. ASSUME NEW j \in 1 .. Len(c), c[j] = m, m # k
        PROVE  m \in ToSet(q) /\ m # q[p]
    <3>1. j \in 1 .. Len(q) /\ j # p /\ q[j] = m
      BY <1>1, <2>1
    <3> QED
      BY <3>1, SortedDistinct, ToSetProperties
  <2>2. ASSUME m \in ToSet(q), m # q[p]
        PROVE  \E j \in 1 .. Len(c) : c[j] = m
    <3>1. PICK i \in 1 .. Len(q) : q[i] = m
      BY <2>2, ToSetProperties
    <3> QED
      BY <1>1, <2>2, <3>1
  <2>3. \E j \in 1 .. Len(c) : c[j] = k
    BY <1>1
  <2> QED
    BY <1>1, <2>1, <2>2, <2>3, ToSetProperties
<1> QED
  BY <1>0, <1>2, <1>3

\* A keyset in order: sorted, with room and the null pointer behind the keys,
\* and the cursor, where it is not behind them, on its key or before the first.
CursorAt(x) ==
    x.current < Size(x) => x.cursor = x.keys[x.current + 1] \/ (x.cursor = NULL /\ x.current = 0)

Fine(x) ==
    /\ x \in Keysets
    /\ SortedKeys(x.keys)
    /\ Room(x)
    /\ x.keys # <<>> => x.behind = NULL
    /\ CursorAt(x)

OnKey(x) == x.current < Size(x) /\ x.cursor = x.keys[x.current + 1]

LEMMA CursorOnKey ==
    ASSUME NEW x \in Keysets, NEW c \in Nat, c < Size(x)
    PROVE  LET y == ksSetCursor(x, c)
           IN /\ y \in Keysets /\ OnKey(y) /\ y.current = c
              /\ y.keys = x.keys /\ y.behind = x.behind /\ y.alloc = x.alloc
<1> DEFINE y == ksSetCursor(x, c)
<1>1. c # -1 /\ c \in Int /\ c >= -1
  OBVIOUS
<1>2. /\ y \in Keysets /\ y.keys = x.keys /\ y.behind = x.behind /\ y.alloc = x.alloc
      /\ y.current = c /\ y.cursor = At(x, c)
  BY <1>1, SetCursorProperties
<1>3. At(x, c) = x.keys[c + 1]
  BY AtProperties
<1> HIDE DEF y
<1> QED
  BY <1>2, <1>3 DEF OnKey, Size, y

LEMMA InsertFine ==
    ASSUME NEW x, Fine(x), NEW k \in Keys, NEW at \in 0 .. Size(x),
           \A i \in 1 .. Size(x) : IF i <= at THEN Before(NameOf[x.keys[i]], NameOf[k])
                                   ELSE Before(NameOf[k], NameOf[x.keys[i]])
    PROVE  LET y == ksSetCursor([MakeRoom(x) EXCEPT !.keys = InsertAt(@, at + 1, k),
                                                    !.behind = IF at = Size(x) THEN NULL ELSE @], at)
           IN /\ Fine(y) /\ OnKey(y) /\ ToSet(y.keys) = ToSet(x.keys) \cup {k}
              /\ \A m \in ToSet(x.keys) : NameOf[m] # NameOf[k]
<1>0. x \in Keysets /\ Room(x) /\ SortedKeys(x.keys) /\ (x.keys # <<>> => x.behind = NULL)
  BY DEF Fine
<1> DEFINE z == MakeRoom(x)
           q == InsertAt(x.keys, at + 1, k)
           b == IF at = Size(x) THEN NULL ELSE x.behind
           w == [z EXCEPT !.keys = q, !.behind = b]
           y == ksSetCursor(w, at)
<1>1. z \in Keysets /\ SameBut(z, x) /\ Size(x) + 1 < z.alloc /\ Room(z)
  BY <1>0, MakeRoomProperties
<1>2. x.keys \in Seq(Keys) /\ Size(x) = Len(x.keys) /\ Size(x) \in Nat /\ x.behind \in {NULL, Junk}
  BY <1>0, FieldTypes
<1>3. /\ q \in Seq(Keys) /\ SortedKeys(q) /\ Len(q) = Len(x.keys) + 1
      /\ ToSet(q) = ToSet(x.keys) \cup {k}
      /\ \A m \in ToSet(x.keys) : NameOf[m] # NameOf[k]
  <2> DEFINE r == x.keys
  <2>1. r \in Seq(Keys) /\ SortedKeys(r) /\ at \in 0 .. Len(r)
    BY <1>0, <1>2
  <2>2. \A i \in 1 .. Len(r) : IF i <= at THEN Before(NameOf[r[i]], NameOf[k])
                               ELSE Before(NameOf[k], NameOf[r[i]])
    BY <1>2
  <2>3. q = InsertAt(r, at + 1, k)
    OBVIOUS
  <2> HIDE DEF r, q
  <2>4. /\ q \in Seq(Keys) /\ SortedKeys(q) /\ Len(q) = Len(r) + 1
        /\ ToSet(q) = ToSet(r) \cup {k}
        /\ \A m \in ToSet(r) : NameOf[m] # NameOf[k]
    BY <2>1, <2>2, <2>3, InsertSorted
  <2> QED
    BY <2>4 DEF r
<1>4. b = NULL
  <2>1. CASE x.keys = <<>>
    <3>1. Size(x) = 0
      BY <1>2, <2>1
    <3>2. at = Size(x)
      BY <1>2, <3>1
    <3> QED
      BY <3>2
  <2>2. CASE x.keys # <<>>
    BY <1>0, <2>2
  <2> QED
    BY <2>1, <2>2
<1> HIDE DEF q, b, z
<1>5. w \in Keysets /\ w.keys = q /\ w.behind = NULL /\ w.alloc = z.alloc
  BY <1>1, <1>3, <1>4 DEF Keysets
<1> HIDE DEF w
<1>6. Size(w) = Size(x) + 1 /\ at \in Nat /\ at < Size(w)
  BY <1>2, <1>3, <1>5 DEF Size
<1>7. y \in Keysets /\ OnKey(y) /\ y.keys = q /\ y.behind = NULL /\ y.alloc = z.alloc
  BY <1>5, <1>6, CursorOnKey
<1> HIDE DEF y
<1>8. Size(y) = Size(x) + 1
  BY <1>2, <1>3, <1>7 DEF Size
<1>9. Fine(y)
  BY <1>1, <1>3, <1>7, <1>8 DEF Fine, Room, OnKey, CursorAt
<1>10. y = ksSetCursor([MakeRoom(x) EXCEPT !.keys = InsertAt(@, at + 1, k),
                                           !.behind = IF at = Size(x) THEN NULL ELSE @], at)
  <2>1. z.keys = x.keys /\ z.behind = x.behind
    BY <1>1 DEF SameBut
  <2>2. [z EXCEPT !.keys = InsertAt(@, at + 1, k), !.behind = IF at = Size(x) THEN NULL ELSE @] = w
    BY <2>1 DEF w, q, b
  <2> QED
    BY <2>2 DEF y, z
<1> QED
  BY <1>3, <1>7, <1>9, <1>10

LEMMA ReplaceFine ==
    ASSUME NEW x, Fine(x), NEW k \in Keys, NEW pos \in 0 .. (Size(x) - 1),
           NameOf[x.keys[pos + 1]] = NameOf[k]
    PROVE  LET y == ksSetCursor([x EXCEPT !.keys[pos + 1] = k], pos)
           IN /\ Fine(y) /\ OnKey(y)
              /\ ToSet(y.keys) = (ToSet(x.keys) \ {x.keys[pos + 1]}) \cup {k}
<1>0. x \in Keysets /\ Room(x) /\ SortedKeys(x.keys) /\ (x.keys # <<>> => x.behind = NULL)
  BY DEF Fine
<1> DEFINE q == [x.keys EXCEPT ![pos + 1] = k]
           w == [x EXCEPT !.keys = q]
           y == ksSetCursor(w, pos)
<1>1. x.keys \in Seq(Keys) /\ Size(x) = Len(x.keys) /\ Size(x) \in Nat /\ pos + 1 \in 1 .. Len(x.keys)
  BY <1>0, FieldTypes
<1>2. x.behind = NULL
  <2>1. x.keys # <<>>
    BY <1>1
  <2> QED
    BY <1>0, <2>1
<1>3. /\ q \in Seq(Keys) /\ SortedKeys(q) /\ Len(q) = Len(x.keys)
      /\ ToSet(q) = (ToSet(x.keys) \ {x.keys[pos + 1]}) \cup {k}
  <2> DEFINE p == pos + 1
  <2>1. p \in 1 .. Len(x.keys) /\ NameOf[x.keys[p]] = NameOf[k]
    BY <1>1
  <2>2. q = [x.keys EXCEPT ![p] = k]
    OBVIOUS
  <2> HIDE DEF p, q
  <2> DEFINE o == x.keys
  <2>4. o \in Seq(Keys) /\ SortedKeys(o) /\ k \in Keys
    BY <1>0, <1>1
  <2>5. p \in 1 .. Len(o) /\ NameOf[o[p]] = NameOf[k]
    BY <2>1
  <2>6. q = [o EXCEPT ![p] = k]
    BY <2>2
  <2> HIDE DEF o
  <2>8. q \in Seq(Keys) /\ Len(q) = Len(o) /\ \A j \in 1 .. Len(o) : q[j] = IF j = p THEN k ELSE o[j]
    BY <2>4, <2>5, <2>6, ExceptSeq
  <2>7. SortedKeys(q) /\ ToSet(q) = (ToSet(o) \ {o[p]}) \cup {k}
    <3>1. q[p] = k /\ \A j \in 1 .. Len(o) : j # p => q[j] = o[j]
      BY <2>5, <2>8
    <3>2. SortedKeys(q) /\ ToSet(q) = (ToSet(o) \ {o[p]}) \cup {q[p]}
      BY <2>4, <2>5, <2>8, <3>1, ReplaceSorted
    <3> QED
      BY <3>1, <3>2
  <2>3. /\ q \in Seq(Keys) /\ SortedKeys(q) /\ Len(q) = Len(x.keys)
        /\ ToSet(q) = (ToSet(x.keys) \ {x.keys[p]}) \cup {k}
    BY <2>7, <2>8 DEF o
  <2> QED
    BY <2>3 DEF p
<1> HIDE DEF q
<1>4. w \in Keysets /\ w.keys = q /\ w.behind = NULL /\ w.alloc = x.alloc
  BY <1>0, <1>2, <1>3 DEF Keysets
<1> HIDE DEF w
<1>5. Size(w) = Size(x) /\ pos \in Nat /\ pos < Size(w)
  BY <1>1, <1>3, <1>4 DEF Size
<1>6. y \in Keysets /\ OnKey(y) /\ y.keys = q /\ y.behind = NULL /\ y.alloc = x.alloc
  BY <1>4, <1>5, CursorOnKey
<1> HIDE DEF y
<1>7. Size(y) = Size(x)
  BY <1>1, <1>3, <1>6 DEF Size
<1>8. Fine(y)
  BY <1>0, <1>3, <1>6, <1>7 DEF Fine, Room, OnKey, CursorAt
<1>9. y = ksSetCursor([x EXCEPT !.keys[pos + 1] = k], pos)
  BY DEF y, w, q
<1> QED
  BY <1>3, <1>6, <1>8, <1>9

-----------------------------------------------------------------------------
(* All keysets and the reference counters *)

States == [ks : [Sets -> Keysets \cup {Gone}], ref : [Keys -> Int]]

\* S with the keys of T in place of those of the same name.
Over(S, T) == {k \in S : \A t \in T : NameOf[t] # NameOf[k]} \cup T

LEMMA StateTypes ==
    ASSUME NEW st \in States
    PROVE  /\ st.ks \in [Sets -> Keysets \cup {Gone}] /\ st.ref \in [Keys -> Int]
           /\ st = [ks |-> st.ks, ref |-> st.ref]
  BY DEF States

LEMMA WithProperties ==
    ASSUME NEW st \in States, NEW s \in Sets, NEW x \in Keysets \cup {Gone}
    PROVE  /\ With(st, s, x) \in States
           /\ With(st, s, x).ks = [st.ks EXCEPT ![s] = x]
           /\ With(st, s, x).ref = st.ref
  BY DEF With, States

LEMMA RefTypes ==
    ASSUME NEW r \in [Keys -> Int], NEW k \in Keys
    PROVE  /\ keyIncRef(r, k) \in [Keys -> Int]
           /\ keyDecRef(r, k) \in [Keys -> Int]
           /\ keyDel(r, k) \in [Keys -> Int]
  BY DEF keyIncRef, keyDecRef, keyDel, Freed

\* ksAppendKey(): either nothing happens, because the very key is there, or the
\* key is put in, and a key of the same name loses its place and a reference.
PutIn(st, u, s, k) ==
    LET x == st.ks[s]
        y == u.ks[s]
    IN /\ u \in States /\ Fine(y) /\ u.ks = [st.ks EXCEPT ![s] = y]
       /\ ToSet(y.keys) = Over(ToSet(x.keys), {k})
       /\ k \in ToSet(x.keys) => u = st
       /\ k \notin ToSet(x.keys) =>
            /\ OnKey(y)
            /\ \/ /\ \A m \in ToSet(x.keys) : NameOf[m] # NameOf[k]
                  /\ u.ref = keyIncRef(st.ref, k)
               \/ \E old \in ToSet(x.keys) :
                    /\ NameOf[old] = NameOf[k] /\ old # k
                    /\ u.ref = keyIncRef(keyDel(keyDecRef(st.ref, old), old), k)

LEMMA AppendKeyProperties ==
    ASSUME NEW st \in States, NEW s \in Sets, Fine(st.ks[s]), NEW k \in Keys
    PROVE  PutIn(st, ksAppendKey(st, s, k), s, k)
<1> DEFINE x == st.ks[s]
           name == NameOf[k]
           pos == ksSearchInternal(x, name)
           at == -pos - 1
           r == ksAppendKey(st, s, k)
<1>0. /\ x \in Keysets /\ SortedKeys(x.keys) /\ x.keys \in Seq(Keys)
      /\ Size(x) = Len(x.keys) /\ Size(x) \in Nat /\ name \in Seq(Nat)
  BY FieldTypes, Constants DEF Fine
<1>1. \/ pos \in 0 .. (Size(x) - 1) /\ NameOf[x.keys[pos + 1]] = name
      \/ /\ pos < 0 /\ at \in 0 .. Size(x)
         /\ \A i \in 1 .. Size(x) : IF i <= at THEN Before(NameOf[x.keys[i]], name)
                                    ELSE Before(name, NameOf[x.keys[i]])
  <2> HIDE DEF x, name
  <2> QED
    BY <1>0, SearchCorrect
<1>2. st.ks \in [Sets -> Keysets \cup {Gone}] /\ st.ref \in [Keys -> Int]
  BY StateTypes
<1>3. ASSUME /\ pos < 0 /\ at \in 0 .. Size(x)
             /\ \A i \in 1 .. Size(x) : IF i <= at THEN Before(NameOf[x.keys[i]], name)
                                        ELSE Before(name, NameOf[x.keys[i]])
      PROVE  /\ r \in States /\ Fine(r.ks[s]) /\ r.ks = [st.ks EXCEPT ![s] = r.ks[s]]
             /\ ToSet(r.ks[s].keys) = Over(ToSet(x.keys), {k})
             /\ k \notin ToSet(x.keys) /\ OnKey(r.ks[s])
             /\ \A m \in ToSet(x.keys) : NameOf[m] # NameOf[k]
             /\ r.ref = keyIncRef(st.ref, k)
  <2> DEFINE y == ksSetCursor([MakeRoom(x) EXCEPT !.keys = InsertAt(@, at + 1, k),
                                                  !.behind = IF at = Size(x) THEN NULL ELSE @], at)
  <2>1. /\ Fine(y) /\ OnKey(y) /\ ToSet(y.keys) = ToSet(x.keys) \cup {k}
        /\ \A m \in ToSet(x.keys) : NameOf[m] # NameOf[k]
    <3>1. Fine(x)
      OBVIOUS
    <3>2. at \in 0 .. Size(x)
      BY <1>3
    <3>3. \A i \in 1 .. Size(x) : IF i <= at THEN Before(NameOf[x.keys[i]], NameOf[k])
                                   ELSE Before(NameOf[k], NameOf[x.keys[i]])
      BY <1>3
    <3> HIDE DEF x, at
    <3> QED
      BY <3>1, <3>2, <3>3, InsertFine
  <2>2. r = [ks |-> [st.ks EXCEPT ![s] = y], ref |-> keyIncRef(st.ref, k)]
    BY <1>3 DEF ksAppendKey
  <2> HIDE DEF y, r, x
  <2>3. y \in Keysets
    BY <2>1 DEF Fine
  <2>4. r \in States /\ r.ks = [st.ks EXCEPT ![s] = y] /\ r.ks[s] = y /\ r.ref = keyIncRef(st.ref, k)
    BY <1>2, <2>2, <2>3, RefTypes DEF States
  <2>5. Over(ToSet(x.keys), {k}) = ToSet(x.keys) \cup {k} /\ k \notin ToSet(x.keys)
    BY <2>1 DEF Over
  <2> QED
    BY <2>1, <2>4, <2>5
<1>4. ASSUME pos \in 0 .. (Size(x) - 1), NameOf[x.keys[pos + 1]] = name
      PROVE  /\ r \in States /\ Fine(r.ks[s]) /\ r.ks = [st.ks EXCEPT ![s] = r.ks[s]]
             /\ ToSet(r.ks[s].keys) = Over(ToSet(x.keys), {k})
             /\ k \in ToSet(x.keys) => r = st
             /\ k \notin ToSet(x.keys) =>
                   /\ OnKey(r.ks[s])
                   /\ \E old \in ToSet(x.keys) :
                           /\ NameOf[old] = NameOf[k] /\ old # k
                           /\ r.ref = keyIncRef(keyDel(keyDecRef(st.ref, old), old), k)
  <2> DEFINE old == x.keys[pos + 1]
  <2>0. ~(pos < 0) /\ pos + 1 \in 1 .. Len(x.keys) /\ old \in ToSet(x.keys) /\ old \in Keys
    BY <1>0, <1>4, ToSetProperties, ElementOfSeq
  <2>1. \A m \in ToSet(x.keys) : NameOf[m] = NameOf[k] <=> m = old
    <3>1. ASSUME NEW m \in ToSet(x.keys), NameOf[m] = NameOf[k]
          PROVE  m = old
      <4>1. PICK i \in 1 .. Len(x.keys) : x.keys[i] = m
        BY <1>0, ToSetProperties
      <4>2. i = pos + 1
        BY <1>0, <1>4, <2>0, <3>1, <4>1, SortedDistinct
      <4> QED
        BY <4>1, <4>2
    <3> QED
      BY <1>4, <3>1
  <2>2. Over(ToSet(x.keys), {k}) = (ToSet(x.keys) \ {old}) \cup {k}
    <3> HIDE DEF old
    <3> QED
      BY <2>1 DEF Over
  <2>3. CASE old = k
    <3>1. r = st
      BY <2>0, <2>3 DEF ksAppendKey
    <3>2. st.ks = [st.ks EXCEPT ![s] = st.ks[s]]
      BY <1>2
    <3>3. ToSet(x.keys) = (ToSet(x.keys) \ {old}) \cup {k} /\ k \in ToSet(x.keys)
      BY <2>0, <2>3
    <3> HIDE DEF old, r
    <3> QED
      BY <2>2, <3>1, <3>2, <3>3
  <2>4. CASE old # k
    <3> DEFINE y == ksSetCursor([x EXCEPT !.keys[pos + 1] = k], pos)
               ref2 == keyIncRef(keyDel(keyDecRef(st.ref, old), old), k)
    <3>1. Fine(y) /\ OnKey(y) /\ ToSet(y.keys) = (ToSet(x.keys) \ {old}) \cup {k}
      <4>1. Fine(x) /\ NameOf[x.keys[pos + 1]] = NameOf[k]
        BY <1>4
      <4> HIDE DEF x, pos
      <4> QED
        BY <1>4, <4>1, ReplaceFine
    <3>2. r = [ks |-> [st.ks EXCEPT ![s] = y], ref |-> ref2]
      BY <2>0, <2>4 DEF ksAppendKey
    <3>3. ref2 \in [Keys -> Int]
      <4> HIDE DEF old
      <4> QED
        BY <1>2, <2>0, RefTypes
    <3>4. k \notin ToSet(x.keys)
      BY <2>1, <2>4
    <3> HIDE DEF y, ref2, r, x, old
    <3>5. y \in Keysets
      BY <3>1 DEF Fine
    <3>6. r \in States /\ r.ks = [st.ks EXCEPT ![s] = y] /\ r.ks[s] = y /\ r.ref = ref2
      BY <1>2, <3>2, <3>3, <3>5 DEF States
    <3>7. NameOf[old] = NameOf[k]
      BY <2>0, <2>1
    <3>8. \E o \in ToSet(x.keys) : /\ NameOf[o] = NameOf[k] /\ o # k
                                  /\ r.ref = keyIncRef(keyDel(keyDecRef(st.ref, o), o), k)
      BY <2>0, <2>4, <3>6, <3>7 DEF ref2
    <3> QED
      BY <2>2, <3>1, <3>4, <3>6, <3>8
  <2> QED
    BY <2>3, <2>4
<1> HIDE DEF x, r, pos
<1>5. PutIn(st, r, s, k)
  BY <1>1, <1>3, <1>4 DEF x, PutIn
<1> QED
  BY <1>5 DEF r

-----------------------------------------------------------------------------
(***************************************************************************)
(* Operations on several keysets and the keys they share: who has a key,   *)
(* what ksAppend() and ksCut() do to the counters and to the order of all  *)
(* keysets involved, and where the cursor is after ksCut().                *)
(*                                                                         *)
(* A key has one reference from each keyset that holds it and from         *)
(* whoever else keeps it.  The loops of ksAppend() and ksClose() go        *)
(* through states in which this is false for the keys still to come, so    *)
(* Counted has the other references as a parameter.                        *)
(***************************************************************************)

-----------------------------------------------------------------------------
(* Counting references *)

\* Is k in the keyset s of f?
Holds(f, s, k) == f[s] # Gone /\ k \in ToSet(f[s].keys)
Count(f, k) == Cardinality({s \in Sets : Holds(f, s, k)})

\* The reference counters are right if everyone but keysets has e[k] references
\* to the key k.
Counted(st, e) ==
    \A k \in Keys : IF st.ref[k] # Freed THEN st.ref[k] = Count(st.ks, k) + e[k]
                    ELSE Count(st.ks, k) = 0 /\ e[k] = 0

\* From st to u, the keys of D that have no reference left are freed.
LiveAfter(st, u, D, e) ==
    \A k \in Keys : u.ref[k] # Freed
                    <=> st.ref[k] # Freed /\ (k \in D => Count(u.ks, k) + e[k] > 0)

LEMMA CountTypes ==
    ASSUME NEW f, NEW k
    PROVE  /\ Count(f, k) \in Nat
           /\ \A s \in Sets : Holds(f, s, k) => Count(f, k) > 0
           /\ Count(f, k) = 0 <=> {s \in Sets : Holds(f, s, k)} = {}
<1> DEFINE U == {s \in Sets : Holds(f, s, k)}
<1>1. IsFiniteSet(U)
  BY Constants, FS_Subset
<1>2. Cardinality(U) \in Nat /\ (Cardinality(U) = 0 <=> U = {})
  BY <1>1, FS_CardinalityType, FS_EmptySet
<1>3. \A s \in Sets : Holds(f, s, k) => U # {}
  OBVIOUS
<1> HIDE DEF U
<1> QED
  BY <1>2, <1>3 DEF Count, U

\* When one keyset changes.
LEMMA CountChange ==
    ASSUME NEW f, NEW g, NEW s \in Sets, \A t \in Sets \ {s} : g[t] = f[t], NEW k
    PROVE  /\ (Holds(f, s, k) <=> Holds(g, s, k)) => Count(g, k) = Count(f, k)
           /\ ~Holds(f, s, k) /\ Holds(g, s, k) => Count(g, k) = Count(f, k) + 1
           /\ Holds(f, s, k) /\ ~Holds(g, s, k) => Count(g, k) = Count(f, k) - 1
<1> DEFINE U == {t \in Sets : Holds(f, t, k)}
           V == {t \in Sets : Holds(g, t, k)}
<1>0. IsFiniteSet(U) /\ IsFiniteSet(V)
  BY Constants, FS_Subset
<1>1. \A t \in Sets \ {s} : Holds(f, t, k) <=> Holds(g, t, k)
  BY DEF Holds
<1>2. (Holds(f, s, k) <=> Holds(g, s, k)) => V = U
  BY <1>1
<1>3. ~Holds(f, s, k) /\ Holds(g, s, k) => V = U \cup {s} /\ s \notin U
  BY <1>1
<1>4. Holds(f, s, k) /\ ~Holds(g, s, k) => V = U \ {s} /\ s \in U
  BY <1>1
<1> HIDE DEF U, V
<1>5. s \notin U => Cardinality(U \cup {s}) = Cardinality(U) + 1
  BY <1>0, FS_AddElement
<1>6. s \in U => Cardinality(U \ {s}) = Cardinality(U) - 1
  BY <1>0, FS_RemoveElement
<1> QED
  BY <1>2, <1>3, <1>4, <1>5, <1>6 DEF Count, U, V

\* What changes in the keyset s, and the counters with it: a key that is put in
\* is alive and gets a reference, and one that loses its last reference with
\* its place is freed.
LEMMA CountsFollow ==
    ASSUME NEW st \in States, NEW u \in States, NEW s \in Sets, NEW e \in [Keys -> Nat],
           Counted(st, e), \A t \in Sets \ {s} : u.ks[t] = st.ks[t],
           \A k \in Keys :
               /\ (Holds(st.ks, s, k) <=> Holds(u.ks, s, k)) => u.ref[k] = st.ref[k]
               /\ ~Holds(st.ks, s, k) /\ Holds(u.ks, s, k) =>
                     st.ref[k] # Freed /\ u.ref[k] = st.ref[k] + 1
               /\ Holds(st.ks, s, k) /\ ~Holds(u.ks, s, k) =>
                     u.ref[k] = IF st.ref[k] > 1 THEN st.ref[k] - 1 ELSE Freed,
           NEW D, \A k \in Keys : k \in D => Holds(st.ks, s, k),
           \A k \in Keys : Holds(st.ks, s, k) /\ ~Holds(u.ks, s, k) => k \in D
    PROVE  Counted(u, e) /\ LiveAfter(st, u, D, e)
<1> SUFFICES ASSUME NEW k \in Keys
    PROVE  /\ IF u.ref[k] # Freed THEN u.ref[k] = Count(u.ks, k) + e[k]
              ELSE Count(u.ks, k) = 0 /\ e[k] = 0
           /\ u.ref[k] # Freed <=> st.ref[k] # Freed /\ (k \in D => Count(u.ks, k) + e[k] > 0)
  BY DEF Counted, LiveAfter
<1> DEFINE c == Count(st.ks, k)
           d == Count(u.ks, k)
           r == st.ref[k]
           q == u.ref[k]
           n == e[k]
<1>1. IF r # Freed THEN r = c + n ELSE c = 0 /\ n = 0
  BY DEF Counted
<1>2. c \in Nat /\ d \in Nat /\ n \in Nat
  BY CountTypes
<1>3. /\ Holds(st.ks, s, k) => c > 0
      /\ Holds(u.ks, s, k) => d > 0
  BY CountTypes
<1>4. /\ (Holds(st.ks, s, k) <=> Holds(u.ks, s, k)) => d = c
      /\ ~Holds(st.ks, s, k) /\ Holds(u.ks, s, k) => d = c + 1
      /\ Holds(st.ks, s, k) /\ ~Holds(u.ks, s, k) => d = c - 1
  BY CountChange
<1>5. /\ (Holds(st.ks, s, k) <=> Holds(u.ks, s, k)) => q = r
      /\ ~Holds(st.ks, s, k) /\ Holds(u.ks, s, k) => r # Freed /\ q = r + 1
      /\ Holds(st.ks, s, k) /\ ~Holds(u.ks, s, k) => q = IF r > 1 THEN r - 1 ELSE Freed
  OBVIOUS
<1>6. /\ k \in D => Holds(st.ks, s, k)
      /\ Holds(st.ks, s, k) /\ ~Holds(u.ks, s, k) => k \in D
  OBVIOUS
<1> HIDE DEF c, d, r, q, n
<1>7. /\ IF q # Freed THEN q = d + n ELSE d = 0 /\ n = 0
      /\ q # Freed <=> r # Freed /\ (k \in D => d + n > 0)
  BY <1>1, <1>2, <1>3, <1>4, <1>5, <1>6 DEF Freed
<1> QED
  BY <1>7 DEF c, d, r, q, n

LEMMA AppendKeyCounted ==
    ASSUME NEW st \in States, NEW s \in Sets, Fine(st.ks[s]), NEW k \in Keys, st.ref[k] # Freed,
           NEW e \in [Keys -> Nat], Counted(st, e)
    PROVE  /\ Counted(ksAppendKey(st, s, k), e)
           /\ LiveAfter(st, ksAppendKey(st, s, k), ToSet(st.ks[s].keys), e)
<1> DEFINE x == st.ks[s]
           u == ksAppendKey(st, s, k)
           y == u.ks[s]
<1>1. /\ u \in States /\ Fine(y) /\ u.ks = [st.ks EXCEPT ![s] = y]
      /\ ToSet(y.keys) = Over(ToSet(x.keys), {k})
      /\ k \in ToSet(x.keys) => u = st
      /\ k \notin ToSet(x.keys) =>
           /\ OnKey(y)
           /\ \/ /\ \A m \in ToSet(x.keys) : NameOf[m] # NameOf[k]
                 /\ u.ref = keyIncRef(st.ref, k)
              \/ \E old \in ToSet(x.keys) :
                   /\ NameOf[old] = NameOf[k] /\ old # k
                   /\ u.ref = keyIncRef(keyDel(keyDecRef(st.ref, old), old), k)
  <2>1. PutIn(st, u, s, k)
    BY AppendKeyProperties
  <2> HIDE DEF u
  <2> QED
    BY <2>1 DEF PutIn
<1>2. x \in Keysets /\ x # Gone /\ y # Gone /\ SortedKeys(x.keys) /\ x.keys \in Seq(Keys)
  BY <1>1, Constants, FieldTypes DEF Fine
<1>3. st.ref \in [Keys -> Int] /\ st.ks \in [Sets -> Keysets \cup {Gone}]
  BY StateTypes
<1>4. \A m : (Holds(st.ks, s, m) <=> m \in ToSet(x.keys)) /\ (Holds(u.ks, s, m) <=> m \in ToSet(y.keys))
  BY <1>2 DEF Holds
<1>5. \A t \in Sets \ {s} : u.ks[t] = st.ks[t]
  <2> HIDE DEF u, y
  <2> QED
    BY <1>1, <1>3
<1>6. ASSUME NEW m \in Keys
      PROVE  /\ (m \in ToSet(x.keys) <=> m \in ToSet(y.keys)) => u.ref[m] = st.ref[m]
             /\ m \notin ToSet(x.keys) /\ m \in ToSet(y.keys) =>
                  st.ref[m] # Freed /\ u.ref[m] = st.ref[m] + 1
             /\ m \in ToSet(x.keys) /\ m \notin ToSet(y.keys) =>
                  u.ref[m] = IF st.ref[m] > 1 THEN st.ref[m] - 1 ELSE Freed
  <2> DEFINE S == ToSet(x.keys)
             T == ToSet(y.keys)
             r == st.ref
             q == u.ref
  <2>0. T = Over(S, {k}) /\ (k \in S => q = r)
    BY <1>1
  <2>1. CASE k \in S
    <3>1. T = S
      BY <1>1, <2>1
    <3> QED
      BY <2>0, <2>1, <3>1
  <2>2. ASSUME k \notin S, \A j \in S : NameOf[j] # NameOf[k], q = keyIncRef(r, k)
        PROVE  /\ (m \in S <=> m \in T) => q[m] = r[m]
               /\ m \notin S /\ m \in T => r[m] # Freed /\ q[m] = r[m] + 1
               /\ m \in S /\ m \notin T => q[m] = IF r[m] > 1 THEN r[m] - 1 ELSE Freed
    <3>1. T = S \cup {k}
      BY <2>0, <2>2 DEF Over
    <3>2. q[m] = IF m = k THEN r[m] + 1 ELSE r[m]
      BY <1>3, <2>2 DEF keyIncRef
    <3> HIDE DEF S, T, q
    <3> QED
      BY <2>2, <3>1, <3>2
  <2>3. ASSUME k \notin S, NEW old \in S, NameOf[old] = NameOf[k], old # k,
               q = keyIncRef(keyDel(keyDecRef(r, old), old), k)
        PROVE  /\ (m \in S <=> m \in T) => q[m] = r[m]
               /\ m \notin S /\ m \in T => r[m] # Freed /\ q[m] = r[m] + 1
               /\ m \in S /\ m \notin T => q[m] = IF r[m] > 1 THEN r[m] - 1 ELSE Freed
    <3>0. \A j \in S : NameOf[j] = NameOf[k] <=> j = old
      <4>1. ASSUME NEW j \in S, NameOf[j] = NameOf[old] PROVE j = old
        <5>1. PICK a \in 1 .. Len(x.keys) : x.keys[a] = j
          BY <1>2, ToSetProperties
        <5>2. PICK b \in 1 .. Len(x.keys) : x.keys[b] = old
          BY <1>2, ToSetProperties
        <5> QED
          BY <1>2, <4>1, <5>1, <5>2, SortedDistinct
      <4> QED
        BY <2>3, <4>1
    <3>1. T = (S \ {old}) \cup {k}
      <4> HIDE DEF S, T
      <4> QED
        BY <2>0, <3>0 DEF Over
    <3>2. old \in Keys
      BY <1>2, ToSetProperties
    <3>3. q[m] = IF m = k THEN r[m] + 1 ELSE IF m = old THEN IF r[m] > 1 THEN r[m] - 1 ELSE Freed
                 ELSE r[m]
      <4> HIDE DEF q
      <4> QED
        BY <1>3, <2>3, <3>2 DEF keyIncRef, keyDel, keyDecRef, Freed
    <3> HIDE DEF S, T, q
    <3> QED
      BY <2>3, <3>1, <3>3
  <2> HIDE DEF S, T, q, r
  <2> QED
    BY <1>1, <2>1, <2>2, <2>3 DEF S, T, q, r
<1> HIDE DEF u, x, y
<1>7. \A m \in Keys : Holds(st.ks, s, m) /\ ~Holds(u.ks, s, m) => m \in ToSet(x.keys)
  BY <1>4
<1>8. \A m \in Keys : m \in ToSet(x.keys) => Holds(st.ks, s, m)
  BY <1>4
<1>9. \A m \in Keys :
               /\ (Holds(st.ks, s, m) <=> Holds(u.ks, s, m)) => u.ref[m] = st.ref[m]
               /\ ~Holds(st.ks, s, m) /\ Holds(u.ks, s, m) =>
                     st.ref[m] # Freed /\ u.ref[m] = st.ref[m] + 1
               /\ Holds(st.ks, s, m) /\ ~Holds(u.ks, s, m) =>
                     u.ref[m] = IF st.ref[m] > 1 THEN st.ref[m] - 1 ELSE Freed
  BY <1>4, <1>6
<1>10. Counted(u, e) /\ LiveAfter(st, u, ToSet(x.keys), e)
  BY <1>1, <1>5, <1>7, <1>8, <1>9, CountsFollow
<1> QED
  BY <1>10 DEF u, x

\* Each key of D loses a reference, and is freed with its last one.
Dropped(r, D) ==
    [k \in Keys |-> IF k \in D THEN IF r[k] > 1 THEN r[k] - 1 ELSE Freed ELSE r[k]]

LEMMA DropType ==
    ASSUME NEW r \in [Keys -> Int], NEW D
    PROVE  Dropped(r, D) \in [Keys -> Int]
  BY DEF Dropped, Freed

LEMMA DropOne ==
    ASSUME NEW r \in [Keys -> Int], NEW k \in Keys
    PROVE  keyDel(keyDecRef(r, k), k) = Dropped(r, {k})
<1> DEFINE q == keyDel(keyDecRef(r, k), k)
<1>1. /\ q \in [Keys -> Int]
      /\ \A m \in Keys : q[m] = IF m = k THEN IF r[m] > 1 THEN r[m] - 1 ELSE Freed ELSE r[m]
  BY DEF keyDel, keyDecRef, Freed
<1> HIDE DEF q
<1>2. q = Dropped(r, {k})
  BY <1>1 DEF Dropped
<1> QED
  BY <1>2 DEF q

LEMMA DropNext ==
    ASSUME NEW r \in [Keys -> Int], NEW D, NEW k \in Keys, k \notin D
    PROVE  keyDel(keyDecRef(Dropped(r, D), k), k) = Dropped(r, D \cup {k})
<1> DEFINE d == Dropped(r, D)
           q == Dropped(d, {k})
<1>1. d \in [Keys -> Int] /\ keyDel(keyDecRef(d, k), k) = q
  BY DropType, DropOne
<1>2. \A m \in Keys : d[m] = IF m \in D THEN IF r[m] > 1 THEN r[m] - 1 ELSE Freed ELSE r[m]
  BY DEF Dropped
<1> HIDE DEF d
<1>3. q = Dropped(r, D \cup {k})
  BY <1>1, <1>2 DEF Dropped
<1> HIDE DEF q
<1> QED
  BY <1>1, <1>3 DEF d

LEMMA UnrefDrops ==
    ASSUME NEW r \in [Keys -> Int], NEW q \in Seq(Keys), SortedKeys(q)
    PROVE  Unref(r, q) = Dropped(r, ToSet(q))
<1> DEFINE n == Len(q)
           upto(i) == {q[j] : j \in 1 .. i}
           S == [i \in 0 .. n |-> {Dropped(r, upto(i))}]
           Round(i, t) == keyDel(keyDecRef(t, q[i]), q[i])
           g == [p \in (1 .. n) \X [Keys -> Int] |-> Round(p[1], p[2])]
           Loop(f) == f = [i \in 0 .. n |-> IF i = 0 THEN r ELSE Round(i, f[i - 1])]
<1>0. n \in Nat /\ \A i \in 1 .. n : q[i] \in Keys
  BY LenProperties, ElementOfSeq
<1>1. \A i \in 1 .. n : upto(i) = upto(i - 1) \cup {q[i]} /\ q[i] \notin upto(i - 1)
  <2> TAKE i \in 1 .. n
  <2>1. 1 .. i = (1 .. (i - 1)) \cup {i}
    BY <1>0
  <2>2. \A j \in 1 .. (i - 1) : q[j] # q[i]
    <3> TAKE j \in 1 .. (i - 1)
    <3>1. j \in 1 .. Len(q) /\ j # i
      BY <1>0
    <3> QED
      BY <3>1, SortedDistinct
  <2> QED
    BY <2>1, <2>2
<1>2. Dropped(r, {}) = r
  BY DEF Dropped
<1>3. \A i \in 0 .. n : Dropped(r, upto(i)) \in [Keys -> Int]
  BY DEF Dropped, Freed
<1>4. \A i \in 1 .. n : Round(i, Dropped(r, upto(i - 1))) = Dropped(r, upto(i))
  <2> TAKE i \in 1 .. n
  <2> DEFINE U == upto(i - 1)
             V == upto(i)
             k == q[i]
  <2>1. V = U \cup {k} /\ k \notin U /\ k \in Keys
    BY <1>0, <1>1
  <2> HIDE DEF U, V, k
  <2>2. keyDel(keyDecRef(Dropped(r, U), k), k) = Dropped(r, U \cup {k})
    BY <2>1, DropNext
  <2> QED
    BY <2>1, <2>2 DEF U, V, k
<1>5. Dropped(r, upto(0)) = r
  <2>1. upto(0) = {}
    OBVIOUS
  <2> HIDE DEF upto
  <2> QED
    BY <1>2, <2>1
<1> HIDE DEF upto
<1>6. \E f : Loop(f)
  <2>1. r \in S[0]
    BY <1>0, <1>5
  <2>2. \A i \in 1 .. n : \A t \in S[i - 1] : g[<<i, t>>] \in S[i] /\ g[<<i, t>>] = Round(i, t)
    <3> TAKE i \in 1 .. n
    <3> TAKE t \in S[i - 1]
    <3>1. i - 1 \in 0 .. n /\ i \in 0 .. n
      BY <1>0
    <3>2. t = Dropped(r, upto(i - 1)) /\ t \in [Keys -> Int]
      BY <1>3, <3>1
    <3> HIDE DEF Round
    <3>3. g[<<i, t>>] = Round(i, t)
      BY <3>2
    <3> QED
      BY <1>4, <3>1, <3>2, <3>3
  <2> HIDE DEF g, S, Round, n
  <2>3. PICK f : IsLoop(f, n, r, g) /\ \A i \in 0 .. n : f[i] \in S[i]
    <3>1. \A i \in 1 .. n : \A t \in S[i - 1] : g[<<i, t>>] \in S[i]
      BY <2>2
    <3>2. n \in Nat
      BY <1>0
    <3> QED
      BY <2>1, <3>1, <3>2, LoopExists
  <2>4. \A i \in 1 .. n : g[<<i, f[i - 1]>>] = Round(i, f[i - 1])
    BY <1>0, <2>2, <2>3
  <2>5. Loop(f)
    BY SMTT(20), <1>0, <2>3, <2>4 DEF IsLoop
  <2> QED
    BY <2>5
<1> DEFINE f == CHOOSE f : Loop(f)
<1>7. Loop(f)
  BY <1>6
<1>8. Unref(r, q) = f[n]
  BY DEF Unref
<1> HIDE DEF f, n, Round
<1>9. f[0] = r /\ \A i \in 1 .. n : f[i] = Round(i, f[i - 1])
  BY <1>0, <1>7
<1> DEFINE P == {i \in 0 .. n : f[i] = Dropped(r, upto(i))}
<1>10. 0 \in P
  BY <1>0, <1>5, <1>9
<1>11. \A i \in 1 .. n : i - 1 \in P => i \in P
  BY <1>0, <1>4, <1>9
<1>12. n \in P
  <2>1. n \in Nat /\ n \in 0 .. n
    BY <1>0
  <2> HIDE DEF P
  <2> QED
    BY <1>10, <1>11, <2>1, Induction
<1>13. upto(n) = ToSet(q)
  BY ToSetProperties DEF upto, n
<1> QED
  BY <1>8, <1>12, <1>13

-----------------------------------------------------------------------------
(* Appending many keys *)

LEMMA DoubledEnough ==
    ASSUME NEW a \in Nat, a > 0, NEW n \in Nat
    PROVE  Doubled(a, n) \in Nat /\ Doubled(a, n) > n
<1> DEFINE S == [i \in 0 .. n |-> {b \in Nat : b > i \/ b > n}]
           Round(t) == IF n >= t THEN t * 2 ELSE t
           g == [p \in (1 .. n) \X Nat |-> Round(p[2])]
           Loop(f) == f = [i \in 0 .. n |-> IF i = 0 THEN a ELSE Round(f[i - 1])]
<1>1. \A i \in 1 .. n : \A t \in S[i - 1] : Round(t) \in S[i]
  OBVIOUS
<1>2. a \in S[0]
  OBVIOUS
<1>3. \E f : Loop(f)
  <2>1. \A i \in 1 .. n : \A t \in S[i - 1] : g[<<i, t>>] = Round(t)
    <3> TAKE i \in 1 .. n
    <3> TAKE t \in S[i - 1]
    <3>1. t \in Nat
      OBVIOUS
    <3> HIDE DEF Round
    <3> QED
      BY <3>1
  <2> HIDE DEF S, g, Round
  <2>2. \A i \in 1 .. n : \A t \in S[i - 1] : g[<<i, t>>] \in S[i]
    BY <1>1, <2>1
  <2>3. PICK f : IsLoop(f, n, a, g) /\ \A i \in 0 .. n : f[i] \in S[i]
    BY <1>2, <2>2, LoopExists
  <2>4. \A i \in 1 .. n : g[<<i, f[i - 1]>>] = Round(f[i - 1])
    BY <2>1, <2>3
  <2>5. \A i \in 0 .. n : (IF i = 0 THEN a ELSE Round(f[i - 1])) = IF i = 0 THEN a ELSE g[<<i, f[i - 1]>>]
    BY <2>4
  <2>6. Loop(f)
    BY <2>3, <2>5 DEF IsLoop
  <2> QED
    BY <2>6
<1> DEFINE f == CHOOSE f : Loop(f)
           P == {i \in 0 .. n : f[i] \in S[i]}
<1>4. Loop(f)
  BY <1>3
<1>5. Doubled(a, n) = f[n]
  BY DEF Doubled
<1> HIDE DEF f, Round, S
<1>6. f[0] = a /\ \A i \in 1 .. n : f[i] = Round(f[i - 1])
  BY <1>4
<1>7. 0 \in P
  BY <1>2, <1>6
<1>8. \A i \in 1 .. n : i - 1 \in P => i \in P
  BY <1>1, <1>6
<1>9. n \in P
  <2> HIDE DEF P
  <2> QED
    BY <1>7, <1>8, Induction
<1> QED
  BY <1>5, <1>9 DEF S

\* Someone else than the keyset s has a reference to the key.
Held(f, s, k, e) == e[k] > 0 \/ \E t \in Sets \ {s} : Holds(f, t, k)

LEMMA HeldCounts ==
    ASSUME NEW f, NEW g, NEW s \in Sets, \A t \in Sets \ {s} : g[t] = f[t],
           NEW k \in Keys, NEW e \in [Keys -> Nat], Held(f, s, k, e)
    PROVE  Count(g, k) + e[k] > 0 /\ Held(g, s, k, e)
<1>1. \A t \in Sets \ {s} : Holds(f, t, k) => Holds(g, t, k)
  BY DEF Holds
<1>2. Count(g, k) \in Nat /\ e[k] \in Nat /\ \A t \in Sets : Holds(g, t, k) => Count(g, k) > 0
  BY CountTypes
<1> QED
  BY <1>1, <1>2 DEF Held

\* ksAppend() of the keys T to the keyset s.
Merged(st, u, s, T, e) ==
    LET x == st.ks[s]
        y == u.ks[s]
    IN /\ u \in States /\ Fine(y) /\ u.ks = [st.ks EXCEPT ![s] = y]
       /\ ToSet(y.keys) = Over(ToSet(x.keys), T)
       /\ T \subseteq ToSet(x.keys) => SameBut(y, x)
       /\ ~(T \subseteq ToSet(x.keys)) => OnKey(y)
       /\ Counted(u, e) /\ LiveAfter(st, u, ToSet(x.keys), e)

LEMMA SameFine ==
    ASSUME NEW x, Fine(x), NEW y \in Keysets, SameBut(y, x), Room(y)
    PROVE  Fine(y)
<1>1. Size(y) = Size(x)
  BY DEF SameBut, Size
<1> QED
  BY <1>1 DEF SameBut, Fine, CursorAt

\* Nothing is counted anew when the keyset has the same keys as before.
LEMMA MergedNothing ==
    ASSUME NEW st \in States, NEW s \in Sets, Fine(st.ks[s]), NEW e \in [Keys -> Nat], Counted(st, e),
           NEW u \in States, u.ks = [st.ks EXCEPT ![s] = u.ks[s]], u.ref = st.ref,
           Fine(u.ks[s]), SameBut(u.ks[s], st.ks[s])
    PROVE  Merged(st, u, s, {}, e)
<1> DEFINE x == st.ks[s]
           y == u.ks[s]
<1>1. st.ks \in [Sets -> Keysets \cup {Gone}] /\ x # Gone /\ y # Gone
  BY Constants, StateTypes DEF Fine
<1>2. \A k : Holds(st.ks, s, k) <=> Holds(u.ks, s, k)
  BY <1>1 DEF Holds, SameBut
<1>3. \A t \in Sets \ {s} : u.ks[t] = st.ks[t]
  BY <1>1
<1>4. \A k : Count(u.ks, k) = Count(st.ks, k)
  BY <1>2, <1>3, CountChange
<1>5. Counted(u, e)
  BY <1>4 DEF Counted
<1>6. LiveAfter(st, u, ToSet(x.keys), e)
  <2> SUFFICES ASSUME NEW k \in Keys, k \in ToSet(x.keys)
      PROVE  Count(u.ks, k) + e[k] > 0
    BY DEF LiveAfter
  <2>1. Holds(u.ks, s, k)
    BY <1>1, <1>2 DEF Holds
  <2>2. Count(u.ks, k) > 0 /\ Count(u.ks, k) \in Nat /\ e[k] \in Nat
    BY <2>1, CountTypes
  <2> QED
    BY <2>2
<1>7. ToSet(y.keys) = Over(ToSet(x.keys), {})
  BY DEF SameBut, Over
<1> QED
  BY <1>5, <1>6, <1>7 DEF Merged

\* One key more.
LEMMA MergedNext ==
    ASSUME NEW st \in States, NEW s \in Sets, NEW u, NEW T, NEW e \in [Keys -> Nat],
           Merged(st, u, s, T, e), NEW k \in Keys, \A t \in T : NameOf[t] # NameOf[k],
           \A t \in T \cup {k} : t \in Keys /\ Held(st.ks, s, t, e)
    PROVE  Merged(st, ksAppendKey(u, s, k), s, T \cup {k}, e)
<1> DEFINE w == ksAppendKey(u, s, k)
           X == ToSet(st.ks[s].keys)
           Y == ToSet(u.ks[s].keys)
           Z == ToSet(w.ks[s].keys)
<1>1. /\ u \in States /\ Fine(u.ks[s]) /\ u.ks = [st.ks EXCEPT ![s] = u.ks[s]] /\ Y = Over(X, T)
      /\ T \subseteq X => SameBut(u.ks[s], st.ks[s])
      /\ ~(T \subseteq X) => OnKey(u.ks[s])
      /\ Counted(u, e) /\ LiveAfter(st, u, X, e)
  BY DEF Merged
<1>2. st.ks \in [Sets -> Keysets \cup {Gone}] /\ u.ks \in [Sets -> Keysets \cup {Gone}]
  BY <1>1, StateTypes
<1>3. \A t \in Sets \ {s} : u.ks[t] = st.ks[t]
  BY <1>1, <1>2
<1>4. u.ref[k] # Freed
  <2>1. Count(u.ks, k) + e[k] > 0 /\ Count(u.ks, k) \in Nat /\ e[k] \in Nat
    BY <1>3, HeldCounts, CountTypes
  <2> QED
    BY <1>1, <2>1 DEF Counted
<1>5. PutIn(u, w, s, k)
  BY <1>1, AppendKeyProperties
<1>6. Counted(w, e) /\ LiveAfter(u, w, Y, e)
  BY <1>1, <1>4, AppendKeyCounted
<1> HIDE DEF w
<1>7. /\ w \in States /\ Fine(w.ks[s]) /\ w.ks = [u.ks EXCEPT ![s] = w.ks[s]]
      /\ Z = Over(Y, {k})
      /\ k \in Y => w = u
      /\ k \notin Y => OnKey(w.ks[s])
  BY <1>5 DEF PutIn
<1>8. \A t \in Sets \ {s} : w.ks[t] = u.ks[t] /\ w.ks[t] = st.ks[t]
  BY <1>2, <1>3, <1>7
<1>9. w.ks = [st.ks EXCEPT ![s] = w.ks[s]]
  BY <1>1, <1>2, <1>7
<1>10. Z = Over(X, T \cup {k})
  <2>1. Y = Over(X, T) /\ Z = Over(Y, {k})
    BY <1>1, <1>7
  <2> HIDE DEF X, Y, Z
  <2> QED
    BY <2>1 DEF Over
<1>11. T \cup {k} \subseteq X => SameBut(w.ks[s], st.ks[s])
  <2>1. SUFFICES ASSUME T \cup {k} \subseteq X PROVE SameBut(w.ks[s], st.ks[s])
    OBVIOUS
  <2>2. SameBut(u.ks[s], st.ks[s])
    BY <1>1, <2>1
  <2>3. Y = X
    BY <2>2 DEF SameBut
  <2>4. w = u
    BY <1>7, <2>1, <2>3
  <2> QED
    BY <2>2, <2>4
<1>12. ~(T \cup {k} \subseteq X) => OnKey(w.ks[s])
  <2>1. SUFFICES ASSUME ~(T \cup {k} \subseteq X), k \in Y PROVE OnKey(w.ks[s])
    BY <1>7
  <2>2. CASE T \subseteq X
    <3>1. Y = X
      BY <1>1, <2>2 DEF SameBut
    <3> QED
      BY <2>1, <2>2, <3>1
  <2>3. CASE ~(T \subseteq X)
    BY <1>1, <1>7, <2>1, <2>3
  <2> QED
    BY <2>2, <2>3
<1>13. LiveAfter(st, w, X, e)
  <2> SUFFICES ASSUME NEW m \in Keys
      PROVE  w.ref[m] # Freed <=> st.ref[m] # Freed /\ (m \in X => Count(w.ks, m) + e[m] > 0)
    BY DEF LiveAfter
  <2> DEFINE c == Count(u.ks, m)
             d == Count(w.ks, m)
             n == e[m]
  <2>1. c \in Nat /\ d \in Nat /\ n \in Nat
    BY CountTypes
  <2>2. u.ref[m] # Freed <=> st.ref[m] # Freed /\ (m \in X => c + n > 0)
    BY <1>1 DEF LiveAfter
  <2>3. w.ref[m] # Freed <=> u.ref[m] # Freed /\ (m \in Y => d + n > 0)
    BY <1>6 DEF LiveAfter
  <2>4. d + n > 0 => w.ref[m] # Freed
    BY <1>6, <2>1 DEF Counted
  <2>5. m \in Y \ X => d + n > 0
    <3>1. SUFFICES ASSUME m \in Y \ X PROVE d + n > 0
      OBVIOUS
    <3>2. m \in T
      BY <1>1, <3>1 DEF Over
    <3>3. Held(st.ks, s, m, e)
      BY <3>2
    <3> QED
      BY <1>8, <3>3, HeldCounts
  <2>6. m \notin Y => d >= c
    <3>1. m \notin Y => ~Holds(u.ks, s, m)
      BY DEF Holds
    <3>2. /\ (Holds(u.ks, s, m) <=> Holds(w.ks, s, m)) => d = c
          /\ ~Holds(u.ks, s, m) /\ Holds(w.ks, s, m) => d = c + 1
      BY <1>8, CountChange
    <3> HIDE DEF c, d
    <3> QED
      BY <2>1, <3>1, <3>2
  <2> HIDE DEF c, d, n, X, Y
  <2>7. w.ref[m] # Freed <=> st.ref[m] # Freed /\ (m \in X => d + n > 0)
    BY <2>1, <2>2, <2>3, <2>4, <2>5, <2>6
  <2> QED
    BY <2>7 DEF d, n
<1>14. Merged(st, w, s, T \cup {k}, e)
  BY <1>6, <1>7, <1>9, <1>10, <1>11, <1>12, <1>13 DEF Merged
<1> QED
  BY <1>14 DEF w

LEMMA KsAppendProperties ==
    ASSUME NEW st \in States, NEW s \in Sets, Fine(st.ks[s]), NEW q \in Seq(Keys), SortedKeys(q),
           NEW e \in [Keys -> Nat], Counted(st, e), \A k \in ToSet(q) : Held(st.ks, s, k, e)
    PROVE  Merged(st, ksAppend(st, s, q), s, ToSet(q), e)
<1> DEFINE x == st.ks[s]
           n == Len(q)
           room == Doubled(x.alloc, Size(x) + n) - 1
           first == With(st, s, ksResize(x, room))
           upto(i) == {q[j] : j \in 1 .. i}
           S == [i \in 0 .. n |-> {u \in States : Merged(st, u, s, upto(i), e)}]
           Round(i, u) == ksAppendKey(u, s, q[i])
           g == [p \in (1 .. n) \X States |-> Round(p[1], p[2])]
           Loop(f) == f = [i \in 0 .. n |-> IF i = 0 THEN first ELSE Round(i, f[i - 1])]
<1>0. /\ n \in Nat /\ \A i \in 1 .. n : q[i] \in Keys
      /\ x \in Keysets /\ Room(x) /\ x.alloc \in Nat /\ Size(x) \in Nat /\ KEYSET_SIZE <= x.alloc
      /\ x.alloc > 0
  BY LenProperties, ElementOfSeq, FieldTypes, Constants DEF Fine, Room
<1>1. CASE q = <<>>
  <2>1. ksAppend(st, s, q) = st
    BY <1>1 DEF ksAppend
  <2>2. ToSet(q) = {}
    <3>1. n = 0 /\ 1 .. n = {}
      BY <1>1
    <3>2. ToSet(q) = {q[i] : i \in 1 .. n}
      BY ToSetProperties
    <3> QED
      BY <3>1, <3>2
  <2>3. st.ks = [st.ks EXCEPT ![s] = st.ks[s]]
    BY StateTypes
  <2>4. SameBut(st.ks[s], st.ks[s])
    BY DEF SameBut
  <2>5. Merged(st, st, s, {}, e)
    BY <2>3, <2>4, MergedNothing
  <2> QED
    BY <2>1, <2>2, <2>5
<1>2. CASE q # <<>>
  <2>1. Merged(st, first, s, {}, e) /\ first \in States
    <3>1. room \in Nat /\ room >= Size(x)
      <4> DEFINE d == Doubled(x.alloc, Size(x) + n)
      <4>1. d \in Nat /\ d > Size(x) + n
        <5> HIDE DEF x, n
        <5>1. Size(x) + n \in Nat
          BY <1>0
        <5> QED
          BY <1>0, <5>1, DoubledEnough
      <4> HIDE DEF d
      <4> QED
        BY <1>0, <4>1 DEF d
    <3> DEFINE y == ksResize(x, room)
    <3>2. y \in Keysets /\ SameBut(y, x) /\ Room(y)
      <4> HIDE DEF room, x
      <4> QED
        BY <1>0, <3>1, ResizeProperties
    <3> HIDE DEF y
    <3>3. Fine(y)
      BY <3>2, SameFine
    <3>4. /\ first \in States /\ first.ks = [st.ks EXCEPT ![s] = y] /\ first.ref = st.ref
      BY <3>2, WithProperties DEF y
    <3> HIDE DEF first
    <3>5. first.ks[s] = y
      BY <3>4, StateTypes
    <3> QED
      BY <3>2, <3>3, <3>4, <3>5, MergedNothing
  <2> HIDE DEF first
  <2>2. \A i \in 1 .. n : upto(i) = upto(i - 1) \cup {q[i]}
    <3> TAKE i \in 1 .. n
    <3>1. 1 .. i = (1 .. (i - 1)) \cup {i}
      BY <1>0
    <3> QED
      BY <3>1
  <2>3. \A i \in 1 .. n : \A t \in upto(i - 1) : NameOf[t] # NameOf[q[i]]
    <3> TAKE i \in 1 .. n
    <3>1. \A j \in 1 .. (i - 1) : NameOf[q[j]] # NameOf[q[i]]
      <4> TAKE j \in 1 .. (i - 1)
      <4>1. j \in 1 .. Len(q) /\ j # i
        BY <1>0
      <4> QED
        BY <4>1, SortedDistinct
    <3> QED
      BY <3>1
  <2>4. \A i \in 0 .. n : \A t \in upto(i) : t \in Keys /\ Held(st.ks, s, t, e)
    <3> TAKE i \in 0 .. n
    <3> TAKE t \in upto(i)
    <3>1. PICK j \in 1 .. i : t = q[j]
      OBVIOUS
    <3>2. j \in 1 .. Len(q)
      BY <1>0, <3>1
    <3>3. t \in ToSet(q) /\ t \in Keys
      BY <1>0, <3>1, <3>2, ToSetProperties
    <3> QED
      BY <3>3
  <2>5. upto(0) = {}
    OBVIOUS
  <2>6. upto(n) = ToSet(q)
    BY ToSetProperties
  <2> HIDE DEF upto
  <2>7. \A i \in 1 .. n : \A u \in States :
           Merged(st, u, s, upto(i - 1), e) => Round(i, u) \in States /\ Merged(st, Round(i, u), s, upto(i), e)
    <3> TAKE i \in 1 .. n
    <3> SUFFICES ASSUME NEW u \in States, Merged(st, u, s, upto(i - 1), e)
        PROVE  Round(i, u) \in States /\ Merged(st, Round(i, u), s, upto(i), e)
      OBVIOUS
    <3> DEFINE k == q[i]
               T == upto(i - 1)
               w == ksAppendKey(u, s, k)
    <3>1. k \in Keys /\ \A t \in T : NameOf[t] # NameOf[k]
      BY <1>0, <2>3
    <3>2. upto(i) = T \cup {k}
      BY <2>2
    <3>3. \A t \in T \cup {k} : t \in Keys /\ Held(st.ks, s, t, e)
      <4>1. i \in 0 .. n
        BY <1>0
      <4> HIDE DEF T, k
      <4> QED
        BY <2>4, <3>2, <4>1
    <3>4. Merged(st, u, s, T, e)
      OBVIOUS
    <3> HIDE DEF T, k
    <3>5. Merged(st, w, s, T \cup {k}, e)
      BY <3>1, <3>3, <3>4, MergedNext
    <3> HIDE DEF w
    <3>6. w \in States
      BY <3>5 DEF Merged
    <3> QED
      BY <3>2, <3>5, <3>6 DEF w, k
  <2>8. first \in S[0] /\ Merged(st, first, s, upto(0), e)
    <3>1. Merged(st, first, s, upto(0), e)
      BY <2>1, <2>5
    <3>2. 0 \in 0 .. n
      BY <1>0
    <3> QED
      BY <2>1, <3>1, <3>2
  <2>9. \E f : Loop(f)
    <3>1. \A i \in 1 .. n : \A t \in S[i - 1] : g[<<i, t>>] \in S[i] /\ g[<<i, t>>] = Round(i, t)
      <4> TAKE i \in 1 .. n
      <4> TAKE t \in S[i - 1]
      <4>1. i - 1 \in 0 .. n /\ i \in 0 .. n
        BY <1>0
      <4>2. t \in States /\ Merged(st, t, s, upto(i - 1), e)
        BY <4>1
      <4> HIDE DEF Round
      <4>3. g[<<i, t>>] = Round(i, t)
        BY <4>2
      <4> HIDE DEF g
      <4> QED
        BY <2>7, <4>1, <4>2, <4>3
    <3> HIDE DEF g, S, Round, n
    <3>2. \A i \in 1 .. n : \A t \in S[i - 1] : g[<<i, t>>] \in S[i]
      BY <3>1
    <3>3. n \in Nat
      BY <1>0
    <3>4. PICK f : IsLoop(f, n, first, g) /\ \A i \in 0 .. n : f[i] \in S[i]
      BY <2>8, <3>2, <3>3, LoopExists
    <3>5. \A i \in 1 .. n : g[<<i, f[i - 1]>>] = Round(i, f[i - 1])
      BY <3>1, <3>3, <3>4
    <3>6. \A i \in 0 .. n : (IF i = 0 THEN first ELSE Round(i, f[i - 1]))
                            = IF i = 0 THEN first ELSE g[<<i, f[i - 1]>>]
      BY <3>3, <3>5
    <3>7. Loop(f)
      BY <3>4, <3>6 DEF IsLoop
    <3> QED
      BY <3>7
  <2> DEFINE f == CHOOSE f : Loop(f)
             P == {i \in 0 .. n : f[i] \in States /\ Merged(st, f[i], s, upto(i), e)}
  <2>10. Loop(f)
    BY <2>9
  <2>11. ksAppend(st, s, q) = f[n]
    BY <1>2 DEF ksAppend, first
  <2> HIDE DEF f, n, Round, S
  <2>12. n \in Nat
    BY <1>0
  <2>13. f[0] = first /\ \A i \in 1 .. n : f[i] = Round(i, f[i - 1])
    BY <2>10, <2>12
  <2>14. 0 \in P
    BY <2>1, <2>8, <2>12, <2>13
  <2>15. \A i \in 1 .. n : i - 1 \in P => i \in P
    BY <2>7, <2>12, <2>13
  <2>16. n \in P
    <3>1. n \in 0 .. n
      BY <2>12
    <3> HIDE DEF P
    <3> QED
      BY <2>12, <2>14, <2>15, <3>1, Induction
  <2> QED
    BY <2>6, <2>11, <2>16
<1> QED
  BY <1>1, <1>2

-----------------------------------------------------------------------------
(* The cursor and the trail *)

Trails == (SUBSET Keys) \cup {Moved, Invalid}
Rewound(x) == x.current = 0 /\ x.cursor = NULL

\* How many keys the cursor has come past.
Passed(x) == IF x.cursor # NULL THEN x.current + 1 ELSE x.current
Seen(x, T) == \A i \in 1 .. Size(x) : x.keys[i] \in T <=> i <= Passed(x)

\* What the trail T says of the cursor of x.
Tracks(x, T) ==
    T # Invalid => /\ x.current >= Size(x) => x.cursor = NULL
                   /\ T # Moved => Seen(x, T)

LEMMA FromTracks ==
    ASSUME NEW x \in Keysets, NEW T \in Trails, Rewound(x) \/ Tracks(x, T)
    PROVE  From(x, T) \in Trails /\ Tracks(x, From(x, T))
<1>0. x.keys \in Seq(Keys) /\ Size(x) \in Nat /\ Size(x) = Len(x.keys)
  BY FieldTypes
<1>1. CASE Rewound(x)
  <2>1. From(x, T) = {}
    BY <1>1 DEF From, Rewound
  <2>2. Seen(x, {})
    BY <1>0, <1>1 DEF Seen, Rewound, Passed
  <2> QED
    BY <1>1, <2>1, <2>2 DEF Rewound, Tracks, Trails
<1>2. CASE ~Rewound(x) /\ T \in {Moved, Invalid}
  BY <1>2 DEF From, Rewound, Tracks, Trails
<1>3. CASE ~Rewound(x) /\ T \notin {Moved, Invalid}
  <2>0. T \in SUBSET Keys
    BY <1>3 DEF Trails
  <2>1. From(x, T) = T \cap ToSet(x.keys)
    BY <1>3 DEF From, Rewound
  <2>2. \A i \in 1 .. Size(x) : x.keys[i] \in T \cap ToSet(x.keys) <=> x.keys[i] \in T
    BY <1>0, ToSetProperties
  <2>3. Seen(x, T \cap ToSet(x.keys)) /\ (x.current >= Size(x) => x.cursor = NULL)
    BY <1>3, <2>2 DEF Tracks, Seen
  <2> QED
    BY <2>0, <2>1, <2>3 DEF Tracks, Trails
<1> QED
  BY <1>1, <1>2, <1>3

LEMMA SameTracks ==
    ASSUME NEW x, NEW y, SameBut(y, x), NEW T, Tracks(x, T)
    PROVE  Tracks(y, T)
  BY DEF SameBut, Tracks, Seen, Passed, Size

LEMMA OnKeyTracks ==
    ASSUME NEW x \in Keysets, OnKey(x)
    PROVE  Tracks(x, Moved)
  BY FieldTypes DEF OnKey, Tracks

LEMMA RewoundFine ==
    ASSUME NEW x \in Keysets, SortedKeys(x.keys), Room(x), x.keys # <<>> => x.behind = NULL, Rewound(x)
    PROVE  Fine(x)
  BY DEF Fine, CursorAt, Rewound

LEMMA CutPlaces ==
    ASSUME NEW x, Fine(x), NEW name \in Seq(Nat)
    PROVE  \/ /\ Cut(x, name) = [rest |-> x, cut |-> <<>>]
              /\ \A i \in 1 .. Size(x) : ~IsPrefix(name, NameOf[x.keys[i]])
           \/ \E f, t \in 0 .. Size(x) :
                /\ f < t
                /\ Cut(x, name) = [rest |-> CutCursor(x, [x EXCEPT !.keys = CutOut(x.keys, f, t),
                                                                   !.behind = NULL], f, t),
                                   cut |-> SubSeq(x.keys, f + 1, t)]
                /\ \A i \in 1 .. Size(x) : IsPrefix(name, NameOf[x.keys[i]]) <=> f < i /\ i <= t
<1>0. /\ x \in Keysets /\ x.keys \in Seq(Keys) /\ Size(x) \in Nat /\ Size(x) = Len(x.keys)
      /\ SortedKeys(x.keys)
  BY FieldTypes DEF Fine
<1> DEFINE n == Size(x)
           B(i) == IsPrefix(name, NameOf[x.keys[i]])
           I == {i \in 1 .. n : B(i)}
           found == SelectInSeq(x.keys, LAMBDA k : IsPrefix(name, NameOf[k])) - 1
<1>1. found = (IF I # {} THEN Min(I) ELSE 0) - 1
  BY <1>0 DEF SelectInSeq
<1>2. CASE I = {}
  <2>1. found = -1
    <3> HIDE DEF found, I
    <3> QED
      BY <1>1, <1>2
  <2>2. Cut(x, name) = [rest |-> x, cut |-> <<>>]
    BY <2>1 DEF Cut, keyIsBelowOrSame
  <2> QED
    BY <1>2, <2>2
<1>3. CASE I # {}
  <2>1. PICK a \in I : \A i \in I : a <= i
    BY <1>0, <1>3, LeastElement, I \in SUBSET (0 .. n)
  <2>2. Min(I) = a
    BY <2>1, <1>0 DEF Min
  <2> DEFINE f == a - 1
             E == {i \in f .. n : (\A j \in f .. (i - 1) : B(j + 1)) /\ (i < n => ~B(i + 1))}
             it == CHOOSE i \in f .. n : (\A j \in f .. (i - 1) : B(j + 1)) /\ (i < n => ~B(i + 1))
  <2>3. found = f /\ f \in 0 .. n /\ f < n /\ B(f + 1) /\ f # -1
    BY <1>0, <1>1, <1>3, <2>1, <2>2
  <2>4. \A i \in 1 .. n : i <= f => ~B(i)
    BY <1>0, <2>1
  <2>5. \E i \in f .. n : (\A j \in f .. (i - 1) : B(j + 1)) /\ (i < n => ~B(i + 1))
    <3> DEFINE R == {i \in f .. n : i < n => ~B(i + 1)}
    <3>1. n \in R /\ R \in SUBSET (0 .. n)
      BY <1>0, <2>3
    <3>2. PICK i \in R : \A j \in R : i <= j
      <4> HIDE DEF R
      <4> QED
        BY <1>0, <3>1, LeastElement
    <3>3. \A j \in f .. (i - 1) : B(j + 1)
      <4> TAKE j \in f .. (i - 1)
      <4>1. j \in f .. n /\ j < n /\ ~(i <= j)
        BY <1>0, <2>3, <3>2
      <4> HIDE DEF B
      <4> QED
        BY <3>2, <4>1
    <3> QED
      BY <3>2, <3>3
  <2>6. it \in f .. n /\ (\A j \in f .. (it - 1) : B(j + 1)) /\ (it < n => ~B(it + 1))
    <3> HIDE DEF B, f, n
    <3> QED
      BY <2>5
  <2>7. Cut(x, name) = [rest |-> CutCursor(x, [x EXCEPT !.keys = CutOut(x.keys, f, it),
                                                        !.behind = NULL], f, it),
                        cut |-> SubSeq(x.keys, f + 1, it)]
    <3>1. Cut(x, name) = IF found = -1 THEN [rest |-> x, cut |-> <<>>]
                         ELSE LET t == CHOOSE i \in found .. n : (\A j \in found .. (i - 1) : B(j + 1)) /\ (i < n => ~B(i + 1))
                              IN [rest |-> CutCursor(x, [x EXCEPT !.keys = SubSeq(@, 1, found) \o SubSeq(@, t + 1, Size(x)),
                                                                  !.behind = NULL], found, t),
                                  cut |-> SubSeq(x.keys, found + 1, t)]
      BY DEF Cut, keyIsBelowOrSame
    <3> HIDE DEF found, B, f, n
    <3> QED
      BY <1>0, <2>3, <3>1 DEF CutOut
  <2> HIDE DEF it
  <2>8. f < it /\ it \in 0 .. n
    BY <1>0, <2>3, <2>6
  <2>9. \A i \in 1 .. n : f < i /\ i <= it => B(i)
    <3> TAKE i \in 1 .. n
    <3>1. f < i /\ i <= it => i - 1 \in f .. (it - 1) /\ (i - 1) + 1 = i
      BY <1>0, <2>3, <2>8
    <3> HIDE DEF B, f
    <3> QED
      BY <2>6, <3>1
  <2>10. \A i \in 1 .. n : i > it => ~B(i)
    <3> SUFFICES ASSUME NEW i \in 1 .. n, i > it, B(i) PROVE FALSE
      OBVIOUS
    <3>1. it < n /\ it + 1 \in 1 .. n /\ f + 1 \in 1 .. n /\ f + 1 < it + 1 /\ ~B(it + 1) /\ it + 1 <= i
      BY SMTT(20), <1>0, <2>3, <2>6, <2>8
    <3>2. it + 1 < i
      <4>1. it + 1 # i
        BY <3>1
      <4> QED
        BY <1>0, <2>8, <3>1, <4>1
    <3> DEFINE u == f + 1
               v == it + 1
    <3>3. u \in 1 .. n /\ v \in 1 .. n /\ u < v /\ v < i /\ B(u) /\ B(i) /\ ~B(v)
      BY <2>3, <3>1, <3>2
    <3> HIDE DEF u, v
    <3>4. Before(NameOf[x.keys[u]], NameOf[x.keys[v]]) /\ Before(NameOf[x.keys[v]], NameOf[x.keys[i]])
      BY <1>0, <3>3 DEF SortedKeys
    <3>5. /\ NameOf[x.keys[u]] \in Seq(Nat) /\ NameOf[x.keys[v]] \in Seq(Nat)
          /\ NameOf[x.keys[i]] \in Seq(Nat)
      BY <1>0, <3>3, KeyNames
    <3> QED
      BY <3>3, <3>4, <3>5, PrefixConvex
  <2> HIDE DEF B, f, n
  <2>11. \A i \in 1 .. n : B(i) <=> f < i /\ i <= it
    <3> TAKE i \in 1 .. n
    <3>1. i <= f \/ i > it \/ (f < i /\ i <= it)
      BY <1>0, <2>3, <2>8 DEF n
    <3>2. (f < i => ~(i <= f)) /\ (i <= it => ~(i > it))
      BY <1>0, <2>3, <2>8 DEF n
    <3> QED
      BY <2>4, <2>9, <2>10, <3>1, <3>2
  <2> QED
    BY <2>3, <2>7, <2>8, <2>11 DEF B, n
<1> QED
  BY <1>2, <1>3

\* The cursor after a cut, in its three cases: it was before the keys that are
\* cut out, on one of them, or behind them.
Follows(x, y) ==
    /\ Rewound(x) => Rewound(y)
    /\ \A T \in Trails : T # Invalid /\ Tracks(x, T) /\ ~Overrun(x)
                         => Rewound(y) \/ (Tracks(y, T) /\ ~Overrun(y))

LEMMA CutCursorProperties ==
    ASSUME NEW x, Fine(x), NEW f \in 0 .. Size(x), NEW t \in 0 .. Size(x), f < t
    PROVE  LET y == CutCursor(x, [x EXCEPT !.keys = CutOut(x.keys, f, t), !.behind = NULL], f, t)
           IN Fine(y) /\ y.keys = CutOut(x.keys, f, t) /\ Follows(x, y)
<1> DEFINE q == CutOut(x.keys, f, t)
           w == [x EXCEPT !.keys = q, !.behind = NULL]
           y == CutCursor(x, w, f, t)
           n == Size(x)
           d == t - f
           m == n - d
           p == x.current
<1>0. /\ x \in Keysets /\ x.keys \in Seq(Keys) /\ n \in Nat /\ n = Len(x.keys) /\ SortedKeys(x.keys)
      /\ p \in Nat /\ x.alloc \in Nat /\ Room(x) /\ CursorAt(x) /\ KEYSET_SIZE \in Nat
  BY FieldTypes, Constants DEF Fine
<1>1. f \in Nat /\ t \in Nat /\ f < t /\ t <= n /\ d \in Nat /\ d > 0 /\ m \in Nat /\ f <= m /\ m < n
  BY <1>0
<1>2. /\ q \in Seq(Keys) /\ SortedKeys(q) /\ Len(q) = m
      /\ \A i \in 1 .. m : IF i <= f THEN q[i] = x.keys[i] ELSE q[i] = x.keys[i + d]
  <2>1. f \in 0 .. Len(x.keys) /\ t \in f .. Len(x.keys)
    BY <1>0, <1>1
  <2>2. q \in Seq(Keys) /\ SortedKeys(q) /\ Len(q) = m
    <3>1. q \in Seq(Keys) /\ SortedKeys(q)
      BY <1>0, <2>1, CutOutSorted
    <3>2. Len(q) = Len(x.keys) - (t - f)
      BY <1>0, <2>1, CutOutProperties
    <3> QED
      BY <1>0, <3>1, <3>2
  <2>3. /\ \A j \in 1 .. f : q[j] = x.keys[j]
        /\ \A j \in (f + 1) .. (Len(x.keys) - (t - f)) : q[j] = x.keys[j + (t - f)]
    BY <1>0, <2>1, CutOutProperties
  <2>4. \A i \in 1 .. m : IF i <= f THEN i \in 1 .. f ELSE i \in (f + 1) .. (Len(x.keys) - (t - f))
    BY <1>0, <1>1
  <2> HIDE DEF q
  <2> QED
    BY <2>2, <2>3, <2>4
<1> HIDE DEF q
<1>3. w \in Keysets /\ w.keys = q /\ w.behind = NULL /\ w.alloc = x.alloc /\ w.current = p /\ w.cursor = x.cursor
  BY <1>0, <1>2 DEF Keysets
<1> HIDE DEF w
<1>4. Size(w) = m
  BY <1>2, <1>3 DEF Size
<1>5. ASSUME NEW z \in Keysets, z.keys = q, z.behind = NULL, z.alloc = x.alloc
      PROVE  Size(z) = m /\ (CursorAt(z) => Fine(z))
  <2>1. Size(z) = m
    BY <1>2, <1>5 DEF Size
  <2>2. Room(z)
    BY <1>0, <1>1, <1>5, <2>1 DEF Room
  <2> QED
    BY <1>2, <1>5, <2>1, <2>2 DEF Fine
<1>6. ASSUME y = ksRewind(w)
      PROVE  Fine(y) /\ y.keys = q /\ Follows(x, y)
  <2> HIDE DEF y
  <2>1. y \in Keysets /\ y.keys = q /\ y.behind = NULL /\ y.alloc = x.alloc /\ Rewound(y)
    BY <1>3, <1>6, RewindProperties DEF Rewound
  <2>2. Fine(y)
    BY <1>5, <2>1 DEF CursorAt, Rewound
  <2> QED
    BY <2>1, <2>2 DEF Follows
<1>7. ASSUME p < f
      PROVE  Fine(y) /\ y.keys = q /\ Follows(x, y)
  <2>1. y = w
    BY <1>7 DEF CutCursor
  <2> HIDE DEF y
  <2>2. CursorAt(w)
    <3>1. p < n /\ p + 1 \in 1 .. m /\ p + 1 <= f
      BY <1>0, <1>1, <1>7
    <3>2. q[p + 1] = x.keys[p + 1]
      BY <1>2, <3>1
    <3> QED
      BY <1>0, <1>3, <3>1, <3>2 DEF CursorAt
  <2>3. Fine(w)
    BY <1>3, <1>5, <2>2
  <2>4. ASSUME NEW T \in Trails, T # Invalid, Tracks(x, T)
        PROVE  Tracks(w, T) /\ ~Overrun(w)
    <3>1. ~(w.current >= Size(w)) /\ ~Overrun(w)
      BY <1>0, <1>1, <1>3, <1>4, <1>7 DEF Overrun
    <3>2. Passed(w) = Passed(x) /\ Passed(x) \in Nat /\ Passed(x) <= f
      BY <1>0, <1>1, <1>3, <1>7 DEF Passed
    <3>3. ASSUME T # Moved, NEW i \in 1 .. m
          PROVE  q[i] \in T <=> i <= Passed(x)
      <4>1. \A j \in 1 .. n : x.keys[j] \in T <=> j <= Passed(x)
        BY <2>4, <3>3 DEF Tracks, Seen
      <4>2. i \in 1 .. n /\ i + d \in 1 .. n
        BY <1>0, <1>1
      <4>3. ~(i <= f) => ~(i <= Passed(x)) /\ ~(i + d <= Passed(x))
        BY <1>1, <3>2
      <4> QED
        BY <1>2, <4>1, <4>2, <4>3
    <3> QED
      BY <1>3, <1>4, <3>1, <3>2, <3>3 DEF Tracks, Seen
  <2>5. Rewound(x) => Rewound(w)
    BY <1>3 DEF Rewound
  <2> QED
    BY <1>3, <2>1, <2>3, <2>4, <2>5 DEF Follows
<1>8. ASSUME f <= p /\ p < t /\ f # 0
      PROVE  Fine(y) /\ y.keys = q /\ Follows(x, y)
  <2>1. y = ksSetCursor(w, f - 1)
    <3>1. ~(p < f)
      BY <1>0, <1>1, <1>8
    <3> QED
      BY <1>8, <3>1 DEF CutCursor
  <2>2. f - 1 \in Nat /\ f - 1 < Size(w) /\ (f - 1) + 1 = f
    BY <1>1, <1>4, <1>8
  <2> DEFINE c == f - 1
  <2> HIDE DEF y, c
  <2>3. c \in Nat /\ c < Size(w) /\ c + 1 = f /\ y = ksSetCursor(w, c)
    BY <2>1, <2>2 DEF c
  <2>4. y \in Keysets /\ OnKey(y) /\ y.current = c /\ y.keys = q /\ y.behind = NULL /\ y.alloc = x.alloc
    BY <1>3, <2>3, CursorOnKey
  <2>5. Size(y) = m /\ Fine(y)
    BY <1>5, <2>4 DEF OnKey, CursorAt
  <2>6. y.cursor # NULL
    BY SMTT(20), <1>1, <1>2, <2>3, <2>4, <2>5, Constants, ElementOfSeq DEF OnKey
  <2>7. ~Rewound(x)
    BY <1>1, <1>8 DEF Rewound
  <2>8. ASSUME NEW T \in Trails, T # Invalid, Tracks(x, T)
        PROVE  Tracks(y, T) /\ ~Overrun(y)
    <3>1. ~(y.current >= Size(y)) /\ ~Overrun(y)
      BY <1>1, <2>3, <2>4, <2>5 DEF Overrun, OnKey
    <3>2. Passed(y) = f /\ Passed(x) \in Nat /\ Passed(x) >= f /\ Passed(x) <= t
      BY <1>0, <1>1, <1>8, <2>3, <2>4, <2>6 DEF Passed
    <3>3. ASSUME T # Moved, NEW i \in 1 .. m
          PROVE  q[i] \in T <=> i <= f
      <4>1. \A j \in 1 .. n : x.keys[j] \in T <=> j <= Passed(x)
        BY <2>8, <3>3 DEF Tracks, Seen
      <4>2. i \in 1 .. n /\ i + d \in 1 .. n
        BY <1>0, <1>1
      <4>3. (i <= f => i <= Passed(x)) /\ (~(i <= f) => ~(i + d <= Passed(x)))
        BY <1>1, <3>2
      <4> QED
        BY <1>2, <4>1, <4>2, <4>3
    <3> QED
      BY <2>4, <2>5, <3>1, <3>2, <3>3 DEF Tracks, Seen
  <2> QED
    BY <2>4, <2>5, <2>7, <2>8 DEF Follows
<1>9. ASSUME p >= t /\ t < n
      PROVE  Fine(y) /\ y.keys = q /\ Follows(x, y)
  <2> DEFINE c == f + p - t
  <2>1. y = ksSetCursor(w, c)
    <3>1. ~(p < f) /\ ~(p < t) /\ ~(t >= n)
      BY <1>0, <1>1, <1>9
    <3> QED
      BY <3>1 DEF CutCursor
  <2>2. c \in Nat /\ c = p - d /\ c # -1 /\ c \in Int /\ c >= -1
    BY SMTT(20), <1>0, <1>1, <1>9
  <2> HIDE DEF y, c
  <2>3. y \in Keysets /\ y.keys = q /\ y.behind = NULL /\ y.alloc = x.alloc /\ y.current = c /\ y.cursor = At(w, c)
    BY <1>3, <2>1, <2>2, SetCursorProperties
  <2>4. Size(y) = m /\ (CursorAt(y) => Fine(y))
    BY <1>5, <2>3
  <2>5. /\ c < m => At(w, c) = q[c + 1] /\ At(w, c) \in Keys
        /\ c = m => At(w, c) = NULL
    BY <1>3, <1>4, <2>2, AtProperties
  <2>6. Fine(y)
    BY <2>3, <2>4, <2>5 DEF CursorAt
  <2>7. ~Rewound(x)
    BY <1>0, <1>1, <1>9 DEF Rewound
  <2>8. p < n <=> c < m
    BY <1>0, <1>1, <2>2
  <2>9. p < n => x.cursor # NULL /\ y.cursor # NULL
    <3>1. p < n => x.cursor = x.keys[p + 1] /\ p + 1 \in 1 .. n
      BY <1>0, <1>1, <1>9 DEF CursorAt
    <3>2. p < n => x.cursor \in Keys
      BY <1>0, <3>1, ElementOfSeq
    <3> QED
      BY <2>3, <2>5, <2>8, <3>2, Constants
  <2>10. ASSUME NEW T \in Trails, T # Invalid, Tracks(x, T), ~Overrun(x)
         PROVE  Tracks(y, T) /\ ~Overrun(y)
    <3>1. p >= n => x.cursor = NULL /\ p = n /\ c = m /\ y.cursor = NULL
      <4>1. p >= n => x.cursor = NULL
        BY <2>10 DEF Tracks
      <4>2. p >= n => p = n
        BY <1>0, <2>10, <4>1 DEF Overrun
      <4> QED
        BY <1>0, <1>1, <2>2, <2>3, <2>5, <4>1, <4>2
    <3>2. c <= m
      BY <1>0, <1>1, <2>2, <2>8, <3>1
    <3>3. ~Overrun(y) /\ (y.current >= Size(y) => y.cursor = NULL)
      BY <1>0, <1>1, <2>2, <2>3, <2>4, <2>8, <3>1, <3>2 DEF Overrun
    <3>4. Passed(x) \in Nat /\ Passed(y) = Passed(x) - d /\ Passed(y) >= f
      <4>1. CASE p < n
        BY <1>0, <1>1, <1>9, <2>2, <2>3, <2>9, <4>1 DEF Passed
      <4>2. CASE p >= n
        BY <1>0, <1>1, <1>9, <2>2, <2>3, <3>1, <4>2 DEF Passed
      <4> QED
        BY <1>0, <4>1, <4>2
    <3>5. ASSUME T # Moved, NEW i \in 1 .. m
          PROVE  q[i] \in T <=> i <= Passed(y)
      <4>1. \A j \in 1 .. n : x.keys[j] \in T <=> j <= Passed(x)
        BY <2>10, <3>5 DEF Tracks, Seen
      <4>2. i \in 1 .. n /\ i + d \in 1 .. n
        BY <1>0, <1>1
      <4>3. /\ i <= f => i <= Passed(x) /\ i <= Passed(y)
            /\ i + d <= Passed(x) <=> i <= Passed(y)
        BY <1>1, <3>4
      <4> QED
        BY <1>2, <4>1, <4>2, <4>3
    <3> QED
      BY <2>3, <2>4, <3>3, <3>5 DEF Tracks, Seen
  <2> QED
    BY <2>3, <2>6, <2>7, <2>10 DEF Follows
<1>10. ASSUME (f <= p /\ p < t /\ f = 0) \/ (p >= t /\ ~(t < n))
      PROVE  Fine(y) /\ y.keys = q /\ Follows(x, y)
  <2>1. ~(p < f) /\ ((p < t /\ f = 0) \/ (~(p < t) /\ t >= n))
    BY <1>0, <1>1, <1>10
  <2>2. y = ksRewind(w)
    BY <2>1 DEF CutCursor
  <2> QED
    BY <1>6, <2>2
<1>11. p < f \/ (f <= p /\ p < t) \/ p >= t
  BY <1>0, <1>1
<1>12. Fine(y) /\ y.keys = q /\ Follows(x, y)
  <2> HIDE DEF y
  <2> QED
    BY <1>7, <1>8, <1>9, <1>10, <1>11
<1> QED
  BY <1>12 DEF w, q

\* What Cut() promises.
CutFrom(x, c, name) ==
    /\ Fine(c.rest) /\ c.cut \in Seq(Keys) /\ SortedKeys(c.cut)
    /\ ToSet(c.cut) = {k \in ToSet(x.keys) : IsPrefix(name, NameOf[k])}
    /\ ToSet(c.rest.keys) = ToSet(x.keys) \ ToSet(c.cut)
    /\ ToSet(c.cut) = {} => c.rest = x
    /\ Follows(x, c.rest)

LEMMA SliceSorted ==
    ASSUME NEW q \in Seq(Keys), SortedKeys(q), NEW f \in 0 .. Len(q), NEW t \in 0 .. Len(q), f < t
    PROVE  LET r == SubSeq(q, f + 1, t)
           IN r \in Seq(Keys) /\ SortedKeys(r) /\ Len(r) = t - f /\ ToSet(r) = {q[i] : i \in (f + 1) .. t}
<1> DEFINE r == SubSeq(q, f + 1, t)
           m == t - f
<1>0. Len(q) \in Nat /\ f \in Nat /\ t \in Nat /\ m \in Nat /\ t <= Len(q) /\ \A i \in 1 .. Len(q) : q[i] \in Keys
  BY LenProperties, ElementOfSeq
<1>1. r \in Seq(Keys) /\ Len(r) = m /\ \A i \in 1 .. m : r[i] = q[i + f]
  <2>1. f + 1 \in Int /\ t \in Int /\ \A i \in (f + 1) .. t : q[i] \in Keys
    BY <1>0
  <2>2. /\ r \in Seq(Keys) /\ Len(r) = IF f + 1 <= t THEN t - (f + 1) + 1 ELSE 0
        /\ \A i \in 1 .. (t - (f + 1) + 1) : r[i] = q[(f + 1) + i - 1]
    BY <2>1, SubSeqProperties
  <2>3. (IF f + 1 <= t THEN t - (f + 1) + 1 ELSE 0) = m /\ t - (f + 1) + 1 = m
    BY <1>0
  <2>4. \A i \in 1 .. m : (f + 1) + i - 1 = i + f
    BY <1>0
  <2> HIDE DEF r, m
  <2> QED
    BY <2>2, <2>3, <2>4
<1> HIDE DEF r
<1>2. \A i \in 1 .. m : i + f \in 1 .. Len(q)
  BY <1>0
<1>3. SortedKeys(r)
  <2> SUFFICES ASSUME NEW i \in 1 .. m, NEW j \in 1 .. m, i < j
      PROVE  Before(NameOf[r[i]], NameOf[r[j]])
    BY <1>1 DEF SortedKeys
  <2>1. i + f < j + f
    BY <1>0
  <2> QED
    BY <1>1, <1>2, <2>1 DEF SortedKeys
<1>4. ToSet(r) = {q[i] : i \in (f + 1) .. t}
  <2>1. \A k : k \in ToSet(r) <=> \E i \in 1 .. m : r[i] = k
    <3>1. r \in Seq(Keys) /\ Len(r) = m
      BY <1>1
    <3>2. \A k : k \in ToSet(r) <=> \E i \in 1 .. Len(r) : r[i] = k
      BY <3>1, ToSetProperties
    <3> HIDE DEF m
    <3> QED
      BY <3>1, <3>2
  <2>2. \A i \in 1 .. m : i + f \in (f + 1) .. t
    BY <1>0
  <2>3. \A i \in (f + 1) .. t : i - f \in 1 .. m /\ (i - f) + f = i
    BY <1>0
  <2>4. \A i \in 1 .. m : r[i] = q[i + f]
    BY <1>1
  <2>5. \A i \in (f + 1) .. t : r[i - f] = q[i]
    <3> TAKE i \in (f + 1) .. t
    <3> DEFINE j == i - f
    <3>1. j \in 1 .. m /\ j + f = i
      BY <2>3
    <3> HIDE DEF j, m
    <3> QED
      BY <2>4, <3>1 DEF j
  <2> HIDE DEF m
  <2>6. ASSUME NEW k PROVE (\E i \in 1 .. m : r[i] = k) <=> \E i \in (f + 1) .. t : q[i] = k
    BY <2>2, <2>3, <2>4, <2>5
  <2> QED
    BY <2>1, <2>6
<1> QED
  BY <1>1, <1>3, <1>4 DEF r

LEMMA CutProperties ==
    ASSUME NEW x, Fine(x), NEW name \in Seq(Nat)
    PROVE  CutFrom(x, Cut(x, name), name)
<1>0. /\ x \in Keysets /\ x.keys \in Seq(Keys) /\ Size(x) \in Nat /\ Size(x) = Len(x.keys)
      /\ SortedKeys(x.keys)
  BY FieldTypes DEF Fine
<1> DEFINE c == Cut(x, name)
<1>1. ASSUME c = [rest |-> x, cut |-> <<>>], \A i \in 1 .. Size(x) : ~IsPrefix(name, NameOf[x.keys[i]])
      PROVE  CutFrom(x, c, name)
  <2> HIDE DEF c
  <2>1. c.rest = x /\ c.cut = <<>>
    BY <1>1
  <2>2. <<>> \in Seq(Keys) /\ SortedKeys(<<>>) /\ Len(<<>>) = 0
    BY DEF SortedKeys
  <2>3. ToSet(<<>>) = {}
    BY DEF ToSet
  <2>4. \A k \in ToSet(x.keys) : ~IsPrefix(name, NameOf[k])
    BY <1>0, <1>1, ToSetProperties
  <2>5. Follows(x, x)
    BY DEF Follows
  <2> QED
    BY <2>1, <2>2, <2>3, <2>4, <2>5 DEF CutFrom
<1>2. ASSUME NEW f \in 0 .. Size(x), NEW t \in 0 .. Size(x), f < t,
             c = [rest |-> CutCursor(x, [x EXCEPT !.keys = CutOut(x.keys, f, t), !.behind = NULL], f, t),
                  cut |-> SubSeq(x.keys, f + 1, t)],
             \A i \in 1 .. Size(x) : IsPrefix(name, NameOf[x.keys[i]]) <=> f < i /\ i <= t
      PROVE  CutFrom(x, c, name)
  <2> DEFINE y == CutCursor(x, [x EXCEPT !.keys = CutOut(x.keys, f, t), !.behind = NULL], f, t)
             q == x.keys
             r == SubSeq(q, f + 1, t)
             o == CutOut(q, f, t)
  <2>1. Fine(y) /\ y.keys = o /\ Follows(x, y)
    BY <1>2, CutCursorProperties
  <2> HIDE DEF c, y
  <2>2. c.rest = y /\ c.cut = r
    BY <1>2 DEF y
  <2>3. q \in Seq(Keys) /\ SortedKeys(q) /\ f \in 0 .. Len(q) /\ t \in 0 .. Len(q) /\ t \in f .. Len(q) /\ f < t
    BY <1>0, <1>2
  <2> DEFINE D == {q[i] : i \in (f + 1) .. t}
  <2>4. r \in Seq(Keys) /\ SortedKeys(r) /\ Len(r) = t - f /\ ToSet(r) = D
    <3> HIDE DEF q, D
    <3> QED
      BY <2>3, SliceSorted DEF D
  <2>5. ToSet(o) = ToSet(q) \ D
    <3> HIDE DEF q, D
    <3> QED
      BY <2>3, CutOutSorted DEF D
  <2>6. D = {k \in ToSet(q) : IsPrefix(name, NameOf[k])}
    <3>1. \A i \in 1 .. Len(q) : i \in (f + 1) .. t <=> IsPrefix(name, NameOf[q[i]])
      BY <1>0, <1>2
    <3>2. \A i \in (f + 1) .. t : i \in 1 .. Len(q)
      BY <2>3, <1>0
    <3>3. \A k : k \in ToSet(q) <=> \E i \in 1 .. Len(q) : q[i] = k
      BY <2>3, ToSetProperties
    <3> HIDE DEF q
    <3> QED
      BY <3>1, <3>2, <3>3
  <2>7. D # {}
    <3>1. t \in (f + 1) .. t
      BY <1>0, <1>2
    <3> QED
      BY <3>1
  <2> HIDE DEF D, r, o
  <2> QED
    BY <2>1, <2>2, <2>4, <2>5, <2>6, <2>7 DEF CutFrom
<1> HIDE DEF c
<1>3. CutFrom(x, c, name)
  <2>1. \/ /\ c = [rest |-> x, cut |-> <<>>]
           /\ \A i \in 1 .. Size(x) : ~IsPrefix(name, NameOf[x.keys[i]])
        \/ \E f, t \in 0 .. Size(x) :
             /\ f < t
             /\ c = [rest |-> CutCursor(x, [x EXCEPT !.keys = CutOut(x.keys, f, t), !.behind = NULL], f, t),
                     cut |-> SubSeq(x.keys, f + 1, t)]
             /\ \A i \in 1 .. Size(x) : IsPrefix(name, NameOf[x.keys[i]]) <=> f < i /\ i <= t
    BY CutPlaces DEF c
  <2> QED
    BY <1>1, <1>2, <2>1
<1> QED
  BY <1>3 DEF c

-----------------------------------------------------------------------------
(* Cutting a part of one keyset off into another *)

\* ksCut(): the keys T of s are in t, which was not allocated before.
CutOff(st, u, s, t, T, e) ==
    LET x == st.ks[s]
        X == ToSet(x.keys)
    IN /\ u \in States /\ \A r \in Sets \ {s, t} : u.ks[r] = st.ks[r]
       /\ Fine(u.ks[s]) /\ Fine(u.ks[t])
       /\ T \in SUBSET X /\ ToSet(u.ks[s].keys) = X \ T /\ ToSet(u.ks[t].keys) = T
       /\ Rewound(u.ks[t]) \/ OnKey(u.ks[t])
       /\ T = {} => u.ks[s] = x
       /\ Follows(x, u.ks[s])
       /\ Counted(u, e) /\ \A k \in Keys : u.ref[k] # Freed <=> st.ref[k] # Freed

LEMMA FollowsTwice ==
    ASSUME NEW x, NEW y, NEW z, Follows(x, y), Follows(y, z)
    PROVE  Follows(x, z)
  BY DEF Follows

\* Keys that move from one keyset to another are counted as before.
LEMMA CountMoved ==
    ASSUME NEW st \in States, NEW u \in States, NEW s \in Sets, NEW t \in Sets, s # t,
           \A r \in Sets \ {s, t} : u.ks[r] = st.ks[r],
           \A k : (Holds(st.ks, s, k) \/ Holds(st.ks, t, k)) <=> (Holds(u.ks, s, k) \/ Holds(u.ks, t, k)),
           \A k : ~(Holds(st.ks, s, k) /\ Holds(st.ks, t, k)) /\ ~(Holds(u.ks, s, k) /\ Holds(u.ks, t, k)),
           NEW k
    PROVE  Count(u.ks, k) = Count(st.ks, k)
<1> DEFINE f == st.ks
           h == u.ks
           g == [f EXCEPT ![s] = h[s]]
<1>0. f \in [Sets -> Keysets \cup {Gone}] /\ h \in [Sets -> Keysets \cup {Gone}]
  BY StateTypes
<1>1. (\A r \in Sets \ {s} : g[r] = f[r]) /\ g[s] = h[s] /\ \A r \in Sets \ {t} : h[r] = g[r]
  BY <1>0
<1>2. /\ (Holds(f, s, k) \/ Holds(f, t, k)) <=> (Holds(h, s, k) \/ Holds(h, t, k))
      /\ ~(Holds(f, s, k) /\ Holds(f, t, k)) /\ ~(Holds(h, s, k) /\ Holds(h, t, k))
  OBVIOUS
<1> HIDE DEF f, g, h
<1>3. (Holds(g, s, k) <=> Holds(h, s, k)) /\ (Holds(g, t, k) <=> Holds(f, t, k))
  BY <1>1 DEF Holds
<1>4. /\ (Holds(f, s, k) <=> Holds(g, s, k)) => Count(g, k) = Count(f, k)
      /\ ~Holds(f, s, k) /\ Holds(g, s, k) => Count(g, k) = Count(f, k) + 1
      /\ Holds(f, s, k) /\ ~Holds(g, s, k) => Count(g, k) = Count(f, k) - 1
  BY <1>1, CountChange
<1>5. /\ (Holds(g, t, k) <=> Holds(h, t, k)) => Count(h, k) = Count(g, k)
      /\ ~Holds(g, t, k) /\ Holds(h, t, k) => Count(h, k) = Count(g, k) + 1
      /\ Holds(g, t, k) /\ ~Holds(h, t, k) => Count(h, k) = Count(g, k) - 1
  BY <1>1, CountChange
<1>6. Count(f, k) \in Nat /\ Count(g, k) \in Nat /\ Count(h, k) \in Nat
  BY CountTypes
<1>7. Count(h, k) = Count(f, k)
  BY <1>2, <1>3, <1>4, <1>5, <1>6
<1> QED
  BY <1>7 DEF f, h

LEMMA KsCutProperties ==
    ASSUME NEW st \in States, NEW s \in Sets, Fine(st.ks[s]), NEW t \in Sets, st.ks[t] = Gone,
           NEW name \in Seq(Nat), NEW e \in [Keys -> Nat], Counted(st, e)
    PROVE  CutOff(st, ksCut(st, s, t, name), s, t,
                  {k \in ToSet(st.ks[s].keys) : IsPrefix(name, NameOf[k])}, e)
<1> DEFINE x == st.ks[s]
           c == Cut(x, name)
           z == ksNew(Len(c.cut))
           new == [z EXCEPT !.keys = c.cut]
           u == ksCut(st, s, t, name)
           T == {k \in ToSet(x.keys) : IsPrefix(name, NameOf[k])}
<1>1. CutFrom(x, c, name)
  BY CutProperties
<1>2. u = [st EXCEPT !.ks = [@ EXCEPT ![s] = c.rest, ![t] = new]]
  BY DEF ksCut
<1> HIDE DEF c, u
<1>3. /\ Fine(c.rest) /\ c.cut \in Seq(Keys) /\ SortedKeys(c.cut) /\ ToSet(c.cut) = T
      /\ ToSet(c.rest.keys) = ToSet(x.keys) \ T /\ (T = {} => c.rest = x) /\ Follows(x, c.rest)
  BY <1>1 DEF CutFrom
<1>4. Len(c.cut) \in Nat
  BY <1>3, LenProperties
<1>5. z \in Keysets /\ z.behind = NULL /\ z.alloc >= Len(c.cut) + 1 /\ Rewound(z) /\ Room(z)
  BY <1>4, NewProperties DEF Rewound
<1> HIDE DEF z
<1>6. /\ new \in Keysets /\ new.keys = c.cut /\ new.behind = NULL /\ new.alloc = z.alloc
      /\ Rewound(new)
  BY <1>3, <1>5 DEF Keysets, Rewound
<1> HIDE DEF new
<1>7. Room(new)
  <2>1. Size(new) = Len(c.cut) /\ z.alloc \in Nat
    BY <1>5, <1>6, FieldTypes DEF Size
  <2> QED
    BY <1>4, <1>5, <1>6, <2>1 DEF Room
<1>8. Fine(new)
  BY <1>3, <1>6, <1>7, RewoundFine
<1>9. x \in Keysets /\ c.rest \in Keysets /\ x # Gone /\ c.rest # Gone /\ new # Gone /\ s # t
  BY <1>3, <1>6, Constants DEF Fine
<1>10. st.ks \in [Sets -> Keysets \cup {Gone}] /\ st.ref \in [Keys -> Int]
  BY StateTypes
<1>11. u \in States /\ u.ref = st.ref /\ u.ks[s] = c.rest /\ u.ks[t] = new
       /\ \A r \in Sets \ {s, t} : u.ks[r] = st.ks[r]
  <2> DEFINE k1 == [st.ks EXCEPT ![s] = c.rest, ![t] = new]
  <2>1. /\ k1 \in [Sets -> Keysets \cup {Gone}] /\ k1[s] = c.rest /\ k1[t] = new
        /\ \A r \in Sets \ {s, t} : k1[r] = st.ks[r]
    <3> HIDE DEF x
    <3> QED
      BY <1>6, <1>9, <1>10
  <2>2. u = [st EXCEPT !.ks = k1]
    BY <1>2
  <2> HIDE DEF k1
  <2>3. u \in States /\ u.ref = st.ref /\ u.ks = k1
    BY <2>1, <2>2 DEF States
  <2> QED
    BY <2>1, <2>3
<1> HIDE DEF x, T
<1>12. \A k : /\ Holds(st.ks, s, k) <=> k \in ToSet(x.keys)
              /\ ~Holds(st.ks, t, k)
              /\ Holds(u.ks, s, k) <=> k \in ToSet(x.keys) \ T
              /\ Holds(u.ks, t, k) <=> k \in T
  BY <1>3, <1>6, <1>9, <1>11 DEF Holds, x
<1>13. \A k \in T : k \in ToSet(x.keys)
  BY DEF T
<1>14. \A k : Count(u.ks, k) = Count(st.ks, k)
  BY <1>9, <1>11, <1>12, <1>13, CountMoved, ZenonT(30)
<1>15. Counted(u, e)
  BY <1>11, <1>14 DEF Counted
<1>16. CutOff(st, u, s, t, T, e)
  BY <1>3, <1>6, <1>8, <1>11, <1>13, <1>15 DEF CutOff, x
<1> QED
  BY <1>16 DEF u, T, x

\* ksCut() at a cascading name begins with an empty keyset,
LEMMA CutOffFirst ==
    ASSUME NEW st \in States, NEW s \in Sets, Fine(st.ks[s]), NEW t \in Sets, st.ks[t] = Gone,
           NEW e \in [Keys -> Nat], Counted(st, e)
    PROVE  CutOff(st, With(st, t, ksNew(0)), s, t, {}, e)
<1> DEFINE y == ksNew(0)
           u == With(st, t, y)
<1>1. y \in Keysets /\ y.keys = <<>> /\ y.behind = NULL /\ Rewound(y) /\ Room(y)
  BY NewProperties DEF Rewound
<1> HIDE DEF y
<1>2. ToSet(y.keys) = {} /\ SortedKeys(y.keys)
  BY <1>1 DEF ToSet, SortedKeys
<1>3. Fine(y)
  BY <1>1, <1>2, RewoundFine
<1>4. s # t /\ st.ks \in [Sets -> Keysets \cup {Gone}] /\ y # Gone
  BY <1>1, Constants, StateTypes DEF Fine
<1>5. u \in States /\ u.ks = [st.ks EXCEPT ![t] = y] /\ u.ref = st.ref
  BY <1>1, WithProperties
<1> HIDE DEF u
<1>6. u.ks[t] = y /\ \A r \in Sets \ {t} : u.ks[r] = st.ks[r]
  BY <1>4, <1>5
<1>7. \A k : ~Holds(st.ks, t, k) /\ ~Holds(u.ks, t, k)
  BY <1>2, <1>6 DEF Holds
<1>8. \A k : Count(u.ks, k) = Count(st.ks, k)
  BY <1>6, <1>7, CountChange
<1>9. Counted(u, e)
  BY <1>5, <1>8 DEF Counted
<1>10. Follows(st.ks[s], st.ks[s])
  BY DEF Follows
<1>11. u.ks[s] = st.ks[s]
  BY <1>4, <1>6
<1>12. CutOff(st, u, s, t, {}, e)
  BY <1>1, <1>2, <1>3, <1>5, <1>6, <1>9, <1>10, <1>11 DEF CutOff
<1> QED
  BY <1>12 DEF u, y

\* and adds what is below the name in one namespace after the other.
LEMMA CutOffNext ==
    ASSUME NEW st \in States, NEW s \in Sets, Fine(st.ks[s]), NEW t \in Sets, s # t,
           NEW e \in [Keys -> Nat], NEW u, NEW T, CutOff(st, u, s, t, T, e), NEW name \in Seq(Nat)
    PROVE  CutOff(st, MoveBelow(u, s, t, name), s, t,
                  T \cup {k \in ToSet(st.ks[s].keys) : IsPrefix(name, NameOf[k])}, e)
<1> DEFINE X == ToSet(st.ks[s].keys)
           c == Cut(u.ks[s], name)
           C == ToSet(c.cut)
           a == With(u, s, c.rest)
           b == ksAppend(a, t, c.cut)
           w == MoveBelow(u, s, t, name)
           e1 == [k \in Keys |-> IF k \in C THEN e[k] + 1 ELSE e[k]]
<1>1. /\ u \in States /\ (\A r \in Sets \ {s, t} : u.ks[r] = st.ks[r])
      /\ Fine(u.ks[s]) /\ Fine(u.ks[t])
      /\ T \in SUBSET X /\ ToSet(u.ks[s].keys) = X \ T /\ ToSet(u.ks[t].keys) = T
      /\ Rewound(u.ks[t]) \/ OnKey(u.ks[t])
      /\ T = {} => u.ks[s] = st.ks[s]
      /\ Follows(st.ks[s], u.ks[s])
      /\ Counted(u, e) /\ \A k \in Keys : u.ref[k] # Freed <=> st.ref[k] # Freed
  BY DEF CutOff
<1>2. CutFrom(u.ks[s], c, name)
  BY <1>1, CutProperties
<1>3. w = [b EXCEPT !.ref = Unref(@, c.cut)]
  BY DEF MoveBelow
<1> HIDE DEF c, w, X
<1>4. /\ Fine(c.rest) /\ c.cut \in Seq(Keys) /\ SortedKeys(c.cut)
      /\ C = {k \in X \ T : IsPrefix(name, NameOf[k])}
      /\ ToSet(c.rest.keys) = (X \ T) \ C
      /\ C = {} => c.rest = u.ks[s]
      /\ Follows(u.ks[s], c.rest)
  BY <1>1, <1>2 DEF CutFrom
<1>5. C \in SUBSET Keys /\ C \in SUBSET X /\ C \cap T = {}
  BY <1>4, ToSetProperties
<1> HIDE DEF C
<1>6. c.rest \in Keysets /\ u.ks[s] # Gone /\ c.rest # Gone /\ u.ks[t] # Gone
  BY <1>1, <1>4, Constants DEF Fine
<1>7. a \in States /\ a.ks = [u.ks EXCEPT ![s] = c.rest] /\ a.ref = u.ref
  BY <1>1, <1>6, WithProperties
<1> HIDE DEF a
<1>8. a.ks[s] = c.rest /\ \A r \in Sets \ {s} : a.ks[r] = u.ks[r]
  BY <1>1, <1>7, StateTypes
<1>9. e1 \in [Keys -> Nat]
  OBVIOUS
<1>10. \A k \in Keys : e1[k] = IF k \in C THEN e[k] + 1 ELSE e[k]
  OBVIOUS
<1> HIDE DEF e1
<1>11. \A k : /\ Holds(u.ks, s, k) <=> k \in X \ T
              /\ Holds(a.ks, s, k) <=> k \in (X \ T) \ C
  BY <1>1, <1>4, <1>6, <1>8 DEF Holds
<1>12. Counted(a, e1)
  <2> DEFINE f == u.ks
             g == a.ks
  <2>0. (\A r \in Sets \ {s} : g[r] = f[r])
        /\ \A k : (Holds(f, s, k) <=> k \in X \ T) /\ (Holds(g, s, k) <=> k \in (X \ T) \ C)
    BY <1>8, <1>11
  <2> SUFFICES ASSUME NEW k \in Keys
      PROVE  IF a.ref[k] # Freed THEN a.ref[k] = Count(g, k) + e1[k]
             ELSE Count(g, k) = 0 /\ e1[k] = 0
    BY DEF Counted
  <2>1. IF u.ref[k] # Freed THEN u.ref[k] = Count(f, k) + e[k] ELSE Count(f, k) = 0 /\ e[k] = 0
    BY <1>1 DEF Counted
  <2>2. a.ref[k] = u.ref[k] /\ e1[k] = IF k \in C THEN e[k] + 1 ELSE e[k]
    BY <1>7, <1>10
  <2> HIDE DEF f, g
  <2>3. Count(g, k) \in Nat /\ Count(f, k) \in Nat /\ e[k] \in Nat
    BY CountTypes
  <2>4. /\ (Holds(f, s, k) <=> Holds(g, s, k)) => Count(g, k) = Count(f, k)
        /\ Holds(f, s, k) /\ ~Holds(g, s, k) => Count(g, k) = Count(f, k) - 1
    BY <2>0, CountChange
  <2>5. Holds(f, s, k) => Count(f, k) > 0
    BY CountTypes
  <2>6. CASE k \in C
    <3>1. Holds(f, s, k) /\ ~Holds(g, s, k)
      BY <1>5, <2>0, <2>6
    <3>2. Count(g, k) = Count(f, k) - 1 /\ Count(f, k) > 0 /\ e1[k] = e[k] + 1
      BY <2>2, <2>4, <2>5, <2>6, <3>1
    <3> QED
      BY SMTT(20), <2>1, <2>2, <2>3, <3>2
  <2>7. CASE k \notin C
    <3>1. Holds(f, s, k) <=> Holds(g, s, k)
      BY <2>0, <2>7
    <3> QED
      BY <2>1, <2>2, <2>4, <2>7, <3>1
  <2> QED
    BY <2>6, <2>7
<1>13. \A k \in C : Held(a.ks, t, k, e1)
  BY <1>5, <1>10 DEF Held
<1>14. Fine(a.ks[t]) /\ a.ks[t] = u.ks[t]
  BY <1>1, <1>8
<1>15. Merged(a, b, t, C, e1)
  <2>1. \A k \in ToSet(c.cut) : Held(a.ks, t, k, e1)
    BY <1>13 DEF C
  <2>2. Merged(a, b, t, ToSet(c.cut), e1)
    BY <1>4, <1>7, <1>9, <1>12, <1>14, <2>1, KsAppendProperties
  <2> QED
    BY <2>2 DEF C
<1> HIDE DEF b
<1>16. /\ b \in States /\ Fine(b.ks[t]) /\ b.ks = [a.ks EXCEPT ![t] = b.ks[t]]
       /\ ToSet(b.ks[t].keys) = Over(T, C)
       /\ C \subseteq T => SameBut(b.ks[t], u.ks[t])
       /\ ~(C \subseteq T) => OnKey(b.ks[t])
       /\ Counted(b, e1) /\ LiveAfter(a, b, T, e1)
  BY <1>1, <1>14, <1>15 DEF Merged
<1>17. w \in States /\ w.ks = b.ks /\ w.ref = Dropped(b.ref, C)
  <2>1. b.ref \in [Keys -> Int]
    BY <1>16, StateTypes
  <2>2. Unref(b.ref, c.cut) = Dropped(b.ref, C)
    BY <1>4, <2>1, UnrefDrops DEF C
  <2>3. Dropped(b.ref, C) \in [Keys -> Int]
    BY <2>1, DropType
  <2>4. w = [b EXCEPT !.ref = Dropped(b.ref, C)]
    BY <1>3, <2>2
  <2> QED
    BY <1>16, <2>3, <2>4 DEF States
<1>18. b.ks[s] = c.rest /\ \A r \in Sets \ {s, t} : b.ks[r] = st.ks[r]
  BY <1>1, <1>7, <1>8, <1>16, StateTypes
<1>19. Over(T, C) = T \cup C
  <2>1. \A k \in T, m \in C : NameOf[m] # NameOf[k]
    <3> SUFFICES ASSUME NEW k \in T, NEW m \in C, NameOf[m] = NameOf[k] PROVE FALSE
      OBVIOUS
    <3> DEFINE q == st.ks[s].keys
    <3>1. q \in Seq(Keys) /\ SortedKeys(q) /\ X = ToSet(q)
      BY FieldTypes DEF Fine, X
    <3> HIDE DEF q
    <3>2. PICK i \in 1 .. Len(q) : q[i] = k
      BY <1>1, <3>1, ToSetProperties
    <3>3. PICK j \in 1 .. Len(q) : q[j] = m
      BY <1>5, <3>1, ToSetProperties
    <3>4. i = j
      BY <3>1, <3>2, <3>3, SortedDistinct
    <3> QED
      BY <1>5, <3>2, <3>3, <3>4
  <2> QED
    BY <2>1 DEF Over
<1>20. /\ Counted(w, e)
       /\ \A k \in Keys : w.ref[k] # Freed <=> u.ref[k] # Freed
  <2> SUFFICES ASSUME NEW k \in Keys
      PROVE  /\ IF w.ref[k] # Freed THEN w.ref[k] = Count(w.ks, k) + e[k]
                ELSE Count(w.ks, k) = 0 /\ e[k] = 0
             /\ w.ref[k] # Freed <=> u.ref[k] # Freed
    BY DEF Counted
  <2>1. IF b.ref[k] # Freed THEN b.ref[k] = Count(b.ks, k) + e1[k]
        ELSE Count(b.ks, k) = 0 /\ e1[k] = 0
    BY <1>16 DEF Counted
  <2>2. Count(b.ks, k) \in Nat /\ e[k] \in Nat
    BY CountTypes
  <2>3. w.ref[k] = IF k \in C THEN IF b.ref[k] > 1 THEN b.ref[k] - 1 ELSE Freed ELSE b.ref[k]
    BY <1>17 DEF Dropped
  <2>4. k \in T \cup C => Count(b.ks, k) > 0
    <3>1. b.ks[t] # Gone
      BY <1>16, Constants DEF Fine
    <3>2. k \in T \cup C => Holds(b.ks, t, k)
      BY <1>16, <1>19, <3>1 DEF Holds
    <3> QED
      BY <3>2, CountTypes
  <2>5. b.ref[k] # Freed <=> u.ref[k] # Freed /\ (k \in T => Count(b.ks, k) + e1[k] > 0)
    BY <1>7, <1>16 DEF LiveAfter
  <2>6. k \in C => u.ref[k] # Freed
    <3>1. k \in C => Holds(u.ks, s, k)
      BY <1>5, <1>11
    <3>2. Holds(u.ks, s, k) => Count(u.ks, k) > 0
      BY CountTypes
    <3> QED
      BY <1>1, <3>1, <3>2 DEF Counted
  <2>7. w.ks = b.ks /\ e1[k] = IF k \in C THEN e[k] + 1 ELSE e[k]
    BY <1>10, <1>17
  <2> QED
    BY <2>1, <2>2, <2>3, <2>4, <2>5, <2>6, <2>7 DEF Freed
<1> DEFINE U == T \cup {k \in X : IsPrefix(name, NameOf[k])}
<1>21. U = T \cup C /\ U \in SUBSET X /\ (X \ T) \ C = X \ U
  BY <1>1, <1>4, <1>5
<1> HIDE DEF U
<1>22. Rewound(b.ks[t]) \/ OnKey(b.ks[t])
  <2>1. C \subseteq T => Rewound(b.ks[t]) \/ OnKey(b.ks[t])
    BY <1>1, <1>16 DEF SameBut, Rewound, OnKey, Size
  <2> QED
    BY <1>16, <2>1
<1>23. U = {} => c.rest = st.ks[s]
  BY <1>1, <1>4, <1>21
<1>24. Follows(st.ks[s], c.rest)
  BY <1>1, <1>4, FollowsTwice
<1>25. CutOff(st, w, s, t, U, e)
  <2>1. w \in States /\ \A r \in Sets \ {s, t} : w.ks[r] = st.ks[r]
    BY <1>17, <1>18
  <2>2. Fine(w.ks[s]) /\ Fine(w.ks[t])
    BY <1>4, <1>16, <1>17, <1>18
  <2>3. U \in SUBSET X /\ ToSet(w.ks[s].keys) = X \ U /\ ToSet(w.ks[t].keys) = U
    BY <1>4, <1>16, <1>17, <1>18, <1>19, <1>21
  <2>4. Rewound(w.ks[t]) \/ OnKey(w.ks[t])
    BY <1>17, <1>22
  <2>5. (U = {} => w.ks[s] = st.ks[s]) /\ Follows(st.ks[s], w.ks[s])
    BY <1>17, <1>18, <1>23, <1>24
  <2>6. Counted(w, e) /\ \A k \in Keys : w.ref[k] # Freed <=> st.ref[k] # Freed
    BY <1>1, <1>20
  <2> QED
    BY <2>1, <2>2, <2>3, <2>4, <2>5, <2>6 DEF CutOff, X
<1> QED
  BY <1>25 DEF w, U, X

LEMMA InPrefix ==
    ASSUME NEW name \in Seq(Nat), name # <<>>, NEW m \in Seq(Nat), m # <<>>, NEW ns \in Nat
    PROVE  /\ In(ns, name) \in Seq(Nat)
           /\ IsPrefix(In(ns, name), m) <=> ns = Head(m) /\ IsPrefix(Tail(name), Tail(m))
<1> DEFINE p == In(ns, name)
           a == Tail(name)
           b == Tail(m)
<1>1. /\ a \in Seq(Nat) /\ b \in Seq(Nat) /\ Len(a) \in Nat /\ Len(b) \in Nat
      /\ Len(name) = Len(a) + 1 /\ Len(m) = Len(b) + 1
      /\ \A i \in 1 .. Len(b) : b[i] = m[i + 1]
  BY HeadTailProperties, EmptySeq
<1>2. Head(m) = m[1]
  OBVIOUS
<1> HIDE DEF a, b
<1>3. /\ p \in Seq(Nat) /\ Len(p) = Len(a) + 1 /\ p[1] = ns
      /\ \A i \in 1 .. Len(a) : p[i + 1] = a[i]
  <2>1. <<ns>> \in Seq(Nat) /\ Len(<<ns>>) = 1
    OBVIOUS
  <2>2. p = <<ns>> \o a
    BY DEF In, a
  <2>3. /\ p \in Seq(Nat) /\ Len(p) = 1 + Len(a)
        /\ \A i \in 1 .. (1 + Len(a)) : p[i] = IF i <= 1 THEN <<ns>>[i] ELSE a[i - 1]
    BY <1>1, <2>1, <2>2, ConcatProperties
  <2> HIDE DEF p
  <2>4. \A i \in 1 .. Len(a) : i + 1 \in 1 .. (1 + Len(a)) /\ ~(i + 1 <= 1) /\ (i + 1) - 1 = i
    BY <1>1
  <2>5. 1 \in 1 .. (1 + Len(a)) /\ <<ns>>[1] = ns
    BY <1>1
  <2>6. p[1] = ns
    BY <2>3, <2>5
  <2>7. ASSUME NEW i \in 1 .. Len(a) PROVE p[i + 1] = a[i]
    <3> DEFINE j == i + 1
    <3>1. j \in 1 .. (1 + Len(a)) /\ ~(j <= 1) /\ j - 1 = i
      BY <2>4
    <3> HIDE DEF j
    <3>2. p[j] = a[j - 1]
      BY <2>3, <3>1
    <3> QED
      BY <3>1, <3>2 DEF j
  <2>8. Len(p) = Len(a) + 1
    BY <1>1, <2>3
  <2> QED
    BY <2>3, <2>6, <2>7, <2>8
<1> HIDE DEF p
<1>4. IsPrefix(p, m) <=> Len(p) <= Len(m) /\ \A i \in 1 .. Len(p) : p[i] = m[i]
  BY <1>3, PrefixPointwise
<1>5. IsPrefix(a, b) <=> Len(a) <= Len(b) /\ \A i \in 1 .. Len(a) : a[i] = b[i]
  BY <1>1, PrefixPointwise
<1>6. Len(p) <= Len(m) <=> Len(a) <= Len(b)
  BY <1>1, <1>3
<1>7. Len(a) <= Len(b) => ((\A i \in 1 .. Len(p) : p[i] = m[i])
                           <=> ns = m[1] /\ \A i \in 1 .. Len(a) : a[i] = b[i])
  <2> SUFFICES ASSUME Len(a) <= Len(b)
      PROVE  (\A i \in 1 .. Len(p) : p[i] = m[i]) <=> ns = m[1] /\ \A i \in 1 .. Len(a) : a[i] = b[i]
    OBVIOUS
  <2>1. \A i \in 1 .. Len(a) : a[i] = p[i + 1] /\ b[i] = m[i + 1] /\ i + 1 \in 1 .. Len(p)
    BY <1>1, <1>3
  <2>2. \A i \in 1 .. Len(p) : i = 1 \/ (i - 1 \in 1 .. Len(a) /\ (i - 1) + 1 = i)
    BY <1>1, <1>3
  <2>3. 1 \in 1 .. Len(p)
    BY <1>1, <1>3
  <2>4. ASSUME \A i \in 1 .. Len(p) : p[i] = m[i]
        PROVE  ns = m[1] /\ \A i \in 1 .. Len(a) : a[i] = b[i]
    BY <1>3, <2>1, <2>3, <2>4
  <2>5. ASSUME ns = m[1], \A i \in 1 .. Len(a) : a[i] = b[i], NEW i \in 1 .. Len(p)
        PROVE  p[i] = m[i]
    <3> DEFINE j == i - 1
    <3>1. i = 1 \/ (j \in 1 .. Len(a) /\ j + 1 = i)
      BY <2>2
    <3> HIDE DEF j
    <3>2. CASE i = 1
      BY <1>3, <2>5, <3>2
    <3>3. CASE j \in 1 .. Len(a) /\ j + 1 = i
      <4>1. a[j] = p[i] /\ b[j] = m[i]
        BY <2>1, <3>3
      <4> QED
        BY <2>5, <3>3, <4>1
    <3> QED
      BY <3>1, <3>2, <3>3
  <2> QED
    BY <2>4, <2>5
<1>8. IsPrefix(p, m) <=> ns = Head(m) /\ IsPrefix(a, b)
  BY <1>2, <1>4, <1>5, <1>6, <1>7
<1> QED
  BY <1>3, <1>8 DEF p, a, b

\* What is below a cascading name is below it in the namespace of the key.
LEMMA SomeNamespace ==
    ASSUME NEW name \in Seq(Nat), name # <<>>, NEW k \in Keys
    PROVE  (\E j \in 1 .. Len(Namespaces) : IsPrefix(In(Namespaces[j], name), NameOf[k]))
           <=> IsPrefix(Tail(name), Tail(NameOf[k]))
<1> DEFINE m == NameOf[k]
<1>1. m \in Seq(Nat) /\ m # <<>> /\ Namespaces \in Seq(Nat) /\ Head(m) \in ToSet(Namespaces)
  BY KeySetAssumption
<1> HIDE DEF m
<1>2. \A j \in 1 .. Len(Namespaces) : Namespaces[j] \in Nat
  BY <1>1, ElementOfSeq
<1>3. PICK h \in 1 .. Len(Namespaces) : Namespaces[h] = Head(m)
  BY <1>1, ToSetProperties
<1>4. \A ns \in Nat : IsPrefix(In(ns, name), m) <=> ns = Head(m) /\ IsPrefix(Tail(name), Tail(m))
  BY <1>1, InPrefix
<1>5. (\E j \in 1 .. Len(Namespaces) : IsPrefix(In(Namespaces[j], name), m)) <=> IsPrefix(Tail(name), Tail(m))
  BY <1>2, <1>3, <1>4
<1> QED
  BY <1>5 DEF m

LEMMA KsCutCascadingProperties ==
    ASSUME NEW st \in States, NEW s \in Sets, Fine(st.ks[s]), NEW t \in Sets, st.ks[t] = Gone,
           NEW name \in Seq(Nat), name # <<>>, NEW e \in [Keys -> Nat], Counted(st, e)
    PROVE  CutOff(st, ksCutCascading(st, s, t, name), s, t,
                  {k \in ToSet(st.ks[s].keys) : IsPrefix(Tail(name), Tail(NameOf[k]))}, e)
<1> DEFINE X == ToSet(st.ks[s].keys)
           n == Len(Namespaces)
           first == With(st, t, ksNew(0))
           nm(i) == In(Namespaces[i], name)
           upto(i) == {k \in X : \E j \in 1 .. i : IsPrefix(nm(j), NameOf[k])}
           S == [i \in 0 .. n |-> {u \in States : CutOff(st, u, s, t, upto(i), e)}]
           Round(i, u) == MoveBelow(u, s, t, nm(i))
           g == [p \in (1 .. n) \X States |-> Round(p[1], p[2])]
           Loop(f) == f = [i \in 0 .. n |-> IF i = 0 THEN first ELSE Round(i, f[i - 1])]
<1>0. n \in Nat /\ \A i \in 1 .. n : nm(i) \in Seq(Nat)
  <2>1. Namespaces \in Seq(Nat)
    BY KeySetAssumption
  <2>2. n \in Nat /\ \A i \in 1 .. n : Namespaces[i] \in Nat
    BY <2>1, LenProperties, ElementOfSeq
  <2> QED
    BY <2>2, InPrefix
<1>1. s # t
  BY Constants DEF Fine
<1>2. CutOff(st, first, s, t, {}, e) /\ first \in States
  <2>1. CutOff(st, first, s, t, {}, e)
    BY CutOffFirst
  <2> HIDE DEF first
  <2> QED
    BY <2>1 DEF CutOff
<1> HIDE DEF first
<1>3. \A i \in 1 .. n : upto(i) = upto(i - 1) \cup {k \in X : IsPrefix(nm(i), NameOf[k])}
  <2> TAKE i \in 1 .. n
  <2>1. 1 .. i = (1 .. (i - 1)) \cup {i}
    BY <1>0
  <2> HIDE DEF nm, X
  <2> QED
    BY <2>1
<1>4. upto(0) = {}
  OBVIOUS
<1>5. upto(n) = {k \in X : IsPrefix(Tail(name), Tail(NameOf[k]))}
  <2>1. \A k \in X : k \in Keys
    <3>1. st.ks[s].keys \in Seq(Keys)
      BY FieldTypes DEF Fine
    <3> QED
      BY <3>1, ToSetProperties
  <2>2. \A k \in X : (\E j \in 1 .. n : IsPrefix(nm(j), NameOf[k])) <=> IsPrefix(Tail(name), Tail(NameOf[k]))
    BY <2>1, SomeNamespace
  <2> HIDE DEF nm, X, n
  <2> QED
    BY <2>2
<1> HIDE DEF upto
<1>7. \A i \in 1 .. n : \A u \in States :
         CutOff(st, u, s, t, upto(i - 1), e) => Round(i, u) \in States /\ CutOff(st, Round(i, u), s, t, upto(i), e)
  <2> TAKE i \in 1 .. n
  <2> SUFFICES ASSUME NEW u \in States, CutOff(st, u, s, t, upto(i - 1), e)
      PROVE  Round(i, u) \in States /\ CutOff(st, Round(i, u), s, t, upto(i), e)
    OBVIOUS
  <2> DEFINE a == nm(i)
             T == upto(i - 1)
             w == MoveBelow(u, s, t, a)
  <2>1. a \in Seq(Nat)
    BY <1>0
  <2>2. upto(i) = T \cup {k \in ToSet(st.ks[s].keys) : IsPrefix(a, NameOf[k])}
    BY <1>3
  <2>3. CutOff(st, u, s, t, T, e)
    OBVIOUS
  <2> HIDE DEF T, a
  <2>4. CutOff(st, w, s, t, T \cup {k \in ToSet(st.ks[s].keys) : IsPrefix(a, NameOf[k])}, e)
    BY <1>1, <2>1, <2>3, CutOffNext
  <2> HIDE DEF w
  <2>5. w \in States
    BY <2>4 DEF CutOff
  <2> QED
    BY <2>2, <2>4, <2>5 DEF w, a
<1>8. first \in S[0] /\ CutOff(st, first, s, t, upto(0), e)
  <2>1. CutOff(st, first, s, t, upto(0), e)
    BY <1>2, <1>4
  <2>2. 0 \in 0 .. n
    BY <1>0
  <2> QED
    BY <1>2, <2>1, <2>2
<1>9. \E f : Loop(f)
  <2>1. \A i \in 1 .. n : \A u \in S[i - 1] : g[<<i, u>>] \in S[i] /\ g[<<i, u>>] = Round(i, u)
    <3> TAKE i \in 1 .. n
    <3> TAKE u \in S[i - 1]
    <3>1. i - 1 \in 0 .. n /\ i \in 0 .. n
      BY <1>0
    <3>2. u \in States /\ CutOff(st, u, s, t, upto(i - 1), e)
      BY <3>1
    <3> HIDE DEF Round
    <3>3. g[<<i, u>>] = Round(i, u)
      BY <3>2
    <3> HIDE DEF g
    <3> QED
      BY <1>7, <3>1, <3>2, <3>3
  <2> HIDE DEF g, S, Round, n
  <2>2. \A i \in 1 .. n : \A u \in S[i - 1] : g[<<i, u>>] \in S[i]
    BY <2>1
  <2>3. n \in Nat
    BY <1>0
  <2>4. PICK f : IsLoop(f, n, first, g) /\ \A i \in 0 .. n : f[i] \in S[i]
    BY <1>8, <2>2, <2>3, LoopExists
  <2>5. \A i \in 1 .. n : g[<<i, f[i - 1]>>] = Round(i, f[i - 1])
    BY <2>1, <2>3, <2>4
  <2>6. \A i \in 0 .. n : (IF i = 0 THEN first ELSE Round(i, f[i - 1]))
                          = IF i = 0 THEN first ELSE g[<<i, f[i - 1]>>]
    BY <2>3, <2>5
  <2>7. Loop(f)
    BY <2>4, <2>6 DEF IsLoop
  <2> QED
    BY <2>7
<1> DEFINE f == CHOOSE f : Loop(f)
           P == {i \in 0 .. n : f[i] \in States /\ CutOff(st, f[i], s, t, upto(i), e)}
<1>10. Loop(f)
  BY <1>9
<1>11. ksCutCascading(st, s, t, name) = f[n]
  BY DEF ksCutCascading, first
<1> HIDE DEF f, n, Round, S, X
<1>12. n \in Nat
  BY <1>0
<1>13. f[0] = first /\ \A i \in 1 .. n : f[i] = Round(i, f[i - 1])
  BY <1>10, <1>12
<1>14. 0 \in P
  BY <1>2, <1>8, <1>12, <1>13
<1>15. \A i \in 1 .. n : i - 1 \in P => i \in P
  BY <1>7, <1>12, <1>13
<1>16. n \in P
  <2>1. n \in 0 .. n
    BY <1>12
  <2> HIDE DEF P
  <2> QED
    BY <1>12, <1>14, <1>15, <2>1, Induction
<1> QED
  BY <1>5, <1>11, <1>16 DEF X

-----------------------------------------------------------------------------
(* Operations on one keyset and what becomes of its cursor *)

\* y is a keyset with the keys of x.
SameKeys(x, y) == Fine(y) /\ y.keys = x.keys

\* The trail T tells where the cursor of y is, or the cursor is rewound.
Told(y, T) == Fine(y) /\ T \in Trails /\ (Rewound(y) \/ Tracks(y, T))

LEMMA RewindStep ==
    ASSUME NEW x, Fine(x)
    PROVE  SameKeys(x, ksRewind(x)) /\ Rewound(ksRewind(x))
<1> DEFINE y == ksRewind(x)
<1>0. x \in Keysets /\ SortedKeys(x.keys) /\ Room(x) /\ (x.keys # <<>> => x.behind = NULL)
  BY DEF Fine
<1>1. y \in Keysets /\ y.keys = x.keys /\ y.behind = x.behind /\ y.alloc = x.alloc /\ Rewound(y)
  BY <1>0, RewindProperties DEF Rewound
<1> HIDE DEF y
<1>2. Room(y)
  BY <1>0, <1>1 DEF Room, Size
<1>3. Fine(y)
  BY <1>0, <1>1, <1>2, RewoundFine
<1> QED
  BY <1>1, <1>3 DEF SameKeys, y

LEMMA SetCursorStep ==
    ASSUME NEW x, Fine(x), NEW c \in Nat
    PROVE  LET y == ksSetCursor(x, c)
           IN /\ SameKeys(x, y) /\ y.current = c /\ y.cursor = At(x, c)
              /\ c < Size(x) => OnKey(y) /\ y.cursor \in Keys
<1> DEFINE y == ksSetCursor(x, c)
<1>0. x \in Keysets /\ SortedKeys(x.keys) /\ Room(x) /\ (x.keys # <<>> => x.behind = NULL)
  BY DEF Fine
<1>1. c \in Int /\ c >= -1 /\ c # -1
  OBVIOUS
<1>2. /\ y \in Keysets /\ y.keys = x.keys /\ y.behind = x.behind /\ y.alloc = x.alloc
      /\ y.current = c /\ y.cursor = At(x, c)
  BY <1>0, <1>1, SetCursorProperties
<1>3. c < Size(x) => At(x, c) = x.keys[c + 1] /\ At(x, c) \in Keys
  BY <1>0, AtProperties
<1> HIDE DEF y
<1>4. Size(y) = Size(x)
  BY <1>2 DEF Size
<1>5. Fine(y)
  BY <1>0, <1>2, <1>3, <1>4 DEF Fine, Room, CursorAt
<1> QED
  BY <1>2, <1>3, <1>4, <1>5 DEF SameKeys, OnKey, y

\* y gets the cursor of x, which has the same keys: so ksCopy() does, and a lookup
\* in vain.
LEMMA CursorCopied ==
    ASSUME NEW x, Fine(x), NEW y, Fine(y), y.keys = x.keys, NEW T \in Trails, Tracks(x, T)
    PROVE  LET z == ksSetCursor(y, ksGetCursor(x))
           IN z.keys = x.keys /\ Told(z, T)
<1> DEFINE z == ksSetCursor(y, ksGetCursor(x))
           c == x.current
<1>0. x \in Keysets /\ CursorAt(x) /\ c \in Nat /\ Size(x) \in Nat /\ Size(y) = Size(x)
  BY FieldTypes DEF Fine, Size
<1>1. ASSUME x.cursor = NULL PROVE z.keys = x.keys /\ Told(z, T)
  <2>1. z = ksRewind(y)
    BY <1>1 DEF ksGetCursor, ksSetCursor
  <2> HIDE DEF z
  <2> QED
    BY <2>1, RewindStep DEF SameKeys, Told
<1>2. ASSUME x.cursor # NULL PROVE z.keys = x.keys /\ Told(z, T)
  <2>1. z = ksSetCursor(y, c)
    BY <1>2 DEF ksGetCursor
  <2> HIDE DEF z
  <2>2. SameKeys(y, z) /\ z.current = c /\ (c < Size(y) => OnKey(z))
    BY <1>0, <2>1, SetCursorStep
  <2>3. Fine(z) /\ z.keys = x.keys /\ Size(z) = Size(x)
    BY <1>0, <2>2 DEF SameKeys, Size
  <2>4. Tracks(z, T)
    <3> SUFFICES ASSUME T # Invalid
        PROVE  Tracks(z, T)
      BY DEF Tracks
    <3>1. c < Size(x)
      BY <1>0, <1>2 DEF Tracks
    <3>2. x.cursor = x.keys[c + 1]
      BY <1>0, <1>2, <3>1 DEF CursorAt
    <3>3. z.cursor = x.cursor
      BY <1>0, <2>2, <2>3, <3>1, <3>2 DEF OnKey
    <3> QED
      BY <2>2, <2>3, <3>3 DEF Tracks, Seen, Passed
  <2> QED
    BY <2>3, <2>4 DEF Told
<1> HIDE DEF z
<1>3. z.keys = x.keys /\ Told(z, T)
  BY <1>1, <1>2
<1> QED
  BY <1>3 DEF z

\* ksNext() comes past one key more, or to the end.
LEMMA NextStep ==
    ASSUME NEW x, Fine(x), NEW T \in Trails, Tracks(x, T)
    PROVE  LET y == ksNext(x)
               U == IF y = x \/ y.cursor = NULL \/ T \in {Moved, Invalid} THEN T ELSE T \cup {y.cursor}
           IN y.keys = x.keys /\ Told(y, U)
<1> DEFINE y == ksNext(x)
           U == IF y = x \/ y.cursor = NULL \/ T \in {Moved, Invalid} THEN T ELSE T \cup {y.cursor}
           n == Size(x)
           c == IF x.cursor = NULL THEN x.current ELSE x.current + 1
<1>0. /\ x \in Keysets /\ CursorAt(x) /\ x.current \in Nat /\ n \in Nat /\ x.keys \in Seq(Keys)
      /\ n = Len(x.keys) /\ SortedKeys(x.keys) /\ (x.keys # <<>> => x.behind = NULL) /\ NULL \notin Keys
  BY FieldTypes, Constants DEF Fine
<1>1. ASSUME x.current >= n PROVE y.keys = x.keys /\ Told(y, U)
  <2>1. y = x
    BY <1>1 DEF ksNext
  <2>2. U = T
    BY <2>1
  <2> HIDE DEF y, U
  <2> QED
    BY <2>1, <2>2 DEF Told
<1>2. ASSUME x.current < n PROVE y.keys = x.keys /\ Told(y, U)
  <2>1. y = ksSetCursor(x, c)
    BY <1>0, <1>2 DEF ksNext
  <2>2. c \in Nat /\ c <= n
    BY <1>0, <1>2
  <2>3. c = Passed(x)
    BY DEF Passed
  <2> HIDE DEF y, c
  <2>4. SameKeys(x, y) /\ y.current = c /\ y.cursor = At(x, c) /\ (c < n => OnKey(y) /\ y.cursor \in Keys)
    BY <2>1, <2>2, SetCursorStep
  <2>5. Size(y) = n /\ y.keys = x.keys
    BY <2>4 DEF SameKeys, Size
  <2>6. ASSUME c = n PROVE y.keys = x.keys /\ Told(y, U)
    <3>1. y.cursor = NULL
      <4>1. x.keys # <<>>
        BY <1>0, <1>2
      <4> QED
        BY <1>0, <2>2, <2>4, <2>6, <4>1, AtProperties
    <3>2. U = T
      BY <3>1
    <3>3. Passed(y) = Passed(x)
      BY <2>3, <2>4, <3>1 DEF Passed
    <3>4. Tracks(y, T)
      BY <1>0, <1>2, <2>5, <3>1, <3>3 DEF Tracks, Seen
    <3> HIDE DEF U
    <3> QED
      BY <2>4, <3>2, <3>4 DEF Told, SameKeys
  <2>7. ASSUME c < n PROVE y.keys = x.keys /\ Told(y, U)
    <3>1. y.cursor \in Keys /\ y.cursor # NULL /\ y.cursor = x.keys[c + 1] /\ c + 1 \in 1 .. n
      BY <1>0, <2>2, <2>4, <2>5, <2>7 DEF OnKey
    <3>2. ~(y.current >= Size(y)) /\ Passed(y) = c + 1
      BY <1>0, <2>2, <2>4, <2>5, <2>7, <3>1 DEF Passed
    <3>3. ASSUME T \in {Moved, Invalid} PROVE y.keys = x.keys /\ Told(y, U)
      <4>1. U = T
        BY <3>3
      <4> HIDE DEF U
      <4> QED
        BY <2>4, <3>2, <3>3, <4>1 DEF Tracks, Told, SameKeys
    <3>4. ASSUME T \notin {Moved, Invalid} PROVE y.keys = x.keys /\ Told(y, U)
      <4>0. T \in SUBSET Keys /\ Seen(x, T)
        BY <3>4 DEF Trails, Tracks
      <4>1. y # x
        <5>1. SUFFICES ASSUME y = x PROVE FALSE
          OBVIOUS
        <5>2. x.cursor # NULL
          BY <3>1, <5>1
        <5>3. c = x.current + 1
          BY <5>2 DEF c
        <5> QED
          BY <1>0, <2>4, <5>1, <5>3
      <4>2. U = T \cup {y.cursor}
        BY <3>1, <3>4, <4>1
      <4>3. Seen(y, T \cup {y.cursor})
        <5> SUFFICES ASSUME NEW i \in 1 .. n
            PROVE  x.keys[i] \in T \cup {y.cursor} <=> i <= c + 1
          BY <2>5, <3>2 DEF Seen
        <5>1. x.keys[i] \in T <=> i <= c
          BY <2>3, <4>0 DEF Seen
        <5>2. x.keys[i] = y.cursor <=> i = c + 1
          <6> DEFINE d == c + 1
          <6>1. d \in 1 .. n /\ y.cursor = x.keys[d]
            BY <3>1
          <6> HIDE DEF d
          <6>2. x.keys[i] = x.keys[d] => i = d
            BY <1>0, <6>1, SortedDistinct
          <6> QED
            BY <6>1, <6>2 DEF d
        <5> QED
          BY <1>0, <2>2, <5>1, <5>2
      <4>4. U \in SUBSET Keys
        BY <3>1, <4>0, <4>2
      <4> HIDE DEF U
      <4> QED
        BY <2>4, <3>2, <4>2, <4>3, <4>4 DEF Tracks, Trails, Told, SameKeys
    <3> QED
      BY <3>3, <3>4
  <2> QED
    BY <1>0, <2>2, <2>6, <2>7
<1> HIDE DEF y, U
<1>3. y.keys = x.keys /\ Told(y, U)
  BY <1>0, <1>1, <1>2
<1> QED
  BY <1>3 DEF y, U

\* The keys without the last one.
LEMMA FrontOut ==
    ASSUME NEW q \in Seq(Keys), q # <<>>
    PROVE  /\ Len(q) \in Nat /\ Len(q) > 0 /\ Last(q) = q[Len(q)] /\ Last(q) \in Keys
           /\ Front(q) = CutOut(q, Len(q) - 1, Len(q))
<1>1. Len(q) \in Nat /\ Len(q) > 0 /\ q[Len(q)] \in Keys
  BY LenProperties, EmptySeq, ElementOfSeq
<1>2. SubSeq(q, Len(q) + 1, Len(q)) = <<>>
  BY <1>1
<1>3. SubSeq(q, 1, Len(q) - 1) \o <<>> = SubSeq(q, 1, Len(q) - 1)
  <2>1. SubSeq(q, 1, Len(q) - 1) \in Seq(Keys)
    BY <1>1
  <2> QED
    BY <2>1
<1> QED
  BY <1>1, <1>2, <1>3 DEF Front, Last, CutOut

\* ksPop() takes the last key, and the cursor stays where it was.
LEMMA PopStep ==
    ASSUME NEW x, Fine(x), x.keys # <<>>, NEW T \in Trails, Tracks(x, T)
    PROVE  LET y == ksPop(x)
           IN /\ ToSet(y.keys) = ToSet(x.keys) \ {Last(x.keys)}
              /\ Told(y, IF x.cursor = Last(x.keys) THEN Invalid ELSE T)
<1> DEFINE y == ksPop(x)
           q == x.keys
           r == y.keys
           n == Len(q)
           m == n - 1
           l == Last(q)
           U == IF x.cursor = l THEN Invalid ELSE T
<1>0. /\ x \in Keysets /\ CursorAt(x) /\ x.current \in Nat /\ q \in Seq(Keys) /\ Room(x)
      /\ Size(x) = n /\ SortedKeys(q) /\ NULL \notin Keys
  BY FieldTypes, Constants DEF Fine
<1>1. n \in Nat /\ n > 0 /\ m \in 0 .. n /\ n \in m .. n /\ l = q[n] /\ l \in Keys /\ Front(q) = CutOut(q, m, n)
  BY <1>0, FrontOut
<1>2. /\ y \in Keysets /\ r = CutOut(q, m, n) /\ y.behind = NULL
      /\ y.current = x.current /\ y.cursor = x.cursor /\ Size(y) = n - 1 /\ Room(y)
  BY <1>0, <1>1, PopProperties
<1>3. SortedKeys(r) /\ ToSet(r) = ToSet(q) \ {q[i] : i \in (m + 1) .. n} /\ \A j \in 1 .. m : r[j] = q[j]
  <2> DEFINE g == Len(q)
             d == g - 1
  <2>1. g = n /\ d = m
    OBVIOUS
  <2> HIDE DEF g, d, y, q
  <2>2. q \in Seq(Keys) /\ d \in 0 .. Len(q) /\ g \in d .. Len(q)
    BY <1>0, <1>1, <2>1
  <2>3. /\ SortedKeys(CutOut(q, d, g))
        /\ ToSet(CutOut(q, d, g)) = ToSet(q) \ {q[i] : i \in (d + 1) .. g}
    BY <1>0, <2>2, CutOutSorted
  <2>4. \A j \in 1 .. d : CutOut(q, d, g)[j] = q[j]
    BY <2>2, CutOutProperties
  <2> QED
    BY <1>2, <2>1, <2>3, <2>4
<1> HIDE DEF y, q, r, l
<1>4. {q[i] : i \in (m + 1) .. n} = {l}
  BY <1>1
<1>5. CursorAt(y)
  BY <1>0, <1>1, <1>2, <1>3 DEF CursorAt, q, r
<1>6. Fine(y)
  BY <1>2, <1>3, <1>5 DEF Fine, r
<1>7. U \in Trails
  BY DEF Trails
<1>8. Tracks(y, U)
  <2> SUFFICES ASSUME x.cursor # l, T # Invalid
      PROVE  Tracks(y, T)
    BY DEF Tracks
  <2>1. x.current >= n => x.cursor = NULL
    BY <1>0 DEF Tracks
  <2>2. x.current >= m => x.cursor = NULL
    BY <1>0, <1>1, <2>1 DEF CursorAt, q
  <2>3. Passed(y) = Passed(x)
    BY <1>2 DEF Passed
  <2>4. T # Moved => Seen(y, T)
    <3> SUFFICES ASSUME T # Moved, NEW i \in 1 .. m
        PROVE  r[i] \in T <=> i <= Passed(x)
      BY <1>2, <2>3 DEF Seen, r
    <3>1. r[i] = q[i] /\ i \in 1 .. n
      BY <1>1, <1>3
    <3>2. Seen(x, T)
      BY DEF Tracks
    <3> QED
      BY <1>0, <3>1, <3>2 DEF Seen, q
  <2> QED
    BY <1>2, <2>2, <2>4 DEF Tracks
<1> HIDE DEF U
<1>9. ToSet(r) = ToSet(q) \ {l} /\ Told(y, U)
  BY <1>3, <1>4, <1>6, <1>7, <1>8 DEF Told
<1> QED
  BY <1>9 DEF y, q, r, l, U

\* elektraKsPopAtCursor() takes the key at a position, and rewinds.
LEMMA PopAtStep ==
    ASSUME NEW x, Fine(x), NEW c \in Nat, c < Size(x)
    PROVE  LET y == elektraKsPopAtCursor(x, c)
           IN Fine(y) /\ Rewound(y) /\ y.keys = CutOut(x.keys, c, c + 1) /\ y.behind = NULL
<1> DEFINE q == x.keys
           n == Len(q)
           k == q[c + 1]
           r == RemoveAt(q, c + 1)
           p == CutOut(q, c, c + 1)
           a == Append(r, k)
           w == [x EXCEPT !.keys = a]
           z == ksRewind(w)
           y == ksPop(z)
<1>0. /\ x \in Keysets /\ q \in Seq(Keys) /\ Room(x) /\ SortedKeys(q)
      /\ Size(x) = n /\ n \in Nat
  BY FieldTypes DEF Fine
<1>1. c \in 0 .. n /\ c + 1 \in c .. n /\ c + 1 \in 1 .. n /\ k \in Keys
  BY <1>0, KeyNames
<1>2. p \in Seq(Keys) /\ SortedKeys(p) /\ Len(p) = n - 1
  <2>1. Len(p) = n - ((c + 1) - c)
    BY <1>0, <1>1, CutOutSorted
  <2> QED
    BY <1>0, <1>1, <2>1, CutOutSorted
<1>3. r = p
  <2> DEFINE d == c + 1
  <2>1. d - 1 = c
    OBVIOUS
  <2> HIDE DEF d
  <2>2. RemoveAt(q, d) = CutOut(q, c, d)
    BY <2>1 DEF RemoveAt, CutOut
  <2> QED
    BY <2>2 DEF d
<1> HIDE DEF k, r, p
<1>4. a \in Seq(Keys) /\ Len(a) = n /\ a # <<>>
  BY <1>0, <1>1, <1>2, <1>3
<1>5. Front(a) = p
  <2>1. Len(a) = Len(p) + 1 /\ \A i \in 1 .. Len(p) : a[i] = p[i]
    BY <1>2, <1>3
  <2>2. Front(a) \in Seq(Keys) /\ Len(Front(a)) = Len(p) /\ \A i \in 1 .. Len(p) : Front(a)[i] = a[i]
    BY <1>2, <1>4, <2>1 DEF Front
  <2> QED
    BY <1>2, <2>1, <2>2
<1> HIDE DEF a
<1>6. /\ w \in Keysets /\ w.keys = a /\ w.alloc = x.alloc
  BY <1>0, <1>4 DEF Keysets
<1> HIDE DEF w
<1>7. z \in Keysets /\ z.keys = a /\ z.alloc = x.alloc /\ Rewound(z)
  BY <1>6, RewindProperties DEF Rewound
<1> HIDE DEF z
<1>8. Room(z)
  BY <1>0, <1>4, <1>7 DEF Room, Size
<1>9. /\ y \in Keysets /\ y.keys = p /\ y.behind = NULL
      /\ y.current = z.current /\ y.cursor = z.cursor /\ Room(y)
  BY <1>4, <1>5, <1>7, <1>8, PopProperties
<1> HIDE DEF y
<1>10. Rewound(y)
  BY <1>7, <1>9 DEF Rewound
<1>11. Fine(y)
  BY <1>2, <1>9, <1>10, RewoundFine
<1>12. y = elektraKsPopAtCursor(x, c)
  BY DEF y, z, w, a, r, k, elektraKsPopAtCursor
<1> QED
  BY <1>9, <1>10, <1>11, <1>12 DEF p

LEMMA OneOut ==
    ASSUME NEW q \in Seq(Keys), SortedKeys(q), NEW c \in Nat, c < Len(q)
    PROVE  LET p == CutOut(q, c, c + 1)
           IN /\ p \in Seq(Keys) /\ Len(p) = Len(q) - 1 /\ ToSet(p) = ToSet(q) \ {q[c + 1]}
              /\ \A i \in 1 .. c : p[i] = q[i]
              /\ \A i \in (c + 1) .. (Len(q) - 1) : p[i] = q[i + 1]
<1> DEFINE d == c + 1
           p == CutOut(q, c, d)
<1>0. Len(q) \in Nat
  BY LenProperties
<1>1. c \in 0 .. Len(q) /\ d \in c .. Len(q) /\ d - c = 1 /\ d \in Nat
  BY <1>0
<1>2. {q[i] : i \in (c + 1) .. d} = {q[d]}
  BY <1>1
<1> HIDE DEF d
<1>3. /\ p \in Seq(Keys) /\ Len(p) = Len(q) - (d - c) /\ ToSet(p) = ToSet(q) \ {q[i] : i \in (c + 1) .. d}
  <2>1. ToSet(p) = ToSet(q) \ {q[i] : i \in (c + 1) .. d}
    BY <1>1, CutOutSorted
  <2>2. p \in Seq(Keys) /\ Len(p) = Len(q) - (d - c)
    BY <1>1, CutOutProperties
  <2> QED
    BY <2>1, <2>2
<1>4. /\ \A j \in 1 .. c : p[j] = q[j]
      /\ \A j \in (c + 1) .. (Len(q) - (d - c)) : p[j] = q[j + (d - c)]
  BY <1>1, CutOutProperties
<1> HIDE DEF p
<1>5. /\ p \in Seq(Keys) /\ Len(p) = Len(q) - 1 /\ ToSet(p) = ToSet(q) \ {q[d]}
      /\ \A i \in 1 .. c : p[i] = q[i]
      /\ \A i \in (c + 1) .. (Len(q) - 1) : p[i] = q[i + 1]
  BY <1>1, <1>2, <1>3, <1>4
<1> QED
  BY <1>5 DEF p, d

\* elektraDropCurrentKey() takes the key at the cursor, and ksNext() will go on
\* with the key after it.
LEMMA DropStep ==
    ASSUME NEW x, Fine(x), NEW c \in Nat, c = x.current, c < Size(x), x.cursor # NULL,
           NEW T \in Trails, Tracks(x, T)
    PROVE  LET y == elektraKsPrev(ksSetCursor(elektraKsPopAtCursor(x, c), c))
           IN /\ x.cursor = x.keys[c + 1] /\ y.keys = CutOut(x.keys, c, c + 1)
              /\ Told(y, T)
<1> DEFINE q == x.keys
           n == Len(q)
           p == CutOut(q, c, c + 1)
           z == elektraKsPopAtCursor(x, c)
           v == ksSetCursor(z, c)
           y == elektraKsPrev(v)
           d == c - 1
<1>0. /\ x \in Keysets /\ q \in Seq(Keys) /\ SortedKeys(q) /\ CursorAt(x)
      /\ Size(x) = n /\ n \in Nat
  BY FieldTypes DEF Fine
<1>1. x.cursor = q[c + 1]
  BY <1>0 DEF CursorAt
<1>2. /\ p \in Seq(Keys) /\ Len(p) = n - 1
      /\ \A i \in 1 .. c : p[i] = q[i]
      /\ \A i \in (c + 1) .. (n - 1) : p[i] = q[i + 1]
  BY <1>0, OneOut
<1>3. Fine(z) /\ Rewound(z) /\ z.keys = p /\ z.behind = NULL
  BY PopAtStep
<1> HIDE DEF z, p
<1>4. SameKeys(z, v) /\ v.current = c /\ v.cursor = At(z, c)
  BY <1>3, SetCursorStep
<1> HIDE DEF v
<1>5. Fine(v) /\ v.keys = p /\ Size(v) = n - 1 /\ Size(z) = n - 1 /\ z \in Keysets
  BY <1>2, <1>3, <1>4 DEF SameKeys, Size, Fine
<1>6. ASSUME n = 1 PROVE Fine(y) /\ Rewound(y) /\ y.keys = p
  <2>1. y = v /\ c = 0
    BY <1>0, <1>5, <1>6 DEF elektraKsPrev
  <2>2. At(z, c) = NULL
    BY <1>3, <1>5, <1>6, <2>1, AtProperties
  <2> HIDE DEF y
  <2> QED
    BY <1>4, <1>5, <2>1, <2>2 DEF Rewound
<1>7. ASSUME n # 1, c = 0 PROVE Fine(y) /\ Rewound(y) /\ y.keys = p
  <2>1. y = ksRewind(v)
    <3>1. v.current - 1 = -1 /\ Size(v) # 0
      BY <1>0, <1>4, <1>5, <1>7
    <3> QED
      BY <3>1 DEF elektraKsPrev, ksSetCursor
  <2> HIDE DEF y
  <2> QED
    BY <1>5, <2>1, RewindStep DEF SameKeys
<1>8. ASSUME n # 1, c # 0 PROVE Fine(y) /\ Tracks(y, T) /\ y.keys = p
  <2>1. y = ksSetCursor(v, d)
    BY <1>0, <1>4, <1>5, <1>8 DEF elektraKsPrev
  <2>2. d \in Nat /\ d < n - 1 /\ d + 1 = c
    BY <1>0, <1>8
  <2> HIDE DEF y, d
  <2>3. SameKeys(v, y) /\ y.current = d /\ OnKey(y) /\ y.cursor \in Keys
    BY <1>5, <2>1, <2>2, SetCursorStep
  <2>4. y.keys = p /\ Fine(y) /\ Size(y) = n - 1
    BY <1>2, <1>5, <2>3 DEF SameKeys, Size
  <2>5. Passed(y) = c /\ Passed(x) = c + 1
    BY <2>2, <2>3, Constants DEF Passed
  <2>6. T # Invalid /\ T # Moved => Seen(y, T)
    <3> SUFFICES ASSUME T # Invalid /\ T # Moved, NEW i \in 1 .. (n - 1)
        PROVE  p[i] \in T <=> i <= c
      BY <2>4, <2>5 DEF Seen
    <3>1. \A j \in 1 .. n : q[j] \in T <=> j <= c + 1
      BY <1>0, <2>5 DEF Tracks, Seen
    <3>2. CASE i <= c
      BY SMTT(20), <1>0, <1>2, <3>1, <3>2
    <3>3. CASE i > c
      <4>1. p[i] = q[i + 1] /\ i + 1 \in 1 .. n
        BY <1>0, <1>2, <3>3
      <4> QED
        BY <3>1, <3>3, <4>1
    <3> QED
      BY <1>0, <3>2, <3>3
  <2>7. ~(y.current >= Size(y))
    BY <1>0, <2>2, <2>3, <2>4
  <2> QED
    BY <2>4, <2>6, <2>7 DEF Tracks
<1> HIDE DEF y
<1>9. Told(y, T) /\ y.keys = p
  BY <1>6, <1>7, <1>8 DEF Told
<1> QED
  BY <1>1, <1>9 DEF y, v, z, p

-----------------------------------------------------------------------------
(* What becomes of the reference counters when a keyset loses keys *)

\* A key that is taken from a keyset loses a reference, and is not freed.
LEMMA CountsTaken ==
    ASSUME NEW st \in States, NEW u \in States, NEW s \in Sets, NEW e \in [Keys -> Nat],
           Counted(st, e), \A t \in Sets \ {s} : u.ks[t] = st.ks[t],
           NEW k \in Keys, Holds(st.ks, s, k),
           \A j \in Keys : Holds(u.ks, s, j) <=> Holds(st.ks, s, j) /\ j # k,
           u.ref = keyDecRef(st.ref, k)
    PROVE  Counted(u, e) /\ LiveAfter(st, u, {}, e)
<1> DEFINE f == st.ks
           g == u.ks
<1>0. st.ref \in [Keys -> Int] /\ u.ref \in [Keys -> Int] /\ e \in [Keys -> Nat]
  BY StateTypes
<1>1. \A j \in Keys : Count(f, j) \in Nat /\ Count(g, j) \in Nat /\ e[j] \in Nat
  BY CountTypes
<1> HIDE DEF f, g
<1>2. \A j \in Keys \ {k} : Count(g, j) = Count(f, j)
  BY CountChange DEF f, g
<1>3. Count(g, k) = Count(f, k) - 1
  BY CountChange DEF f, g
<1>4. \A j \in Keys : IF st.ref[j] # Freed THEN st.ref[j] = Count(f, j) + e[j]
                      ELSE Count(f, j) = 0 /\ e[j] = 0
  BY DEF Counted, f
<1>5. st.ref[k] # Freed /\ st.ref[k] = Count(f, k) + e[k] /\ Count(f, k) > 0
  BY <1>1, <1>3, <1>4
<1>6. u.ref[k] = st.ref[k] - 1 /\ \A j \in Keys \ {k} : u.ref[j] = st.ref[j]
  BY <1>0, <1>1, <1>5 DEF keyDecRef
<1>7. u.ref[k] # Freed
  BY <1>1, <1>5, <1>6 DEF Freed
<1>8. u.ref[k] = Count(g, k) + e[k]
  BY <1>1, <1>3, <1>5, <1>6
<1>9. \A j \in Keys : IF u.ref[j] # Freed THEN u.ref[j] = Count(g, j) + e[j]
                      ELSE Count(g, j) = 0 /\ e[j] = 0
  BY <1>2, <1>4, <1>6, <1>7, <1>8
<1>10. \A j \in Keys : u.ref[j] # Freed <=> st.ref[j] # Freed
  BY <1>5, <1>6, <1>7
<1> QED
  BY <1>9, <1>10 DEF Counted, LiveAfter, g

\* Those that are dropped lose a reference, and are freed if it was the last.
LEMMA CountsDropped ==
    ASSUME NEW st \in States, NEW u \in States, NEW s \in Sets, NEW e \in [Keys -> Nat],
           Counted(st, e), \A t \in Sets \ {s} : u.ks[t] = st.ks[t],
           NEW D, \A k \in Keys : k \in D => Holds(st.ks, s, k),
           \A k \in Keys : Holds(u.ks, s, k) <=> Holds(st.ks, s, k) /\ k \notin D,
           u.ref = Dropped(st.ref, D)
    PROVE  Counted(u, e) /\ LiveAfter(st, u, D, e)
<1>1. \A k \in Keys : u.ref[k] = IF k \in D THEN IF st.ref[k] > 1 THEN st.ref[k] - 1 ELSE Freed
                                 ELSE st.ref[k]
  BY DEF Dropped
<1>2. \A k \in Keys :
        /\ (Holds(st.ks, s, k) <=> Holds(u.ks, s, k)) => u.ref[k] = st.ref[k]
        /\ ~Holds(st.ks, s, k) /\ Holds(u.ks, s, k) =>
              st.ref[k] # Freed /\ u.ref[k] = st.ref[k] + 1
        /\ Holds(st.ks, s, k) /\ ~Holds(u.ks, s, k) =>
              u.ref[k] = IF st.ref[k] > 1 THEN st.ref[k] - 1 ELSE Freed
  BY <1>1
<1>3. \A k \in Keys : Holds(st.ks, s, k) /\ ~Holds(u.ks, s, k) => k \in D
  OBVIOUS
<1> QED
  BY <1>2, <1>3, CountsFollow

-----------------------------------------------------------------------------
(* The inductive invariant *)

\* The references that applications have to the keys of o.
Refs(o) == [k \in Keys |-> IF k \in o THEN 1 ELSE 0]

Good(st, o, tr) ==
    /\ st \in States /\ o \in SUBSET Keys /\ tr \in [Sets -> Trails]
    /\ \A s \in Sets : st.ks[s] # Gone => Fine(st.ks[s]) /\ Tracks(st.ks[s], tr[s])
    /\ Counted(st, Refs(o))

Inv == Good(State, own, trail)

\* An operation has made u of st by changing the keyset s: it has the keys S
\* now, the trail T tells where its cursor is, and the keys of D that have no
\* reference left are freed.
Changed(st, u, s, S, T, D, e) ==
    /\ u \in States /\ u.ks = [st.ks EXCEPT ![s] = u.ks[s]]
    /\ Told(u.ks[s], T) /\ ToSet(u.ks[s].keys) = S
    /\ Counted(u, e) /\ LiveAfter(st, u, D, e)

LEMMA RefsType ==
    ASSUME NEW o \in SUBSET Keys
    PROVE  Refs(o) \in [Keys -> Nat] /\ \A k \in Keys : Refs(o)[k] = IF k \in o THEN 1 ELSE 0
  BY DEF Refs

LEMMA ToldFine ==
    ASSUME NEW y, NEW T, Told(y, T)
    PROVE  /\ Fine(y) /\ y \in Keysets /\ y # Gone
           /\ From(y, T) \in Trails /\ Tracks(y, From(y, T))
<1>1. Fine(y) /\ T \in Trails /\ (Rewound(y) \/ Tracks(y, T))
  BY DEF Told
<1>2. y \in Keysets
  BY <1>1 DEF Fine
<1> QED
  BY <1>1, <1>2, FromTracks, Constants

LEMMA ChangedGood ==
    ASSUME NEW st, NEW o, NEW tr, Good(st, o, tr), NEW s \in Sets,
           NEW u, NEW S, NEW T, NEW D, Changed(st, u, s, S, T, D, Refs(o))
    PROVE  Good(u, o, [tr EXCEPT ![s] = From(u.ks[s], T)])
<1> DEFINE y == u.ks[s]
           F == From(y, T)
           w == [tr EXCEPT ![s] = F]
<1>1. /\ st \in States /\ o \in SUBSET Keys /\ tr \in [Sets -> Trails]
      /\ \A r \in Sets : st.ks[r] # Gone => Fine(st.ks[r]) /\ Tracks(st.ks[r], tr[r])
  BY DEF Good
<1>2. u \in States /\ u.ks = [st.ks EXCEPT ![s] = y] /\ Told(y, T) /\ Counted(u, Refs(o))
  BY DEF Changed
<1>3. Fine(y) /\ F \in Trails /\ Tracks(y, F)
  BY <1>2, ToldFine
<1>4. st.ks \in [Sets -> Keysets \cup {Gone}]
  BY <1>1, StateTypes
<1> HIDE DEF F, y
<1>5. w \in [Sets -> Trails] /\ w[s] = F /\ \A r \in Sets \ {s} : w[r] = tr[r]
  BY <1>1, <1>3
<1>6. \A r \in Sets \ {s} : u.ks[r] = st.ks[r]
  BY <1>2, <1>4
<1> HIDE DEF w
<1>7. ASSUME NEW r \in Sets, u.ks[r] # Gone
      PROVE  Fine(u.ks[r]) /\ Tracks(u.ks[r], w[r])
  <2>1. CASE r = s
    BY <1>3, <1>5, <2>1 DEF y
  <2>2. CASE r # s
    BY <1>1, <1>5, <1>6, <1>7, <2>2
  <2> QED
    BY <2>1, <2>2
<1>8. Good(u, o, w)
  BY <1>1, <1>2, <1>5, <1>7 DEF Good
<1> QED
  BY <1>8 DEF w, F, y

\* Nothing but the cursor or the array of a keyset has changed.
LEMMA OnlyChanged ==
    ASSUME NEW st, NEW o, NEW tr, Good(st, o, tr), NEW s \in Sets, st.ks[s] # Gone,
           NEW x, NEW T, Told(x, T), x.keys = st.ks[s].keys
    PROVE  Changed(st, With(st, s, x), s, ToSet(st.ks[s].keys), T, {}, Refs(o))
<1> DEFINE u == With(st, s, x)
           f == st.ks
           g == u.ks
           e == Refs(o)
<1>1. st \in States /\ o \in SUBSET Keys /\ Counted(st, e) /\ x \in Keysets /\ x # Gone
  BY ToldFine DEF Good
<1>2. f \in [Sets -> Keysets \cup {Gone}] /\ u \in States /\ g = [f EXCEPT ![s] = x] /\ u.ref = st.ref
  BY <1>1, StateTypes, WithProperties
<1> HIDE DEF u, e
<1>3. g[s] = x /\ \A t \in Sets \ {s} : g[t] = f[t]
  BY <1>2
<1>4. ASSUME NEW k
      PROVE  Count(g, k) = Count(f, k)
  <2>1. Holds(f, s, k) <=> Holds(g, s, k)
    BY <1>1, <1>3 DEF Holds
  <2> HIDE DEF f, g
  <2> QED
    BY <1>3, <2>1, CountChange
<1>5. Counted(u, e) /\ LiveAfter(st, u, {}, e)
  BY <1>1, <1>2, <1>4 DEF Counted, LiveAfter
<1> QED
  BY <1>2, <1>3, <1>5 DEF Changed, u, e

-----------------------------------------------------------------------------
(* What each operation makes of a good state *)

LEMMA GoodFacts ==
    ASSUME NEW st, NEW o, NEW tr, Good(st, o, tr)
    PROVE  /\ st \in States /\ st.ks \in [Sets -> Keysets \cup {Gone}] /\ st.ref \in [Keys -> Int]
           /\ Refs(o) \in [Keys -> Nat] /\ Counted(st, Refs(o))
           /\ \A s \in Sets : /\ tr[s] \in Trails
                              /\ st.ks[s] # Gone => /\ Fine(st.ks[s]) /\ Tracks(st.ks[s], tr[s])
                                                    /\ Told(st.ks[s], tr[s])
                                                    /\ ToSet(st.ks[s].keys) \in SUBSET Keys
<1>1. /\ st \in States /\ o \in SUBSET Keys /\ tr \in [Sets -> Trails] /\ Counted(st, Refs(o))
      /\ \A s \in Sets : st.ks[s] # Gone => Fine(st.ks[s]) /\ Tracks(st.ks[s], tr[s])
  BY DEF Good
<1>2. \A s \in Sets : tr[s] \in Trails
  BY <1>1
<1>3. ASSUME NEW s \in Sets, st.ks[s] # Gone
      PROVE  ToSet(st.ks[s].keys) \in SUBSET Keys
  <2>1. st.ks[s].keys \in Seq(Keys)
    BY <1>1, <1>3, FieldTypes DEF Fine
  <2> QED
    BY <2>1, ToSetProperties
<1> QED
  BY <1>1, <1>2, <1>3, StateTypes, RefsType DEF Told

LEMMA EmptyToSet ==
    ToSet(<<>>) = {}
<1>1. <<>> \in Seq(Keys) /\ Len(<<>>) = 0
  OBVIOUS
<1>2. \A x : x \in ToSet(<<>>) <=> \E i \in 1 .. Len(<<>>) : <<>>[i] = x
  BY <1>1, ToSetProperties
<1> QED
  BY <1>1, <1>2

\* A keyset that was not allocated: nothing held before, T now.
LEMMA NewChanged ==
    ASSUME NEW st, NEW o, NEW tr, Good(st, o, tr), NEW s \in Sets, st.ks[s] = Gone, NEW h \in Nat
    PROVE  Changed(st, With(st, s, ksNew(h)), s, {}, {}, {}, Refs(o))
<1> DEFINE x == ksNew(h)
           u == With(st, s, x)
           f == st.ks
           g == u.ks
           e == Refs(o)
<1>0. st \in States /\ f \in [Sets -> Keysets \cup {Gone}] /\ Counted(st, e)
  BY GoodFacts
<1>1. x \in Keysets /\ x.keys = <<>> /\ x.current = 0 /\ x.cursor = NULL /\ Room(x)
  BY NewProperties
<1>2. SortedKeys(x.keys)
  BY <1>1 DEF SortedKeys
<1> HIDE DEF x, e
<1>3. Rewound(x)
  BY <1>1 DEF Rewound
<1>4. Fine(x)
  BY <1>1, <1>2, <1>3, RewoundFine
<1>5. Told(x, {})
  BY <1>3, <1>4 DEF Told, Trails
<1>6. u \in States /\ g = [f EXCEPT ![s] = x] /\ u.ref = st.ref
  BY <1>0, <1>1, WithProperties
<1>7. ToSet(x.keys) = {}
  BY <1>1, EmptyToSet
<1> HIDE DEF u
<1>8. g[s] = x /\ \A t \in Sets \ {s} : g[t] = f[t]
  BY <1>0, <1>6
<1>9. ASSUME NEW k
      PROVE  Count(g, k) = Count(f, k)
  <2>1. Holds(f, s, k) <=> Holds(g, s, k)
    BY <1>7, <1>8 DEF Holds
  <2> HIDE DEF f, g
  <2> QED
    BY <1>8, <2>1, CountChange
<1>10. Counted(u, e) /\ LiveAfter(st, u, {}, e)
  BY <1>0, <1>6, <1>9 DEF Counted, LiveAfter
<1> QED
  BY <1>5, <1>6, <1>7, <1>8, <1>10 DEF Changed, u, e, x

\* A keyset and the reference counters change at once.
Both(st, u, s, y, r) ==
    u = [st EXCEPT !.ks[s] = y, !.ref = r] \/ u = [st EXCEPT !.ref = r, !.ks[s] = y]

LEMMA BothSet ==
    ASSUME NEW st \in States, NEW s \in Sets, NEW y \in Keysets \cup {Gone}, NEW r \in [Keys -> Int],
           NEW u, Both(st, u, s, y, r)
    PROVE  /\ u \in States /\ u.ks = [st.ks EXCEPT ![s] = y] /\ u.ref = r
           /\ u.ks[s] = y /\ \A t \in Sets \ {s} : u.ks[t] = st.ks[t]
<1>1. u \in States /\ u.ks = [st.ks EXCEPT ![s] = y] /\ u.ref = r
  <2>1. CASE u = [st EXCEPT !.ks[s] = y, !.ref = r]
    BY <2>1 DEF States
  <2>2. CASE u = [st EXCEPT !.ref = r, !.ks[s] = y]
    BY <2>2 DEF States
  <2> QED
    BY <2>1, <2>2 DEF Both
<1>2. st.ks \in [Sets -> Keysets \cup {Gone}]
  BY StateTypes
<1> QED
  BY <1>1, <1>2

LEMMA ClearChanged ==
    ASSUME NEW st, NEW o, NEW tr, Good(st, o, tr), NEW s \in Sets, st.ks[s] # Gone
    PROVE  LET u == ksClear(st, s)
           IN /\ Changed(st, u, s, {}, {}, ToSet(st.ks[s].keys), Refs(o))
              /\ u.ks[s].keys = <<>> /\ u.ks[s].cursor = NULL
<1> DEFINE f == st.ks
           x == f[s]
           q == x.keys
           D == ToSet(q)
           y == [keys |-> <<>>, behind |-> Junk, alloc |-> KEYSET_SIZE, current |-> Size(x), cursor |-> NULL]
           u == ksClear(st, s)
           g == u.ks
           e == Refs(o)
<1>0. /\ st \in States /\ f \in [Sets -> Keysets \cup {Gone}] /\ st.ref \in [Keys -> Int]
      /\ Counted(st, e) /\ e \in [Keys -> Nat] /\ Fine(x)
  BY GoodFacts
<1>1. x \in Keysets /\ q \in Seq(Keys) /\ SortedKeys(q) /\ Size(x) \in Nat
  BY <1>0, FieldTypes DEF Fine
<1>2. u = [st EXCEPT !.ref = Unref(st.ref, q), !.ks[s] = y]
  BY DEF ksClear
<1>3. Unref(st.ref, q) = Dropped(st.ref, D) /\ Dropped(st.ref, D) \in [Keys -> Int]
  BY <1>0, <1>1, UnrefDrops, DropType
<1>4. y \in Keysets
  BY <1>1, Constants DEF Keysets
<1>5. Size(y) = 0 /\ y.keys = <<>> /\ y.cursor = NULL /\ y.alloc = KEYSET_SIZE /\ y.current \in Nat
  BY <1>1 DEF Size
<1> HIDE DEF y, u, e, D
<1>6. Fine(y)
  <2>1. SortedKeys(y.keys)
    BY <1>5 DEF SortedKeys
  <2>2. Room(y)
    BY <1>5, Constants DEF Room
  <2>3. CursorAt(y)
    BY <1>5 DEF CursorAt
  <2> QED
    BY <1>4, <1>5, <2>1, <2>2, <2>3 DEF Fine
<1>7. Told(y, {})
  <2>1. Seen(y, {})
    BY <1>5 DEF Seen
  <2> QED
    BY <1>5, <1>6, <2>1 DEF Told, Trails, Tracks
<1>8. /\ u \in States /\ g = [f EXCEPT ![s] = y] /\ u.ref = Dropped(st.ref, D)
  <2> DEFINE r == Dropped(st.ref, D)
  <2>0. st \in States /\ r \in [Keys -> Int] /\ y \in Keysets \cup {Gone}
    BY <1>0, <1>3, <1>4
  <2>1. u = [st EXCEPT !.ref = r, !.ks[s] = y]
    BY <1>2, <1>3
  <2> HIDE DEF r, f
  <2>2. Both(st, u, s, y, r)
    BY <2>1 DEF Both
  <2>3. u \in States /\ u.ks = [st.ks EXCEPT ![s] = y] /\ u.ref = r
    BY <2>0, <2>2, BothSet
  <2> QED
    BY <2>3 DEF f, r
<1>9. g[s] = y /\ \A t \in Sets \ {s} : g[t] = f[t]
  BY <1>0, <1>8
<1>10. ToSet(y.keys) = {}
  BY <1>5, EmptyToSet
<1>11. \A k \in Keys : k \in D => Holds(f, s, k)
  BY DEF Holds, D
<1>12. \A k \in Keys : Holds(g, s, k) <=> Holds(f, s, k) /\ k \notin D
  BY <1>9, <1>10 DEF Holds, D
<1>13. Counted(u, e) /\ LiveAfter(st, u, D, e)
  BY <1>0, <1>8, <1>9, <1>11, <1>12, CountsDropped
<1>14. Changed(st, u, s, {}, {}, D, e) /\ g[s].keys = <<>> /\ g[s].cursor = NULL
  BY <1>5, <1>7, <1>8, <1>9, <1>10, <1>13 DEF Changed
<1> QED
  BY <1>14 DEF u, D, e

LEMMA AppendKeyChanged ==
    ASSUME NEW st, NEW o, NEW tr, Good(st, o, tr), NEW s \in Sets, st.ks[s] # Gone,
           NEW k \in Keys, st.ref[k] # Freed
    PROVE  LET u == ksAppendKey(st, s, k)
               X == ToSet(st.ks[s].keys)
           IN Changed(st, u, s, Over(X, {k}), IF u.ks[s].keys = st.ks[s].keys THEN tr[s] ELSE Moved,
                      X, Refs(o))
<1> DEFINE u == ksAppendKey(st, s, k)
           x == st.ks[s]
           y == u.ks[s]
           X == ToSet(x.keys)
           U == IF y.keys = x.keys THEN tr[s] ELSE Moved
           e == Refs(o)
<1>0. /\ st \in States /\ Counted(st, e) /\ e \in [Keys -> Nat] /\ Fine(x)
      /\ Told(x, tr[s])
  BY GoodFacts
<1>1. PutIn(st, u, s, k)
  BY <1>0, AppendKeyProperties
<1> HIDE DEF e
<1>2. Counted(u, e) /\ LiveAfter(st, u, X, e)
  BY <1>0, AppendKeyCounted
<1> HIDE DEF u
<1>3. u \in States /\ Fine(y) /\ u.ks = [st.ks EXCEPT ![s] = y] /\ ToSet(y.keys) = Over(X, {k})
  BY <1>1 DEF PutIn
<1>4. Told(y, U)
  <2>1. ASSUME k \in X PROVE Told(y, U)
    <3>1. u = st
      BY <1>1, <2>1 DEF PutIn
    <3> QED
      BY <1>0, <3>1
  <2>2. ASSUME k \notin X PROVE Told(y, U)
    <3>1. OnKey(y)
      BY <1>1, <2>2 DEF PutIn
    <3>2. k \in ToSet(y.keys)
      BY <1>3 DEF Over
    <3>3. U = Moved
      BY <2>2, <3>2
    <3>4. y \in Keysets
      BY <1>3 DEF Fine
    <3> HIDE DEF U, y, X
    <3> QED
      BY <1>3, <3>1, <3>3, <3>4, OnKeyTracks DEF Told, Trails
  <2> QED
    BY <2>1, <2>2
<1> HIDE DEF U
<1>5. Changed(st, u, s, Over(X, {k}), U, X, e)
  BY <1>2, <1>3, <1>4 DEF Changed
<1> QED
  BY <1>5 DEF U, u, e

LEMMA AppendChanged ==
    ASSUME NEW st, NEW o, NEW tr, Good(st, o, tr), NEW s \in Sets, st.ks[s] # Gone,
           NEW q \in Seq(Keys), SortedKeys(q), \A k \in ToSet(q) : Held(st.ks, s, k, Refs(o))
    PROVE  LET u == ksAppend(st, s, q)
               X == ToSet(st.ks[s].keys)
           IN Changed(st, u, s, Over(X, ToSet(q)),
                      IF u.ks[s].keys = st.ks[s].keys THEN tr[s] ELSE Moved, X, Refs(o))
<1> DEFINE u == ksAppend(st, s, q)
           x == st.ks[s]
           y == u.ks[s]
           X == ToSet(x.keys)
           Q == ToSet(q)
           U == IF y.keys = x.keys THEN tr[s] ELSE Moved
           e == Refs(o)
<1>0. /\ st \in States /\ Counted(st, e) /\ e \in [Keys -> Nat] /\ Fine(x)
      /\ Tracks(x, tr[s]) /\ tr[s] \in Trails
  BY GoodFacts
<1> HIDE DEF e
<1>1. Merged(st, u, s, Q, e)
  <2>1. \A k \in ToSet(q) : Held(st.ks, s, k, e)
    BY DEF e
  <2> QED
    BY <1>0, <2>1, KsAppendProperties
<1> HIDE DEF u
<1>2. /\ u \in States /\ Fine(y) /\ u.ks = [st.ks EXCEPT ![s] = y] /\ ToSet(y.keys) = Over(X, Q)
      /\ Counted(u, e) /\ LiveAfter(st, u, X, e)
  BY <1>1 DEF Merged
<1>3. Told(y, U)
  <2>1. ASSUME Q \subseteq X PROVE Told(y, U)
    <3>1. SameBut(y, x)
      BY <1>1, <2>1 DEF Merged
    <3>2. U = tr[s]
      BY <3>1 DEF SameBut
    <3> HIDE DEF U, y
    <3> QED
      BY <1>0, <1>2, <3>1, <3>2, SameTracks DEF Told
  <2>2. ASSUME ~(Q \subseteq X) PROVE Told(y, U)
    <3>1. OnKey(y)
      BY <1>1, <2>2 DEF Merged
    <3>2. Q \subseteq ToSet(y.keys)
      BY <1>2 DEF Over
    <3>3. U = Moved
      BY <2>2, <3>2
    <3>4. y \in Keysets
      BY <1>2 DEF Fine
    <3> HIDE DEF U, y, X
    <3> QED
      BY <1>2, <3>1, <3>3, <3>4, OnKeyTracks DEF Told, Trails
  <2> QED
    BY <2>1, <2>2
<1> HIDE DEF U, Q
<1>4. Changed(st, u, s, Over(X, Q), U, X, e)
  BY <1>2, <1>3 DEF Changed
<1> QED
  BY <1>4 DEF U, u, e, Q

LEMMA PopChanged ==
    ASSUME NEW st, NEW o, NEW tr, Good(st, o, tr), NEW s \in Sets, st.ks[s] # Gone,
           NEW k \in Keys, k \in ToSet(st.ks[s].keys), NEW y, NEW T, Told(y, T),
           ToSet(y.keys) = ToSet(st.ks[s].keys) \ {k}
    PROVE  LET u == [st EXCEPT !.ks[s] = y, !.ref = keyDecRef(@, k)]
           IN Changed(st, u, s, ToSet(st.ks[s].keys) \ {k}, T, {}, Refs(o))
<1> DEFINE r == keyDecRef(st.ref, k)
           u == [st EXCEPT !.ks[s] = y, !.ref = keyDecRef(@, k)]
           e == Refs(o)
           X == ToSet(st.ks[s].keys)
<1>0. st \in States /\ Counted(st, e) /\ e \in [Keys -> Nat] /\ st.ref \in [Keys -> Int]
  BY GoodFacts
<1>1. r \in [Keys -> Int]
  BY <1>0, RefTypes
<1>2. y \in Keysets \cup {Gone} /\ y # Gone
  BY ToldFine
<1>3. Both(st, u, s, y, r)
  BY DEF Both
<1> HIDE DEF u, r, e
<1>4. /\ u \in States /\ u.ks = [st.ks EXCEPT ![s] = y] /\ u.ref = r
      /\ u.ks[s] = y /\ \A t \in Sets \ {s} : u.ks[t] = st.ks[t]
  BY <1>0, <1>1, <1>2, <1>3, BothSet
<1>5. Holds(st.ks, s, k) /\ \A j \in Keys : Holds(u.ks, s, j) <=> Holds(st.ks, s, j) /\ j # k
  BY <1>2, <1>4 DEF Holds
<1>6. Counted(u, e) /\ LiveAfter(st, u, {}, e)
  BY <1>0, <1>4, <1>5, CountsTaken DEF r
<1>7. Changed(st, u, s, X \ {k}, T, {}, e)
  BY <1>4, <1>6 DEF Changed
<1> QED
  BY <1>7 DEF u, e

LEMMA DropChanged ==
    ASSUME NEW st, NEW o, NEW tr, Good(st, o, tr), NEW s \in Sets, st.ks[s] # Gone,
           NEW k \in Keys, k \in ToSet(st.ks[s].keys), NEW y, NEW T, Told(y, T),
           ToSet(y.keys) = ToSet(st.ks[s].keys) \ {k}
    PROVE  LET u == [st EXCEPT !.ks[s] = y, !.ref = keyDel(keyDecRef(@, k), k)]
           IN Changed(st, u, s, ToSet(st.ks[s].keys) \ {k}, T, ToSet(st.ks[s].keys), Refs(o))
<1> DEFINE r == keyDel(keyDecRef(st.ref, k), k)
           u == [st EXCEPT !.ks[s] = y, !.ref = keyDel(keyDecRef(@, k), k)]
           e == Refs(o)
           X == ToSet(st.ks[s].keys)
           D == {k}
<1>0. st \in States /\ Counted(st, e) /\ e \in [Keys -> Nat] /\ st.ref \in [Keys -> Int]
  BY GoodFacts
<1>1. r = Dropped(st.ref, D)
  BY <1>0, DropOne
<1>r. r \in [Keys -> Int]
  BY <1>0, <1>1, DropType
<1>2. y \in Keysets \cup {Gone} /\ y # Gone
  BY ToldFine
<1>3. Both(st, u, s, y, r)
  BY DEF Both
<1> HIDE DEF u, r, e
<1>4. /\ u \in States /\ u.ks = [st.ks EXCEPT ![s] = y] /\ u.ref = r
      /\ u.ks[s] = y /\ \A t \in Sets \ {s} : u.ks[t] = st.ks[t]
  BY <1>0, <1>r, <1>2, <1>3, BothSet
<1>5. /\ \A j \in Keys : j \in D => Holds(st.ks, s, j)
      /\ \A j \in Keys : Holds(u.ks, s, j) <=> Holds(st.ks, s, j) /\ j \notin D
      /\ \A j \in X \ {k} : Holds(u.ks, s, j)
  BY <1>2, <1>4 DEF Holds
<1>6. Counted(u, e) /\ LiveAfter(st, u, D, e)
  <2>1. u.ref = Dropped(st.ref, D)
    BY <1>1, <1>4
  <2> HIDE DEF D
  <2> QED
    BY <1>0, <1>4, <1>5, <2>1, CountsDropped
<1>7. LiveAfter(st, u, X, e)
  <2>1. \A j \in Keys : j \in X \ {k} => Count(u.ks, j) + e[j] > 0
    <3> SUFFICES ASSUME NEW j \in Keys, j \in X \ {k}
        PROVE  Count(u.ks, j) + e[j] > 0
      OBVIOUS
    <3>1. Count(u.ks, j) \in Nat /\ Count(u.ks, j) > 0
      BY <1>5, CountTypes
    <3> QED
      BY <1>0, <3>1
  <2>2. D \subseteq X
    OBVIOUS
  <2> QED
    BY <1>6, <2>1, <2>2 DEF LiveAfter
<1>8. Changed(st, u, s, X \ {k}, T, X, e)
  BY <1>4, <1>6, <1>7 DEF Changed
<1> QED
  BY <1>8 DEF u, e

\* After a change the cursor of the keyset is set.
LEMMA CursorChanged ==
    ASSUME NEW st, NEW u, NEW s \in Sets, NEW S, NEW T, NEW D, NEW e, Changed(st, u, s, S, T, D, e),
           st \in States, NEW x, NEW U, Told(x, U), x.keys = u.ks[s].keys
    PROVE  Changed(st, With(u, s, x), s, S, U, D, e)
<1> DEFINE w == With(u, s, x)
           f == u.ks
           g == w.ks
<1>0. /\ u \in States /\ f = [st.ks EXCEPT ![s] = f[s]] /\ Told(f[s], T) /\ ToSet(f[s].keys) = S
      /\ Counted(u, e) /\ LiveAfter(st, u, D, e)
  BY DEF Changed
<1>1. x \in Keysets /\ x # Gone /\ f[s] # Gone
  BY <1>0, ToldFine
<1>2. f \in [Sets -> Keysets \cup {Gone}] /\ w \in States /\ g = [f EXCEPT ![s] = x] /\ w.ref = u.ref
  BY <1>0, <1>1, StateTypes, WithProperties
<1>3. st.ks \in [Sets -> Keysets \cup {Gone}]
  BY StateTypes
<1> HIDE DEF w
<1>4. g[s] = x /\ \A t \in Sets \ {s} : g[t] = f[t]
  BY <1>2
<1>5. g = [st.ks EXCEPT ![s] = x]
  <2> HIDE DEF f, g
  <2> QED
    BY <1>0, <1>2, <1>3
<1>6. ASSUME NEW k
      PROVE  Count(g, k) = Count(f, k)
  <2>1. Holds(f, s, k) <=> Holds(g, s, k)
    BY <1>1, <1>4 DEF Holds
  <2> HIDE DEF f, g
  <2> QED
    BY <1>4, <2>1, CountChange
<1>7. Counted(w, e) /\ LiveAfter(st, w, D, e)
  BY <1>0, <1>2, <1>6 DEF Counted, LiveAfter
<1> QED
  BY <1>0, <1>2, <1>4, <1>5, <1>7 DEF Changed, w

\* A keyset that was emptied, or is new, gets the keys of another one.
LEMMA Refilled ==
    ASSUME NEW st, NEW o, NEW tr, Good(st, o, tr), NEW s \in Sets, NEW t \in Sets, s # t, st.ks[t] # Gone,
           NEW v, NEW T, NEW D, Changed(st, v, s, {}, T, D, Refs(o))
    PROVE  LET u == ksAppend(v, s, v.ks[t].keys)
           IN /\ Changed(st, u, s, ToSet(st.ks[t].keys), Invalid, D, Refs(o))
              /\ u.ks[t] = st.ks[t] /\ u.ks[s].keys = st.ks[t].keys
              /\ OnKey(u.ks[s]) \/ SameBut(u.ks[s], v.ks[s])
<1> DEFINE f == v.ks
           q == st.ks[t].keys
           Q == ToSet(q)
           u == ksAppend(v, s, f[t].keys)
           g == u.ks
           y == g[s]
           X == ToSet(f[s].keys)
           e == Refs(o)
<1>0. /\ st \in States /\ st.ks \in [Sets -> Keysets \cup {Gone}] /\ Fine(st.ks[t])
      /\ e \in [Keys -> Nat]
  BY GoodFacts
<1>1. /\ v \in States /\ f = [st.ks EXCEPT ![s] = f[s]] /\ Told(f[s], T) /\ X = {}
      /\ Counted(v, e) /\ LiveAfter(st, v, D, e)
  BY DEF Changed
<1>2. Fine(f[s])
  BY <1>1, ToldFine
<1>3. \A r \in Sets \ {s} : f[r] = st.ks[r]
  <2> HIDE DEF f
  <2> QED
    BY <1>0, <1>1
<1>4. f[t] = st.ks[t]
  BY <1>3
<1>5. q \in Seq(Keys) /\ SortedKeys(q)
  BY <1>0, FieldTypes DEF Fine
<1>6. u = ksAppend(v, s, q)
  BY <1>4
<1> HIDE DEF u, f, e, q
<1>7. \A k \in ToSet(q) : Held(f, s, k, e)
  BY <1>4 DEF Held, Holds, q
<1>8. Merged(v, u, s, Q, e)
  <2>1. \A k \in ToSet(q) : Held(v.ks, s, k, e)
    BY <1>7 DEF f
  <2> QED
    BY <1>0, <1>1, <1>2, <1>5, <1>6, <2>1, KsAppendProperties DEF f
<1>9. /\ u \in States /\ Fine(y) /\ g = [f EXCEPT ![s] = y] /\ ToSet(y.keys) = Over(X, Q)
      /\ (Q \subseteq X => SameBut(y, f[s])) /\ (~(Q \subseteq X) => OnKey(y))
      /\ Counted(u, e) /\ LiveAfter(v, u, X, e)
  BY <1>8 DEF Merged, f
<1>10. ToSet(y.keys) = Q
  BY <1>1, <1>9 DEF Over
<1>11. y.keys = q
  <2>1. y.keys \in Seq(Keys) /\ SortedKeys(y.keys)
    BY <1>9, FieldTypes DEF Fine
  <2> QED
    BY <1>5, <1>10, <2>1, SortedUnique
<1>12. \A r \in Sets \ {s} : g[r] = f[r]
  <2> HIDE DEF g
  <2>1. f \in [Sets -> Keysets \cup {Gone}]
    BY <1>1, StateTypes DEF f
  <2> QED
    BY <1>9, <2>1
<1>13. g = [st.ks EXCEPT ![s] = y]
  <2>1. f \in [Sets -> Keysets \cup {Gone}] /\ g \in [Sets -> Keysets \cup {Gone}]
    BY <1>1, <1>9, StateTypes DEF f
  <2> DEFINE z == y
  <2>2. g \in [Sets -> Keysets \cup {Gone}] /\ g[s] = z /\ \A r \in Sets \ {s} : g[r] = st.ks[r]
    BY <1>3, <1>12, <2>1
  <2> HIDE DEF g, z
  <2>3. g = [st.ks EXCEPT ![s] = z]
    BY <1>0, <2>2
  <2> QED
    BY <2>3 DEF z
<1>14. \A k \in Keys : Count(g, k) + e[k] > 0 => u.ref[k] # Freed
  <2> SUFFICES ASSUME NEW k \in Keys, Count(g, k) + e[k] > 0
      PROVE  u.ref[k] # Freed
    OBVIOUS
  <2>1. Count(g, k) \in Nat /\ e[k] \in Nat
    BY <1>0, CountTypes
  <2> QED
    BY <1>9, <2>1 DEF Counted
<1>15. \A k \in Keys : Count(g, k) >= Count(f, k)
  <2> SUFFICES ASSUME NEW k \in Keys
      PROVE  Count(g, k) >= Count(f, k)
    OBVIOUS
  <2>1. ~Holds(f, s, k)
    BY <1>1 DEF Holds
  <2>2. Count(f, k) \in Nat /\ Count(g, k) \in Nat
    BY CountTypes
  <2> HIDE DEF g
  <2>3. Count(g, k) = Count(f, k) \/ Count(g, k) = Count(f, k) + 1
    BY <1>12, <2>1, CountChange
  <2> QED
    BY <2>2, <2>3
<1>16. LiveAfter(st, u, D, e)
  <2> SUFFICES ASSUME NEW k \in Keys
      PROVE  u.ref[k] # Freed <=> st.ref[k] # Freed /\ (k \in D => Count(g, k) + e[k] > 0)
    BY DEF LiveAfter
  <2>1. u.ref[k] # Freed <=> v.ref[k] # Freed
    BY <1>1, <1>9 DEF LiveAfter
  <2>2. v.ref[k] # Freed <=> st.ref[k] # Freed /\ (k \in D => Count(f, k) + e[k] > 0)
    BY <1>1 DEF LiveAfter, f
  <2>3. Count(f, k) \in Nat /\ Count(g, k) \in Nat /\ e[k] \in Nat
    BY <1>0, CountTypes
  <2>4. Count(f, k) + e[k] > 0 => Count(g, k) + e[k] > 0
    BY <1>15, <2>3
  <2>5. Count(g, k) + e[k] > 0 => u.ref[k] # Freed
    BY <1>14
  <2> QED
    BY <2>1, <2>2, <2>4, <2>5
<1>17. Told(y, Invalid)
  BY <1>9 DEF Told, Trails, Tracks
<1>18. Changed(st, u, s, Q, Invalid, D, e)
  BY <1>9, <1>10, <1>13, <1>16, <1>17 DEF Changed
<1>19. g[t] = st.ks[t] /\ y.keys = q /\ (OnKey(y) \/ SameBut(y, f[s]))
  BY <1>4, <1>9, <1>11, <1>12
<1> QED
  BY <1>18, <1>19 DEF u, q, e, f

LEMMA DupChanged ==
    ASSUME NEW st, NEW o, NEW tr, Good(st, o, tr), NEW s \in Sets, NEW t \in Sets,
           st.ks[s] = Gone, st.ks[t] # Gone, NEW h \in Nat
    PROVE  LET v == With(st, s, ksNew(h))
           IN Changed(st, ksAppend(v, s, st.ks[t].keys), s, ToSet(st.ks[t].keys), Moved, {}, Refs(o))
<1> DEFINE x == ksNew(h)
           v == With(st, s, x)
           u == ksAppend(v, s, v.ks[t].keys)
           y == u.ks[s]
           Q == ToSet(st.ks[t].keys)
           e == Refs(o)
<1>0. st \in States /\ st.ks \in [Sets -> Keysets \cup {Gone}]
  BY GoodFacts
<1>1. Changed(st, v, s, {}, {}, {}, e)
  BY NewChanged
<1>2. x \in Keysets /\ x.current = 0 /\ x.cursor = NULL
  BY NewProperties
<1> HIDE DEF x
<1>3. v.ks = [st.ks EXCEPT ![s] = x]
  BY <1>0, <1>2, WithProperties
<1>4. v.ks[s] = x /\ v.ks[t] = st.ks[t] /\ s # t
  <2> DEFINE F == v.ks
  <2>1. F = [st.ks EXCEPT ![s] = x]
    BY <1>3
  <2> HIDE DEF F
  <2>2. F[s] = x /\ F[t] = st.ks[t] /\ s # t
    BY <1>0, <2>1
  <2> QED
    BY <2>2 DEF F
<1> HIDE DEF v, e
<1>5. /\ Changed(st, u, s, Q, Invalid, {}, e)
      /\ OnKey(y) \/ SameBut(y, v.ks[s])
  BY <1>1, <1>4, Refilled DEF e
<1>6. u = ksAppend(v, s, st.ks[t].keys)
  BY <1>4
<1> HIDE DEF u, Q
<1>7. Told(y, Invalid)
  BY <1>5 DEF Changed
<1>8. Told(y, Moved)
  <2>1. Fine(y) /\ y \in Keysets /\ Moved \in Trails
    BY <1>7, ToldFine DEF Trails
  <2>2. CASE OnKey(y)
    BY <2>1, <2>2, OnKeyTracks DEF Told
  <2>3. CASE SameBut(y, v.ks[s])
    <3>1. Rewound(y)
      BY <1>2, <1>4, <2>3 DEF SameBut, Rewound
    <3> QED
      BY <2>1, <3>1 DEF Told
  <2> QED
    BY <1>5, <2>2, <2>3
<1>9. Changed(st, u, s, Q, Moved, {}, e)
  BY <1>5, <1>8 DEF Changed
<1> QED
  BY <1>6, <1>9 DEF v, x, Q, e

LEMMA CopyChanged ==
    ASSUME NEW st, NEW o, NEW tr, Good(st, o, tr), NEW s \in Sets, NEW t \in Sets,
           st.ks[s] # Gone, st.ks[t] # Gone
    PROVE  LET v == ksClear(st, s)
               u == ksAppend(v, s, v.ks[t].keys)
           IN Changed(st, With(u, s, ksSetCursor(u.ks[s], ksGetCursor(u.ks[t]))), s,
                      IF s = t THEN {} ELSE ToSet(st.ks[t].keys), tr[t], ToSet(st.ks[s].keys), Refs(o))
<1> DEFINE v == ksClear(st, s)
           u == ksAppend(v, s, v.ks[t].keys)
           z == ksSetCursor(u.ks[s], ksGetCursor(u.ks[t]))
           Q == ToSet(st.ks[t].keys)
           S == IF s = t THEN {} ELSE Q
           D == ToSet(st.ks[s].keys)
           e == Refs(o)
<1>0. st \in States /\ tr[t] \in Trails /\ Fine(st.ks[t]) /\ Tracks(st.ks[t], tr[t])
  BY GoodFacts
<1>1. Changed(st, v, s, {}, {}, D, e) /\ v.ks[s].keys = <<>> /\ v.ks[s].cursor = NULL
  BY ClearChanged
<1> HIDE DEF v, D, e
<1>2. ASSUME s = t PROVE Changed(st, With(u, s, z), s, S, tr[t], D, e)
  <2>1. u = v
    BY <1>1, <1>2 DEF ksAppend
  <2>2. z = ksRewind(v.ks[s])
    BY <1>1, <1>2, <2>1 DEF ksGetCursor, ksSetCursor
  <2>3. Fine(v.ks[s])
    BY <1>1, ToldFine DEF Changed
  <2> HIDE DEF u, z
  <2>4. z.keys = v.ks[s].keys /\ Fine(z) /\ Rewound(z)
    BY <2>2, <2>3, RewindStep DEF SameKeys
  <2>5. Told(z, tr[t])
    BY <1>0, <2>4 DEF Told
  <2>6. Changed(st, With(v, s, z), s, {}, tr[t], D, e)
    BY <1>0, <1>1, <2>4, <2>5, CursorChanged
  <2> QED
    BY <1>2, <2>1, <2>6
<1>3. ASSUME s # t PROVE Changed(st, With(u, s, z), s, S, tr[t], D, e)
  <2>1. /\ Changed(st, u, s, Q, Invalid, D, e)
        /\ u.ks[t] = st.ks[t] /\ u.ks[s].keys = st.ks[t].keys
    BY <1>1, <1>3, Refilled DEF e
  <2>2. Fine(u.ks[s])
    BY <2>1, ToldFine DEF Changed
  <2> DEFINE x == st.ks[t]
             y == u.ks[s]
  <2>3. z = ksSetCursor(y, ksGetCursor(x)) /\ Fine(x) /\ Fine(y) /\ y.keys = x.keys
    BY <1>0, <2>1, <2>2
  <2> HIDE DEF z, u, y, x
  <2>4. z.keys = x.keys /\ Told(z, tr[t])
    BY <1>0, <2>3, CursorCopied DEF x
  <2>5. z.keys = u.ks[s].keys
    BY <2>3, <2>4 DEF y
  <2>6. Changed(st, With(u, s, z), s, Q, tr[t], D, e)
    BY <1>0, <2>1, <2>4, <2>5, CursorChanged
  <2> QED
    BY <1>3, <2>6
<1> HIDE DEF S, z, u
<1>4. Changed(st, With(u, s, z), s, S, tr[t], D, e)
  BY <1>2, <1>3
<1> QED
  BY <1>4 DEF S, z, u, v, D, e

\* ksLookup() with KDB_O_CREATE makes a key and appends it.
Fresh(st, k) == [st EXCEPT !.ref[k] = 0]

LEMMA CreateChanged ==
    ASSUME NEW st, NEW o, NEW tr, Good(st, o, tr), NEW s \in Sets, st.ks[s] # Gone,
           NEW k \in Keys, st.ref[k] = Freed, ksSearchInternal(st.ks[s], NameOf[k]) < 0
    PROVE  LET v == Fresh(st, k)
               X == ToSet(st.ks[s].keys)
           IN /\ Good(v, o, tr) /\ v.ks = st.ks
              /\ \A j \in Keys : v.ref[j] # Freed <=> st.ref[j] # Freed \/ j = k
              /\ \A m \in X : NameOf[m] # NameOf[k]
              /\ Changed(v, ksAppendKey(v, s, k), s, X \cup {k}, Moved, {}, Refs(o))
<1> DEFINE v == Fresh(st, k)
           u == ksAppendKey(v, s, k)
           x == st.ks[s]
           y == u.ks[s]
           X == ToSet(x.keys)
           U == IF y.keys = x.keys THEN tr[s] ELSE Moved
           e == Refs(o)
<1>0. /\ st \in States /\ st.ref \in [Keys -> Int] /\ Counted(st, e) /\ e \in [Keys -> Nat]
      /\ Fine(x) /\ X \in SUBSET Keys
  BY GoodFacts
<1>1. v \in States /\ v.ks = st.ks /\ v.ref = [st.ref EXCEPT ![k] = 0]
  BY <1>0 DEF States, Fresh
<1> HIDE DEF v, e
<1>2. \A j \in Keys : v.ref[j] = IF j = k THEN 0 ELSE st.ref[j]
  BY <1>0, <1>1
<1>3. \A j \in Keys : v.ref[j] # Freed <=> st.ref[j] # Freed \/ j = k
  BY <1>2 DEF Freed
<1>4. Counted(v, e)
  <2>1. Count(st.ks, k) = 0 /\ e[k] = 0
    BY <1>0 DEF Counted
  <2> QED
    BY <1>0, <1>1, <1>2, <2>1 DEF Counted
<1>5. Good(v, o, tr)
  BY <1>1, <1>4 DEF Good, e
<1>6. \A m \in X : NameOf[m] # NameOf[k]
  <2>1. x \in Keysets /\ x.keys \in Seq(Keys) /\ SortedKeys(x.keys) /\ Size(x) \in Nat /\ Size(x) = Len(x.keys)
    BY <1>0, FieldTypes DEF Fine
  <2>2. NameOf[k] \in Seq(Nat)
    BY Constants
  <2> DEFINE pos == ksSearchInternal(x, NameOf[k])
  <2>3. /\ -pos - 1 \in 0 .. Size(x)
        /\ \A i \in 1 .. Size(x) : IF i <= -pos - 1 THEN Before(NameOf[x.keys[i]], NameOf[k])
                                   ELSE Before(NameOf[k], NameOf[x.keys[i]])
    BY SMTT(20), <2>1, <2>2, SearchCorrect
  <2> HIDE DEF pos
  <2>4. \A i \in 1 .. Size(x) : NameOf[x.keys[i]] # NameOf[k]
    BY <2>2, <2>3, BeforeIrreflexive
  <2> QED
    BY <2>1, <2>4, ToSetProperties
<1>7. k \notin X /\ Over(X, {k}) = X \cup {k}
  BY <1>6 DEF Over
<1>8. Changed(v, u, s, Over(X, {k}), U, X, e)
  <2>1. v.ks[s] = x /\ v.ref[k] # Freed /\ v.ks[s] # Gone
    BY <1>1, <1>3
  <2>2. /\ Changed(v, u, s, Over(ToSet(v.ks[s].keys), {k}),
                   IF u.ks[s].keys = v.ks[s].keys THEN tr[s] ELSE Moved, ToSet(v.ks[s].keys), e)
    BY <1>5, <2>1, AppendKeyChanged DEF e
  <2> HIDE DEF u, x
  <2> QED
    BY <2>1, <2>2
<1> HIDE DEF u
<1>9. /\ u \in States /\ u.ks = [v.ks EXCEPT ![s] = y] /\ Told(y, U) /\ ToSet(y.keys) = X \cup {k}
      /\ Counted(u, e) /\ LiveAfter(v, u, X, e)
  BY <1>7, <1>8 DEF Changed
<1>10. U = Moved
  BY <1>7, <1>9
<1>11. LiveAfter(v, u, {}, e)
  <2>1. y # Gone
    BY <1>9, ToldFine
  <2>2. ASSUME NEW j \in Keys, j \in X
        PROVE  Count(u.ks, j) + e[j] > 0
    <3>1. Holds(u.ks, s, j)
      BY <1>9, <2>1, <2>2 DEF Holds
    <3>2. Count(u.ks, j) \in Nat /\ Count(u.ks, j) > 0 /\ e[j] \in Nat
      BY <1>0, <3>1, CountTypes
    <3> QED
      BY <3>2
  <2> QED
    BY <1>9, <2>2 DEF LiveAfter
<1>12. Changed(v, u, s, X \cup {k}, Moved, {}, e)
  <2> HIDE DEF U, X
  <2> QED
    BY <1>9, <1>10, <1>11 DEF Changed
<1> QED
  BY <1>1, <1>3, <1>5, <1>6, <1>12 DEF v, u, e

\* ksDel() gives up all keys of a keyset.
LEMMA DelGood ==
    ASSUME NEW st, NEW o, NEW tr, Good(st, o, tr), NEW s \in Sets, st.ks[s] # Gone
    PROVE  LET u == ksClose(st, s)
           IN /\ Good(u, o, [tr EXCEPT ![s] = {}])
              /\ u.ks = [st.ks EXCEPT ![s] = Gone]
              /\ LiveAfter(st, u, ToSet(st.ks[s].keys), Refs(o))
<1> DEFINE q == st.ks[s].keys
           D == ToSet(q)
           r == Dropped(st.ref, D)
           u == ksClose(st, s)
           e == Refs(o)
           w == [tr EXCEPT ![s] = {}]
<1>0. /\ st \in States /\ st.ref \in [Keys -> Int] /\ Counted(st, e) /\ e \in [Keys -> Nat]
      /\ Fine(st.ks[s])
  BY GoodFacts
<1>1. q \in Seq(Keys) /\ SortedKeys(q)
  BY <1>0, FieldTypes DEF Fine
<1>2. Unref(st.ref, q) = r
  BY <1>0, <1>1, UnrefDrops
<1>3. r \in [Keys -> Int]
  BY <1>0, DropType
<1>4. u = [st EXCEPT !.ks[s] = Gone, !.ref = Unref(st.ref, q)]
  BY DEF ksClose
<1> HIDE DEF u, r, e, D
<1>5. Both(st, u, s, Gone, r)
  BY <1>2, <1>4 DEF Both
<1>6. Gone \in Keysets \cup {Gone}
  OBVIOUS
<1>7. /\ u \in States /\ u.ks = [st.ks EXCEPT ![s] = Gone] /\ u.ref = r
      /\ u.ks[s] = Gone /\ \A t \in Sets \ {s} : u.ks[t] = st.ks[t]
  BY <1>0, <1>3, <1>5, <1>6, BothSet
<1>8. /\ \A k \in Keys : k \in D => Holds(st.ks, s, k)
      /\ \A k \in Keys : Holds(u.ks, s, k) <=> Holds(st.ks, s, k) /\ k \notin D
  BY <1>7 DEF Holds, D
<1>9. Counted(u, e) /\ LiveAfter(st, u, D, e)
  BY <1>0, <1>7, <1>8, CountsDropped DEF r
<1>10. /\ o \in SUBSET Keys /\ tr \in [Sets -> Trails]
       /\ \A t \in Sets : st.ks[t] # Gone => Fine(st.ks[t]) /\ Tracks(st.ks[t], tr[t])
  BY DEF Good
<1>11. w \in [Sets -> Trails] /\ \A t \in Sets \ {s} : w[t] = tr[t]
  BY <1>10 DEF Trails
<1> HIDE DEF w
<1>12. \A t \in Sets : u.ks[t] # Gone => Fine(u.ks[t]) /\ Tracks(u.ks[t], w[t])
  BY <1>7, <1>10, <1>11
<1>13. Good(u, o, w)
  BY <1>7, <1>9, <1>10, <1>11, <1>12 DEF Good, e
<1> QED
  BY <1>7, <1>9, <1>13 DEF w, u, D, e

\* What the trail of a keyset becomes when keys are cut out of it.
LEMMA CutTold ==
    ASSUME NEW x, NEW y, NEW T \in Trails, Fine(x), Tracks(x, T), Fine(y), Follows(x, y),
           ToSet(y.keys) = ToSet(x.keys) => y = x
    PROVE  Told(y, IF Overrun(x) /\ y.keys # x.keys THEN Invalid ELSE T)
<1>1. CASE y = x
  BY <1>1 DEF Told
<1>2. CASE y # x /\ Overrun(x)
  <2>1. y.keys # x.keys
    BY <1>2
  <2> QED
    BY <1>2, <2>1 DEF Told, Trails, Tracks
<1>3. CASE y # x /\ ~Overrun(x)
  <2>1. CASE T = Invalid
    BY <1>3, <2>1 DEF Told, Tracks
  <2>2. CASE T # Invalid
    BY <1>3, <2>2 DEF Follows, Told
  <2> QED
    BY <2>1, <2>2
<1> QED
  BY <1>1, <1>2, <1>3

LEMMA CutGood ==
    ASSUME NEW st, NEW o, NEW tr, Good(st, o, tr), NEW s \in Sets, NEW t \in Sets,
           st.ks[s] # Gone, st.ks[t] = Gone, NEW u, NEW C, CutOff(st, u, s, t, C, Refs(o))
    PROVE  Good(u, o, [tr EXCEPT ![s] = From(u.ks[s], IF Overrun(st.ks[s]) /\ u.ks[s].keys # st.ks[s].keys
                                                      THEN Invalid ELSE @),
                                 ![t] = From(u.ks[t], Moved)])
<1> DEFINE x == st.ks[s]
           y == u.ks[s]
           z == u.ks[t]
           U == IF Overrun(x) /\ y.keys # x.keys THEN Invalid ELSE tr[s]
           w == [tr EXCEPT ![s] = From(y, U), ![t] = From(z, Moved)]
           X == ToSet(x.keys)
<1>0. /\ Fine(x) /\ Tracks(x, tr[s]) /\ tr[s] \in Trails /\ s # t
      /\ o \in SUBSET Keys /\ tr \in [Sets -> Trails]
      /\ \A r \in Sets : st.ks[r] # Gone => Fine(st.ks[r]) /\ Tracks(st.ks[r], tr[r])
  BY GoodFacts DEF Good
<1>1. /\ u \in States /\ \A r \in Sets \ {s, t} : u.ks[r] = st.ks[r]
      /\ Fine(y) /\ Fine(z) /\ C \in SUBSET X /\ ToSet(y.keys) = X \ C
      /\ (Rewound(z) \/ OnKey(z)) /\ (C = {} => y = x) /\ Follows(x, y) /\ Counted(u, Refs(o))
  BY DEF CutOff
<1>2. ToSet(y.keys) = X => y = x
  BY <1>1
<1> HIDE DEF X, y, z
<1>3. Told(y, U)
  BY <1>0, <1>1, <1>2, CutTold DEF X
<1>4. Told(z, Moved)
  <2>1. z \in Keysets
    BY <1>1 DEF Fine
  <2> QED
    BY <1>1, <2>1, OnKeyTracks DEF Told, Trails
<1> HIDE DEF U
<1>5. From(y, U) \in Trails /\ Tracks(y, From(y, U)) /\ From(z, Moved) \in Trails /\ Tracks(z, From(z, Moved))
  BY <1>3, <1>4, ToldFine
<1>6. /\ w \in [Sets -> Trails] /\ w[s] = From(y, U) /\ w[t] = From(z, Moved)
      /\ \A r \in Sets \ {s, t} : w[r] = tr[r]
  BY <1>0, <1>5
<1> HIDE DEF w
<1>7. \A r \in Sets : u.ks[r] # Gone => Fine(u.ks[r]) /\ Tracks(u.ks[r], w[r])
  BY <1>0, <1>1, <1>5, <1>6 DEF y, z
<1>8. Good(u, o, w)
  BY <1>0, <1>1, <1>6, <1>7 DEF Good
<1> QED
  BY <1>8 DEF w, U, y, z

\* The counter of one key changes, and whether applications keep it.
LEMMA KeyGood ==
    ASSUME NEW st, NEW o, NEW tr, Good(st, o, tr), NEW p \in SUBSET Keys, NEW r \in [Keys -> Int],
           NEW k \in Keys, \A j \in Keys \ {k} : r[j] = st.ref[j] /\ (j \in p <=> j \in o),
           IF r[k] # Freed THEN r[k] = Count(st.ks, k) + Refs(p)[k]
           ELSE Count(st.ks, k) = 0 /\ Refs(p)[k] = 0
    PROVE  Good([ks |-> st.ks, ref |-> r], p, tr)
<1> DEFINE u == [ks |-> st.ks, ref |-> r]
<1>1. /\ st \in States /\ tr \in [Sets -> Trails] /\ Counted(st, Refs(o)) /\ o \in SUBSET Keys
      /\ \A s \in Sets : st.ks[s] # Gone => Fine(st.ks[s]) /\ Tracks(st.ks[s], tr[s])
  BY DEF Good
<1>2. u \in States /\ u.ks = st.ks /\ u.ref = r
  BY <1>1, StateTypes DEF States
<1> HIDE DEF u
<1>3. \A j \in Keys \ {k} : Refs(p)[j] = Refs(o)[j]
  BY <1>1, RefsType
<1>4. Counted(u, Refs(p))
  BY <1>1, <1>2, <1>3 DEF Counted
<1>5. Good(u, p, tr)
  BY <1>1, <1>2, <1>4 DEF Good
<1> QED
  BY <1>5 DEF u

-----------------------------------------------------------------------------
(* The invariant holds initially, and every action preserves it *)

LEMMA InvFacts ==
    ASSUME Inv
    PROVE  /\ Good(State, own, trail) /\ State.ks = ks /\ State.ref = ref
           /\ ks \in [Sets -> Keysets \cup {Gone}] /\ ref \in [Keys -> Int] /\ own \in SUBSET Keys
           /\ Refs(own) \in [Keys -> Nat]
           /\ \A k \in Keys : /\ Count(ks, k) \in Nat
                              /\ IF ref[k] # Freed THEN ref[k] = Count(ks, k) + Refs(own)[k]
                                 ELSE Count(ks, k) = 0 /\ Refs(own)[k] = 0
                              /\ Refs(own)[k] = IF k \in own THEN 1 ELSE 0
<1>1. Good(State, own, trail) /\ State.ks = ks /\ State.ref = ref
  BY DEF Inv, State
<1>2. own \in SUBSET Keys
  BY <1>1 DEF Good
<1>3. ks \in [Sets -> Keysets \cup {Gone}] /\ ref \in [Keys -> Int] /\ Counted(State, Refs(own))
  BY <1>1, GoodFacts
<1> QED
  BY <1>1, <1>2, <1>3, RefsType, CountTypes DEF Counted

LEMMA InitInv ==
    ASSUME Init
    PROVE  Inv
<1>1. State \in States
  <2>1. ks \in [Sets -> Keysets \cup {Gone}] /\ ref \in [Keys -> Int]
    BY DEF Init, Freed
  <2> QED
    BY <2>1 DEF States, State
<1>2. trail \in [Sets -> Trails] /\ own \in SUBSET Keys
  BY DEF Init, Trails
<1>3. \A s \in Sets : State.ks[s] = Gone
  BY DEF Init, State
<1>4. Counted(State, Refs(own))
  <2>1. ASSUME NEW k \in Keys
        PROVE  State.ref[k] = Freed /\ Count(State.ks, k) = 0 /\ Refs(own)[k] = 0
    <3>1. {s \in Sets : Holds(State.ks, s, k)} = {}
      BY <1>3 DEF Holds
    <3>2. Count(State.ks, k) = 0
      BY <3>1, CountTypes
    <3>3. State.ref[k] = Freed /\ Refs(own)[k] = 0
      BY DEF Init, State, Refs
    <3> QED
      BY <3>2, <3>3
  <2> QED
    BY <2>1 DEF Counted
<1> QED
  BY <1>1, <1>2, <1>3, <1>4 DEF Inv, Good

LEMMA BecomeInv ==
    ASSUME Inv, NEW s \in Sets, NEW u, NEW S, NEW T, NEW D, Changed(State, u, s, S, T, D, Refs(own)),
           Become(u, s, T)
    PROVE  Inv'
<1>1. Good(u, own, [trail EXCEPT ![s] = From(u.ks[s], T)])
  BY ChangedGood DEF Inv
<1>2. u \in States
  BY DEF Changed
<1>3. State' = u
  BY <1>2, StateTypes DEF Become, State
<1>4. own' = own /\ trail' = [trail EXCEPT ![s] = From(u.ks[s], T)]
  BY DEF Become
<1>5. Good(State', own', trail')
  BY <1>1, <1>3, <1>4
<1> QED
  BY <1>5 DEF Inv

LEMMA KeyNewInv ==
    ASSUME Inv, NEW k \in Keys, keyNew(k)
    PROVE  Inv'
<1>1. ref' = [ref EXCEPT ![k] = 0] /\ ref[k] = Freed /\ ks' = ks /\ own' = own /\ trail' = trail
  BY DEF keyNew, Live
<1>2. ref' \in [Keys -> Int] /\ ref'[k] = 0 /\ \A j \in Keys \ {k} : ref'[j] = ref[j]
  BY <1>1, InvFacts
<1>3. Good([ks |-> State.ks, ref |-> ref'], own, trail)
  BY <1>1, <1>2, InvFacts, KeyGood
<1> QED
  BY <1>1, <1>3, InvFacts DEF Inv, State

LEMMA KeepInv ==
    ASSUME Inv, NEW k \in Keys, Keep(k)
    PROVE  Inv'
<1>1. /\ ref' = keyIncRef(ref, k) /\ ref[k] # Freed /\ k \notin own /\ own' = own \cup {k}
      /\ ks' = ks /\ trail' = trail
  BY DEF Keep, Live
<1>2. ref' \in [Keys -> Int] /\ ref'[k] = ref[k] + 1 /\ \A j \in Keys \ {k} : ref'[j] = ref[j]
  BY <1>1, InvFacts DEF keyIncRef
<1>3. own' \in SUBSET Keys /\ \A j \in Keys \ {k} : j \in own' <=> j \in own
  BY <1>1, InvFacts
<1>4. Refs(own')[k] = 1 /\ Refs(own)[k] = 0
  BY <1>1, <1>3, InvFacts, RefsType
<1>5. ref'[k] = Count(ks, k) + Refs(own')[k] /\ ref'[k] # Freed
  BY <1>1, <1>2, <1>4, InvFacts DEF Freed
<1>6. Good([ks |-> State.ks, ref |-> ref'], own', trail)
  BY <1>2, <1>3, <1>5, InvFacts, KeyGood
<1> QED
  BY <1>1, <1>6, InvFacts DEF Inv, State

LEMMA ReleaseInv ==
    ASSUME Inv, NEW k \in Keys, Release(k)
    PROVE  Inv' /\ ref[k] # Freed /\ ref'[k] # Freed
<1>1. ref' = keyDecRef(ref, k) /\ k \in own /\ own' = own \ {k} /\ ks' = ks /\ trail' = trail
  BY DEF Release
<1>2. Refs(own)[k] = 1 /\ ref[k] # Freed
  BY <1>1, InvFacts
<1>3. ref[k] = Count(ks, k) + 1 /\ Count(ks, k) \in Nat
  BY <1>2, InvFacts
<1>4. ref' \in [Keys -> Int] /\ ref'[k] = Count(ks, k) /\ \A j \in Keys \ {k} : ref'[j] = ref[j]
  BY <1>1, <1>3, InvFacts DEF keyDecRef
<1>5. own' \in SUBSET Keys /\ \A j \in Keys \ {k} : j \in own' <=> j \in own
  BY <1>1, InvFacts
<1>6. Refs(own')[k] = 0
  BY <1>1, <1>5, RefsType
<1>7. ref'[k] = Count(ks, k) + Refs(own')[k] /\ ref'[k] # Freed
  BY <1>3, <1>4, <1>6 DEF Freed
<1>8. Good([ks |-> State.ks, ref |-> ref'], own', trail)
  BY <1>4, <1>5, <1>7, InvFacts, KeyGood
<1> QED
  BY <1>1, <1>2, <1>7, <1>8, InvFacts DEF Inv, State

LEMMA FreeKeyInv ==
    ASSUME Inv, NEW k \in Keys, FreeKey(k)
    PROVE  Inv' /\ ref'[k] = Freed /\ Count(ks, k) = 0 /\ k \notin own
<1>1. ref' = keyDel(ref, k) /\ ref[k] = 0 /\ own' = own /\ ks' = ks /\ trail' = trail
  BY DEF FreeKey
<1>2. Count(ks, k) = 0 /\ Refs(own)[k] = 0 /\ k \notin own
  BY <1>1, InvFacts DEF Freed
<1>3. ref' \in [Keys -> Int] /\ ref'[k] = Freed /\ \A j \in Keys \ {k} : ref'[j] = ref[j]
  BY <1>1, InvFacts DEF keyDel, Freed
<1>4. Good([ks |-> State.ks, ref |-> ref'], own, trail)
  BY <1>2, <1>3, InvFacts, KeyGood
<1> QED
  BY <1>1, <1>2, <1>3, <1>4, InvFacts DEF Inv, State

\* The keyset s has the keys S now, and the keys of D without a reference are freed.
Turns(s, S, D) ==
    \E u, T : Changed(State, u, s, S, T, D, Refs(own)) /\ Become(u, s, T)

LEMMA TurnsInv ==
    ASSUME Inv, NEW s \in Sets, NEW S, NEW D, Turns(s, S, D)
    PROVE  Inv'
  BY BecomeInv DEF Turns

\* Only() changes the cursor of a keyset and leaves its keys.
LEMMA OnlyTurns ==
    ASSUME Inv, NEW s \in Sets, ks[s] # Gone, NEW x, NEW T, Told(x, T), x.keys = ks[s].keys, Only(s, x, T)
    PROVE  Turns(s, ToSet(ks[s].keys), {})
<1>1. Good(State, own, trail) /\ State.ks = ks
  BY InvFacts
<1>2. Changed(State, With(State, s, x), s, ToSet(ks[s].keys), T, {}, Refs(own))
  BY <1>1, OnlyChanged
<1> QED
  BY <1>2 DEF Only, Turns

LEMMA SetFacts ==
    ASSUME Inv, NEW s \in Sets, IsSet(s)
    PROVE  /\ Good(State, own, trail) /\ State.ks[s] = ks[s] /\ ks[s] # Gone /\ Fine(ks[s])
           /\ trail[s] \in Trails /\ Tracks(ks[s], trail[s]) /\ Told(ks[s], trail[s])
           /\ ks[s] \in Keysets /\ ks[s].keys \in Seq(Keys) /\ SortedKeys(ks[s].keys)
           /\ Size(ks[s]) = Len(ks[s].keys) /\ Size(ks[s]) \in Nat /\ ks[s].current \in Nat
           /\ ToSet(ks[s].keys) \in SUBSET Keys
<1>1. Good(State, own, trail) /\ State.ks = ks
  BY InvFacts
<1>2. /\ ks[s] # Gone /\ Fine(ks[s]) /\ trail[s] \in Trails /\ Tracks(ks[s], trail[s])
      /\ Told(ks[s], trail[s]) /\ ToSet(ks[s].keys) \in SUBSET Keys
  BY <1>1, GoodFacts DEF IsSet
<1>3. ks[s] \in Keysets /\ SortedKeys(ks[s].keys)
  BY <1>2 DEF Fine
<1> QED
  BY <1>1, <1>2, <1>3, FieldTypes

LEMMA NewTurns ==
    ASSUME Inv, NEW s \in Sets, NEW h \in Hints, New(s, h)
    PROVE  ks[s] = Gone /\ Turns(s, {}, {})
<1>1. Good(State, own, trail) /\ State.ks = ks /\ ks[s] = Gone /\ h \in Nat
  BY InvFacts, Constants DEF New, IsSet
<1>2. Changed(State, With(State, s, ksNew(h)), s, {}, {}, {}, Refs(own))
  BY <1>1, NewChanged
<1> QED
  BY <1>1, <1>2 DEF New, Only, Turns

LEMMA DupTurns ==
    ASSUME Inv, NEW s \in Sets, NEW t \in Sets, Dup(s, t)
    PROVE  ks[s] = Gone /\ ks[t] # Gone /\ Turns(s, ToSet(ks[t].keys), {})
<1> DEFINE h == Max({ks[t].alloc, KEYSET_SIZE})
           u == ksAppend(With(State, s, ksNew(h)), s, ks[t].keys)
<1>1. Good(State, own, trail) /\ State.ks = ks /\ ks[s] = Gone /\ ks[t] # Gone
  BY InvFacts DEF Dup, IsSet
<1>2. h \in Nat
  <2>1. ks[t] \in Keysets
    BY <1>1, SetFacts DEF IsSet
  <2> DEFINE a == ks[t].alloc
  <2>2. a \in Nat /\ KEYSET_SIZE \in Nat /\ a \in Int /\ KEYSET_SIZE \in Int
    BY <2>1, FieldTypes, Constants
  <2> HIDE DEF a
  <2>3. Max({a, KEYSET_SIZE}) \in {a, KEYSET_SIZE}
    BY <2>2, MaxOfTwo
  <2>4. Max({a, KEYSET_SIZE}) \in Nat
    BY <2>2, <2>3
  <2> QED
    BY <2>4 DEF a
<1>3. Become(u, s, Moved)
  BY DEF Dup
<1> HIDE DEF h
<1>4. Changed(State, u, s, ToSet(ks[t].keys), Moved, {}, Refs(own))
  BY <1>1, <1>2, DupChanged
<1> QED
  BY <1>1, <1>3, <1>4 DEF Turns

LEMMA DelInv ==
    ASSUME Inv, NEW s \in Sets, Del(s)
    PROVE  /\ Inv' /\ ks[s] # Gone /\ ks' = [ks EXCEPT ![s] = Gone] /\ own' = own
           /\ LiveAfter(State, State', ToSet(ks[s].keys), Refs(own))
<1> DEFINE u == ksClose(State, s)
<1>1. Good(State, own, trail) /\ State.ks = ks /\ ks[s] # Gone
  BY InvFacts DEF Del, IsSet
<1>2. ks' = u.ks /\ ref' = u.ref /\ trail' = [trail EXCEPT ![s] = {}] /\ own' = own
  BY DEF Del
<1>3. /\ Good(u, own, [trail EXCEPT ![s] = {}]) /\ u.ks = [ks EXCEPT ![s] = Gone]
      /\ LiveAfter(State, u, ToSet(ks[s].keys), Refs(own))
  BY <1>1, DelGood
<1> HIDE DEF u
<1>4. u = [ks |-> u.ks, ref |-> u.ref]
  BY <1>3, StateTypes DEF Good
<1>5. State' = u
  BY <1>2, <1>4 DEF State
<1> QED
  BY <1>1, <1>2, <1>3, <1>5 DEF Inv

LEMMA CopyTurns ==
    ASSUME Inv, NEW s \in Sets, NEW t \in Sets, Copy(s, t)
    PROVE  /\ ks[s] # Gone /\ ks[t] # Gone
           /\ Turns(s, IF s = t THEN {} ELSE ToSet(ks[t].keys), ToSet(ks[s].keys))
<1> DEFINE v == ksClear(State, s)
           u == ksAppend(v, s, v.ks[t].keys)
           w == With(u, s, ksSetCursor(u.ks[s], ksGetCursor(u.ks[t])))
           S == IF s = t THEN {} ELSE ToSet(ks[t].keys)
<1>1. Good(State, own, trail) /\ State.ks = ks /\ ks[s] # Gone /\ ks[t] # Gone
  BY InvFacts DEF Copy, IsSet
<1>2. Become(w, s, trail[t])
  BY DEF Copy
<1>3. Changed(State, w, s, S, trail[t], ToSet(ks[s].keys), Refs(own))
  BY <1>1, CopyChanged
<1> HIDE DEF w, S
<1>4. Turns(s, S, ToSet(ks[s].keys))
  BY <1>2, <1>3 DEF Turns
<1> QED
  BY <1>1, <1>4 DEF S

LEMMA ClearTurns ==
    ASSUME Inv, NEW s \in Sets, Clear(s)
    PROVE  ks[s] # Gone /\ Turns(s, {}, ToSet(ks[s].keys))
<1>1. Good(State, own, trail) /\ State.ks = ks /\ ks[s] # Gone
  BY InvFacts DEF Clear, IsSet
<1>2. Changed(State, ksClear(State, s), s, {}, {}, ToSet(ks[s].keys), Refs(own))
  BY <1>1, ClearChanged
<1> QED
  BY <1>1, <1>2 DEF Clear, Turns

LEMMA AppendKeyTurns ==
    ASSUME Inv, NEW s \in Sets, NEW k \in Keys, AppendKey(s, k)
    PROVE  ks[s] # Gone /\ ref[k] # Freed /\ Turns(s, Over(ToSet(ks[s].keys), {k}), ToSet(ks[s].keys))
<1> DEFINE u == ksAppendKey(State, s, k)
           T == IF u.ks[s].keys = ks[s].keys THEN trail[s] ELSE Moved
<1>1. Good(State, own, trail) /\ State.ks = ks /\ State.ref = ref /\ ks[s] # Gone /\ ref[k] # Freed
  BY InvFacts DEF AppendKey, IsSet, Live
<1>2. Become(u, s, T)
  BY DEF AppendKey, Added
<1>3. Changed(State, u, s, Over(ToSet(ks[s].keys), {k}), T, ToSet(ks[s].keys), Refs(own))
  BY <1>1, AppendKeyChanged
<1> HIDE DEF u, T
<1> QED
  BY <1>1, <1>2, <1>3 DEF Turns

LEMMA AppendSetTurns ==
    ASSUME Inv, NEW s \in Sets, NEW t \in Sets, s # t, AppendSet(s, t)
    PROVE  /\ ks[s] # Gone /\ ks[t] # Gone
           /\ Turns(s, Over(ToSet(ks[s].keys), ToSet(ks[t].keys)), ToSet(ks[s].keys))
<1> DEFINE q == ks[t].keys
           u == ksAppend(State, s, q)
           T == IF u.ks[s].keys = ks[s].keys THEN trail[s] ELSE Moved
<1>1. Good(State, own, trail) /\ State.ks = ks /\ ks[s] # Gone /\ ks[t] # Gone
  BY InvFacts DEF AppendSet, IsSet
<1>2. q \in Seq(Keys) /\ SortedKeys(q)
  BY <1>1, SetFacts DEF IsSet
<1>3. \A k \in ToSet(q) : Held(State.ks, s, k, Refs(own))
  BY <1>1 DEF Held, Holds
<1>4. Become(u, s, T)
  BY DEF AppendSet, Added
<1> HIDE DEF q
<1>5. Changed(State, u, s, Over(ToSet(ks[s].keys), ToSet(q)), T, ToSet(ks[s].keys), Refs(own))
  BY <1>1, <1>2, <1>3, AppendChanged
<1> HIDE DEF u, T
<1>6. Turns(s, Over(ToSet(ks[s].keys), ToSet(q)), ToSet(ks[s].keys))
  BY <1>4, <1>5 DEF Turns
<1> QED
  BY <1>1, <1>6 DEF q

LEMMA PopTurns ==
    ASSUME Inv, NEW s \in Sets, Pop(s)
    PROVE  LET k == Last(ks[s].keys)
           IN ks[s] # Gone /\ k \in ToSet(ks[s].keys) /\ Turns(s, ToSet(ks[s].keys) \ {k}, {})
<1> DEFINE x == ks[s]
           y == ksPop(x)
           k == Last(x.keys)
           T == IF x.cursor = k THEN Invalid ELSE trail[s]
           u == [State EXCEPT !.ks[s] = y, !.ref = keyDecRef(@, k)]
<1>1. IsSet(s) /\ x.keys # <<>>
  BY DEF Pop
<1>2. /\ Good(State, own, trail) /\ State.ks[s] = x /\ x # Gone /\ Fine(x) /\ trail[s] \in Trails
      /\ Tracks(x, trail[s]) /\ x.keys \in Seq(Keys)
  BY <1>1, SetFacts
<1>3. ToSet(y.keys) = ToSet(x.keys) \ {k} /\ Told(y, T)
  BY <1>1, <1>2, PopStep
<1>4. k \in Keys /\ k \in ToSet(x.keys)
  <2>1. Len(x.keys) \in Nat /\ Len(x.keys) > 0 /\ k = x.keys[Len(x.keys)] /\ k \in Keys
    BY <1>1, <1>2, FrontOut
  <2>2. Len(x.keys) \in 1 .. Len(x.keys)
    BY <2>1
  <2> HIDE DEF k
  <2> QED
    BY <1>2, <2>1, <2>2, ToSetProperties
<1>5. Become(u, s, T)
  BY <1>2 DEF Pop
<1> HIDE DEF y, k, T
<1>6. Changed(State, u, s, ToSet(x.keys) \ {k}, T, {}, Refs(own))
  BY <1>2, <1>3, <1>4, PopChanged
<1> HIDE DEF u
<1>7. Turns(s, ToSet(x.keys) \ {k}, {})
  BY <1>5, <1>6 DEF Turns
<1> QED
  BY <1>2, <1>4, <1>7 DEF k

LEMMA RewindTurns ==
    ASSUME Inv, NEW s \in Sets, Rewind(s)
    PROVE  ks[s] # Gone /\ Turns(s, ToSet(ks[s].keys), {})
<1>1. IsSet(s) /\ Only(s, ksRewind(ks[s]), {})
  BY DEF Rewind
<1>2. Fine(ks[s]) /\ ks[s] # Gone
  BY <1>1, SetFacts
<1>3. Told(ksRewind(ks[s]), {}) /\ ksRewind(ks[s]).keys = ks[s].keys
  BY <1>2, RewindStep DEF SameKeys, Told, Trails
<1> QED
  BY <1>1, <1>2, <1>3, OnlyTurns

LEMMA NextKeyTurns ==
    ASSUME Inv, NEW s \in Sets, NextKey(s)
    PROVE  ks[s] # Gone /\ Turns(s, ToSet(ks[s].keys), {})
<1> DEFINE x == ksNext(ks[s])
           U == IF x = ks[s] \/ x.cursor = NULL \/ trail[s] \in {Moved, Invalid} THEN trail[s]
                ELSE trail[s] \cup {x.cursor}
<1>1. IsSet(s) /\ Only(s, x, U)
  BY DEF NextKey
<1>2. Fine(ks[s]) /\ ks[s] # Gone /\ trail[s] \in Trails /\ Tracks(ks[s], trail[s])
  BY <1>1, SetFacts
<1>3. x.keys = ks[s].keys /\ Told(x, U)
  BY <1>2, NextStep
<1> HIDE DEF x, U
<1> QED
  BY <1>1, <1>2, <1>3, OnlyTurns

\* A lookup that finds the key at position c, and one in vain.
LEMMA FoundTurns ==
    ASSUME Inv, NEW s \in Sets, ks[s] # Gone, NEW c \in Nat, c < Size(ks[s]),
           Only(s, ksSetCursor(ks[s], c), Moved)
    PROVE  Turns(s, ToSet(ks[s].keys), {})
<1> DEFINE x == ksSetCursor(ks[s], c)
<1>1. Fine(ks[s])
  BY SetFacts DEF IsSet
<1>2. SameKeys(ks[s], x) /\ OnKey(x)
  BY <1>1, SetCursorStep
<1>3. Only(s, x, Moved)
  OBVIOUS
<1> HIDE DEF x
<1>4. x.keys = ks[s].keys /\ Fine(x) /\ x \in Keysets
  BY <1>2 DEF SameKeys, Fine
<1>5. Told(x, Moved)
  BY <1>2, <1>4, OnKeyTracks DEF Told, Trails
<1> QED
  BY <1>3, <1>4, <1>5, OnlyTurns

LEMMA NotFoundTurns ==
    ASSUME Inv, NEW s \in Sets, ks[s] # Gone, Only(s, ksSetCursor(ks[s], ksGetCursor(ks[s])), trail[s])
    PROVE  Turns(s, ToSet(ks[s].keys), {})
<1> DEFINE x == ksSetCursor(ks[s], ksGetCursor(ks[s]))
<1>1. Fine(ks[s]) /\ trail[s] \in Trails /\ Tracks(ks[s], trail[s])
  BY SetFacts DEF IsSet
<1>2. x.keys = ks[s].keys /\ Told(x, trail[s])
  BY <1>1, CursorCopied
<1>3. Only(s, x, trail[s])
  OBVIOUS
<1> HIDE DEF x
<1> QED
  BY <1>2, <1>3, OnlyTurns

LEMMA NameTypes ==
    ASSUME NEW name \in Names
    PROVE  name \in Seq(Nat)
  BY Constants DEF Names

LEMMA LookupTurns ==
    ASSUME Inv, NEW s \in Sets, NEW name \in Names, Lookup(s, name)
    PROVE  ks[s] # Gone /\ Turns(s, ToSet(ks[s].keys), {})
<1> DEFINE c == ksSearchInternal(ks[s], name)
<1>1. IsSet(s)
  BY DEF Lookup
<1>2. ks[s] # Gone /\ ks[s] \in Keysets /\ SortedKeys(ks[s].keys) /\ Size(ks[s]) \in Nat
  BY <1>1, SetFacts
<1>3. c \in 0 .. (Size(ks[s]) - 1) \/ (c \in Int /\ c < 0)
  BY <1>2, NameTypes, SearchCorrect
<1>4. /\ c >= 0 => Only(s, ksSetCursor(ks[s], c), Moved)
      /\ ~(c >= 0) => Only(s, ksSetCursor(ks[s], ksGetCursor(ks[s])), trail[s])
  BY DEF Lookup
<1> HIDE DEF c
<1>5. CASE c \in 0 .. (Size(ks[s]) - 1)
  <2>1. c \in Nat /\ c < Size(ks[s]) /\ c >= 0
    BY <1>2, <1>5
  <2> QED
    BY <1>2, <1>4, <2>1, FoundTurns
<1>6. CASE c \in Int /\ c < 0
  <2>1. ~(c >= 0)
    BY <1>6
  <2> QED
    BY <1>2, <1>4, <2>1, NotFoundTurns
<1> QED
  BY <1>3, <1>5, <1>6

LEMMA LookupNoAllTurns ==
    ASSUME Inv, NEW s \in Sets, NEW name \in Names, LookupNoAll(s, name)
    PROVE  ks[s] # Gone /\ Turns(s, ToSet(ks[s].keys), {})
<1> DEFINE x == ks[s]
           n == Size(x)
           from == IF x.cursor = NULL THEN x.current ELSE x.current + 1
           hits == {c \in from .. (n - 1) : NameOf[x.keys[c + 1]] = name}
<1>1. IsSet(s)
  BY DEF LookupNoAll
<1>2. x # Gone /\ n \in Nat /\ x.current \in Nat
  BY <1>1, SetFacts
<1>3. /\ hits # {} => Only(s, ksSetCursor(x, Min(hits)), Moved)
      /\ hits = {} => Only(s, ksSetCursor(x, ksGetCursor(x)), trail[s])
  BY DEF LookupNoAll
<1>4. CASE hits = {}
  BY <1>2, <1>3, <1>4, NotFoundTurns
<1>5. CASE hits # {}
  <2>1. hits \in SUBSET (0 .. n)
    BY <1>2
  <2>2. \A c \in hits : c \in Nat /\ c < n
    BY <1>2
  <2> HIDE DEF hits
  <2>3. \E c \in hits : \A d \in hits : c <= d
    BY <1>2, <1>5, <2>1, LeastElement
  <2>4. Min(hits) \in hits
    BY <2>3 DEF Min
  <2> DEFINE c == Min(hits)
  <2>5. c \in Nat /\ c < Size(ks[s]) /\ Only(s, ksSetCursor(ks[s], c), Moved)
    BY <1>3, <1>5, <2>2, <2>4
  <2> HIDE DEF c
  <2> QED
    BY <1>2, <2>5, FoundTurns
<1> QED
  BY <1>4, <1>5

LEMMA LookupPopTurns ==
    ASSUME Inv, NEW s \in Sets, NEW name \in Names, LookupPop(s, name)
    PROVE  ks[s] # Gone /\ \E k \in Keys : k \in ToSet(ks[s].keys) /\ Turns(s, ToSet(ks[s].keys) \ {k}, {})
<1> DEFINE x == ks[s]
           c == ksSearchInternal(x, name)
           y == elektraKsPopAtCursor(x, c)
           k == x.keys[c + 1]
           u == [State EXCEPT !.ks[s] = y, !.ref = keyDecRef(@, k)]
<1>1. IsSet(s) /\ c >= 0
  BY DEF LookupPop
<1>2. /\ Good(State, own, trail) /\ State.ks[s] = x /\ x # Gone /\ Fine(x) /\ x.keys \in Seq(Keys)
      /\ SortedKeys(x.keys) /\ Size(x) = Len(x.keys) /\ Size(x) \in Nat /\ x \in Keysets
  BY <1>1, SetFacts
<1>3. Become(u, s, {})
  BY <1>2 DEF LookupPop
<1>4. c \in 0 .. (Size(x) - 1) \/ (c \in Int /\ c < 0)
  BY <1>2, NameTypes, SearchCorrect
<1> HIDE DEF c
<1>5. c \in Nat /\ c < Size(x) /\ c < Len(x.keys) /\ c + 1 \in 1 .. Len(x.keys)
  BY <1>1, <1>2, <1>4
<1>6. Fine(y) /\ Rewound(y) /\ y.keys = CutOut(x.keys, c, c + 1)
  BY <1>2, <1>5, PopAtStep
<1>7. ToSet(CutOut(x.keys, c, c + 1)) = ToSet(x.keys) \ {k}
  BY <1>2, <1>5, OneOut
<1>8. k \in Keys /\ k \in ToSet(x.keys)
  BY <1>2, <1>5, KeyNames, ToSetProperties
<1> HIDE DEF y, k
<1>9. Told(y, {}) /\ ToSet(y.keys) = ToSet(x.keys) \ {k}
  BY <1>6, <1>7 DEF Told, Trails
<1>10. Changed(State, u, s, ToSet(x.keys) \ {k}, {}, {}, Refs(own))
  BY <1>2, <1>8, <1>9, PopChanged
<1> HIDE DEF u
<1>11. Turns(s, ToSet(x.keys) \ {k}, {})
  BY <1>3, <1>10 DEF Turns
<1> QED
  BY <1>2, <1>8, <1>11

LEMMA DropCurrentKeyTurns ==
    ASSUME Inv, NEW s \in Sets, DropCurrentKey(s)
    PROVE  /\ ks[s] # Gone
           /\ \E k \in Keys : /\ k \in ToSet(ks[s].keys)
                              /\ Turns(s, ToSet(ks[s].keys) \ {k}, ToSet(ks[s].keys))
<1> DEFINE x == ks[s]
           c == x.current
           y == elektraKsPrev(ksSetCursor(elektraKsPopAtCursor(x, c), c))
           k == x.cursor
           u == [State EXCEPT !.ks[s] = y, !.ref = keyDel(keyDecRef(@, k), k)]
<1>1. IsSet(s) /\ x.cursor # NULL /\ c < Size(x)
  BY DEF DropCurrentKey
<1>2. /\ Good(State, own, trail) /\ State.ks[s] = x /\ x # Gone /\ Fine(x) /\ x.keys \in Seq(Keys)
      /\ SortedKeys(x.keys) /\ Size(x) = Len(x.keys) /\ Size(x) \in Nat /\ c \in Nat
      /\ trail[s] \in Trails /\ Tracks(x, trail[s])
  BY <1>1, SetFacts
<1>3. Become(u, s, trail[s])
  <2>1. ksGetCursor(x) = c
    BY <1>1 DEF ksGetCursor
  <2> QED
    BY <2>1 DEF DropCurrentKey
<1>4. k = x.keys[c + 1] /\ y.keys = CutOut(x.keys, c, c + 1) /\ Told(y, trail[s])
  BY <1>1, <1>2, DropStep
<1>5. ToSet(CutOut(x.keys, c, c + 1)) = ToSet(x.keys) \ {k}
  BY <1>1, <1>2, <1>4, OneOut
<1>6. k \in Keys /\ k \in ToSet(x.keys)
  <2>1. c + 1 \in 1 .. Len(x.keys)
    BY <1>1, <1>2, SMTT(20)
  <2> QED
    BY <1>2, <1>4, <2>1, KeyNames, ToSetProperties
<1> HIDE DEF y, k
<1>7. ToSet(y.keys) = ToSet(x.keys) \ {k}
  BY SMTT(20), <1>4, <1>5
<1>8. Changed(State, u, s, ToSet(x.keys) \ {k}, trail[s], ToSet(x.keys), Refs(own))
  BY <1>2, <1>4, <1>6, <1>7, DropChanged
<1> HIDE DEF u
<1>9. Turns(s, ToSet(x.keys) \ {k}, ToSet(x.keys))
  BY <1>3, <1>8 DEF Turns
<1> QED
  BY <1>2, <1>6, <1>9

LEMMA LookupCreateInv ==
    ASSUME Inv, NEW s \in Sets, NEW k \in Keys, LookupCreate(s, k)
    PROVE  /\ Inv' /\ ks[s] # Gone /\ ref[k] = Freed /\ own' = own
           /\ \A m \in ToSet(ks[s].keys) : NameOf[m] # NameOf[k]
           /\ ks' = [ks EXCEPT ![s] = ks'[s]] /\ ks'[s] # Gone
           /\ ToSet(ks'[s].keys) = ToSet(ks[s].keys) \cup {k}
           /\ \A j \in Keys : ref'[j] # Freed <=> ref[j] # Freed \/ j = k
<1> DEFINE v == Fresh(State, k)
           u == ksAppendKey(v, s, k)
           X == ToSet(ks[s].keys)
           e == Refs(own)
<1>1. Good(State, own, trail) /\ State.ks = ks /\ State.ref = ref /\ ks[s] # Gone /\ ref[k] = Freed
  BY InvFacts DEF LookupCreate, IsSet, Live
<1>2. Become(u, s, Moved) /\ ksSearchInternal(ks[s], NameOf[k]) < 0
  BY DEF LookupCreate, Fresh
<1>3. /\ Good(v, own, trail) /\ v.ks = ks
      /\ \A j \in Keys : v.ref[j] # Freed <=> ref[j] # Freed \/ j = k
      /\ \A m \in X : NameOf[m] # NameOf[k]
      /\ Changed(v, u, s, X \cup {k}, Moved, {}, e)
  BY <1>1, <1>2, CreateChanged
<1> HIDE DEF v, u, e
<1>4. Good(u, own, [trail EXCEPT ![s] = From(u.ks[s], Moved)])
  BY <1>3, ChangedGood DEF e
<1>5. /\ u \in States /\ u.ks = [ks EXCEPT ![s] = u.ks[s]] /\ Told(u.ks[s], Moved)
      /\ ToSet(u.ks[s].keys) = X \cup {k} /\ LiveAfter(v, u, {}, e)
  BY <1>3 DEF Changed
<1>6. /\ ks' = u.ks /\ ref' = u.ref /\ own' = own
      /\ trail' = [trail EXCEPT ![s] = From(u.ks[s], Moved)]
  BY <1>2 DEF Become
<1>7. State' = u
  BY <1>5, <1>6, StateTypes DEF State
<1>8. Inv'
  BY <1>4, <1>6, <1>7 DEF Inv
<1>9. \A j \in Keys : u.ref[j] # Freed <=> v.ref[j] # Freed
  BY <1>5 DEF LiveAfter
<1>10. u.ks[s] # Gone
  BY <1>5, ToldFine
<1> QED
  BY <1>1, <1>3, <1>5, <1>6, <1>8, <1>9, <1>10

\* The keys at a cut point or below it.
BelowCut(name, n) == IF IsCascading(name) THEN IsPrefix(Tail(name), Tail(n)) ELSE IsPrefix(name, n)

LEMMA CutSetInv ==
    ASSUME Inv, NEW s \in Sets, NEW t \in Sets, NEW name \in CutPoints, CutSet(s, t, name)
    PROVE  /\ Inv' /\ ks[s] # Gone /\ ks[t] = Gone /\ own' = own
           /\ CutOff(State, State', s, t, {k \in ToSet(ks[s].keys) : BelowCut(name, NameOf[k])}, Refs(own))
<1> DEFINE a == ksCutCascading(State, s, t, name)
           b == ksCut(State, s, t, name)
           u == IF IsCascading(name) THEN a ELSE b
           C == {k \in ToSet(ks[s].keys) : BelowCut(name, NameOf[k])}
           e == Refs(own)
           w == [trail EXCEPT
                   ![s] = From(u.ks[s], IF Overrun(ks[s]) /\ u.ks[s].keys # ks[s].keys
                                        THEN Invalid ELSE @),
                   ![t] = From(u.ks[t], Moved)]
<1>1. /\ Good(State, own, trail) /\ State.ks = ks /\ State.ref = ref /\ ks[s] # Gone /\ ks[t] = Gone
      /\ State \in States /\ Counted(State, e) /\ e \in [Keys -> Nat]
  BY InvFacts, GoodFacts DEF CutSet, IsSet
<1>2. Fine(ks[s])
  BY <1>1, SetFacts DEF IsSet
<1>3. name \in Seq(Nat) /\ name # <<>>
  BY KeySetAssumption
<1>4. ks' = u.ks /\ ref' = u.ref /\ own' = own /\ trail' = w
  BY DEF CutSet
<1> HIDE DEF e
<1>5. CutOff(State, u, s, t, C, e)
  <2>1. ASSUME IsCascading(name) PROVE CutOff(State, u, s, t, C, e)
    <3>1. CutOff(State, a, s, t, {k \in ToSet(ks[s].keys) : IsPrefix(Tail(name), Tail(NameOf[k]))}, e)
      BY <1>1, <1>2, <1>3, KsCutCascadingProperties
    <3>2. C = {k \in ToSet(ks[s].keys) : IsPrefix(Tail(name), Tail(NameOf[k]))}
      BY <2>1 DEF BelowCut
    <3>3. u = a
      BY <2>1
    <3> HIDE DEF a, u, C
    <3> QED
      BY <3>1, <3>2, <3>3
  <2>2. ASSUME ~IsCascading(name) PROVE CutOff(State, u, s, t, C, e)
    <3>1. CutOff(State, b, s, t, {k \in ToSet(ks[s].keys) : IsPrefix(name, NameOf[k])}, e)
      BY <1>1, <1>2, <1>3, KsCutProperties
    <3>2. C = {k \in ToSet(ks[s].keys) : IsPrefix(name, NameOf[k])}
      BY <2>2 DEF BelowCut
    <3>3. u = b
      BY <2>2
    <3> HIDE DEF b, u, C
    <3> QED
      BY <3>1, <3>2, <3>3
  <2> QED
    BY <2>1, <2>2
<1> HIDE DEF u, C
<1>6. u \in States
  BY <1>5 DEF CutOff
<1>7. State' = u
  BY <1>4, <1>6, StateTypes DEF State
<1>8. Good(u, own, w)
  BY <1>1, <1>5, CutGood DEF e
<1>9. Inv'
  BY <1>4, <1>7, <1>8 DEF Inv
<1> QED
  BY <1>1, <1>4, <1>5, <1>7, <1>9 DEF C, e

\* Every action preserves the invariant.
LEMMA NextInv ==
    ASSUME Inv, Next
    PROVE  Inv'
<1>0. Browsed \subseteq Sets
  BY Constants
<1>1. CASE \E k \in Keys : keyNew(k) \/ Keep(k) \/ Release(k) \/ FreeKey(k)
  BY <1>1, KeyNewInv, KeepInv, ReleaseInv, FreeKeyInv
<1>2. CASE \E s \in Sets : Del(s) \/ Clear(s) \/ \E h \in Hints : New(s, h)
  BY <1>2, DelInv, ClearTurns, NewTurns, TurnsInv
<1>3. CASE \E s, t \in Sets : Dup(s, t) \/ Copy(s, t) \/ (s # t /\ AppendSet(s, t))
  BY <1>3, DupTurns, CopyTurns, AppendSetTurns, TurnsInv
<1>4. CASE \E s \in Browsed, k \in Keys : AppendKey(s, k)
  BY <1>0, <1>4, AppendKeyTurns, TurnsInv
<1>5. CASE \E s, t \in Sets, name \in CutPoints : CutSet(s, t, name)
  BY <1>5, CutSetInv
<1>6. CASE \E s \in Browsed : Pop(s) \/ Rewind(s) \/ NextKey(s) \/ DropCurrentKey(s)
  BY <1>0, <1>6, PopTurns, RewindTurns, NextKeyTurns, DropCurrentKeyTurns, TurnsInv
<1>7. CASE \E s \in Browsed, name \in Names : Lookup(s, name) \/ LookupPop(s, name) \/ LookupNoAll(s, name)
  BY <1>0, <1>7, LookupTurns, LookupPopTurns, LookupNoAllTurns, TurnsInv
<1>8. CASE \E s \in Browsed, k \in Keys : LookupCreate(s, k)
  BY <1>0, <1>8, LookupCreateInv
<1> QED
  BY <1>1, <1>2, <1>3, <1>4, <1>5, <1>6, <1>7, <1>8 DEF Next

LEMMA StutterInv ==
    ASSUME Inv, UNCHANGED vars
    PROVE  Inv'
  BY DEF Inv, State, vars

\* In every reachable state all keysets are in order, the trail of an iteration
\* ends at the cursor of its keyset, and reference counters count references.
THEOREM AlwaysInv == Spec => []Inv
<1>1. Init => Inv
  BY InitInv
<1>2. Inv /\ [Next]_vars => Inv'
  BY NextInv, StutterInv
<1> QED
  BY <1>1, <1>2, PTL DEF Spec

-----------------------------------------------------------------------------
(* What follows from it *)

LEMMA InvSorted ==
    ASSUME Inv
    PROVE  Sorted
<1> SUFFICES ASSUME NEW s \in Sets, IsSet(s), NEW i \in DOMAIN ks[s].keys, NEW j \in DOMAIN ks[s].keys, i < j
    PROVE  Before(NameOf[ks[s].keys[i]], NameOf[ks[s].keys[j]])
  BY DEF Sorted
<1>1. ks[s].keys \in Seq(Keys) /\ SortedKeys(ks[s].keys)
  BY SetFacts
<1>2. DOMAIN ks[s].keys = 1 .. Len(ks[s].keys)
  BY <1>1, LenProperties
<1> QED
  BY <1>1, <1>2 DEF SortedKeys

LEMMA InvTerminated ==
    ASSUME Inv
    PROVE  Terminated
  BY SetFacts DEF Terminated, Fine, Room

LEMMA InvCursorValid ==
    ASSUME Inv
    PROVE  CursorValid
<1> SUFFICES ASSUME NEW s \in Sets, IsSet(s), trail[s] # Invalid
    PROVE  LET x == ks[s]
           IN /\ x.current \in Nat
              /\ IF x.cursor = NULL THEN x.current = 0 \/ x.current >= Size(x)
                 ELSE x.current < Size(x) /\ x.cursor = x.keys[x.current + 1]
  BY DEF CursorValid
<1> DEFINE x == ks[s]
<1>1. x.current \in Nat /\ Size(x) \in Nat /\ CursorAt(x) /\ (x.current >= Size(x) => x.cursor = NULL)
  BY SetFacts DEF Fine, Tracks
<1>2. x.current < Size(x) => x.keys[x.current + 1] # NULL
  BY SMTT(20), <1>1, SetFacts, KeyNames, Constants
<1> HIDE DEF x
<1>3. IF x.cursor = NULL THEN x.current = 0 \/ x.current >= Size(x)
      ELSE x.current < Size(x) /\ x.cursor = x.keys[x.current + 1]
  BY <1>1, <1>2 DEF CursorAt
<1> QED
  BY <1>1, <1>3 DEF x

LEMMA InvSeenUpToCursor ==
    ASSUME Inv
    PROVE  SeenUpToCursor
<1> SUFFICES ASSUME NEW s \in Sets, IsSet(s), trail[s] \notin {Moved, Invalid}
    PROVE  LET x == ks[s]
               n == IF x.cursor # NULL THEN x.current + 1 ELSE IF x.current = 0 THEN 0 ELSE x.current
           IN \A i \in DOMAIN x.keys : x.keys[i] \in trail[s] <=> i <= n
  BY DEF SeenUpToCursor
<1> DEFINE x == ks[s]
           n == IF x.cursor # NULL THEN x.current + 1 ELSE IF x.current = 0 THEN 0 ELSE x.current
<1>1. Seen(x, trail[s])
  BY SetFacts DEF Tracks
<1>2. n = Passed(x)
  BY DEF Passed
<1>3. DOMAIN x.keys = 1 .. Size(x)
  BY SetFacts, LenProperties
<1> HIDE DEF x, n
<1>4. \A i \in DOMAIN x.keys : x.keys[i] \in trail[s] <=> i <= n
  BY <1>1, <1>2, <1>3 DEF Seen
<1> QED
  BY <1>4 DEF x, n

LEMMA InvRefCounts ==
    ASSUME Inv
    PROVE  RefCounts
<1> SUFFICES ASSUME NEW k \in Keys
    PROVE  LET users == Cardinality({s \in Sets : k \in Members(s)}) + (IF k \in own THEN 1 ELSE 0)
           IN IF Live(k) THEN ref[k] = users ELSE users = 0
  BY DEF RefCounts
<1>1. {s \in Sets : k \in Members(s)} = {s \in Sets : Holds(ks, s, k)}
  BY DEF Members, Holds, IsSet
<1>2. Cardinality({s \in Sets : k \in Members(s)}) = Count(ks, k)
  BY <1>1 DEF Count
<1>3. /\ Count(ks, k) \in Nat
      /\ IF ref[k] # Freed THEN ref[k] = Count(ks, k) + Refs(own)[k]
         ELSE Count(ks, k) = 0 /\ Refs(own)[k] = 0
      /\ Refs(own)[k] = IF k \in own THEN 1 ELSE 0
  BY InvFacts
<1> QED
  BY <1>2, <1>3 DEF Live

-----------------------------------------------------------------------------
(* Keysets implement KeyMap *)

\* The values of the abstract variables content and live.
ContentOf(f) == [s \in Sets |-> IF f[s] # Gone THEN ToSet(f[s].keys) ELSE Gone]
LiveIn(r) == {k \in Keys : r[k] # Freed}

LEMMA Abstraction ==
    /\ [s \in Sets |-> IF IsSet(s) THEN Members(s) ELSE Gone] = ContentOf(ks)
    /\ {k \in Keys : Live(k)} = LiveIn(ref)
  BY DEF IsSet, Members, ContentOf, LiveIn, Live

LEMMA AbstractionNext ==
    /\ [s \in Sets |-> IF IsSet(s) THEN Members(s) ELSE Gone]' = ContentOf(ks')
    /\ {k \in Keys : Live(k)}' = LiveIn(ref')
  BY DEF IsSet, Members, ContentOf, LiveIn, Live

LEMMA ContentIn ==
    ASSUME NEW f, NEW s \in Sets, f[s] # Gone => f[s] \in Keysets
    PROVE  /\ ContentOf(f)[s] # Gone <=> f[s] # Gone
           /\ f[s] # Gone => ContentOf(f)[s] = ToSet(f[s].keys)
           /\ f[s] = Gone => ContentOf(f)[s] = Gone
<1>1. ContentOf(f)[s] = IF f[s] # Gone THEN ToSet(f[s].keys) ELSE Gone
  BY DEF ContentOf
<1>2. f[s] # Gone => ToSet(f[s].keys) \in SUBSET Keys
  BY FieldTypes, ToSetProperties
<1>3. f[s] # Gone => ToSet(f[s].keys) # Gone
  BY <1>2, Constants
<1> QED
  BY <1>1, <1>3

LEMMA OwnersCounted ==
    ASSUME NEW f \in [Sets -> Keysets \cup {Gone}], NEW o \in SUBSET Keys, NEW k \in Keys
    PROVE  Map!Owners(ContentOf(f), o, k) <=> Count(f, k) + Refs(o)[k] > 0
<1> DEFINE c == ContentOf(f)
           A == {s \in Sets : c[s] # Gone /\ k \in c[s]}
           B == {s \in Sets : Holds(f, s, k)}
<1>1. \A s \in Sets : c[s] # Gone /\ k \in c[s] <=> Holds(f, s, k)
  BY ContentIn DEF Holds
<1> HIDE DEF c
<1>2. A = B
  BY <1>1
<1>3. Count(f, k) \in Nat /\ (Count(f, k) = 0 <=> B = {})
  BY CountTypes
<1>4. Refs(o)[k] = IF k \in o THEN 1 ELSE 0
  BY RefsType
<1>5. Map!Owners(c, o, k) <=> A # {} \/ k \in o
  BY DEF Map!Owners
<1> HIDE DEF A, B
<1> QED
  BY <1>2, <1>3, <1>4, <1>5 DEF c

\* The keys of D that lost their last owner have died.
LEMMA MapBecome ==
    ASSUME Inv, Inv', own' = own, NEW D, LiveAfter(State, State', D, Refs(own))
    PROVE  Map!Become(ContentOf(ks'), D)
<1>1. ks' \in [Sets -> Keysets \cup {Gone}] /\ own \in SUBSET Keys
  <2>1. Good(State', own', trail') /\ State'.ks = ks'
    BY DEF Inv, State
  <2> QED
    BY <2>1, InvFacts, GoodFacts
<1>2. \A k \in Keys : ref'[k] # Freed <=> ref[k] # Freed /\ (k \in D => Count(ks', k) + Refs(own)[k] > 0)
  BY DEF LiveAfter, State
<1>3. \A k \in Keys : Map!Owners(ContentOf(ks'), own, k) <=> Count(ks', k) + Refs(own)[k] > 0
  BY <1>1, OwnersCounted
<1>4. LiveIn(ref') = {k \in LiveIn(ref) : k \in D => Map!Owners(ContentOf(ks'), own, k)}
  BY <1>2, <1>3 DEF LiveIn
<1>5. {k \in Keys : Live(k)}' = {k \in {j \in Keys : Live(j)} : k \in D => Map!Owners(ContentOf(ks'), own, k)}
  BY <1>4, Abstraction, AbstractionNext
<1> QED
  BY <1>5, AbstractionNext DEF Map!Become

LEMMA SetAbstract ==
    ASSUME Inv, NEW s \in Sets
    PROVE  /\ Map!IsSet(s) <=> ks[s] # Gone
           /\ Map!Contents(s) = IF ks[s] # Gone THEN ToSet(ks[s].keys) ELSE {}
           /\ ks[s] # Gone => ContentOf(ks)[s] = ToSet(ks[s].keys)
<1>1. ks[s] # Gone => ks[s] \in Keysets
  BY InvFacts
<1>2. /\ ContentOf(ks)[s] # Gone <=> ks[s] # Gone
      /\ ks[s] # Gone => ContentOf(ks)[s] = ToSet(ks[s].keys)
  BY <1>1, ContentIn
<1>3. Map!IsSet(s) <=> ContentOf(ks)[s] # Gone
  BY Abstraction DEF Map!IsSet
<1>4. Map!Contents(s) = IF Map!IsSet(s) THEN ContentOf(ks)[s] ELSE {}
  BY Abstraction DEF Map!Contents
<1> QED
  BY <1>2, <1>3, <1>4

\* What an operation on one keyset is to those who see its content.
LEMMA TurnsFacts ==
    ASSUME Inv, NEW s \in Sets, NEW S, NEW D, Turns(s, S, D)
    PROVE  /\ Inv' /\ own' = own /\ LiveAfter(State, State', D, Refs(own))
           /\ ContentOf(ks') = [ContentOf(ks) EXCEPT ![s] = S]
<1>1. PICK u, T : Changed(State, u, s, S, T, D, Refs(own)) /\ Become(u, s, T)
  BY DEF Turns
<1>2. /\ u \in States /\ u.ks = [ks EXCEPT ![s] = u.ks[s]] /\ Told(u.ks[s], T)
      /\ ToSet(u.ks[s].keys) = S /\ LiveAfter(State, u, D, Refs(own))
  BY <1>1, InvFacts DEF Changed
<1>3. ks' = u.ks /\ ref' = u.ref /\ own' = own
  BY <1>1 DEF Become
<1>4. State' = u
  BY <1>2, <1>3, StateTypes DEF State
<1>5. Inv'
  BY TurnsInv
<1>6. u.ks[s] # Gone
  BY <1>2, ToldFine
<1>7. \A t \in Sets : ContentOf(u.ks)[t] = IF t = s THEN S ELSE ContentOf(ks)[t]
  <2> SUFFICES ASSUME NEW t \in Sets
      PROVE  ContentOf(u.ks)[t] = IF t = s THEN S ELSE ContentOf(ks)[t]
    OBVIOUS
  <2>1. t # s => u.ks[t] = ks[t]
    BY <1>2, InvFacts
  <2> QED
    BY <1>2, <1>6, <2>1 DEF ContentOf
<1>8. ContentOf(u.ks) = [ContentOf(ks) EXCEPT ![s] = S]
  BY <1>7 DEF ContentOf
<1> QED
  BY <1>2, <1>3, <1>4, <1>5, <1>8

LEMMA MapReplace ==
    ASSUME Inv, NEW s \in Sets, NEW S, NEW D, Turns(s, S, D),
           D = IF ks[s] # Gone THEN ToSet(ks[s].keys) ELSE {}
    PROVE  Map!Replace(s, S)
<1>1. Map!Become(ContentOf(ks'), D)
  BY TurnsFacts, MapBecome
<1>2. Map!Become([ContentOf(ks) EXCEPT ![s] = S], D)
  BY <1>1, TurnsFacts
<1>3. Map!Contents(s) = D
  BY SetAbstract
<1> QED
  BY <1>2, <1>3, Abstraction DEF Map!Replace

LEMMA MapTake ==
    ASSUME Inv, NEW s \in Sets, ks[s] # Gone, NEW k, k \in ToSet(ks[s].keys),
           Turns(s, ToSet(ks[s].keys) \ {k}, {})
    PROVE  Map!Take(s, k)
<1>1. Map!Become(ContentOf(ks'), {})
  BY TurnsFacts, MapBecome
<1>2. ContentOf(ks)[s] = ToSet(ks[s].keys) /\ Map!IsSet(s)
  BY SetAbstract
<1>3. ContentOf(ks') = [ContentOf(ks) EXCEPT ![s] = ToSet(ks[s].keys) \ {k}]
  BY TurnsFacts
<1>4. Map!Become([ContentOf(ks) EXCEPT ![s] = ContentOf(ks)[s] \ {k}], {})
  BY <1>1, <1>2, <1>3
<1> QED
  BY <1>2, <1>4, Abstraction DEF Map!Take

\* Searching and moving the cursor leave what others see.
LEMMA MapStutter ==
    ASSUME Inv, NEW s \in Sets, ks[s] # Gone, Turns(s, ToSet(ks[s].keys), {})
    PROVE  UNCHANGED Map!vars
<1>1. ContentOf(ks') = [ContentOf(ks) EXCEPT ![s] = ContentOf(ks)[s]] /\ own' = own
  BY TurnsFacts, SetAbstract
<1>2. ContentOf(ks') = ContentOf(ks)
  BY <1>1 DEF ContentOf
<1>3. LiveAfter(State, State', {}, Refs(own))
  BY TurnsFacts
<1>4. LiveIn(ref') = LiveIn(ref)
  BY <1>3 DEF LiveAfter, LiveIn, State
<1> QED
  BY <1>1, <1>2, <1>4, Abstraction, AbstractionNext DEF Map!vars

LEMMA MapKeys ==
    ASSUME Inv, NEW k \in Keys, keyNew(k) \/ Keep(k) \/ Release(k) \/ FreeKey(k)
    PROVE  Map!Next
<1>0. ref \in [Keys -> Int] /\ own \in SUBSET Keys
  BY InvFacts
<1>1. CASE keyNew(k)
  <2>1. ref' = [ref EXCEPT ![k] = 0] /\ ref[k] = Freed /\ ks' = ks /\ own' = own
    BY <1>1 DEF keyNew, Live
  <2>2. LiveIn(ref') = LiveIn(ref) \cup {k} /\ k \notin LiveIn(ref)
    BY <1>0, <2>1 DEF LiveIn, Freed
  <2>3. Map!NewKey(k)
    BY <2>1, <2>2, Abstraction, AbstractionNext DEF Map!NewKey
  <2> QED
    BY <2>3 DEF Map!Next
<1>2. CASE Keep(k)
  <2>1. ref' = keyIncRef(ref, k) /\ ref[k] # Freed /\ k \notin own /\ own' = own \cup {k} /\ ks' = ks
    BY <1>2 DEF Keep, Live
  <2>2. ref[k] \in Nat
    BY <2>1, InvFacts
  <2>3. LiveIn(ref') = LiveIn(ref) /\ k \in LiveIn(ref)
    BY <1>0, <2>1, <2>2 DEF LiveIn, keyIncRef, Freed
  <2>4. Map!Keep(k)
    BY <2>1, <2>3, Abstraction, AbstractionNext DEF Map!Keep
  <2> QED
    BY <2>4 DEF Map!Next
<1>3. CASE Release(k)
  <2>1. ref' = keyDecRef(ref, k) /\ k \in own /\ own' = own \ {k} /\ ks' = ks
    BY <1>3 DEF Release
  <2>2. ref[k] # Freed /\ ref'[k] # Freed /\ \A j \in Keys \ {k} : ref'[j] = ref[j]
    BY <1>0, <1>3, <2>1, ReleaseInv DEF keyDecRef
  <2>3. LiveIn(ref') = LiveIn(ref)
    BY <2>2 DEF LiveIn
  <2>4. Map!Release(k)
    BY <2>1, <2>3, Abstraction, AbstractionNext DEF Map!Release
  <2> QED
    BY <2>4 DEF Map!Next
<1>4. CASE FreeKey(k)
  <2>1. ref' = keyDel(ref, k) /\ own' = own /\ ks' = ks
    BY <1>4 DEF FreeKey
  <2>2. Inv' /\ ref'[k] = Freed /\ Count(ks, k) = 0 /\ k \notin own
    BY <1>4, FreeKeyInv
  <2>3. \A j \in Keys \ {k} : ref'[j] = ref[j]
    BY <1>0, <2>1 DEF keyDel
  <2>4. LiveAfter(State, State', {k}, Refs(own))
    <3>1. Refs(own)[k] = 0
      BY <1>0, <2>2, RefsType
    <3>2. ~(Count(ks, k) + Refs(own)[k] > 0)
      BY <2>2, <3>1
    <3> QED
      BY <2>1, <2>2, <2>3, <3>2 DEF LiveAfter, State
  <2>5. Map!Become(ContentOf(ks), {k})
    BY <2>1, <2>2, <2>4, MapBecome
  <2>6. Map!FreeKey(k)
    BY <2>5, Abstraction DEF Map!FreeKey
  <2> QED
    BY <2>6 DEF Map!Next
<1> QED
  BY <1>1, <1>2, <1>3, <1>4

LEMMA MapNewDel ==
    ASSUME Inv, NEW s \in Sets, Del(s) \/ Clear(s) \/ \E h \in Hints : New(s, h)
    PROVE  Map!Next
<1>1. CASE Del(s)
  <2>1. /\ Inv' /\ ks[s] # Gone /\ ks' = [ks EXCEPT ![s] = Gone] /\ own' = own
        /\ LiveAfter(State, State', ToSet(ks[s].keys), Refs(own))
    BY <1>1, DelInv
  <2>2. ContentOf(ks') = [ContentOf(ks) EXCEPT ![s] = Gone]
    BY <2>1, InvFacts DEF ContentOf
  <2>3. Map!Become([ContentOf(ks) EXCEPT ![s] = Gone], ToSet(ks[s].keys))
    BY <2>1, <2>2, MapBecome
  <2>4. Map!IsSet(s) /\ Map!Contents(s) = ToSet(ks[s].keys)
    BY <2>1, SetAbstract
  <2>5. Map!Replace(s, Gone)
    BY <2>3, <2>4, Abstraction DEF Map!Replace
  <2>6. Map!Del(s)
    BY <2>4, <2>5 DEF Map!Del
  <2> QED
    BY <2>6 DEF Map!Next
<1>2. CASE Clear(s)
  <2>1. ks[s] # Gone /\ Map!Replace(s, {})
    BY <1>2, ClearTurns, MapReplace
  <2>2. Map!Clear(s)
    BY <2>1, SetAbstract DEF Map!Clear
  <2> QED
    BY <2>2 DEF Map!Next
<1>3. CASE \E h \in Hints : New(s, h)
  <2>1. ks[s] = Gone /\ Map!Replace(s, {})
    BY <1>3, NewTurns, MapReplace
  <2>2. Map!New(s)
    BY <2>1, SetAbstract DEF Map!New
  <2> QED
    BY <2>2 DEF Map!Next
<1> QED
  BY <1>1, <1>2, <1>3

LEMMA OverIsOverride ==
    ASSUME NEW S, NEW T
    PROVE  Map!Override(S, T) = Over(S, T)
  BY DEF Map!Override, Over

LEMMA MapTwoSets ==
    ASSUME Inv, NEW s \in Sets, NEW t \in Sets, Dup(s, t) \/ Copy(s, t) \/ (s # t /\ AppendSet(s, t))
    PROVE  Map!Next
<1>1. CASE Dup(s, t)
  <2>1. ks[s] = Gone /\ ks[t] # Gone /\ Map!Replace(s, ToSet(ks[t].keys))
    BY <1>1, DupTurns, MapReplace
  <2>2. ~Map!IsSet(s) /\ Map!IsSet(t) /\ Map!Replace(s, ContentOf(ks)[t])
    BY <2>1, SetAbstract
  <2>3. Map!Dup(s, t)
    BY <2>2, Abstraction DEF Map!Dup
  <2> QED
    BY <2>3 DEF Map!Next
<1>2. CASE Copy(s, t) /\ s = t
  <2>1. ks[s] # Gone /\ Turns(s, {}, ToSet(ks[s].keys))
    BY <1>2, CopyTurns
  <2>2. Map!Replace(s, {})
    BY <2>1, MapReplace
  <2>3. Map!Clear(s)
    BY <2>1, <2>2, SetAbstract DEF Map!Clear
  <2> QED
    BY <2>3 DEF Map!Next
<1>3. CASE Copy(s, t) /\ s # t
  <2>1. ks[s] # Gone /\ ks[t] # Gone /\ Turns(s, ToSet(ks[t].keys), ToSet(ks[s].keys))
    BY <1>3, CopyTurns
  <2>2. Map!Replace(s, ContentOf(ks)[t]) /\ Map!IsSet(s) /\ Map!IsSet(t)
    BY <2>1, MapReplace, SetAbstract
  <2>3. Map!Copy(s, t)
    BY <1>3, <2>2, Abstraction DEF Map!Copy
  <2> QED
    BY <2>3 DEF Map!Next
<1>4. CASE s # t /\ AppendSet(s, t)
  <2>1. ks[s] # Gone /\ ks[t] # Gone /\ Map!Replace(s, Over(ToSet(ks[s].keys), ToSet(ks[t].keys)))
    BY <1>4, AppendSetTurns, MapReplace
  <2>2. Map!IsSet(s) /\ Map!IsSet(t) /\ Map!Replace(s, Map!Override(ContentOf(ks)[s], ContentOf(ks)[t]))
    BY <2>1, SetAbstract, OverIsOverride
  <2>3. Map!Append(s, t)
    BY <2>2, Abstraction DEF Map!Append
  <2> QED
    BY <2>3 DEF Map!Next
<1> QED
  BY <1>1, <1>2, <1>3, <1>4

LEMMA MapAppendKey ==
    ASSUME Inv, NEW s \in Sets, NEW k \in Keys, AppendKey(s, k)
    PROVE  Map!Next
<1>1. ks[s] # Gone /\ ref[k] # Freed /\ Map!Replace(s, Over(ToSet(ks[s].keys), {k}))
  BY AppendKeyTurns, MapReplace
<1>2. Map!IsSet(s) /\ k \in LiveIn(ref) /\ Map!Replace(s, Map!Override(ContentOf(ks)[s], {k}))
  BY <1>1, SetAbstract, OverIsOverride DEF LiveIn
<1>3. Map!Put(s, k)
  BY <1>2, Abstraction DEF Map!Put
<1> QED
  BY <1>3 DEF Map!Next

LEMMA MapDrop ==
    ASSUME Inv, NEW s \in Sets, DropCurrentKey(s)
    PROVE  Map!Next
<1>1. PICK k \in Keys : k \in ToSet(ks[s].keys) /\ Turns(s, ToSet(ks[s].keys) \ {k}, ToSet(ks[s].keys))
  BY DropCurrentKeyTurns
<1>2. ks[s] # Gone
  BY DropCurrentKeyTurns
<1>3. Map!Replace(s, ToSet(ks[s].keys) \ {k})
  BY <1>1, <1>2, MapReplace
<1>4. Map!IsSet(s) /\ k \in ContentOf(ks)[s] /\ Map!Replace(s, ContentOf(ks)[s] \ {k})
  BY <1>1, <1>2, <1>3, SetAbstract
<1>5. Map!Remove(s, k)
  BY <1>4, Abstraction DEF Map!Remove
<1> QED
  BY <1>5 DEF Map!Next

LEMMA MapCreate ==
    ASSUME Inv, NEW s \in Sets, NEW k \in Keys, LookupCreate(s, k)
    PROVE  Map!Next
<1>1. /\ ks[s] # Gone /\ ref[k] = Freed /\ own' = own
      /\ \A m \in ToSet(ks[s].keys) : NameOf[m] # NameOf[k]
      /\ ks' = [ks EXCEPT ![s] = ks'[s]] /\ ks'[s] # Gone
      /\ ToSet(ks'[s].keys) = ToSet(ks[s].keys) \cup {k}
      /\ \A j \in Keys : ref'[j] # Freed <=> ref[j] # Freed \/ j = k
  BY LookupCreateInv
<1>2. ContentOf(ks)[s] = ToSet(ks[s].keys) /\ Map!IsSet(s)
  BY <1>1, SetAbstract
<1>3. \A t \in Sets : ContentOf(ks')[t] = IF t = s THEN ContentOf(ks)[s] \cup {k} ELSE ContentOf(ks)[t]
  <2> SUFFICES ASSUME NEW t \in Sets
      PROVE  ContentOf(ks')[t] = IF t = s THEN ContentOf(ks)[s] \cup {k} ELSE ContentOf(ks)[t]
    OBVIOUS
  <2>1. t # s => ks'[t] = ks[t]
    BY <1>1, InvFacts
  <2> QED
    BY <1>1, <1>2, <2>1 DEF ContentOf
<1>4. ContentOf(ks') = [ContentOf(ks) EXCEPT ![s] = ContentOf(ks)[s] \cup {k}]
  BY <1>3 DEF ContentOf
<1>5. LiveIn(ref') = LiveIn(ref) \cup {k} /\ k \notin LiveIn(ref)
  BY <1>1 DEF LiveIn
<1>6. Map!Create(s, k)
  BY SMTT(20), <1>1, <1>2, <1>4, <1>5, Abstraction, AbstractionNext DEF Map!Create
<1> QED
  BY <1>6 DEF Map!Next

LEMMA MapCut ==
    ASSUME Inv, NEW s \in Sets, NEW t \in Sets, NEW name \in CutPoints, CutSet(s, t, name)
    PROVE  Map!Next
<1> DEFINE X == ToSet(ks[s].keys)
           C == {k \in X : BelowCut(name, NameOf[k])}
<1>1. /\ Inv' /\ ks[s] # Gone /\ ks[t] = Gone /\ own' = own
      /\ CutOff(State, State', s, t, C, Refs(own))
  BY CutSetInv
<1>2. /\ \A r \in Sets \ {s, t} : ks'[r] = ks[r]
      /\ Fine(ks'[s]) /\ Fine(ks'[t]) /\ ToSet(ks'[s].keys) = X \ C /\ ToSet(ks'[t].keys) = C
      /\ \A k \in Keys : ref'[k] # Freed <=> ref[k] # Freed
  BY <1>1 DEF CutOff, State
<1>3. ks'[s] # Gone /\ ks'[t] # Gone
  BY <1>2, Constants DEF Fine
<1>4. ContentOf(ks)[s] = X /\ Map!IsSet(s) /\ ~Map!IsSet(t) /\ s # t
  BY <1>1, SetAbstract
<1>5. ContentOf(ks') = [ContentOf(ks) EXCEPT ![s] = ContentOf(ks)[s] \ C, ![t] = C]
  <2> HIDE DEF C, X
  <2>1. \A r \in Sets : ContentOf(ks')[r] = IF r = t THEN C ELSE IF r = s THEN X \ C ELSE ContentOf(ks)[r]
    BY <1>2, <1>3, <1>4 DEF ContentOf
  <2> QED
    BY <1>4, <2>1 DEF ContentOf
<1>6. LiveAfter(State, State', {}, Refs(own))
  BY <1>2 DEF LiveAfter, State
<1>7. Map!Become(ContentOf(ks'), {})
  BY <1>1, <1>6, MapBecome
<1>8. C = {k \in ContentOf(ks)[s] : IF IsCascading(name) THEN IsPrefix(Tail(name), Tail(NameOf[k]))
                                    ELSE IsPrefix(name, NameOf[k])}
  BY <1>4 DEF BelowCut
<1> HIDE DEF C, X
<1>9. Map!Become([ContentOf(ks) EXCEPT ![s] = ContentOf(ks)[s] \ C, ![t] = C], {})
  BY <1>5, <1>7
<1>10. Map!Cut(s, t, name)
  BY <1>4, <1>8, <1>9, Abstraction DEF Map!Cut
<1> QED
  BY <1>10 DEF Map!Next

\* Every step of the keysets is a step of the sets they stand for, or none.
LEMMA MapNext ==
    ASSUME Inv, [Next]_vars
    PROVE  [Map!Next]_(Map!vars)
<1>0. Browsed \subseteq Sets
  BY Constants
<1>1. CASE \E k \in Keys : keyNew(k) \/ Keep(k) \/ Release(k) \/ FreeKey(k)
  BY <1>1, MapKeys
<1>2. CASE \E s \in Sets : Del(s) \/ Clear(s) \/ \E h \in Hints : New(s, h)
  BY <1>2, MapNewDel
<1>3. CASE \E s, t \in Sets : Dup(s, t) \/ Copy(s, t) \/ (s # t /\ AppendSet(s, t))
  BY <1>3, MapTwoSets
<1>4. CASE \E s \in Browsed, k \in Keys : AppendKey(s, k)
  BY <1>0, <1>4, MapAppendKey
<1>5. CASE \E s, t \in Sets, name \in CutPoints : CutSet(s, t, name)
  BY <1>5, MapCut
<1>6. CASE \E s \in Browsed : Pop(s)
  <2>1. PICK s \in Browsed : Pop(s)
    BY <1>6
  <2> DEFINE k == Last(ks[s].keys)
  <2>2. ks[s] # Gone /\ k \in ToSet(ks[s].keys) /\ Turns(s, ToSet(ks[s].keys) \ {k}, {})
    BY <1>0, <2>1, PopTurns
  <2>3. k \in Keys
    BY <1>0, <2>2, SetFacts DEF IsSet
  <2> HIDE DEF k
  <2>4. Map!Take(s, k)
    BY <1>0, <2>2, MapTake
  <2> QED
    BY <1>0, <2>3, <2>4 DEF Map!Next
<1>7. CASE \E s \in Browsed, name \in Names : LookupPop(s, name)
  <2>1. PICK s \in Browsed, name \in Names : LookupPop(s, name)
    BY <1>7
  <2>2. PICK k \in Keys : k \in ToSet(ks[s].keys) /\ Turns(s, ToSet(ks[s].keys) \ {k}, {})
    BY <1>0, <2>1, LookupPopTurns
  <2>3. Map!Take(s, k)
    BY <1>0, <2>1, <2>2, LookupPopTurns, MapTake
  <2> QED
    BY <1>0, <2>3 DEF Map!Next
<1>8. CASE \E s \in Browsed : DropCurrentKey(s)
  BY <1>0, <1>8, MapDrop
<1>9. CASE \E s \in Browsed, k \in Keys : LookupCreate(s, k)
  BY <1>0, <1>9, MapCreate
<1>10. CASE \E s \in Browsed : Rewind(s) \/ NextKey(s)
  BY <1>0, <1>10, RewindTurns, NextKeyTurns, MapStutter
<1>11. CASE \E s \in Browsed, name \in Names : Lookup(s, name) \/ LookupNoAll(s, name)
  BY <1>0, <1>11, LookupTurns, LookupNoAllTurns, MapStutter
<1>12. CASE UNCHANGED vars
  <2>1. ks' = ks /\ ref' = ref /\ own' = own
    BY <1>12 DEF vars
  <2> QED
    BY <2>1, Abstraction, AbstractionNext DEF Map!vars
<1> QED
  BY <1>1, <1>2, <1>3, <1>4, <1>5, <1>6, <1>7, <1>8, <1>9, <1>10, <1>11, <1>12 DEF Next

LEMMA MapInit ==
    ASSUME Init
    PROVE  Map!Init
<1>1. \A s \in Sets : ~IsSet(s)
  BY DEF Init, IsSet
<1>2. \A k \in Keys : ~Live(k)
  BY DEF Init, Live
<1>3. own = {}
  BY DEF Init
<1> QED
  BY <1>1, <1>2, <1>3 DEF Map!Init

-----------------------------------------------------------------------------
(* Theorems *)

\* However keysets are appended to, merged, cut, popped, copied and looked up in,
\* each of them stays sorted by name and holds a name once, as ksSearchInternal()
\* needs it: for any keys, names and number of keysets.
THEOREM SpecSorted == Spec => []Sorted
<1>1. Inv => Sorted
  BY InvSorted
<1> QED
  BY <1>1, AlwaysInv, PTL

\* No operation ever fills the array of a keyset: the null pointer behind the
\* keys, at which ksNext() and ksClose() stop, has its place, and is there.
THEOREM SpecTerminated == Spec => []Terminated
<1>1. Inv => Terminated
  BY InvTerminated
<1> QED
  BY <1>1, AlwaysInv, PTL

\* The cursor and its position belong together, unless ksPop() took the key at
\* the cursor, or ksCut() met a cursor that ksPop() had left behind the end.
THEOREM SpecCursorValid == Spec => []CursorValid
<1>1. Inv => CursorValid
  BY InvCursorValid
<1> QED
  BY <1>1, AlwaysInv, PTL

\* An iteration with ksNext() has come past exactly the keys up to the cursor,
\* whatever was dropped, cut, popped or looked up in vain in between: it skips no
\* key and visits none twice.
THEOREM SpecSeenUpToCursor == Spec => []SeenUpToCursor
<1>1. Inv => SeenUpToCursor
  BY InvSeenUpToCursor
<1> QED
  BY <1>1, AlwaysInv, PTL

\* The reference counter of a key is the number of its users, over all ways in
\* which keysets take over, share, replace and give up keys: no key is freed
\* while a keyset holds it, and none is leaked by ksDel(), ksClear() or ksCut().
THEOREM SpecRefCounts == Spec => []RefCounts
<1>1. Inv => RefCounts
  BY InvRefCounts
<1> QED
  BY <1>1, AlwaysInv, PTL

\* Keysets implement KeyMap: seen through their content alone, every operation
\* does to sets of keys what its name says, and a key object lives as long as
\* someone has it.
THEOREM SpecMapSpec == Spec => MapSpec
<1>1. Init => Map!Init
  BY MapInit
<1>2. Inv /\ [Next]_vars => [Map!Next]_(Map!vars)
  BY MapNext
<1> QED
  BY <1>1, <1>2, AlwaysInv, PTL DEF Spec, MapSpec, Map!Spec
=============================================================================
