---------------------------- MODULE LookupProofs ----------------------------
(***************************************************************************)
(* What ksLookup() finds, for any names, specification keys and keysets.   *)
(*                                                                         *)
(* elektraLookupBySpec() and its links call each other: with recursive     *)
(* functions that exist (LoopExists) the two tables that a call goes       *)
(* through agree with the list of names it promises, level by level.       *)
(* Default keys that earlier calls have left are in the namespace          *)
(* "default" only, which is searched last.  And a call that never returns  *)
(* follows a chain of more links than there are paths: one path comes      *)
(* twice, and the links between are a cycle.                               *)
(***************************************************************************)
EXTENDS Lookup, DataInduction

\* What the assumption says of the constants.
LEMMA Constants ==
    /\ \A m \in Specs : m \in [Paths -> Metadata]
    /\ \A S \in Contents : S \in SUBSET Names
    /\ IsFiniteSet(Paths) /\ Depth \in Nat /\ Cardinality(Paths) <= Depth + 1
    /\ NULL \notin Names /\ NULL \notin Paths /\ NULL # Overflow /\ Overflow \notin Names
  BY LookupAssumption

-----------------------------------------------------------------------------
(* The first result *)

\* FirstOf returns NULL when all results are NULL, and otherwise the one behind
\* nothing but NULL.
LEMMA FirstOfNone ==
    ASSUME NEW n \in Nat, NEW r, DOMAIN r = 1 .. n, \A i \in 1 .. n : r[i] = NULL
    PROVE  FirstOf(r) = NULL
  BY DEF FirstOf

LEMMA FirstOfSome ==
    ASSUME NEW n \in Nat, NEW r, DOMAIN r = 1 .. n, NEW i \in 1 .. n, r[i] # NULL,
           \A j \in 1 .. (i - 1) : r[j] = NULL
    PROVE  FirstOf(r) = r[i]
<1> DEFINE hits == {j \in 1 .. n : r[j] # NULL}
<1>1. hits \in SUBSET (1 .. n) /\ hits # {} /\ i \in hits
  OBVIOUS
<1>2. Min(hits) \in hits /\ \A y \in hits : Min(hits) <= y
  BY <1>1, MinIsLeast
<1>3. Min(hits) = i
  <2>1. Min(hits) \in 1 .. n /\ Min(hits) <= i /\ r[Min(hits)] # NULL
    BY <1>1, <1>2
  <2>2. ~(Min(hits) \in 1 .. (i - 1))
    BY <2>1
  <2> HIDE DEF hits
  <2> QED
    BY <2>1, <2>2
<1> QED
  BY <1>1, <1>3 DEF FirstOf

LEMMA FirstOfCases ==
    ASSUME NEW n \in Nat, NEW r, DOMAIN r = 1 .. n
    PROVE  \/ FirstOf(r) = NULL /\ \A i \in 1 .. n : r[i] = NULL
           \/ \E i \in 1 .. n : /\ r[i] # NULL /\ FirstOf(r) = r[i]
                                /\ \A j \in 1 .. (i - 1) : r[j] = NULL
<1> DEFINE hits == {j \in 1 .. n : r[j] # NULL}
<1>1. CASE hits = {}
  BY <1>1, FirstOfNone
<1>2. CASE hits # {}
  <2>1. Min(hits) \in hits /\ \A y \in hits : Min(hits) <= y
    BY <1>2, MinIsLeast, hits \in SUBSET (1 .. n)
  <2>2. PICK i \in 1 .. n : i = Min(hits)
    BY <2>1
  <2>3. r[i] # NULL /\ \A j \in 1 .. (i - 1) : r[j] = NULL
    <3>1. ASSUME NEW j \in 1 .. (i - 1), r[j] # NULL PROVE FALSE
      <4>1. j \in hits /\ i <= j
        BY <2>1, <2>2, <3>1
      <4> QED
        BY <4>1
    <3> QED
      BY <2>1, <2>2, <3>1
  <2>4. FirstOf(r) = r[i]
    BY <2>3, FirstOfSome
  <2> QED
    BY <2>3, <2>4
<1> QED
  BY <1>1, <1>2

\* The first of two.
Or(a, b) == IF a # NULL THEN a ELSE b

\* The first of all is the first of the beginning, or else of the rest.
Joined(m, n, r, s, t) ==
    /\ DOMAIN r = 1 .. (m + n) /\ DOMAIN s = 1 .. m /\ DOMAIN t = 1 .. n
    /\ \A i \in 1 .. m : s[i] = r[i]
    /\ \A i \in 1 .. n : t[i] = r[m + i]

LEMMA FirstOfJoined ==
    ASSUME NEW m \in Nat, NEW n \in Nat, NEW r, NEW s, NEW t, Joined(m, n, r, s, t)
    PROVE  FirstOf(r) = Or(FirstOf(s), FirstOf(t))
<1> USE DEF Joined
<1>0. m + n \in Nat /\ \A i \in 1 .. m : i \in 1 .. (m + n)
  OBVIOUS
<1>1. ASSUME NEW i \in 1 .. m, s[i] # NULL, FirstOf(s) = s[i], \A j \in 1 .. (i - 1) : s[j] = NULL
      PROVE  FirstOf(r) = Or(FirstOf(s), FirstOf(t))
  <2>1. i \in 1 .. (m + n) /\ r[i] = s[i] /\ r[i] # NULL /\ \A j \in 1 .. (i - 1) : r[j] = NULL
    BY <1>1
  <2>2. FirstOf(r) = r[i]
    BY <1>0, <2>1, FirstOfSome
  <2> QED
    BY <1>1, <2>1, <2>2 DEF Or
<1>2. ASSUME FirstOf(s) = NULL, \A i \in 1 .. m : s[i] = NULL
      PROVE  FirstOf(r) = Or(FirstOf(s), FirstOf(t))
  <2>0. \A i \in 1 .. m : r[i] = NULL
    BY <1>2
  <2>1. CASE FirstOf(t) = NULL /\ \A i \in 1 .. n : t[i] = NULL
    <3>1. ASSUME NEW i \in 1 .. (m + n) PROVE r[i] = NULL
      <4>1. i \in 1 .. m \/ (i - m \in 1 .. n /\ m + (i - m) = i)
        OBVIOUS
      <4> QED
        BY <2>0, <2>1, <4>1
    <3>2. FirstOf(r) = NULL
      BY <1>0, <3>1, FirstOfNone
    <3> QED
      BY <1>2, <2>1, <3>2 DEF Or
  <2>2. ASSUME NEW i \in 1 .. n, t[i] # NULL, FirstOf(t) = t[i], \A j \in 1 .. (i - 1) : t[j] = NULL
        PROVE  FirstOf(r) = Or(FirstOf(s), FirstOf(t))
    <3>1. PICK k \in 1 .. (m + n) : k = m + i /\ r[k] = t[i] /\ r[k] # NULL
      BY <2>2
    <3>2. ASSUME NEW j \in 1 .. (k - 1) PROVE r[j] = NULL
      <4>1. j \in 1 .. m \/ (j - m \in 1 .. (i - 1) /\ j - m \in 1 .. n /\ m + (j - m) = j)
        BY <3>1
      <4> QED
        BY <2>0, <2>2, <4>1
    <3>3. FirstOf(r) = r[k]
      <4>1. m + n \in Nat /\ DOMAIN r = 1 .. (m + n) /\ r[k] # NULL
        BY <1>0, <3>1
      <4> HIDE DEF Joined
      <4> QED
        BY ONLY <3>2, <4>1, FirstOfSome, k \in 1 .. (m + n)
    <3> QED
      BY <1>2, <2>2, <3>1, <3>3 DEF Or
  <2> QED
    BY <2>1, <2>2, FirstOfCases
<1> QED
  BY <1>1, <1>2, FirstOfCases

LEMMA FirstOfOne ==
    ASSUME NEW r, DOMAIN r = 1 .. 1
    PROVE  FirstOf(r) = r[1]
<1>1. \/ FirstOf(r) = NULL /\ \A i \in 1 .. 1 : r[i] = NULL
      \/ \E i \in 1 .. 1 : r[i] # NULL /\ FirstOf(r) = r[i] /\ \A j \in 1 .. (i - 1) : r[j] = NULL
  BY FirstOfCases, 1 \in Nat
<1> QED
  BY <1>1

LEMMA FirstOfLast ==
    ASSUME NEW n \in Nat, NEW r, DOMAIN r = 1 .. (n + 1),
           NEW s, DOMAIN s = 1 .. n, \A i \in 1 .. n : s[i] = r[i]
    PROVE  FirstOf(r) = Or(FirstOf(s), r[n + 1])
<1> DEFINE t == [i \in 1 .. 1 |-> r[n + 1]]
<1>1. DOMAIN t = 1 .. 1 /\ 1 \in 1 .. 1 /\ 1 \in Nat /\ t[1] = r[n + 1] /\ \A i \in 1 .. 1 : t[i] = r[n + i]
  OBVIOUS
<1> HIDE DEF t
<1>2. FirstOf(t) = r[n + 1]
  BY <1>1, FirstOfOne
<1>3. FirstOf(r) = Or(FirstOf(s), FirstOf(t))
  <2>1. Joined(n, 1, r, s, t)
    BY <1>1 DEF Joined
  <2> QED
    BY <1>1, <2>1, FirstOfJoined
<1> QED
  BY <1>2, <1>3

LEMMA FirstOfTwo ==
    ASSUME NEW a, NEW b
    PROVE  FirstOf(<<a, b>>) = Or(a, b)
<1>1. /\ DOMAIN <<a, b>> = 1 .. (1 + 1) /\ DOMAIN <<a>> = 1 .. 1 /\ 1 \in Nat
      /\ <<a, b>>[1] = a /\ <<a, b>>[1 + 1] = b /\ <<a>>[1] = a
      /\ \A i \in 1 .. 1 : <<a>>[i] = <<a, b>>[i]
  OBVIOUS
<1>2. FirstOf(<<a>>) = a
  BY <1>1, FirstOfOne
<1>3. FirstOf(<<a, b>>) = Or(FirstOf(<<a>>), <<a, b>>[1 + 1])
  BY <1>1, FirstOfLast
<1> QED
  BY <1>1, <1>2, <1>3

LEMMA FirstOfThree ==
    ASSUME NEW a, NEW b, NEW c
    PROVE  FirstOf(<<a, b, c>>) = Or(a, Or(b, c))
<1>1. /\ DOMAIN <<a, b, c>> = 1 .. (2 + 1) /\ DOMAIN <<a, b>> = 1 .. 2 /\ 2 \in Nat
      /\ <<a, b, c>>[2 + 1] = c
      /\ \A i \in 1 .. 2 : <<a, b>>[i] = <<a, b, c>>[i]
  OBVIOUS
<1>2. FirstOf(<<a, b, c>>) = Or(FirstOf(<<a, b>>), <<a, b, c>>[2 + 1])
  BY <1>1, FirstOfLast
<1> QED
  BY <1>1, <1>2, FirstOfTwo DEF Or

-----------------------------------------------------------------------------
(* Lists of candidates *)

\* What is found in the keyset S at one entry of a list, and in the whole list.
Entries == Names \cup {Overflow}
Hit(S, x) == IF x \in S \cup {Overflow} THEN x ELSE NULL
FirstHit(S, c) == FirstOf([i \in DOMAIN c |-> Hit(S, c[i])])

LEMMA FirstHitOfConcat ==
    ASSUME NEW S, NEW a \in Seq(Entries), NEW b \in Seq(Entries)
    PROVE  FirstHit(S, a \o b) = Or(FirstHit(S, a), FirstHit(S, b))
<1> DEFINE c == a \o b
           r == [i \in DOMAIN c |-> Hit(S, c[i])]
           s == [i \in DOMAIN a |-> Hit(S, a[i])]
           t == [i \in DOMAIN b |-> Hit(S, b[i])]
<1>1. /\ c \in Seq(Entries) /\ Len(c) = Len(a) + Len(b)
      /\ \A i \in 1 .. (Len(a) + Len(b)) : c[i] = IF i <= Len(a) THEN a[i] ELSE b[i - Len(a)]
  BY ConcatProperties
<1>2. /\ Len(a) \in Nat /\ Len(b) \in Nat
      /\ DOMAIN a = 1 .. Len(a) /\ DOMAIN b = 1 .. Len(b) /\ DOMAIN c = 1 .. (Len(a) + Len(b))
  BY <1>1, LenProperties
<1>3. \A i \in 1 .. Len(a) : c[i] = a[i] /\ i \in 1 .. (Len(a) + Len(b))
  BY <1>1, <1>2
<1>4. ASSUME NEW i \in 1 .. Len(b) PROVE c[Len(a) + i] = b[i] /\ Len(a) + i \in 1 .. (Len(a) + Len(b))
  <2>1. Len(a) + i \in 1 .. (Len(a) + Len(b)) /\ ~(Len(a) + i <= Len(a)) /\ Len(a) + i - Len(a) = i
    BY <1>2
  <2> QED
    BY <1>1, <2>1
<1> HIDE DEF c
<1>5. /\ DOMAIN r = 1 .. (Len(a) + Len(b)) /\ DOMAIN s = 1 .. Len(a) /\ DOMAIN t = 1 .. Len(b)
      /\ \A i \in 1 .. Len(a) : s[i] = r[i]
      /\ \A i \in 1 .. Len(b) : t[i] = r[Len(a) + i]
  BY <1>2, <1>3, <1>4
<1> HIDE DEF r, s, t
<1>6. FirstOf(r) = Or(FirstOf(s), FirstOf(t))
  <2>1. Joined(Len(a), Len(b), r, s, t)
    BY <1>5 DEF Joined
  <2> QED
    BY <1>2, <2>1, FirstOfJoined
<1> QED
  BY <1>6 DEF FirstHit, r, s, t, c

\* A flattened list: the entries are those of its parts, and the first hit is
\* the first of the first hits of its parts.
LEMMA FirstHitOfFlatten ==
    ASSUME NEW S, NEW q \in Seq(Seq(Entries))
    PROVE  /\ FlattenSeq(q) \in Seq(Entries)
           /\ FirstHit(S, FlattenSeq(q)) = FirstOf([i \in DOMAIN q |-> FirstHit(S, q[i])])
<1> DEFINE n == Len(q)
           Upto(k) == FirstOf([i \in 1 .. k |-> FirstHit(S, q[i])])
<1>0. n \in Nat /\ DOMAIN q = 1 .. n /\ \A i \in 1 .. n : q[i] \in Seq(Entries)
  BY LenProperties, ElementOfSeq
<1>1. CASE n = 0
  <2>1. q = <<>> /\ FlattenSeq(q) = q
    BY <1>1, EmptySeq DEF FlattenSeq
  <2>2. FlattenSeq(q) \in Seq(Entries) /\ DOMAIN FlattenSeq(q) = 1 .. 0
    BY <1>0, <1>1, <2>1, EmptySeq
  <2>3. FirstHit(S, FlattenSeq(q)) = NULL
    <3> DEFINE r == [i \in DOMAIN FlattenSeq(q) |-> Hit(S, FlattenSeq(q)[i])]
    <3>1. DOMAIN r = 1 .. 0 /\ 0 \in Nat /\ \A i \in 1 .. 0 : r[i] = NULL
      BY <2>2
    <3> HIDE DEF r
    <3>2. FirstOf(r) = NULL
      BY <3>1, FirstOfNone
    <3> QED
      BY <3>2 DEF r, FirstHit
  <2>4. FirstOf([i \in DOMAIN q |-> FirstHit(S, q[i])]) = NULL
    BY <1>0, <1>1, FirstOfNone
  <2> QED
    BY <2>2, <2>3, <2>4
<1>2. CASE n # 0
  <2>1. PICK f : /\ FlattenSeq(q) = f[n]
                 /\ \A i \in 1 .. n : f[i] = IF i = 1 THEN q[i] ELSE f[i - 1] \o q[i]
    BY <1>0, <1>2, FlattenSeqUnfolds
  <2> DEFINE P == {i \in 0 .. n : i = 0 \/ (f[i] \in Seq(Entries) /\ FirstHit(S, f[i]) = Upto(i))}
  <2>2. 0 \in P
    BY <1>0
  <2> HIDE DEF n
  <2>3. ASSUME NEW i \in 1 .. n, i - 1 \in P
        PROVE  i \in P
    <3>1. i \in 0 .. n /\ q[i] \in Seq(Entries)
      BY <1>0
    <3>2. CASE i = 1
      <4>1. f[1] = q[1]
        BY <2>1, <3>2
      <4>2. Upto(1) = FirstHit(S, q[1])
        BY FirstOfOne
      <4> QED
        BY <3>1, <3>2, <4>1, <4>2
    <3>3. CASE i # 1
      <4>1. f[i] = f[i - 1] \o q[i]
        BY <2>1, <3>3
      <4>2. f[i - 1] \in Seq(Entries) /\ FirstHit(S, f[i - 1]) = Upto(i - 1)
        BY <2>3, <3>3
      <4>3. f[i] \in Seq(Entries)
        BY <3>1, <4>1, <4>2, ConcatProperties
      <4>4. FirstHit(S, f[i]) = Or(Upto(i - 1), FirstHit(S, q[i]))
        <5> HIDE DEF Upto, P
        <5> QED
          BY <3>1, <4>1, <4>2, FirstHitOfConcat
      <4>5. Upto(i) = Or(Upto(i - 1), FirstHit(S, q[i]))
        <5> DEFINE r == [j \in 1 .. i |-> FirstHit(S, q[j])]
                   s == [j \in 1 .. (i - 1) |-> FirstHit(S, q[j])]
        <5>1. /\ i - 1 \in Nat /\ DOMAIN s = 1 .. (i - 1) /\ DOMAIN r = 1 .. (i - 1 + 1) /\ i - 1 + 1 = i
              /\ r[i] = FirstHit(S, q[i])
              /\ \A j \in 1 .. (i - 1) : s[j] = r[j]
          OBVIOUS
        <5> HIDE DEF r, s
        <5>2. FirstOf(r) = Or(FirstOf(s), r[i - 1 + 1])
          BY <5>1, FirstOfLast
        <5>3. FirstOf(r) = Or(FirstOf(s), r[i])
          BY <5>1, <5>2
        <5> QED
          BY <5>1, <5>3 DEF r, s
      <4> HIDE DEF Upto
      <4> QED
        BY <3>1, <4>3, <4>4, <4>5
    <3> QED
      BY <3>2, <3>3
  <2>4. \A i \in 0 .. n : i \in P
    <3> HIDE DEF P
    <3>1. n \in Nat
      BY <1>0 DEF n
    <3> QED
      BY <2>2, <2>3, <3>1, Induction
  <2>5. f[n] \in Seq(Entries) /\ FirstHit(S, f[n]) = Upto(n)
    <3>1. n \in 0 .. n /\ n # 0
      BY <1>0, <1>2 DEF n
    <3> HIDE DEF Upto
    <3> QED
      BY <2>4, <3>1
  <2>6. Upto(n) = FirstOf([i \in DOMAIN q |-> FirstHit(S, q[i])])
    BY <1>0 DEF n
  <2> QED
    BY <2>1, <2>5, <2>6 DEF n
<1> QED
  BY <1>1, <1>2

-----------------------------------------------------------------------------
(* Links, one level at a time *)

LEMMA MetadataTypes ==
    ASSUME meta \in Specs, NEW n \in Names
    PROVE  /\ n[2] \in Paths
           /\ meta[n[2]].override \in Seq(Names)
           /\ meta[n[2]].fallback \in Seq(Names)
           /\ meta[n[2]].namespaces \in Seq(Namespaces)
<1>1. meta \in [Paths -> Metadata] /\ n[2] \in Paths
  BY Constants DEF Names
<1>2. meta[n[2]] \in Metadata
  BY <1>1
<1> QED
  BY <1>1, <1>2 DEF Metadata

\* The namespaces to search for a path with a specification.
SearchOrder(p) == IF meta[p].namespaces = <<>> THEN Order ELSE meta[p].namespaces

LEMMA SearchOrderType ==
    ASSUME meta \in Specs, NEW n \in Names
    PROVE  Order \in Seq(Namespaces) /\ SearchOrder(n[2]) \in Seq(Namespaces)
<1>1. \A x \in {"proc", "dir", "user", "system"} : x \in Namespaces
  BY DEF Namespaces
<1>2. Order \in Seq(Namespaces)
  BY <1>1 DEF Order
<1> QED
  BY <1>2, MetadataTypes DEF SearchOrder

LEMMA FirstOfIn ==
    ASSUME NEW n \in Nat, NEW r, DOMAIN r = 1 .. n, NEW V, \A i \in 1 .. n : r[i] \in V
    PROVE  FirstOf(r) \in V \cup {NULL}
  BY FirstOfCases

LEMMA InTypes ==
    ASSUME NEW q \in Seq(Namespaces), NEW p \in Paths
    PROVE  /\ In(q, p) \in Seq(Names) /\ In(q, p) \in Seq(Entries)
           /\ DOMAIN In(q, p) = DOMAIN q
           /\ \A i \in DOMAIN q : In(q, p)[i] = <<q[i], p>> /\ <<q[i], p>> \in Names
<1>1. Len(q) \in Nat /\ DOMAIN q = 1 .. Len(q) /\ \A i \in 1 .. Len(q) : q[i] \in Namespaces
  BY LenProperties, ElementOfSeq
<1>2. \A i \in 1 .. Len(q) : <<q[i], p>> \in Names
  BY <1>1 DEF Names
<1>3. In(q, p) = [i \in 1 .. Len(q) |-> <<q[i], p>>]
  BY <1>1 DEF In
<1>4. In(q, p) \in Seq(Names) /\ In(q, p) \in Seq(Entries)
  BY <1>1, <1>2, <1>3, IsASeq DEF Entries
<1> QED
  BY <1>1, <1>2, <1>3, <1>4

LEMMA ExactIsHit ==
    ASSUME NEW S, NEW n \in Names
    PROVE  Exact(S, n) = Hit(S, n) /\ Exact(S, n) \in Entries \cup {NULL}
  BY Constants DEF Exact, Hit, Entries

LEMMA InNamespacesIsFirstHit ==
    ASSUME NEW S, NEW q \in Seq(Namespaces), NEW p \in Paths
    PROVE  /\ InNamespaces(S, p, q) = FirstHit(S, In(q, p))
           /\ InNamespaces(S, p, q) \in Entries \cup {NULL}
<1> DEFINE r == [i \in DOMAIN q |-> Exact(S, <<q[i], p>>)]
<1>1. r = [i \in DOMAIN In(q, p) |-> Hit(S, In(q, p)[i])]
  BY InTypes, ExactIsHit
<1>2. Len(q) \in Nat /\ DOMAIN r = 1 .. Len(q)
  BY LenProperties
<1>3. \A i \in 1 .. Len(q) : r[i] \in Entries \cup {NULL}
  BY <1>2, InTypes, ExactIsHit
<1> HIDE DEF r
<1>4. FirstOf(r) \in Entries \cup {NULL}
  BY <1>2, <1>3, FirstOfIn
<1> QED
  BY <1>1, <1>4 DEF InNamespaces, FirstHit, r

LEMMA BySpecNamespacesIsFirstHit ==
    ASSUME NEW S, meta \in Specs, NEW n \in Names
    PROVE  /\ elektraLookupBySpecNamespaces(S, n[2]) = FirstHit(S, In(SearchOrder(n[2]), n[2]))
           /\ elektraLookupBySpecNamespaces(S, n[2]) \in Entries \cup {NULL}
<1>1. elektraLookupBySpecNamespaces(S, n[2]) = InNamespaces(S, n[2], SearchOrder(n[2]))
  BY DEF elektraLookupBySpecNamespaces, SearchOrder
<1> QED
  BY <1>1, SearchOrderType, MetadataTypes, InNamespacesIsFirstHit

\* What the links q lead to if a link to n leads to L[n].
LinksLead(L, q) == FirstOf([i \in DOMAIN q |-> L[q[i]]])

\* What a link to n leads to if the links of its specification lead where L
\* says, and if there is no room for them on the stack.
Linked(S, L, n) ==
    IF ~IsCascading(n) THEN Exact(S, n)
    ELSE IF ~HasSpec(S, n[2]) THEN InNamespaces(S, n[2], Order)
    ELSE FirstOf(<<LinksLead(L, meta[n[2]].override), elektraLookupBySpecNamespaces(S, n[2]),
                   LinksLead(L, meta[n[2]].fallback)>>)
TooDeep(S, n) ==
    IF ~IsCascading(n) THEN Exact(S, n)
    ELSE IF ~HasSpec(S, n[2]) THEN InNamespaces(S, n[2], Order)
    ELSE Overflow

LEMMA LinksLeadType ==
    ASSUME NEW L \in [Names -> Entries \cup {NULL}], NEW q \in Seq(Names)
    PROVE  LinksLead(L, q) \in Entries \cup {NULL}
<1> DEFINE r == [i \in DOMAIN q |-> L[q[i]]]
<1>1. Len(q) \in Nat /\ DOMAIN q = 1 .. Len(q) /\ \A i \in 1 .. Len(q) : q[i] \in Names
  BY LenProperties, ElementOfSeq
<1>2. DOMAIN r = 1 .. Len(q) /\ \A i \in 1 .. Len(q) : r[i] \in Entries \cup {NULL}
  BY <1>1
<1> HIDE DEF r
<1>3. FirstOf(r) \in Entries \cup {NULL}
  BY <1>1, <1>2, FirstOfIn
<1> QED
  BY <1>3 DEF LinksLead, r

LEMMA LinkedTypes ==
    ASSUME NEW S, meta \in Specs, NEW L \in [Names -> Entries \cup {NULL}], NEW n \in Names
    PROVE  Linked(S, L, n) \in Entries \cup {NULL} /\ TooDeep(S, n) \in Entries \cup {NULL}
<1>1. InNamespaces(S, n[2], Order) \in Entries \cup {NULL} /\ Exact(S, n) \in Entries \cup {NULL}
  BY SearchOrderType, MetadataTypes, InNamespacesIsFirstHit, ExactIsHit
<1>2. FirstOf(<<LinksLead(L, meta[n[2]].override), elektraLookupBySpecNamespaces(S, n[2]),
                LinksLead(L, meta[n[2]].fallback)>>) \in Entries \cup {NULL}
  <2>1. LinksLead(L, meta[n[2]].override) \in Entries \cup {NULL} /\ LinksLead(L, meta[n[2]].fallback) \in Entries \cup {NULL}
    BY LinksLeadType, MetadataTypes
  <2>2. elektraLookupBySpecNamespaces(S, n[2]) \in Entries \cup {NULL}
    BY BySpecNamespacesIsFirstHit
  <2> QED
    BY <2>1, <2>2, FirstOfThree DEF Or
<1> QED
  BY <1>1, <1>2 DEF Linked, TooDeep, Entries

IsLinkTable(S, L) ==
    /\ \A d \in 0 .. Depth : L[d] \in [Names -> Entries \cup {NULL}]
    /\ \A n \in Names : L[0][n] = TooDeep(S, n)
    /\ \A d \in 1 .. Depth : \A n \in Names : L[d][n] = Linked(S, L[d - 1], n)

LEMMA ByLinkUnfolds ==
    ASSUME NEW S, meta \in Specs
    PROVE  \E L : IsLinkTable(S, L) /\ \A n \in Names : ByLink(S, n) = L[Depth][n]
<1> DEFINE V == [Names -> Entries \cup {NULL}]
           Body(L, d, n) == IF ~IsCascading(n) THEN Exact(S, n)
                            ELSE IF ~HasSpec(S, n[2]) THEN InNamespaces(S, n[2], Order)
                            ELSE IF d = 0 THEN Overflow
                            ELSE FirstOf(<<FirstOf([i \in DOMAIN meta[n[2]].override |-> L[d - 1][meta[n[2]].override[i]]]),
                                           elektraLookupBySpecNamespaces(S, n[2]),
                                           FirstOf([i \in DOMAIN meta[n[2]].fallback |-> L[d - 1][meta[n[2]].fallback[i]]])>>)
           IsLink(L) == L = [d \in 0 .. Depth |-> [n \in Names |-> Body(L, d, n)]]
<1>0. Depth \in Nat
  BY Constants
<1>1. \A L, d, n : Body(L, d, n) = IF d = 0 THEN TooDeep(S, n) ELSE Linked(S, L[d - 1], n)
  BY DEF TooDeep, Linked, LinksLead
<1>2. 0 \in 0 .. Depth /\ \A d \in 1 .. Depth : d \in 0 .. Depth /\ d - 1 \in 0 .. Depth /\ d # 0
  BY <1>0
<1>3. \A n : ByLink(S, n) = (CHOOSE L : IsLink(L))[Depth][n]
  BY DEF ByLink
<1> HIDE DEF Body
<1>4. \E L : IsLink(L)
  <2> DEFINE b == [n \in Names |-> TooDeep(S, n)]
             g == [x \in (1 .. Depth) \X V |-> [n \in Names |-> Linked(S, x[2], n)]]
             Z == [d \in 0 .. Depth |-> V]
  <2>0. \A d \in 0 .. Depth : Z[d] = V
    OBVIOUS
  <2>1. b \in Z[0]
    <3>1. \A n \in Names : TooDeep(S, n) \in Entries \cup {NULL}
      <4>1. [n \in Names |-> NULL] \in [Names -> Entries \cup {NULL}]
        OBVIOUS
      <4> QED
        BY <4>1, LinkedTypes
    <3>2. b \in V
      BY <3>1
    <3> HIDE DEF b, V
    <3> QED
      BY <1>2, <2>0, <3>2
  <2>2. ASSUME NEW d \in 1 .. Depth, NEW t \in Z[d - 1]
        PROVE  g[<<d, t>>] \in Z[d]
    <3>1. t \in V /\ d \in 0 .. Depth
      <4> HIDE DEF Z, V
      <4> QED
        BY <1>2, <2>0
    <3>2. g[<<d, t>>] = [n \in Names |-> Linked(S, t, n)]
      BY <3>1
    <3>3. [n \in Names |-> Linked(S, t, n)] \in V
      BY <3>1, LinkedTypes
    <3> QED
      BY <2>0, <3>1, <3>2, <3>3
  <2>3. PICK f : IsLoop(f, Depth, b, g) /\ \A d \in 0 .. Depth : f[d] \in Z[d]
    <3> HIDE DEF b, g, Z, V
    <3> QED
      BY <1>0, <2>1, <2>2, LoopExists
  <2>4. \A d \in 0 .. Depth : f[d] = IF d = 0 THEN b ELSE g[<<d, f[d - 1]>>]
    <3> HIDE DEF b, g, Z, V
    <3> QED
      BY <2>3 DEF IsLoop
  <2>5. ASSUME NEW d \in 0 .. Depth
        PROVE  f[d] = [n \in Names |-> Body(f, d, n)]
    <3>1. CASE d = 0
      BY <1>1, <2>4, <3>1
    <3>2. CASE d # 0
      <4>1. d \in 1 .. Depth /\ d - 1 \in 0 .. Depth
        BY <1>0, <3>2
      <4>2. f[d - 1] \in V
        BY <2>0, <2>3, <4>1
      <4>3. g[<<d, f[d - 1]>>] = [n \in Names |-> Linked(S, f[d - 1], n)]
        <5> HIDE DEF V
        <5> QED
          BY <4>1, <4>2
      <4> HIDE DEF g
      <4> QED
        BY <1>1, <2>4, <3>2, <4>3
    <3> QED
      BY <3>1, <3>2
  <2>6. f = [d \in 0 .. Depth |-> f[d]]
    BY <2>3 DEF IsLoop
  <2>7. IsLink(f)
    BY <2>5, <2>6
  <2> HIDE DEF IsLink
  <2> QED
    BY <2>7
<1> DEFINE L == CHOOSE L : IsLink(L)
<1>5. IsLink(L)
  <2> HIDE DEF IsLink
  <2> QED
    BY <1>4
<1> HIDE DEF L
<1>6. \A d \in 0 .. Depth : L[d] = [n \in Names |-> Body(L, d, n)]
  BY <1>5
<1> HIDE DEF IsLink
<1>7. \A d \in 0 .. Depth : \A n \in Names : L[d][n] = IF d = 0 THEN TooDeep(S, n) ELSE Linked(S, L[d - 1], n)
  BY <1>1, <1>6
<1>8. \A d \in 0 .. Depth : L[d] \in V
  <2> DEFINE P == {d \in 0 .. Depth : L[d] \in V}
  <2>1. 0 \in P
    <3>1. 0 \in 0 .. Depth /\ L[0] = [n \in Names |-> L[0][n]] /\ \A n \in Names : L[0][n] = TooDeep(S, n)
      BY <1>2, <1>6, <1>7
    <3>2. \A n \in Names : L[0][n] \in Entries \cup {NULL}
      <4>1. [n \in Names |-> NULL] \in [Names -> Entries \cup {NULL}]
        OBVIOUS
      <4> QED
        BY <3>1, <4>1, LinkedTypes
    <3> QED
      BY <3>1, <3>2
  <2>2. ASSUME NEW d \in 1 .. Depth, d - 1 \in P PROVE d \in P
    <3>1. /\ d \in 0 .. Depth /\ d # 0 /\ L[d] = [n \in Names |-> L[d][n]]
          /\ \A n \in Names : L[d][n] = Linked(S, L[d - 1], n)
      BY <1>2, <1>6, <1>7
    <3> QED
      BY <2>2, <3>1, LinkedTypes
  <2> HIDE DEF P
  <2>3. \A d \in 0 .. Depth : d \in P
    BY <1>0, <2>1, <2>2, Induction
  <2> QED
    BY <2>3 DEF P
<1>9. IsLinkTable(S, L)
  BY <1>0, <1>7, <1>8 DEF IsLinkTable
<1>10. \A n \in Names : ByLink(S, n) = L[Depth][n]
  BY <1>3 DEF L
<1> QED
  BY <1>9, <1>10

-----------------------------------------------------------------------------
(* Candidates, one level at a time *)

\* The candidates of the links q if C[n] are those of a link to n.
AllOf(C, q) == FlattenSeq([i \in DOMAIN q |-> C[q[i]]])

\* The candidates of a link to n if C has those of the links of its
\* specification, and if the nesting ends here.
Listed(S, C, n) ==
    IF ~IsCascading(n) THEN <<n>>
    ELSE IF ~HasSpec(S, n[2]) THEN In(Order, n[2])
    ELSE AllOf(C, meta[n[2]].override) \o In(SearchOrder(n[2]), n[2]) \o AllOf(C, meta[n[2]].fallback)
NotListed(S, n) ==
    IF ~IsCascading(n) THEN <<n>>
    ELSE IF ~HasSpec(S, n[2]) THEN In(Order, n[2])
    ELSE <<Overflow>>

LEMMA AllOfType ==
    ASSUME NEW C \in [Names -> Seq(Entries)], NEW q \in Seq(Names)
    PROVE  /\ [i \in DOMAIN q |-> C[q[i]]] \in Seq(Seq(Entries))
           /\ AllOf(C, q) \in Seq(Entries)
<1>1. Len(q) \in Nat /\ DOMAIN q = 1 .. Len(q) /\ \A i \in 1 .. Len(q) : q[i] \in Names
  BY LenProperties, ElementOfSeq
<1>2. [i \in 1 .. Len(q) |-> C[q[i]]] \in Seq(Seq(Entries))
  <2>1. \A i \in 1 .. Len(q) : C[q[i]] \in Seq(Entries)
    BY <1>1
  <2> QED
    BY <1>1, <2>1, IsASeq
<1> QED
  BY <1>1, <1>2, FirstHitOfFlatten DEF AllOf

LEMMA ListedTypes ==
    ASSUME NEW S, meta \in Specs, NEW C \in [Names -> Seq(Entries)], NEW n \in Names
    PROVE  Listed(S, C, n) \in Seq(Entries) /\ NotListed(S, n) \in Seq(Entries)
<1>1. n \in Entries /\ Overflow \in Entries
  BY DEF Entries
<1>2. <<n>> \in Seq(Entries) /\ <<Overflow>> \in Seq(Entries)
  BY <1>1
<1>3. In(Order, n[2]) \in Seq(Entries) /\ In(SearchOrder(n[2]), n[2]) \in Seq(Entries)
  BY SearchOrderType, MetadataTypes, InTypes
<1>4. AllOf(C, meta[n[2]].override) \in Seq(Entries) /\ AllOf(C, meta[n[2]].fallback) \in Seq(Entries)
  BY MetadataTypes, AllOfType
<1>5. AllOf(C, meta[n[2]].override) \o In(SearchOrder(n[2]), n[2]) \in Seq(Entries)
  BY <1>3, <1>4, ConcatProperties
<1>6. AllOf(C, meta[n[2]].override) \o In(SearchOrder(n[2]), n[2]) \o AllOf(C, meta[n[2]].fallback) \in Seq(Entries)
  BY <1>4, <1>5, ConcatProperties
<1> QED
  BY <1>2, <1>3, <1>6 DEF Listed, NotListed

IsCandidateTable(S, C) ==
    /\ \A d \in 0 .. (Depth + 1) : C[d] \in [Names -> Seq(Entries)]
    /\ \A n \in Names : C[0][n] = NotListed(S, n)
    /\ \A d \in 1 .. (Depth + 1) : \A n \in Names : C[d][n] = Listed(S, C[d - 1], n)

LEMMA CandidatesUnfolds ==
    ASSUME NEW S, meta \in Specs
    PROVE  \E C : IsCandidateTable(S, C) /\ \A p \in Paths : Candidates(S, p) = C[Depth + 1][<<"/", p>>]
<1> DEFINE V == [Names -> Seq(Entries)]
           D == Depth + 1
           Body(C, d, n) == IF ~IsCascading(n) THEN <<n>>
                            ELSE IF ~HasSpec(S, n[2]) THEN In(Order, n[2])
                            ELSE IF d = 0 THEN <<Overflow>>
                            ELSE FlattenSeq([i \in DOMAIN meta[n[2]].override |-> C[d - 1][meta[n[2]].override[i]]])
                                   \o In(IF meta[n[2]].namespaces = <<>> THEN Order ELSE meta[n[2]].namespaces, n[2])
                                   \o FlattenSeq([i \in DOMAIN meta[n[2]].fallback |-> C[d - 1][meta[n[2]].fallback[i]]])
           IsTable(C) == C = [d \in 0 .. (Depth + 1) |-> [n \in Names |-> Body(C, d, n)]]
<1>0. D \in Nat
  BY Constants
<1>1. \A C, d, n : Body(C, d, n) = IF d = 0 THEN NotListed(S, n) ELSE Listed(S, C[d - 1], n)
  BY DEF NotListed, Listed, AllOf, SearchOrder
<1>3. \A p : Candidates(S, p) = (CHOOSE C : IsTable(C))[Depth + 1][<<"/", p>>]
  BY DEF Candidates
<1> HIDE DEF Body, D
<1>2. 0 \in 0 .. D /\ \A d \in 1 .. D : d \in 0 .. D /\ d - 1 \in 0 .. D /\ d # 0
  BY <1>0
<1>11. D = Depth + 1
  BY DEF D
<1>12. \A C : IsTable(C) <=> C = [d \in 0 .. D |-> [n \in Names |-> Body(C, d, n)]]
  BY DEF D
<1> HIDE DEF IsTable
<1>13. \A n \in Names : NotListed(S, n) \in Seq(Entries)
  <2>1. [n \in Names |-> <<>>] \in [Names -> Seq(Entries)]
    OBVIOUS
  <2> QED
    BY <2>1, ListedTypes
<1>4. \E C : IsTable(C)
  <2> DEFINE b == [n \in Names |-> NotListed(S, n)]
             g == [x \in (1 .. D) \X V |-> [n \in Names |-> Listed(S, x[2], n)]]
             Z == [d \in 0 .. D |-> V]
  <2>0. \A d \in 0 .. D : Z[d] = V
    OBVIOUS
  <2>1. b \in Z[0]
    <3>1. b \in V
      BY <1>13
    <3> HIDE DEF b, V
    <3> QED
      BY <1>2, <2>0, <3>1
  <2>2. ASSUME NEW d \in 1 .. D, NEW t \in Z[d - 1]
        PROVE  g[<<d, t>>] \in Z[d]
    <3>1. t \in V /\ d \in 0 .. D
      <4> HIDE DEF Z, V
      <4> QED
        BY <1>2, <2>0
    <3>2. g[<<d, t>>] = [n \in Names |-> Listed(S, t, n)]
      BY <3>1
    <3>3. [n \in Names |-> Listed(S, t, n)] \in V
      BY <3>1, ListedTypes
    <3> QED
      BY <2>0, <3>1, <3>2, <3>3
  <2>3. PICK f : IsLoop(f, D, b, g) /\ \A d \in 0 .. D : f[d] \in Z[d]
    <3> HIDE DEF b, g, Z, V
    <3> QED
      BY <1>0, <2>1, <2>2, LoopExists
  <2>4. \A d \in 0 .. D : f[d] = IF d = 0 THEN b ELSE g[<<d, f[d - 1]>>]
    <3> HIDE DEF b, g, Z, V
    <3> QED
      BY <2>3 DEF IsLoop
  <2>5. ASSUME NEW d \in 0 .. D
        PROVE  f[d] = [n \in Names |-> Body(f, d, n)]
    <3>1. CASE d = 0
      BY <1>1, <2>4, <3>1
    <3>2. CASE d # 0
      <4>1. d \in 1 .. D /\ d - 1 \in 0 .. D
        BY <1>0, <3>2
      <4>2. f[d - 1] \in V
        BY <2>0, <2>3, <4>1
      <4>3. g[<<d, f[d - 1]>>] = [n \in Names |-> Listed(S, f[d - 1], n)]
        <5> HIDE DEF V
        <5> QED
          BY <4>1, <4>2
      <4> HIDE DEF g
      <4> QED
        BY <1>1, <2>4, <3>2, <4>3
    <3> QED
      BY <3>1, <3>2
  <2>6. f = [d \in 0 .. D |-> f[d]]
    BY <2>3 DEF IsLoop
  <2>7. IsTable(f)
    BY <1>12, <2>5, <2>6
  <2> QED
    BY <2>7
<1> DEFINE C == CHOOSE C : IsTable(C)
<1>5. IsTable(C)
  BY <1>4
<1> HIDE DEF C
<1>6. \A d \in 0 .. D : C[d] = [n \in Names |-> Body(C, d, n)]
  BY <1>5, <1>12
<1>7. \A d \in 0 .. D : \A n \in Names : C[d][n] = IF d = 0 THEN NotListed(S, n) ELSE Listed(S, C[d - 1], n)
  BY <1>1, <1>6
<1>8. \A d \in 0 .. D : C[d] \in V
  <2> DEFINE P == {d \in 0 .. D : C[d] \in V}
  <2>1. 0 \in P
    <3>1. 0 \in 0 .. D /\ C[0] = [n \in Names |-> C[0][n]] /\ \A n \in Names : C[0][n] = NotListed(S, n)
      BY <1>2, <1>6, <1>7
    <3> QED
      BY <1>13, <3>1
  <2>2. ASSUME NEW d \in 1 .. D, d - 1 \in P PROVE d \in P
    <3>1. /\ d \in 0 .. D /\ d # 0 /\ C[d] = [n \in Names |-> C[d][n]]
          /\ \A n \in Names : C[d][n] = Listed(S, C[d - 1], n)
      BY <1>2, <1>6, <1>7
    <3> QED
      BY <2>2, <3>1, ListedTypes
  <2> HIDE DEF P
  <2>3. \A d \in 0 .. D : d \in P
    BY <1>0, <2>1, <2>2, Induction
  <2> QED
    BY <2>3 DEF P
<1>9. IsCandidateTable(S, C)
  <2>1. \A n \in Names : C[0][n] = NotListed(S, n)
    BY <1>2, <1>7
  <2>2. \A d \in 1 .. D : \A n \in Names : C[d][n] = Listed(S, C[d - 1], n)
    BY <1>2, <1>7
  <2> QED
    BY <1>8, <2>1, <2>2 DEF IsCandidateTable, D
<1>10. \A p \in Paths : Candidates(S, p) = C[Depth + 1][<<"/", p>>]
  BY <1>3 DEF C
<1> QED
  BY <1>9, <1>10

-----------------------------------------------------------------------------
(* What a link leads to is the first hit among its candidates *)

LEMMA LinksLeadToFirstHit ==
    ASSUME NEW S, NEW L, NEW C \in [Names -> Seq(Entries)], NEW q \in Seq(Names),
           \A n \in Names : L[n] = FirstHit(S, C[n])
    PROVE  LinksLead(L, q) = FirstHit(S, AllOf(C, q))
<1> DEFINE c == [i \in DOMAIN q |-> C[q[i]]]
<1>1. Len(q) \in Nat /\ DOMAIN q = 1 .. Len(q) /\ \A i \in 1 .. Len(q) : q[i] \in Names
  BY LenProperties, ElementOfSeq
<1>2. c \in Seq(Seq(Entries)) /\ AllOf(C, q) = FlattenSeq(c)
  BY AllOfType DEF AllOf
<1>3. DOMAIN c = DOMAIN q /\ \A i \in DOMAIN q : FirstHit(S, c[i]) = L[q[i]]
  BY <1>1
<1> HIDE DEF c
<1>4. FirstHit(S, FlattenSeq(c)) = FirstOf([i \in DOMAIN c |-> FirstHit(S, c[i])])
  BY <1>2, FirstHitOfFlatten
<1>5. [i \in DOMAIN c |-> FirstHit(S, c[i])] = [i \in DOMAIN q |-> L[q[i]]]
  BY <1>3
<1> QED
  BY <1>2, <1>4, <1>5 DEF LinksLead

LEMMA FirstHitOfOne ==
    ASSUME NEW S, NEW x
    PROVE  FirstHit(S, <<x>>) = Hit(S, x)
<1> DEFINE r == [i \in DOMAIN <<x>> |-> Hit(S, <<x>>[i])]
<1>1. DOMAIN r = 1 .. 1 /\ r[1] = Hit(S, x)
  OBVIOUS
<1> HIDE DEF r
<1>2. FirstOf(r) = Hit(S, x)
  BY <1>1, FirstOfOne
<1> QED
  BY <1>2 DEF r, FirstHit

LEMMA LinkedIsFirstHit ==
    ASSUME NEW S, meta \in Specs, NEW L, NEW C \in [Names -> Seq(Entries)], NEW n \in Names,
           \A m \in Names : L[m] = FirstHit(S, C[m])
    PROVE  /\ Linked(S, L, n) = FirstHit(S, Listed(S, C, n))
           /\ TooDeep(S, n) = FirstHit(S, NotListed(S, n))
<1>1. Exact(S, n) = FirstHit(S, <<n>>) /\ FirstHit(S, <<Overflow>>) = Overflow
  BY FirstHitOfOne, ExactIsHit DEF Hit
<1>2. InNamespaces(S, n[2], Order) = FirstHit(S, In(Order, n[2]))
  BY SearchOrderType, MetadataTypes, InNamespacesIsFirstHit
<1> DEFINE a == AllOf(C, meta[n[2]].override)
           b == In(SearchOrder(n[2]), n[2])
           c == AllOf(C, meta[n[2]].fallback)
<1>3. LinksLead(L, meta[n[2]].override) = FirstHit(S, a) /\ LinksLead(L, meta[n[2]].fallback) = FirstHit(S, c)
  BY LinksLeadToFirstHit, MetadataTypes
<1>4. elektraLookupBySpecNamespaces(S, n[2]) = FirstHit(S, b)
  BY BySpecNamespacesIsFirstHit
<1>5. a \in Seq(Entries) /\ b \in Seq(Entries) /\ c \in Seq(Entries)
  BY AllOfType, SearchOrderType, MetadataTypes, InTypes
<1>6. Listed(S, C, n) = IF ~IsCascading(n) THEN <<n>>
                        ELSE IF ~HasSpec(S, n[2]) THEN In(Order, n[2]) ELSE a \o b \o c
  BY DEF Listed
<1>7. FirstOf(<<LinksLead(L, meta[n[2]].override), elektraLookupBySpecNamespaces(S, n[2]),
                LinksLead(L, meta[n[2]].fallback)>>) = Or(FirstHit(S, a), Or(FirstHit(S, b), FirstHit(S, c)))
  BY <1>3, <1>4, FirstOfThree
<1> HIDE DEF a, b, c
<1>8. FirstHit(S, a \o b \o c) = Or(FirstHit(S, a), Or(FirstHit(S, b), FirstHit(S, c)))
  <2>1. a \o b \in Seq(Entries) /\ FirstHit(S, a \o b) = Or(FirstHit(S, a), FirstHit(S, b))
    BY <1>5, ConcatProperties, FirstHitOfConcat
  <2>2. FirstHit(S, a \o b \o c) = Or(FirstHit(S, a \o b), FirstHit(S, c))
    BY <1>5, <2>1, FirstHitOfConcat
  <2> QED
    BY <2>1, <2>2 DEF Or
<1> QED
  BY <1>1, <1>2, <1>6, <1>7, <1>8 DEF Linked, TooDeep, NotListed

-----------------------------------------------------------------------------
(* What ksLookup() finds *)

\* The tables of ByLink and Candidates agree on every level.
LEMMA TablesAgree ==
    ASSUME NEW S, meta \in Specs, NEW L, IsLinkTable(S, L), NEW C, IsCandidateTable(S, C)
    PROVE  \A d \in 0 .. Depth : \A n \in Names : L[d][n] = FirstHit(S, C[d][n])
<1> DEFINE P == {d \in 0 .. Depth : \A n \in Names : L[d][n] = FirstHit(S, C[d][n])}
<1>0. Depth \in Nat
  BY Constants
<1>1. \A d \in 0 .. Depth : d \in 0 .. (Depth + 1)
  BY <1>0
<1>2. 0 \in P
  <2>1. 0 \in 0 .. Depth
    BY <1>0
  <2>2. \A n \in Names : L[0][n] = TooDeep(S, n) /\ C[0][n] = NotListed(S, n)
    BY DEF IsLinkTable, IsCandidateTable
  <2>3. \A n \in Names : TooDeep(S, n) = FirstHit(S, NotListed(S, n))
    <3> DEFINE E == [n \in Names |-> <<>>]
               F == [n \in Names |-> FirstHit(S, E[n])]
    <3>1. E \in [Names -> Seq(Entries)] /\ \A n \in Names : F[n] = FirstHit(S, E[n])
      OBVIOUS
    <3> HIDE DEF E, F
    <3> QED
      BY <3>1, LinkedIsFirstHit
  <2> QED
    BY <2>1, <2>2, <2>3
<1>3. ASSUME NEW d \in 1 .. Depth, d - 1 \in P
      PROVE  d \in P
  <2>1. d \in 0 .. Depth /\ d \in 1 .. (Depth + 1) /\ d - 1 \in 0 .. (Depth + 1)
    BY <1>0
  <2>2. C[d - 1] \in [Names -> Seq(Entries)] /\ \A n \in Names : L[d - 1][n] = FirstHit(S, C[d - 1][n])
    BY <1>3, <2>1 DEF IsCandidateTable
  <2>3. \A n \in Names : L[d][n] = Linked(S, L[d - 1], n) /\ C[d][n] = Listed(S, C[d - 1], n)
    BY <1>3, <2>1 DEF IsLinkTable, IsCandidateTable
  <2>4. \A n \in Names : Linked(S, L[d - 1], n) = FirstHit(S, Listed(S, C[d - 1], n))
    BY <2>2, LinkedIsFirstHit
  <2> QED
    BY <2>1, <2>3, <2>4
<1> HIDE DEF P
<1>4. \A d \in 0 .. Depth : d \in P
  BY <1>0, <1>2, <1>3, Induction
<1> QED
  BY <1>4 DEF P

\* The three parts of elektraLookupBySpec, before the default.
BySpec(S, p) ==
    FirstOf(<<elektraLookupBySpecLinks(S, meta[p].override), elektraLookupBySpecNamespaces(S, p),
              elektraLookupBySpecLinks(S, meta[p].fallback)>>)

LEMMA BySpecLinksLead ==
    ASSUME NEW S, meta \in Specs, NEW L, \A n \in Names : ByLink(S, n) = L[n], NEW q \in Seq(Names)
    PROVE  elektraLookupBySpecLinks(S, q) = LinksLead(L, q)
<1>1. DOMAIN q = 1 .. Len(q) /\ \A i \in 1 .. Len(q) : q[i] \in Names
  BY LenProperties, ElementOfSeq
<1>2. [i \in DOMAIN q |-> ByLink(S, q[i])] = [i \in DOMAIN q |-> L[q[i]]]
  BY <1>1
<1> QED
  BY <1>2 DEF elektraLookupBySpecLinks, LinksLead

LEMMA BySpecIsLinked ==
    ASSUME NEW S, meta \in Specs, NEW L, \A n \in Names : ByLink(S, n) = L[n],
           NEW p \in Paths, HasSpec(S, p)
    PROVE  BySpec(S, p) = Linked(S, L, <<"/", p>>) /\ <<"/", p>> \in Names /\ <<"/", p>>[2] = p
<1> DEFINE n == <<"/", p>>
<1>1. n \in Names /\ n[2] = p /\ IsCascading(n)
  BY DEF Names, IsCascading
<1>2. meta[p].override \in Seq(Names) /\ meta[p].fallback \in Seq(Names)
  <2> HIDE DEF n
  <2> QED
    BY <1>1, MetadataTypes
<1>3. /\ elektraLookupBySpecLinks(S, meta[p].override) = LinksLead(L, meta[p].override)
      /\ elektraLookupBySpecLinks(S, meta[p].fallback) = LinksLead(L, meta[p].fallback)
  BY <1>2, BySpecLinksLead
<1> QED
  BY <1>1, <1>3 DEF BySpec, Linked

\* The candidates of a path without a specification are the keys of the path in
\* the namespaces of a cascading lookup; with one, the specification says.
LEMMA CandidatesOfPath ==
    ASSUME NEW S, meta \in Specs, NEW p \in Paths
    PROVE  /\ Candidates(S, p) \in Seq(Entries)
           /\ HasSpec(S, p) => FirstHit(S, Candidates(S, p)) = BySpec(S, p)
           /\ ~HasSpec(S, p) => FirstHit(S, Candidates(S, p)) = InNamespaces(S, p, Order)
<1> DEFINE n == <<"/", p>>
<1>0. Depth \in Nat /\ Depth \in 0 .. Depth /\ Depth \in 0 .. (Depth + 1)
      /\ Depth + 1 \in 0 .. (Depth + 1) /\ Depth + 1 \in 1 .. (Depth + 1) /\ Depth + 1 - 1 = Depth
  BY Constants
<1>1. n \in Names /\ n[2] = p /\ IsCascading(n)
  BY DEF Names, IsCascading
<1>2. PICK L : IsLinkTable(S, L) /\ \A m \in Names : ByLink(S, m) = L[Depth][m]
  BY ByLinkUnfolds
<1>3. PICK C : IsCandidateTable(S, C) /\ \A q \in Paths : Candidates(S, q) = C[Depth + 1][<<"/", q>>]
  BY CandidatesUnfolds
<1>4. \A m \in Names : L[Depth][m] = FirstHit(S, C[Depth][m])
  BY <1>0, <1>2, <1>3, TablesAgree
<1>5. C[Depth] \in [Names -> Seq(Entries)] /\ C[Depth + 1][n] = Listed(S, C[Depth], n)
  BY <1>0, <1>1, <1>3 DEF IsCandidateTable
<1>6. Candidates(S, p) = Listed(S, C[Depth], n)
  BY <1>3, <1>5
<1>7. Listed(S, C[Depth], n) \in Seq(Entries) /\ FirstHit(S, Listed(S, C[Depth], n)) = Linked(S, L[Depth], n)
  BY <1>1, <1>4, <1>5, ListedTypes, LinkedIsFirstHit
<1>8. ASSUME HasSpec(S, p) PROVE Linked(S, L[Depth], n) = BySpec(S, p)
  BY <1>2, <1>8, BySpecIsLinked
<1>9. ASSUME ~HasSpec(S, p) PROVE Linked(S, L[Depth], n) = InNamespaces(S, p, Order)
  BY <1>1, <1>9 DEF Linked
<1> QED
  BY <1>6, <1>7, <1>8, <1>9

\* The namespaces of a cascading lookup do not depend on other keys.
LEMMA SameInNamespaces ==
    ASSUME NEW S, NEW T, NEW q \in Seq(Namespaces), NEW p,
           \A ns \in Namespaces : ns \in {q[i] : i \in DOMAIN q} => (<<ns, p>> \in S <=> <<ns, p>> \in T)
    PROVE  InNamespaces(S, p, q) = InNamespaces(T, p, q)
<1>1. DOMAIN q = 1 .. Len(q) /\ \A i \in 1 .. Len(q) : q[i] \in Namespaces
  BY LenProperties, ElementOfSeq
<1>2. \A i \in DOMAIN q : Exact(S, <<q[i], p>>) = Exact(T, <<q[i], p>>)
  BY <1>1 DEF Exact
<1>3. [i \in DOMAIN q |-> Exact(S, <<q[i], p>>)] = [i \in DOMAIN q |-> Exact(T, <<q[i], p>>)]
  BY <1>2
<1> QED
  BY <1>3 DEF InNamespaces

LEMMA OrderWithoutSpec ==
    /\ Order \in Seq(Namespaces)
    /\ \A i \in DOMAIN Order : Order[i] # "spec"
<1>1. \A x \in {"proc", "dir", "user", "system"} : x \in Namespaces
  BY DEF Namespaces
<1> QED
  BY <1>1 DEF Order

\* The first hit, as FindsFirst says it.
LEMMA FirstHitIsFirst ==
    ASSUME NEW S, NEW c \in Seq(Entries), NEW hits, hits = {i \in DOMAIN c : c[i] \in S \cup {Overflow}}
    PROVE  /\ hits = {} => FirstHit(S, c) = NULL
           /\ hits # {} => FirstHit(S, c) = c[Min(hits)] /\ c[Min(hits)] # NULL
<1>1. Len(c) \in Nat /\ DOMAIN c = 1 .. Len(c) /\ \A i \in 1 .. Len(c) : c[i] \in Entries /\ c[i] # NULL
  BY LenProperties, ElementOfSeq, Constants DEF Entries
<1> DEFINE r == [i \in DOMAIN c |-> Hit(S, c[i])]
<1>2. DOMAIN r = DOMAIN c /\ \A i \in DOMAIN c : r[i] = IF i \in hits THEN c[i] ELSE NULL
  BY DEF Hit
<1>3. hits = {i \in DOMAIN r : r[i] # NULL}
  BY <1>1, <1>2
<1> HIDE DEF r
<1>4. FirstOf(r) = IF hits = {} THEN NULL ELSE r[Min(hits)]
  BY <1>3 DEF FirstOf
<1>5. hits # {} => Min(hits) \in hits
  BY <1>1, MinIsLeast, hits \in SUBSET (1 .. Len(c))
<1>6. hits # {} => r[Min(hits)] = c[Min(hits)] /\ c[Min(hits)] # NULL
  BY <1>1, <1>2, <1>5
<1> QED
  BY <1>4, <1>6 DEF FirstHit, r

IsCall(S, p, options) == S \in SUBSET Names /\ meta \in Specs /\ p \in Paths

\* The keyset without what KDB_O_NOSPEC ignores, and what is to be found in it:
\* the first hit among the candidates, or else the default or the created key.
Searched(S, p, options) == IF "NOSPEC" \in options THEN S \ {<<"spec", p>>} ELSE S
Otherwise(T, p, options) ==
    IF \/ "CREATE" \in options
       \/ (<<"/", p>> \in T \/ (HasSpec(T, p) /\ meta[p].default)) /\ "NODEFAULT" \notin options
    THEN <<"/", p>> ELSE NULL
Prescribed(T, p, options) == Or(FirstHit(T, Candidates(T, p)), Otherwise(T, p, options))

LEMMA KsLookupFinds ==
    ASSUME NEW S, NEW p, NEW options, IsCall(S, p, options), "POP" \notin options
    PROVE  ksLookup(S, p, options).found = Prescribed(Searched(S, p, options), p, options)
<1> DEFINE n == <<"/", p>>
           r == elektraLookupByCascading(S, p, options)
           T == Searched(S, p, options)
           hit == FirstHit(T, Candidates(T, p))
           given == n \in T \/ (HasSpec(T, p) /\ meta[p].default)
<1> USE DEF IsCall
<1>0. T = IF "NOSPEC" \in options THEN S \ {<<"spec", p>>} ELSE S
  BY DEF Searched
<1> HIDE DEF T
<1>1. n # NULL /\ (n \in T <=> n \in S)
  BY <1>0, Constants DEF Names
<1>2. ksLookup(S, p, options).found = IF r.found = NULL /\ "CREATE" \in options THEN n ELSE r.found
  BY DEF ksLookup, Result
<1>3. r.found = IF hit # NULL THEN hit ELSE IF given /\ "NODEFAULT" \notin options THEN n ELSE NULL
  <2>1. CASE "NOSPEC" \notin options /\ HasSpec(S, p)
    <3>1. T = S /\ Popped(S, <<"spec", p>>, options) = S
      BY <1>0, <2>1 DEF Popped
    <3>2. hit = BySpec(S, p)
      BY <2>1, <3>1, CandidatesOfPath
    <3>3. r = elektraLookupBySpec(S, p, options)
      BY <2>1, <3>1 DEF elektraLookupByCascading
    <3>4. r.found = IF hit # NULL \/ "NODEFAULT" \in options THEN hit
                    ELSE IF n \in S \/ meta[p].default THEN n ELSE NULL
      BY <3>2, <3>3 DEF elektraLookupBySpec, BySpec, Result
    <3> QED
      BY <2>1, <3>1, <3>4
  <2>2. CASE ~("NOSPEC" \notin options /\ HasSpec(S, p))
    <3>1. ~HasSpec(T, p)
      BY <1>0, <2>2 DEF HasSpec
    <3>2. hit = InNamespaces(T, p, Order)
      BY <3>1, CandidatesOfPath
    <3>3. InNamespaces(T, p, Order) = InNamespaces(S, p, Order)
      BY <1>0, OrderWithoutSpec, SameInNamespaces
    <3>4. r.found = FirstOf(<<hit, IF "NODEFAULT" \in options THEN NULL ELSE Exact(S, n)>>)
      BY <2>2, <3>2, <3>3 DEF elektraLookupByCascading, Result
    <3>5. r.found = Or(hit, IF "NODEFAULT" \in options THEN NULL ELSE Exact(S, n))
      BY <3>4, FirstOfTwo
    <3> QED
      BY <1>1, <3>1, <3>5 DEF Or, Exact
  <2> QED
    BY <2>1, <2>2
<1> QED
  BY <1>1, <1>2, <1>3 DEF Prescribed, Otherwise, Or, T

-----------------------------------------------------------------------------
(* Lookups in a keyset with defaults that earlier lookups have added *)

\* S is the keyset B with nothing but defaults added.
OnlyDefaults(B, S) ==
    /\ B \subseteq S
    /\ \A n \in S \ B : \E p \in Paths : n = <<"/", p>> /\ HasSpec(B, p) /\ meta[p].default

LEMMA DefaultsHideNothing ==
    ASSUME NEW B, NEW S, OnlyDefaults(B, S)
    PROVE  /\ \A ns \in Namespaces : \A p : <<ns, p>> \in S <=> <<ns, p>> \in B
           /\ \A n : ~IsCascading(n) => Exact(S, n) = Exact(B, n)
           /\ \A p : HasSpec(S, p) <=> HasSpec(B, p)
           /\ \A q \in Seq(Namespaces) : \A p : InNamespaces(S, p, q) = InNamespaces(B, p, q)
<1>1. \A n : ~IsCascading(n) => (n \in S <=> n \in B)
  BY DEF OnlyDefaults, IsCascading
<1>2. \A ns \in Namespaces : \A p : ~IsCascading(<<ns, p>>)
  BY DEF IsCascading, Namespaces
<1>3. \A ns \in Namespaces : \A p : <<ns, p>> \in S <=> <<ns, p>> \in B
  BY <1>1, <1>2
<1>4. \A n : ~IsCascading(n) => Exact(S, n) = Exact(B, n)
  BY <1>1 DEF Exact
<1>5. \A p : HasSpec(S, p) <=> HasSpec(B, p)
  BY <1>3 DEF HasSpec, Namespaces
<1>6. \A q \in Seq(Namespaces) : \A p : InNamespaces(S, p, q) = InNamespaces(B, p, q)
  BY <1>3, SameInNamespaces
<1> QED
  BY <1>3, <1>4, <1>5, <1>6

LEMMA SameByLink ==
    ASSUME NEW B, NEW S, OnlyDefaults(B, S), meta \in Specs
    PROVE  \A n \in Names : /\ ByLink(S, n) = ByLink(B, n)
                            /\ elektraLookupBySpecNamespaces(S, n[2]) = elektraLookupBySpecNamespaces(B, n[2])
<1>0. Depth \in Nat /\ Depth \in 0 .. Depth
  BY Constants
<1>1. ASSUME NEW n \in Names
      PROVE  elektraLookupBySpecNamespaces(S, n[2]) = elektraLookupBySpecNamespaces(B, n[2])
  BY DefaultsHideNothing, SearchOrderType, MetadataTypes DEF elektraLookupBySpecNamespaces
<1>2. PICK L : IsLinkTable(S, L) /\ \A n \in Names : ByLink(S, n) = L[Depth][n]
  BY ByLinkUnfolds
<1>3. PICK M : IsLinkTable(B, M) /\ \A n \in Names : ByLink(B, n) = M[Depth][n]
  BY ByLinkUnfolds
<1>4. ASSUME NEW n \in Names
      PROVE  /\ TooDeep(S, n) = TooDeep(B, n)
             /\ \A K : Linked(S, K, n) = Linked(B, K, n)
  <2>1. /\ ~IsCascading(n) => Exact(S, n) = Exact(B, n)
        /\ HasSpec(S, n[2]) <=> HasSpec(B, n[2])
        /\ InNamespaces(S, n[2], Order) = InNamespaces(B, n[2], Order)
    BY DefaultsHideNothing, OrderWithoutSpec
  <2> QED
    BY <1>1, <2>1 DEF TooDeep, Linked
<1> DEFINE P == {d \in 0 .. Depth : L[d] = M[d]}
<1>5. 0 \in P
  <2>1. 0 \in 0 .. Depth
    BY <1>0
  <2>2. /\ L[0] \in [Names -> Entries \cup {NULL}] /\ M[0] \in [Names -> Entries \cup {NULL}]
        /\ \A n \in Names : L[0][n] = M[0][n]
    BY <1>2, <1>3, <1>4, <2>1 DEF IsLinkTable
  <2> QED
    BY <2>1, <2>2
<1>6. ASSUME NEW d \in 1 .. Depth, d - 1 \in P
      PROVE  d \in P
  <2>1. d \in 0 .. Depth /\ L[d - 1] = M[d - 1]
    BY <1>0, <1>6
  <2>2. /\ L[d] \in [Names -> Entries \cup {NULL}] /\ M[d] \in [Names -> Entries \cup {NULL}]
        /\ \A n \in Names : L[d][n] = Linked(S, L[d - 1], n) /\ M[d][n] = Linked(B, M[d - 1], n)
    BY <1>2, <1>3, <2>1 DEF IsLinkTable
  <2>3. \A n \in Names : L[d][n] = M[d][n]
    BY <1>4, <2>1, <2>2
  <2> QED
    BY <2>1, <2>2, <2>3
<1> HIDE DEF P
<1>7. \A d \in 0 .. Depth : d \in P
  BY <1>0, <1>5, <1>6, Induction
<1>8. L[Depth] = M[Depth]
  BY <1>0, <1>7 DEF P
<1> QED
  BY <1>1, <1>2, <1>3, <1>8

LEMMA SameBySpec ==
    ASSUME NEW B, NEW S, OnlyDefaults(B, S), meta \in Specs, NEW p \in Paths
    PROVE  BySpec(S, p) = BySpec(B, p)
<1>1. <<"/", p>> \in Names /\ <<"/", p>>[2] = p
  BY DEF Names
<1>2. meta[p].override \in Seq(Names) /\ meta[p].fallback \in Seq(Names)
  BY <1>1, MetadataTypes
<1>3. ASSUME NEW q \in Seq(Names)
      PROVE  elektraLookupBySpecLinks(S, q) = elektraLookupBySpecLinks(B, q)
  <2>1. DOMAIN q = 1 .. Len(q) /\ \A i \in 1 .. Len(q) : q[i] \in Names
    BY LenProperties, ElementOfSeq
  <2>2. [i \in DOMAIN q |-> ByLink(S, q[i])] = [i \in DOMAIN q |-> ByLink(B, q[i])]
    BY <2>1, SameByLink
  <2> QED
    BY <2>2 DEF elektraLookupBySpecLinks
<1>4. elektraLookupBySpecNamespaces(S, p) = elektraLookupBySpecNamespaces(B, p)
  BY <1>1, SameByLink
<1> QED
  BY <1>2, <1>3, <1>4 DEF BySpec

LEMMA KsLookupIndependent ==
    ASSUME NEW S, NEW p, NEW options, IsCall(S, p, options),
           NEW B \in SUBSET Names, OnlyDefaults(B, S), options \cap {"POP", "CREATE"} = {}
    PROVE  \/ ksLookup(S, p, options).found = ksLookup(B, p, options).found
           \/ ksLookup(S, p, options).found = <<"/", p>> /\ "NOSPEC" \in options
<1> DEFINE n == <<"/", p>>
           found(A) == elektraLookupByCascading(A, p, options).found
<1> USE DEF IsCall
<1>1. "POP" \notin options /\ "CREATE" \notin options
  OBVIOUS
<1>2. ksLookup(S, p, options).found = found(S) /\ ksLookup(B, p, options).found = found(B)
  BY <1>1 DEF ksLookup, Result
<1>3. n \in Names /\ n # NULL /\ (HasSpec(S, p) <=> HasSpec(B, p))
  BY Constants, DefaultsHideNothing DEF Names
<1>4. n \in S => n \in B \/ (HasSpec(B, p) /\ meta[p].default)
  BY DEF OnlyDefaults
<1>5. n \in B => n \in S
  BY DEF OnlyDefaults
<1>6. CASE "NOSPEC" \notin options /\ HasSpec(S, p)
  <2>1. ASSUME NEW A, HasSpec(A, p)
        PROVE  found(A) = IF BySpec(A, p) # NULL \/ "NODEFAULT" \in options THEN BySpec(A, p)
                          ELSE IF n \in A \/ meta[p].default THEN n ELSE NULL
    <3>1. Popped(A, <<"spec", p>>, options) = A
      BY <1>1 DEF Popped
    <3>2. elektraLookupByCascading(A, p, options) = elektraLookupBySpec(A, p, options)
      BY <1>6, <2>1, <3>1 DEF elektraLookupByCascading
    <3> QED
      BY <3>2 DEF elektraLookupBySpec, BySpec, Result
  <2>2. BySpec(S, p) = BySpec(B, p)
    BY SameBySpec
  <2>3. (n \in S \/ meta[p].default) <=> (n \in B \/ meta[p].default)
    BY <1>4, <1>5
  <2>4. found(S) = IF BySpec(S, p) # NULL \/ "NODEFAULT" \in options THEN BySpec(S, p)
                   ELSE IF n \in S \/ meta[p].default THEN n ELSE NULL
    BY <1>6, <2>1
  <2>5. found(B) = IF BySpec(B, p) # NULL \/ "NODEFAULT" \in options THEN BySpec(B, p)
                   ELSE IF n \in B \/ meta[p].default THEN n ELSE NULL
    BY <1>3, <1>6, <2>1
  <2> HIDE DEF found
  <2> QED
    BY <1>2, <2>2, <2>3, <2>4, <2>5
<1>7. CASE ~("NOSPEC" \notin options /\ HasSpec(S, p))
  <2>1. ASSUME NEW A, HasSpec(A, p) <=> HasSpec(S, p)
        PROVE  found(A) = Or(InNamespaces(A, p, Order), IF "NODEFAULT" \in options THEN NULL ELSE Exact(A, n))
    <3>1. found(A) = FirstOf(<<InNamespaces(A, p, Order), IF "NODEFAULT" \in options THEN NULL ELSE Exact(A, n)>>)
      BY <1>7, <2>1 DEF elektraLookupByCascading, Result
    <3> QED
      BY <3>1, FirstOfTwo
  <2>2. /\ found(S) = Or(InNamespaces(S, p, Order), IF "NODEFAULT" \in options THEN NULL ELSE Exact(S, n))
        /\ found(B) = Or(InNamespaces(B, p, Order), IF "NODEFAULT" \in options THEN NULL ELSE Exact(B, n))
    BY <1>3, <2>1
  <2>3. InNamespaces(S, p, Order) = InNamespaces(B, p, Order)
    BY DefaultsHideNothing, OrderWithoutSpec
  <2>4. CASE "NOSPEC" \in options
    <3>1. Exact(S, n) = Exact(B, n) \/ Exact(S, n) = n
      BY <1>5 DEF Exact
    <3> HIDE DEF found
    <3> QED
      BY <1>2, <1>3, <2>2, <2>3, <2>4, <3>1 DEF Or
  <2>5. CASE "NOSPEC" \notin options
    <3>1. n \in S <=> n \in B
      BY <1>3, <1>4, <1>5, <1>7, <2>5
    <3>2. Exact(S, n) = Exact(B, n)
      BY <3>1 DEF Exact
    <3> HIDE DEF found
    <3> QED
      BY <1>2, <2>2, <2>3, <3>2
  <2> QED
    BY <2>4, <2>5
<1> QED
  BY <1>6, <1>7

-----------------------------------------------------------------------------
(* The chain of links behind an overflow *)

IsChain(S, k, c) == c \in [0 .. k -> Paths] /\ \A i \in 1 .. k : LinksTo(S, c[i - 1], c[i])
Chained(S, k, n) == IsCascading(n) /\ \E c : IsChain(S, k, c) /\ c[0] = n[2]

LEMMA NamesAreNotOverflow ==
    ASSUME NEW S \in SUBSET Names, meta \in Specs, NEW n \in Names
    PROVE  /\ Exact(S, n) # Overflow
           /\ InNamespaces(S, n[2], Order) # Overflow
           /\ elektraLookupBySpecNamespaces(S, n[2]) # Overflow
<1>1. \A m \in Names : Exact(S, m) \in Names \cup {NULL} /\ Exact(S, m) # Overflow
  BY Constants DEF Exact
<1>2. ASSUME NEW q \in Seq(Namespaces)
      PROVE  InNamespaces(S, n[2], q) # Overflow
  <2> DEFINE r == [i \in DOMAIN q |-> Exact(S, <<q[i], n[2]>>)]
  <2>1. Len(q) \in Nat /\ DOMAIN r = 1 .. Len(q) /\ DOMAIN q = 1 .. Len(q)
    BY LenProperties
  <2>2. \A i \in 1 .. Len(q) : r[i] \in Names \cup {NULL}
    BY <1>1, <2>1, InTypes, MetadataTypes
  <2> HIDE DEF r
  <2>3. FirstOf(r) \in Names \cup {NULL}
    BY <2>1, <2>2, FirstOfIn
  <2> QED
    BY <2>3, Constants DEF InNamespaces, r
<1>3. elektraLookupBySpecNamespaces(S, n[2]) = InNamespaces(S, n[2], SearchOrder(n[2]))
  BY DEF elektraLookupBySpecNamespaces, SearchOrder
<1> QED
  BY <1>1, <1>2, <1>3, SearchOrderType

LEMMA LinksLeadFromOne ==
    ASSUME NEW L, NEW q \in Seq(Names), LinksLead(L, q) = Overflow
    PROVE  \E m \in Names : m \in ToSet(q) /\ L[m] = Overflow
<1>1. Len(q) \in Nat /\ DOMAIN q = 1 .. Len(q) /\ \A i \in 1 .. Len(q) : q[i] \in Names
  BY LenProperties, ElementOfSeq
<1> DEFINE r == [i \in DOMAIN q |-> L[q[i]]]
<1>2. DOMAIN r = 1 .. Len(q) /\ \A i \in 1 .. Len(q) : r[i] = L[q[i]]
  BY <1>1
<1>3. FirstOf(r) = Overflow
  BY DEF LinksLead
<1> HIDE DEF r
<1>4. PICK i \in 1 .. Len(q) : FirstOf(r) = r[i]
  BY <1>1, <1>2, <1>3, FirstOfCases, Constants
<1> QED
  BY <1>1, <1>2, <1>3, <1>4 DEF ToSet

LEMMA ChainGrows ==
    ASSUME NEW S, meta \in Specs, NEW L, NEW k \in Nat, NEW n \in Names, IsCascading(n), HasSpec(S, n[2]),
           \A m \in Names : L[m] = Overflow => Chained(S, k, m),
           NEW l \in {meta[n[2]].override, meta[n[2]].fallback}, LinksLead(L, l) = Overflow
    PROVE  Chained(S, k + 1, n)
<1>1. n[2] \in Paths
  BY MetadataTypes
<1>3. l \in Seq(Names)
  BY MetadataTypes
<1>4. PICK m \in Names : m \in ToSet(l) /\ L[m] = Overflow
  BY <1>3, LinksLeadFromOne
<1>5. IsCascading(m) /\ \E c : IsChain(S, k, c) /\ c[0] = m[2]
  BY <1>4 DEF Chained
<1>6. PICK c : IsChain(S, k, c) /\ c[0] = m[2]
  BY <1>5
<1>7. LinksTo(S, n[2], m[2])
  <2>1. m = <<"/", m[2]>>
    BY <1>5 DEF Names, IsCascading
  <2> QED
    BY <1>1, <1>4, <2>1 DEF LinksTo
<1> DEFINE e == [i \in 0 .. (k + 1) |-> IF i = 0 THEN n[2] ELSE c[i - 1]]
<1>8. e[0] = n[2] /\ \A i \in 1 .. (k + 1) : e[i] = c[i - 1]
  OBVIOUS
<1>9. e \in [0 .. (k + 1) -> Paths]
  <2>1. ASSUME NEW i \in 0 .. (k + 1), i # 0 PROVE c[i - 1] \in Paths
    <3>1. i - 1 \in 0 .. k
      BY <2>1
    <3> QED
      BY <1>6, <3>1 DEF IsChain
  <2> QED
    BY <1>1, <2>1
<1> HIDE DEF e
<1>10. ASSUME NEW i \in 1 .. (k + 1) PROVE LinksTo(S, e[i - 1], e[i])
  <2>1. CASE i = 1
    <3>1. e[i] = c[0] /\ e[i - 1] = n[2]
      BY <1>8, <2>1
    <3> QED
      BY <1>6, <1>7, <3>1
  <2>2. CASE i # 1
    <3>1. i - 1 \in 1 .. (k + 1) /\ i - 1 \in 1 .. k
      BY <2>2
    <3>2. e[i] = c[i - 1] /\ e[i - 1] = c[i - 1 - 1]
      BY <1>8, <3>1
    <3> QED
      BY <1>6, <3>1, <3>2 DEF IsChain
  <2> QED
    BY <2>1, <2>2
<1>11. IsChain(S, k + 1, e)
  BY <1>9, <1>10 DEF IsChain
<1> QED
  BY <1>1, <1>8, <1>11 DEF Chained

\* A chain of more links than there are paths comes back to a path.
LEMMA LongChainHasCycle ==
    ASSUME NEW S, NEW n, Chained(S, Depth + 1, n)
    PROVE  HasCycle(S)
<1> DEFINE K == Cardinality(Paths)
<1>0. K \in Nat /\ Depth \in Nat /\ K <= Depth + 1
  BY Constants, FS_CardinalityType
<1>1. PICK c : IsChain(S, Depth + 1, c)
  BY DEF Chained
<1> DEFINE f == [i \in 0 .. K |-> c[i]]
<1>2. f \in [0 .. K -> Paths]
  <2>1. \A i \in 0 .. K : i \in 0 .. (Depth + 1)
    BY <1>0
  <2> QED
    BY <1>1, <2>1 DEF IsChain
<1>3. IsFiniteSet(0 .. K) /\ Cardinality(0 .. K) = K + 1
  <2>1. IsFiniteSet(0 .. K) /\ Cardinality(0 .. K) = IF 0 > K THEN 0 ELSE K - 0 + 1
    <3>1. 0 \in Int /\ K \in Int
      BY <1>0
    <3> HIDE DEF K
    <3> QED
      BY ONLY <3>1, FS_Interval
  <2> QED
    BY <1>0, <2>1
<1>4. \E x, y \in 0 .. K : x # y /\ f[x] = f[y]
  <2>1. K < Cardinality(0 .. K)
    BY <1>0, <1>3
  <2> HIDE DEF f
  <2> QED
    BY <1>2, <1>3, <2>1, Constants, FS_PigeonHole
<1>5. PICK x \in 0 .. K, y \in 0 .. K : x < y /\ c[x] = c[y]
  <2>1. PICK x, y \in 0 .. K : x # y /\ f[x] = f[y]
    BY <1>4
  <2>2. c[x] = c[y] /\ (x < y \/ y < x)
    BY <1>0, <2>1
  <2> QED
    BY <2>2
<1> DEFINE m == y - x
           e == [i \in 0 .. m |-> c[x + i]]
<1>6. /\ m \in 1 .. K
      /\ \A i \in 0 .. m : x + i \in 0 .. (Depth + 1)
      /\ \A i \in 1 .. m : x + i \in 1 .. (Depth + 1) /\ i \in 0 .. m /\ i - 1 \in 0 .. m /\ x + i - 1 = x + (i - 1)
      /\ 0 \in 0 .. m /\ m \in 0 .. m /\ x + 0 = x /\ x + m = y
  BY <1>0, <1>5
<1> HIDE DEF m, K
<1>7. e \in [0 .. m -> Paths] /\ e[m] = e[0]
  BY <1>1, <1>5, <1>6 DEF IsChain
<1>8. ASSUME NEW i \in 1 .. m PROVE LinksTo(S, e[i - 1], e[i])
  <2>1. e[i] = c[x + i] /\ e[i - 1] = c[x + i - 1]
    BY <1>6
  <2> QED
    BY <1>1, <1>6, <2>1 DEF IsChain
<1> HIDE DEF e
<1> QED
  BY <1>6, <1>7, <1>8 DEF HasCycle, K

\* If the search by the specification of p overflows, one of its links does.
\* KDB_O_POP may have taken that specification out of the keyset S.
LEMMA OverflowFromLinks ==
    ASSUME NEW T \in SUBSET Names, meta \in Specs, NEW n \in Names, NEW a, NEW b,
           FirstOf(<<a, elektraLookupBySpecNamespaces(T, n[2]), b>>) = Overflow
    PROVE  a = Overflow \/ b = Overflow
  BY FirstOfThree, NamesAreNotOverflow DEF Or

LEMMA BySpecOverflows ==
    ASSUME NEW S \in SUBSET Names, NEW T \in SUBSET S, meta \in Specs, NEW p \in Paths,
           HasSpec(S, p), BySpec(T, p) = Overflow
    PROVE  HasCycle(S)
<1>0. Depth \in Nat /\ Depth \in 0 .. Depth /\ T \in SUBSET Names
  BY Constants
<1>1. PICK L : IsLinkTable(T, L) /\ \A n \in Names : ByLink(T, n) = L[Depth][n]
  BY ByLinkUnfolds
<1> DEFINE P == {d \in 0 .. Depth : \A n \in Names : L[d][n] = Overflow => Chained(S, d, n)}
<1>2. 0 \in P
  <2>1. ASSUME NEW n \in Names, L[0][n] = Overflow PROVE Chained(S, 0, n)
    <3>1. TooDeep(T, n) = Overflow
      BY <1>1, <2>1 DEF IsLinkTable
    <3>2. IsCascading(n) /\ n[2] \in Paths
      BY <1>0, <3>1, NamesAreNotOverflow, MetadataTypes DEF TooDeep
    <3> DEFINE c == [i \in 0 .. 0 |-> n[2]]
    <3>3. IsChain(S, 0, c) /\ c[0] = n[2]
      BY <3>2 DEF IsChain
    <3> HIDE DEF c
    <3> QED
      BY <3>2, <3>3 DEF Chained
  <2> QED
    BY <1>0, <2>1
<1>3. ASSUME NEW d \in 1 .. Depth, d - 1 \in P PROVE d \in P
  <2>1. d \in 0 .. Depth /\ d - 1 \in Nat /\ d - 1 + 1 = d
    BY <1>0
  <2>2. \A m \in Names : L[d - 1][m] = Overflow => Chained(S, d - 1, m)
    BY <1>3
  <2>3. ASSUME NEW n \in Names, L[d][n] = Overflow PROVE Chained(S, d - 1 + 1, n)
    <3>1. Linked(T, L[d - 1], n) = Overflow
      BY <1>1, <2>3 DEF IsLinkTable
    <3>2. IsCascading(n) /\ HasSpec(T, n[2])
      BY <1>0, <3>1, NamesAreNotOverflow DEF Linked
    <3>3. FirstOf(<<LinksLead(L[d - 1], meta[n[2]].override), elektraLookupBySpecNamespaces(T, n[2]),
                    LinksLead(L[d - 1], meta[n[2]].fallback)>>) = Overflow
      BY <3>1, <3>2 DEF Linked
    <3>4. PICK l \in {meta[n[2]].override, meta[n[2]].fallback} : LinksLead(L[d - 1], l) = Overflow
      BY <1>0, <3>3, OverflowFromLinks
    <3>5. HasSpec(S, n[2])
      BY <3>2 DEF HasSpec
    <3> QED
      BY <2>1, <2>2, <3>2, <3>4, <3>5, ChainGrows
  <2> QED
    BY <2>1, <2>3
<1> HIDE DEF P
<1>4. \A d \in 0 .. Depth : d \in P
  BY <1>0, <1>2, <1>3, Induction
<1>5. \A m \in Names : L[Depth][m] = Overflow => Chained(S, Depth, m)
  BY <1>0, <1>4 DEF P
<1> DEFINE n == <<"/", p>>
<1>6. n \in Names /\ n[2] = p /\ IsCascading(n)
  BY DEF Names, IsCascading
<1> HIDE DEF n
<1>7. /\ elektraLookupBySpecLinks(T, meta[p].override) = LinksLead(L[Depth], meta[p].override)
      /\ elektraLookupBySpecLinks(T, meta[p].fallback) = LinksLead(L[Depth], meta[p].fallback)
  BY <1>1, <1>6, MetadataTypes, BySpecLinksLead
<1>8. PICK l \in {meta[n[2]].override, meta[n[2]].fallback} : LinksLead(L[Depth], l) = Overflow
  <2>1. FirstOf(<<LinksLead(L[Depth], meta[p].override), elektraLookupBySpecNamespaces(T, n[2]),
                  LinksLead(L[Depth], meta[p].fallback)>>) = Overflow
    BY <1>6, <1>7 DEF BySpec
  <2>2. LinksLead(L[Depth], meta[p].override) = Overflow \/ LinksLead(L[Depth], meta[p].fallback) = Overflow
    BY <1>0, <1>6, <2>1, OverflowFromLinks
  <2> QED
    BY <1>6, <2>2
<1>9. Chained(S, Depth + 1, n)
  BY <1>0, <1>5, <1>6, <1>8, ChainGrows
<1> QED
  BY <1>9, LongChainHasCycle

LEMMA KsLookupOverflows ==
    ASSUME NEW S \in SUBSET Names, meta \in Specs, NEW p \in Paths, NEW options,
           ksLookup(S, p, options).found = Overflow
    PROVE  HasCycle(S)
<1> DEFINE n == <<"/", p>>
           T == Popped(S, <<"spec", p>>, options)
           r == elektraLookupByCascading(S, p, options)
<1>1. n \in Names /\ n # Overflow /\ n[2] = p /\ NULL # Overflow
  BY Constants DEF Names
<1>2. r.found = Overflow
  BY <1>1 DEF ksLookup, Result
<1>3. CASE ~("NOSPEC" \notin options /\ HasSpec(S, p))
  <2>1. r.found = FirstOf(<<InNamespaces(S, p, Order), IF "NODEFAULT" \in options THEN NULL ELSE Exact(S, n)>>)
    BY <1>3 DEF elektraLookupByCascading, Result
  <2>2. InNamespaces(S, p, Order) # Overflow /\ Exact(S, n) # Overflow
    BY <1>1, NamesAreNotOverflow
  <2> QED
    BY <1>1, <1>2, <2>1, <2>2, FirstOfTwo DEF Or
<1>4. CASE "NOSPEC" \notin options /\ HasSpec(S, p)
  <2>1. T \in SUBSET S
    BY DEF Popped
  <2>2. r = elektraLookupBySpec(T, p, options)
    BY <1>4 DEF elektraLookupByCascading
  <2> HIDE DEF T
  <2>3. BySpec(T, p) = Overflow
    BY <1>1, <1>2, <2>2 DEF elektraLookupBySpec, BySpec, Result
  <2> QED
    BY <1>4, <2>1, <2>3, BySpecOverflows
<1> QED
  BY <1>3, <1>4

-----------------------------------------------------------------------------
(* The invariant *)

\* The last call, and what it worked with.
LastCall ==
    Called => /\ last.path \in Paths /\ last.before \in SUBSET Names
              /\ last.found = ksLookup(last.before, last.path, last.options).found
              /\ last.options \cap {"POP", "CREATE"} = {} => OnlyDefaults(first, last.before)

LookupInv ==
    /\ meta \in Specs
    /\ keys \in SUBSET Names /\ first \in SUBSET Names
    /\ OnlyDefaults(first, keys)
    /\ LastCall

LEMMA InitInv == Init => LookupInv
<1> SUFFICES ASSUME Init PROVE LookupInv
  OBVIOUS
<1>1. keys \in SUBSET Names
  BY Constants DEF Init
<1>2. ~Called
  BY DEF Init, Called
<1> QED
  BY <1>1, <1>2 DEF Init, LookupInv, OnlyDefaults, LastCall

\* The names in the keyset afterwards.
LEMMA KsLookupKeys ==
    ASSUME NEW S \in SUBSET Names, meta \in Specs, NEW p \in Paths, NEW options
    PROVE  /\ ksLookup(S, p, options).keys \in SUBSET Names
           /\ options \cap {"POP", "CREATE"} = {} =>
                \/ ksLookup(S, p, options).keys = S
                \/ ksLookup(S, p, options).keys = S \cup {<<"/", p>>} /\ HasSpec(S, p) /\ meta[p].default
<1> DEFINE n == <<"/", p>>
           T == Popped(S, <<"spec", p>>, options)
           r == elektraLookupByCascading(S, p, options)
<1>1. n \in Names
  BY DEF Names
<1>2. \A m : Popped(S, m, options) \in SUBSET S /\ ("POP" \notin options => Popped(S, m, options) = S)
  BY DEF Popped
<1>3. r.keys \in SUBSET Names /\ ("POP" \notin options => r.keys = S \/ (r.keys = S \cup {n} /\ HasSpec(S, p) /\ meta[p].default))
  <2>1. CASE "NOSPEC" \notin options /\ HasSpec(S, p)
    <3>1. r = elektraLookupBySpec(T, p, options)
      BY <2>1 DEF elektraLookupByCascading
    <3>2. T \in SUBSET S /\ ("POP" \notin options => T = S)
      BY <1>2
    <3> HIDE DEF T
    <3>3. r.keys = T \/ (r.keys = T \cup {n} /\ meta[p].default)
      BY <3>1 DEF elektraLookupBySpec, Result
    <3> HIDE DEF r, n
    <3> QED
      BY <1>1, <2>1, <3>2, <3>3
  <2>2. CASE ~("NOSPEC" \notin options /\ HasSpec(S, p))
    <3>1. \E m : r.keys = Popped(S, m, options)
      BY <2>2 DEF elektraLookupByCascading, Result
    <3> QED
      BY <1>2, <3>1
  <2> QED
    BY <2>1, <2>2
<1>4. ksLookup(S, p, options).keys = r.keys \/ ("CREATE" \in options /\ ksLookup(S, p, options).keys = r.keys \cup {n})
  BY DEF ksLookup, Result
<1> HIDE DEF r, n, T
<1> QED
  BY <1>1, <1>3, <1>4 DEF n

\* The next state sees the same specifications.
LEMMA SameMeta ==
    ASSUME meta' = meta, NEW S, NEW p, NEW options
    PROVE  ksLookup(S, p, options)' = ksLookup(S, p, options)
<1>1. ASSUME NEW T, NEW q PROVE elektraLookupBySpecNamespaces(T, q)' = elektraLookupBySpecNamespaces(T, q)
  BY DEF elektraLookupBySpecNamespaces
<1>2. ASSUME NEW T, NEW n PROVE ByLink(T, n)' = ByLink(T, n)
  BY DEF ByLink, elektraLookupBySpecNamespaces
<1>3. ASSUME NEW T, NEW l PROVE elektraLookupBySpecLinks(T, l)' = elektraLookupBySpecLinks(T, l)
  BY <1>2 DEF elektraLookupBySpecLinks
<1>4. ASSUME NEW T PROVE elektraLookupBySpec(T, p, options)' = elektraLookupBySpec(T, p, options)
  <2>1. /\ elektraLookupBySpecLinks(T, meta[p].override)' = elektraLookupBySpecLinks(T, meta[p].override)
        /\ elektraLookupBySpecLinks(T, meta[p].fallback)' = elektraLookupBySpecLinks(T, meta[p].fallback)
    BY <1>3
  <2> QED
    BY <1>1, <2>1 DEF elektraLookupBySpec
<1>5. elektraLookupByCascading(S, p, options)' = elektraLookupByCascading(S, p, options)
  BY <1>4 DEF elektraLookupByCascading
<1> QED
  BY <1>5 DEF ksLookup

LEMMA CallInv ==
    ASSUME LookupInv, NEW p \in Paths, NEW options \in OptionSets, Call(p, options)
    PROVE  LookupInv'
<1> DEFINE n == <<"/", p>>
           r == ksLookup(keys, p, options)
           safe == options \cap {"POP", "CREATE"} = {}
<1>1. /\ keys' = r.keys /\ meta' = meta
      /\ first' = IF safe THEN first ELSE r.keys
      /\ last' = [path |-> p, options |-> options, before |-> keys, found |-> r.found]
  BY DEF Call
<1>2. /\ r.keys \in SUBSET Names
      /\ safe => r.keys = keys \/ (r.keys = keys \cup {n} /\ HasSpec(keys, p) /\ meta[p].default)
  BY KsLookupKeys DEF LookupInv
<1>3. meta \in Specs /\ keys \in SUBSET Names /\ first \in SUBSET Names /\ OnlyDefaults(first, keys)
  BY DEF LookupInv
<1> HIDE DEF r
<1>4. OnlyDefaults(first, keys)'
  <2>1. CASE ~safe
    BY <1>1, <2>1 DEF OnlyDefaults
  <2>2. CASE safe /\ keys' = keys
    BY <1>1, <1>3, <2>2 DEF OnlyDefaults, HasSpec
  <2>3. CASE safe /\ keys' = keys \cup {n} /\ HasSpec(keys, p) /\ meta[p].default
    <3>1. HasSpec(first, p)
      BY <1>3, <2>3, DefaultsHideNothing
    <3> QED
      BY <1>1, <1>3, <2>3, <3>1 DEF OnlyDefaults, HasSpec
  <2> QED
    BY <1>1, <1>2, <2>1, <2>2, <2>3
<1>5. LastCall'
  BY <1>1, <1>3, SameMeta DEF LastCall, OnlyDefaults, HasSpec, r
<1> QED
  BY <1>1, <1>2, <1>3, <1>4, <1>5 DEF LookupInv

LEMMA StutterInv ==
    ASSUME LookupInv, UNCHANGED vars
    PROVE  LookupInv'
<1>1. meta' = meta /\ keys' = keys /\ first' = first /\ last' = last
  BY DEF vars
<1> QED
  BY <1>1, SameMeta DEF LookupInv, LastCall, OnlyDefaults, HasSpec, Called

LEMMA AlwaysInv == Spec => []LookupInv
<1>1. LookupInv /\ [Next]_vars => LookupInv'
  <2> SUFFICES ASSUME LookupInv, [Next]_vars PROVE LookupInv'
    OBVIOUS
  <2> QED
    BY CallInv, StutterInv DEF Next
<1> QED
  BY InitInv, <1>1, PTL DEF Spec

-----------------------------------------------------------------------------
(* The properties *)

\* A lookup returns the first key in the order that the specification
\* prescribes, or else the default or the key it creates, with any links
\* between any paths.
THEOREM SpecFindsFirst == Spec => []FindsFirst
<1>1. LookupInv => FindsFirst
  <2> SUFFICES ASSUME LookupInv, Called, "POP" \notin last.options PROVE FindsFirst
    BY DEF FindsFirst
  <2> DEFINE p == last.path
             S == IF "NOSPEC" \in last.options THEN last.before \ {<<"spec", p>>} ELSE last.before
             names == Candidates(S, p)
             hits == {i \in DOMAIN names : names[i] \in S \cup {Overflow}}
  <2>1. IsCall(last.before, p, last.options) /\ last.found = ksLookup(last.before, p, last.options).found
    BY DEF LookupInv, LastCall, IsCall
  <2>2. last.found = Prescribed(S, p, last.options)
    <3>1. S = Searched(last.before, p, last.options)
      BY DEF Searched
    <3> HIDE DEF S
    <3> QED
      BY <2>1, <3>1, KsLookupFinds
  <2>3. names \in Seq(Entries)
    BY <2>1, CandidatesOfPath DEF IsCall
  <2>4. /\ hits = {} => FirstHit(S, names) = NULL
        /\ hits # {} => FirstHit(S, names) = names[Min(hits)] /\ names[Min(hits)] # NULL
    <3>1. hits = {i \in DOMAIN names : names[i] \in S \cup {Overflow}}
      OBVIOUS
    <3> HIDE DEF names, S, hits
    <3> QED
      BY <2>3, <3>1, FirstHitIsFirst
  <2>5. last.found = IF hits # {} THEN names[Min(hits)] ELSE Otherwise(S, p, last.options)
    <3>1. Prescribed(S, p, last.options) = Or(FirstHit(S, names), Otherwise(S, p, last.options))
      BY DEF Prescribed
    <3> HIDE DEF names, hits
    <3> QED
      BY <2>2, <2>4, <3>1 DEF Or
  <2> QED
    BY <2>5 DEF FindsFirst, Otherwise
<1> QED
  BY AlwaysInv, <1>1, PTL

\* Whatever has been looked up before, a lookup finds what it would have found
\* in the keyset that the application has made.
THEOREM SpecIndependent == Spec => []Independent
<1>1. LookupInv => Independent
  <2> SUFFICES ASSUME LookupInv, Called, last.options \cap {"POP", "CREATE"} = {} PROVE Independent
    BY DEF Independent
  <2>1. /\ IsCall(last.before, last.path, last.options)
        /\ first \in SUBSET Names /\ OnlyDefaults(first, last.before)
        /\ last.found = ksLookup(last.before, last.path, last.options).found
    BY DEF LookupInv, LastCall, IsCall
  <2> QED
    BY <2>1, KsLookupIndependent DEF Independent
<1> QED
  BY AlwaysInv, <1>1, PTL

\* When the stack has room for a chain through all paths, only a cycle of
\* links exhausts it.
THEOREM SpecOverflowNeedsCycle == Spec => []OverflowNeedsCycle
<1>1. LookupInv => OverflowNeedsCycle
  BY KsLookupOverflows DEF LookupInv, LastCall, OverflowNeedsCycle
<1> QED
  BY AlwaysInv, <1>1, PTL

=============================================================================
