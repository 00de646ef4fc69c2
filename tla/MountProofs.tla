---------------------------- MODULE MountProofs -----------------------------
(***************************************************************************)
(* kdbOpen() gives every key the right backend, and kdbClose() gives all   *)
(* backends back, for any configuration, names and modules.                *)
(*                                                                         *)
(* A trie is Branching: where two names in it part, there is a node.  So   *)
(* the entry for a name in a node is the only way on, a lookup meets all   *)
(* nodes whose names begin the name it looks for, and the last one that    *)
(* holds a backend wins (LookupCorrect).  An insertion keeps that, with a  *)
(* split or without, and changes one node (InsertCorrect).  The invariant  *)
(* MountInv says that the trie holds what the history of the insertions    *)
(* says, and that the reference counters count it.  SplitInv says that     *)
(* kdb->split has a part for each of these insertions and for the roots    *)
(* that nobody mounts; that is why every key finds its backend there.      *)
(***************************************************************************)
EXTENDS Mount, DataInduction

Strings == Seq(Characters \cup {"/", "s", "p", "d", "u", "y"})

-----------------------------------------------------------------------------
(* Strings *)

\* The first i characters of m and n are the same.
Agree(m, n, i) == i <= Len(m) /\ i <= Len(n) /\ \A j \in 1 .. i : m[j] = n[j]

\* The beginning of a string.
LEMMA FirstProperties ==
    ASSUME NEW s \in Strings, NEW i \in 0 .. Len(s)
    PROVE  /\ First(s, i) \in Strings /\ Len(First(s, i)) = i
           /\ \A j \in 1 .. i : First(s, i)[j] = s[j]
<1> DEFINE X == Characters \cup {"/", "s", "p", "d", "u", "y"}
<1>0. s \in Seq(X) /\ Len(s) \in Nat
  BY LenProperties DEF Strings
<1> HIDE DEF X
<1>1. /\ SubSeq(s, 1, i) \in Seq(X)
      /\ Len(SubSeq(s, 1, i)) = (IF 1 <= i THEN i - 1 + 1 ELSE 0)
      /\ \A j \in 1 .. (i - 1 + 1) : SubSeq(s, 1, i)[j] = s[1 + j - 1]
  <2>1. 1 \in Int /\ i \in Int /\ \A j \in 1 .. i : s[j] \in X
    BY <1>0, ElementOfSeq
  <2> QED
    BY <2>1, SubSeqProperties
<1>2. \A j \in 1 .. i : j \in 1 .. (i - 1 + 1) /\ 1 + j - 1 = j
  OBVIOUS
<1>3. (IF 1 <= i THEN i - 1 + 1 ELSE 0) = i
  OBVIOUS
<1>4. \A j \in 1 .. i : SubSeq(s, 1, i)[j] = s[j]
  BY <1>1, <1>2
<1> QED
  BY <1>1, <1>3, <1>4 DEF First, Strings, X

\* Lengths are numbers.
LEMMA LengthType == \A s \in Strings : Len(s) \in Nat
  BY LenProperties DEF Strings

\* Strings that agree to the end of both are equal.
LEMMA SameString ==
    ASSUME NEW s \in Strings, NEW t \in Strings, Len(s) = Len(t), Agree(s, t, Len(s))
    PROVE  s = t
  BY LengthType, SeqEqual DEF Strings, Agree

\* Beginnings are equal just if the strings agree so far.
LEMMA FirstEqual ==
    ASSUME NEW s \in Strings, NEW t \in Strings, NEW i \in Nat, i <= Len(s), i <= Len(t)
    PROVE  First(s, i) = First(t, i) <=> Agree(s, t, i)
<1>0. i \in 0 .. Len(s) /\ i \in 0 .. Len(t)
  BY LengthType
<1>1. /\ First(s, i) \in Strings /\ Len(First(s, i)) = i
      /\ \A j \in 1 .. i : First(s, i)[j] = s[j]
  BY <1>0, FirstProperties
<1>2. /\ First(t, i) \in Strings /\ Len(First(t, i)) = i
      /\ \A j \in 1 .. i : First(t, i)[j] = t[j]
  BY <1>0, FirstProperties
<1>3. ASSUME First(s, i) = First(t, i) PROVE Agree(s, t, i)
  BY <1>1, <1>2, <1>3 DEF Agree
<1>4. ASSUME Agree(s, t, i) PROVE First(s, i) = First(t, i)
  <2>1. Agree(First(s, i), First(t, i), Len(First(s, i)))
    BY <1>1, <1>2, <1>4 DEF Agree
  <2> QED
    BY <1>1, <1>2, <2>1, SameString
<1> QED
  BY <1>3, <1>4

\* A prefix agrees to its end.
LEMMA PrefixMeans ==
    ASSUME NEW s \in Strings, NEW t \in Strings
    PROVE  IsPrefix(s, t) <=> Agree(s, t, Len(s))
  BY FirstEqual, LengthType DEF IsPrefix, First, Agree

\* The beginning of a string agrees with the string.
LEMMA FirstAgrees ==
    ASSUME NEW s \in Strings, NEW i \in 0 .. Len(s)
    PROVE  First(s, i) \in Strings /\ Len(First(s, i)) = i /\ Agree(First(s, i), s, i)
<1>0. Len(s) \in Nat
  BY LengthType
<1> QED
  BY <1>0, FirstProperties DEF Agree

\* A beginning is First.
LEMMA IsFirst ==
    ASSUME NEW s \in Strings, NEW t \in Strings, Agree(s, t, Len(s))
    PROVE  s = First(t, Len(s)) /\ Len(s) \in 0 .. Len(t)
<1>0. Len(s) \in Nat /\ Len(t) \in Nat /\ Len(s) <= Len(t)
  BY LengthType DEF Agree
<1>1. First(t, Len(s)) \in Strings /\ Len(First(t, Len(s))) = Len(s) /\ Agree(First(t, Len(s)), t, Len(s))
  BY <1>0, FirstAgrees
<1>2. Agree(s, First(t, Len(s)), Len(s))
  BY <1>1 DEF Agree
<1> QED
  BY <1>0, <1>1, <1>2, SameString

-----------------------------------------------------------------------------
(* One node *)

SlotType == [value: Backends \cup {NULL}, empty_value: Backends \cup {NULL}]

\* Where two entries part there is a node.
Branching(t) ==
    \A m, n \in DOMAIN t : \A i \in Nat :
        i < Len(m) /\ i < Len(n) /\ Agree(m, n, i) /\ m[i + 1] # n[i + 1] => First(m, i) \in DOMAIN t

\* A trie of trie.c.
IsTrie(t) ==
    /\ t \in [DOMAIN t -> SlotType]
    /\ DOMAIN t \in SUBSET Strings /\ IsFiniteSet(DOMAIN t)
    /\ <<>> \in DOMAIN t /\ t[<<>>].value = NULL
    /\ Branching(t)

\* The shortest of some strings.
LEMMA ShortestProperties ==
    ASSUME NEW S \in SUBSET Strings, S # {}
    PROVE  Shortest(S) \in S /\ \A m \in S : Len(Shortest(S)) <= Len(m)
<1>1. PICK s \in S : TRUE
  OBVIOUS
<1> DEFINE L == {k \in 0 .. Len(s) : \E n \in S : Len(n) = k}
<1>2. Len(s) \in Nat /\ \A n \in S : Len(n) \in Nat
  BY LengthType
<1>3. L \in SUBSET (0 .. Len(s)) /\ L # {}
  BY <1>2
<1>4. PICK k \in L : \A j \in L : k <= j
  <2> HIDE DEF L
  <2> QED
    BY <1>2, <1>3, LeastElement
<1>5. PICK n \in S : Len(n) = k
  OBVIOUS
<1>6. ASSUME NEW m \in S PROVE Len(n) <= Len(m)
  <2>1. Len(m) \in L \/ Len(m) > Len(s)
    BY <1>2
  <2> QED
    BY <1>2, <1>4, <1>5, <2>1
<1> QED
  BY <1>5, <1>6 DEF Shortest

\* The entries in a node that begin with the next character of the name.
LEMMA AlikeMeans ==
    ASSUME NEW t, IsTrie(t), NEW name \in Strings, NEW i \in 0 .. Len(name)
    PROVE  /\ Alike(t, name, i) \in SUBSET Strings
           /\ \A n \in DOMAIN t : n \in Alike(t, name, i) <=> Agree(n, name, i + 1)
<1>1. Len(name) \in Nat /\ i \in Nat /\ i + 1 \in Nat
  BY LengthType
<1>2. ASSUME NEW n \in DOMAIN t PROVE n \in Alike(t, name, i) <=> Agree(n, name, i + 1)
  <2>1. n \in Strings /\ Len(n) \in Nat
    BY LengthType DEF IsTrie
  <2>2. i < Len(name) /\ i < Len(n) => (First(n, i + 1) = First(name, i + 1) <=> Agree(n, name, i + 1))
    BY <1>1, <2>1, FirstEqual
  <2>3. Agree(n, name, i + 1) => i < Len(name) /\ i < Len(n)
    BY <1>1, <2>1 DEF Agree
  <2> QED
    BY <2>2, <2>3 DEF Alike
<1> QED
  BY <1>2 DEF Alike, IsTrie

\* The entry for a name: all others that go on like the name go on behind it.
LEMMA EntryProperties ==
    ASSUME NEW t, IsTrie(t), NEW name \in Strings, NEW i \in 0 .. Len(name), Alike(t, name, i) # {},
           NEW e, e = Shortest(Alike(t, name, i))
    PROVE  /\ e \in DOMAIN t /\ e \in Strings /\ Len(e) \in Nat /\ i < Len(e)
           /\ Agree(e, name, i + 1)
           /\ \A m \in DOMAIN t : Agree(m, name, i + 1) => Agree(e, m, Len(e))
<1> DEFINE A == Alike(t, name, i)
<1>0. Len(name) \in Nat /\ i \in Nat
  BY LengthType
<1>1. e \in A /\ \A m \in A : Len(e) <= Len(m)
  BY AlikeMeans, ShortestProperties
<1>2. e \in DOMAIN t /\ e \in Strings /\ Len(e) \in Nat
  BY <1>1, LengthType DEF Alike, IsTrie
<1>3. Agree(e, name, i + 1)
  BY <1>1, <1>2, AlikeMeans
<1>4. i < Len(e)
  BY <1>0, <1>2, <1>3 DEF Agree
<1>5. ASSUME NEW m \in DOMAIN t, Agree(m, name, i + 1), ~Agree(e, m, Len(e)) PROVE FALSE
  <2>0. m \in Strings /\ Len(m) \in Nat
    BY LengthType DEF IsTrie
  <2>1. m \in A /\ Len(e) <= Len(m)
    BY <1>1, <1>5, AlikeMeans
  <2> DEFINE B == {j \in 0 .. Len(e) : j # 0 /\ e[j] # m[j]}
  <2>2. B # {} /\ B \in SUBSET (0 .. Len(e))
    BY <1>2, <1>5, <2>0, <2>1 DEF Agree
  <2>3. PICK j \in B : \A k \in B : j <= k
    <3> HIDE DEF B
    <3> QED
      BY <1>2, <2>2, LeastElement
  <2>4. j \in 1 .. Len(e) /\ e[j] # m[j]
    OBVIOUS
  <2>5. \A k \in 1 .. (j - 1) : e[k] = m[k]
    BY <1>2, <2>3, <2>4
  <2>6. \A k \in 1 .. (i + 1) : e[k] = m[k]
    BY <1>3, <1>5 DEF Agree
  <2>7. j > i + 1
    BY <1>0, <2>4, <2>6
  <2> HIDE DEF B
  <2> DEFINE s == First(e, j - 1)
  <2>8. s \in DOMAIN t
    <3>1. j - 1 \in Nat /\ j - 1 < Len(e) /\ j - 1 < Len(m) /\ j - 1 + 1 = j
      BY <1>2, <2>0, <2>1, <2>4
    <3>2. Agree(e, m, j - 1)
      BY <2>5, <3>1 DEF Agree
    <3> QED
      BY <1>2, <2>4, <3>1, <3>2 DEF IsTrie, Branching
  <2>9. s \in Strings /\ Len(s) = j - 1 /\ Agree(s, e, j - 1)
    BY <1>2, <2>4, FirstAgrees
  <2> HIDE DEF s
  <2>10. Agree(s, name, i + 1)
    BY <1>0, <1>2, <1>3, <2>4, <2>7, <2>9 DEF Agree
  <2>11. s \in A
    BY <2>8, <2>10, AlikeMeans
  <2> QED
    BY <1>1, <1>2, <2>4, <2>9, <2>11
<1> QED
  BY <1>2, <1>3, <1>4, <1>5

\* elektraTrieStartsWith: 0, or the first character that is different.
LEMMA StartsWithMeans ==
    ASSUME NEW name \in Strings, NEW e \in Strings, NEW p, p = elektraTrieStartsWith(name, e)
    PROVE  /\ p = 0 <=> Agree(e, name, Len(e))
           /\ p # 0 => /\ p \in 1 .. Len(e) /\ p - 1 <= Len(name)
                       /\ Agree(e, name, p - 1)
                       /\ p <= Len(name) => name[p] # e[p]
<1> DEFINE M == {i \in 1 .. Len(e) : i > Len(name) \/ e[i] # name[i]}
<1>0. Len(name) \in Nat /\ Len(e) \in Nat
  BY LengthType
<1>1. CASE M = {}
  <2>1. p = 0
    BY <1>1 DEF elektraTrieStartsWith
  <2>2. Agree(e, name, Len(e))
    <3>1. \A i \in 1 .. Len(e) : ~(i > Len(name)) /\ e[i] = name[i]
      BY <1>1
    <3>2. Len(e) <= Len(name)
      BY <1>0, <3>1
    <3> QED
      BY <1>0, <3>1, <3>2 DEF Agree
  <2> QED
    BY <2>1, <2>2
<1>2. CASE M # {}
  <2>1. p = Min(M)
    BY <1>2 DEF elektraTrieStartsWith
  <2>2. p \in M /\ \A y \in M : p <= y
    <3>1. M \in SUBSET (1 .. Len(e))
      OBVIOUS
    <3> HIDE DEF M
    <3>2. Min(M) \in M /\ \A y \in M : Min(M) <= y
      BY <1>0, <1>2, <3>1, MinIsLeast
    <3> QED
      BY <2>1, <3>2
  <2>3. p \in 1 .. Len(e) /\ (p > Len(name) \/ e[p] # name[p])
    BY <2>2
  <2>4. \A j \in 1 .. (p - 1) : j <= Len(name) /\ e[j] = name[j]
    BY <1>0, <2>2, <2>3
  <2> HIDE DEF M
  <2>5. p - 1 <= Len(name)
    <3>1. p - 1 = 0 \/ p - 1 \in 1 .. (p - 1)
      BY <2>3
    <3> QED
      BY <1>0, <2>4, <3>1
  <2>6. Agree(e, name, p - 1)
    BY <1>0, <2>3, <2>4, <2>5 DEF Agree
  <2>7. ~Agree(e, name, Len(e))
    BY <1>0, <2>3 DEF Agree
  <2> QED
    BY <2>3, <2>5, <2>6, <2>7
<1> QED
  BY <1>1, <1>2

-----------------------------------------------------------------------------
(* The way of a name through a trie *)

EntryOf(t, name, i) == Shortest(Alike(t, name, i))

\* Does the search for a name end in the node of the first i characters?
Ends(t, name, i) == Alike(t, name, i) = {} \/ elektraTrieStartsWith(name, EntryOf(t, name, i)) # 0

Onward(t, name) == [i \in 0 .. Len(name) |-> IF Ends(t, name, i) THEN 0 ELSE Len(EntryOf(t, name, i))]

\* A lookup goes on to a longer entry or ends.
LEMMA OnwardProperties ==
    ASSUME NEW t, IsTrie(t), NEW name \in Strings, NEW i \in 0 .. Len(name)
    PROVE  /\ Ends(t, name, i) => Onward(t, name)[i] = 0
           /\ ~Ends(t, name, i) => /\ Onward(t, name)[i] = Len(EntryOf(t, name, i))
                                   /\ Len(EntryOf(t, name, i)) \in (i + 1) .. Len(name)
                                   /\ EntryOf(t, name, i) \in DOMAIN t
                                   /\ EntryOf(t, name, i) = First(name, Len(EntryOf(t, name, i)))
<1> DEFINE e == EntryOf(t, name, i)
<1>1. Onward(t, name)[i] = IF Ends(t, name, i) THEN 0 ELSE Len(e)
  BY DEF Onward
<1>2. ASSUME ~Ends(t, name, i)
      PROVE  Len(e) \in (i + 1) .. Len(name) /\ e \in DOMAIN t /\ e = First(name, Len(e))
  <2>1. Alike(t, name, i) # {} /\ elektraTrieStartsWith(name, e) = 0
    BY <1>2 DEF Ends
  <2>2. e \in DOMAIN t /\ e \in Strings /\ Len(e) \in Nat /\ i < Len(e)
    BY <2>1, EntryProperties DEF EntryOf
  <2> HIDE DEF e
  <2>3. Agree(e, name, Len(e))
    BY <2>1, <2>2, StartsWithMeans
  <2>4. e = First(name, Len(e)) /\ Len(e) <= Len(name)
    BY <2>2, <2>3, IsFirst DEF Agree
  <2>5. Len(name) \in Nat
    BY LengthType
  <2> QED
    BY <2>2, <2>4, <2>5
<1> QED
  BY <1>1, <1>2

\* The recursive functions of the model are what they are defined to be.
LEMMA LookupUnfolds ==
    ASSUME NEW t, IsTrie(t), NEW name \in Strings
    PROVE  \E f : /\ elektraTriePrefixLookup(t, name) = f[0]
                  /\ \A i \in 0 .. Len(name) :
                       f[i] = LET e == EntryOf(t, name, i)
                                  empty_value == t[First(name, i)].empty_value
                              IN IF Ends(t, name, i) THEN empty_value
                                 ELSE IF f[Len(e)] # NULL THEN f[Len(e)]
                                 ELSE IF t[e].value # NULL THEN t[e].value ELSE empty_value
<1> DEFINE n == Len(name)
           e(i) == EntryOf(t, name, i)
           empty(i) == t[First(name, i)].empty_value
           rest(i) == IF t[e(i)].value # NULL THEN t[e(i)].value ELSE empty(i)
           Body(f, i) == IF Ends(t, name, i) THEN empty(i) ELSE IF f[Len(e(i))] # NULL THEN f[Len(e(i))] ELSE rest(i)
           Is(f) == f = [i \in 0 .. n |->
                LET alike == Alike(t, name, i)
                    x == Shortest(alike)
                    ret == f[Len(x)]
                    empty_value == t[First(name, i)].empty_value
                IN IF alike = {} \/ elektraTrieStartsWith(name, x) # 0 THEN empty_value
                   ELSE IF ret # NULL THEN ret
                   ELSE IF t[x].value # NULL THEN t[x].value ELSE empty_value]
           j == Onward(t, name)
           a == [i \in 0 .. n |-> empty(i)]
           b == [i \in 0 .. n |-> rest(i)]
<1>0. n \in Nat
  BY LengthType
<1>1. \A f : Is(f) <=> f = [i \in 0 .. n |-> Body(f, i)]
  BY DEF EntryOf, Ends
<1>2. \A i \in 0 .. n : j[i] # 0 => j[i] \in (i + 1) .. n
  BY OnwardProperties
<1> HIDE DEF n, j, a, b
<1>3. PICK f : IsDescent(f, n, j, a, b, NULL)
  BY <1>0, <1>2, DescentExists
<1>4. \A i \in 0 .. n : a[i] = empty(i) /\ b[i] = rest(i)
  BY DEF a, b
<1>5. \A i \in 0 .. n : Ends(t, name, i) => j[i] = 0
  BY OnwardProperties DEF n, j
<1>6. \A i \in 0 .. n : ~Ends(t, name, i) => j[i] = Len(e(i)) /\ j[i] # 0
  BY OnwardProperties DEF n, j
<1>7. f = [i \in 0 .. n |-> f[i]]
  BY <1>3 DEF IsDescent
<1>8. \A i \in 0 .. n : f[i] = Body(f, i)
  <2> HIDE DEF e, empty, rest
  <2>1. \A i \in 0 .. n : f[i] = IF j[i] = 0 THEN a[i] ELSE IF f[j[i]] # NULL THEN f[j[i]] ELSE b[i]
    BY <1>3 DEF IsDescent
  <2> QED
    BY <1>4, <1>5, <1>6, <2>1
<1>9. Is(f)
  <2> HIDE DEF Body, Is
  <2>1. f = [i \in 0 .. n |-> Body(f, i)]
    BY <1>7, <1>8
  <2> QED
    BY <1>1, <2>1
<1> DEFINE g == CHOOSE g : Is(g)
<1>10. elektraTriePrefixLookup(t, name) = g[0]
  BY DEF elektraTriePrefixLookup, n
<1>11. Is(g)
  <2> HIDE DEF Is
  <2> QED
    BY <1>9
<1>12. \A i \in 0 .. n : g[i] = Body(g, i)
  <2> HIDE DEF g
  <2>1. g = [i \in 0 .. n |-> Body(g, i)]
    <3> HIDE DEF Is, Body
    <3> QED
      BY <1>1, <1>11
  <2> HIDE DEF Body
  <2> QED
    BY <2>1
<1> HIDE DEF g, Is
<1> QED
  BY <1>10, <1>12 DEF n

-----------------------------------------------------------------------------
(* What a lookup finds *)

\* What is mounted at a name: the last insertion of it is in empty_value, if
\* there was one before.
At(t, n) ==
    IF n \notin DOMAIN t THEN NULL
    ELSE IF t[n].empty_value # NULL THEN t[n].empty_value ELSE t[n].value

\* The mounted names that name begins with.
Above(t, name) == {m \in DOMAIN t : Agree(m, name, Len(m)) /\ At(t, m) # NULL}
Behind(t, name, i) == {m \in Above(t, name) : Len(m) > i}
Longest(m, S) == m \in S /\ \A o \in S : Len(o) <= Len(m)

Finds(t, name, i, r) ==
    \/ \E m \in Behind(t, name, i) : Longest(m, Behind(t, name, i)) /\ r = At(t, m)
    \/ Behind(t, name, i) = {} /\ r = t[First(name, i)].empty_value

\* Where the way of a name ends, there is nothing behind.
LEMMA NothingBehindEnd ==
    ASSUME NEW t, IsTrie(t), NEW name \in Strings, NEW i \in 0 .. Len(name), Ends(t, name, i)
    PROVE  /\ Behind(t, name, i) = {}
           /\ i < Len(name) => name \notin DOMAIN t
<1>0. Len(name) \in Nat /\ i \in Nat
  BY LengthType
<1>1. ASSUME NEW m \in DOMAIN t, Agree(m, name, Len(m)), Len(m) > i PROVE FALSE
  <2>0. m \in Strings /\ Len(m) \in Nat
    BY LengthType DEF IsTrie
  <2>1. Agree(m, name, i + 1)
    BY <1>0, <1>1, <2>0 DEF Agree
  <2>2. Alike(t, name, i) # {}
    BY <2>1, AlikeMeans
  <2> DEFINE e == EntryOf(t, name, i)
  <2>3. e \in Strings /\ Len(e) \in Nat /\ Agree(e, m, Len(e))
    BY <2>1, <2>2, EntryProperties DEF EntryOf
  <2> HIDE DEF e
  <2>4. Agree(e, name, Len(e))
    BY <1>0, <1>1, <2>0, <2>3 DEF Agree
  <2>5. elektraTrieStartsWith(name, e) = 0
    BY <2>3, <2>4, StartsWithMeans
  <2> QED
    BY <2>2, <2>5 DEF Ends, e
<1>2. Behind(t, name, i) = {}
  BY <1>1 DEF Behind, Above
<1>3. Agree(name, name, Len(name))
  BY <1>0 DEF Agree
<1> QED
  BY <1>0, <1>1, <1>2, <1>3

\* What is behind a node is the entry and what is behind the entry.
LEMMA BehindEntry ==
    ASSUME NEW t, IsTrie(t), NEW name \in Strings, NEW i \in 0 .. Len(name), ~Ends(t, name, i),
           NEW e, e = EntryOf(t, name, i)
    PROVE  Behind(t, name, i) = Behind(t, name, Len(e)) \cup (IF At(t, e) # NULL THEN {e} ELSE {})
<1>0. Len(name) \in Nat /\ i \in Nat
  BY LengthType
<1>1. e \in DOMAIN t /\ e = First(name, Len(e)) /\ Len(e) \in (i + 1) .. Len(name)
  BY OnwardProperties
<1>2. e \in Strings /\ Agree(e, name, Len(e))
  BY <1>0, <1>1, FirstAgrees
<1>3. ASSUME NEW m \in DOMAIN t, Agree(m, name, Len(m)), Len(m) > i PROVE Len(m) > Len(e) \/ m = e
  <2>0. m \in Strings /\ Len(m) \in Nat
    BY LengthType DEF IsTrie
  <2>1. Agree(m, name, i + 1)
    BY <1>0, <1>3, <2>0 DEF Agree
  <2>2. Agree(e, m, Len(e))
    BY <2>1, EntryProperties DEF EntryOf, Ends
  <2>3. Len(m) >= Len(e)
    BY <1>1, <2>0, <2>2 DEF Agree
  <2>4. Len(m) = Len(e) => m = e
    BY <1>2, <2>0, <2>2, SameString
  <2> QED
    BY <1>1, <2>0, <2>3, <2>4
<1>4. \A m \in DOMAIN t : Len(m) \in Nat
  BY LengthType DEF IsTrie
<1>5. ASSUME NEW m PROVE m \in Behind(t, name, i) <=> m \in Behind(t, name, Len(e)) \/ (At(t, e) # NULL /\ m = e)
  BY <1>0, <1>1, <1>2, <1>3, <1>4 DEF Behind, Above
<1> QED
  BY <1>5

\* By induction from the end of the way: what a lookup finds behind each node.
LEMMA LookupFinds ==
    ASSUME NEW t, IsTrie(t), NEW name \in Strings
    PROVE  Finds(t, name, 0, elektraTriePrefixLookup(t, name))
<1> DEFINE n == Len(name)
<1>0. n \in Nat
  BY LengthType
<1>1. PICK f : /\ elektraTriePrefixLookup(t, name) = f[0]
               /\ \A i \in 0 .. n :
                    f[i] = LET e == EntryOf(t, name, i)
                               empty_value == t[First(name, i)].empty_value
                           IN IF Ends(t, name, i) THEN empty_value
                              ELSE IF f[Len(e)] # NULL THEN f[Len(e)]
                              ELSE IF t[e].value # NULL THEN t[e].value ELSE empty_value
  BY LookupUnfolds
<1> HIDE DEF n
<1> DEFINE P == {k \in 0 .. n : \A i \in (n - k) .. n : Finds(t, name, i, f[i])}
<1>2. ASSUME NEW i \in 0 .. n, \A c \in (i + 1) .. n : Finds(t, name, c, f[c])
      PROVE  Finds(t, name, i, f[i])
  <2> DEFINE e == EntryOf(t, name, i)
             empty_value == t[First(name, i)].empty_value
             B == Behind(t, name, i)
  <2>1. CASE Ends(t, name, i)
    <3>1. f[i] = empty_value
      BY <1>1, <2>1
    <3>2. B = {}
      BY <2>1, NothingBehindEnd DEF n
    <3> QED
      BY <3>1, <3>2 DEF Finds
  <2>2. CASE ~Ends(t, name, i)
    <3>1. e \in DOMAIN t /\ e = First(name, Len(e)) /\ Len(e) \in (i + 1) .. n
      BY <2>2, OnwardProperties DEF n
    <3>2. B = Behind(t, name, Len(e)) \cup (IF At(t, e) # NULL THEN {e} ELSE {})
      BY <2>2, BehindEntry DEF n
    <3>3. Finds(t, name, Len(e), f[Len(e)])
      BY <1>2, <3>1
    <3>4. f[i] = IF f[Len(e)] # NULL THEN f[Len(e)]
                 ELSE IF t[e].value # NULL THEN t[e].value ELSE empty_value
      BY <1>1, <2>2
    <3>5. At(t, e) = IF t[e].empty_value # NULL THEN t[e].empty_value ELSE t[e].value
      BY <3>1 DEF At
    <3> HIDE DEF e, empty_value
    <3>6. CASE \E m \in Behind(t, name, Len(e)) : Longest(m, Behind(t, name, Len(e))) /\ f[Len(e)] = At(t, m)
      <4>1. PICK m \in Behind(t, name, Len(e)) : Longest(m, Behind(t, name, Len(e))) /\ f[Len(e)] = At(t, m)
        BY <3>6
      <4>2. At(t, m) # NULL /\ Len(m) > Len(e) /\ m \in DOMAIN t
        BY DEF Behind, Above
      <4>3. Len(m) \in Nat /\ Len(e) \in Nat
        BY <3>1, <4>2, LengthType DEF IsTrie
      <4>4. m \in B /\ \A o \in B : Len(o) <= Len(m)
        BY <3>2, <4>1, <4>2, <4>3 DEF Longest
      <4> HIDE DEF B
      <4>5. f[i] = At(t, m)
        BY <3>4, <4>1, <4>2
      <4> QED
        BY <4>4, <4>5 DEF Finds, Longest, B
    <3>7. CASE Behind(t, name, Len(e)) = {} /\ f[Len(e)] = t[First(name, Len(e))].empty_value
      <4>1. f[Len(e)] = t[e].empty_value
        BY <3>1, <3>7
      <4>2. CASE At(t, e) # NULL
        <5>1. B = {e}
          BY <3>2, <3>7, <4>2
        <5>2. f[i] = At(t, e)
          BY <3>4, <3>5, <4>1, <4>2
        <5>3. Longest(e, B)
          BY <3>1, <5>1, LengthType DEF Longest, IsTrie
        <5> HIDE DEF B
        <5> QED
          BY <5>1, <5>2, <5>3 DEF Finds, B
      <4>3. CASE At(t, e) = NULL
        <5>1. B = {}
          BY <3>2, <3>7, <4>3
        <5>2. f[i] = empty_value
          BY <3>4, <3>5, <4>1, <4>3
        <5> QED
          BY <5>1, <5>2 DEF Finds, empty_value
      <4> QED
        BY <4>2, <4>3
    <3> QED
      BY <3>3, <3>6, <3>7 DEF Finds
  <2> QED
    BY <2>1, <2>2
<1>3. 0 \in P
  <2>1. \A i \in (n - 0) .. n : i \in 0 .. n /\ \A c \in (i + 1) .. n : FALSE
    BY <1>0
  <2> QED
    BY <1>0, <1>2, <2>1
<1>4. ASSUME NEW k \in 1 .. n, k - 1 \in P PROVE k \in P
  <2>1. \A i \in (n - k) .. n : i \in 0 .. n /\ \A c \in (i + 1) .. n : c \in (n - (k - 1)) .. n
    BY <1>0
  <2>2. \A i \in (n - (k - 1)) .. n : Finds(t, name, i, f[i])
    BY <1>4
  <2> QED
    BY <1>0, <1>2, <2>1, <2>2
<1>5. n \in P
  <2>1. \A k \in 0 .. n : k \in P
    <3> HIDE DEF P
    <3> QED
      BY <1>0, <1>3, <1>4, Induction
  <2> QED
    BY <1>0, <2>1
<1>6. Finds(t, name, 0, f[0])
  <2>1. 0 \in (n - n) .. n
    BY <1>0
  <2> QED
    BY <1>5, <2>1
<1> QED
  BY <1>1, <1>6

\* A lookup finds what is mounted at the longest name above.
LEMMA LookupCorrect ==
    ASSUME NEW t, IsTrie(t), NEW name \in Strings,
           NEW r, r = elektraTriePrefixLookup(t, name)
    PROVE  /\ r = NULL <=> Above(t, name) = {}
           /\ r # NULL => \E m \in Above(t, name) : Longest(m, Above(t, name)) /\ r = At(t, m)
<1>0. Len(name) \in Nat
  BY LengthType
<1>1. Finds(t, name, 0, r)
  BY LookupFinds
<1>2. First(name, 0) = <<>> /\ Agree(<<>>, name, 0) /\ Len(<<>>) = 0
  BY <1>0 DEF First, Agree
<1>3. \A m \in Above(t, name) : m \in Strings /\ Len(m) \in Nat /\ At(t, m) # NULL /\ (Len(m) = 0 => m = <<>>)
  <2>1. \A m \in Above(t, name) : m \in Strings /\ Len(m) \in Nat /\ At(t, m) # NULL
    BY LengthType DEF Above, IsTrie
  <2>2. \A m \in Strings : m # <<>> => Len(m) # 0
    BY EmptySeq DEF Strings
  <2> QED
    BY <2>1, <2>2
<1>4. <<>> \in Above(t, name) <=> At(t, <<>>) # NULL
  BY <1>2 DEF Above, IsTrie
<1>5. At(t, <<>>) = t[<<>>].empty_value
  BY DEF At, IsTrie
<1>6. CASE \E m \in Behind(t, name, 0) : Longest(m, Behind(t, name, 0)) /\ r = At(t, m)
  <2>1. PICK m \in Behind(t, name, 0) : Longest(m, Behind(t, name, 0)) /\ r = At(t, m)
    BY <1>6
  <2>2. m \in Above(t, name) /\ Len(m) > 0
    BY DEF Behind
  <2>3. \A o \in Above(t, name) : Len(o) <= Len(m)
    BY <1>3, <2>1, <2>2 DEF Longest, Behind
  <2> QED
    BY <1>3, <2>1, <2>2, <2>3 DEF Longest
<1>7. CASE Behind(t, name, 0) = {} /\ r = t[First(name, 0)].empty_value
  <2>1. r = At(t, <<>>)
    BY <1>2, <1>5, <1>7
  <2>2. Above(t, name) \subseteq {<<>>}
    BY <1>3, <1>7 DEF Behind
  <2> QED
    BY <1>2, <1>4, <2>1, <2>2 DEF Longest
<1> QED
  BY <1>1, <1>6, <1>7 DEF Finds

-----------------------------------------------------------------------------
(* What an insertion changes *)

\* m and n part after i characters.
Parting(m, n, i) == i < Len(m) /\ i < Len(n) /\ Agree(m, n, i) /\ m[i + 1] # n[i + 1]

\* What a new node must keep for the trie to be one.
LEMMA PutTrie ==
    ASSUME NEW t, IsTrie(t), NEW x \in Strings, x # <<>>, NEW slot \in SlotType,
           \A m \in DOMAIN t : \A i \in Nat : Parting(m, x, i) => First(m, i) \in DOMAIN t
    PROVE  IsTrie(Put(t, x, slot))
<1> DEFINE u == Put(t, x, slot)
<1>1. DOMAIN u = DOMAIN t \cup {x} /\ u \in [DOMAIN u -> SlotType]
  BY DEF Put, IsTrie
<1>2. IsFiniteSet(DOMAIN u) /\ DOMAIN u \in SUBSET Strings
  BY <1>1, FS_AddElement DEF IsTrie
<1>3. <<>> \in DOMAIN u /\ u[<<>>].value = NULL
  BY DEF Put, IsTrie
<1> HIDE DEF u
<1>4. ASSUME NEW m \in DOMAIN u, NEW n \in DOMAIN u, NEW i \in Nat, Parting(m, n, i)
      PROVE  First(m, i) \in DOMAIN u
  <2>1. m \in Strings /\ n \in Strings /\ Len(m) \in Nat /\ Len(n) \in Nat
    BY <1>2, LengthType
  <2>2. First(m, i) = First(n, i)
    BY <1>4, <2>1, FirstEqual DEF Parting
  <2>3. Parting(n, m, i)
    BY <1>4, <2>1 DEF Parting, Agree
  <2>4. CASE m \in DOMAIN t /\ n \in DOMAIN t
    BY <1>1, <1>4, <2>4 DEF IsTrie, Branching, Parting
  <2>5. CASE m \in DOMAIN t /\ n = x
    BY <1>1, <1>4, <2>5
  <2>6. CASE m = x /\ n \in DOMAIN t
    BY <1>1, <2>2, <2>3, <2>6
  <2>7. CASE m = x /\ n = x
    BY <1>4, <2>7 DEF Parting
  <2> QED
    BY <1>1, <2>4, <2>5, <2>6, <2>7
<1> QED
  BY <1>1, <1>2, <1>3, <1>4 DEF IsTrie, Branching, Parting, u

\* A node can be put in the middle of an entry.
LEMMA PutWithin ==
    ASSUME NEW t, IsTrie(t), NEW e \in DOMAIN t, NEW k \in 1 .. Len(e), NEW slot \in SlotType
    PROVE  IsTrie(Put(t, First(e, k), slot))
<1>0. e \in Strings /\ Len(e) \in Nat
  BY LengthType DEF IsTrie
<1> DEFINE x == First(e, k)
<1>1. x \in Strings /\ Len(x) = k /\ Agree(x, e, k)
  BY <1>0, FirstAgrees
<1> HIDE DEF x
<1>2. x # <<>>
  BY <1>1
<1>3. ASSUME NEW m \in DOMAIN t, NEW i \in Nat, Parting(m, x, i) PROVE First(m, i) \in DOMAIN t
  <2>1. Parting(m, e, i)
    BY <1>0, <1>1, <1>3 DEF Parting, Agree
  <2> QED
    BY <2>1 DEF IsTrie, Branching, Parting
<1> QED
  BY <1>1, <1>2, <1>3, PutTrie DEF x

\* A name can be put behind a node if nothing else begins like it.
LEMMA PutBehind ==
    ASSUME NEW t, IsTrie(t), NEW name \in Strings, NEW i \in 0 .. Len(name), i < Len(name),
           First(name, i) \in DOMAIN t, \A m \in DOMAIN t : ~Agree(m, name, i + 1),
           NEW slot \in SlotType
    PROVE  IsTrie(Put(t, name, slot))
<1>0. Len(name) \in Nat /\ i \in Nat
  BY LengthType
<1> DEFINE s == First(name, i)
<1>1. s \in Strings /\ Len(s) = i /\ Agree(s, name, i)
  BY FirstAgrees
<1>2. s \in DOMAIN t
  OBVIOUS
<1> HIDE DEF s
<1>3. name # <<>>
  BY <1>0
<1>4. ASSUME NEW m \in DOMAIN t, NEW k \in Nat, Parting(m, name, k) PROVE First(m, k) \in DOMAIN t
  <2>0. m \in Strings /\ Len(m) \in Nat
    BY LengthType DEF IsTrie
  <2>1. CASE k < i
    <3>1. Parting(m, s, k)
      BY <1>0, <1>1, <1>4, <2>0, <2>1 DEF Parting, Agree
    <3> QED
      BY <1>2, <3>1 DEF IsTrie, Branching, Parting
  <2>2. CASE k = i
    BY <1>0, <1>2, <1>4, <2>0, <2>2, FirstEqual DEF Parting, s
  <2>3. CASE k > i
    BY <1>0, <1>4, <2>0, <2>3 DEF Parting, Agree
  <2> QED
    BY <1>0, <2>1, <2>2, <2>3
<1> QED
  BY <1>3, <1>4, PutTrie

\* What the insertion of a name that ends in a node does there.
Ended(t, name, value, i) ==
    LET e == EntryOf(t, name, i)
    IN IF i = Len(name) THEN [t EXCEPT ![name].empty_value = value]
       ELSE IF Alike(t, name, i) = {} THEN Put(t, name, Slot(value, NULL))
       ELSE Split(t, e, First(e, elektraTrieStartsWith(name, e) - 1), name, value)

\* The recursion of trieInsert, as a walk along the name.
LEMMA InsertUnfolds ==
    ASSUME NEW t, IsTrie(t), NEW name \in Strings, NEW value
    PROVE  \E f : /\ trieInsert(t, name, value) = f[0]
                  /\ \A i \in 0 .. Len(name) :
                       f[i] = IF Ends(t, name, i) THEN Ended(t, name, value, i)
                              ELSE f[Len(EntryOf(t, name, i))]
<1> DEFINE n == Len(name)
           e(i) == EntryOf(t, name, i)
           end(i) == Ended(t, name, value, i)
           Body(f, i) == IF Ends(t, name, i) THEN end(i) ELSE f[Len(e(i))]
           Is(f) == f = [i \in 0 .. n |->
                LET alike == Alike(t, name, i)
                    x == Shortest(alike)
                    p == elektraTrieStartsWith(name, x)
                IN IF i = n THEN [t EXCEPT ![name].empty_value = value]
                   ELSE IF alike = {} THEN Put(t, name, Slot(value, NULL))
                   ELSE IF p = 0 THEN f[Len(x)]
                   ELSE Split(t, x, First(x, p - 1), name, value)]
           j == Onward(t, name)
           a == [i \in 0 .. n |-> end(i)]
           b == [i \in 0 .. n |-> NULL]
<1>0. n \in Nat
  BY LengthType
<1>1. \A f : Is(f) <=> f = [i \in 0 .. n |-> Body(f, i)]
  <2>1. ASSUME NEW f, NEW i \in 0 .. n
        PROVE  Body(f, i) = LET alike == Alike(t, name, i)
                                x == Shortest(alike)
                                p == elektraTrieStartsWith(name, x)
                            IN IF i = n THEN [t EXCEPT ![name].empty_value = value]
                               ELSE IF alike = {} THEN Put(t, name, Slot(value, NULL))
                               ELSE IF p = 0 THEN f[Len(x)]
                               ELSE Split(t, x, First(x, p - 1), name, value)
    <3>1. i = n => Alike(t, name, i) = {}
      BY <1>0 DEF Alike
    <3> QED
      BY <3>1 DEF EntryOf, Ends, Ended
  <2> HIDE DEF Body
  <2> QED
    BY <2>1
<1>2. \A i \in 0 .. n : j[i] # 0 => j[i] \in (i + 1) .. n
  BY OnwardProperties
<1> HIDE DEF n, j, a, b
<1>3. PICK f : IsDescent(f, n, j, a, b, NULL)
  BY <1>0, <1>2, DescentExists
<1>4. \A i \in 0 .. n : a[i] = end(i) /\ b[i] = NULL
  BY DEF a, b
<1>5. \A i \in 0 .. n : Ends(t, name, i) => j[i] = 0
  BY OnwardProperties DEF n, j
<1>6. \A i \in 0 .. n : ~Ends(t, name, i) => j[i] = Len(e(i)) /\ j[i] # 0
  BY OnwardProperties DEF n, j
<1>7. f = [i \in 0 .. n |-> f[i]]
  BY <1>3 DEF IsDescent
<1>8. \A i \in 0 .. n : f[i] = Body(f, i)
  <2> HIDE DEF e, end
  <2>1. \A i \in 0 .. n : f[i] = IF j[i] = 0 THEN a[i] ELSE IF f[j[i]] # NULL THEN f[j[i]] ELSE b[i]
    BY <1>3 DEF IsDescent
  <2> QED
    BY <1>4, <1>5, <1>6, <2>1
<1>9. Is(f)
  <2> HIDE DEF Body, Is
  <2>1. f = [i \in 0 .. n |-> Body(f, i)]
    BY <1>7, <1>8
  <2> QED
    BY <1>1, <2>1
<1> DEFINE g == CHOOSE g : Is(g)
<1>10. trieInsert(t, name, value) = g[0]
  BY DEF trieInsert, n
<1>11. Is(g)
  <2> HIDE DEF Is
  <2> QED
    BY <1>9
<1>12. \A i \in 0 .. n : g[i] = Body(g, i)
  <2> HIDE DEF g
  <2>1. g = [i \in 0 .. n |-> Body(g, i)]
    <3> HIDE DEF Is, Body
    <3> QED
      BY <1>1, <1>11
  <2> HIDE DEF Body
  <2> QED
    BY <2>1
<1> HIDE DEF g, Is
<1> QED
  BY <1>10, <1>12 DEF n

\* The insertion goes to a node in which the name ends.
LEMMA InsertEnds ==
    ASSUME NEW t, IsTrie(t), NEW name \in Strings, NEW value
    PROVE  \E i \in 0 .. Len(name) : /\ First(name, i) \in DOMAIN t /\ Ends(t, name, i)
                                     /\ trieInsert(t, name, value) = Ended(t, name, value, i)
<1> DEFINE n == Len(name)
<1>0. n \in Nat
  BY LengthType
<1>1. PICK f : /\ trieInsert(t, name, value) = f[0]
               /\ \A i \in 0 .. n :
                       f[i] = IF Ends(t, name, i) THEN Ended(t, name, value, i)
                              ELSE f[Len(EntryOf(t, name, i))]
  BY InsertUnfolds
<1> DEFINE Arrives(i) == \E c \in 0 .. n : /\ First(name, c) \in DOMAIN t /\ Ends(t, name, c)
                                           /\ f[i] = Ended(t, name, value, c)
           P == {k \in 0 .. n : \A i \in (n - k) .. n : First(name, i) \in DOMAIN t => Arrives(i)}
<1> HIDE DEF n
<1>2. ASSUME NEW i \in 0 .. n, First(name, i) \in DOMAIN t,
             \A c \in (i + 1) .. n : First(name, c) \in DOMAIN t => Arrives(c)
      PROVE  Arrives(i)
  <2>1. CASE Ends(t, name, i)
    BY <1>1, <1>2, <2>1
  <2>2. CASE ~Ends(t, name, i)
    <3> DEFINE l == Len(EntryOf(t, name, i))
    <3>1. l \in (i + 1) .. n /\ First(name, l) \in DOMAIN t
      BY <2>2, OnwardProperties DEF n
    <3>2. f[i] = f[l]
      BY <1>1, <2>2
    <3> HIDE DEF l
    <3> QED
      BY <1>2, <3>1, <3>2
  <2> QED
    BY <2>1, <2>2
<1> HIDE DEF Arrives
<1>3. 0 \in P
  <2>1. \A i \in (n - 0) .. n : i \in 0 .. n /\ \A c \in (i + 1) .. n : FALSE
    BY <1>0
  <2> QED
    BY <1>0, <1>2, <2>1
<1>4. ASSUME NEW k \in 1 .. n, k - 1 \in P PROVE k \in P
  <2>1. \A i \in (n - k) .. n : i \in 0 .. n /\ \A c \in (i + 1) .. n : c \in (n - (k - 1)) .. n
    BY <1>0
  <2>2. \A i \in (n - (k - 1)) .. n : First(name, i) \in DOMAIN t => Arrives(i)
    BY <1>4
  <2> QED
    BY <1>0, <1>2, <2>1, <2>2
<1>5. n \in P
  <2>1. \A k \in 0 .. n : k \in P
    <3> HIDE DEF P
    <3> QED
      BY <1>0, <1>3, <1>4, Induction
  <2> QED
    BY <1>0, <2>1
<1>6. First(name, 0) = <<>>
  BY DEF First
<1>7. Arrives(0)
  <2>1. 0 \in (n - n) .. n
    BY <1>0
  <2> QED
    BY <1>5, <1>6, <2>1 DEF IsTrie
<1> QED
  BY <1>1, <1>7 DEF Arrives, n

\* An insertion changes the slot of the name only, and adds at most empty ones.
Inserts(t, u, name, value) ==
    /\ \A m \in DOMAIN t : m \in DOMAIN u /\ (m # name => u[m] = t[m])
    /\ \A m \in DOMAIN u : m \in DOMAIN t \cup {name} \/ u[m] = Slot(NULL, NULL)
    /\ name \in DOMAIN u
    /\ name \in DOMAIN t => u[name] = Slot(t[name].value, value)
    /\ name \notin DOMAIN t => u[name] \in {Slot(value, NULL), Slot(NULL, value)}

\* trieInsert: the trie stays one, and only the value at the name changes.
LEMMA InsertCorrect ==
    ASSUME NEW t, IsTrie(t), NEW name \in Strings, name # <<>>, NEW value \in Backends,
           NEW u, u = trieInsert(t, name, value)
    PROVE  IsTrie(u) /\ Inserts(t, u, name, value)
<1> DEFINE n == Len(name)
<1>0. n \in Nat
  BY LengthType
<1>1. PICK i \in 0 .. n : First(name, i) \in DOMAIN t /\ Ends(t, name, i) /\ u = Ended(t, name, value, i)
  BY InsertEnds
<1>2. Slot(value, NULL) \in SlotType /\ Slot(NULL, value) \in SlotType /\ Slot(NULL, NULL) \in SlotType
  BY DEF Slot, SlotType
<1>3. CASE i = n
  <2>1. First(name, n) = name
    <3>1. First(name, n) \in Strings /\ Len(First(name, n)) = n /\ Agree(First(name, n), name, n)
      BY <1>0, FirstAgrees
    <3> QED
      BY <3>1, SameString
  <2>2. name \in DOMAIN t
    BY <1>1, <1>3, <2>1
  <2>3. u = [t EXCEPT ![name].empty_value = value]
    BY <1>1, <1>3 DEF Ended
  <2>4. t \in [DOMAIN t -> SlotType]
    BY DEF IsTrie
  <2>5. DOMAIN u = DOMAIN t /\ \A m \in DOMAIN t : m # name => u[m] = t[m]
    BY <2>3, <2>4
  <2>6. u[name] = Slot(t[name].value, value)
    <3>1. t[name] = [value |-> t[name].value, empty_value |-> t[name].empty_value]
      BY <2>2, <2>4 DEF SlotType
    <3>2. u[name] = [t[name] EXCEPT !.empty_value = value]
      BY <2>2, <2>3, <2>4
    <3> QED
      BY <3>1, <3>2 DEF Slot
  <2>7. \A m \in DOMAIN u : u[m] \in SlotType
    BY <2>2, <2>4, <2>5, <2>6 DEF Slot, SlotType
  <2>8. u \in [DOMAIN u -> SlotType]
    <3>1. u = [m \in DOMAIN u |-> u[m]]
      BY <2>3, <2>4
    <3> HIDE DEF SlotType
    <3> QED
      BY <2>7, <3>1
  <2>9. IsTrie(u)
    <3>1. u[<<>>].value = NULL
      BY <2>5 DEF IsTrie
    <3> QED
      BY <2>5, <2>8, <3>1 DEF IsTrie, Branching
  <2> QED
    BY <2>2, <2>5, <2>6, <2>9 DEF Inserts
<1>4. CASE i # n
  <2>0. i < n /\ name \notin DOMAIN t
    BY <1>0, <1>1, <1>4, NothingBehindEnd
  <2>1. CASE Alike(t, name, i) = {}
    <3>1. u = Put(t, name, Slot(value, NULL))
      BY <1>1, <1>4, <2>1 DEF Ended
    <3>2. \A m \in DOMAIN t : ~Agree(m, name, i + 1)
      BY <2>1, AlikeMeans
    <3>3. IsTrie(u)
      BY <1>1, <1>2, <2>0, <3>1, <3>2, PutBehind
    <3>4. DOMAIN u = DOMAIN t \cup {name} /\ \A m \in DOMAIN u : u[m] = IF m = name THEN Slot(value, NULL) ELSE t[m]
      BY <3>1 DEF Put
    <3> QED
      BY <2>0, <3>3, <3>4 DEF Inserts
  <2>2. CASE Alike(t, name, i) # {}
    <3> DEFINE e == EntryOf(t, name, i)
               p == elektraTrieStartsWith(name, e)
               short == First(e, p - 1)
               first == Put(t, short, Slot(NULL, IF name = short THEN value ELSE NULL))
    <3>1. u = IF name = short THEN first ELSE Put(first, name, Slot(value, NULL))
      BY <1>1, <1>4, <2>2 DEF Ended, Split
    <3>2. /\ e \in DOMAIN t /\ e \in Strings /\ Len(e) \in Nat /\ i < Len(e)
          /\ Agree(e, name, i + 1)
          /\ \A m \in DOMAIN t : Agree(m, name, i + 1) => Agree(e, m, Len(e))
      BY <2>2, EntryProperties DEF EntryOf
    <3>3. /\ p \in 1 .. Len(e) /\ p - 1 <= n /\ Agree(e, name, p - 1)
          /\ p <= n => name[p] # e[p]
      <4>1. p # 0
        BY <1>1, <2>2 DEF Ends
      <4> HIDE DEF e
      <4> QED
        BY <3>2, <4>1, StartsWithMeans
    <3> HIDE DEF e, p
    <3>4. p - 1 > i
      BY <1>0, <3>2, <3>3 DEF Agree
    <3>5. short \in Strings /\ Len(short) = p - 1 /\ Agree(short, e, p - 1)
      BY <3>2, <3>3, FirstAgrees
    <3>6. short = First(name, p - 1)
      BY <1>0, <3>2, <3>3, FirstEqual
    <3>7. IsTrie(first)
      <4>1. p - 1 \in 1 .. Len(e)
        BY <3>3, <3>4
      <4> QED
        BY <1>2, <3>2, <4>1, PutWithin
    <3> DEFINE slot == Slot(NULL, IF name = short THEN value ELSE NULL)
    <3>8. DOMAIN first = DOMAIN t \cup {short} /\ \A m \in DOMAIN first : first[m] = IF m = short THEN slot ELSE t[m]
      BY DEF Put
    <3>9. short \notin DOMAIN t
      <4>1. ASSUME short \in DOMAIN t PROVE FALSE
        <5>1. Agree(short, name, i + 1)
          BY <1>0, <3>2, <3>3, <3>4, <3>5 DEF Agree
        <5>2. Agree(e, short, Len(e))
          BY <3>2, <4>1, <5>1
        <5> QED
          BY <3>2, <3>3, <3>5, <5>2 DEF Agree
      <4> QED
        BY <4>1
    <3> HIDE DEF short, first
    <3>10. CASE name = short
      BY <2>0, <3>1, <3>7, <3>8, <3>9, <3>10 DEF Inserts
    <3>11. CASE name # short
      <4>1. p - 1 < n
        <5>1. p - 1 = n => name = short
          <6>1. Agree(short, name, p - 1)
            BY <1>0, <3>2, <3>3, <3>5 DEF Agree
          <6> QED
            BY <3>5, <6>1, SameString
        <5> QED
          BY <1>0, <3>3, <3>11, <5>1
      <4>2. ASSUME NEW m \in DOMAIN first, Agree(m, name, p - 1 + 1) PROVE FALSE
        <5>0. p \in Nat /\ p - 1 + 1 = p
          BY <3>3
        <5>1. CASE m = short
          BY <3>5, <4>2, <5>0, <5>1 DEF Agree
        <5>2. CASE m \in DOMAIN t
          <6>1. Agree(m, name, i + 1)
            BY <1>0, <3>3, <3>4, <4>2 DEF Agree
          <6>2. Agree(e, m, Len(e))
            BY <3>2, <5>2, <6>1
          <6>3. name[p] = m[p] /\ e[p] = m[p]
            BY <3>3, <4>2, <5>0, <6>2 DEF Agree
          <6>4. p <= n
            BY <1>0, <3>3, <4>1
          <6> QED
            BY <3>3, <6>3, <6>4
        <5> QED
          BY <3>8, <4>2, <5>1, <5>2
      <4>3. u = Put(first, name, Slot(value, NULL))
        BY <3>1, <3>11
      <4>4. IsTrie(u)
        <5>1. First(name, p - 1) \in DOMAIN first
          BY <3>6, <3>8
        <5>2. p - 1 \in 0 .. n
          BY <1>0, <3>3
        <5> QED
          BY <1>2, <3>7, <4>1, <4>2, <4>3, <5>1, <5>2, PutBehind
      <4>5. DOMAIN u = DOMAIN first \cup {name} /\ \A m \in DOMAIN u : u[m] = IF m = name THEN Slot(value, NULL) ELSE first[m]
        BY <4>3 DEF Put
      <4> QED
        BY <2>0, <3>8, <3>9, <3>11, <4>4, <4>5 DEF Inserts
    <3> QED
      BY <3>10, <3>11
  <2> QED
    BY <2>1, <2>2
<1> QED
  BY <1>3, <1>4
-----------------------------------------------------------------------------
(* Names *)

KeyType == [ns: NS, path: Seq(Seq(Characters))]

\* The name of a key, with the slash behind it: l[i] characters are before the
\* slash that ends the part i, those of the namespace before the first one.
Spelled(s, k, l) ==
    /\ l[0] = Len(NamespaceName[k.ns]) /\ \A c \in 1 .. l[0] : s[c] = NamespaceName[k.ns][c]
    /\ \A i \in 0 .. Len(k.path) : l[i] \in Nat /\ l[i] + 1 <= Len(s) /\ s[l[i] + 1] = "/"
    /\ \A i \in 1 .. Len(k.path) :
         /\ l[i] = l[i - 1] + 1 + Len(k.path[i])
         /\ \A c \in 1 .. Len(k.path[i]) : s[l[i - 1] + 1 + c] = k.path[i][c]
    /\ Len(s) = l[Len(k.path)] + 1

\* The names of the namespaces.
LEMMA NamespaceStrings ==
    ASSUME NEW ns \in NS
    PROVE  /\ NamespaceName[ns] \in Strings /\ Len(NamespaceName[ns]) \in {1, 2}
           /\ NamespaceName[ns] = CASE ns = "spec" -> <<"s", "p">> [] ns = "dir" -> <<"d">>
                                    [] ns = "user" -> <<"u">> [] OTHER -> <<"s", "y">>
<1>1. /\ NamespaceName["spec"] = <<"s", "p">> /\ NamespaceName["dir"] = <<"d">>
      /\ NamespaceName["user"] = <<"u">> /\ NamespaceName["system"] = <<"s", "y">>
  BY DEF NamespaceName
<1>2. <<"s", "p">> \in Strings /\ <<"d">> \in Strings /\ <<"u">> \in Strings /\ <<"s", "y">> \in Strings
  BY DEF Strings
<1>3. ns = "spec" \/ ns = "dir" \/ ns = "user" \/ ns = "system"
  BY DEF NS
<1> QED
  BY <1>1, <1>2, <1>3

\* A function on 1 .. n is a sequence.
LEMMA FunctionIsSeq ==
    ASSUME NEW n \in Nat, NEW S, NEW q \in [1 .. n -> S]
    PROVE  q \in Seq(S) /\ Len(q) = n /\ DOMAIN q = 1 .. n
  OBVIOUS

\* A part of the flattened name: a slash and the letters of the part.
LEMMA PartStrings ==
    ASSUME NEW part \in Seq(Characters)
    PROVE  /\ <<"/">> \o part \in Strings /\ Len(<<"/">> \o part) = Len(part) + 1
           /\ (<<"/">> \o part)[1] = "/"
           /\ \A c \in 1 .. Len(part) : (<<"/">> \o part)[c + 1] = part[c]
<1> DEFINE X == Characters \cup {"/", "s", "p", "d", "u", "y"}
<1>1. part \in Seq(X) /\ Len(part) \in Nat
  BY SeqMonotonic, LenProperties
<1>2. <<"/">> \in Seq(X) /\ Len(<<"/">>) = 1 /\ <<"/">>[1] = "/"
  OBVIOUS
<1> HIDE DEF X
<1>3. /\ <<"/">> \o part \in Seq(X)
      /\ Len(<<"/">> \o part) = Len(<<"/">>) + Len(part)
      /\ \A i \in 1 .. Len(<<"/">>) + Len(part) : (<<"/">> \o part)[i] =
                     IF i <= Len(<<"/">>) THEN <<"/">>[i] ELSE part[i - Len(<<"/">>)]
  BY <1>1, <1>2, ConcatProperties
<1>4. \A c \in 1 .. Len(part) : c + 1 \in 1 .. 1 + Len(part) /\ ~(c + 1 <= 1) /\ c + 1 - 1 = c
  BY <1>1
<1>5. 1 \in 1 .. 1 + Len(part) /\ 1 <= 1
  BY <1>1
<1>6. (<<"/">> \o part)[1] = "/" /\ \A c \in 1 .. Len(part) : (<<"/">> \o part)[c + 1] = part[c]
  BY <1>2, <1>3, <1>4, <1>5
<1> QED
  BY <1>1, <1>2, <1>3, <1>6 DEF Strings, X

\* What appending a part does.
LEMMA GrowsByPart ==
    ASSUME NEW a \in Strings, NEW part \in Seq(Characters), NEW b, b = a \o (<<"/">> \o part)
    PROVE  /\ b \in Strings /\ Len(b) = Len(a) + 1 + Len(part) /\ Agree(a, b, Len(a))
           /\ b[Len(a) + 1] = "/"
           /\ \A c \in 1 .. Len(part) : b[Len(a) + 1 + c] = part[c]
<1> DEFINE q == <<"/">> \o part
<1>0. Len(a) \in Nat /\ Len(part) \in Nat
  BY LengthType, LenProperties
<1>1. /\ q \in Strings /\ Len(q) = Len(part) + 1 /\ q[1] = "/"
      /\ \A c \in 1 .. Len(part) : q[c + 1] = part[c]
  BY PartStrings
<1> HIDE DEF q
<1>2. /\ a \o q \in Strings /\ Len(a \o q) = Len(a) + Len(q)
      /\ \A c \in 1 .. Len(a) + Len(q) : (a \o q)[c] = IF c <= Len(a) THEN a[c] ELSE q[c - Len(a)]
  BY <1>1, ConcatProperties DEF Strings
<1>3. b = a \o q
  BY DEF q
<1>4. \A c \in 1 .. Len(part) : /\ Len(a) + 1 + c \in 1 .. Len(a) + Len(q) /\ ~(Len(a) + 1 + c <= Len(a))
                                /\ Len(a) + 1 + c - Len(a) = c + 1
  BY <1>0, <1>1
<1>5. \A c \in 1 .. Len(part) : b[Len(a) + 1 + c] = part[c]
  BY <1>1, <1>2, <1>3, <1>4
<1>6. b[Len(a) + 1] = "/"
  <2>1. Len(a) + 1 \in 1 .. Len(a) + Len(q) /\ ~(Len(a) + 1 <= Len(a)) /\ Len(a) + 1 - Len(a) = 1
    BY <1>0, <1>1
  <2> QED
    BY <1>1, <1>2, <1>3, <2>1
<1>7. Agree(a, b, Len(a))
  BY <1>0, <1>1, <1>2, <1>3 DEF Agree
<1>8. b \in Strings
  BY <1>2, <1>3
<1>9. Len(b) = Len(a) + 1 + Len(part)
  BY <1>0, <1>1, <1>2, <1>3
<1> QED
  BY <1>5, <1>6, <1>7, <1>8, <1>9

\* A name grows part by part.
LEMMA NameUnfolds ==
    ASSUME NEW k \in KeyType
    PROVE  \E f : /\ \A i \in 0 .. Len(k.path) : f[i] \in Strings
                  /\ f[0] = NamespaceName[k.ns] /\ Name(k.ns, k.path) = f[Len(k.path)]
                  /\ \A i \in 1 .. Len(k.path) : f[i] = f[i - 1] \o (<<"/">> \o k.path[i])
<1> DEFINE n == Len(k.path)
           X == Characters \cup {"/", "s", "p", "d", "u", "y"}
           q == [i \in DOMAIN k.path |-> <<"/">> \o k.path[i]]
           s == NamespaceName[k.ns]
<1>0. /\ k.path \in Seq(Seq(Characters)) /\ n \in Nat /\ DOMAIN k.path = 1 .. n
      /\ \A i \in 1 .. n : k.path[i] \in Seq(Characters)
      /\ k.ns \in NS
  BY LenProperties, ElementOfSeq DEF KeyType
<1>1. \A i \in 1 .. n : <<"/">> \o k.path[i] \in Seq(X)
  BY <1>0, PartStrings DEF Strings
<1>2. s \in Seq(X)
  BY <1>0, NamespaceStrings DEF Strings
<1>3. Strings = Seq(X)
  BY DEF Strings
<1>4. Name(k.ns, k.path) = s \o FlattenSeq(q)
  BY DEF Name
<1> HIDE DEF X, s, n
<1>5. q \in Seq(Seq(X)) /\ Len(q) = n /\ \A i \in 1 .. n : q[i] = <<"/">> \o k.path[i]
  <2>1. q \in [1 .. n -> Seq(X)]
    BY <1>0, <1>1
  <2>2. \A i \in 1 .. n : q[i] = <<"/">> \o k.path[i]
    BY <1>0
  <2> HIDE DEF q
  <2>3. q \in Seq(Seq(X)) /\ Len(q) = n
    BY <1>0, <2>1, FunctionIsSeq
  <2> QED
    BY <2>2, <2>3
<1>6. CASE n = 0
  <2>1. FlattenSeq(q) = q
    BY <1>5, <1>6 DEF FlattenSeq
  <2> HIDE DEF q
  <2>2. q = <<>>
    BY <1>5, <1>6, EmptySeq
  <2>3. s \o <<>> = s
    BY <1>2, ConcatEmptySeq
  <2> DEFINE f == [i \in {0} |-> s]
  <2>4. f[0] = s /\ \A i \in 0 .. n : i = 0
    BY <1>6
  <2> HIDE DEF f
  <2> QED
    BY <1>2, <1>3, <1>4, <1>6, <2>1, <2>2, <2>3, <2>4 DEF s, n
<1>7. CASE n # 0
  <2> HIDE DEF q
  <2>1. PICK g : /\ FlattenSeq(q) = g[n]
                 /\ \A i \in 1 .. n : g[i] = IF i = 1 THEN q[i] ELSE g[i - 1] \o q[i]
    <3>1. n \in Nat \ {0} /\ n = Len(q) /\ q \in Seq(Seq(X))
      BY <1>0, <1>5, <1>7
    <3> QED
      BY <3>1, FlattenSeqUnfolds
  <2>0. \A a, b, c \in Seq(X) : a \o b \in Seq(X) /\ (a \o b) \o c = a \o (b \o c)
    BY ConcatProperties, ConcatAssociative
  <2> DEFINE f == [i \in 0 .. n |-> IF i = 0 THEN s ELSE s \o g[i]]
             P == {i \in 0 .. n : i # 0 => g[i] \in Seq(X)}
  <2>2. \A i \in 1 .. n : q[i] \in Seq(X)
    BY <1>1, <1>5
  <2>3. \A i \in 0 .. n : i \in P
    <3>1. 0 \in P
      BY <1>0
    <3>2. ASSUME NEW i \in 1 .. n, i - 1 \in P PROVE i \in P
      <4>1. CASE i = 1
        BY <2>1, <2>2, <4>1
      <4>2. CASE i # 1
        <5>1. g[i - 1] \in Seq(X)
          BY <3>2, <4>2
        <5>2. g[i] = g[i - 1] \o q[i] /\ q[i] \in Seq(X)
          BY <2>1, <2>2, <4>2
        <5>3. g[i - 1] \o q[i] \in Seq(X)
          BY <5>1, <5>2, ConcatProperties
        <5>4. g[i] \in Seq(X)
          BY <5>2, <5>3
        <5> QED
          BY <5>4
      <4> QED
        BY <4>1, <4>2
    <3> HIDE DEF P
    <3> QED
      BY <1>0, <3>1, <3>2, Induction
  <2>4. \A i \in 1 .. n : g[i] \in Seq(X)
    BY <2>3
  <2>5. f[0] = s /\ \A i \in 1 .. n : f[i] = s \o g[i]
    BY <1>0
  <2> HIDE DEF f
  <2>6. \A i \in 0 .. n : f[i] \in Seq(X)
    <3>1. \A i \in 1 .. n : s \o g[i] \in Seq(X)
      BY <1>2, <2>0, <2>4
    <3>2. \A i \in 0 .. n : i = 0 \/ i \in 1 .. n
      BY <1>0
    <3> QED
      BY <1>2, <2>5, <3>1, <3>2
  <2>7. ASSUME NEW i \in 1 .. n PROVE f[i] = f[i - 1] \o q[i]
    <3>1. CASE i = 1
      <4>1. f[i - 1] = s /\ f[i] = s \o g[i] /\ g[i] = q[i]
        BY <2>1, <2>5, <3>1
      <4> QED
        BY <4>1
    <3>2. CASE i # 1
      <4>1. i - 1 \in 1 .. n
        BY <1>0, <3>2
      <4>2. g[i - 1] \in Seq(X) /\ q[i] \in Seq(X) /\ g[i] = g[i - 1] \o q[i]
        BY <2>1, <2>2, <2>4, <3>2, <4>1
      <4>3. (s \o g[i - 1]) \o q[i] = s \o (g[i - 1] \o q[i])
        BY <1>2, <2>0, <4>2
      <4> QED
        BY <2>5, <4>1, <4>2, <4>3
    <3> QED
      BY <3>1, <3>2
  <2>8. \A i \in 1 .. n : f[i] = f[i - 1] \o (<<"/">> \o k.path[i])
    BY <1>5, <2>7
  <2>9. Name(k.ns, k.path) = f[n]
    <3>1. n \in 1 .. n
      BY <1>0, <1>7
    <3> QED
      BY <1>4, <2>1, <2>5, <3>1
  <2> QED
    BY <1>3, <2>5, <2>6, <2>8, <2>9 DEF s, n
<1> QED
  BY <1>6, <1>7

\* Every key has such a spelling.
LEMMA TrieNameSpelled ==
    ASSUME NEW k \in KeyType
    PROVE  TrieName(k) \in Strings /\ \E l : Spelled(TrieName(k), k, l)
<1> DEFINE n == Len(k.path)
           s == TrieName(k)
<1>0. /\ n \in Nat /\ \A i \in 1 .. n : k.path[i] \in Seq(Characters) /\ Len(k.path[i]) \in Nat
      /\ k.ns \in NS
  BY LenProperties, ElementOfSeq DEF KeyType
<1>1. PICK f : /\ \A i \in 0 .. n : f[i] \in Strings
               /\ f[0] = NamespaceName[k.ns] /\ Name(k.ns, k.path) = f[n]
               /\ \A i \in 1 .. n : f[i] = f[i - 1] \o (<<"/">> \o k.path[i])
  BY NameUnfolds
<1> HIDE DEF n
<1> DEFINE l == [i \in 0 .. n |-> Len(f[i])]
<1>2. \A i \in 0 .. n : l[i] \in Nat /\ l[i] = Len(f[i])
  BY <1>1, LengthType
<1> HIDE DEF l
<1>3. ASSUME NEW i \in 1 .. n
      PROVE  /\ l[i] = l[i - 1] + 1 + Len(k.path[i]) /\ Agree(f[i - 1], f[i], l[i - 1])
             /\ f[i][l[i - 1] + 1] = "/"
             /\ \A c \in 1 .. Len(k.path[i]) : f[i][l[i - 1] + 1 + c] = k.path[i][c]
  <2>1. i - 1 \in 0 .. n /\ i \in 0 .. n
    BY <1>0
  <2>2. f[i] = f[i - 1] \o (<<"/">> \o k.path[i]) /\ f[i - 1] \in Strings
    BY <1>1, <2>1
  <2>3. l[i] = Len(f[i]) /\ l[i - 1] = Len(f[i - 1])
    BY <1>2, <2>1
  <2>4. k.path[i] \in Seq(Characters)
    BY <1>0
  <2> DEFINE a == f[i - 1]
             b == f[i]
             part == k.path[i]
  <2>5. a \in Strings /\ b = a \o (<<"/">> \o part) /\ part \in Seq(Characters)
    BY <2>2, <2>4
  <2> HIDE DEF a, b, part
  <2>6. /\ Len(b) = Len(a) + 1 + Len(part) /\ Agree(a, b, Len(a))
        /\ b[Len(a) + 1] = "/"
        /\ \A c \in 1 .. Len(part) : b[Len(a) + 1 + c] = part[c]
    BY <2>5, GrowsByPart
  <2>7. l[i] = Len(b) /\ l[i - 1] = Len(a)
    BY <2>3 DEF a, b
  <2>8. /\ l[i] = l[i - 1] + 1 + Len(part) /\ Agree(a, b, l[i - 1])
        /\ b[l[i - 1] + 1] = "/"
        /\ \A c \in 1 .. Len(part) : b[l[i - 1] + 1 + c] = part[c]
    BY <2>6, <2>7
  <2> QED
    BY <2>8 DEF a, b, part
<1> DEFINE P == {m \in 0 .. n : \A i \in 0 .. m : Agree(f[i], f[m], l[i])}
<1>4. n \in P
  <2>1. 0 \in P
    BY <1>0, <1>2 DEF Agree
  <2>2. ASSUME NEW m \in 1 .. n, m - 1 \in P PROVE m \in P
    <3>1. Agree(f[m - 1], f[m], l[m - 1])
      BY <1>3
    <3>2. ASSUME NEW i \in 0 .. m PROVE Agree(f[i], f[m], l[i])
      <4>0. m - 1 \in 0 .. n /\ m \in 0 .. n /\ i \in 0 .. n
        BY <1>0
      <4>1. CASE i = m
        BY <1>2, <4>0, <4>1 DEF Agree
      <4>2. CASE i \in 0 .. (m - 1)
        <5>1. Agree(f[i], f[m - 1], l[i])
          BY <2>2, <4>2
        <5> QED
          BY <1>2, <3>1, <4>0, <5>1 DEF Agree
      <4> QED
        BY <4>1, <4>2
    <3> QED
      BY <3>2
  <2>3. \A i \in 0 .. n : i \in P
    <3> HIDE DEF P
    <3> QED
      BY <1>0, <2>1, <2>2, Induction
  <2> QED
    BY <1>0, <2>3
<1>5. /\ s \in Strings /\ Len(s) = l[n] + 1 /\ s[l[n] + 1] = "/"
      /\ \A c \in 1 .. l[n] : s[c] = f[n][c]
  <2>1. s = Append(f[n], "/")
    BY <1>1 DEF TrieName
  <2>2. f[n] \in Strings /\ Len(f[n]) = l[n] /\ l[n] \in Nat
    BY <1>0, <1>1, <1>2
  <2> HIDE DEF s
  <2> QED
    BY <2>1, <2>2 DEF Strings
<1> HIDE DEF s, P
<1>6. \A i \in 0 .. n : l[i] <= l[n] /\ \A c \in 1 .. l[i] : s[c] = f[i][c]
  <2>1. \A i \in 0 .. n : Agree(f[i], f[n], l[i])
    BY <1>4 DEF P
  <2>2. ASSUME NEW i \in 0 .. n PROVE l[i] <= l[n] /\ \A c \in 1 .. l[i] : s[c] = f[i][c]
    <3>1. l[i] \in Nat /\ l[n] \in Nat /\ l[n] = Len(f[n])
      BY <1>0, <1>2
    <3>2. l[i] <= l[n] /\ \A c \in 1 .. l[i] : f[i][c] = f[n][c]
      BY <2>1, <3>1 DEF Agree
    <3>3. \A c \in 1 .. l[i] : c \in 1 .. l[n]
      BY <3>1, <3>2
    <3> QED
      BY <1>5, <3>2, <3>3
  <2> QED
    BY <2>2
<1>7. ASSUME NEW i \in 0 .. n PROVE l[i] + 1 <= Len(s) /\ s[l[i] + 1] = "/"
  <2>1. CASE i = n
    BY <1>0, <1>2, <1>5, <2>1
  <2>2. CASE i # n
    <3>1. i + 1 \in 1 .. n /\ i + 1 - 1 = i /\ i + 1 \in 0 .. n
      BY <1>0, <2>2
    <3>2. f[i + 1][l[i] + 1] = "/" /\ l[i + 1] = l[i] + 1 + Len(k.path[i + 1])
      BY <1>3, <3>1
    <3>3. l[i] \in Nat /\ l[i + 1] \in Nat /\ l[n] \in Nat /\ Len(k.path[i + 1]) \in Nat
      BY <1>0, <1>2, <3>1
    <3>4. l[i] + 1 \in 1 .. l[i + 1]
      BY <3>2, <3>3
    <3>5. l[i + 1] <= l[n] /\ \A c \in 1 .. l[i + 1] : s[c] = f[i + 1][c]
      BY <1>6, <3>1
    <3> QED
      BY <1>5, <3>2, <3>3, <3>4, <3>5
  <2> QED
    BY <2>1, <2>2
<1>8. ASSUME NEW i \in 1 .. n, NEW c \in 1 .. Len(k.path[i])
      PROVE  s[l[i - 1] + 1 + c] = k.path[i][c]
  <2>1. l[i - 1] \in Nat /\ l[i] \in Nat /\ Len(k.path[i]) \in Nat /\ i \in 0 .. n
    <3>1. i - 1 \in 0 .. n /\ i \in 0 .. n
      BY <1>0
    <3> QED
      BY <1>0, <1>2, <3>1
  <2>2. l[i] = l[i - 1] + 1 + Len(k.path[i]) /\ f[i][l[i - 1] + 1 + c] = k.path[i][c]
    BY <1>3
  <2>3. l[i - 1] + 1 + c \in 1 .. l[i]
    BY <2>1, <2>2
  <2> QED
    BY <1>6, <2>1, <2>2, <2>3, SMTT(30)
<1>9. l[0] = Len(NamespaceName[k.ns]) /\ \A c \in 1 .. l[0] : s[c] = NamespaceName[k.ns][c]
  BY <1>0, <1>1, <1>2, <1>6
<1>10. Spelled(s, k, l)
  BY <1>2, <1>3, <1>5, <1>7, <1>8, <1>9 DEF Spelled, n
<1> QED
  BY <1>5, <1>10 DEF s

\* Names of different namespaces part within the namespace.
LEMMA DifferentNamespaces ==
    ASSUME NEW k \in KeyType, NEW j \in KeyType, k.ns # j.ns
    PROVE  /\ TrieName(k) # TrieName(j)
           /\ ~Agree(TrieName(k), TrieName(j), Len(TrieName(k)))
<1>1. PICK l : Spelled(TrieName(k), k, l)
  BY TrieNameSpelled
<1>2. PICK o : Spelled(TrieName(j), j, o)
  BY TrieNameSpelled
<1> DEFINE s == TrieName(k)
           t == TrieName(j)
<1>3. s \in Strings /\ t \in Strings /\ Len(s) \in Nat /\ Len(t) \in Nat
  BY TrieNameSpelled, LengthType
<1>4. Len(k.path) \in Nat /\ Len(j.path) \in Nat
  BY LenProperties DEF KeyType
<1> HIDE DEF s, t
<1>5. /\ l[0] \in Nat /\ l[0] + 1 <= Len(s) /\ s[l[0] + 1] = "/" /\ l[0] = Len(NamespaceName[k.ns])
      /\ \A c \in 1 .. l[0] : s[c] = NamespaceName[k.ns][c]
  BY <1>1, <1>4 DEF Spelled, s
<1>6. /\ o[0] \in Nat /\ o[0] + 1 <= Len(t) /\ t[o[0] + 1] = "/" /\ o[0] = Len(NamespaceName[j.ns])
      /\ \A c \in 1 .. o[0] : t[c] = NamespaceName[j.ns][c]
  BY <1>2, <1>4 DEF Spelled, t
<1>7. k.ns \in NS /\ j.ns \in NS
  BY DEF KeyType
<1>8. ASSUME NEW ns \in NS, NEW r, NEW p \in Nat, p + 1 <= Len(r), Len(r) \in Nat, r[p + 1] = "/",
             p = Len(NamespaceName[ns]), \A c \in 1 .. p : r[c] = NamespaceName[ns][c]
      PROVE  /\ Len(r) >= 2
             /\ ns = "spec" => r[1] = "s" /\ r[2] = "p"
             /\ ns = "dir" => r[1] = "d"
             /\ ns = "user" => r[1] = "u"
             /\ ns = "system" => r[1] = "s" /\ r[2] = "y"
  <2>1. p \in {1, 2}
    BY <1>8, NamespaceStrings
  <2>2. ns = "spec" => NamespaceName[ns] = <<"s", "p">>
    BY DEF NamespaceName
  <2>3. ns = "dir" => NamespaceName[ns] = <<"d">>
    BY DEF NamespaceName
  <2>4. ns = "user" => NamespaceName[ns] = <<"u">>
    BY DEF NamespaceName
  <2>5. ns = "system" => NamespaceName[ns] = <<"s", "y">>
    BY DEF NamespaceName
  <2>6. /\ Len(<<"s", "p">>) = 2 /\ <<"s", "p">>[1] = "s" /\ <<"s", "p">>[2] = "p"
        /\ Len(<<"s", "y">>) = 2 /\ <<"s", "y">>[1] = "s" /\ <<"s", "y">>[2] = "y"
        /\ <<"d">>[1] = "d" /\ <<"u">>[1] = "u"
    OBVIOUS
  <2>7. r[1] = NamespaceName[ns][1] /\ (p = 2 => r[2] = NamespaceName[ns][2])
    BY <1>8, <2>1
  <2>8. Len(r) >= 2
    <3>1. p + 1 <= Len(r) /\ Len(r) \in Nat
      BY <1>8
    <3>2. p = 1 \/ p = 2
      BY <2>1
    <3> QED
      BY <3>1, <3>2
  <2>9. ns = "spec" => r[1] = "s" /\ r[2] = "p"
    BY <1>8, <2>2, <2>6, <2>7
  <2>10. ns = "system" => r[1] = "s" /\ r[2] = "y"
    BY <1>8, <2>5, <2>6, <2>7
  <2>11. ns = "dir" => r[1] = "d"
    BY <2>3, <2>6, <2>7
  <2>12. ns = "user" => r[1] = "u"
    BY <2>4, <2>6, <2>7
  <2> QED
    BY <2>8, <2>9, <2>10, <2>11, <2>12
<1>9. /\ Len(s) >= 2
      /\ k.ns = "spec" => s[1] = "s" /\ s[2] = "p"
      /\ k.ns = "dir" => s[1] = "d"
      /\ k.ns = "user" => s[1] = "u"
      /\ k.ns = "system" => s[1] = "s" /\ s[2] = "y"
  BY <1>3, <1>5, <1>7, <1>8
<1>10. s[1] # t[1] \/ s[2] # t[2]
  <2>1. /\ Len(t) >= 2
        /\ j.ns = "spec" => t[1] = "s" /\ t[2] = "p"
        /\ j.ns = "dir" => t[1] = "d"
        /\ j.ns = "user" => t[1] = "u"
        /\ j.ns = "system" => t[1] = "s" /\ t[2] = "y"
    BY <1>3, <1>6, <1>7, <1>8
  <2> QED
    BY <1>7, <1>9, <2>1 DEF NS
<1>11. ~Agree(s, t, Len(s))
  BY <1>3, <1>9, <1>10 DEF Agree
<1> QED
  BY <1>10, <1>11 DEF s, t

\* Names are not empty.
LEMMA TrieNameNotEmpty ==
    ASSUME NEW k \in KeyType
    PROVE  TrieName(k) \in Strings /\ TrieName(k) # <<>>
<1>1. PICK l : Spelled(TrieName(k), k, l)
  BY TrieNameSpelled
<1>2. Len(k.path) \in Nat
  BY LenProperties DEF KeyType
<1>3. l[Len(k.path)] \in Nat /\ Len(TrieName(k)) = l[Len(k.path)] + 1
  BY <1>1, <1>2 DEF Spelled
<1>4. Len(TrieName(k)) # 0
  BY <1>3
<1> QED
  BY <1>4, TrieNameSpelled

-----------------------------------------------------------------------------
(* The trie and the history of the insertions *)

\* An insertion in the history.
Mounting == [name: Strings, backend: Backends]

\* The first k insertions of m have led to t: a backend is found at the name of
\* its insertion unless a later one has the same name, and nothing else is in t.
Mounts(t, m, k) ==
    /\ IsTrie(t)
    /\ \A i \in 1 .. k :
         /\ m[i].name \in DOMAIN t
         /\ (\A j \in (i + 1) .. k : m[j].name # m[i].name) => At(t, m[i].name) = m[i].backend
    /\ \A n \in DOMAIN t : \A b \in {t[n].value, t[n].empty_value} :
         b # NULL => \E i \in 1 .. k : m[i].name = n /\ m[i].backend = b

\* A later insertion at the same name has replaced b.
Replaced(m, k, b) == \E i, j \in 1 .. k : i < j /\ m[i].name = m[j].name /\ m[i].backend = b

\* What happens to the slots of the backends that are not inserted.
Kept(t, u, m, k, b) ==
    /\ Slots(t, b) \in Nat /\ Slots(u, b) \in Nat
    /\ Slots(u, b) <= Slots(t, b)
    /\ Slots(u, b) = Slots(t, b) \/ Replaced(m, k, b)

\* The null pointer is not a backend.
LEMMA NotABackend == NULL \notin Backends /\ "default" \in Backends /\ "init" \in Backends /\ "version" \in Backends
  BY MountAssumption DEF MountAssumption, Backends, BuiltIn, NULL

\* One insertion changes how often the trie holds a backend.
LEMMA SlotsAfter ==
    ASSUME NEW t, IsTrie(t), NEW u, IsTrie(u), NEW name, NEW value \in Backends,
           Inserts(t, u, name, value), NEW b \in Backends
    PROVE  /\ Slots(t, b) \in Nat /\ Slots(u, b) \in Nat
           /\ b # value => Slots(u, b) = IF name \in DOMAIN t /\ t[name].empty_value = b
                                         THEN Slots(t, b) - 1 ELSE Slots(t, b)
           /\ b = value /\ ~(name \in DOMAIN t /\ t[name].empty_value = b)
                => Slots(u, b) = Slots(t, b) + 1
<1> DEFINE V(w) == {n \in DOMAIN w : w[n].value = b}
           E(w) == {n \in DOMAIN w : w[n].empty_value = b}
<1>0. b # NULL /\ value # NULL
  BY NotABackend
<1>1. \A v, e : Slot(v, e).value = v /\ Slot(v, e).empty_value = e
  BY DEF Slot
<1>2. /\ IsFiniteSet(V(t)) /\ IsFiniteSet(E(t)) /\ IsFiniteSet(V(u)) /\ IsFiniteSet(E(u))
  BY FS_Subset DEF IsTrie
<1>3. /\ Cardinality(V(t)) \in Nat /\ Cardinality(E(t)) \in Nat
      /\ Cardinality(V(u)) \in Nat /\ Cardinality(E(u)) \in Nat
  BY <1>2, FS_CardinalityType
<1>4. Slots(t, b) = Cardinality(V(t)) + Cardinality(E(t)) /\ Slots(u, b) = Cardinality(V(u)) + Cardinality(E(u))
  BY DEF Slots
<1>5. CASE b # value
  <2>1. V(u) = V(t) /\ E(u) = E(t) \ {name}
    BY <1>0, <1>1, <1>5 DEF Inserts
  <2>2. name \in E(t) <=> name \in DOMAIN t /\ t[name].empty_value = b
    OBVIOUS
  <2>3. Cardinality(E(t) \ {name}) = IF name \in E(t) THEN Cardinality(E(t)) - 1 ELSE Cardinality(E(t))
    BY <1>2, FS_RemoveElement
  <2> HIDE DEF V, E
  <2>4. Slots(u, b) = IF name \in E(t) THEN Slots(t, b) - 1 ELSE Slots(t, b)
    BY <1>3, <1>4, <2>1, <2>3
  <2>5. Slots(t, b) \in Nat /\ Slots(u, b) \in Nat
    BY <1>3, <1>4
  <2> QED
    BY <1>5, <2>2, <2>4, <2>5
<1>6. CASE b = value /\ name \in DOMAIN t
  <2>1. V(u) = V(t) /\ E(u) = E(t) \cup {name}
    BY <1>0, <1>1, <1>6 DEF Inserts
  <2>2. name \in E(t) <=> t[name].empty_value = b
    BY <1>6
  <2>3. Cardinality(E(t) \cup {name}) = IF name \in E(t) THEN Cardinality(E(t)) ELSE Cardinality(E(t)) + 1
    BY <1>2, FS_AddElement
  <2> HIDE DEF V, E
  <2>4. name \notin E(t) => Slots(u, b) = Slots(t, b) + 1
    BY <1>3, <1>4, <2>1, <2>3
  <2>5. Slots(t, b) \in Nat /\ Slots(u, b) \in Nat
    BY <1>3, <1>4
  <2> QED
    BY <1>6, <2>2, <2>4, <2>5
<1>7. CASE b = value /\ name \notin DOMAIN t
  <2>1. u[name] = Slot(b, NULL) \/ u[name] = Slot(NULL, b)
    BY <1>7 DEF Inserts
  <2>2. name \notin V(t) /\ name \notin E(t)
    BY <1>7
  <2>3. \/ V(u) = V(t) \cup {name} /\ E(u) = E(t)
        \/ V(u) = V(t) /\ E(u) = E(t) \cup {name}
    <3>1. CASE u[name] = Slot(b, NULL)
      <4>1. V(u) = V(t) \cup {name} /\ E(u) = E(t)
        BY <1>0, <1>1, <1>7, <3>1 DEF Inserts
      <4> QED
        BY <4>1
    <3>2. CASE u[name] = Slot(NULL, b)
      <4>1. V(u) = V(t) /\ E(u) = E(t) \cup {name}
        BY <1>0, <1>1, <1>7, <3>2 DEF Inserts
      <4> QED
        BY <4>1
    <3> QED
      BY <2>1, <3>1, <3>2
  <2>4. /\ Cardinality(E(t) \cup {name}) = Cardinality(E(t)) + 1
        /\ Cardinality(V(t) \cup {name}) = Cardinality(V(t)) + 1
    BY <1>2, <2>2, FS_AddElement
  <2> HIDE DEF V, E
  <2>5. Slots(u, b) = Slots(t, b) + 1
    <3>1. CASE V(u) = V(t) \cup {name} /\ E(u) = E(t)
      <4>1. Slots(u, b) = (Cardinality(V(t)) + 1) + Cardinality(E(t))
        BY <1>4, <2>4, <3>1
      <4> QED
        BY <1>3, <1>4, <4>1
    <3>2. CASE V(u) = V(t) /\ E(u) = E(t) \cup {name}
      <4>1. Slots(u, b) = Cardinality(V(t)) + (Cardinality(E(t)) + 1)
        BY <1>4, <2>4, <3>2
      <4> QED
        BY <1>3, <1>4, <4>1
    <3> QED
      BY <2>3, <3>1, <3>2
  <2>6. Slots(t, b) \in Nat /\ Slots(u, b) \in Nat
    BY <1>3, <1>4
  <2> QED
    BY <1>7, <2>5, <2>6
<1> QED
  BY <1>5, <1>6, <1>7

\* What insertion k does.
Advances(t, u, m, k) ==
    /\ Mounts(u, m, k)
    /\ \A b \in Backends : b # m[k].backend => Kept(t, u, m, k, b)
    /\ (\A i \in 1 .. (k - 1) : m[i].name = m[k].name => m[i].backend # m[k].backend)
         => Slots(u, m[k].backend) = Slots(t, m[k].backend) + 1

\* One insertion keeps the trie and its history together.
LEMMA OneInsertion ==
    ASSUME NEW m \in Seq(Mounting), NEW k \in 1 .. Len(m), NEW t, Mounts(t, m, k - 1),
           m[k].name # <<>>, NEW u, u = trieInsert(t, m[k].name, m[k].backend)
    PROVE  Advances(t, u, m, k)
<1> DEFINE name == m[k].name
           value == m[k].backend
<1>0. Len(m) \in Nat /\ \A i \in 1 .. k : m[i].name \in Strings /\ m[i].backend \in Backends
  <2>1. Len(m) \in Nat /\ \A i \in 1 .. Len(m) : m[i] \in Mounting
    BY LenProperties, ElementOfSeq
  <2>2. \A i \in 1 .. k : i \in 1 .. Len(m)
    BY <2>1
  <2> QED
    BY <2>1, <2>2 DEF Mounting
<1>1. name \in Strings /\ value \in Backends /\ name # <<>> /\ u = trieInsert(t, name, value)
  BY <1>0
<1>2. IsTrie(t)
  BY DEF Mounts
<1> HIDE DEF name, value
<1>3. IsTrie(u) /\ Inserts(t, u, name, value)
  BY <1>1, <1>2, InsertCorrect
<1>4. value # NULL /\ \A i \in 1 .. k : i \in 1 .. (k - 1) \/ i = k
  BY <1>1, NotABackend
<1>5. \A v, e : Slot(v, e).value = v /\ Slot(v, e).empty_value = e
  BY DEF Slot
<1>6. At(u, name) = value
  <2>1. CASE name \in DOMAIN t
    BY <1>3, <1>4, <1>5, <2>1 DEF At, Inserts
  <2>2. CASE name \notin DOMAIN t
    BY <1>3, <1>4, <1>5, <2>2 DEF At, Inserts
  <2> QED
    BY <2>1, <2>2
<1>7. \A n \in DOMAIN t : n # name => At(u, n) = At(t, n)
  BY <1>3 DEF At, Inserts
<1>8. \A i \in 1 .. k :
         /\ m[i].name \in DOMAIN u
         /\ (\A j \in (i + 1) .. k : m[j].name # m[i].name) => At(u, m[i].name) = m[i].backend
  <2> SUFFICES ASSUME NEW i \in 1 .. k
               PROVE  /\ m[i].name \in DOMAIN u
                      /\ (\A j \in (i + 1) .. k : m[j].name # m[i].name) => At(u, m[i].name) = m[i].backend
    OBVIOUS
  <2>1. CASE i = k
    BY <1>3, <1>6, <2>1 DEF Inserts, name, value
  <2>2. CASE i \in 1 .. (k - 1)
    <3>1. m[i].name \in DOMAIN t /\ m[i].name \in DOMAIN u
      BY <1>3, <2>2 DEF Mounts, Inserts
    <3>2. ASSUME \A j \in (i + 1) .. k : m[j].name # m[i].name PROVE At(u, m[i].name) = m[i].backend
      <4>1. m[i].name # name
        BY <2>2, <3>2 DEF name
      <4>2. \A j \in (i + 1) .. (k - 1) : m[j].name # m[i].name
        BY <3>2
      <4>3. At(t, m[i].name) = m[i].backend
        BY <2>2, <4>2 DEF Mounts
      <4> QED
        BY <1>7, <3>1, <4>1, <4>3
    <3> QED
      BY <3>1, <3>2
  <2> QED
    BY <1>4, <2>1, <2>2
<1>9. \A n \in DOMAIN u : \A b \in {u[n].value, u[n].empty_value} :
         b # NULL => \E i \in 1 .. k : m[i].name = n /\ m[i].backend = b
  <2> SUFFICES ASSUME NEW n \in DOMAIN u, NEW b \in {u[n].value, u[n].empty_value}, b # NULL
               PROVE  \E i \in 1 .. k : m[i].name = n /\ m[i].backend = b
    OBVIOUS
  <2>0. \A i \in 1 .. (k - 1) : i \in 1 .. k
    OBVIOUS
  <2>1. CASE n \in DOMAIN t /\ b \in {t[n].value, t[n].empty_value}
    <3>1. \E i \in 1 .. (k - 1) : m[i].name = n /\ m[i].backend = b
      BY <2>1 DEF Mounts
    <3> QED
      BY <2>0, <3>1
  <2>2. CASE n = name /\ b = value
    BY <2>2 DEF name, value
  <2>3. (n \in DOMAIN t /\ b \in {t[n].value, t[n].empty_value}) \/ (n = name /\ b = value)
    <3>1. CASE n = name
      <4>1. CASE name \in DOMAIN t
        BY <1>3, <1>5, <3>1, <4>1 DEF Inserts
      <4>2. CASE name \notin DOMAIN t
        BY <1>3, <1>5, <3>1, <4>2 DEF Inserts
      <4> QED
        BY <4>1, <4>2
    <3>2. CASE n # name
      BY <1>3, <1>5, <3>2 DEF Inserts
    <3> QED
      BY <3>1, <3>2
  <2> QED
    BY <2>1, <2>2, <2>3
<1>10. ASSUME NEW b \in Backends, b # value PROVE Kept(t, u, m, k, b)
  <2>1. /\ Slots(t, b) \in Nat /\ Slots(u, b) \in Nat
        /\ Slots(u, b) = IF name \in DOMAIN t /\ t[name].empty_value = b THEN Slots(t, b) - 1 ELSE Slots(t, b)
    BY <1>1, <1>2, <1>3, <1>10, SlotsAfter
  <2>2. Slots(u, b) <= Slots(t, b)
    BY <2>1
  <2>3. name \in DOMAIN t /\ t[name].empty_value = b => Replaced(m, k, b)
    <3>1. ASSUME name \in DOMAIN t, t[name].empty_value = b PROVE Replaced(m, k, b)
      <4>1. PICK i \in 1 .. (k - 1) : m[i].name = name /\ m[i].backend = b
        BY <3>1, NotABackend DEF Mounts
      <4>2. i \in 1 .. k /\ k \in 1 .. k /\ i < k /\ m[k].name = name
        BY DEF name
      <4> QED
        BY <4>1, <4>2 DEF Replaced
    <3> QED
      BY <3>1
  <2> QED
    BY <2>1, <2>2, <2>3 DEF Kept
<1>11. ASSUME \A i \in 1 .. (k - 1) : m[i].name = name => m[i].backend # value
       PROVE  Slots(u, value) = Slots(t, value) + 1
  <2>1. ~(name \in DOMAIN t /\ t[name].empty_value = value)
    BY <1>4, <1>11 DEF Mounts
  <2> QED
    BY <1>1, <1>2, <1>3, <2>1, SlotsAfter
<1> QED
  BY <1>3, <1>8, <1>9, <1>10, <1>11 DEF Mounts, Advances, name, value

\* Inserted is a loop over the keys.
LEMMA InsertedUnfolds ==
    ASSUME NEW t, IsTrie(t), NEW b \in Backends, NEW keys \in Seq(KeyType)
    PROVE  \E f : /\ Inserted(t, b, keys) = f[Len(keys)] /\ f[0] = t
                  /\ \A i \in 1 .. Len(keys) : f[i] = trieInsert(f[i - 1], TrieName(keys[i]), b)
<1> DEFINE n == Len(keys)
           T == {x \in UNION {[D -> SlotType] : D \in SUBSET Strings} : IsTrie(x)}
           g == [x \in (1 .. n) \X T |-> trieInsert(x[2], TrieName(keys[x[1]]), b)]
           S == [i \in 0 .. n |-> T]
           Is(f) == f = [i \in 0 .. n |-> IF i = 0 THEN t ELSE trieInsert(f[i - 1], TrieName(keys[i]), b)]
<1>0. n \in Nat /\ \A i \in 1 .. n : keys[i] \in KeyType
  BY LenProperties, ElementOfSeq
<1>1. \A x : IsTrie(x) <=> x \in T
  BY DEF IsTrie
<1> HIDE DEF T, n
<1>2. t \in S[0]
  BY <1>0, <1>1
<1>3. ASSUME NEW i \in 1 .. n, NEW x \in S[i - 1]
      PROVE  g[<<i, x>>] \in S[i] /\ x \in T /\ g[<<i, x>>] = trieInsert(x, TrieName(keys[i]), b)
  <2>1. i - 1 \in 0 .. n /\ i \in 0 .. n
    BY <1>0
  <2>2. x \in T
    BY <2>1
  <2>3. g[<<i, x>>] = trieInsert(x, TrieName(keys[i]), b)
    BY <2>2
  <2>4. IsTrie(trieInsert(x, TrieName(keys[i]), b))
    <3>1. IsTrie(x) /\ TrieName(keys[i]) \in Strings /\ TrieName(keys[i]) # <<>>
      BY <1>0, <1>1, <2>2, TrieNameNotEmpty
    <3> QED
      BY <3>1, InsertCorrect
  <2> QED
    BY <1>1, <2>1, <2>2, <2>3, <2>4
<1> HIDE DEF g
<1>4. PICK h : IsLoop(h, n, t, g) /\ \A i \in 0 .. n : h[i] \in S[i]
  <2> HIDE DEF S
  <2> QED
    BY <1>0, <1>2, <1>3, LoopExists
<1>5. \A i \in 0 .. n : h[i] = IF i = 0 THEN t ELSE trieInsert(h[i - 1], TrieName(keys[i]), b)
  <2> SUFFICES ASSUME NEW i \in 0 .. n
               PROVE  h[i] = IF i = 0 THEN t ELSE trieInsert(h[i - 1], TrieName(keys[i]), b)
    OBVIOUS
  <2>1. h[i] = IF i = 0 THEN t ELSE g[<<i, h[i - 1]>>]
    BY <1>4 DEF IsLoop
  <2>2. i # 0 => i \in 1 .. n /\ i - 1 \in 0 .. n
    BY <1>0
  <2>3. i # 0 => h[i - 1] \in S[i - 1]
    <3> HIDE DEF S
    <3> QED
      BY <1>4, <2>2
  <2> HIDE DEF S
  <2> QED
    BY <1>3, <2>1, <2>2, <2>3
<1>6. h = [i \in 0 .. n |-> h[i]]
  <2>1. h = [i \in 0 .. n |-> IF i = 0 THEN t ELSE g[<<i, h[i - 1]>>]]
    BY <1>4 DEF IsLoop
  <2> QED
    BY <2>1
<1>7. Is(h)
  BY <1>5, <1>6
<1> DEFINE f == CHOOSE f : Is(f)
<1>8. Inserted(t, b, keys) = f[n]
  BY DEF Inserted, n
<1>9. Is(f)
  <2> HIDE DEF Is
  <2> QED
    BY <1>7
<1> HIDE DEF f
<1>10. f[0] = t /\ \A i \in 1 .. n : f[i] = trieInsert(f[i - 1], TrieName(keys[i]), b)
  <2>1. \A i \in 0 .. n : f[i] = IF i = 0 THEN t ELSE trieInsert(f[i - 1], TrieName(keys[i]), b)
    BY <1>9
  <2>2. 0 \in 0 .. n /\ \A i \in 1 .. n : i \in 0 .. n /\ i # 0
    BY <1>0
  <2> QED
    BY <2>1, <2>2
<1> HIDE DEF Is
<1> QED
  BY <1>8, <1>10 DEF n

\* The insertions of b from which u comes are the n last ones of m.
InsertsAll(t, u, m, b, n) ==
    /\ Mounts(u, m, Len(m)) /\ Slots(u, b) = n
    /\ \A c \in Backends : c # b => Kept(t, u, m, Len(m), c)

\* A backend that has not been mounted is inserted for all keys of its mountpoint.
LEMMA InsertedMounts ==
    ASSUME NEW t, NEW m \in Seq(Mounting), NEW k \in Nat, Mounts(t, m, k),
           NEW keys \in Seq(KeyType), Len(m) = k + Len(keys), NEW b \in Backends,
           \A i \in 1 .. Len(keys) : m[k + i].name = TrieName(keys[i]) /\ m[k + i].backend = b,
           \A i, j \in 1 .. Len(keys) : i # j => TrieName(keys[i]) # TrieName(keys[j]),
           \A i \in 1 .. k : m[i].backend # b,
           Slots(t, b) = 0, NEW u, u = Inserted(t, b, keys)
    PROVE  InsertsAll(t, u, m, b, Len(keys))
<1> DEFINE n == Len(keys)
<1>0. n \in Nat /\ \A i \in 1 .. n : keys[i] \in KeyType
  BY LenProperties, ElementOfSeq
<1>1. PICK f : /\ u = f[n] /\ f[0] = t
               /\ \A i \in 1 .. n : f[i] = trieInsert(f[i - 1], TrieName(keys[i]), b)
  <2>1. IsTrie(t)
    BY DEF Mounts
  <2> QED
    BY <2>1, InsertedUnfolds
<1> HIDE DEF n
<1> DEFINE P == {i \in 0 .. n : /\ Mounts(f[i], m, k + i) /\ Slots(f[i], b) = i
                                /\ \A c \in Backends : c # b => Kept(t, f[i], m, k + i, c)}
<1>2. 0 \in P
  <2>1. \A c \in Backends : Slots(t, c) \in Nat
    <3>1. IsTrie(t)
      BY DEF Mounts
    <3> SUFFICES ASSUME NEW c \in Backends PROVE Slots(t, c) \in Nat
      OBVIOUS
    <3>2. /\ IsFiniteSet({x \in DOMAIN t : t[x].value = c})
          /\ IsFiniteSet({x \in DOMAIN t : t[x].empty_value = c})
      BY <3>1, FS_Subset DEF IsTrie
    <3>3. /\ Cardinality({x \in DOMAIN t : t[x].value = c}) \in Nat
          /\ Cardinality({x \in DOMAIN t : t[x].empty_value = c}) \in Nat
      BY <3>2, FS_CardinalityType
    <3> QED
      BY <3>3 DEF Slots
  <2>2. k + 0 = k /\ 0 \in 0 .. n
    BY <1>0
  <2>3. \A c \in Backends : Kept(t, t, m, k, c)
    BY <2>1 DEF Kept
  <2> QED
    BY <1>1, <2>2, <2>3
<1>3. ASSUME NEW i \in 1 .. n, i - 1 \in P PROVE i \in P
  <2>1. /\ k + i \in 1 .. Len(m) /\ k + i - 1 = k + (i - 1) /\ k + i - 1 \in Nat /\ k + i \in Nat
    BY <1>0 DEF n
  <2>2. /\ Mounts(f[i - 1], m, k + i - 1) /\ Slots(f[i - 1], b) = i - 1
        /\ \A c \in Backends : c # b => Kept(t, f[i - 1], m, k + i - 1, c)
    BY <1>3, <2>1
  <2>3. m[k + i].name = TrieName(keys[i]) /\ m[k + i].backend = b
    BY DEF n
  <2>4. f[i] = trieInsert(f[i - 1], m[k + i].name, m[k + i].backend) /\ m[k + i].name # <<>>
    BY <1>0, <1>1, <2>3, TrieNameNotEmpty
  <2>5. \A j \in 1 .. (k + i - 1) : m[j].name = m[k + i].name => m[j].backend # m[k + i].backend
    <3> SUFFICES ASSUME NEW j \in 1 .. (k + i - 1)
                 PROVE  m[j].name = m[k + i].name => m[j].backend # m[k + i].backend
      OBVIOUS
    <3>1. CASE j \in 1 .. k
      BY <2>3, <3>1
    <3>2. CASE j \notin 1 .. k
      <4>1. j - k \in 1 .. n /\ j - k # i /\ k + (j - k) = j
        BY <1>0, <3>2
      <4>2. m[j].name = TrieName(keys[j - k])
        BY <4>1 DEF n
      <4>3. TrieName(keys[j - k]) # TrieName(keys[i])
        BY <4>1 DEF n
      <4> QED
        BY <2>3, <4>2, <4>3
    <3> QED
      BY <3>1, <3>2
  <2>6. /\ Mounts(f[i], m, k + i)
        /\ \A c \in Backends : c # m[k + i].backend => Kept(f[i - 1], f[i], m, k + i, c)
        /\ Slots(f[i], m[k + i].backend) = Slots(f[i - 1], m[k + i].backend) + 1
    <3> DEFINE l == k + i
    <3>1. l \in 1 .. Len(m) /\ Mounts(f[i - 1], m, l - 1)
      BY <2>1, <2>2
    <3>2. m[l].name # <<>> /\ f[i] = trieInsert(f[i - 1], m[l].name, m[l].backend)
      BY <2>4
    <3>3. \A j \in 1 .. (l - 1) : m[j].name = m[l].name => m[j].backend # m[l].backend
      BY <2>5
    <3> DEFINE x == f[i - 1]
               y == f[i]
    <3> HIDE DEF l, x, y
    <3>5. l \in 1 .. Len(m) /\ Mounts(x, m, l - 1) /\ m[l].name # <<>> /\ y = trieInsert(x, m[l].name, m[l].backend)
      BY <3>1, <3>2 DEF x, y
    <3>6. Advances(x, y, m, l)
      BY <3>5, OneInsertion
    <3>4. /\ Mounts(f[i], m, l)
          /\ \A c \in Backends : c # m[l].backend => Kept(f[i - 1], f[i], m, l, c)
          /\ Slots(f[i], m[l].backend) = Slots(f[i - 1], m[l].backend) + 1
      BY <3>3, <3>6 DEF Advances, x, y
    <3> QED
      BY <3>4 DEF l
  <2>7. Slots(f[i], b) = i
    BY <2>2, <2>3, <2>6
  <2>8. ASSUME NEW c \in Backends, c # b PROVE Kept(t, f[i], m, k + i, c)
    <3>1. Kept(t, f[i - 1], m, k + i - 1, c) /\ Kept(f[i - 1], f[i], m, k + i, c)
      BY <2>2, <2>3, <2>6, <2>8
    <3>2. Replaced(m, k + i - 1, c) => Replaced(m, k + i, c)
      BY <2>1 DEF Replaced
    <3> QED
      BY <3>1, <3>2 DEF Kept
  <2> QED
    BY <2>6, <2>7, <2>8
<1>4. n \in P
  <2>1. \A i \in 0 .. n : i \in P
    <3> HIDE DEF P
    <3> QED
      BY <1>0, <1>2, <1>3, Induction
  <2> QED
    BY <1>0, <2>1
<1>5. Len(m) = k + n
  BY DEF n
<1> QED
  BY <1>1, <1>4, <1>5 DEF InsertsAll, n

-----------------------------------------------------------------------------
(* Mounting a backend *)

MountpointType == [ns: NS \cup {"/"}, path: Seq(Seq(Characters))]
PartType == [backend: Backends, parent: KeyType, cascading: BOOLEAN]
Apart(keys) == \A i, j \in 1 .. Len(keys) : i # j => keys[i].ns # keys[j].ns

\* The mountpoints that kdbOpen() adds to those of the configuration.
LEMMA BuiltInKeys ==
    /\ SystemElektra \in KeyType /\ Key("system", <<Elektra, Version>>) \in KeyType
    /\ \A x \in ToSet(Modules) : Key("system", <<Elektra, Module, <<x>>>>) \in KeyType
    /\ \A ns \in NS : Root(ns) \in KeyType
<1>1. "system" \in NS /\ \A ns \in NS, path \in Seq(Seq(Characters)) : Key(ns, path) \in KeyType
  BY DEF Key, KeyType, NS
<1>2. {"e", "k", "v", "m"} \cup ToSet(Modules) \subseteq Characters
  BY DEF Characters
<1>3. Elektra \in Seq(Characters) /\ Version \in Seq(Characters) /\ Module \in Seq(Characters)
  BY <1>2 DEF Elektra, Version, Module
<1>4. \A x \in ToSet(Modules) : <<x>> \in Seq(Characters)
  BY <1>2
<1>5. /\ <<Elektra>> \in Seq(Seq(Characters)) /\ <<Elektra, Version>> \in Seq(Seq(Characters))
      /\ \A x \in ToSet(Modules) : <<Elektra, Module, <<x>>>> \in Seq(Seq(Characters))
      /\ <<>> \in Seq(Seq(Characters))
  <2> DEFINE X == Seq(Characters)
  <2>1. Elektra \in X /\ Version \in X /\ Module \in X /\ \A x \in ToSet(Modules) : <<x>> \in X
    BY <1>3, <1>4
  <2> HIDE DEF X
  <2>2. /\ <<Elektra>> \in Seq(X) /\ <<Elektra, Version>> \in Seq(X) /\ <<>> \in Seq(X)
    BY <2>1
  <2>3. \A x \in ToSet(Modules) : <<Elektra, Module, <<x>>>> \in Seq(X)
    <3> SUFFICES ASSUME NEW x \in ToSet(Modules) PROVE <<Elektra, Module, <<x>>>> \in Seq(X)
      OBVIOUS
    <3> DEFINE y == <<x>>
    <3>1. y \in X
      BY <2>1
    <3> HIDE DEF y
    <3>2. <<Elektra, Module, y>> \in Seq(X)
      BY <2>1, <3>1
    <3> QED
      BY <3>2 DEF y
  <2> QED
    BY <2>2, <2>3 DEF X
<1> QED
  BY <1>1, <1>5 DEF SystemElektra, Root

\* mountBackend inserts a backend once for each of some different keys.
LEMMA MountKeysProperties ==
    ASSUME NEW mp \in MountpointType
    PROVE  /\ MountKeys(mp) \in Seq(KeyType) /\ DOMAIN MountKeys(mp) = 1 .. Len(MountKeys(mp))
           /\ Apart(MountKeys(mp))
           /\ mp.ns # "/" => MountKeys(mp) = <<mp>> /\ Len(MountKeys(mp)) = 1
           /\ Len(MountKeys(mp)) >= 1
<1>0. /\ mp.path \in Seq(Seq(Characters)) /\ <<>> \in Seq(Seq(Characters))
      /\ \A ns \in NS, path \in Seq(Seq(Characters)) : Key(ns, path) \in KeyType /\ Key(ns, path).ns = ns
  BY DEF MountpointType, Key, KeyType
<1>1. /\ Namespaces[1] = "spec" /\ Namespaces[2] = "dir" /\ Namespaces[3] = "user" /\ Namespaces[4] = "system"
      /\ \A i \in 1 .. 4 : Namespaces[i] \in NS
  BY DEF Namespaces, NS
<1>2. CASE mp.ns # "/"
  <2>1. mp \in KeyType /\ MountKeys(mp) = <<mp>>
    <3>1. mp \in KeyType
      BY <1>2 DEF MountpointType, KeyType
    <3>2. MountKeys(mp) = <<mp>>
      BY <1>2 DEF MountKeys
    <3> QED
      BY <3>1, <3>2
  <2>2. <<mp>> \in Seq(KeyType) /\ Len(<<mp>>) = 1 /\ DOMAIN <<mp>> = 1 .. 1
    BY <2>1
  <2> QED
    BY <2>1, <2>2 DEF Apart
<1>3. CASE mp.ns = "/" /\ mp.path = <<>>
  <2> DEFINE q == [i \in 1 .. 4 |-> Key(Namespaces[i], <<>>)]
  <2>1. MountKeys(mp) = q
    BY <1>3 DEF MountKeys
  <2>2. q \in [1 .. 4 -> KeyType] /\ \A i \in 1 .. 4 : q[i].ns = Namespaces[i]
    BY <1>0, <1>1
  <2> HIDE DEF q
  <2>3. q \in Seq(KeyType) /\ Len(q) = 4 /\ DOMAIN q = 1 .. 4
    BY <2>2, FunctionIsSeq
  <2>4. \A i, j \in 1 .. 4 : i # j => Namespaces[i] # Namespaces[j]
    BY <1>1
  <2> QED
    BY <1>3, <2>1, <2>2, <2>3, <2>4 DEF Apart
<1>4. CASE mp.ns = "/" /\ mp.path # <<>>
  <2> DEFINE q == [i \in 1 .. 3 |-> Key(Namespaces[i + 1], mp.path)]
  <2>1. MountKeys(mp) = q
    BY <1>4 DEF MountKeys
  <2>2. q \in [1 .. 3 -> KeyType] /\ \A i \in 1 .. 3 : q[i].ns = Namespaces[i + 1]
    BY <1>0, <1>1
  <2> HIDE DEF q
  <2>3. q \in Seq(KeyType) /\ Len(q) = 3 /\ DOMAIN q = 1 .. 3
    BY <2>2, FunctionIsSeq
  <2>4. \A i, j \in 1 .. 3 : i # j => Namespaces[i + 1] # Namespaces[j + 1]
    BY <1>1
  <2> QED
    BY <1>4, <2>1, <2>2, <2>3, <2>4 DEF Apart
<1> QED
  BY <1>2, <1>3, <1>4

\* The insertions of b for the keys come to those of m.
Extends(v, m, b, keys) ==
    /\ v \in Seq(Mounting) /\ Len(v) = Len(m) + Len(keys)
    /\ \A i \in 1 .. Len(m) : v[i] = m[i]
    /\ \A i \in 1 .. Len(keys) : v[Len(m) + i].name = TrieName(keys[i]) /\ v[Len(m) + i].backend = b

\* The history before and after the insertions.
LEMMA ExtendsProperties ==
    ASSUME NEW m \in Seq(Mounting), NEW keys \in Seq(KeyType), NEW b \in Backends,
           NEW v, v = m \o [i \in DOMAIN keys |-> [name |-> TrieName(keys[i]), backend |-> b]]
    PROVE  Extends(v, m, b, keys)
<1> DEFINE q == [i \in DOMAIN keys |-> [name |-> TrieName(keys[i]), backend |-> b]]
<1>0. Len(keys) \in Nat /\ DOMAIN keys = 1 .. Len(keys) /\ Len(m) \in Nat
  BY LenProperties
<1>1. \A i \in 1 .. Len(keys) : TrieName(keys[i]) \in Strings
  BY ElementOfSeq, TrieNameNotEmpty
<1>2. q \in [1 .. Len(keys) -> Mounting]
  BY <1>0, <1>1 DEF Mounting
<1>3. \A i \in 1 .. Len(keys) : q[i].name = TrieName(keys[i]) /\ q[i].backend = b
  BY <1>0
<1>4. v = m \o q
  OBVIOUS
<1> HIDE DEF q
<1>5. q \in Seq(Mounting) /\ Len(q) = Len(keys)
  BY <1>0, <1>2, FunctionIsSeq
<1>6. /\ m \o q \in Seq(Mounting) /\ Len(m \o q) = Len(m) + Len(q)
      /\ \A i \in 1 .. Len(m) + Len(q) : (m \o q)[i] = IF i <= Len(m) THEN m[i] ELSE q[i - Len(m)]
  BY <1>5, ConcatProperties
<1>7. \A i \in 1 .. Len(m) : v[i] = m[i]
  BY <1>0, <1>4, <1>5, <1>6
<1>8. \A i \in 1 .. Len(keys) : v[Len(m) + i] = q[i]
  <2> SUFFICES ASSUME NEW i \in 1 .. Len(keys) PROVE v[Len(m) + i] = q[i]
    OBVIOUS
  <2>1. Len(m) + i \in 1 .. Len(m) + Len(q) /\ ~(Len(m) + i <= Len(m)) /\ Len(m) + i - Len(m) = i
    BY <1>0, <1>5
  <2>2. (m \o q)[Len(m) + i] = q[Len(m) + i - Len(m)]
    BY <1>6, <2>1
  <2> QED
    BY <1>4, <2>1, <2>2
<1> QED
  BY <1>3, <1>4, <1>5, <1>6, <1>7, <1>8 DEF Extends

\* The references of a backend are its slots in the trie and the handle, and no
\* slot is lost but to a backend that is mounted later at the same name.
Holders(h, b) == (IF h.default = b THEN 1 ELSE 0) + (IF h.init = b THEN 1 ELSE 0)
Counts(r, t, m, h) ==
    \A b \in Backends :
        /\ r[b] \in Nat /\ Slots(t, b) \in Nat
        /\ r[b] >= Slots(t, b) + Holders(h, b)
        /\ r[b] = Slots(t, b) + Holders(h, b) \/ Replaced(m, Len(m), b)

\* A backend that was not mounted is in no slot.
LEMMA UnmountedSlots ==
    ASSUME NEW t, NEW m, NEW k, Mounts(t, m, k), NEW b \in Backends, \A i \in 1 .. k : m[i].backend # b
    PROVE  Slots(t, b) = 0
<1>1. b # NULL
  BY NotABackend
<1>2. {n \in DOMAIN t : t[n].value = b} = {} /\ {n \in DOMAIN t : t[n].empty_value = b} = {}
  BY <1>1 DEF Mounts
<1>3. Cardinality({}) = 0
  BY FS_EmptySet
<1> QED
  BY <1>2, <1>3 DEF Slots

MoreReplaced(m, v) == \A c : Replaced(m, Len(m), c) => Replaced(v, Len(v), c)

\* MountAt keeps the trie and its history together.
LEMMA MountAtMounts ==
    ASSUME NEW t, NEW m \in Seq(Mounting), Mounts(t, m, Len(m)),
           NEW keys \in Seq(KeyType), Apart(keys), NEW b \in Backends, \A i \in 1 .. Len(m) : m[i].backend # b,
           NEW v, Extends(v, m, b, keys), NEW u, u = Inserted(t, b, keys)
    PROVE  InsertsAll(t, u, v, b, Len(keys)) /\ MoreReplaced(m, v)
<1> DEFINE k == Len(m)
<1>0. k \in Nat /\ Len(keys) \in Nat /\ \A i \in 1 .. Len(keys) : keys[i] \in KeyType
  BY LenProperties, ElementOfSeq
<1>1. /\ v \in Seq(Mounting) /\ Len(v) = k + Len(keys) /\ \A i \in 1 .. k : v[i] = m[i]
      /\ \A i \in 1 .. Len(keys) : v[k + i].name = TrieName(keys[i]) /\ v[k + i].backend = b
  BY DEF Extends
<1>2. Slots(t, b) = 0
  BY UnmountedSlots
<1>3. Mounts(t, v, k)
  <2>1. Mounts(t, m, k)
    OBVIOUS
  <2> HIDE DEF k
  <2>2. \A i \in 1 .. k : \A j \in (i + 1) .. k : j \in 1 .. k
    BY <1>0
  <2>3. \A i \in 1 .. k : v[i] = m[i]
    BY <1>1
  <2>4. ASSUME NEW i \in 1 .. k
        PROVE  /\ v[i].name \in DOMAIN t
               /\ (\A j \in (i + 1) .. k : v[j].name # v[i].name) => At(t, v[i].name) = v[i].backend
    <3>1. /\ m[i].name \in DOMAIN t
          /\ (\A j \in (i + 1) .. k : m[j].name # m[i].name) => At(t, m[i].name) = m[i].backend
      BY <2>1 DEF Mounts
    <3>2. \A j \in (i + 1) .. k : v[j] = m[j]
      BY <2>2, <2>3
    <3> QED
      BY <2>3, <3>1, <3>2
  <2>5. \A n \in DOMAIN t : \A c \in {t[n].value, t[n].empty_value} :
           c # NULL => \E i \in 1 .. k : v[i].name = n /\ v[i].backend = c
    BY <2>1, <2>3 DEF Mounts
  <2> QED
    BY <2>1, <2>4, <2>5 DEF Mounts
<1>4. \A i, j \in 1 .. Len(keys) : i # j => TrieName(keys[i]) # TrieName(keys[j])
  BY <1>0, DifferentNamespaces DEF Apart
<1>5. \A i \in 1 .. k : v[i].backend # b
  BY <1>1
<1>6. ASSUME NEW c, Replaced(m, k, c) PROVE Replaced(v, Len(v), c)
  <2> HIDE DEF k
  <2>1. PICK i, j \in 1 .. k : i < j /\ m[i].name = m[j].name /\ m[i].backend = c
    BY <1>6 DEF Replaced
  <2>2. i \in 1 .. Len(v) /\ j \in 1 .. Len(v)
    BY <1>0, <1>1
  <2> QED
    BY <1>1, <2>1, <2>2 DEF Replaced
<1> HIDE DEF k
<1>7. InsertsAll(t, u, v, b, Len(keys))
  BY <1>0, <1>1, <1>2, <1>3, <1>4, <1>5, InsertedMounts
<1> QED
  BY <1>6, <1>7 DEF MoreReplaced, k

\* The counters change like what the handle holds, but for b.
Recounts(r, h, s, g, b) == \A c \in Backends : c # b => s[c] = r[c] + Holders(g, c) - Holders(h, c)

\* The references to b: n from the trie, and those of the handle.
References(s, b, n, g) == s[b] = n + Holders(g, b)

\* MountAt counts the references.
LEMMA MountAtCounts ==
    ASSUME NEW t, NEW u, NEW m, NEW v, NEW b \in Backends, NEW n \in Nat,
           InsertsAll(t, u, v, b, n), MoreReplaced(m, v),
           NEW r, NEW h, Counts(r, t, m, h), NEW s, NEW g,
           References(s, b, n, g), Recounts(r, h, s, g, b)
    PROVE  Counts(s, u, v, g)
<1>1. \A x, c : Holders(x, c) \in Nat
  BY DEF Holders
<1>2. SUFFICES ASSUME NEW c \in Backends
               PROVE  /\ s[c] \in Nat /\ Slots(u, c) \in Nat
                      /\ s[c] >= Slots(u, c) + Holders(g, c)
                      /\ s[c] = Slots(u, c) + Holders(g, c) \/ Replaced(v, Len(v), c)
  BY DEF Counts
<1>3. CASE c = b
  BY <1>1, <1>3 DEF InsertsAll, References
<1>4. CASE c # b
  <2>1. /\ r[c] \in Nat /\ Slots(t, c) \in Nat
        /\ r[c] >= Slots(t, c) + Holders(h, c)
        /\ r[c] = Slots(t, c) + Holders(h, c) \/ Replaced(v, Len(v), c)
    BY DEF Counts, MoreReplaced
  <2>2. /\ Slots(u, c) \in Nat /\ Slots(u, c) <= Slots(t, c)
        /\ Slots(u, c) = Slots(t, c) \/ Replaced(v, Len(v), c)
    BY <1>4 DEF Kept, InsertsAll
  <2>3. s[c] = r[c] + Holders(g, c) - Holders(h, c)
    BY <1>4 DEF Recounts
  <2>4. Holders(g, c) \in Nat /\ Holders(h, c) \in Nat
    BY <1>1
  <2>5. s[c] \in Nat /\ s[c] >= Slots(u, c) + Holders(g, c)
    BY <2>1, <2>2, <2>3, <2>4
  <2>6. s[c] = Slots(u, c) + Holders(g, c) \/ Replaced(v, Len(v), c)
    BY <2>1, <2>2, <2>3, <2>4
  <2> QED
    BY <2>2, <2>5, <2>6
<1> QED
  BY <1>3, <1>4

-----------------------------------------------------------------------------
(* What a lookup finds, by the history of the insertions *)

AboveIn(m, name) == {i \in 1 .. Len(m) : Agree(m[i].name, name, Len(m[i].name))}
LongestIn(m, name) == {i \in AboveIn(m, name) : \A j \in AboveIn(m, name) : Len(m[j].name) <= Len(m[i].name)}

\* The trie and the history name the same backend.
LEMMA FoundInHistory ==
    ASSUME NEW t, NEW m \in Seq(Mounting), Mounts(t, m, Len(m)), NEW name \in Strings,
           NEW r, r = elektraTriePrefixLookup(t, name)
    PROVE  /\ r = NULL <=> AboveIn(m, name) = {}
           /\ AboveIn(m, name) # {} => /\ r = m[Max(LongestIn(m, name))].backend
                                       /\ Max(LongestIn(m, name)) \in LongestIn(m, name)
                                       /\ \A i \in LongestIn(m, name) : i <= Max(LongestIn(m, name))
<1> DEFINE n == Len(m)
           A == AboveIn(m, name)
           L == LongestIn(m, name)
<1>0. /\ n \in Nat /\ A \in SUBSET (1 .. n) /\ L \in SUBSET (1 .. n) /\ IsTrie(t)
      /\ \A i \in 1 .. n : m[i].name \in Strings /\ m[i].backend \in Backends /\ Len(m[i].name) \in Nat
  <2>1. n \in Nat /\ \A i \in 1 .. n : m[i].name \in Strings /\ m[i].backend \in Backends
    <3>1. n \in Nat /\ \A i \in 1 .. n : m[i] \in Mounting
      BY LenProperties, ElementOfSeq
    <3> QED
      BY <3>1 DEF Mounting
  <2> QED
    BY <2>1, LengthType DEF AboveIn, LongestIn, Mounts
<1>1. /\ \A i \in 1 .. n :
         /\ m[i].name \in DOMAIN t
         /\ (\A j \in (i + 1) .. n : m[j].name # m[i].name) => At(t, m[i].name) = m[i].backend
      /\ \A x \in DOMAIN t : \A b \in {t[x].value, t[x].empty_value} :
         b # NULL => \E i \in 1 .. n : m[i].name = x /\ m[i].backend = b
  BY DEF Mounts
<1>2. /\ r = NULL <=> Above(t, name) = {}
      /\ r # NULL => \E x \in Above(t, name) : Longest(x, Above(t, name)) /\ r = At(t, x)
  BY <1>0, LookupCorrect
<1> HIDE DEF n
\* What is above the name in the trie are the names that have been inserted.
<1>3. ASSUME NEW i \in A PROVE m[i].name \in Above(t, name)
  <2> DEFINE S == {j \in 1 .. n : m[j].name = m[i].name}
             j == Max(S)
  <2>1. S \in SUBSET (1 .. n) /\ S # {}
    BY <1>0
  <2>2. j \in S /\ \A y \in S : y <= j
    <3> HIDE DEF S
    <3> QED
      BY <1>0, <2>1, MaxIsGreatest
  <2>3. \A y \in (j + 1) .. n : m[y].name # m[j].name
    <3> HIDE DEF j
    <3> QED
      BY <1>0, <2>2
  <2>4. j \in 1 .. n /\ m[j].name = m[i].name
    BY <2>2
  <2> HIDE DEF j
  <2>5. At(t, m[i].name) = m[j].backend
    BY <1>1, <2>3, <2>4
  <2>6. At(t, m[i].name) # NULL
    BY <1>0, <2>4, <2>5, NotABackend
  <2>7. i \in 1 .. n /\ Agree(m[i].name, name, Len(m[i].name))
    BY DEF AboveIn, n
  <2> QED
    BY <1>1, <2>6, <2>7 DEF Above
<1>4. ASSUME NEW x \in Above(t, name) PROVE \E i \in A : m[i].name = x
  <2>1. x \in DOMAIN t /\ At(t, x) # NULL /\ Agree(x, name, Len(x))
    BY DEF Above
  <2>2. At(t, x) \in {t[x].value, t[x].empty_value}
    BY <2>1 DEF At
  <2>3. PICK i \in 1 .. n : m[i].name = x
    BY <1>1, <2>1, <2>2
  <2> QED
    BY <2>1, <2>3 DEF AboveIn, n
<1>5. CASE A = {}
  BY <1>2, <1>4, <1>5
<1>6. CASE A # {}
  <2>1. r # NULL
    BY <1>2, <1>3, <1>6
  <2>2. PICK x \in Above(t, name) : Longest(x, Above(t, name)) /\ r = At(t, x)
    BY <1>2, <2>1
  <2>3. PICK i \in A : m[i].name = x
    BY <1>4
  <2>4. i \in L
    BY <1>3, <2>2, <2>3 DEF LongestIn, Longest
  <2> DEFINE j == Max(L)
  <2>5. j \in L /\ \A y \in L : y <= j
    <3> HIDE DEF L
    <3> QED
      BY <1>0, <2>4, MaxIsGreatest
  <2> HIDE DEF j, L
  <2>6. \A y \in L : y \in A /\ \A z \in A : Len(m[z].name) <= Len(m[y].name)
    BY DEF LongestIn, L
  <2>7. Len(m[j].name) = Len(m[i].name) /\ i \in 1 .. n /\ j \in 1 .. n /\ j \in A
    BY <1>0, <2>4, <2>5, <2>6
  <2>8. /\ Agree(m[j].name, name, Len(m[j].name)) /\ Agree(m[i].name, name, Len(m[i].name))
    BY <2>7 DEF AboveIn
  <2>9. m[j].name = x
    <3>1. Agree(m[j].name, m[i].name, Len(m[j].name))
      BY <1>0, <2>7, <2>8 DEF Agree
    <3> QED
      BY <1>0, <2>3, <2>7, <3>1, SameString
  <2>10. \A y \in (j + 1) .. n : m[y].name # m[j].name
    <3> SUFFICES ASSUME NEW y \in (j + 1) .. n, m[y].name = m[j].name PROVE FALSE
      OBVIOUS
    <3>1. y \in 1 .. n /\ ~(y <= j)
      BY <1>0, <2>7
    <3>2. y \in A
      BY <2>8, <3>1 DEF AboveIn, n
    <3>3. y \in L
      BY <2>5, <2>6, <3>2 DEF LongestIn, L
    <3> QED
      BY <2>5, <3>1, <3>3
  <2>11. At(t, x) = m[j].backend
    BY <1>1, <2>7, <2>9, <2>10
  <2> QED
    BY <1>6, <2>1, <2>2, <2>5, <2>11 DEF j, L
<1> QED
  BY <1>5, <1>6

\* Two histories in which the same names are above a name.
LEMMA LookupUnchanged ==
    ASSUME NEW t, NEW m \in Seq(Mounting), Mounts(t, m, Len(m)), NEW name \in Strings,
           NEW u, NEW v \in Seq(Mounting), Mounts(u, v, Len(v)),
           Len(m) <= Len(v), \A i \in 1 .. Len(m) : v[i] = m[i],
           \A i \in 1 .. Len(v) : i > Len(m) => ~Agree(v[i].name, name, Len(v[i].name))
    PROVE  elektraTriePrefixLookup(u, name) = elektraTriePrefixLookup(t, name)
<1>0. Len(m) \in Nat /\ Len(v) \in Nat
  BY LenProperties
<1>1. AboveIn(v, name) = AboveIn(m, name) /\ AboveIn(m, name) \in SUBSET (1 .. Len(m))
  <2>1. \A i : i \in AboveIn(v, name) <=> i \in AboveIn(m, name)
    BY <1>0 DEF AboveIn
  <2> QED
    BY <2>1 DEF AboveIn
<1>2. LongestIn(v, name) = LongestIn(m, name)
  <2>1. \A i \in AboveIn(m, name) : v[i] = m[i]
    BY <1>1
  <2> QED
    BY <1>1, <2>1 DEF LongestIn
<1>3. CASE AboveIn(m, name) = {}
  BY <1>1, <1>3, FoundInHistory
<1>4. CASE AboveIn(m, name) # {}
  <2> DEFINE j == Max(LongestIn(m, name))
  <2>1. elektraTriePrefixLookup(t, name) = m[j].backend /\ j \in LongestIn(m, name)
    BY <1>4, FoundInHistory
  <2>2. elektraTriePrefixLookup(u, name) = v[Max(LongestIn(v, name))].backend
    BY <1>1, <1>4, FoundInHistory
  <2>3. j \in 1 .. Len(m)
    BY <1>1, <2>1 DEF LongestIn
  <2> QED
    BY <1>2, <2>1, <2>2, <2>3
<1> QED
  BY <1>3, <1>4

-----------------------------------------------------------------------------
(* A key is above another one just if its name with a slash is a prefix *)

\* What a prefix is.
LEMMA SeqPrefix ==
    ASSUME NEW X, NEW p \in Seq(X), NEW q \in Seq(X)
    PROVE  IsPrefix(p, q) <=> Len(p) <= Len(q) /\ \A i \in 1 .. Len(p) : p[i] = q[i]
<1>0. Len(p) \in Nat /\ Len(q) \in Nat
  BY LenProperties
<1>1. ASSUME Len(p) <= Len(q) PROVE SubSeq(p, 1, Len(p)) = SubSeq(q, 1, Len(p)) <=> \A i \in 1 .. Len(p) : p[i] = q[i]
  <2> DEFINE n == Len(p)
             a == SubSeq(p, 1, n)
             b == SubSeq(q, 1, n)
  <2>1. /\ \A i \in 1 .. n : p[i] \in X
        /\ \A i \in 1 .. n : q[i] \in X
    <3>1. \A i \in 1 .. n : i \in 1 .. Len(q)
      BY <1>0, <1>1
    <3> QED
      BY <3>1, ElementOfSeq
  <2>2. n \in Int /\ 1 \in Int /\ n - 1 + 1 = n /\ (IF 1 <= n THEN n - 1 + 1 ELSE 0) = n
        /\ \A i \in 1 .. n : 1 + i - 1 = i
    BY <1>0
  <2> HIDE DEF n
  <2>3. a \in Seq(X) /\ Len(a) = (IF 1 <= n THEN n - 1 + 1 ELSE 0) /\ \A i \in 1 .. (n - 1 + 1) : a[i] = p[1 + i - 1]
    BY <2>1, <2>2, SubSeqProperties
  <2>4. b \in Seq(X) /\ Len(b) = (IF 1 <= n THEN n - 1 + 1 ELSE 0) /\ \A i \in 1 .. (n - 1 + 1) : b[i] = q[1 + i - 1]
    BY <2>1, <2>2, SubSeqProperties
  <2> HIDE DEF a, b
  <2>5. Len(a) = n /\ Len(b) = n /\ \A i \in 1 .. n : a[i] = p[i] /\ b[i] = q[i]
    BY <2>2, <2>3, <2>4
  <2>6. a = b <=> \A i \in 1 .. n : p[i] = q[i]
    <3>1. ASSUME \A i \in 1 .. n : p[i] = q[i] PROVE a = b
      <4>1. \A i \in 1 .. Len(a) : a[i] = b[i]
        BY <2>5, <3>1
      <4> QED
        BY <2>3, <2>4, <2>5, <4>1, SeqEqual
    <3> QED
      BY <2>5, <3>1
  <2> QED
    BY <2>6 DEF a, b, n
<1> QED
  BY <1>1 DEF IsPrefix

\* The parts of the paths of two names that begin alike.
LEMMA PartsAgree ==
    ASSUME NEW k \in KeyType, NEW j \in KeyType, NEW s, NEW t, NEW l, NEW o,
           Spelled(s, k, l), Spelled(t, j, o), Len(s) \in Nat, Len(t) \in Nat,
           NEW i \in 1 .. Len(k.path), i - 1 <= Len(j.path), l[i - 1] = o[i - 1], Agree(s, t, Len(s))
    PROVE  i <= Len(j.path) /\ l[i] = o[i] /\ k.path[i] = j.path[i]
<1> DEFINE p == k.path
           q == j.path
           L == l[i - 1]
<1>0. /\ Len(p) \in Nat /\ Len(q) \in Nat
      /\ \A x \in 1 .. Len(p) : p[x] \in Seq(Characters)
      /\ \A x \in 1 .. Len(q) : q[x] \in Seq(Characters)
  BY LenProperties, ElementOfSeq DEF KeyType
<1>1. /\ \A x \in 0 .. Len(p) : l[x] \in Nat /\ l[x] + 1 <= Len(s) /\ s[l[x] + 1] = "/"
      /\ \A x \in 1 .. Len(p) : l[x] = l[x - 1] + 1 + Len(p[x])
      /\ \A x \in 1 .. Len(p) : \A c \in 1 .. Len(p[x]) : s[l[x - 1] + 1 + c] = p[x][c]
      /\ Len(s) = l[Len(p)] + 1
  BY DEF Spelled
<1>2. /\ \A x \in 0 .. Len(q) : o[x] \in Nat /\ o[x] + 1 <= Len(t) /\ t[o[x] + 1] = "/"
      /\ \A x \in 1 .. Len(q) : o[x] = o[x - 1] + 1 + Len(q[x])
      /\ \A x \in 1 .. Len(q) : \A c \in 1 .. Len(q[x]) : t[o[x - 1] + 1 + c] = q[x][c]
      /\ Len(t) = o[Len(q)] + 1
  BY DEF Spelled
<1> HIDE DEF p, q
<1>3. i \in 1 .. Len(p) /\ i - 1 <= Len(q) /\ i \in 0 .. Len(p) /\ i - 1 \in 0 .. Len(p) /\ i - 1 \in 0 .. Len(q)
  BY <1>0 DEF p, q
<1>4. L \in Nat /\ L = o[i - 1] /\ l[i] \in Nat /\ l[i] + 1 <= Len(s) /\ s[l[i] + 1] = "/"
  BY <1>1, <1>3
<1> HIDE DEF L
<1>5. p[i] \in Seq(Characters) /\ Len(p[i]) \in Nat /\ l[i] = L + 1 + Len(p[i])
  BY <1>0, <1>1, <1>3, LenProperties DEF L
<1>6. Len(s) <= Len(t) /\ \A c \in 1 .. Len(s) : s[c] = t[c]
  BY DEF Agree
<1>7. i <= Len(q)
  <2>1. ASSUME i - 1 = Len(q) PROVE FALSE
    <3>1. Len(t) = L + 1
      BY <1>2, <1>4, <2>1
    <3> QED
      BY <1>4, <1>5, <1>6, <3>1, SMTT(20)
  <2> QED
    BY <1>0, <1>3, <2>1
<1>8. i \in 1 .. Len(q) /\ i \in 0 .. Len(q)
  BY <1>0, <1>3, <1>7
<1>9. /\ q[i] \in Seq(Characters) /\ Len(q[i]) \in Nat /\ o[i] = L + 1 + Len(q[i])
      /\ o[i] \in Nat /\ o[i] + 1 <= Len(t) /\ t[o[i] + 1] = "/"
  BY <1>0, <1>2, <1>4, <1>8, LenProperties
<1>10. /\ \A c \in 1 .. Len(p[i]) : s[L + 1 + c] = p[i][c]
       /\ \A c \in 1 .. Len(q[i]) : t[L + 1 + c] = q[i][c]
  BY <1>1, <1>2, <1>3, <1>4, <1>8, ZenonT(30) DEF L
<1> DEFINE a == Len(p[i])
           b == Len(q[i])
<1>11. a \in Nat /\ b \in Nat /\ l[i] = L + 1 + a /\ o[i] = L + 1 + b
  BY <1>5, <1>9
<1>12. \A c \in 1 .. a : s[L + 1 + c] \in Characters
  BY <1>5, <1>10, ElementOfSeq
<1>13. \A c \in 1 .. b : t[L + 1 + c] \in Characters
  BY <1>9, <1>10, ElementOfSeq
<1> HIDE DEF a, b
<1>14. "/" \notin Characters
  BY MountAssumption DEF MountAssumption
<1>19. /\ L \in Nat /\ l[i] \in Nat /\ o[i] \in Nat /\ Len(s) \in Nat /\ Len(t) \in Nat
       /\ l[i] + 1 <= Len(s) /\ o[i] + 1 <= Len(t) /\ Len(s) <= Len(t)
  BY <1>4, <1>6, <1>9
<1>15. ~(a < b)
  <2>1. ASSUME a < b PROVE FALSE
    <3>1. a + 1 \in 1 .. b /\ L + 1 + (a + 1) = l[i] + 1 /\ l[i] + 1 \in 1 .. Len(s)
      BY <1>11, <1>19, <2>1
    <3>2. t[l[i] + 1] \in Characters
      BY <1>13, <3>1
    <3>3. s[l[i] + 1] = t[l[i] + 1]
      BY <1>6, <3>1
    <3> QED
      BY <1>4, <1>14, <3>2, <3>3
  <2> QED
    BY <2>1
<1>16. ~(b < a)
  <2>1. ASSUME b < a PROVE FALSE
    <3>1. b + 1 \in 1 .. a /\ L + 1 + (b + 1) = o[i] + 1 /\ o[i] + 1 \in 1 .. Len(s)
      BY <1>11, <1>19, <2>1
    <3>2. s[o[i] + 1] \in Characters
      BY <1>12, <3>1
    <3>3. s[o[i] + 1] = t[o[i] + 1]
      BY <1>6, <3>1
    <3> QED
      BY <1>9, <1>14, <3>2, <3>3
  <2> QED
    BY <2>1
<1>17. a = b /\ l[i] = o[i]
  BY <1>11, <1>15, <1>16
<1>18. p[i] = q[i]
  <2>1. \A c \in 1 .. a : p[i][c] = q[i][c]
    <3> SUFFICES ASSUME NEW c \in 1 .. a PROVE p[i][c] = q[i][c]
      OBVIOUS
    <3>1. L + 1 + c \in 1 .. Len(s)
      BY <1>11, <1>19
    <3>2. s[L + 1 + c] = t[L + 1 + c]
      BY <1>6, <3>1
    <3> QED
      BY <1>10, <1>17, <3>2 DEF a, b
  <2> QED
    BY <1>5, <1>9, <1>17, <2>1, SeqEqual DEF a, b
<1> QED
  BY <1>7, <1>17, <1>18 DEF p, q

\* IsAbove, which compares parts, and the trie, which compares characters, agree.
LEMMA AboveMeans ==
    ASSUME NEW k \in KeyType, NEW j \in KeyType
    PROVE  Agree(TrieName(k), TrieName(j), Len(TrieName(k))) <=> IsAbove(k, j)
<1> DEFINE s == TrieName(k)
           t == TrieName(j)
           p == k.path
           q == j.path
           n == Len(p)
<1>0. /\ p \in Seq(Seq(Characters)) /\ q \in Seq(Seq(Characters)) /\ n \in Nat /\ Len(q) \in Nat
      /\ \A i \in 1 .. n : p[i] \in Seq(Characters) /\ Len(p[i]) \in Nat
  BY LenProperties, ElementOfSeq DEF KeyType
<1>1. PICK l : Spelled(s, k, l)
  BY TrieNameSpelled
<1>2. PICK o : Spelled(t, j, o)
  BY TrieNameSpelled
<1>3. Len(s) \in Nat /\ Len(t) \in Nat
  BY TrieNameSpelled, LengthType
<1>4. IsPrefix(p, q) <=> n <= Len(q) /\ \A i \in 1 .. n : p[i] = q[i]
  BY <1>0, SeqPrefix, ZenonT(40)
<1> HIDE DEF s, t
<1>5. ASSUME Agree(s, t, Len(s)) PROVE IsAbove(k, j)
  <2>1. k.ns = j.ns
    BY <1>5, DifferentNamespaces DEF s, t
  <2> DEFINE P == {i \in 0 .. n : i <= Len(q) /\ l[i] = o[i] /\ \A x \in 1 .. i : p[x] = q[x]}
  <2>2. 0 \in P
    BY <1>0, <1>1, <1>2, <2>1 DEF Spelled
  <2>3. ASSUME NEW i \in 1 .. n, i - 1 \in P PROVE i \in P
    <3>1. i - 1 <= Len(q) /\ l[i - 1] = o[i - 1] /\ \A x \in 1 .. (i - 1) : p[x] = q[x]
      BY <2>3
    <3>2. i <= Len(q) /\ l[i] = o[i] /\ p[i] = q[i]
      <4>1. i \in 1 .. Len(k.path) /\ i - 1 <= Len(j.path)
        BY <3>1
      <4> QED
        BY <1>1, <1>2, <1>3, <1>5, <3>1, <4>1, PartsAgree
    <3>3. \A x \in 1 .. i : x = i \/ x \in 1 .. (i - 1)
      BY <1>0
    <3>4. i \in 0 .. n
      BY <1>0
    <3> QED
      BY <3>1, <3>2, <3>3, <3>4
  <2>4. n \in P
    <3>1. \A i \in 0 .. n : i \in P
      <4> HIDE DEF P, n
      <4> QED
        BY <1>0, <2>2, <2>3, Induction
    <3> QED
      BY <1>0, <3>1
  <2> QED
    BY <1>4, <2>1, <2>4 DEF IsAbove
<1>6. ASSUME IsAbove(k, j) PROVE Agree(s, t, Len(s))
  <2>1. k.ns = j.ns /\ n <= Len(q) /\ \A i \in 1 .. n : p[i] = q[i]
    BY <1>4, <1>6 DEF IsAbove
  <2>2. /\ l[0] = Len(NamespaceName[k.ns]) /\ \A c \in 1 .. l[0] : s[c] = NamespaceName[k.ns][c]
        /\ \A x \in 0 .. n : l[x] \in Nat /\ l[x] + 1 <= Len(s) /\ s[l[x] + 1] = "/"
        /\ \A x \in 1 .. n : l[x] = l[x - 1] + 1 + Len(p[x])
        /\ \A x \in 1 .. n : \A c \in 1 .. Len(p[x]) : s[l[x - 1] + 1 + c] = p[x][c]
        /\ Len(s) = l[n] + 1
    BY <1>1 DEF Spelled
  <2>3. /\ o[0] = Len(NamespaceName[j.ns]) /\ \A c \in 1 .. o[0] : t[c] = NamespaceName[j.ns][c]
        /\ \A x \in 0 .. Len(q) : o[x] \in Nat /\ o[x] + 1 <= Len(t) /\ t[o[x] + 1] = "/"
        /\ \A x \in 1 .. Len(q) : o[x] = o[x - 1] + 1 + Len(q[x])
        /\ \A x \in 1 .. Len(q) : \A c \in 1 .. Len(q[x]) : t[o[x - 1] + 1 + c] = q[x][c]
    BY <1>2 DEF Spelled
  <2> HIDE DEF p, q, n
  <2> DEFINE P == {i \in 0 .. n : l[i] = o[i] /\ \A c \in 1 .. l[i] : s[c] = t[c]}
  <2>4. 0 \in P
    BY <1>0, <2>1, <2>2, <2>3
  <2>5. ASSUME NEW i \in 1 .. n, i - 1 \in P PROVE i \in P
    <3> DEFINE L == l[i - 1]
               a == Len(p[i])
    <3>0. i \in 0 .. n /\ i - 1 \in 0 .. n /\ i \in 1 .. Len(q) /\ i \in 0 .. Len(q) /\ i - 1 \in 0 .. Len(q)
      BY <1>0, <2>1
    <3>1. o[i - 1] = L /\ \A c \in 1 .. L : s[c] = t[c]
      BY <2>5
    <3>2. L \in Nat /\ a \in Nat /\ l[i] = L + 1 + a /\ p[i] = q[i]
      BY <1>0, <2>1, <2>2, <3>0
    <3>3. o[i] = L + 1 + a
      BY <2>3, <3>0, <3>1, <3>2
    <3>4. s[L + 1] = "/" /\ t[L + 1] = "/"
      BY <2>2, <2>3, <3>0, <3>1
    <3>5. ASSUME NEW c \in 1 .. a PROVE s[L + 1 + c] = t[L + 1 + c]
      <4>1. s[L + 1 + c] = p[i][c]
        BY <2>2
      <4>2. t[o[i - 1] + 1 + c] = q[i][c]
        BY <2>3, <3>0, <3>2
      <4> QED
        BY <3>1, <3>2, <4>1, <4>2
    <3> HIDE DEF L, a
    <3>6. ASSUME NEW c \in 1 .. l[i] PROVE s[c] = t[c]
      <4>1. CASE c \in 1 .. L
        BY <3>1, <4>1
      <4>2. CASE c = L + 1
        BY <3>4, <4>2
      <4>3. CASE c \notin 1 .. L /\ c # L + 1
        <5>1. c - L - 1 \in 1 .. a /\ L + 1 + (c - L - 1) = c
          BY <3>2, <4>3
        <5> QED
          BY <3>5, <5>1
      <4> QED
        BY <4>1, <4>2, <4>3
    <3> QED
      BY <3>0, <3>2, <3>3, <3>6
  <2>6. n \in P
    <3>1. \A i \in 0 .. n : i \in P
      <4> HIDE DEF P
      <4> QED
        BY <1>0, <2>4, <2>5, Induction
    <3> QED
      BY <1>0, <3>1
  <2>7. l[n] = o[n] /\ l[n] \in Nat /\ \A c \in 1 .. l[n] : s[c] = t[c]
    BY <1>0, <2>2, <2>6
  <2>8. n \in 0 .. n /\ n \in 0 .. Len(q)
    BY <1>0, <2>1
  <2>9. s[l[n] + 1] = t[l[n] + 1] /\ o[n] + 1 <= Len(t) /\ Len(s) = l[n] + 1
    BY <2>2, <2>3, <2>7, <2>8
  <2>10. \A c \in 1 .. Len(s) : c \in 1 .. l[n] \/ c = l[n] + 1
    BY <2>7, <2>9
  <2>11. \A c \in 1 .. Len(s) : s[c] = t[c]
    BY <2>7, <2>9, <2>10
  <2>12. Len(s) <= Len(t)
    BY <2>7, <2>9
  <2> QED
    BY <1>3, <2>11, <2>12 DEF Agree
<1> QED
  BY <1>5, <1>6 DEF s, t

\* What is mounted below system/elektra is not above it.
LEMMA ElektraIsShorter ==
    ASSUME NEW k \in KeyType, Len(k.path) > 1
    PROVE  ~Agree(TrieName(k), TrieName(SystemElektra), Len(TrieName(k)))
<1>1. SystemElektra \in KeyType /\ SystemElektra.path = <<Elektra>> /\ Len(<<Elektra>>) = 1
  BY BuiltInKeys DEF SystemElektra, Key
<1>2. k.path \in Seq(Seq(Characters)) /\ Len(k.path) \in Nat
  BY LenProperties DEF KeyType
<1>3. ~IsPrefix(k.path, SystemElektra.path)
  BY <1>1, <1>2 DEF IsPrefix
<1> QED
  BY <1>1, <1>3, AboveMeans DEF IsAbove

\* What is inserted last at a name is found there.
LEMMA LastInsertionFound ==
    ASSUME NEW t, NEW m \in Seq(Mounting), Mounts(t, m, Len(m)), Len(m) >= 1,
           NEW name \in Strings, m[Len(m)].name = name
    PROVE  elektraTriePrefixLookup(t, name) = m[Len(m)].backend
<1> DEFINE n == Len(m)
           A == AboveIn(m, name)
           L == LongestIn(m, name)
<1>0. n \in Nat /\ n \in 1 .. n /\ Len(name) \in Nat
  BY LenProperties, LengthType
<1>1. n \in A
  BY <1>0 DEF AboveIn, Agree
<1>2. \A i \in A : Len(m[i].name) <= Len(name)
  BY DEF AboveIn, Agree
<1>3. n \in L
  BY <1>1, <1>2 DEF LongestIn
<1>4. L \in SUBSET (1 .. n)
  BY DEF LongestIn, AboveIn
<1> HIDE DEF n
<1>5. /\ elektraTriePrefixLookup(t, name) = m[Max(L)].backend
      /\ Max(L) \in L /\ n <= Max(L)
  BY <1>1, <1>3, FoundInHistory
<1> HIDE DEF L
<1>6. Max(L) = n
  <2>1. Max(L) \in 1 .. n
    BY <1>4, <1>5
  <2> QED
    BY <1>0, <1>5, <2>1
<1> QED
  BY <1>5, <1>6 DEF n

-----------------------------------------------------------------------------
(* The invariant *)

\* The backends that kdbOpen() has still to mount.
Pending ==
    IF pc = "bootstrap" THEN Backends
    ELSE IF pc = "mountOpen" THEN {Configured[j] : j \in {j \in DOMAIN Configured : j >= next}} \cup BuiltIn \cup ToSet(Modules)
    ELSE IF pc = "mountDefault" THEN BuiltIn \cup ToSet(Modules)
    ELSE IF pc = "mountVersion" THEN {"version"} \cup ToSet(Modules)
    ELSE IF pc = "mountModules" THEN {Modules[j] : j \in {j \in DOMAIN Modules : \A i \in 1 .. (next - 1) : Modules[i] # Modules[j]}}
    ELSE {}

\* mountDefault has been there.
Ready == pc \in {"mountVersion", "mountModules", "open"}

\* Types, and the trie holds what the history says.
StateOK ==
    /\ pc \in {"bootstrap", "mountOpen", "mountDefault", "mountVersion", "mountModules",
               "open", "giveUp", "closed", "failed"}
    /\ config \in Seq(MountpointType) /\ Len(config) <= Len(Configured)
    /\ inFallback \in BOOLEAN /\ next \in Nat \ {0}
    /\ handle \in [default: {NULL, "default"}, init: {NULL, "init"}]
    /\ mounted \in Seq(Mounting) /\ split \in Seq(PartType)
    /\ refcounter \in [Backends -> Nat]
    /\ Mounts(trie, mounted, Len(mounted))
    /\ Ready => handle.default = "default"

\* All references are counted until kdbClose() gives them back.
CountOK ==
    IF pc \in {"closed", "failed"}
    THEN \A b \in Backends : refcounter[b] = 0 \/ Replaced(mounted, Len(mounted), b)
    ELSE Counts(refcounter, trie, mounted, handle)

\* b is not in the history m.
Unmounted(m, b) == \A i \in 1 .. Len(m) : m[i].backend # b

\* A backend that is still to be mounted is mounted nowhere.
PendingOK ==
    \A b \in Pending :
        b \in Backends /\ refcounter[b] = 0 /\ Unmounted(mounted, b) /\ handle.default # b /\ handle.init # b

\* Nobody but the init or the default backend has system/elektra.
ElektraOK ==
    Ready => trieLookup(trie, SystemElektra) \in (IF inFallback THEN {NULL, "default"} ELSE {"init"})

\* The inductive invariant of what is mounted.
MountInv == StateOK /\ CountOK /\ PendingOK /\ ElektraOK

\* The kinds of backends do not overlap.
LEMMA BackendSets ==
    /\ BuiltIn \subseteq Backends /\ ToSet(Modules) \subseteq Backends
    /\ \A j \in DOMAIN Configured : Configured[j] \in Backends /\ Configured[j] \notin BuiltIn /\ Configured[j] \notin ToSet(Modules)
    /\ \A x \in ToSet(Modules) : x \notin BuiltIn
    /\ \A j \in DOMAIN Modules : Modules[j] \in ToSet(Modules)
    /\ DOMAIN Modules = 1 .. Len(Modules) /\ DOMAIN Configured = 1 .. Len(Configured)
    /\ Len(Modules) \in Nat /\ Len(Configured) \in Nat
    /\ \A i, j \in DOMAIN Configured : Configured[i] = Configured[j] => i = j
<1>1. /\ Modules \in Seq(ToSet(Modules)) /\ Configured \in Seq(ToSet(Configured))
      /\ \A i, j \in DOMAIN Configured : Configured[i] = Configured[j] => i = j
      /\ ToSet(Modules) \cap ToSet(Configured) = {}
      /\ (ToSet(Modules) \cup ToSet(Configured)) \cap (BuiltIn \cup {NULL}) = {}
  BY MountAssumption DEF MountAssumption
<1>2. /\ DOMAIN Modules = 1 .. Len(Modules) /\ DOMAIN Configured = 1 .. Len(Configured)
      /\ Len(Modules) \in Nat /\ Len(Configured) \in Nat
  BY <1>1, LenProperties
<1>3. /\ \A j \in DOMAIN Modules : Modules[j] \in ToSet(Modules)
      /\ \A j \in DOMAIN Configured : Configured[j] \in ToSet(Configured)
  BY DEF ToSet
<1> QED
  BY <1>1, <1>2, <1>3 DEF Backends

\* A backend that is not the inserted one stays unmounted.
LEMMA StaysUnmounted ==
    ASSUME NEW m \in Seq(Mounting), NEW keys \in Seq(KeyType), NEW v, NEW b, Extends(v, m, b, keys),
           NEW c, c # b, Unmounted(m, c)
    PROVE  Unmounted(v, c)
<1>0. Len(m) \in Nat /\ Len(keys) \in Nat /\ Len(v) = Len(m) + Len(keys)
  BY LenProperties DEF Extends
<1> SUFFICES ASSUME NEW i \in 1 .. Len(v) PROVE v[i].backend # c
  BY DEF Unmounted
<1>1. CASE i \in 1 .. Len(m)
  BY <1>1 DEF Extends, Unmounted
<1>2. CASE i \notin 1 .. Len(m)
  <2>1. i - Len(m) \in 1 .. Len(keys) /\ Len(m) + (i - Len(m)) = i
    BY <1>0, <1>2
  <2>2. v[Len(m) + (i - Len(m))].backend = b
    BY <2>1 DEF Extends
  <2> QED
    BY <2>1, <2>2
<1> QED
  BY <1>1, <1>2

\* What MountAt does to the trie, the history and the counters.
Mounted(t, m, u, v, s, g, b, keys) ==
    /\ Extends(v, m, b, keys) /\ Mounts(u, v, Len(v))
    /\ Counts(s, u, v, g) /\ s \in [Backends -> Nat]

\* MountAt for a backend that is not mounted yet.
LEMMA MountAtCorrect ==
    ASSUME NEW t, NEW m \in Seq(Mounting), Mounts(t, m, Len(m)),
           NEW r, NEW h, Counts(r, t, m, h),
           NEW b \in Backends, Unmounted(m, b),
           NEW keys \in Seq(KeyType), Apart(keys),
           NEW u, u = Inserted(t, b, keys),
           NEW v, v = m \o [i \in DOMAIN keys |-> [name |-> TrieName(keys[i]), backend |-> b]],
           NEW refs \in [Backends -> Nat], NEW extra \in Nat,
           NEW s, s = [refs EXCEPT ![b] = Len(keys) + extra],
           NEW g, extra = Holders(g, b), Recounts(r, h, refs, g, b)
    PROVE  /\ Mounted(t, m, u, v, s, g, b, keys)
           /\ \A c \in Backends : c # b => s[c] = refs[c]
<1> DEFINE n == Len(keys)
<1>0. n \in Nat
  BY LenProperties
<1>1. Extends(v, m, b, keys)
  BY ExtendsProperties
<1>2. InsertsAll(t, u, v, b, n) /\ MoreReplaced(m, v)
  BY <1>1, MountAtMounts DEF Unmounted
<1>3. s \in [Backends -> Nat] /\ s[b] = n + Holders(g, b) /\ \A c \in Backends : c # b => s[c] = refs[c]
  BY <1>0
<1> HIDE DEF n
<1>4. Recounts(r, h, s, g, b)
  BY <1>3 DEF Recounts
<1>5. Counts(s, u, v, g)
  <2>1. References(s, b, n, g)
    BY <1>3 DEF References
  <2>2. Counts(r, t, m, h) /\ b \in Backends
    OBVIOUS
  <2> QED
    BY ONLY <1>0, <1>2, <1>4, <2>1, <2>2, MountAtCounts
<1> QED
  BY <1>1, <1>2, <1>3, <1>5 DEF Mounted, InsertsAll

\* kdbOpen() begins with nothing mounted.
LEMMA InitInv == Init => MountInv
<1> SUFFICES ASSUME Init PROVE MountInv
  OBVIOUS
<1> USE DEF Init
<1>0. <<>> \in Strings /\ Len(<<>>) = 0 /\ \A X : <<>> \in Seq(X)
  BY EmptySeq DEF Strings
<1>1. IsTrie(EmptyTrie)
  <2>1. DOMAIN EmptyTrie = {<<>>} /\ EmptyTrie[<<>>] = Slot(NULL, NULL)
    BY DEF EmptyTrie
  <2>2. EmptyTrie \in [DOMAIN EmptyTrie -> SlotType]
    BY DEF EmptyTrie, Slot, SlotType
  <2>3. IsFiniteSet({<<>>})
    BY FS_Singleton
  <2>4. Branching(EmptyTrie)
    BY <1>0, <2>1 DEF Branching
  <2> QED
    BY <1>0, <2>1, <2>2, <2>3, <2>4 DEF IsTrie, Slot
<1>2. Mounts(trie, mounted, Len(mounted))
  <2>1. Mounts(EmptyTrie, <<>>, 0)
    <3>1. \A n \in DOMAIN EmptyTrie : EmptyTrie[n].value = NULL /\ EmptyTrie[n].empty_value = NULL
      BY DEF EmptyTrie, Slot
    <3> QED
      BY <1>1, <3>1 DEF Mounts
  <2> QED
    BY <1>0, <2>1
<1>3. handle.default = NULL /\ handle.init = NULL /\ \A b \in Backends : b # NULL
  BY NotABackend
<1>4. CountOK
  <2>1. ASSUME NEW b \in Backends PROVE Slots(trie, b) = 0 /\ refcounter[b] = 0 /\ Holders(handle, b) = 0
    <3>1. \A i \in 1 .. Len(mounted) : mounted[i].backend # b
      BY <1>0
    <3>2. Slots(trie, b) = 0
      BY <1>2, <3>1, UnmountedSlots
    <3> QED
      BY <1>3, <3>2 DEF Holders
  <2>2. Counts(refcounter, trie, mounted, handle)
    BY <2>1 DEF Counts
  <2> QED
    BY <2>2 DEF CountOK
<1>5. StateOK
  <2>1. config \in Seq(MountpointType) /\ Len(config) <= Len(Configured)
    BY <1>0, BackendSets
  <2>2. mounted \in Seq(Mounting) /\ split \in Seq(PartType)
    BY <1>0
  <2>3. handle \in [default: {NULL, "default"}, init: {NULL, "init"}]
    <3>1. handle = [default |-> NULL, init |-> NULL]
      OBVIOUS
    <3> QED
      BY ONLY <3>1
  <2>5. refcounter \in [Backends -> Nat]
    <3>1. refcounter = [b \in Backends |-> 0]
      OBVIOUS
    <3> QED
      BY ONLY <3>1
  <2>4. inFallback \in BOOLEAN /\ next \in Nat \ {0} /\ pc = "bootstrap"
    <3>1. next = 1 /\ pc = "bootstrap"
      OBVIOUS
    <3>2. inFallback \in BOOLEAN
      BY Zenon
    <3> QED
      BY ONLY <3>1, <3>2
  <2> QED
    BY <1>2, <2>1, <2>2, <2>3, <2>4, <2>5 DEF StateOK, Ready
<1>6. PendingOK
  BY <1>0, <1>3 DEF PendingOK, Pending, Unmounted
<1> QED
  BY <1>4, <1>5, <1>6 DEF MountInv, ElektraOK, Ready

-----------------------------------------------------------------------------
(* The steps *)

\* The insertion of a backend that is still to be mounted.
LEMMA Inserting ==
    ASSUME StateOK, CountOK, PendingOK, pc \notin {"closed", "failed"},
           NEW b \in Pending, NEW keys \in Seq(KeyType), Apart(keys),
           NEW refs \in [Backends -> Nat], NEW h, MountAt(b, keys, Holders(h, b), refs),
           Recounts(refcounter, handle, refs, h, b)
    PROVE  /\ Mounted(trie, mounted, trie', mounted', refcounter', h, b, keys)
           /\ \A c \in Backends : c # b => refcounter'[c] = refs[c]
<1>1. b \in Backends /\ Unmounted(mounted, b)
  BY DEF PendingOK
<1>2. Counts(refcounter, trie, mounted, handle)
  BY DEF CountOK
<1>3. mounted \in Seq(Mounting) /\ Mounts(trie, mounted, Len(mounted))
  BY DEF StateOK
<1>4. /\ trie' = Inserted(trie, b, keys)
      /\ mounted' = mounted \o [i \in DOMAIN keys |-> [name |-> TrieName(keys[i]), backend |-> b]]
      /\ refcounter' = [refs EXCEPT ![b] = Len(keys) + Holders(h, b)]
  BY DEF MountAt
<1>5. Holders(h, b) \in Nat
  BY DEF Holders
<1> QED
  BY <1>1, <1>2, <1>3, <1>4, <1>5, MountAtCorrect

\* What it leaves to be mounted.
LEMMA StillPending ==
    ASSUME StateOK, PendingOK, NEW b, NEW keys \in Seq(KeyType), Extends(mounted', mounted, b, keys),
           \A c \in Pending' : /\ c \in Pending /\ c # b /\ refcounter'[c] = refcounter[c]
                               /\ handle'.default # c /\ handle'.init # c
    PROVE  PendingOK'
<1>1. mounted \in Seq(Mounting)
  BY DEF StateOK
<1> SUFFICES ASSUME NEW c \in Pending'
             PROVE  /\ c \in Backends /\ refcounter'[c] = 0 /\ Unmounted(mounted', c)
                    /\ handle'.default # c /\ handle'.init # c
  BY DEF PendingOK
<1>2. c # b /\ c \in Backends /\ refcounter[c] = 0 /\ Unmounted(mounted, c)
  BY DEF PendingOK
<1>3. Unmounted(mounted', c)
  BY <1>1, <1>2, StaysUnmounted
<1> QED
  BY <1>2, <1>3

\* The handle does not change, and holds nothing that is still to be mounted.
LEMMA SameHandle ==
    ASSUME StateOK, PendingOK, NEW b \in Pending
    PROVE  Holders(handle, b) = 0 /\ Recounts(refcounter, handle, refcounter, handle, b)
<1>1. Holders(handle, b) = 0
  BY DEF PendingOK, Holders
<1>2. \A c : Holders(handle, c) \in Nat
  BY DEF Holders
<1>3. \A c \in Backends : refcounter[c] \in Nat
  BY DEF StateOK
<1> QED
  BY <1>1, <1>2, <1>3 DEF Recounts

\* mountBackend: the parts that are added.
LEMMA MountBackendSplit ==
    ASSUME StateOK, NEW b \in Backends, NEW mp \in MountpointType, mountBackend(b, mp)
    PROVE  split' \in Seq(PartType)
<1> DEFINE keys == MountKeys(mp)
           q == [i \in DOMAIN keys |-> Part(b, keys[i], mp.ns = "/")]
<1>1. keys \in Seq(KeyType) /\ DOMAIN keys = 1 .. Len(keys) /\ Len(keys) \in Nat
  BY MountKeysProperties, LenProperties
<1>2. split' = split \o q
  BY DEF mountBackend
<1>3. \A i \in 1 .. Len(keys) : keys[i] \in KeyType
  BY <1>1, ElementOfSeq
<1> HIDE DEF keys
<1>4. \A k \in KeyType : Part(b, k, mp.ns = "/") \in PartType
  BY DEF Part, PartType
<1>5. q \in [1 .. Len(keys) -> PartType]
  BY <1>1, <1>3, <1>4
<1> HIDE DEF q
<1>6. q \in Seq(PartType) /\ split \in Seq(PartType)
  BY <1>1, <1>5, FunctionIsSeq DEF StateOK
<1> QED
  BY <1>2, <1>6, ConcatProperties

\* A step in which mountBackend inserts a backend that is still to be mounted.
LEMMA MountBackendStep ==
    ASSUME StateOK, CountOK, PendingOK, ElektraOK, pc \notin {"closed", "failed"}, pc' = pc \/ pc' = "mountModules",
           NEW b \in Pending, NEW mp \in MountpointType, mountBackend(b, mp),
           UNCHANGED <<config, inFallback, handle>>, next' \in Nat \ {0},
           \A c \in Pending' : c \in Pending /\ c # b,
           Ready' => Ready /\ Len(mp.path) > 1 /\ mp.ns # "/"
    PROVE  StateOK' /\ CountOK' /\ PendingOK' /\ ElektraOK'
<1> DEFINE keys == MountKeys(mp)
<1>0. b \in Backends /\ refcounter \in [Backends -> Nat] /\ mounted \in Seq(Mounting)
  BY DEF PendingOK, StateOK
<1>1. keys \in Seq(KeyType) /\ Apart(keys)
  BY MountKeysProperties
<1>2. MountAt(b, keys, 0, refcounter) /\ split' \in Seq(PartType)
  BY <1>0, MountBackendSplit DEF mountBackend
<1>3. Holders(handle, b) = 0 /\ Recounts(refcounter, handle, refcounter, handle, b)
  BY SameHandle
<1>4. Mounts(trie, mounted, Len(mounted))
  BY DEF StateOK
<1> HIDE DEF keys
<1>5. /\ Mounted(trie, mounted, trie', mounted', refcounter', handle, b, keys)
      /\ \A c \in Backends : c # b => refcounter'[c] = refcounter[c]
  BY <1>0, <1>1, <1>2, <1>3, Inserting
<1>6. /\ Extends(mounted', mounted, b, keys) /\ Mounts(trie', mounted', Len(mounted'))
      /\ Counts(refcounter', trie', mounted', handle) /\ refcounter' \in [Backends -> Nat]
  BY <1>5 DEF Mounted
<1>7. StateOK'
  <2>1. mounted' \in Seq(Mounting)
    BY <1>6 DEF Extends
  <2>2. Ready' => Ready
    OBVIOUS
  <2> QED
    BY <1>2, <1>6, <2>1, <2>2 DEF StateOK
<1>8. CountOK'
  BY <1>6 DEF CountOK
<1>9. PendingOK'
  <2>1. \A c \in Pending' : /\ c \in Pending /\ c # b /\ refcounter'[c] = refcounter[c]
                            /\ handle'.default # c /\ handle'.init # c
    BY <1>5 DEF PendingOK
  <2> QED
    BY <1>1, <1>6, <2>1, StillPending
<1>10. ElektraOK'
  <2> SUFFICES ASSUME Ready' PROVE trieLookup(trie', SystemElektra) = trieLookup(trie, SystemElektra)
    BY DEF ElektraOK
  <2>1. keys = <<mp>> /\ Len(keys) = 1 /\ mp \in KeyType
    <3>1. mp \in KeyType
      BY DEF MountpointType, KeyType
    <3> QED
      BY <3>1, MountKeysProperties DEF keys
  <2>2. ~Agree(TrieName(mp), TrieName(SystemElektra), Len(TrieName(mp)))
    BY <2>1, ElektraIsShorter
  <2>3. TrieName(SystemElektra) \in Strings
    BY BuiltInKeys, TrieNameNotEmpty
  <2>4. /\ mounted' \in Seq(Mounting) /\ Len(mounted') = Len(mounted) + 1
        /\ \A i \in 1 .. Len(mounted) : mounted'[i] = mounted[i]
        /\ mounted'[Len(mounted) + 1].name = TrieName(mp)
    BY <1>6, <2>1 DEF Extends
  <2>5. Len(mounted) \in Nat
    BY <1>0, LenProperties
  <2>6. \A i \in 1 .. Len(mounted') : i > Len(mounted) => i = Len(mounted) + 1
    BY <2>4, <2>5
  <2>7. \A i \in 1 .. Len(mounted') : i > Len(mounted)
           => ~Agree(mounted'[i].name, TrieName(SystemElektra), Len(mounted'[i].name))
    BY <2>2, <2>4, <2>6
  <2>8. Len(mounted) <= Len(mounted')
    BY <2>4, <2>5
  <2> QED
    BY <1>0, <1>4, <1>6, <2>3, <2>4, <2>7, <2>8, LookupUnchanged, ZenonT(40) DEF trieLookup
<1> QED
  BY <1>7, <1>8, <1>9, <1>10

\* The types of the parts that mountDefault adds.
LEMMA DefaultPartType ==
    ASSUME NEW t, NEW ns \in NS
    PROVE  DefaultPart(t, ns) \in Seq(PartType)
<1>1. Part("default", Root(ns), TRUE) \in PartType
  BY NotABackend, BuiltInKeys DEF Part, PartType
<1> DEFINE x == Part("default", Root(ns), TRUE)
<1>2. x \in PartType
  BY <1>1
<1> HIDE DEF x
<1>4. <<x>> \in Seq(PartType) /\ <<>> \in Seq(PartType)
  BY <1>2
<1>3. DefaultPart(t, ns) = IF BackendIn(t, Root(ns)) = "default" THEN <<x>> ELSE <<>>
  BY DEF DefaultPart, x
<1> QED
  BY <1>3, <1>4

\* So kdb->split stays a sequence of parts.
LEMMA MountDefaultSplit ==
    ASSUME StateOK, NEW k \in KeyType, NEW b \in Backends, NEW t
    PROVE  /\ split \o DefaultParts \o <<Part(b, k, TRUE)>> \in Seq(PartType)
           /\ split \o DefaultParts \o <<Part(b, k, TRUE)>> \o DefaultPart(t, "system") \in Seq(PartType)
<1>1. \A ns \in {"spec", "dir", "user"} : DefaultPart(trie, ns) \in Seq(PartType)
  BY DefaultPartType DEF NS
<1>2. DefaultParts \in Seq(PartType)
  BY <1>1, ConcatProperties DEF DefaultParts
<1>3. Part(b, k, TRUE) \in PartType
  BY DEF Part, PartType
<1>4. <<Part(b, k, TRUE)>> \in Seq(PartType)
  <2> DEFINE x == Part(b, k, TRUE)
  <2>1. x \in PartType
    BY <1>3
  <2> HIDE DEF x
  <2>2. <<x>> \in Seq(PartType)
    BY <2>1
  <2> QED
    BY <2>2 DEF x
<1>5. DefaultPart(t, "system") \in Seq(PartType) /\ split \in Seq(PartType)
  BY DefaultPartType DEF NS, StateOK
<1> DEFINE y == <<Part(b, k, TRUE)>>
           z == DefaultPart(t, "system")
<1>6. y \in Seq(PartType) /\ z \in Seq(PartType)
  BY <1>4, <1>5
<1> HIDE DEF y, z
<1>7. split \o DefaultParts \o y \in Seq(PartType)
  BY <1>2, <1>5, <1>6, ConcatProperties
<1>8. split \o DefaultParts \o y \o z \in Seq(PartType)
  BY <1>6, <1>7, ConcatProperties
<1> QED
  BY <1>7, <1>8 DEF y, z

\* mountDefault finds its backends unused.
LEMMA BeforeDefault ==
    ASSUME StateOK, CountOK, PendingOK, pc = "mountDefault"
    PROVE  /\ refcounter["default"] = 0 /\ refcounter["init"] = 0
           /\ "default" \in Pending /\ "init" \in Pending /\ "version" \in Pending /\ ToSet(Modules) \subseteq Pending
           /\ Counts(refcounter, trie, mounted, handle)
           /\ \A c \in Backends : Holders(handle, c) = 0 /\ refcounter[c] \in Nat
           /\ Slots(trie, "default") = 0
<1>1. "default" \in Pending /\ "init" \in Pending /\ "version" \in Pending /\ ToSet(Modules) \subseteq Pending
  BY DEF Pending, BuiltIn
<1>2. handle.default = NULL /\ handle.init = NULL
  BY <1>1 DEF PendingOK, StateOK
<1>3. \A c \in Backends : Holders(handle, c) = 0 /\ refcounter[c] \in Nat
  BY <1>2, NotABackend DEF Holders, StateOK
<1>4. Counts(refcounter, trie, mounted, handle)
  BY DEF CountOK
<1>5. Slots(trie, "default") = 0
  <2>1. \A i \in 1 .. Len(mounted) : mounted[i].backend # "default"
    BY <1>1 DEF PendingOK, Unmounted
  <2> QED
    BY <2>1, NotABackend, UnmountedSlots DEF StateOK
<1> QED
  BY <1>1, <1>3, <1>4, <1>5 DEF PendingOK

\* A reference of the handle to the default backend.
LEMMA CountDefault ==
    ASSUME StateOK, CountOK, PendingOK, pc = "mountDefault",
           NEW s, s \in [Backends -> Nat], NEW g, g.init = NULL, g.default \in {NULL, "default"},
           \A c \in Backends : s[c] = IF c = g.default THEN 1 ELSE refcounter[c]
    PROVE  Counts(s, trie, mounted, g)
<1> SUFFICES ASSUME NEW c \in Backends
             PROVE  /\ s[c] \in Nat /\ Slots(trie, c) \in Nat
                    /\ s[c] >= Slots(trie, c) + Holders(g, c)
                    /\ s[c] = Slots(trie, c) + Holders(g, c) \/ Replaced(mounted, Len(mounted), c)
  BY DEF Counts
<1>1. /\ refcounter["default"] = 0 /\ Slots(trie, "default") = 0 /\ Counts(refcounter, trie, mounted, handle)
      /\ Holders(handle, c) = 0
  BY BeforeDefault
<1>2. /\ refcounter[c] \in Nat /\ Slots(trie, c) \in Nat /\ refcounter[c] >= Slots(trie, c)
      /\ refcounter[c] = Slots(trie, c) \/ Replaced(mounted, Len(mounted), c)
  <2>1. /\ refcounter[c] \in Nat /\ Slots(trie, c) \in Nat /\ refcounter[c] >= Slots(trie, c) + Holders(handle, c)
        /\ refcounter[c] = Slots(trie, c) + Holders(handle, c) \/ Replaced(mounted, Len(mounted), c)
    BY <1>1 DEF Counts
  <2> QED
    BY <1>1, <2>1
<1>3. c # NULL
  BY NotABackend
<1>4. CASE c = g.default
  <2>1. c = "default" /\ s[c] = 1 /\ Holders(g, c) = 1
    BY <1>3, <1>4 DEF Holders
  <2> QED
    BY <1>1, <2>1
<1>5. CASE c # g.default
  <2>1. s[c] = refcounter[c] /\ Holders(g, c) = 0
    BY <1>3, <1>5 DEF Holders
  <2> QED
    BY <1>2, <2>1
<1> QED
  BY <1>4, <1>5

\* mountDefault inserts the init or the default backend at system/elektra.
LEMMA ElektraStep ==
    ASSUME StateOK, CountOK, PendingOK, pc = "mountDefault", pc' = "mountVersion",
           NEW b \in {"default", "init"}, NEW refs \in [Backends -> Nat], MountAt(b, <<SystemElektra>>, 1, refs),
           UNCHANGED <<config, inFallback, next>>, split' \in Seq(PartType),
           handle' \in [default: {"default"}, init: {NULL, "init"}], Holders(handle', b) = 1,
           b = "init" <=> ~inFallback, handle'.init = "init" <=> b = "init",
           \A c \in Backends : refs[c] = IF c = "default" /\ b # "default" THEN 1 ELSE refcounter[c]
    PROVE  MountInv'
<1> DEFINE keys == <<SystemElektra>>
<1>1. keys \in Seq(KeyType) /\ Len(keys) = 1 /\ keys[1] = SystemElektra /\ Apart(keys)
  BY BuiltInKeys DEF Apart
<1>2. /\ refcounter["default"] = 0 /\ b \in Pending /\ \A c \in Backends : Holders(handle, c) = 0 /\ refcounter[c] \in Nat
  BY BeforeDefault
<1>3. Recounts(refcounter, handle, refs, handle', b)
  <2> SUFFICES ASSUME NEW c \in Backends, c # b
               PROVE  refs[c] = refcounter[c] + Holders(handle', c) - Holders(handle, c)
    BY DEF Recounts
  <2>1. Holders(handle, c) = 0 /\ refcounter[c] \in Nat /\ c # NULL
    BY <1>2, NotABackend
  <2>2. handle'.default = "default" /\ handle'.init \in {NULL, "init"}
    OBVIOUS
  <2>3. CASE c = "default"
    <3>1. b # "default" /\ refs[c] = 1 /\ refcounter[c] = 0
      BY <1>2, <2>3
    <3>2. Holders(handle', c) = 1
      BY <2>2, <2>3 DEF Holders, NULL
    <3> QED
      BY <2>1, <3>1, <3>2
  <2>4. CASE c # "default"
    <3>1. refs[c] = refcounter[c]
      BY <2>4
    <3>2. Holders(handle', c) = 0
      <4>1. handle'.init # c
        <5>1. CASE b = "init"
          BY <5>1
        <5>2. CASE b = "default"
          BY <2>1, <2>2, <5>2
        <5> QED
          BY <5>1, <5>2
      <4> QED
        BY <2>2, <2>4, <4>1 DEF Holders
    <3> QED
      BY <2>1, <3>1, <3>2
  <2> QED
    BY <2>3, <2>4
<1> HIDE DEF keys
<1>4. MountAt(b, keys, 1, refs)
  BY DEF keys
<1>5. /\ Mounted(trie, mounted, trie', mounted', refcounter', handle', b, keys)
      /\ \A c \in Backends : c # b => refcounter'[c] = refs[c]
  <2>1. MountAt(b, keys, Holders(handle', b), refs)
    BY <1>4
  <2>2. /\ pc \notin {"closed", "failed"} /\ b \in Pending /\ refs \in [Backends -> Nat]
        /\ StateOK /\ CountOK /\ PendingOK
    BY <1>2
  <2> QED
    BY ONLY <1>1, <1>3, <2>1, <2>2, Inserting
<1>6. /\ Extends(mounted', mounted, b, keys) /\ Mounts(trie', mounted', Len(mounted'))
      /\ Counts(refcounter', trie', mounted', handle') /\ refcounter' \in [Backends -> Nat]
  BY <1>5 DEF Mounted
<1>7. StateOK'
  <2>1. mounted' \in Seq(Mounting)
    BY <1>6 DEF Extends
  <2>2. handle' \in [default: {NULL, "default"}, init: {NULL, "init"}] /\ handle'.default = "default"
    OBVIOUS
  <2> QED
    BY <1>6, <2>1, <2>2 DEF StateOK
<1>8. CountOK'
  BY <1>6 DEF CountOK
<1>9. PendingOK'
  <2>1. Pending' = {"version"} \cup ToSet(Modules)
    BY DEF Pending
  <2>2. \A c \in ToSet(Modules) : c \notin {"version", "default", "init"}
    BY BackendSets DEF BuiltIn
  <2>3. Pending' \subseteq Pending /\ \A c \in Pending' : c # b /\ c # "default" /\ c # "init" /\ c \in Backends /\ c # NULL
    BY <2>1, <2>2, BeforeDefault, BackendSets, NotABackend
  <2>4. \A c \in Pending' : refcounter'[c] = refcounter[c]
    BY <1>5, <2>3
  <2>5. handle'.default = "default" /\ handle'.init \in {NULL, "init"}
    OBVIOUS
  <2> QED
    BY <1>1, <1>6, <2>3, <2>4, <2>5, StillPending
<1>10. ElektraOK'
  <2> DEFINE n == Len(mounted')
  <2>1. /\ mounted' \in Seq(Mounting) /\ Len(mounted') = Len(mounted) + 1
        /\ mounted'[Len(mounted) + 1].name = TrieName(SystemElektra)
        /\ mounted'[Len(mounted) + 1].backend = b
    BY <1>1, <1>6 DEF Extends
  <2>2. Len(mounted) \in Nat
    BY LenProperties DEF StateOK
  <2>3. TrieName(SystemElektra) \in Strings
    BY BuiltInKeys, TrieNameNotEmpty
  <2>4. n >= 1 /\ mounted'[n].name = TrieName(SystemElektra) /\ mounted'[n].backend = b
    BY <2>1, <2>2
  <2>5. trieLookup(trie', SystemElektra) = b
    <3>1. elektraTriePrefixLookup(trie', TrieName(SystemElektra)) = mounted'[n].backend
      BY <1>6, <2>1, <2>3, <2>4, LastInsertionFound
    <3> QED
      BY <2>4, <3>1 DEF trieLookup
  <2> QED
    BY <2>5 DEF ElektraOK
<1> QED
  BY <1>7, <1>8, <1>9, <1>10 DEF MountInv

\* The actions, one by one.
LEMMA BootstrapKeeps ==
    ASSUME MountInv, elektraOpenBootstrap \/ elektraOpenBootstrapFail
    PROVE  MountInv'
<1> USE DEF MountInv
<1>1. pc = "bootstrap" /\ UNCHANGED <<next, trie, split, refcounter, handle, mounted>>
  BY DEF elektraOpenBootstrap, elektraOpenBootstrapFail
<1>2. Pending = Backends
  BY <1>1 DEF Pending
<1>3. CASE elektraOpenBootstrap
  <2>1. pc' = "mountOpen" /\ config' \in Configs /\ inFallback' \in BOOLEAN
    BY <1>3 DEF elektraOpenBootstrap
  <2>2. config' \in Seq(MountpointType) /\ Len(config') <= Len(Configured)
    <3>1. config' \in Seq(Parents) /\ Len(config') <= Len(Configured)
      BY <2>1, MountAssumption DEF MountAssumption
    <3>2. Parents \subseteq MountpointType
      BY MountAssumption DEF MountAssumption, Parents, MountpointType
    <3> QED
      BY <3>1, <3>2
  <2>3. StateOK' /\ CountOK'
    BY <1>1, <2>1, <2>2 DEF StateOK, CountOK, Ready
  <2>4. Pending' \subseteq Backends
    BY <2>1, BackendSets DEF Pending
  <2>5. PendingOK'
    BY <1>1, <1>2, <2>4 DEF PendingOK
  <2> QED
    BY <2>1, <2>3, <2>5 DEF ElektraOK, Ready
<1>4. CASE elektraOpenBootstrapFail
  <2>1. pc' = "failed" /\ UNCHANGED <<config, inFallback>>
    BY <1>4 DEF elektraOpenBootstrapFail
  <2>2. CountOK'
    BY <1>1, <1>2, <2>1 DEF CountOK, PendingOK
  <2>3. PendingOK'
    BY <2>1 DEF PendingOK, Pending
  <2>4. StateOK'
    BY <1>1, <2>1 DEF StateOK, Ready
  <2> QED
    BY <2>1, <2>2, <2>3, <2>4 DEF ElektraOK, Ready
<1> QED
  BY <1>3, <1>4

\* The entries of the configuration that are left.
LEMMA PendingEntries ==
    ASSUME StateOK, pc = "mountOpen", next <= Len(config)
    PROVE  /\ next \in DOMAIN Configured /\ Configured[next] \in Pending
           /\ pc' = "mountOpen" /\ next' = next + 1 => \A c \in Pending' : c \in Pending /\ c # Configured[next]
<1> DEFINE Rest(i) == {Configured[j] : j \in {j \in DOMAIN Configured : j >= i}}
<1>1. next \in Nat \ {0} /\ Len(config) <= Len(Configured) /\ Len(config) \in Nat
  BY LenProperties DEF StateOK
<1>2. next \in DOMAIN Configured
  BY <1>1, BackendSets
<1>3. Pending = Rest(next) \cup BuiltIn \cup ToSet(Modules)
  BY DEF Pending
<1>4. Configured[next] \in Rest(next)
  BY <1>1, <1>2
<1>5. ASSUME pc' = "mountOpen", next' = next + 1, NEW c \in Pending'
      PROVE  c \in Pending /\ c # Configured[next]
  <2>1. Pending' = Rest(next + 1) \cup BuiltIn \cup ToSet(Modules)
    BY <1>5 DEF Pending
  <2>2. CASE c \in Rest(next + 1)
    <3>1. PICK j \in DOMAIN Configured : j >= next + 1 /\ c = Configured[j]
      BY <2>2
    <3>2. j >= next /\ j # next
      BY <1>1, <3>1, BackendSets
    <3> QED
      BY <1>2, <1>3, <3>1, <3>2, BackendSets
  <2>3. CASE c \in BuiltIn \cup ToSet(Modules)
    BY <1>2, <1>3, <2>3, BackendSets
  <2> QED
    BY <2>1, <2>2, <2>3
<1> HIDE DEF Rest
<1> QED
  BY <1>2, <1>3, <1>4, <1>5

\* One entry of the configuration.
LEMMA MountOpenKeeps ==
    ASSUME MountInv, mountOpen \/ mountOpenSkip \/ mountOpenEnd
    PROVE  MountInv'
<1> USE DEF MountInv
<1>1. CASE mountOpen
  <2>1. /\ pc = "mountOpen" /\ next <= Len(config) /\ pc' = pc /\ next' = next + 1
        /\ mountBackend(Configured[next], config[next])
        /\ UNCHANGED <<config, inFallback, handle>>
    BY <1>1 DEF mountOpen
  <2>2. Configured[next] \in Pending /\ \A c \in Pending' : c \in Pending /\ c # Configured[next]
    BY <2>1, PendingEntries
  <2>3. config[next] \in MountpointType /\ next' \in Nat \ {0}
    <3>1. config \in Seq(MountpointType) /\ Len(config) \in Nat /\ next \in Nat \ {0}
      BY LenProperties DEF StateOK
    <3>2. next \in 1 .. Len(config)
      BY <2>1, <3>1
    <3> QED
      BY <2>1, <3>1, <3>2, ElementOfSeq
  <2>4. ~Ready' /\ pc \notin {"closed", "failed"}
    BY <2>1 DEF Ready
  <2> QED
    BY <2>1, <2>2, <2>3, <2>4, MountBackendStep
<1>2. CASE mountOpenSkip
  <2>1. /\ pc = "mountOpen" /\ next <= Len(config) /\ pc' = pc /\ next' = next + 1
        /\ UNCHANGED <<config, inFallback, trie, split, refcounter, handle, mounted>>
    BY <1>2 DEF mountOpenSkip
  <2>2. \A c \in Pending' : c \in Pending
    BY <2>1, PendingEntries
  <2>3. next' \in Nat \ {0}
    BY <2>1 DEF StateOK
  <2>4. StateOK' /\ CountOK'
    BY <2>1, <2>3 DEF StateOK, CountOK, Ready
  <2>5. PendingOK'
    BY <2>1, <2>2 DEF PendingOK
  <2> QED
    BY <2>1, <2>4, <2>5 DEF ElektraOK, Ready
<1>3. CASE mountOpenEnd
  <2>1. /\ pc = "mountOpen" /\ pc' = "mountDefault" /\ next' = 1
        /\ UNCHANGED <<config, inFallback, trie, split, refcounter, handle, mounted>>
    BY <1>3 DEF mountOpenEnd
  <2>2. \A c \in Pending' : c \in Pending
    BY <2>1 DEF Pending
  <2>4. StateOK' /\ CountOK'
    BY <2>1 DEF StateOK, CountOK, Ready
  <2>5. PendingOK'
    BY <2>1, <2>2 DEF PendingOK
  <2> QED
    BY <2>1, <2>4, <2>5 DEF ElektraOK, Ready
<1> QED
  BY <1>1, <1>2, <1>3

\* mountDefault.
LEMMA MountDefaultKeeps ==
    ASSUME MountInv, mountDefault
    PROVE  MountInv'
<1> USE DEF MountInv
<1>1. /\ pc = "mountDefault" /\ pc' = "mountVersion" /\ UNCHANGED <<config, inFallback, next>>
      /\ handle' = [default |-> "default", init |-> IF inFallback THEN NULL ELSE "init"]
  BY DEF mountDefault
<1>2. handle' \in [default: {"default"}, init: {NULL, "init"}]
  BY <1>1
<1>3. SystemElektra \in KeyType /\ Root("system") \in KeyType /\ "default" \in Backends /\ "init" \in Backends
  BY BuiltInKeys, NotABackend DEF NS
<1>4. refcounter \in [Backends -> Nat]
  BY DEF StateOK
<1>5. /\ \A k \in KeyType, b \in Backends : split \o DefaultParts \o <<Part(b, k, TRUE)>> \in Seq(PartType)
      /\ \A k \in KeyType, b \in Backends :
            split \o DefaultParts \o <<Part(b, k, TRUE)>> \o DefaultPart(trie', "system") \in Seq(PartType)
  BY MountDefaultSplit
<1>6. CASE ~inFallback
  <2>1. /\ MountAt("init", <<SystemElektra>>, 1, [refcounter EXCEPT !["default"] = 1])
        /\ split' = split \o DefaultParts \o <<Part("init", SystemElektra, TRUE)>> \o DefaultPart(trie', "system")
    BY <1>6 DEF mountDefault, mountInit
  <2> DEFINE refs == [refcounter EXCEPT !["default"] = 1]
  <2>2. refs \in [Backends -> Nat] /\ \A c \in Backends : refs[c] = IF c = "default" THEN 1 ELSE refcounter[c]
    BY <1>3, <1>4
  <2>3. MountAt("init", <<SystemElektra>>, 1, refs)
    BY <2>1
  <2> HIDE DEF refs
  <2>4. handle'.default = "default" /\ handle'.init = "init"
    BY <1>1, <1>6
  <2>5. Holders(handle', "init") = 1
    BY <2>4 DEF Holders
  <2>6. split' \in Seq(PartType)
    BY <1>3, <1>5, <2>1
  <2>7. "init" # "default"
    OBVIOUS
  <2> QED
    BY <1>1, <1>2, <1>6, <2>2, <2>3, <2>4, <2>5, <2>6, <2>7, ElektraStep
<1>7. CASE inFallback /\ BackendIn(trie, SystemElektra) # "default"
  <2>1. /\ MountAt("default", <<SystemElektra>>, 1, refcounter)
        /\ split' = split \o DefaultParts \o <<Part("default", SystemElektra, TRUE)>>
    BY <1>7 DEF mountDefault, mountFallback
  <2>4. handle'.default = "default" /\ handle'.init = NULL /\ NULL # "init"
    BY <1>1, <1>7 DEF NULL
  <2>5. Holders(handle', "default") = 1
    BY <2>4 DEF Holders, NULL
  <2>6. split' \in Seq(PartType)
    BY <1>3, <1>5, <2>1
  <2>7. "init" # "default"
    OBVIOUS
  <2> QED
    BY <1>1, <1>2, <1>4, <1>7, <2>1, <2>4, <2>5, <2>6, <2>7, ElektraStep
<1>8. CASE inFallback /\ BackendIn(trie, SystemElektra) = "default"
  <2>1. /\ split' = split \o DefaultParts \o <<Part("default", Root("system"), TRUE)>>
        /\ refcounter' = [refcounter EXCEPT !["default"] = 1]
        /\ UNCHANGED <<trie, mounted>>
    BY <1>8 DEF mountDefault, mountFallback
  <2>2. handle'.default = "default" /\ handle'.init = NULL /\ handle' \in [default: {NULL, "default"}, init: {NULL, "init"}]
    BY <1>1, <1>8
  <2>3. /\ refcounter' \in [Backends -> Nat]
        /\ \A c \in Backends : refcounter'[c] = IF c = handle'.default THEN 1 ELSE refcounter[c]
    BY <1>3, <1>4, <2>1, <2>2
  <2>4. Counts(refcounter', trie, mounted, handle')
    BY <1>1, <2>2, <2>3, CountDefault
  <2>5. CountOK'
    BY <1>1, <2>1, <2>4 DEF CountOK
  <2>6. split' \in Seq(PartType)
    BY <1>3, <1>5, <2>1
  <2>7. StateOK'
    BY <1>1, <2>1, <2>2, <2>3, <2>6 DEF StateOK
  <2>8. PendingOK'
    <3>1. Pending' = {"version"} \cup ToSet(Modules)
      BY <1>1 DEF Pending
    <3>2. \A c \in ToSet(Modules) : c \notin {"version", "default", "init"}
      BY BackendSets DEF BuiltIn
    <3>3. Pending' \subseteq Pending /\ \A c \in Pending' : c # "default" /\ c \in Backends /\ c # NULL
      BY <1>1, <3>1, <3>2, BeforeDefault, BackendSets, NotABackend
    <3>4. ASSUME NEW c \in Pending' PROVE c \in Backends /\ refcounter'[c] = 0 /\ Unmounted(mounted', c)
                                          /\ handle'.default # c /\ handle'.init # c
      <4>1. c \in Pending /\ c # "default" /\ c \in Backends /\ c # NULL
        BY <3>3, <3>4
      <4> QED
        BY <2>1, <2>2, <2>3, <4>1 DEF PendingOK
    <3> QED
      BY <3>4 DEF PendingOK
  <2>9. ElektraOK'
    BY <1>1, <1>8, <2>1 DEF ElektraOK, BackendIn
  <2> QED
    BY <2>5, <2>7, <2>8, <2>9
<1> QED
  BY <1>6, <1>7, <1>8

\* A mountDefault that fails.
LEMMA MountDefaultFailKeeps ==
    ASSUME MountInv, NEW default \in {NULL, "default"}, mountDefaultFail(default)
    PROVE  MountInv'
<1> USE DEF MountInv
<1>1. /\ pc = "mountDefault" /\ pc' = "giveUp" /\ UNCHANGED <<config, inFallback, next, trie, split, mounted>>
      /\ handle' = [handle EXCEPT !.default = default]
      /\ refcounter' = [b \in Backends |-> IF b = default THEN 1 ELSE refcounter[b]]
  BY DEF mountDefaultFail
<1>2. handle \in [default: {NULL, "default"}, init: {NULL, "init"}] /\ refcounter \in [Backends -> Nat]
  BY DEF StateOK
<1>3. handle.init = NULL
  BY <1>1, <1>2, BeforeDefault DEF PendingOK
<1>4. handle'.default = default /\ handle'.init = NULL /\ handle' \in [default: {NULL, "default"}, init: {NULL, "init"}]
  BY <1>1, <1>2, <1>3
<1>5. /\ refcounter' \in [Backends -> Nat]
      /\ \A c \in Backends : refcounter'[c] = IF c = handle'.default THEN 1 ELSE refcounter[c]
  BY <1>1, <1>2, <1>4
<1>6. Counts(refcounter', trie, mounted, handle')
  BY <1>1, <1>4, <1>5, CountDefault
<1>7. CountOK'
  BY <1>1, <1>6 DEF CountOK
<1>8. StateOK'
  BY <1>1, <1>4, <1>5 DEF StateOK, Ready
<1>9. PendingOK' /\ ElektraOK'
  BY <1>1 DEF PendingOK, Pending, ElektraOK, Ready
<1> QED
  BY <1>7, <1>8, <1>9

\* mountVersion.
LEMMA MountVersionKeeps ==
    ASSUME MountInv, mountVersion
    PROVE  MountInv'
<1> USE DEF MountInv
<1> DEFINE mp == Key("system", <<Elektra, Version>>)
<1>1. /\ pc = "mountVersion" /\ pc' = "mountModules" /\ mountBackend("version", mp)
      /\ UNCHANGED <<config, inFallback, next, handle>>
  BY DEF mountVersion
<1>2. mp \in MountpointType /\ Len(mp.path) > 1 /\ mp.ns # "/"
  BY BuiltInKeys DEF Key, KeyType, MountpointType
<1> HIDE DEF mp
<1>3. "version" \in Pending
  BY <1>1 DEF Pending
<1>4. \A c \in Pending' : c \in Pending /\ c # "version"
  <2>1. Pending' \subseteq ToSet(Modules)
    BY <1>1, BackendSets DEF Pending
  <2>2. Pending = {"version"} \cup ToSet(Modules)
    BY <1>1 DEF Pending
  <2> QED
    BY <2>1, <2>2, BackendSets DEF BuiltIn
<1>5. next' \in Nat \ {0} /\ Ready /\ pc \notin {"closed", "failed"}
  BY <1>1 DEF StateOK, Ready
<1> QED
  BY <1>1, <1>2, <1>3, <1>4, <1>5, MountBackendStep

\* The modules that are left.
LEMMA PendingModules ==
    ASSUME StateOK, pc = "mountModules", pc' = pc, next <= Len(Modules), next' = next + 1
    PROVE  /\ \A c \in Pending' : c \in Pending /\ c # Modules[next]
           /\ ~(\E i \in 1 .. (next - 1) : Modules[i] = Modules[next]) => Modules[next] \in Pending
<1> DEFINE x == Modules[next]
           Fresh(i, j) == \A l \in 1 .. (i - 1) : Modules[l] # Modules[j]
           Left(i) == {Modules[j] : j \in {j \in DOMAIN Modules : Fresh(i, j)}}
<1>0. next \in Nat \ {0} /\ next \in DOMAIN Modules
  BY BackendSets DEF StateOK
<1>1. Pending = Left(next) /\ Pending' = Left(next + 1)
  BY DEF Pending
<1>2. \A c \in Left(next + 1) : c \in Left(next) /\ c # x
  <2> SUFFICES ASSUME NEW c \in Left(next + 1) PROVE c \in Left(next) /\ c # x
    OBVIOUS
  <2> HIDE DEF Fresh
  <2>1. PICK j \in DOMAIN Modules : c = Modules[j] /\ Fresh(next + 1, j)
    OBVIOUS
  <2>2. next \in 1 .. ((next + 1) - 1) /\ \A l \in 1 .. (next - 1) : l \in 1 .. ((next + 1) - 1)
    BY <1>0
  <2>3. Fresh(next, j) /\ Modules[next] # Modules[j]
    BY <2>1, <2>2 DEF Fresh
  <2> QED
    BY <2>1, <2>3
<1> QED
  BY <1>0, <1>1, <1>2

\* One module.
LEMMA MountModulesKeeps ==
    ASSUME MountInv, mountModules \/ mountModulesEnd
    PROVE  MountInv'
<1> USE DEF MountInv
<1>0. next \in Nat \ {0}
  BY DEF StateOK
<1>1. CASE mountModules
  <2> DEFINE x == Modules[next]
             mp == Key("system", <<Elektra, Module, <<x>>>>)
             again == \E i \in 1 .. (next - 1) : Modules[i] = Modules[next]
  <2>1. /\ pc = "mountModules" /\ next <= Len(Modules) /\ pc' = pc /\ next' = next + 1
        /\ UNCHANGED <<config, inFallback, handle>>
        /\ IF again THEN UNCHANGED <<trie, split, refcounter, mounted>> ELSE mountBackend(x, mp)
    BY <1>1 DEF mountModules
  <2>2. next \in DOMAIN Modules /\ x \in ToSet(Modules)
    BY <1>0, <2>1, BackendSets
  <2>3. (\A c \in Pending' : c \in Pending /\ c # x) /\ (~again => x \in Pending)
    BY <2>1, PendingModules
  <2>5. next' \in Nat \ {0} /\ Ready /\ pc \notin {"closed", "failed"}
    BY <1>0, <2>1 DEF Ready
  <2>6. CASE again
    <3>1. UNCHANGED <<config, inFallback, trie, split, refcounter, handle, mounted>> /\ pc' = pc
      BY <2>1, <2>6
    <3>2. \A c \in Pending' : c \in Pending
      BY <2>3
    <3>3. StateOK' /\ CountOK' /\ ElektraOK'
      BY <2>5, <3>1 DEF StateOK, CountOK, ElektraOK, Ready
    <3> QED
      BY <3>1, <3>2, <3>3 DEF PendingOK
  <2>7. CASE ~again
    <3>1. mountBackend(x, mp) /\ x \in Pending
      BY <2>1, <2>3, <2>7
    <3>2. mp \in MountpointType /\ Len(mp.path) > 1 /\ mp.ns # "/"
      <4>1. mp \in KeyType
        BY <2>2, BuiltInKeys
      <4>2. mp.ns = "system" /\ Len(mp.path) = 3
        <5> HIDE DEF x
        <5> QED
          BY DEF Key
      <4> HIDE DEF mp
      <4> QED
        BY <4>1, <4>2 DEF KeyType, MountpointType
    <3> HIDE DEF mp, x
    <3> QED
      BY <2>1, <2>3, <2>5, <3>1, <3>2, MountBackendStep
  <2> QED
    BY <2>6, <2>7
<1>2. CASE mountModulesEnd
  <2>1. /\ pc = "mountModules" /\ pc' = "open"
        /\ UNCHANGED <<config, inFallback, next, trie, split, refcounter, handle, mounted>>
    BY <1>2 DEF mountModulesEnd
  <2>2. StateOK' /\ CountOK' /\ ElektraOK'
    BY <2>1 DEF StateOK, CountOK, ElektraOK, Ready
  <2>3. PendingOK'
    BY <2>1 DEF PendingOK, Pending
  <2> QED
    BY <2>2, <2>3
<1> QED
  BY <1>1, <1>2

\* kdbClose() gives back what trie and handle hold.
LEMMA KdbCloseKeeps ==
    ASSUME MountInv, kdbClose
    PROVE  MountInv'
<1> USE DEF MountInv
<1>1. /\ pc \in {"open", "giveUp"} /\ pc' \in {"closed", "failed"}
      /\ UNCHANGED <<config, inFallback, next, trie, split, handle, mounted>>
      /\ refcounter' = [b \in Backends |-> refcounter[b] - Slots(trie, b)
                                            - (IF handle.default = b THEN 1 ELSE 0)
                                            - (IF handle.init = b THEN 1 ELSE 0)]
  BY DEF kdbClose
<1>2. Counts(refcounter, trie, mounted, handle)
  BY <1>1 DEF CountOK
<1>3. ASSUME NEW b \in Backends
      PROVE  refcounter'[b] \in Nat /\ (refcounter'[b] = 0 \/ Replaced(mounted, Len(mounted), b))
  <2> DEFINE x == IF handle.default = b THEN 1 ELSE 0
             y == IF handle.init = b THEN 1 ELSE 0
  <2>1. /\ refcounter[b] \in Nat /\ Slots(trie, b) \in Nat
        /\ refcounter[b] >= Slots(trie, b) + (x + y)
        /\ refcounter[b] = Slots(trie, b) + (x + y) \/ Replaced(mounted, Len(mounted), b)
    BY <1>2 DEF Counts, Holders
  <2>2. refcounter'[b] = refcounter[b] - Slots(trie, b) - x - y /\ x \in Nat /\ y \in Nat
    BY <1>1
  <2> HIDE DEF x, y
  <2> QED
    BY <2>1, <2>2
<1>4. refcounter' \in [Backends -> Nat]
  BY <1>1, <1>3
<1>5. StateOK'
  BY <1>1, <1>4 DEF StateOK, Ready
<1>6. CountOK'
  BY <1>1, <1>3 DEF CountOK
<1>7. PendingOK' /\ ElektraOK'
  BY <1>1 DEF PendingOK, Pending, ElektraOK, Ready
<1> QED
  BY <1>5, <1>6, <1>7

\* All actions.
LEMMA StepKeeps == MountInv /\ [Next]_vars => MountInv'
<1> SUFFICES ASSUME MountInv, [Next]_vars PROVE MountInv'
  OBVIOUS
<1>1. CASE elektraOpenBootstrap \/ elektraOpenBootstrapFail
  BY <1>1, BootstrapKeeps
<1>2. CASE mountOpen \/ mountOpenSkip \/ mountOpenEnd
  BY <1>2, MountOpenKeeps
<1>3. CASE mountDefault
  BY <1>3, MountDefaultKeeps
<1>4. CASE \E default \in {NULL, "default"} : mountDefaultFail(default)
  BY <1>4, MountDefaultFailKeeps
<1>5. CASE mountVersion
  BY <1>5, MountVersionKeeps
<1>6. CASE mountModules \/ mountModulesEnd
  BY <1>6, MountModulesKeeps
<1>7. CASE kdbClose
  BY <1>7, KdbCloseKeeps
<1>8. CASE UNCHANGED vars
  BY <1>8 DEF vars, MountInv, StateOK, CountOK, PendingOK, ElektraOK, Ready, Pending
<1> QED
  BY <1>1, <1>2, <1>3, <1>4, <1>5, <1>6, <1>7, <1>8 DEF Next, kdbOpen

\* The invariant of what is mounted.
LEMMA Invariance == Spec => []MountInv
  BY InitInv, StepKeeps, PTL DEF Spec

-----------------------------------------------------------------------------
(* The theorems *)

\* Every operation of kdbOpen() and kdbClose() keeps the counters natural, the
\* handle on the built-in backends and the parts of kdb->split well formed: no
\* backend is closed more often than it is referenced (backendClose asserts it).
THEOREM TypesStay == Spec => []MountTypeOK
<1>1. MountInv => MountTypeOK
  BY DEF MountInv, StateOK, MountTypeOK, PartType, KeyType
<1> QED
  BY <1>1, Invariance, PTL

\* mountGetBackend: whatever is mounted and in whatever order, a key belongs to
\* the backend with the longest mountpoint above it, and to the default backend
\* if there is none.
THEOREM SpecLongestMountpoint == Spec => []LongestMountpoint
<1>1. MountInv => LongestMountpoint
  <2> SUFFICES ASSUME MountInv, NEW k \in AllKeys
               PROVE  LET name == TrieName(k)
                          above == {i \in DOMAIN mounted : IsPrefix(mounted[i].name, name)}
                          longest == {i \in above : \A j \in above : Len(mounted[j].name) <= Len(mounted[i].name)}
                      IN mountGetBackend(k) = IF above = {} THEN handle.default ELSE mounted[Max(longest)].backend
    BY DEF LongestMountpoint
  <2> DEFINE name == TrieName(k)
             above == {i \in DOMAIN mounted : IsPrefix(mounted[i].name, name)}
             longest == {i \in above : \A j \in above : Len(mounted[j].name) <= Len(mounted[i].name)}
  <2>1. mounted \in Seq(Mounting) /\ Mounts(trie, mounted, Len(mounted)) /\ DOMAIN mounted = 1 .. Len(mounted)
    BY LenProperties DEF MountInv, StateOK
  <2>2. k \in KeyType /\ name \in Strings
    <3>1. k \in KeyType
      BY MountAssumption DEF MountAssumption, AllKeys, KeyType
    <3> QED
      BY <3>1, TrieNameNotEmpty
  <2>3. \A i \in 1 .. Len(mounted) : mounted[i].name \in Strings /\ mounted[i].backend \in Backends
    <3>1. \A i \in 1 .. Len(mounted) : mounted[i] \in Mounting
      BY <2>1, ElementOfSeq
    <3> QED
      BY <3>1 DEF Mounting
  <2> HIDE DEF name
  <2>4. above = AboveIn(mounted, name)
    BY <2>1, <2>2, <2>3, PrefixMeans DEF AboveIn
  <2>5. longest = LongestIn(mounted, name)
    BY <2>4 DEF LongestIn
  <2>6. /\ trieLookup(trie, k) = NULL <=> AboveIn(mounted, name) = {}
        /\ AboveIn(mounted, name) # {} => trieLookup(trie, k) = mounted[Max(LongestIn(mounted, name))].backend
    BY <2>1, <2>2, FoundInHistory DEF trieLookup, name
  <2> HIDE DEF above, longest
  <2>7. mountGetBackend(k) = IF above = {} THEN handle.default ELSE mounted[Max(longest)].backend
    BY <2>4, <2>5, <2>6 DEF mountGetBackend
  <2> QED
    BY <2>7 DEF above, longest, name
<1> QED
  BY <1>1, Invariance, PTL

\* mountDefault, mountVersion and mountModules: whatever the configuration
\* mounts, system/elektra itself stays with the init or the default backend.
THEOREM SpecElektraStaysReachable == Spec => []ElektraStaysReachable
<1>1. MountInv => ElektraStaysReachable
  BY NULL # "init" DEF MountInv, StateOK, ElektraOK, Ready, ElektraStaysReachable, mountGetBackend, NULL
<1> QED
  BY <1>1, Invariance, PTL

\* kdbClose, also after a kdbOpen that gives up: a backend that no other one
\* has replaced in the trie has no reference left.
THEOREM SpecAllReleased == Spec => []AllReleased
<1>1. MountInv => AllReleased
  <2>1. MountInv => DOMAIN mounted = 1 .. Len(mounted)
    BY LenProperties DEF MountInv, StateOK
  <2> QED
    BY <2>1 DEF MountInv, CountOK, AllReleased, Replaced
<1> QED
  BY <1>1, Invariance, PTL

-----------------------------------------------------------------------------
(* The parts of kdb->split *)

\* The parts of two sequences of parts.
LEMMA ToSetConcat ==
    ASSUME NEW X, NEW s \in Seq(X), NEW q \in Seq(X)
    PROVE  ToSet(s \o q) = ToSet(s) \cup ToSet(q) /\ s \o q \in Seq(X)
<1>0. /\ Len(s) \in Nat /\ Len(q) \in Nat /\ DOMAIN s = 1 .. Len(s) /\ DOMAIN q = 1 .. Len(q)
      /\ s \o q \in Seq(X) /\ Len(s \o q) = Len(s) + Len(q)
      /\ \A i \in 1 .. Len(s) + Len(q) : (s \o q)[i] = IF i <= Len(s) THEN s[i] ELSE q[i - Len(s)]
  BY LenProperties, ConcatProperties
<1>1. DOMAIN (s \o q) = 1 .. Len(s) + Len(q)
  BY <1>0, LenProperties
<1> DEFINE z == s \o q
<1>2. /\ DOMAIN z = 1 .. Len(s) + Len(q)
      /\ \A i \in 1 .. Len(s) + Len(q) : z[i] = IF i <= Len(s) THEN s[i] ELSE q[i - Len(s)]
  BY <1>0, <1>1
<1> HIDE DEF z
<1>3. ASSUME NEW i \in DOMAIN z PROVE z[i] \in ToSet(s) \cup ToSet(q)
  <2>1. i <= Len(s) \/ i - Len(s) \in DOMAIN q
    BY <1>0, <1>2
  <2>2. i <= Len(s) => i \in DOMAIN s /\ z[i] = s[i]
    BY <1>0, <1>2
  <2>3. ~(i <= Len(s)) => z[i] = q[i - Len(s)]
    BY <1>2
  <2> QED
    BY <2>1, <2>2, <2>3 DEF ToSet
<1>4. ASSUME NEW i \in DOMAIN s PROVE s[i] \in ToSet(z)
  <2>1. i \in DOMAIN z /\ z[i] = s[i]
    BY <1>0, <1>2
  <2> QED
    BY <2>1 DEF ToSet
<1>5. ASSUME NEW i \in DOMAIN q PROVE q[i] \in ToSet(z)
  <2>1. Len(s) + i \in DOMAIN z /\ ~(Len(s) + i <= Len(s)) /\ Len(s) + i - Len(s) = i
    BY <1>0, <1>2
  <2>2. z[Len(s) + i] = q[i]
    BY <1>0, <1>2, <2>1
  <2> QED
    BY <2>1, <2>2 DEF ToSet
<1>6. ToSet(z) = ToSet(s) \cup ToSet(q)
  BY <1>3, <1>4, <1>5 DEF ToSet
<1> QED
  BY <1>0, <1>6 DEF z

\* One part, and none.
LEMMA ToSetSingle == \A x : ToSet(<<x>>) = {x} /\ ToSet(<<>>) = {}
  BY DEF ToSet

\* A part of b at the mountpoint of the name n.
HasPart(S, n, b) == \E s \in S : s.backend = b /\ TrieName(s.parent) = n

\* Two parts of one backend are for different namespaces, and know it.
PartsApart(S) ==
    \A s, x \in S : s.backend = x.backend /\ s # x => s.cascading /\ x.cascading /\ s.parent.ns # x.parent.ns

\* No part belongs to a backend that is still to be mounted.
NoneAhead == \A s \in ToSet(split) : s.backend \notin Pending

\* Each insertion into the trie has its part.
EachHasPart == \A i \in 1 .. Len(mounted) : HasPart(ToSet(split), mounted[i].name, mounted[i].backend)

\* The default backend has a part for each namespace whose root is not mounted.
RootsHaveParts ==
    Ready /\ (inFallback => ElektraIsFree) =>
        \A ns \in NS : trieLookup(trie, Root(ns)) = NULL => Part("default", Root(ns), TRUE) \in ToSet(split)

\* Until the default backend comes, only what the configuration says is mounted.
FromConfig ==
    pc \in {"mountOpen", "mountDefault"} =>
        \A i \in 1 .. Len(mounted) : \E j \in 1 .. Len(config) :
            \E l \in 1 .. Len(MountKeys(config[j])) : mounted[i].name = TrieName(MountKeys(config[j])[l])

\* The inductive invariant of kdb->split.
SplitInv == NoneAhead /\ EachHasPart /\ PartsApart(ToSet(split)) /\ RootsHaveParts /\ FromConfig

\* The parts that mountBackend adds.
LEMMA AddedParts ==
    ASSUME StateOK, NEW b \in Backends, NEW mp \in MountpointType, mountBackend(b, mp)
    PROVE  \E S : /\ ToSet(split') = ToSet(split) \cup S
                  /\ \A s \in S : s.backend = b
                  /\ \A i \in 1 .. Len(MountKeys(mp)) : \E s \in S : s.parent = MountKeys(mp)[i]
                  /\ PartsApart(S)
<1> DEFINE keys == MountKeys(mp)
           c == mp.ns = "/"
           q == [i \in DOMAIN keys |-> Part(b, keys[i], c)]
<1>0. keys \in Seq(KeyType) /\ DOMAIN keys = 1 .. Len(keys) /\ Len(keys) \in Nat /\ Apart(keys) /\ (~c => Len(keys) = 1)
  BY MountKeysProperties, LenProperties
<1>1. split' = split \o q
  BY DEF mountBackend
<1>2. \A i \in 1 .. Len(keys) : keys[i] \in KeyType
  BY <1>0, ElementOfSeq
<1>3. c \in BOOLEAN
  OBVIOUS
<1> HIDE DEF keys, c
<1>4. \A k \in KeyType : Part(b, k, c) \in PartType
  BY <1>3 DEF Part, PartType
<1>5. q \in [1 .. Len(keys) -> PartType]
  BY <1>0, <1>2, <1>4
<1>6. \A i \in 1 .. Len(keys) : q[i].backend = b /\ q[i].parent = keys[i] /\ q[i].cascading = c
  BY <1>0 DEF Part
<1> HIDE DEF q
<1>7. q \in Seq(PartType) /\ DOMAIN q = 1 .. Len(keys) /\ split \in Seq(PartType)
  BY <1>0, <1>5, FunctionIsSeq DEF StateOK
<1> DEFINE S == ToSet(q)
<1>8. ToSet(split') = ToSet(split) \cup S
  BY <1>1, <1>7, ToSetConcat
<1>9. /\ \A s \in S : \E i \in 1 .. Len(keys) : s = q[i]
      /\ \A i \in 1 .. Len(keys) : q[i] \in S
  BY <1>7 DEF ToSet
<1> HIDE DEF S
<1>10. \A s \in S : s.backend = b
  BY <1>6, <1>9
<1>11. \A i \in 1 .. Len(keys) : \E s \in S : s.parent = keys[i]
  BY <1>6, <1>9
<1>12. PartsApart(S)
  <2> SUFFICES ASSUME NEW s \in S, NEW x \in S, s # x
               PROVE  s.cascading /\ x.cascading /\ s.parent.ns # x.parent.ns
    BY DEF PartsApart
  <2>1. PICK i \in 1 .. Len(keys) : s = q[i]
    BY <1>9
  <2>2. PICK j \in 1 .. Len(keys) : x = q[j]
    BY <1>9
  <2>3. i # j
    BY <2>1, <2>2
  <2>4. c
    BY <1>0, <2>3
  <2>5. keys[i].ns # keys[j].ns
    BY <1>0, <2>3 DEF Apart
  <2> QED
    BY <1>6, <2>1, <2>2, <2>4, <2>5
<1> QED
  BY <1>8, <1>10, <1>11, <1>12 DEF keys

\* What is not found after more insertions has not been found before.
LEMMA NotFoundBefore ==
    ASSUME NEW t, NEW m \in Seq(Mounting), Mounts(t, m, Len(m)),
           NEW u, NEW v \in Seq(Mounting), Mounts(u, v, Len(v)),
           Len(m) <= Len(v), \A i \in 1 .. Len(m) : v[i] = m[i], NEW k \in KeyType, trieLookup(u, k) = NULL
    PROVE  trieLookup(t, k) = NULL
<1> DEFINE name == TrieName(k)
<1>0. Len(m) \in Nat /\ Len(v) \in Nat /\ name \in Strings
  BY LenProperties, TrieNameNotEmpty
<1>1. elektraTriePrefixLookup(u, name) = NULL
  BY DEF trieLookup
<1> HIDE DEF name
<1>2. AboveIn(v, name) = {}
  BY <1>0, <1>1, FoundInHistory
<1>3. AboveIn(m, name) = {}
  <2>1. \A i \in 1 .. Len(m) : i \in 1 .. Len(v)
    BY <1>0
  <2> QED
    BY <1>2, <2>1 DEF AboveIn
<1>4. elektraTriePrefixLookup(t, name) = NULL
  BY <1>0, <1>3, FoundInHistory
<1> QED
  BY <1>4 DEF trieLookup, name

\* Two sets of parts that are apart from each other.
LEMMA UnionApart ==
    ASSUME NEW A, NEW B, PartsApart(A), PartsApart(B), \A a \in A, b \in B : a.backend # b.backend
    PROVE  PartsApart(A \cup B)
  BY DEF PartsApart

\* Steps that leave the parts and the trie alone.
LEMMA SameParts ==
    ASSUME SplitInv, UNCHANGED <<split, trie, mounted>>, \A c \in Pending' : c \in Pending,
           RootsHaveParts', FromConfig'
    PROVE  SplitInv'
<1>1. NoneAhead'
  BY DEF SplitInv, NoneAhead
<1>2. EachHasPart' /\ PartsApart(ToSet(split'))
  BY DEF SplitInv, EachHasPart
<1> QED
  BY <1>1, <1>2 DEF SplitInv

\* The parts of all insertions after the one of b for the keys.
LEMMA ExtendedHaveParts ==
    ASSUME StateOK, EachHasPart, NEW b, NEW keys \in Seq(KeyType), Extends(mounted', mounted, b, keys),
           NEW S, ToSet(split') = ToSet(split) \cup S,
           \A i \in 1 .. Len(keys) : \E s \in S : s.backend = b /\ s.parent = keys[i]
    PROVE  EachHasPart'
<1>0. Len(mounted) \in Nat /\ Len(keys) \in Nat
  BY LenProperties DEF StateOK
<1> SUFFICES ASSUME NEW i \in 1 .. Len(mounted') PROVE HasPart(ToSet(split'), mounted'[i].name, mounted'[i].backend)
  BY DEF EachHasPart
<1>1. CASE i \in 1 .. Len(mounted)
  <2>1. mounted'[i] = mounted[i] /\ HasPart(ToSet(split), mounted[i].name, mounted[i].backend)
    BY <1>1 DEF Extends, EachHasPart
  <2> QED
    BY <2>1 DEF HasPart
<1>2. CASE i \notin 1 .. Len(mounted)
  <2>1. Len(mounted') = Len(mounted) + Len(keys)
    BY DEF Extends
  <2>2. i - Len(mounted) \in 1 .. Len(keys) /\ Len(mounted) + (i - Len(mounted)) = i
    BY <1>0, <1>2, <2>1
  <2>3. mounted'[i].name = TrieName(keys[i - Len(mounted)]) /\ mounted'[i].backend = b
    BY <2>2 DEF Extends
  <2>4. PICK s \in S : s.backend = b /\ s.parent = keys[i - Len(mounted)]
    BY <2>2
  <2> QED
    BY <2>3, <2>4 DEF HasPart
<1> QED
  BY <1>1, <1>2

\* The step of mountBackend keeps SplitInv.
LEMMA MountBackendParts ==
    ASSUME MountInv, MountInv', SplitInv, NEW b \in Pending, NEW mp \in MountpointType, mountBackend(b, mp),
           UNCHANGED <<config, inFallback>>, Ready' => Ready, \A c \in Pending' : c \in Pending /\ c # b,
           pc' \in {"mountOpen", "mountDefault"} =>
               pc \in {"mountOpen", "mountDefault"} /\ \E j \in 1 .. Len(config) : mp = config[j]
    PROVE  SplitInv'
<1> DEFINE keys == MountKeys(mp)
<1>0. StateOK /\ StateOK' /\ b \in Backends /\ mounted \in Seq(Mounting) /\ Len(mounted) \in Nat
  BY LenProperties DEF MountInv, StateOK, PendingOK
<1>1. keys \in Seq(KeyType) /\ Len(keys) \in Nat
  BY MountKeysProperties, LenProperties
<1>2. PICK S : /\ ToSet(split') = ToSet(split) \cup S
               /\ \A s \in S : s.backend = b
               /\ \A i \in 1 .. Len(keys) : \E s \in S : s.parent = keys[i]
               /\ PartsApart(S)
  BY <1>0, AddedParts
<1>3. mounted' = mounted \o [i \in DOMAIN keys |-> [name |-> TrieName(keys[i]), backend |-> b]]
  BY DEF mountBackend, MountAt
<1> HIDE DEF keys
<1>4. Extends(mounted', mounted, b, keys)
  BY <1>0, <1>1, <1>3, ExtendsProperties
<1>5. NoneAhead'
  BY <1>2 DEF SplitInv, NoneAhead
<1>6. EachHasPart'
  <2>1. \A i \in 1 .. Len(keys) : \E s \in S : s.backend = b /\ s.parent = keys[i]
    BY <1>2
  <2> QED
    BY <1>0, <1>1, <1>2, <1>4, <2>1, ExtendedHaveParts DEF SplitInv
<1>7. PartsApart(ToSet(split'))
  <2>1. \A s \in ToSet(split), x \in S : s.backend # x.backend
    BY <1>2 DEF SplitInv, NoneAhead
  <2> QED
    BY <1>2, <2>1, UnionApart DEF SplitInv
<1>8. RootsHaveParts'
  <2> SUFFICES ASSUME Ready', (inFallback => ElektraIsFree)', NEW ns \in NS, trieLookup(trie', Root(ns)) = NULL
               PROVE  Part("default", Root(ns), TRUE) \in ToSet(split')
    BY DEF RootsHaveParts
  <2>1. Ready /\ (inFallback => ElektraIsFree)
    BY DEF ElektraIsFree
  <2>2. trieLookup(trie, Root(ns)) = NULL
    <3>1. mounted' \in Seq(Mounting) /\ Len(mounted) <= Len(mounted') /\ \A i \in 1 .. Len(mounted) : mounted'[i] = mounted[i]
      BY <1>0, <1>1, <1>4 DEF Extends
    <3>2. Root(ns) \in KeyType /\ Mounts(trie, mounted, Len(mounted)) /\ Mounts(trie', mounted', Len(mounted'))
      BY <1>0, BuiltInKeys DEF StateOK
    <3> QED
      BY <1>0, <3>1, <3>2, NotFoundBefore
  <2> QED
    BY <1>2, <2>1, <2>2 DEF SplitInv, RootsHaveParts
<1>9. FromConfig'
  <2> SUFFICES ASSUME pc' \in {"mountOpen", "mountDefault"}, NEW i \in 1 .. Len(mounted')
               PROVE  \E j \in 1 .. Len(config') : \E l \in 1 .. Len(MountKeys(config'[j])) :
                         mounted'[i].name = TrieName(MountKeys(config'[j])[l])
    BY DEF FromConfig
  <2>1. config' = config /\ pc \in {"mountOpen", "mountDefault"}
    OBVIOUS
  <2>2. CASE i \in 1 .. Len(mounted)
    <3>1. mounted'[i] = mounted[i]
      BY <1>4, <2>2 DEF Extends
    <3>2. PICK j \in 1 .. Len(config) : \E l \in 1 .. Len(MountKeys(config[j])) :
             mounted[i].name = TrieName(MountKeys(config[j])[l])
      BY <2>1, <2>2 DEF SplitInv, FromConfig
    <3> QED
      BY <2>1, <3>1, <3>2
  <2>3. CASE i \notin 1 .. Len(mounted)
    <3>1. PICK j \in 1 .. Len(config) : mp = config[j]
      OBVIOUS
    <3>2. Len(mounted') = Len(mounted) + Len(keys)
      BY <1>4 DEF Extends
    <3>3. i - Len(mounted) \in 1 .. Len(keys) /\ Len(mounted) + (i - Len(mounted)) = i
      BY <1>0, <1>1, <2>3, <3>2
    <3>4. mounted'[i].name = TrieName(keys[i - Len(mounted)])
      BY <1>4, <3>3 DEF Extends
    <3>5. keys = MountKeys(config[j])
      BY <3>1 DEF keys
    <3> QED
      BY <2>1, <3>3, <3>4, <3>5
  <2> QED
    BY <2>2, <2>3
<1> QED
  BY <1>5, <1>6, <1>7, <1>8, <1>9 DEF SplitInv

\* The parts of the default backend in the namespaces without a mounted root.
LEMMA DefaultPartIn ==
    ASSUME NEW t, NEW ns \in NS
    PROVE  /\ ToSet(DefaultPart(t, ns)) \in SUBSET {Part("default", Root(ns), TRUE)}
           /\ trieLookup(t, Root(ns)) = NULL => Part("default", Root(ns), TRUE) \in ToSet(DefaultPart(t, ns))
  BY ToSetSingle DEF DefaultPart, BackendIn

\* The parts that mountDefault adds for three namespaces.
LEMMA DefaultPartsIn ==
    /\ DefaultParts \in Seq(PartType)
    /\ ToSet(DefaultParts) \in SUBSET {Part("default", Root(ns), TRUE) : ns \in {"spec", "dir", "user"}}
    /\ \A ns \in {"spec", "dir", "user"} :
          trieLookup(trie, Root(ns)) = NULL => Part("default", Root(ns), TRUE) \in ToSet(DefaultParts)
<1> DEFINE s == DefaultPart(trie, "spec")
           d == DefaultPart(trie, "dir")
           u == DefaultPart(trie, "user")
<1>1. s \in Seq(PartType) /\ d \in Seq(PartType) /\ u \in Seq(PartType)
  BY DefaultPartType DEF NS
<1>2. /\ ToSet(s) \in SUBSET {Part("default", Root("spec"), TRUE)}
      /\ ToSet(d) \in SUBSET {Part("default", Root("dir"), TRUE)}
      /\ ToSet(u) \in SUBSET {Part("default", Root("user"), TRUE)}
      /\ trieLookup(trie, Root("spec")) = NULL => Part("default", Root("spec"), TRUE) \in ToSet(s)
      /\ trieLookup(trie, Root("dir")) = NULL => Part("default", Root("dir"), TRUE) \in ToSet(d)
      /\ trieLookup(trie, Root("user")) = NULL => Part("default", Root("user"), TRUE) \in ToSet(u)
  BY DefaultPartIn DEF NS
<1>3. DefaultParts = s \o d \o u
  BY DEF DefaultParts
<1> HIDE DEF s, d, u
<1>4. s \o d \in Seq(PartType) /\ ToSet(s \o d) = ToSet(s) \cup ToSet(d)
  BY <1>1, ToSetConcat
<1>5. DefaultParts \in Seq(PartType) /\ ToSet(DefaultParts) = ToSet(s) \cup ToSet(d) \cup ToSet(u)
  <2> DEFINE e == s \o d
  <2>1. e \in Seq(PartType) /\ ToSet(e) = ToSet(s) \cup ToSet(d) /\ DefaultParts = e \o u
    BY <1>3, <1>4
  <2> HIDE DEF e
  <2>2. e \o u \in Seq(PartType) /\ ToSet(e \o u) = ToSet(e) \cup ToSet(u)
    BY <1>1, <2>1, ToSetConcat
  <2> QED
    BY <2>1, <2>2
<1>6. \A ns \in {"spec", "dir", "user"} :
         trieLookup(trie, Root(ns)) = NULL => Part("default", Root(ns), TRUE) \in ToSet(DefaultParts)
  BY <1>2, <1>5
<1>7. ToSet(DefaultParts) \in SUBSET {Part("default", Root(ns), TRUE) : ns \in {"spec", "dir", "user"}}
  <2> DEFINE P(ns) == Part("default", Root(ns), TRUE)
             D == ToSet(DefaultParts)
  <2>1. \A x \in D : x \in {P("spec"), P("dir"), P("user")}
    BY <1>2, <1>5
  <2> HIDE DEF P, D
  <2>2. \A x \in D : \E ns \in {"spec", "dir", "user"} : x = P(ns)
    BY <2>1
  <2>3. D \in SUBSET {P(ns) : ns \in {"spec", "dir", "user"}}
    BY <2>2
  <2> QED
    BY <2>3 DEF P, D
<1> QED
  BY <1>5, <1>6, <1>7

\* The paths above system/elektra.
LEMMA PrefixOfOne ==
    ASSUME NEW X, NEW e \in Seq(X), Len(e) = 1, NEW p \in Seq(X), IsPrefix(p, e)
    PROVE  p = e \/ p = <<>>
<1>1. Len(p) \in Nat /\ Len(p) <= 1 /\ \A i \in 1 .. Len(p) : p[i] = e[i]
  BY SeqPrefix, LenProperties
<1>2. CASE Len(p) = 1
  BY <1>1, <1>2, SeqEqual
<1>3. CASE Len(p) = 0
  BY <1>3, EmptySeq
<1> QED
  BY <1>1, <1>2, <1>3

\* A configuration that leaves system/elektra free mounts it with all of system.
LEMMA SystemIsMounted ==
    ASSUME MountInv, SplitInv, pc = "mountDefault", ElektraIsFree, BackendIn(trie, SystemElektra) # "default"
    PROVE  trieLookup(trie, Root("system")) # NULL
<1> DEFINE name == TrieName(SystemElektra)
           root == Root("system")
<1>0. /\ mounted \in Seq(Mounting) /\ Mounts(trie, mounted, Len(mounted)) /\ config \in Seq(MountpointType)
      /\ SystemElektra \in KeyType /\ root \in KeyType /\ name \in Strings /\ TrieName(root) \in Strings
      /\ DOMAIN config = 1 .. Len(config)
  BY BuiltInKeys, TrieNameNotEmpty, LenProperties DEF MountInv, StateOK, NS
<1>1. trieLookup(trie, SystemElektra) # NULL
  BY DEF BackendIn
<1>2. elektraTriePrefixLookup(trie, name) # NULL
  BY <1>1 DEF trieLookup
<1>3. /\ SystemElektra.ns = "system" /\ SystemElektra.path = <<Elektra>>
      /\ root.ns = "system" /\ root.path = <<>>
  BY DEF SystemElektra, Root, Key
<1> HIDE DEF name, root
<1>4. AboveIn(mounted, name) # {}
  BY <1>0, <1>2, FoundInHistory
<1>5. PICK i \in 1 .. Len(mounted) : Agree(mounted[i].name, name, Len(mounted[i].name))
  BY <1>4 DEF AboveIn
<1>6. PICK j \in 1 .. Len(config) : \E l \in 1 .. Len(MountKeys(config[j])) :
         mounted[i].name = TrieName(MountKeys(config[j])[l])
  BY DEF SplitInv, FromConfig
<1> DEFINE mp == config[j]
           keys == MountKeys(mp)
<1>7. mp \in MountpointType /\ mp # SystemElektra /\ mp # Key("/", SystemElektra.path)
  BY <1>0, ElementOfSeq DEF ElektraIsFree
<1>8. keys \in Seq(KeyType) /\ Len(keys) \in Nat
  BY <1>7, MountKeysProperties, LenProperties
<1>9. PICK l \in 1 .. Len(keys) : mounted[i].name = TrieName(keys[l])
  BY <1>6
<1> HIDE DEF keys, mp
<1>10. keys[l] \in KeyType
  BY <1>8, ElementOfSeq
<1>11. IsAbove(keys[l], SystemElektra)
  BY <1>0, <1>5, <1>9, <1>10, AboveMeans DEF name
<1> DEFINE path == keys[l].path
<1>12. keys[l].ns = "system" /\ IsPrefix(path, <<Elektra>>) /\ path \in Seq(Seq(Characters))
  BY <1>3, <1>10, <1>11 DEF IsAbove, KeyType
<1>13. path # <<Elektra>>
  <2> SUFFICES ASSUME path = <<Elektra>> PROVE FALSE
    OBVIOUS
  <2>1. CASE mp.ns # "/"
    <3>1. keys = <<mp>>
      BY <1>7, <2>1, MountKeysProperties DEF keys
    <3>2. keys[l] = mp
      BY <3>1
    <3>3. mp = SystemElektra
      <4>1. mp \in [ns: NS \cup {"/"}, path: Seq(Seq(Characters))] /\ mp.ns = "system" /\ mp.path = <<Elektra>>
        BY <1>7, <1>12, <3>2 DEF MountpointType
      <4> QED
        BY <4>1 DEF SystemElektra, Key
    <3> QED
      BY <1>7, <3>3
  <2>2. CASE mp.ns = "/" /\ mp.path = <<>>
    <3>1. keys = [x \in 1 .. 4 |-> Key(Namespaces[x], <<>>)]
      BY <2>2 DEF MountKeys, keys
    <3>2. Len(keys) = 4
      BY <3>1
    <3>3. keys[l].path = <<>>
      BY <3>1, <3>2 DEF Key
    <3>4. Len(<<Elektra>>) = 1 /\ Len(<<>>) = 0
      OBVIOUS
    <3> QED
      BY <3>3, <3>4
  <2>3. CASE mp.ns = "/" /\ mp.path # <<>>
    <3>1. keys = [x \in 1 .. 3 |-> Key(Namespaces[x + 1], mp.path)]
      BY <2>3 DEF MountKeys, keys
    <3>2. Len(keys) = 3
      BY <3>1
    <3>3. keys[l].path = mp.path
      BY <3>1, <3>2 DEF Key
    <3>4. mp = Key("/", <<Elektra>>)
      <4>1. mp \in [ns: NS \cup {"/"}, path: Seq(Seq(Characters))] /\ mp.ns = "/" /\ mp.path = <<Elektra>>
        BY <1>7, <2>3, <3>3 DEF MountpointType
      <4> QED
        BY <4>1 DEF Key
    <3> QED
      BY <1>3, <1>7, <3>4
  <2> QED
    BY <2>1, <2>2, <2>3
<1>14. path = <<>>
  <2>1. Len(<<Elektra>>) = 1
    OBVIOUS
  <2>2. SystemElektra.path \in Seq(Seq(Characters)) /\ Len(SystemElektra.path) = 1 /\ IsPrefix(path, SystemElektra.path)
    BY <1>0, <1>3, <1>12, <2>1 DEF KeyType
  <2> HIDE DEF path
  <2>3. path = SystemElektra.path \/ path = <<>>
    BY <1>12, <2>2, PrefixOfOne
  <2> QED
    BY <1>3, <1>13, <2>3
<1>15. keys[l] = root
  <2>1. /\ keys[l] \in [ns: NS, path: Seq(Seq(Characters))] /\ root \in [ns: NS, path: Seq(Seq(Characters))]
        /\ keys[l].ns = root.ns /\ keys[l].path = root.path
    BY <1>0, <1>3, <1>10, <1>12, <1>14 DEF KeyType
  <2> QED
    BY ONLY <2>1
<1>16. i \in AboveIn(mounted, TrieName(root))
  <2>1. mounted[i].name = TrieName(root) /\ Len(TrieName(root)) \in Nat
    BY <1>0, <1>9, <1>15, LengthType
  <2> QED
    BY <2>1 DEF AboveIn, Agree
<1>17. elektraTriePrefixLookup(trie, TrieName(root)) # NULL
  BY <1>0, <1>16, FoundInHistory
<1> QED
  BY <1>17 DEF trieLookup, root

\* What mountDefault adds to kdb->split.
LEMMA DefaultStep ==
    ASSUME MountInv, MountInv', SplitInv, pc = "mountDefault", pc' = "mountVersion", UNCHANGED <<config, inFallback>>,
           NEW D, ToSet(split') = ToSet(split) \cup D,
           \A s \in D : s.backend \in {"default", "init"}, PartsApart(D),
           Len(mounted) <= Len(mounted'), \A i \in 1 .. Len(mounted) : mounted'[i] = mounted[i],
           EachHasPart',
           \A ns \in {"spec", "dir", "user"} : trieLookup(trie, Root(ns)) = NULL => Part("default", Root(ns), TRUE) \in D,
           (inFallback => ElektraIsFree) /\ trieLookup(trie', Root("system")) = NULL
               => Part("default", Root("system"), TRUE) \in D
    PROVE  SplitInv'
<1>1. /\ StateOK /\ CountOK /\ PendingOK
      /\ mounted \in Seq(Mounting) /\ Mounts(trie, mounted, Len(mounted))
      /\ mounted' \in Seq(Mounting) /\ Mounts(trie', mounted', Len(mounted'))
  BY DEF MountInv, StateOK
<1>2. "default" \in Pending /\ "init" \in Pending /\ \A c \in Pending' : c \in Pending /\ c \notin {"default", "init"}
  <2>1. Pending' = {"version"} \cup ToSet(Modules)
    BY DEF Pending
  <2> QED
    BY <1>1, <2>1, BeforeDefault, BackendSets DEF BuiltIn
<1>3. NoneAhead'
  BY <1>2 DEF SplitInv, NoneAhead
<1>4. PartsApart(ToSet(split'))
  <2>1. \A s \in ToSet(split), x \in D : s.backend # x.backend
    BY <1>2 DEF SplitInv, NoneAhead
  <2> QED
    BY <2>1, UnionApart DEF SplitInv
<1>5. RootsHaveParts'
  <2> SUFFICES ASSUME (inFallback => ElektraIsFree)', NEW ns \in NS, trieLookup(trie', Root(ns)) = NULL
               PROVE  Part("default", Root(ns), TRUE) \in D
    BY DEF RootsHaveParts
  <2>1. inFallback => ElektraIsFree
    BY DEF ElektraIsFree
  <2>2. trieLookup(trie, Root(ns)) = NULL
    BY <1>1, BuiltInKeys, NotFoundBefore
  <2> QED
    BY <2>1, <2>2 DEF NS
<1>6. FromConfig'
  BY DEF FromConfig
<1> QED
  BY <1>3, <1>4, <1>5, <1>6 DEF SplitInv

\* The parts of the default backend for the namespaces in S, and one more.
DefaultsAnd(D, S, x) == \A s \in D : s = x \/ \E ns \in S : s = Part("default", Root(ns), TRUE)

\* Default parts are apart from each other.
LEMMA DefaultsApart ==
    ASSUME NEW S \in SUBSET NS, NEW x, NEW D, DefaultsAnd(D, S, x),
           x.backend = "init" \/ (x.backend = "default" /\ x.cascading /\ x.parent.ns \notin S)
    PROVE  PartsApart(D) /\ \A s \in D : s.backend \in {"default", "init"}
<1>1. \A ns \in S : /\ Part("default", Root(ns), TRUE).backend = "default"
                    /\ Part("default", Root(ns), TRUE).cascading
                    /\ Part("default", Root(ns), TRUE).parent.ns = ns
  BY DEF Part, Root, Key
<1> DEFINE P(ns) == Part("default", Root(ns), TRUE)
<1>2. \A ns \in S : P(ns).backend = "default" /\ P(ns).cascading /\ P(ns).parent.ns = ns
  BY <1>1
<1>3. \A s \in D : s = x \/ \E ns \in S : s = P(ns)
  BY DEF DefaultsAnd
<1> HIDE DEF P
<1>4. \A s \in D : s.backend \in {"default", "init"}
  BY <1>2, <1>3
<1>5. PartsApart(D)
  <2> SUFFICES ASSUME NEW s \in D, NEW y \in D, s.backend = y.backend, s # y
               PROVE  s.cascading /\ y.cascading /\ s.parent.ns # y.parent.ns
    BY DEF PartsApart
  <2>1. CASE s = x
    <3>1. PICK n \in S : y = P(n)
      BY <1>3, <2>1
    <3> QED
      BY <1>2, <2>1, <3>1
  <2>2. CASE y = x
    <3>1. PICK n \in S : s = P(n)
      BY <1>3, <2>2
    <3> QED
      BY <1>2, <2>2, <3>1
  <2>3. CASE s # x /\ y # x
    <3>1. PICK m \in S : s = P(m)
      BY <1>3, <2>3
    <3>2. PICK n \in S : y = P(n)
      BY <1>3, <2>3
    <3> QED
      BY <1>2, <3>1, <3>2
  <2> QED
    BY <2>1, <2>2, <2>3
<1> QED
  BY <1>4, <1>5

\* The sequence of parts with one more, and with the parts in q.
LEMMA MoreParts ==
    ASSUME StateOK, NEW k \in KeyType, NEW b \in Backends, NEW q \in Seq(PartType)
    PROVE  /\ ToSet(split \o DefaultParts \o <<Part(b, k, TRUE)>>)
                = ToSet(split) \cup (ToSet(DefaultParts) \cup {Part(b, k, TRUE)})
           /\ ToSet(split \o DefaultParts \o <<Part(b, k, TRUE)>> \o q)
                = ToSet(split) \cup (ToSet(DefaultParts) \cup {Part(b, k, TRUE)} \cup ToSet(q))
<1> DEFINE x == Part(b, k, TRUE)
           y == <<x>>
           d == split \o DefaultParts
           e == d \o y
<1>1. x \in PartType
  BY DEF Part, PartType
<1> HIDE DEF x
<1>2. y \in Seq(PartType) /\ ToSet(y) = {x}
  BY <1>1, ToSetSingle
<1> HIDE DEF y
<1>3. d \in Seq(PartType) /\ ToSet(d) = ToSet(split) \cup ToSet(DefaultParts)
  BY DefaultPartsIn, ToSetConcat DEF StateOK
<1> HIDE DEF d
<1>4. e \in Seq(PartType) /\ ToSet(e) = ToSet(d) \cup ToSet(y)
  BY <1>2, <1>3, ToSetConcat
<1> HIDE DEF e
<1>5. ToSet(e \o q) = ToSet(e) \cup ToSet(q)
  BY <1>4, ToSetConcat
<1>6. ToSet(e) = ToSet(split) \cup (ToSet(DefaultParts) \cup {x})
  BY <1>2, <1>3, <1>4
<1>7. ToSet(e \o q) = ToSet(split) \cup (ToSet(DefaultParts) \cup {x} \cup ToSet(q))
  BY <1>5, <1>6
<1> QED
  BY <1>6, <1>7 DEF e, d, y, x

\* mountDefault keeps SplitInv.
LEMMA MountDefaultParts ==
    ASSUME MountInv, MountInv', SplitInv, mountDefault
    PROVE  SplitInv'
<1>1. pc = "mountDefault" /\ pc' = "mountVersion" /\ UNCHANGED <<config, inFallback>>
  BY DEF mountDefault
<1>2. /\ StateOK /\ mounted \in Seq(Mounting) /\ Len(mounted) \in Nat /\ EachHasPart
      /\ Mounts(trie, mounted, Len(mounted)) /\ mounted' \in Seq(Mounting) /\ Mounts(trie', mounted', Len(mounted'))
  BY LenProperties DEF MountInv, StateOK, SplitInv
<1>3. SystemElektra \in KeyType /\ Root("system") \in KeyType /\ "default" \in Backends /\ "init" \in Backends
  BY BuiltInKeys, NotABackend DEF NS
<1>4. \A s \in ToSet(DefaultParts) : \E ns \in {"spec", "dir", "user"} : s = Part("default", Root(ns), TRUE)
  BY DefaultPartsIn
<1>5. \A ns \in {"spec", "dir", "user"} : trieLookup(trie, Root(ns)) = NULL
         => Part("default", Root(ns), TRUE) \in ToSet(DefaultParts)
  BY DefaultPartsIn
<1>6. ASSUME NEW b \in {"default", "init"}, NEW refs, MountAt(b, <<SystemElektra>>, 1, refs),
             NEW D, ToSet(split') = ToSet(split) \cup D, Part(b, SystemElektra, TRUE) \in D
      PROVE  /\ EachHasPart' /\ Len(mounted) <= Len(mounted')
             /\ \A i \in 1 .. Len(mounted) : mounted'[i] = mounted[i]
  <2> DEFINE keys == <<SystemElektra>>
  <2>1. keys \in Seq(KeyType) /\ Len(keys) = 1 /\ keys[1] = SystemElektra
    BY <1>3
  <2>2. mounted' = mounted \o [i \in DOMAIN keys |-> [name |-> TrieName(keys[i]), backend |-> b]]
    BY <1>6 DEF MountAt
  <2> HIDE DEF keys
  <2>3. Extends(mounted', mounted, b, keys)
    BY <1>2, <1>3, <2>1, <2>2, ExtendsProperties
  <2>4. \A i \in 1 .. Len(keys) : \E s \in D : s.backend = b /\ s.parent = keys[i]
    <3>1. Part(b, SystemElektra, TRUE).backend = b /\ Part(b, SystemElektra, TRUE).parent = SystemElektra
      BY DEF Part
    <3>2. Part(b, SystemElektra, TRUE) \in D
      BY <1>6
    <3>3. \A i \in 1 .. Len(keys) : keys[i] = SystemElektra
      BY <2>1
    <3> QED
      BY ONLY <3>1, <3>2, <3>3
  <2>5. EachHasPart'
    BY <1>2, <1>6, <2>1, <2>3, <2>4, ExtendedHaveParts
  <2> QED
    BY <1>2, <2>1, <2>3, <2>5 DEF Extends
<1>7. CASE ~inFallback
  <2>1. /\ MountAt("init", <<SystemElektra>>, 1, [refcounter EXCEPT !["default"] = 1])
        /\ split' = split \o DefaultParts \o <<Part("init", SystemElektra, TRUE)>> \o DefaultPart(trie', "system")
    BY <1>7 DEF mountDefault, mountInit
  <2> DEFINE x == Part("init", SystemElektra, TRUE)
             q == DefaultPart(trie', "system")
             D == ToSet(DefaultParts) \cup {x} \cup ToSet(q)
  <2>2. /\ q \in Seq(PartType) /\ ToSet(q) \in SUBSET {Part("default", Root("system"), TRUE)}
        /\ trieLookup(trie', Root("system")) = NULL => Part("default", Root("system"), TRUE) \in ToSet(q)
    BY DefaultPartType, DefaultPartIn DEF NS
  <2>3. x.backend = "init"
    BY DEF Part
  <2>4. ToSet(split') = ToSet(split) \cup D
    <3>1. split' = split \o DefaultParts \o <<x>> \o q
      BY <2>1
    <3> HIDE DEF q
    <3>2. ToSet(split \o DefaultParts \o <<x>> \o q) = ToSet(split) \cup (ToSet(DefaultParts) \cup {x} \cup ToSet(q))
      <4>1. StateOK
        BY <1>2
      <4>2. SystemElektra \in KeyType
        BY <1>3
      <4>3. "init" \in Backends
        BY <1>3
      <4>4. q \in Seq(PartType)
        BY <2>2
      <4> QED
        BY ONLY <4>1, <4>2, <4>3, <4>4, MoreParts
    <3> QED
      BY <3>1, <3>2
  <2> HIDE DEF q
  <2>5. DefaultsAnd(D, NS, x)
    BY <1>4, <2>2 DEF NS, DefaultsAnd
  <2>6. x \in D /\ \A s \in ToSet(DefaultParts) : s \in D
    OBVIOUS
  <2>7. trieLookup(trie', Root("system")) = NULL => Part("default", Root("system"), TRUE) \in D
    BY <2>2
  <2> HIDE DEF D
  <2>8. PartsApart(D) /\ \A s \in D : s.backend \in {"default", "init"}
    <3>1. NS \in SUBSET NS
      OBVIOUS
    <3> HIDE DEF x
    <3> QED
      BY ONLY <2>3, <2>5, <3>1, DefaultsApart
  <2>9. /\ EachHasPart' /\ Len(mounted) <= Len(mounted')
        /\ \A i \in 1 .. Len(mounted) : mounted'[i] = mounted[i]
    BY <1>6, <2>1, <2>4, <2>6
  <2>10. \A ns \in {"spec", "dir", "user"} : trieLookup(trie, Root(ns)) = NULL => Part("default", Root(ns), TRUE) \in D
    BY <1>5, <2>6
  <2> QED
    BY <1>1, <2>4, <2>7, <2>8, <2>9, <2>10, DefaultStep
<1>8. CASE inFallback /\ BackendIn(trie, SystemElektra) # "default"
  <2>1. /\ MountAt("default", <<SystemElektra>>, 1, refcounter)
        /\ split' = split \o DefaultParts \o <<Part("default", SystemElektra, TRUE)>>
    BY <1>8 DEF mountDefault, mountFallback
  <2> DEFINE x == Part("default", SystemElektra, TRUE)
             D == ToSet(DefaultParts) \cup {x}
  <2>3. x.backend = "default" /\ x.cascading /\ x.parent.ns = "system"
    BY DEF Part, SystemElektra, Key
  <2>4. ToSet(split') = ToSet(split) \cup D
    BY <1>2, <1>3, <2>1, EmptySeq, MoreParts
  <2>5. DefaultsAnd(D, {"spec", "dir", "user"}, x)
    BY <1>4 DEF DefaultsAnd
  <2>6. x \in D /\ \A s \in ToSet(DefaultParts) : s \in D
    OBVIOUS
  <2> HIDE DEF D
  <2>8. PartsApart(D) /\ \A s \in D : s.backend \in {"default", "init"}
    <3>1. "system" \notin {"spec", "dir", "user"} /\ {"spec", "dir", "user"} \in SUBSET NS
      BY DEF NS
    <3> HIDE DEF x
    <3> QED
      BY <2>3, <2>5, <3>1, DefaultsApart
  <2>9. /\ EachHasPart' /\ Len(mounted) <= Len(mounted')
        /\ \A i \in 1 .. Len(mounted) : mounted'[i] = mounted[i]
    BY <1>6, <2>1, <2>4, <2>6
  <2>10. \A ns \in {"spec", "dir", "user"} : trieLookup(trie, Root(ns)) = NULL => Part("default", Root(ns), TRUE) \in D
    BY <1>5, <2>6
  <2>11. (inFallback => ElektraIsFree) => trieLookup(trie', Root("system")) # NULL
    <3>1. (inFallback => ElektraIsFree) => trieLookup(trie, Root("system")) # NULL
      BY <1>1, <1>8, SystemIsMounted
    <3> QED
      BY <1>2, <1>3, <2>9, <3>1, NotFoundBefore
  <2> QED
    BY <1>1, <2>4, <2>8, <2>9, <2>10, <2>11, DefaultStep
<1>9. CASE inFallback /\ BackendIn(trie, SystemElektra) = "default"
  <2>1. /\ split' = split \o DefaultParts \o <<Part("default", Root("system"), TRUE)>>
        /\ UNCHANGED <<trie, mounted>>
    BY <1>9 DEF mountDefault, mountFallback
  <2> DEFINE x == Part("default", Root("system"), TRUE)
             D == ToSet(DefaultParts) \cup {x}
  <2>3. x.backend = "default" /\ x.cascading /\ x.parent.ns = "system"
    BY DEF Part, Root, Key
  <2>4. ToSet(split') = ToSet(split) \cup D
    BY <1>2, <1>3, <2>1, EmptySeq, MoreParts
  <2>5. DefaultsAnd(D, {"spec", "dir", "user"}, x)
    BY <1>4 DEF DefaultsAnd
  <2>6. x \in D /\ \A s \in ToSet(DefaultParts) : s \in D
    OBVIOUS
  <2> HIDE DEF D
  <2>8. PartsApart(D) /\ \A s \in D : s.backend \in {"default", "init"}
    <3>1. "system" \notin {"spec", "dir", "user"} /\ {"spec", "dir", "user"} \in SUBSET NS
      BY DEF NS
    <3> HIDE DEF x
    <3> QED
      BY <2>3, <2>5, <3>1, DefaultsApart
  <2>9. /\ EachHasPart' /\ Len(mounted) <= Len(mounted')
        /\ \A i \in 1 .. Len(mounted) : mounted'[i] = mounted[i]
    <3>1. Len(mounted) <= Len(mounted') /\ \A i \in 1 .. Len(mounted) : mounted'[i] = mounted[i]
      BY <1>2, <2>1
    <3>2. EachHasPart'
      BY <1>2, <2>1, <2>4 DEF EachHasPart, HasPart
    <3> QED
      BY <3>1, <3>2
  <2>10. \A ns \in {"spec", "dir", "user"} : trieLookup(trie, Root(ns)) = NULL => Part("default", Root(ns), TRUE) \in D
    BY <1>5, <2>6
  <2> QED
    BY <1>1, <2>4, <2>6, <2>8, <2>9, <2>10, DefaultStep
<1> QED
  BY <1>7, <1>8, <1>9

\* No parts at the beginning.
LEMMA InitParts == Init => SplitInv
<1> SUFFICES ASSUME Init PROVE SplitInv
  OBVIOUS
<1>1. split = <<>> /\ mounted = <<>> /\ pc = "bootstrap"
  BY DEF Init
<1>2. ToSet(split) = {} /\ Len(mounted) = 0
  BY <1>1, ToSetSingle, EmptySeq
<1> QED
  BY <1>1, <1>2 DEF SplitInv, NoneAhead, EachHasPart, PartsApart, RootsHaveParts, Ready, FromConfig

\* All actions.
LEMMA StepParts == MountInv /\ MountInv' /\ SplitInv /\ [Next]_vars => SplitInv'
<1> SUFFICES ASSUME MountInv, MountInv', SplitInv, [Next]_vars PROVE SplitInv'
  OBVIOUS
<1>0. StateOK /\ PendingOK /\ next \in Nat \ {0}
  BY DEF MountInv, StateOK
<1>1. CASE elektraOpenBootstrap \/ elektraOpenBootstrapFail
  <2>1. pc = "bootstrap" /\ pc' \in {"mountOpen", "failed"} /\ UNCHANGED <<trie, split, mounted>>
    BY <1>1 DEF elektraOpenBootstrap, elektraOpenBootstrapFail
  <2>2. Pending = Backends
    BY <2>1 DEF Pending
  <2>3. \A c \in Pending' : c \in Pending
    BY <2>1, <2>2, BackendSets DEF Pending
  <2>4. ~Ready'
    BY <2>1 DEF Ready
  <2>5. FromConfig'
    <3>1. mounted \in Seq(Mounting) /\ \A i \in 1 .. Len(mounted) : mounted[i] \in Mounting
      BY <1>0, ElementOfSeq DEF StateOK
    <3>2. \A i \in 1 .. Len(mounted) : mounted[i].backend \in Backends
      BY <3>1 DEF Mounting
    <3>3. \A i \in 1 .. Len(mounted) : FALSE
      BY <1>0, <2>2, <3>2 DEF PendingOK, Unmounted
    <3> QED
      BY <2>1, <3>3 DEF FromConfig
  <2> QED
    BY <2>1, <2>3, <2>4, <2>5, SameParts DEF RootsHaveParts
<1>2. CASE mountOpen
  <2>1. /\ pc = "mountOpen" /\ next <= Len(config) /\ pc' = pc /\ next' = next + 1
        /\ mountBackend(Configured[next], config[next]) /\ UNCHANGED <<config, inFallback>>
    BY <1>2 DEF mountOpen
  <2>2. Configured[next] \in Pending /\ \A c \in Pending' : c \in Pending /\ c # Configured[next]
    BY <1>0, <2>1, PendingEntries
  <2>3. next \in 1 .. Len(config) /\ config[next] \in MountpointType
    <3>1. config \in Seq(MountpointType) /\ Len(config) \in Nat
      BY <1>0, LenProperties DEF StateOK
    <3>2. next \in 1 .. Len(config)
      BY <1>0, <2>1, <3>1
    <3> QED
      BY <3>1, <3>2, ElementOfSeq
  <2>4. ~Ready'
    BY <2>1 DEF Ready
  <2> QED
    BY <2>1, <2>2, <2>3, <2>4, MountBackendParts
<1>3. CASE mountOpenSkip \/ mountOpenEnd
  <2>1. /\ pc = "mountOpen" /\ UNCHANGED <<config, inFallback, trie, split, mounted>>
        /\ \/ pc' = "mountOpen" /\ next' = next + 1 /\ next <= Len(config)
           \/ pc' = "mountDefault"
    BY <1>3 DEF mountOpenSkip, mountOpenEnd
  <2>2. \A c \in Pending' : c \in Pending
    <3>1. CASE pc' = "mountOpen"
      BY <1>0, <2>1, <3>1, PendingEntries
    <3>2. CASE pc' = "mountDefault"
      BY <2>1, <3>2 DEF Pending
    <3> QED
      BY <2>1, <3>1, <3>2
  <2>3. ~Ready'
    BY <2>1 DEF Ready
  <2>4. FromConfig'
    BY <2>1 DEF SplitInv, FromConfig
  <2> QED
    BY <2>1, <2>2, <2>3, <2>4, SameParts DEF RootsHaveParts
<1>4. CASE mountDefault
  BY <1>4, MountDefaultParts
<1>5. CASE (\E default \in {NULL, "default"} : mountDefaultFail(default)) \/ kdbClose
  <2>1. pc' \in {"giveUp", "closed", "failed"} /\ UNCHANGED <<trie, split, mounted>>
    BY <1>5 DEF mountDefaultFail, kdbClose
  <2>2. Pending' = {} /\ ~Ready'
    BY <2>1 DEF Pending, Ready
  <2> QED
    BY <2>1, <2>2, SameParts DEF RootsHaveParts, FromConfig
<1>6. CASE mountVersion
  <2> DEFINE mp == Key("system", <<Elektra, Version>>)
  <2>1. /\ pc = "mountVersion" /\ pc' = "mountModules" /\ mountBackend("version", mp)
        /\ UNCHANGED <<config, inFallback, next>>
    BY <1>6 DEF mountVersion
  <2>2. mp \in MountpointType
    BY BuiltInKeys DEF KeyType, MountpointType
  <2> HIDE DEF mp
  <2>3. Pending = {"version"} \cup ToSet(Modules) /\ Pending' \subseteq ToSet(Modules)
    BY <2>1, BackendSets DEF Pending
  <2>4. "version" \in Pending /\ \A c \in Pending' : c \in Pending /\ c # "version"
    BY <2>3, BackendSets DEF BuiltIn
  <2>5. Ready
    BY <2>1 DEF Ready
  <2> QED
    BY <2>1, <2>2, <2>4, <2>5, MountBackendParts
<1>7. CASE mountModules
  <2>1. /\ pc = "mountModules" /\ next <= Len(Modules) /\ pc' = pc /\ next' = next + 1
        /\ UNCHANGED <<config, inFallback>>
    BY <1>7 DEF mountModules
  <2> DEFINE x == Modules[next]
             mp == Key("system", <<Elektra, Module, <<x>>>>)
             again == \E i \in 1 .. (next - 1) : Modules[i] = Modules[next]
  <2>2. IF again THEN UNCHANGED <<trie, split, mounted>> ELSE mountBackend(x, mp)
    BY <1>7 DEF mountModules
  <2>3. (\A c \in Pending' : c \in Pending /\ c # x) /\ (~again => x \in Pending)
    BY <1>0, <2>1, PendingModules
  <2>4. mp \in MountpointType
    <3>1. next \in DOMAIN Modules /\ x \in ToSet(Modules)
      BY <1>0, <2>1, BackendSets
    <3>2. mp \in KeyType
      BY <3>1, BuiltInKeys
    <3> HIDE DEF mp
    <3> QED
      BY <3>2 DEF KeyType, MountpointType
  <2>5. Ready
    BY <2>1 DEF Ready
  <2> HIDE DEF again, mp, x
  <2>6. CASE again
    <3>1. RootsHaveParts'
      <4>1. UNCHANGED <<pc, config, inFallback, trie, split>>
        BY <2>1, <2>2, <2>6
      <4> QED
        BY <4>1 DEF SplitInv, RootsHaveParts, Ready, ElektraIsFree
    <3>2. FromConfig'
      BY <2>1 DEF FromConfig
    <3> QED
      BY <2>2, <2>3, <2>6, <3>1, <3>2, SameParts
  <2>7. CASE ~again
    <3>1. mountBackend(x, mp) /\ x \in Pending
      BY <2>2, <2>3, <2>7
    <3> QED
      BY <2>1, <2>3, <2>4, <2>5, <3>1, MountBackendParts
  <2> QED
    BY <2>6, <2>7
<1>8. CASE mountModulesEnd
  <2>1. pc = "mountModules" /\ pc' = "open" /\ UNCHANGED <<config, inFallback, trie, split, mounted>>
    BY <1>8 DEF mountModulesEnd
  <2>2. Pending' = {}
    BY <2>1 DEF Pending
  <2>3. RootsHaveParts'
    BY <2>1 DEF SplitInv, RootsHaveParts, Ready, ElektraIsFree
  <2> QED
    BY <2>1, <2>2, <2>3, SameParts DEF FromConfig
<1>9. CASE UNCHANGED vars
  BY <1>9 DEF vars, SplitInv, NoneAhead, EachHasPart, RootsHaveParts, FromConfig, Ready, Pending, ElektraIsFree
<1> QED
  BY <1>1, <1>2, <1>3, <1>4, <1>5, <1>6, <1>7, <1>8, <1>9 DEF Next, kdbOpen

\* The invariant of kdb->split.
LEMMA PartsInvariance == Spec => [](MountInv /\ SplitInv)
<1>1. Init => MountInv /\ SplitInv
  BY InitInv, InitParts
<1>2. (MountInv /\ SplitInv) /\ [Next]_vars => (MountInv /\ SplitInv)'
  BY StepKeeps, StepParts
<1> QED
  BY <1>1, <1>2, PTL DEF Spec

-----------------------------------------------------------------------------
(* What splitBuildup takes from kdb->split *)

\* One more element.
LEMMA ToSetAppend ==
    ASSUME NEW X, NEW s \in Seq(X), NEW x \in X
    PROVE  Append(s, x) \in Seq(X) /\ ToSet(Append(s, x)) = ToSet(s) \cup {x}
<1>1. /\ Append(s, x) \in Seq(X) /\ Len(Append(s, x)) = Len(s) + 1 /\ Len(s) \in Nat
      /\ \A i \in 1 .. Len(s) : Append(s, x)[i] = s[i]
      /\ Append(s, x)[Len(s) + 1] = x
  BY AppendProperties, LenProperties
<1> DEFINE z == Append(s, x)
<1>2. DOMAIN z = 1 .. Len(s) + 1 /\ DOMAIN s = 1 .. Len(s)
  BY <1>1, LenProperties
<1>3. (\A i \in 1 .. Len(s) : z[i] = s[i]) /\ z[Len(s) + 1] = x
  BY <1>1
<1> HIDE DEF z
<1>4. \A i \in DOMAIN z : i = Len(s) + 1 \/ i \in DOMAIN s
  BY <1>1, <1>2
<1>5. Len(s) + 1 \in DOMAIN z /\ \A i \in DOMAIN s : i \in DOMAIN z
  BY <1>1, <1>2
<1>6. \A i \in DOMAIN z : z[i] \in ToSet(s) \cup {x}
  BY <1>2, <1>3, <1>4 DEF ToSet
<1>7. \A i \in DOMAIN s : s[i] \in ToSet(z)
  BY <1>2, <1>3, <1>5 DEF ToSet
<1>8. x \in ToSet(z)
  BY <1>3, <1>5 DEF ToSet
<1>9. ToSet(z) = ToSet(s) \cup {x}
  BY <1>6, <1>7, <1>8 DEF ToSet
<1> QED
  BY <1>1, <1>9 DEF z

\* The loop over kdb->split takes just the parts in S.
LEMMA SelectedIs ==
    ASSUME split \in Seq(PartType), NEW S
    PROVE  Selected(S) \in Seq(PartType) /\ ToSet(Selected(S)) = ToSet(split) \cap S
<1> DEFINE n == Len(split)
           T == [i \in 0 .. n |-> Seq(PartType)]
           b == <<>>
           g == [x \in (1 .. n) \X Seq(PartType) |-> IF split[x[1]] \in S THEN Append(x[2], split[x[1]]) ELSE x[2]]
           Is(f) == f = [i \in 0 .. n |-> IF i = 0 THEN <<>>
                                          ELSE IF split[i] \in S THEN Append(f[i - 1], split[i]) ELSE f[i - 1]]
<1>0. n \in Nat /\ (\A i \in 1 .. n : split[i] \in PartType) /\ DOMAIN split = 1 .. n
  BY LenProperties, ElementOfSeq
<1> HIDE DEF n
<1>1. b \in T[0]
  BY <1>0, EmptySeq
<1>2. ASSUME NEW i \in 1 .. n, NEW x \in T[i - 1]
      PROVE  /\ g[<<i, x>>] \in T[i] /\ x \in Seq(PartType)
             /\ g[<<i, x>>] = IF split[i] \in S THEN Append(x, split[i]) ELSE x
  <2>1. i - 1 \in 0 .. n /\ i \in 0 .. n
    BY <1>0
  <2>2. x \in Seq(PartType)
    BY <2>1
  <2>3. g[<<i, x>>] = IF split[i] \in S THEN Append(x, split[i]) ELSE x
    BY <2>2
  <2>4. Append(x, split[i]) \in Seq(PartType)
    BY <1>0, <2>2, ToSetAppend
  <2> HIDE DEF g
  <2> QED
    BY <2>1, <2>2, <2>3, <2>4
<1> HIDE DEF g, b
<1>3. PICK h : IsLoop(h, n, b, g) /\ \A i \in 0 .. n : h[i] \in T[i]
  <2> HIDE DEF T
  <2> QED
    BY <1>0, <1>1, <1>2, LoopExists
<1>4. \A i \in 0 .. n : h[i] \in Seq(PartType)
  BY <1>3
<1>5. \A i \in 0 .. n : h[i] = IF i = 0 THEN <<>> ELSE IF split[i] \in S THEN Append(h[i - 1], split[i]) ELSE h[i - 1]
  <2> SUFFICES ASSUME NEW i \in 0 .. n
               PROVE  h[i] = IF i = 0 THEN <<>> ELSE IF split[i] \in S THEN Append(h[i - 1], split[i]) ELSE h[i - 1]
    OBVIOUS
  <2>1. h[i] = IF i = 0 THEN b ELSE g[<<i, h[i - 1]>>]
    BY <1>3 DEF IsLoop
  <2>2. i # 0 => i \in 1 .. n /\ i - 1 \in 0 .. n
    BY <1>0
  <2>3. i # 0 => h[i - 1] \in T[i - 1]
    <3> HIDE DEF T
    <3> QED
      BY <1>3, <2>2
  <2> HIDE DEF T
  <2> QED
    BY <1>2, <2>1, <2>2, <2>3 DEF b
<1>6. h = [i \in 0 .. n |-> h[i]]
  <2>1. h = [i \in 0 .. n |-> IF i = 0 THEN b ELSE g[<<i, h[i - 1]>>]]
    BY <1>3 DEF IsLoop
  <2> QED
    BY <2>1
<1>7. Is(h)
  BY <1>5, <1>6
<1> DEFINE f == CHOOSE f : Is(f)
<1>8. Selected(S) = f[n]
  BY DEF Selected, n
<1>9. Is(f)
  <2> HIDE DEF Is
  <2> QED
    BY <1>7
<1> HIDE DEF f
<1>10. \A i \in 0 .. n : f[i] = IF i = 0 THEN <<>> ELSE IF split[i] \in S THEN Append(f[i - 1], split[i]) ELSE f[i - 1]
  BY <1>9
<1> HIDE DEF Is, T
<1> DEFINE P == {i \in 0 .. n : f[i] \in Seq(PartType) /\ ToSet(f[i]) = {split[j] : j \in 1 .. i} \cap S}
<1>11. 0 \in P
  <2>1. f[0] = <<>> /\ 0 \in 0 .. n
    BY <1>0, <1>10
  <2>2. <<>> \in Seq(PartType) /\ ToSet(<<>>) = {}
    BY EmptySeq, ToSetSingle
  <2>3. {split[j] : j \in 1 .. 0} = {}
    OBVIOUS
  <2> QED
    BY <2>1, <2>2, <2>3
<1>12. ASSUME NEW i \in 1 .. n, i - 1 \in P PROVE i \in P
  <2>1. /\ i \in 0 .. n /\ i # 0 /\ f[i - 1] \in Seq(PartType)
        /\ ToSet(f[i - 1]) = {split[j] : j \in 1 .. (i - 1)} \cap S
    BY <1>0, <1>12
  <2>2. f[i] = IF split[i] \in S THEN Append(f[i - 1], split[i]) ELSE f[i - 1]
    BY <1>10, <2>1
  <2>3. {split[j] : j \in 1 .. i} = {split[j] : j \in 1 .. (i - 1)} \cup {split[i]}
    <3>1. \A j \in 1 .. i : j = i \/ j \in 1 .. (i - 1)
      BY <1>0
    <3>2. i \in 1 .. i /\ \A j \in 1 .. (i - 1) : j \in 1 .. i
      BY <1>0
    <3> QED
      BY <3>1, <3>2
  <2>4. Append(f[i - 1], split[i]) \in Seq(PartType) /\ ToSet(Append(f[i - 1], split[i])) = ToSet(f[i - 1]) \cup {split[i]}
    BY <1>0, <2>1, ToSetAppend
  <2>5. f[i] \in Seq(PartType) /\ ToSet(f[i]) = {split[j] : j \in 1 .. i} \cap S
    BY <2>1, <2>2, <2>3, <2>4
  <2> QED
    BY <2>1, <2>5
<1>13. n \in P
  <2> HIDE DEF P
  <2> QED
    BY <1>0, <1>11, <1>12, Induction
<1>14. ToSet(split) = {split[j] : j \in 1 .. n}
  BY <1>0 DEF ToSet
<1> QED
  BY <1>8, <1>13, <1>14

\* The parts of four namespaces, one after the other.
LEMMA FlattenFour ==
    ASSUME NEW X, NEW q \in Seq(Seq(X)), Len(q) = 4
    PROVE  /\ FlattenSeq(q) \in Seq(X)
           /\ ToSet(FlattenSeq(q)) = ToSet(q[1]) \cup ToSet(q[2]) \cup ToSet(q[3]) \cup ToSet(q[4])
<1>1. 4 \in Nat \ {0} /\ 4 = Len(q)
  OBVIOUS
<1>2. PICK f : /\ FlattenSeq(q) = f[4]
               /\ \A i \in 1 .. 4 : f[i] = IF i = 1 THEN q[i] ELSE f[i - 1] \o q[i]
  BY <1>1, FlattenSeqUnfolds
<1>3. f[1] = q[1] /\ f[2] = f[1] \o q[2] /\ f[3] = f[2] \o q[3] /\ f[4] = f[3] \o q[4]
  BY <1>2
<1>4. q[1] \in Seq(X) /\ q[2] \in Seq(X) /\ q[3] \in Seq(X) /\ q[4] \in Seq(X)
  <2>1. \A i \in 1 .. 4 : q[i] \in Seq(X)
    BY <1>1, ElementOfSeq
  <2> QED
    BY <2>1
<1>5. f[2] \in Seq(X) /\ ToSet(f[2]) = ToSet(q[1]) \cup ToSet(q[2])
  BY <1>3, <1>4, ToSetConcat
<1>6. f[3] \in Seq(X) /\ ToSet(f[3]) = ToSet(f[2]) \cup ToSet(q[3])
  <2>1. ToSet(f[2] \o q[3]) = ToSet(f[2]) \cup ToSet(q[3]) /\ f[2] \o q[3] \in Seq(X)
    BY ONLY <1>4, <1>5, ToSetConcat
  <2> QED
    BY ONLY <1>3, <2>1
<1>7. f[4] \in Seq(X) /\ ToSet(f[4]) = ToSet(f[3]) \cup ToSet(q[4])
  <2>1. ToSet(f[3] \o q[4]) = ToSet(f[3]) \cup ToSet(q[4]) /\ f[3] \o q[4] \in Seq(X)
    BY ONLY <1>4, <1>6, ToSetConcat
  <2> QED
    BY ONLY <1>3, <2>1
<1> QED
  BY <1>2, <1>5, <1>6, <1>7

\* Every mountpoint above a key is above the keys below it.
LEMMA AboveBelow ==
    ASSUME NEW m \in Seq(Mounting), NEW q \in KeyType, NEW k \in KeyType, IsAbove(q, k)
    PROVE  AboveIn(m, TrieName(q)) \in SUBSET AboveIn(m, TrieName(k))
<1> DEFINE s == TrieName(q)
           u == TrieName(k)
<1>1. s \in Strings /\ u \in Strings /\ Agree(s, u, Len(s))
  BY TrieNameNotEmpty, AboveMeans
<1> HIDE DEF s, u
<1>2. \A i \in 1 .. Len(m) : m[i].name \in Strings
  <2>1. \A i \in 1 .. Len(m) : m[i] \in Mounting
    BY ElementOfSeq
  <2> QED
    BY <2>1 DEF Mounting
<1>3. ASSUME NEW n \in Strings, Agree(n, s, Len(n)) PROVE Agree(n, u, Len(n))
  <2>1. Len(n) \in Nat /\ Len(s) \in Nat /\ Len(u) \in Nat
    BY <1>1, LengthType
  <2>2. \A x \in 1 .. Len(n) : x \in 1 .. Len(s)
    BY <1>3, <2>1 DEF Agree
  <2> QED
    BY <1>1, <1>3, <2>1, <2>2 DEF Agree
<1>4. AboveIn(m, s) \in SUBSET AboveIn(m, u)
  BY <1>2, <1>3 DEF AboveIn
<1> QED
  BY <1>4 DEF s, u

\* Two keys above a key: one of them is above the other.
LEMMA Comparable ==
    ASSUME NEW p \in KeyType, NEW q \in KeyType, NEW k \in KeyType, IsAbove(p, k), IsAbove(q, k)
    PROVE  IsAbove(p, q) \/ IsAbove(q, p)
<1> DEFINE a == p.path
           b == q.path
           c == k.path
<1>1. a \in Seq(Seq(Characters)) /\ b \in Seq(Seq(Characters)) /\ c \in Seq(Seq(Characters)) /\ p.ns = q.ns
  BY DEF KeyType, IsAbove
<1>2. IsPrefix(a, c) /\ IsPrefix(b, c)
  BY DEF IsAbove
<1> HIDE DEF a, b, c
<1>3. Len(a) \in Nat /\ Len(b) \in Nat /\ (\A i \in 1 .. Len(a) : a[i] = c[i]) /\ (\A i \in 1 .. Len(b) : b[i] = c[i])
  BY <1>1, <1>2, SeqPrefix, LenProperties
<1>4. CASE Len(a) <= Len(b)
  <2>1. \A i \in 1 .. Len(a) : i \in 1 .. Len(b)
    BY <1>3, <1>4
  <2>2. IsPrefix(a, b)
    BY <1>1, <1>3, <1>4, <2>1, SeqPrefix
  <2> QED
    BY <1>1, <2>2 DEF IsAbove, a, b
<1>5. CASE Len(b) <= Len(a)
  <2>1. \A i \in 1 .. Len(b) : i \in 1 .. Len(a)
    BY <1>3, <1>5
  <2>2. IsPrefix(b, a)
    BY <1>1, <1>3, <1>5, <2>1, SeqPrefix
  <2> QED
    BY <1>1, <2>2 DEF IsAbove, a, b
<1> QED
  BY <1>3, <1>4, <1>5

\* The longest mountpoint above a key is the longest one above the keys between.
LEMMA LongestBetween ==
    ASSUME NEW t, NEW m \in Seq(Mounting), Mounts(t, m, Len(m)), NEW q \in KeyType, NEW k \in KeyType, IsAbove(q, k),
           trieLookup(t, k) # NULL,
           Max(LongestIn(m, TrieName(k))) \in AboveIn(m, TrieName(q))
    PROVE  trieLookup(t, q) = trieLookup(t, k)
<1> DEFINE s == TrieName(q)
           u == TrieName(k)
           L == LongestIn(m, u)
           K == LongestIn(m, s)
           x == Max(L)
           y == Max(K)
<1>0. s \in Strings /\ u \in Strings /\ AboveIn(m, s) \in SUBSET AboveIn(m, u)
  BY TrieNameNotEmpty, AboveBelow
<1>1. elektraTriePrefixLookup(t, u) # NULL /\ x \in AboveIn(m, s)
  BY DEF trieLookup
<1> HIDE DEF s, u
<1>2. /\ elektraTriePrefixLookup(t, u) = m[x].backend /\ x \in L /\ \A i \in L : i <= x
  BY <1>0, <1>1, FoundInHistory
<1>3. /\ elektraTriePrefixLookup(t, s) = m[y].backend /\ y \in K /\ \A i \in K : i <= y
  BY <1>0, <1>1, FoundInHistory
<1>4. Len(m) \in Nat /\ (\A i \in 1 .. Len(m) : Len(m[i].name) \in Nat) /\ L \in SUBSET (1 .. Len(m)) /\ K \in SUBSET (1 .. Len(m))
  <2>1. Len(m) \in Nat /\ \A i \in 1 .. Len(m) : m[i] \in Mounting
    BY LenProperties, ElementOfSeq
  <2>2. \A i \in 1 .. Len(m) : Len(m[i].name) \in Nat
    BY <2>1, LengthType DEF Mounting
  <2> QED
    BY <2>1, <2>2 DEF LongestIn, AboveIn
<1> HIDE DEF x, y
<1>5. x \in K
  <2>1. \A j \in AboveIn(m, s) : Len(m[j].name) <= Len(m[x].name)
    BY <1>0, <1>2 DEF LongestIn
  <2> QED
    BY <1>1, <2>1 DEF LongestIn
<1>6. y \in L
  <2>1. y \in AboveIn(m, u) /\ Len(m[x].name) <= Len(m[y].name)
    BY <1>0, <1>1, <1>3 DEF LongestIn
  <2>2. \A j \in AboveIn(m, u) : Len(m[j].name) <= Len(m[x].name)
    BY <1>2 DEF LongestIn
  <2>3. x \in 1 .. Len(m) /\ y \in 1 .. Len(m) /\ \A j \in AboveIn(m, u) : j \in 1 .. Len(m)
    BY <1>2, <1>3, <1>4 DEF AboveIn
  <2>4. \A j \in AboveIn(m, u) : Len(m[j].name) <= Len(m[y].name)
    BY <1>4, <2>1, <2>2, <2>3
  <2> QED
    BY <2>1, <2>4 DEF LongestIn
<1>7. x = y
  <2>1. x \in 1 .. Len(m) /\ y \in 1 .. Len(m) /\ x <= y /\ y <= x
    BY <1>2, <1>3, <1>4, <1>5, <1>6
  <2> QED
    BY <1>4, <2>1
<1> QED
  BY <1>2, <1>3, <1>7 DEF trieLookup, s, u

\* The part that kdb->split has for a key, and who is responsible between them.
Responsible(s, k) ==
    /\ s.backend = mountGetBackend(k) /\ IsAbove(s.parent, k)
    /\ \A q \in KeyType : IsAbove(q, k) /\ IsAbove(s.parent, q) => mountGetBackend(q) = s.backend

\* Every key has one, also in fallback if system/elektra is free.
LEMMA ResponsiblePart ==
    ASSUME MountInv, SplitInv, pc = "open", inFallback => ElektraIsFree, NEW k \in KeyType
    PROVE  \E s \in ToSet(split) : Responsible(s, k)
<1> DEFINE name == TrieName(k)
           x == Max(LongestIn(mounted, name))
<1>0. /\ mounted \in Seq(Mounting) /\ Mounts(trie, mounted, Len(mounted)) /\ name \in Strings
      /\ handle.default = "default" /\ split \in Seq(PartType) /\ k.ns \in NS
      /\ \A s \in ToSet(split) : s \in PartType
  <2>1. \A s \in ToSet(split) : s \in PartType
    <3>1. split \in Seq(PartType)
      BY DEF MountInv, StateOK
    <3>2. DOMAIN split = 1 .. Len(split) /\ \A i \in 1 .. Len(split) : split[i] \in PartType
      BY <3>1, LenProperties, ElementOfSeq
    <3> QED
      BY <3>2 DEF ToSet
  <2> QED
    BY <2>1, TrieNameNotEmpty DEF MountInv, StateOK, Ready, KeyType
<1>1. CASE trieLookup(trie, k) = NULL
  <2> DEFINE root == Root(k.ns)
  <2>1. root \in KeyType /\ root.ns = k.ns /\ root.path = <<>>
    BY <1>0, BuiltInKeys DEF Root, Key
  <2>2. IsAbove(root, k)
    <3> HIDE DEF root
    <3>1. /\ k.path \in Seq(Seq(Characters)) /\ root.path \in Seq(Seq(Characters))
          /\ Len(root.path) = 0 /\ Len(k.path) \in Nat
      BY <2>1, EmptySeq, LenProperties DEF KeyType
    <3>2. IsPrefix(root.path, k.path)
      <4>1. \A i \in 1 .. Len(root.path) : root.path[i] = k.path[i]
        BY <3>1
      <4> QED
        BY <3>1, <4>1, SeqPrefix
    <3> QED
      BY <2>1, <3>2 DEF IsAbove
  <2> HIDE DEF root
  <2>3. ASSUME NEW q \in KeyType, IsAbove(q, k) PROVE trieLookup(trie, q) = NULL
    <3>1. elektraTriePrefixLookup(trie, name) = NULL
      BY <1>1 DEF trieLookup
    <3>2. TrieName(q) \in Strings /\ AboveIn(mounted, TrieName(q)) \in SUBSET AboveIn(mounted, name)
      BY <1>0, <2>3, AboveBelow, TrieNameNotEmpty
    <3> HIDE DEF name
    <3>3. AboveIn(mounted, name) = {}
      BY <1>0, <3>1, FoundInHistory
    <3>4. AboveIn(mounted, TrieName(q)) = {}
      BY <3>2, <3>3
    <3>5. elektraTriePrefixLookup(trie, TrieName(q)) = NULL
      BY <1>0, <3>2, <3>4, FoundInHistory
    <3> QED
      BY <3>5 DEF trieLookup
  <2>4. trieLookup(trie, root) = NULL
    BY <2>1, <2>2, <2>3
  <2> DEFINE s == Part("default", root, TRUE)
  <2>5. s \in ToSet(split)
    BY <1>0, <2>4 DEF SplitInv, RootsHaveParts, Ready, root
  <2>6. s.backend = "default" /\ s.parent = root
    BY DEF Part
  <2> HIDE DEF s
  <2>7. mountGetBackend(k) = "default" /\ \A q \in KeyType : IsAbove(q, k) => mountGetBackend(q) = "default"
    BY <1>0, <1>1, <2>3 DEF mountGetBackend
  <2>8. Responsible(s, k)
    BY <2>2, <2>6, <2>7 DEF Responsible
  <2> QED
    BY <2>5, <2>8
<1>2. CASE trieLookup(trie, k) # NULL
  <2>1. elektraTriePrefixLookup(trie, name) # NULL
    BY <1>2 DEF trieLookup
  <2> HIDE DEF name
  <2>2. /\ elektraTriePrefixLookup(trie, name) = mounted[x].backend /\ x \in LongestIn(mounted, name)
    BY <1>0, <2>1, FoundInHistory
  <2> HIDE DEF x
  <2>3. x \in 1 .. Len(mounted) /\ Agree(mounted[x].name, name, Len(mounted[x].name))
    BY <2>2 DEF LongestIn, AboveIn
  <2>4. PICK s \in ToSet(split) : s.backend = mounted[x].backend /\ TrieName(s.parent) = mounted[x].name
    BY <2>3 DEF SplitInv, EachHasPart, HasPart
  <2>5. s.parent \in KeyType
    BY <1>0, <2>4 DEF PartType
  <2>6. IsAbove(s.parent, k)
    BY <2>3, <2>4, <2>5, AboveMeans DEF name
  <2>7. mountGetBackend(k) = s.backend
    BY <1>2, <2>2, <2>4 DEF mountGetBackend, trieLookup, name
  <2>8. ASSUME NEW q \in KeyType, IsAbove(q, k), IsAbove(s.parent, q) PROVE mountGetBackend(q) = s.backend
    <3>1. Agree(mounted[x].name, TrieName(q), Len(mounted[x].name))
      BY <2>4, <2>5, <2>8, AboveMeans
    <3>2. x \in AboveIn(mounted, TrieName(q))
      BY <2>3, <3>1 DEF AboveIn
    <3>3. trieLookup(trie, q) = trieLookup(trie, k)
      BY <1>0, <1>2, <2>8, <3>2, LongestBetween DEF x, name
    <3> QED
      BY <1>2, <2>7, <3>3 DEF mountGetBackend
  <2>9. Responsible(s, k)
    BY <2>6, <2>7, <2>8 DEF Responsible
  <2> QED
    BY <2>9
<1> QED
  BY <1>1, <1>2

\* Whatever parts are taken: the first one of those in which a key may be put is
\* the part that is responsible for the key, if that one is taken.
LEMMA SearchFinds ==
    ASSUME SplitInv, NEW k \in KeyType, NEW s \in ToSet(split), Responsible(s, k),
           NEW parts \in Seq(PartType), s \in ToSet(parts), ToSet(parts) \in SUBSET ToSet(split),
           NEW i, i = splitSearchBackend(parts, mountGetBackend(k), k)
    PROVE  i # 0 /\ IsAbove(parts[i].parent, k)
<1> DEFINE b == mountGetBackend(k)
           I == {j \in 1 .. Len(parts) : parts[j].backend = b /\ (parts[j].cascading => parts[j].parent.ns = k.ns)}
<1>0. Len(parts) \in Nat /\ DOMAIN parts = 1 .. Len(parts)
  BY LenProperties
<1>1. s.backend = b /\ IsAbove(s.parent, k) /\ s.parent.ns = k.ns
  BY DEF Responsible, IsAbove
<1>2. i = IF I # {} THEN Min(I) ELSE 0
  BY DEF splitSearchBackend, SelectInSeq
<1> HIDE DEF b
<1>3. PICK j \in 1 .. Len(parts) : parts[j] = s
  BY <1>0 DEF ToSet
<1>4. j \in I /\ I \in SUBSET (1 .. Len(parts))
  BY <1>1, <1>3
<1>5. i \in I
  <2> HIDE DEF I
  <2>1. Min(I) \in I
    BY <1>0, <1>4, MinIsLeast
  <2> QED
    BY <1>2, <1>4, <2>1
<1> DEFINE x == parts[i]
<1>6. i \in 1 .. Len(parts) /\ x \in ToSet(split) /\ x.backend = b /\ (x.cascading => x.parent.ns = k.ns)
  BY <1>0, <1>5 DEF ToSet
<1> HIDE DEF x
<1>7. x = s
  BY <1>1, <1>6 DEF SplitInv, PartsApart
<1> QED
  BY <1>0, <1>1, <1>6, <1>7 DEF x

\* What Relevant takes are parts of kdb->split.
LEMMA RelevantIs ==
    ASSUME split \in Seq(PartType), NEW q \in KeyType
    PROVE  Relevant(q) \in Seq(PartType) /\ ToSet(Relevant(q)) \in SUBSET ToSet(split)
<1> DEFINE S == {s \in ToSet(split) : (s.backend = mountGetBackend(q) /\ IsAbove(s.parent, q)) \/ IsAbove(q, s.parent)}
<1>1. Relevant(q) = Selected(S)
  BY DEF Relevant
<1> HIDE DEF S
<1> QED
  BY <1>1, SelectedIs

\* The loop of splitBuildup takes the part that is responsible for a key at or
\* below the parent key.
LEMMA RelevantTakes ==
    ASSUME split \in Seq(PartType), NEW k \in KeyType, NEW s \in ToSet(split), s \in PartType, Responsible(s, k),
           NEW q \in KeyType, IsAbove(q, k)
    PROVE  s \in ToSet(Relevant(q))
<1> DEFINE S == {x \in ToSet(split) : (x.backend = mountGetBackend(q) /\ IsAbove(x.parent, q)) \/ IsAbove(q, x.parent)}
<1>1. Relevant(q) = Selected(S)
  BY DEF Relevant
<1>2. s \in S
  <2>1. s.parent \in KeyType /\ IsAbove(s.parent, k)
    BY DEF PartType, Responsible
  <2>2. IsAbove(s.parent, q) \/ IsAbove(q, s.parent)
    BY <2>1, Comparable
  <2>3. IsAbove(s.parent, q) => s.backend = mountGetBackend(q)
    BY DEF Responsible
  <2> QED
    BY <2>2, <2>3
<1> HIDE DEF S
<1> QED
  BY <1>1, <1>2, SelectedIs

\* So does splitBuildup, also for a cascading parent key.
LEMMA BuildupTakes ==
    ASSUME split \in Seq(PartType), NEW k \in KeyType, NEW s \in ToSet(split), s \in PartType, Responsible(s, k),
           NEW p, p.ns \in {"/", k.ns}, p.path \in Seq(Seq(Characters)), IsPrefix(p.path, k.path), p = Key(p.ns, p.path)
    PROVE  /\ splitBuildup(p) \in Seq(PartType) /\ s \in ToSet(splitBuildup(p))
           /\ ToSet(splitBuildup(p)) \in SUBSET ToSet(split)
<1> DEFINE path == p.path
           Q(ns) == Key(ns, path)
<1>0. k.ns \in NS /\ "/" \notin NS
  BY DEF KeyType, NS
<1>1. \A ns \in NS : Q(ns) \in KeyType
  BY DEF Key, KeyType
<1>2. IsAbove(Q(k.ns), k)
  BY DEF IsAbove, Key
<1> HIDE DEF Q
<1>3. \A ns \in NS : Relevant(Q(ns)) \in Seq(PartType) /\ ToSet(Relevant(Q(ns))) \in SUBSET ToSet(split)
  BY <1>1, RelevantIs
<1>4. s \in ToSet(Relevant(Q(k.ns)))
  BY <1>0, <1>1, <1>2, RelevantTakes
<1>5. CASE p.ns # "/"
  <2>1. p = Q(k.ns)
    BY <1>5 DEF Q
  <2>2. splitBuildup(p) = Relevant(Q(k.ns))
    BY <1>5, <2>1 DEF splitBuildup
  <2> QED
    BY <1>0, <1>3, <1>4, <2>2
<1>6. CASE p.ns = "/" /\ p.path = <<>>
  BY <1>6 DEF splitBuildup
<1>7. CASE p.ns = "/" /\ p.path # <<>>
  <2> DEFINE q == [i \in 1 .. 4 |-> Relevant(Q(Namespaces[i]))]
             parts == FlattenSeq(q)
  <2>1. splitBuildup(p) = parts
    <3>1. DOMAIN Namespaces = 1 .. 4
      BY DEF Namespaces
    <3> QED
      BY <1>7, <3>1 DEF splitBuildup, Q
  <2>2. /\ Namespaces[1] = "spec" /\ Namespaces[2] = "dir" /\ Namespaces[3] = "user" /\ Namespaces[4] = "system"
        /\ \A i \in 1 .. 4 : Namespaces[i] \in NS
    BY DEF Namespaces, NS
  <2>3. q \in [1 .. 4 -> Seq(PartType)] /\ \A i \in 1 .. 4 : q[i] = Relevant(Q(Namespaces[i]))
    BY <1>3, <2>2
  <2> HIDE DEF q
  <2>4. q \in Seq(Seq(PartType)) /\ Len(q) = 4
    BY <2>3, FunctionIsSeq
  <2>5. /\ parts \in Seq(PartType)
        /\ ToSet(parts) = ToSet(q[1]) \cup ToSet(q[2]) \cup ToSet(q[3]) \cup ToSet(q[4])
    BY <2>4, FlattenFour
  <2> HIDE DEF parts
  <2>6. \A i \in 1 .. 4 : ToSet(q[i]) \in SUBSET ToSet(split)
    BY <1>3, <2>2, <2>3
  <2>7. ToSet(parts) \in SUBSET ToSet(split)
    <3>1. /\ ToSet(q[1]) \in SUBSET ToSet(split) /\ ToSet(q[2]) \in SUBSET ToSet(split)
          /\ ToSet(q[3]) \in SUBSET ToSet(split) /\ ToSet(q[4]) \in SUBSET ToSet(split)
      BY <2>6
    <3> QED
      BY <2>5, <3>1
  <2>8. s \in ToSet(parts)
    <3>1. k.ns = "spec" \/ k.ns = "dir" \/ k.ns = "user" \/ k.ns = "system"
      BY <1>0 DEF NS
    <3>2. /\ q[1] = Relevant(Q("spec")) /\ q[2] = Relevant(Q("dir"))
          /\ q[3] = Relevant(Q("user")) /\ q[4] = Relevant(Q("system"))
      BY <2>2, <2>3
    <3> QED
      BY <1>4, <2>5, <3>1, <3>2
  <2> QED
    BY <2>1, <2>5, <2>7, <2>8
<1> QED
  BY <1>5, <1>6, <1>7

\* splitBuildup, splitSearchBackend: whatever is mounted, kdbGet() and kdbSet()
\* have a part for each key at or below their parent key, the one of the backend
\* to which mountGetBackend() says the key belongs, and it is above the key.  In
\* fallback this takes a configuration that leaves system/elektra free.
THEOREM SpecEveryKeyIsSplit == Spec => []EveryKeyIsSplit
<1>1. MountInv /\ SplitInv => EveryKeyIsSplit
  <2> SUFFICES ASSUME MountInv, SplitInv, pc = "open", inFallback => ElektraIsFree, NEW p \in Parents,
                      NEW k \in AllKeys, p.ns \in {"/", k.ns}, IsPrefix(p.path, k.path),
                      NEW i, i = splitSearchBackend(splitBuildup(p), mountGetBackend(k), k)
               PROVE  i # 0 /\ IsAbove(splitBuildup(p)[i].parent, k)
    BY DEF EveryKeyIsSplit
  <2>1. k \in KeyType /\ p.path \in Seq(Seq(Characters)) /\ p = Key(p.ns, p.path)
    <3>1. Paths \subseteq Seq(Seq(Characters))
      BY MountAssumption DEF MountAssumption
    <3>2. k \in KeyType
      BY <3>1 DEF AllKeys, KeyType
    <3>3. p.path \in Seq(Seq(Characters)) /\ p = Key(p.ns, p.path)
      BY <3>1 DEF Parents, Key
    <3> QED
      BY <3>2, <3>3
  <2>2. split \in Seq(PartType)
    BY DEF MountInv, StateOK
  <2>3. PICK s \in ToSet(split) : Responsible(s, k)
    BY <2>1, ResponsiblePart
  <2>4. s \in PartType
    <3>1. DOMAIN split = 1 .. Len(split) /\ \A j \in 1 .. Len(split) : split[j] \in PartType
      BY <2>2, LenProperties, ElementOfSeq
    <3> QED
      BY <3>1 DEF ToSet
  <2> DEFINE parts == splitBuildup(p)
  <2>5. /\ parts \in Seq(PartType) /\ s \in ToSet(parts) /\ ToSet(parts) \in SUBSET ToSet(split)
    BY <2>1, <2>2, <2>3, <2>4, BuildupTakes
  <2>6. i = splitSearchBackend(parts, mountGetBackend(k), k)
    OBVIOUS
  <2> HIDE DEF parts
  <2>7. i # 0 /\ IsAbove(parts[i].parent, k)
    BY <2>1, <2>3, <2>5, <2>6, SearchFinds
  <2> QED
    BY <2>7 DEF parts
<1> QED
  BY <1>1, PartsInvariance, PTL

=============================================================================
