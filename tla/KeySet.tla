------------------------------- MODULE KeySet -------------------------------
(***************************************************************************)
(* Keysets (src/libs/elektra/keyset.c): sorted arrays of references to     *)
(* reference-counted key objects (key.c), with a cursor inside.            *)
(*                                                                         *)
(* A name is a sequence of numbers that are ordered like the parts they    *)
(* stand for; the first one is the namespace, and 0 is the one of          *)
(* cascading names.  A position counts from 0, as in the source.           *)
(***************************************************************************)
EXTENDS Integers, Sequences, SequencesExt

CONSTANTS
    Keys,         \* the key objects
    Sets,         \* the keyset objects
    NameOf,       \* the name of a key object, fixed as soon as it is in a keyset
    CutPoints,    \* the names ksCut() is called with
    Namespaces,   \* the namespaces, in the order of elektraNamespace
    Browsed,      \* the keysets that applications search and iterate over
    Kept,         \* the keys that applications may keep with keyIncRef()
    Hints,        \* the sizes ksNew() is called with
    MaxLoose,     \* bound: the keys in no keyset when a key is made
    MaxAlloc,     \* bound: the array of a keyset that is duplicated
    KEYSET_SIZE,  \* the least size of an array
    NULL, Junk,   \* the null pointer; what no one has written to the array
    Gone,         \* a keyset that is not allocated
    Moved,        \* trail: the cursor was moved to some key
    Invalid       \* trail: ksPop() has taken the ground from under the cursor

\* What a keyset consists of.  Of the array only the keys and the place behind
\* them have a known content: the null pointer, unless ksClear() has allocated
\* the array.
Keysets ==
    [keys : Seq(Keys), behind : {NULL, Junk}, alloc : Nat, current : Nat,
     cursor : Keys \cup {NULL, Junk}]

ASSUME KeySetAssumption ==
    /\ KEYSET_SIZE \in Nat /\ KEYSET_SIZE > 1
    /\ IsFiniteSet(Sets) /\ Browsed \subseteq Sets /\ Hints \subseteq Nat
    /\ NameOf \in [Keys -> Seq(Nat)]
    /\ Namespaces \in Seq(Nat) /\ 0 \notin ToSet(Namespaces)
    /\ \A k \in Keys : NameOf[k] # <<>> /\ Head(NameOf[k]) \in ToSet(Namespaces)
    /\ CutPoints \subseteq Seq(Nat) \ {<<>>}
    /\ NULL \notin Keys /\ Junk \notin Keys \cup {NULL}
    /\ Gone \notin Keysets
    /\ \A S \in SUBSET Keys : S \notin {Gone, Moved, Invalid}

VARIABLES
    ks,           \* the keysets
    ref,          \* ksReference of the key objects, Freed if not allocated
    own,          \* the keys that applications keep with keyIncRef()
    trail         \* history: the keys that ksNext() returned since ksRewind()

vars == <<ks, ref, own, trail>>

Freed == -1
Live(k) == ref[k] # Freed
IsSet(s) == ks[s] # Gone

-----------------------------------------------------------------------------
(***************************************************************************)
(* Names.                                                                  *)
(***************************************************************************)
Before(m, n) ==
    \/ m # n /\ IsPrefix(m, n)
    \/ \E i \in DOMAIN m \cap DOMAIN n :
         SubSeq(m, 1, i - 1) = SubSeq(n, 1, i - 1) /\ m[i] < n[i]

\* As if the results for a name and a prefix of it were swapped.
keyCompareSwapped(m, n) ==
    IF m = n THEN 0 ELSE IF IsPrefix(n, m) \/ (Before(m, n) /\ ~IsPrefix(m, n)) THEN -1 ELSE 1

keyCompareByName(m, n) == IF m = n THEN 0 ELSE IF Before(m, n) THEN -1 ELSE 1

IsCascading(name) == Head(name) = 0
In(ns, name) == <<ns>> \o Tail(name)
keyIsBelowOrSame(name, n) == IsPrefix(name, n)

-----------------------------------------------------------------------------
(***************************************************************************)
(* References: operators on the reference counters.                        *)
(***************************************************************************)
keyIncRef(r, k) == [r EXCEPT ![k] = @ + 1]
keyDecRef(r, k) == IF r[k] > 0 THEN [r EXCEPT ![k] = @ - 1] ELSE r
keyDel(r, k) == IF r[k] > 0 THEN r ELSE [r EXCEPT ![k] = Freed]
Unref(r, keys) ==
    LET after[i \in 0..Len(keys)] ==
            IF i = 0 THEN r ELSE keyDel(keyDecRef(after[i - 1], keys[i]), keys[i])
    IN after[Len(keys)]

-----------------------------------------------------------------------------
(***************************************************************************)
(* Keysets: operators on one keyset.                                       *)
(***************************************************************************)
Size(x) == Len(x.keys)
At(x, i) ==
    IF i < Size(x) THEN x.keys[i + 1]
    ELSE IF i = Size(x) THEN x.behind ELSE Junk

ksNew(alloc) ==
    [keys |-> <<>>, behind |-> NULL, alloc |-> Max({alloc + 1, KEYSET_SIZE}),
     current |-> 0, cursor |-> NULL]

ksRewind(x) == [x EXCEPT !.current = 0, !.cursor = NULL]
ksGetCursor(x) == IF x.cursor = NULL THEN -1 ELSE x.current
ksSetCursor(x, c) ==
    IF c = -1 THEN ksRewind(x) ELSE [x EXCEPT !.current = c, !.cursor = At(x, c)]

ksNext(x) ==
    IF x.current >= Size(x) THEN x
    ELSE ksSetCursor(x, IF x.cursor = NULL THEN x.current ELSE x.current + 1)

elektraKsPrev(x) ==
    IF Size(x) = 0 THEN x
    ELSE ksSetCursor(x, x.current - 1)

ksResize(x, a) ==
    LET alloc == a + 1
    IN IF alloc = x.alloc \/ alloc < Size(x) THEN x
       ELSE [x EXCEPT !.alloc = Max({alloc, KEYSET_SIZE})]

\* Room for one key more and the null pointer behind it.
MakeRoomLate(x) == IF Size(x) + 1 > x.alloc THEN ksResize(x, x.alloc * 2 - 1) ELSE x
MakeRoom(x) == IF Size(x) + 1 >= x.alloc THEN ksResize(x, x.alloc * 2 - 1) ELSE x

\* The position of the name, or -1 - p if it is to be inserted at p.
ksSearchInternal(x, name) ==
    LET Search[range \in (0..Size(x)) \X (-1..(Size(x) - 1))] ==
            LET left == range[1]
                right == range[2]
                middle == left + ((right - left) \div 2)
                cmp == keyCompareByName(name, NameOf[x.keys[middle + 1]])
            IN IF right < left THEN -left - 1
               ELSE IF cmp > 0 THEN Search[<<middle + 1, right>>]
               ELSE IF cmp = 0 THEN middle ELSE Search[<<left, middle - 1>>]
    IN Search[<<0, Size(x) - 1>>]

\* ksPop() and elektraKsPopAtCursor() without the reference counter.
ksPop(x) ==
    LET y == [x EXCEPT !.keys = Front(@)]
        z == IF Size(y) + 1 < y.alloc \div 2 THEN ksResize(y, y.alloc \div 2 - 1) ELSE y
    IN [z EXCEPT !.behind = NULL]

\* As if the key at the cursor were not moved to the end first.
elektraKsPopTail(x, c) == ksPop(ksRewind(x))

elektraKsPopAtCursor(x, c) ==
    ksPop(ksRewind([x EXCEPT !.keys = Append(RemoveAt(@, c + 1), x.keys[c + 1])]))

\* The cursor of x after the positions from found to it - 1 were cut out; rest
\* is x without them.
CutCursorForgotten(x, rest, found, it) == rest
CutCursorAtFound(x, rest, found, it) ==
    IF x.current < found THEN rest
    ELSE IF x.current < it THEN ksSetCursor(rest, found)
    ELSE IF it >= Size(x) THEN ksRewind(rest) ELSE ksSetCursor(rest, found + x.current - it)

CutCursor(x, rest, found, it) ==
    IF x.current < found THEN rest
    ELSE IF x.current < it
    THEN IF found = 0 THEN ksRewind(rest) ELSE ksSetCursor(rest, found - 1)
    ELSE IF it >= Size(x) THEN ksRewind(rest) ELSE ksSetCursor(rest, found + x.current - it)

\* ksCut() at a name of one namespace: what stays and what is cut out.
Cut(x, name) ==
    LET below(i) == keyIsBelowOrSame(name, NameOf[x.keys[i + 1]])
        found == SelectInSeq(x.keys, LAMBDA k : keyIsBelowOrSame(name, NameOf[k])) - 1
        it == CHOOSE i \in found..Size(x) :
                (\A j \in found..(i - 1) : below(j)) /\ (i < Size(x) => ~below(i))
        rest == [x EXCEPT !.keys = SubSeq(@, 1, found) \o SubSeq(@, it + 1, Size(x)),
                          !.behind = NULL]
    IN IF found = -1 THEN [rest |-> x, cut |-> <<>>]
       ELSE [rest |-> CutCursor(x, rest, found, it), cut |-> SubSeq(x.keys, found + 1, it)]

-----------------------------------------------------------------------------
(***************************************************************************)
(* Operators on the whole state [ks, ref].                                 *)
(***************************************************************************)
State == [ks |-> ks, ref |-> ref]
With(st, s, x) == [st EXCEPT !.ks[s] = x]

ksAppendKey(st, s, k) ==
    LET x == st.ks[s]
        pos == ksSearchInternal(x, NameOf[k])
        at == -pos - 1
        old == x.keys[pos + 1]
        grown == [MakeRoom(x) EXCEPT !.keys = InsertAt(@, at + 1, k),
                                     !.behind = IF at = Size(x) THEN NULL ELSE @]
    IN IF pos < 0
       THEN [ks |-> [st.ks EXCEPT ![s] = ksSetCursor(grown, at)],
             ref |-> keyIncRef(st.ref, k)]
       ELSE IF old = k THEN st
       ELSE [ks |-> [st.ks EXCEPT ![s] = ksSetCursor([x EXCEPT !.keys[pos + 1] = k], pos)],
             ref |-> keyIncRef(keyDel(keyDecRef(st.ref, old), old), k)]

\* The first size that is large enough, by doubling: alloc > 0, and n rounds do.
Doubled(alloc, n) ==
    LET after[i \in 0..n] ==
            IF i = 0 THEN alloc ELSE IF n >= after[i - 1] THEN after[i - 1] * 2 ELSE after[i - 1]
    IN after[n]

ksAppend(st, s, keys) ==
    LET x == st.ks[s]
        resized == ksResize(x, Doubled(x.alloc, Size(x) + Len(keys)) - 1)
        after[i \in 0..Len(keys)] ==
            IF i = 0 THEN With(st, s, resized) ELSE ksAppendKey(after[i - 1], s, keys[i])
    IN IF keys = <<>> THEN st ELSE after[Len(keys)]

\* ksClose() frees the array: ksNext() runs to the end of it and stays there.
ksClose(st, s) == [st EXCEPT !.ks[s] = Gone, !.ref = Unref(@, st.ks[s].keys)]

ksClear(st, s) ==
    [st EXCEPT !.ref = Unref(@, st.ks[s].keys),
               !.ks[s] = [keys |-> <<>>, behind |-> Junk, alloc |-> KEYSET_SIZE,
                          current |-> Size(@), cursor |-> NULL]]

ksCut(st, s, t, name) ==
    LET c == Cut(st.ks[s], name)
        new == [ksNew(Len(c.cut)) EXCEPT !.keys = c.cut]
    IN [st EXCEPT !.ks = [@ EXCEPT ![s] = c.rest, ![t] = new]]

\* What is below the name in one namespace moves to t, by way of a keyset that
\* is deleted then; first as if it were not.
MoveBelowLeaks(st, s, t, name) ==
    LET c == Cut(st.ks[s], name) IN ksAppend(With(st, s, c.rest), t, c.cut)

MoveBelow(st, s, t, name) ==
    LET c == Cut(st.ks[s], name)
    IN [ksAppend(With(st, s, c.rest), t, c.cut) EXCEPT !.ref = Unref(@, c.cut)]

\* ksCut() at a cascading name cuts in one namespace after the other.
ksCutCascading(st, s, t, name) ==
    LET after[i \in 0..Len(Namespaces)] ==
            IF i = 0 THEN With(st, t, ksNew(0))
            ELSE MoveBelow(after[i - 1], s, t, In(Namespaces[i], name))
    IN after[Len(Namespaces)]

-----------------------------------------------------------------------------
(***************************************************************************)
(* What applications do.  They use no key and no keyset after its end.     *)
(***************************************************************************)
Init ==
    /\ ks = [s \in Sets |-> Gone]
    /\ ref = [k \in Keys |-> Freed]
    /\ own = {}
    /\ trail = [s \in Sets |-> {}]

\* The trail begins anew whenever the cursor is before the first key, and
\* forgets the keys that have left the keyset.
From(x, t) ==
    IF x.cursor = NULL /\ x.current = 0 THEN {}
    ELSE IF t \in {Moved, Invalid} THEN t ELSE t \cap ToSet(x.keys)

\* The state becomes st, and t says what the cursor of s stands for.
Become(st, s, t) ==
    /\ ks' = st.ks
    /\ ref' = st.ref
    /\ trail' = [trail EXCEPT ![s] = From(st.ks[s], t)]
    /\ UNCHANGED own

Only(s, x, t) == Become(With(State, s, x), s, t)

\* Appending moves the cursor unless nothing new was appended.
Added(s, st) == IF st.ks[s].keys = ks[s].keys THEN trail[s] ELSE Moved

keyNew(k) ==
    /\ ~Live(k)
    /\ Cardinality({l \in Keys : ref[l] = 0}) < MaxLoose
    /\ ref' = [ref EXCEPT ![k] = 0]
    /\ UNCHANGED <<ks, own, trail>>

Keep(k) ==
    /\ Live(k) /\ k \in Kept \ own
    /\ own' = own \cup {k}
    /\ ref' = keyIncRef(ref, k)
    /\ UNCHANGED <<ks, trail>>

Release(k) ==
    /\ k \in own
    /\ own' = own \ {k}
    /\ ref' = keyDecRef(ref, k)
    /\ UNCHANGED <<ks, trail>>

FreeKey(k) ==
    /\ ref[k] = 0
    /\ ref' = keyDel(ref, k)
    /\ UNCHANGED <<ks, own, trail>>

New(s, hint) ==
    /\ ~IsSet(s)
    /\ Only(s, ksNew(hint), {})

Dup(s, t) ==
    /\ ~IsSet(s) /\ IsSet(t) /\ ks[t].alloc <= MaxAlloc
    /\ LET new == With(State, s, ksNew(Max({ks[t].alloc, KEYSET_SIZE})))
       IN Become(ksAppend(new, s, ks[t].keys), s, Moved)

Del(s) ==
    /\ IsSet(s)
    /\ LET st == ksClose(State, s)
       IN ks' = st.ks /\ ref' = st.ref
    /\ trail' = [trail EXCEPT ![s] = {}]
    /\ UNCHANGED own

\* ksCopy() from a keyset, and with NULL as its source.
Copy(s, t) ==
    /\ IsSet(s) /\ IsSet(t)
    /\ LET cleared == ksClear(State, s)
           full == ksAppend(cleared, s, cleared.ks[t].keys)
       IN Become(With(full, s, ksSetCursor(full.ks[s], ksGetCursor(full.ks[t]))), s, trail[t])

Clear(s) ==
    /\ IsSet(s)
    /\ Become(ksClear(State, s), s, {})

AppendKey(s, k) ==
    /\ IsSet(s) /\ Live(k)
    /\ LET st == ksAppendKey(State, s, k) IN Become(st, s, Added(s, st))

AppendSet(s, t) ==
    /\ IsSet(s) /\ IsSet(t)
    /\ LET st == ksAppend(State, s, ks[t].keys) IN Become(st, s, Added(s, st))

\* ksPop() at the end of an iteration leaves the cursor behind the null pointer.
\* ksCut() of keys before it then takes what is in the array there for a key.
Overrun(x) == x.cursor = NULL /\ x.current > Size(x)

CutSet(s, t, name) ==
    /\ IsSet(s) /\ ~IsSet(t)
    /\ LET st == IF IsCascading(name) THEN ksCutCascading(State, s, t, name)
                 ELSE ksCut(State, s, t, name)
       IN /\ ks' = st.ks
          /\ ref' = st.ref
          /\ trail' = [trail EXCEPT
                 ![s] = From(st.ks[s], IF Overrun(ks[s]) /\ st.ks[s].keys # ks[s].keys
                                       THEN Invalid ELSE @),
                 ![t] = From(st.ks[t], Moved)]
          /\ UNCHANGED own

Pop(s) ==
    /\ IsSet(s) /\ ks[s].keys # <<>>
    /\ Become([State EXCEPT !.ks[s] = ksPop(@), !.ref = keyDecRef(@, Last(ks[s].keys))], s,
              IF ks[s].cursor = Last(ks[s].keys) THEN Invalid ELSE trail[s])

Rewind(s) ==
    /\ IsSet(s)
    /\ Only(s, ksRewind(ks[s]), {})

NextKey(s) ==
    /\ IsSet(s)
    /\ LET x == ksNext(ks[s])
       IN Only(s, x, IF x = ks[s] \/ x.cursor = NULL \/ trail[s] \in {Moved, Invalid}
                     THEN trail[s] ELSE trail[s] \cup {x.cursor})

\* ksLookup() for a name that is not cascading: elektraLookupBinarySearch.
Lookup(s, name) ==
    /\ IsSet(s)
    /\ LET c == ksSearchInternal(ks[s], name)
       IN IF c >= 0 THEN Only(s, ksSetCursor(ks[s], c), Moved)
          ELSE Only(s, ksSetCursor(ks[s], ksGetCursor(ks[s])), trail[s])

\* With KDB_O_POP, where the name is found.
LookupPop(s, name) ==
    /\ IsSet(s)
    /\ LET c == ksSearchInternal(ks[s], name)
       IN /\ c >= 0
          /\ Become([State EXCEPT !.ks[s] = elektraKsPopAtCursor(@, c),
                                  !.ref = keyDecRef(@, ks[s].keys[c + 1])], s, {})

\* With KDB_O_CREATE, where it is not: k is the duplicate.
LookupCreate(s, k) ==
    /\ IsSet(s) /\ ~Live(k)
    /\ ksSearchInternal(ks[s], NameOf[k]) < 0
    /\ Become(ksAppendKey([State EXCEPT !.ref[k] = 0], s, k), s, Moved)

\* With KDB_O_NOALL: elektraLookupLinearSearch goes on from the cursor.
LookupNoAll(s, name) ==
    /\ IsSet(s)
    /\ LET x == ks[s]
           from == IF x.cursor = NULL THEN x.current ELSE x.current + 1
           hits == {c \in from..(Size(x) - 1) : NameOf[x.keys[c + 1]] = name}
       IN IF hits # {} THEN Only(s, ksSetCursor(x, Min(hits)), Moved)
          ELSE Only(s, ksSetCursor(x, ksGetCursor(x)), trail[s])

\* elektraDropCurrentKey() of split.c, in a loop with ksNext().
DropCurrentKey(s) ==
    /\ IsSet(s) /\ ks[s].cursor # NULL /\ ks[s].current < Size(ks[s])
    /\ LET k == ks[s].cursor
           c == ksGetCursor(ks[s])
           x == ksSetCursor(elektraKsPopAtCursor(ks[s], c), c)
       IN Become([State EXCEPT !.ks[s] = elektraKsPrev(x), !.ref = keyDel(keyDecRef(@, k), k)],
                 s, trail[s])

Names == {NameOf[k] : k \in Keys}

Next ==
    \/ \E k \in Keys : keyNew(k) \/ Keep(k) \/ Release(k) \/ FreeKey(k)
    \/ \E s \in Sets : Del(s) \/ Clear(s) \/ \E h \in Hints : New(s, h)
    \/ \E s, t \in Sets : Dup(s, t) \/ Copy(s, t) \/ (s # t /\ AppendSet(s, t))
    \/ \E s \in Browsed, k \in Keys : AppendKey(s, k)
    \/ \E s, t \in Sets, name \in CutPoints : CutSet(s, t, name)
    \/ \E s \in Browsed :
         \/ Pop(s) \/ Rewind(s) \/ NextKey(s) \/ DropCurrentKey(s)
         \/ \E name \in Names : Lookup(s, name) \/ LookupPop(s, name) \/ LookupNoAll(s, name)
         \/ \E k \in Keys : LookupCreate(s, k)

Spec == Init /\ [][Next]_vars

-----------------------------------------------------------------------------
(***************************************************************************)
(* Properties.                                                             *)
(***************************************************************************)
Members(s) == IF IsSet(s) THEN ToSet(ks[s].keys) ELSE {}

\* The reference counter of a key is the number of keysets it is in, and one
\* more if an application keeps it.  No key in a keyset is freed.
RefCounts ==
    \A k \in Keys :
        LET users == Cardinality({s \in Sets : k \in Members(s)}) + (IF k \in own THEN 1 ELSE 0)
        IN IF Live(k) THEN ref[k] = users ELSE users = 0

\* Every keyset is sorted by name and holds each name once, as the binary
\* searches of ksAppendKey() and ksLookup() need it.
Sorted ==
    \A s \in Sets : IsSet(s) =>
        \A i, j \in DOMAIN ks[s].keys :
            i < j => Before(NameOf[ks[s].keys[i]], NameOf[ks[s].keys[j]])

\* There is always room for the null pointer behind the keys, and it is there
\* whenever ksNext() or ksClose() could run into it.
Terminated ==
    \A s \in Sets : IsSet(s) =>
        /\ Size(ks[s]) < ks[s].alloc
        /\ ks[s].keys # <<>> => ks[s].behind = NULL

\* The cursor is at the key of its position, or it is at neither key, and its
\* position is never moved below 0 (it is unsigned in the source).  It is
\* invalid only after ksPop() of the key it was at, or after ksPop() at the end
\* of an iteration and then ksCut() of a part of what was left.
CursorValid ==
    \A s \in Sets : IsSet(s) /\ trail[s] # Invalid =>
        LET x == ks[s]
        IN /\ x.current \in Nat
           /\ IF x.cursor = NULL THEN x.current = 0 \/ x.current >= Size(x)
              ELSE x.current < Size(x) /\ x.cursor = x.keys[x.current + 1]

\* Iterating with ksNext() comes past every key once, also when keys are
\* dropped, cut out, popped from the end or looked up in vain meanwhile: the
\* keys seen since the last rewind are those up to the cursor.
SeenUpToCursor ==
    \A s \in Sets : IsSet(s) /\ trail[s] \notin {Moved, Invalid} =>
        LET x == ks[s]
            n == IF x.cursor # NULL THEN x.current + 1
                 ELSE IF x.current = 0 THEN 0 ELSE x.current
        IN \A i \in DOMAIN x.keys : x.keys[i] \in trail[s] <=> i <= n

\* Keysets implement sets of keys with different names that own their keys.
Map == INSTANCE KeyMap WITH
    content <- [s \in Sets |-> IF IsSet(s) THEN Members(s) ELSE Gone],
    live <- {k \in Keys : Live(k)},
    IsBelow <- LAMBDA m, n : IF IsCascading(m) THEN IsPrefix(Tail(m), Tail(n)) ELSE IsPrefix(m, n)
MapSpec == Map!Spec
=============================================================================
