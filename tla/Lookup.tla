------------------------------- MODULE Lookup -------------------------------
(***************************************************************************)
(* ksLookup() of a cascading key (src/libs/elektra/keyset.c): which key an *)
(* application gets for a path, by the namespaces and by the metadata      *)
(* override/#, namespace/#, fallback/# and default of the specification.   *)
(*                                                                         *)
(* A name is a pair of a namespace and a path; "/" is the namespace of     *)
(* cascading names.                                                        *)
(***************************************************************************)
EXTENDS Naturals, Sequences, FiniteSets, FiniteSetsExt, SequencesExt

CONSTANTS
    Paths,       \* the paths below the namespaces
    Contents,    \* the keysets to start with: sets of names
    Specs,       \* the metadata of the spec keys: functions from paths to records
    OptionSets,  \* the options applications pass
    Depth,       \* bound: nested calls of ksLookup() that the stack has room for
    NULL, Overflow

VARIABLES
    meta,        \* the metadata of the spec keys
    keys,        \* the names in the keyset
    first,       \* history: the names when the application changed the keyset last
    last         \* the last call: path, options, the names before it, the result

vars == <<meta, keys, first, last>>

Order == <<"proc", "dir", "user", "system">>
Namespaces == {"spec", "proc", "dir", "user", "system"}
Names == (Namespaces \cup {"/"}) \X Paths
IsCascading(n) == n[1] = "/"

Metadata == [override: Seq(Names), namespaces: Seq(Namespaces), fallback: Seq(Names), default: BOOLEAN]

\* The stack is deep enough for every chain of links without a cycle.
ASSUME LookupAssumption ==
    /\ Specs \subseteq [Paths -> Metadata]
    /\ \A S \in Contents : S \subseteq Names
    /\ IsFiniteSet(Paths) /\ Depth \in Nat /\ Cardinality(Paths) <= Depth + 1
    /\ NULL \notin Names \cup Paths \cup {Overflow}
    /\ Overflow \notin Names

HasSpec(S, p) == <<"spec", p>> \in S

\* The first of the results that is not NULL.
FirstOf(results) ==
    LET hits == {i \in DOMAIN results : results[i] # NULL}
    IN IF hits = {} THEN NULL ELSE results[Min(hits)]

\* elektraLookupBinarySearch for each namespace in turn.
Exact(S, n) == IF n \in S THEN n ELSE NULL
InNamespaces(S, p, namespaces) == FirstOf([i \in DOMAIN namespaces |-> Exact(S, <<namespaces[i], p>>)])

-----------------------------------------------------------------------------
(***************************************************************************)
(* elektraLookupBySpec without the default, and the calls of ksLookup()    *)
(* with KDB_O_NODEFAULT that it makes for links, which come back to it.    *)
(***************************************************************************)
\* As if a specified namespace did not replace the order of all namespaces.
BySpecNamespacesAndAll(S, p) ==
    FirstOf(<<InNamespaces(S, p, meta[p].namespaces), InNamespaces(S, p, Order)>>)

\* As if the order of all namespaces were searched without KDB_O_NOSPEC.
BySpecNamespacesWithSpec(S, p) ==
    IF meta[p].namespaces = <<>> THEN (IF HasSpec(S, p) THEN Overflow ELSE InNamespaces(S, p, Order))
    ELSE InNamespaces(S, p, meta[p].namespaces)

elektraLookupBySpecNamespaces(S, p) ==
    IF meta[p].namespaces = <<>> THEN InNamespaces(S, p, Order)
    ELSE InNamespaces(S, p, meta[p].namespaces)

\* As if links were followed without KDB_O_NODEFAULT.
ByLinkWithDefault(S, name) ==
    LET p == name[2]
    IN IF IsCascading(name)
       THEN FirstOf(<<elektraLookupBySpecNamespaces(S, p), Exact(S, name)>>) ELSE Exact(S, name)

\* What a link leads to.
ByLink(S, name) ==
    LET Link[d \in 0..Depth] == [n \in Names |->
            LET p == n[2]
                links(l) == FirstOf([i \in DOMAIN l |-> Link[d - 1][l[i]]])
            IN IF ~IsCascading(n) THEN Exact(S, n)
               ELSE IF ~HasSpec(S, p) THEN InNamespaces(S, p, Order)
               ELSE IF d = 0 THEN Overflow
               ELSE FirstOf(<<links(meta[p].override),
                              elektraLookupBySpecNamespaces(S, p),
                              links(meta[p].fallback)>>)]
    IN Link[Depth][name]

elektraLookupBySpecLinks(S, links) == FirstOf([i \in DOMAIN links |-> ByLink(S, links[i])])

-----------------------------------------------------------------------------
(***************************************************************************)
(* ksLookup() of the cascading name of p: what is found, and the keyset    *)
(* afterwards.                                                             *)
(***************************************************************************)
Result(found, S) == [found |-> found, keys |-> S]

\* KDB_O_POP takes the key out that a binary search finds.
Popped(S, n, options) == IF "POP" \in options THEN S \ {n} ELSE S

elektraLookupBySpec(S, p, options) ==
    LET n == <<"/", p>>
        found == FirstOf(<<elektraLookupBySpecLinks(S, meta[p].override),
                           elektraLookupBySpecNamespaces(S, p),
                           elektraLookupBySpecLinks(S, meta[p].fallback)>>)
    IN IF found # NULL \/ "NODEFAULT" \in options THEN Result(found, S)
       ELSE IF n \in S THEN Result(n, S)
       ELSE IF meta[p].default THEN Result(n, S \cup {n}) ELSE Result(NULL, S)

elektraLookupByCascading(S, p, options) ==
    LET n == <<"/", p>>
        found == FirstOf(<<InNamespaces(S, p, Order),
                           IF "NODEFAULT" \in options THEN NULL ELSE Exact(S, n)>>)
    IN IF "NOSPEC" \notin options /\ HasSpec(S, p)
       THEN elektraLookupBySpec(Popped(S, <<"spec", p>>, options), p, options)
       ELSE Result(found, Popped(S, found, options))

ksLookup(S, p, options) ==
    LET r == elektraLookupByCascading(S, p, options)
        n == <<"/", p>>
    IN IF r.found = NULL /\ "CREATE" \in options THEN Result(n, r.keys \cup {n}) ELSE r

-----------------------------------------------------------------------------
Called == last.path # NULL

Init ==
    /\ meta \in Specs
    /\ keys \in Contents
    /\ first = keys
    /\ last = [path |-> NULL]

Call(p, options) ==
    LET r == ksLookup(keys, p, options)
    IN /\ Called => last.found # Overflow
       /\ keys' = r.keys
       /\ last' = [path |-> p, options |-> options, before |-> keys, found |-> r.found]
       /\ first' = IF options \cap {"POP", "CREATE"} = {} THEN first ELSE r.keys
       /\ UNCHANGED meta

Next == \E p \in Paths, options \in OptionSets : Call(p, options)

Spec == Init /\ [][Next]_vars

-----------------------------------------------------------------------------
(***************************************************************************)
(* The names a lookup considers, in one list: links are replaced by what   *)
(* they stand for, up to a nesting of d.                                   *)
(***************************************************************************)
In(namespaces, p) == [i \in DOMAIN namespaces |-> <<namespaces[i], p>>]

Candidates(S, path) ==
    LET C[d \in 0..(Depth + 1)] == [n \in Names |->
            LET m == meta[n[2]]
                all(links) == FlattenSeq([i \in DOMAIN links |-> C[d - 1][links[i]]])
            IN IF ~IsCascading(n) THEN <<n>>
               ELSE IF ~HasSpec(S, n[2]) THEN In(Order, n[2])
               ELSE IF d = 0 THEN <<Overflow>>
               ELSE all(m.override) \o In(IF m.namespaces = <<>> THEN Order ELSE m.namespaces, n[2])
                      \o all(m.fallback)]
    IN C[Depth + 1][<<"/", path>>]

\* A lookup returns the first key of the keyset in the order that the
\* specification prescribes, the default if there is none, and the default
\* only for the path that was asked for, never for a path it is linked to.
FindsFirst ==
    Called /\ "POP" \notin last.options =>
        LET p == last.path
            S == IF "NOSPEC" \in last.options THEN last.before \ {<<"spec", p>>} ELSE last.before
            names == Candidates(S, p)
            hits == {i \in DOMAIN names : names[i] \in S \cup {Overflow}}
            given == <<"/", p>> \in S \/ (HasSpec(S, p) /\ meta[p].default)
        IN last.found = IF hits # {} THEN names[Min(hits)]
                        ELSE IF "CREATE" \in last.options \/ (given /\ "NODEFAULT" \notin last.options)
                        THEN <<"/", p>> ELSE NULL

\* Lookups do not influence each other: the defaults that earlier ones have
\* added to the keyset are seen only by one that ignores the specification.
Independent ==
    Called /\ last.options \cap {"POP", "CREATE"} = {} =>
        \/ last.found = ksLookup(first, last.path, last.options).found
        \/ last.found = <<"/", last.path>> /\ "NOSPEC" \in last.options

\* Only links that lead back to where they start exhaust the stack.
LinksTo(S, p, q) ==
    HasSpec(S, p) /\ \E l \in {meta[p].override, meta[p].fallback} : <<"/", q>> \in ToSet(l)
HasCycle(S) ==
    \E n \in 1..Cardinality(Paths) : \E c \in [0..n -> Paths] :
        c[n] = c[0] /\ \A i \in 1..n : LinksTo(S, c[i - 1], c[i])
OverflowNeedsCycle == Called /\ last.found = Overflow => HasCycle(last.before)
=============================================================================
