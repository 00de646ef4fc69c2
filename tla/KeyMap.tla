------------------------------- MODULE KeyMap -------------------------------
(***************************************************************************)
(* What keysets promise to those who only see their content: a keyset is a *)
(* set of key objects with different names, keysets may share key objects, *)
(* and a key object lives exactly as long as someone has it.               *)
(***************************************************************************)
CONSTANTS
    Keys,        \* the key objects
    Sets,        \* the keyset objects
    NameOf,      \* the name of a key object
    CutPoints,   \* names to cut at
    IsBelow(_, _),  \* is the second name the first one or below it?
    Gone         \* a keyset that is not allocated

VARIABLES
    content,     \* the keys of a keyset
    live,        \* the key objects that are allocated
    own          \* the key objects that applications keep a reference to

vars == <<content, live, own>>

IsSet(s) == content[s] # Gone
Owners(c, o, k) == {s \in Sets : c[s] # Gone /\ k \in c[s]} # {} \/ k \in o

\* S with the keys of T, which replace those of the same name.
Override(S, T) == {k \in S : \A t \in T : NameOf[t] # NameOf[k]} \cup T

Init ==
    /\ content = [s \in Sets |-> Gone]
    /\ live = {}
    /\ own = {}

\* The keysets change to c.  The keys in D lose an owner and die with the last.
Become(c, D) ==
    /\ content' = c
    /\ live' = {k \in live : k \in D => Owners(c, own, k)}
    /\ UNCHANGED own

Contents(s) == IF IsSet(s) THEN content[s] ELSE {}
Replace(s, S) == Become([content EXCEPT ![s] = S], Contents(s))

\* Key objects: allocated, kept, given back and freed by applications.
NewKey(k) == k \notin live /\ live' = live \cup {k} /\ UNCHANGED <<content, own>>
Keep(k) == k \in live \ own /\ own' = own \cup {k} /\ UNCHANGED <<content, live>>
Release(k) == k \in own /\ own' = own \ {k} /\ UNCHANGED <<content, live>>
FreeKey(k) == Become(content, {k})

\* Keysets: allocated, freed, filled and emptied.
New(s) == ~IsSet(s) /\ Replace(s, {})
Del(s) == IsSet(s) /\ Replace(s, Gone)
Clear(s) == IsSet(s) /\ Replace(s, {})
Put(s, k) == IsSet(s) /\ k \in live /\ Replace(s, Override(content[s], {k}))
Create(s, k) ==
    /\ IsSet(s) /\ k \notin live
    /\ \A m \in content[s] : NameOf[m] # NameOf[k]
    /\ content' = [content EXCEPT ![s] = @ \cup {k}]
    /\ live' = live \cup {k}
    /\ UNCHANGED own
Append(s, t) == IsSet(s) /\ IsSet(t) /\ Replace(s, Override(content[s], content[t]))
Copy(s, t) == IsSet(s) /\ IsSet(t) /\ s # t /\ Replace(s, content[t])
Dup(s, t) == ~IsSet(s) /\ IsSet(t) /\ Replace(s, content[t])
Remove(s, k) == IsSet(s) /\ k \in content[s] /\ Replace(s, content[s] \ {k})

\* A key that is taken out lives on, even if nobody else has it.
Take(s, k) ==
    /\ IsSet(s) /\ k \in content[s]
    /\ Become([content EXCEPT ![s] = @ \ {k}], {})

\* What is below a name moves into another keyset.
Cut(s, t, name) ==
    /\ IsSet(s) /\ ~IsSet(t)
    /\ LET below == {k \in content[s] : IsBelow(name, NameOf[k])}
       IN Become([content EXCEPT ![s] = @ \ below, ![t] = below], {})

Next ==
    \/ \E k \in Keys : NewKey(k) \/ Keep(k) \/ Release(k) \/ FreeKey(k)
    \/ \E s \in Sets : New(s) \/ Del(s) \/ Clear(s)
    \/ \E s \in Sets, k \in Keys : Put(s, k) \/ Create(s, k) \/ Remove(s, k) \/ Take(s, k)
    \/ \E s, t \in Sets : Append(s, t) \/ Copy(s, t) \/ Dup(s, t)
    \/ \E s, t \in Sets, name \in CutPoints : Cut(s, t, name)

Spec == Init /\ [][Next]_vars
=============================================================================
