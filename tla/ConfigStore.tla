----------------------------- MODULE ConfigStore -----------------------------
(***************************************************************************)
(* What the resolver promises to the applications that share one           *)
(* configuration file: an optimistically shared register.  An application  *)
(* retrieves the stored keyset, and it may publish another one only while  *)
(* the stored keyset is still the one it retrieved or published last.      *)
(* Otherwise kdbSet() reports a conflict and stores nothing                *)
(* (doc/help/elektra-algorithm.md: "In order not to lose any data,         *)
(* kdbSet() fails without doing anything").                                *)
(***************************************************************************)
CONSTANTS
    Handles,    \* the KDB handles of all applications
    KeySets,    \* the keysets they can store
    NoKs        \* what a handle has seen that never retrieved anything

VARIABLES
    store,      \* the keyset every application would read now
    base        \* per handle: the keyset it saw last

vars == <<store, base>>

Init ==
    /\ store \in KeySets
    /\ base = [h \in Handles |-> NoKs]

\* kdbGet() hands the stored keyset to h.
Retrieve(h) ==
    /\ base' = [base EXCEPT ![h] = store]
    /\ UNCHANGED store

\* kdbSet() replaces a keyset that h knows.
Publish(h, ks) ==
    /\ base[h] = store
    /\ store' = ks
    /\ base' = [base EXCEPT ![h] = ks]

\* kdbOpen() in applications that start anew.
Reopen(H) ==
    /\ base' = [h \in Handles |-> IF h \in H THEN NoKs ELSE base[h]]
    /\ UNCHANGED store

Next ==
    \/ \E h \in Handles : Retrieve(h) \/ \E ks \in KeySets : Publish(h, ks)
    \/ \E H \in SUBSET Handles : Reopen(H)

Spec == Init /\ [][Next]_vars
=============================================================================
