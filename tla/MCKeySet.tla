------------------------------ MODULE MCKeySet ------------------------------
(***************************************************************************)
(* Instances of KeySet for TLC.                                            *)
(***************************************************************************)
EXTENDS KeySet

CONSTANTS ka, ka2, kab, kc

\* Two key objects with one name, a name below it, and a name in the namespace
\* before.
Names4 == [k \in Keys |-> CASE k \in {ka, ka2} -> <<2, 1>> [] k = kab -> <<2, 1, 1>> [] k = kc -> <<1, 1>>]
Cuts == {<<2, 1>>, <<1>>, <<0, 1>>}
TwoNamespaces == <<2, 1>>
\* Nothing but their identity tells ka and ka2 apart.
SameName == Permutations({ka, ka2})
=============================================================================
