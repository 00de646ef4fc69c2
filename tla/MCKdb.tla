------------------------------- MODULE MCKdb -------------------------------
(***************************************************************************)
(* Instances of Kdb for TLC: two keys in backend 1, one in backend 2.      *)
(***************************************************************************)
EXTENDS Kdb

CONSTANTS a, b, c

TwoBackends == [k \in Keys |-> IF k = c THEN 2 ELSE 1]
AllBackends == {Backends}
FirstOrAll == {{1}, Backends}
AnyBackends == {{1}, {2}, Backends}
=============================================================================
