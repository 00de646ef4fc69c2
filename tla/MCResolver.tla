----------------------------- MODULE MCResolver -----------------------------
(***************************************************************************)
(* Instances of Resolver for TLC.                                          *)
(***************************************************************************)
EXTENDS Resolver

CONSTANTS h1, h2, h3

\* Every handle in a process of its own.
OwnProcess == [h \in Handles |-> h]

NoCrash == {}
AnyPoint == PCs \ {"idle"}
\* Anywhere but between the rename() and the stamp of the old file.
OutsideWindow == PCs \ {"idle", "stamp", "stampold"}
=============================================================================
