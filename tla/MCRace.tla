------------------------------- MODULE MCRace -------------------------------
(***************************************************************************)
(* An instance of Race for TLC: h1, h2 and h3 are threads of one process,  *)
(* h4 and h5 belong to processes of their own.                             *)
(***************************************************************************)
EXTENDS Race

CONSTANTS h1, h2, h3, h4, h5

OwnProcesses == [h \in Handles |-> IF h \in {h2, h3} THEN h1 ELSE h]
NoCrash == {}

\* A race of processes, or of threads.
Pure == {{h1, h4, h5}, {h1, h2, h3}}
\* Two threads of one process, and another process.
Mixed == {{h1, h2, h4}}
=============================================================================
