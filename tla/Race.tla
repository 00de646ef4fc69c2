-------------------------------- MODULE Race --------------------------------
(***************************************************************************)
(* The race test of the repository, src/tools/race/race.c: every writer    *)
(* retrieves the configuration, adds its key, waits at a barrier until all *)
(* writers have done so, and stores the configuration.  A writer that won  *)
(* retrieves it once more.                                                 *)
(***************************************************************************)
EXTENDS Resolver

CONSTANT Teams     \* the sets of handles that may race

ASSUME TeamsAssumption == Teams \subseteq SUBSET Handles

VARIABLE team      \* the writers of this race

raceVars == <<vars, team>>

\* pthread_barrier_wait: every writer has finished its first kdbGet().
AtBarrier(g) == seq[g] = 1 \/ (Got(g) /\ At(g, "idle"))

FirstGet(h) == ~Got(h) /\ kdbGet(h)
SecondGet(h) == seq[h] = 1 /\ won[h] = 1 /\ kdbGet(h)

writer(h) ==
    \/ FirstGet(h)
    \/ Read(h)
    \/ (\A g \in team : AtBarrier(g)) /\ seq[h] = 0 /\ SetBegin(h)
    \/ SetStep(h)
    \/ SecondGet(h)

RaceInit == Init /\ team \in Teams

RaceNext == \E h \in team : writer(h) /\ UNCHANGED team

RaceSpec == RaceInit /\ [][RaceNext]_raceVars

\* All writers start from the same configuration, so one of them wins the race
\* and all others lose it: two winners would mean that one overwrote the other.
OneWinner ==
    /\ \A g, h \in team : won[g] # 0 /\ won[h] # 0 => g = h
    /\ (\A h \in team : seq[h] = 1 /\ pc[h] = "idle") =>
          \E h \in team : won[h] # 0
=============================================================================
