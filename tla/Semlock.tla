------------------------------- MODULE Semlock -------------------------------
(***************************************************************************)
(* The semlock plugin (src/plugins/semlock/semlock.c): a lock for readers  *)
(* and writers made of named POSIX semaphores.                             *)
(*                                                                         *)
(* A step is one call on a semaphore.  A semaphore that was unlinked lives *)
(* on for the handles that have it open, and the next sem_open() of its    *)
(* name makes another one: the semaphores of a name are numbered.          *)
(***************************************************************************)
EXTENDS Integers, Sequences, FiniteSets

CONSTANTS
    Handles,      \* the KDB handles that use the plugin
    MaxInstances, \* bound: semaphores that are made under one name
    Reopening     \* may a handle open the plugin after another has closed it?

ASSUME SemlockAssumption ==
    /\ IsFiniteSet(Handles)
    /\ MaxInstances \in Nat \ {0}
    /\ Reopening \in BOOLEAN

VARIABLES
    sem,         \* the value of each semaphore, by name and number
    made,        \* how many semaphores a name has had
    linked,      \* the semaphore a name stands for, 0 if none
    ref,         \* the semaphore a handle has open under a name, 0 if none
    state,       \* data->state: is the next call of the plugin PRE or POST?
    pc,          \* the next step of the plugin, "out" between its calls
    k,           \* the names that Open or Close has dealt with
    held         \* history: what the handle's last call of the plugin locked

semVars == <<sem, made, linked, ref>>
semlockVars == <<semVars, state, pc, k, held>>

\* The names in the order in which elektraSemlockOpen opens them and in which
\* elektraSemlockClose unlinks them.
OpenOrder == <<"tryRead", "read", "write", "access", "readCount", "writeCount">>
UnlinkOrder == <<"readCount", "writeCount", "read", "write", "tryRead", "access">>
Names == {"tryRead", "read", "write", "access", "readCount", "writeCount", "sem_mutex"}
InitialValue(n) == IF n \in {"readCount", "writeCount"} THEN 0 ELSE 1

OpenPCs == {"openWait", "openNames"}
ClosePCs == {"close", "closeNames", "closeMutex"}
PrePCs == {"getPRE", "getPRE_read", "getPRE_count", "getPRE_value", "getPRE_access",
           "getPRE_postRead", "getPRE_postTryRead", "setPRE", "setPRE_count",
           "setPRE_value", "setPRE_tryRead", "setPRE_postWrite", "setPRE_access"}
PostPCs == {"getPOST", "getPOST_count", "getPOST_value", "getPOST_access",
            "getPOST_postRead", "setPOST", "setPOST_write", "setPOST_count",
            "setPOST_value", "setPOST_tryRead", "setPOST_postWrite"}
PCs == {"new", "out", "gone"} \cup OpenPCs \cup ClosePCs \cup PrePCs \cup PostPCs

SemlockInit ==
    /\ sem = [n \in Names |-> [i \in 1..MaxInstances |-> InitialValue(n)]]
    /\ made = [n \in Names |-> 0]
    /\ linked = [n \in Names |-> 0]
    /\ ref = [h \in Handles |-> [n \in Names |-> 0]]
    /\ state = [h \in Handles |-> "PRE"]
    /\ pc = [h \in Handles |-> "new"]
    /\ k = [h \in Handles |-> 0]
    /\ held = [h \in Handles |-> "nothing"]

-----------------------------------------------------------------------------
(***************************************************************************)
(* POSIX semaphores.                                                       *)
(***************************************************************************)
Value(h, n) == sem[n][ref[h][n]]
Goto(h, from, to) == pc[h] = from /\ pc' = [pc EXCEPT ![h] = to]
Change(h, n, d) == sem' = [sem EXCEPT ![n][ref[h][n]] = @ + d]

\* It succeeds: handles of processes in which it always fails never get here
\* (Denied in GlobalHooks).
sem_open(h, n) ==
    /\ \/ linked[n] # 0 /\ UNCHANGED <<made, linked>>
       \/ /\ linked[n] = 0
          /\ made[n] < MaxInstances
          /\ made' = [made EXCEPT ![n] = @ + 1]
          /\ linked' = [linked EXCEPT ![n] = made[n] + 1]
    /\ ref' = [ref EXCEPT ![h][n] = linked'[n]]
    /\ UNCHANGED sem

sem_unlink(n) ==
    /\ linked' = [linked EXCEPT ![n] = 0]
    /\ UNCHANGED <<sem, made>>

sem_wait(h, from, n, to) ==
    /\ Goto(h, from, to)
    /\ Value(h, n) > 0
    /\ Change(h, n, -1)
    /\ UNCHANGED <<made, linked, ref, state, k>>

sem_post(h, from, n, to) ==
    /\ Goto(h, from, to)
    /\ Change(h, n, 1)
    /\ UNCHANGED <<made, linked, ref, state, k>>

\* sem_getvalue() and the test of its result that follows.
sem_getvalue(h, from, n, value, then, else) ==
    /\ Goto(h, from, IF Value(h, n) = value THEN then ELSE else)
    /\ UNCHANGED <<semVars, state, k>>

-----------------------------------------------------------------------------
(***************************************************************************)
(* elektraSemlockOpen and elektraSemlockClose.                             *)
(***************************************************************************)
Closing(h) == pc[h] \in ClosePCs \cup {"gone"}

OpenMutex(h) ==
    /\ Goto(h, "new", "openWait")
    /\ Reopening \/ \A g \in Handles : ~Closing(g)
    /\ sem_open(h, "sem_mutex")
    /\ UNCHANGED <<state, k, held>>

OpenName(h) ==
    /\ pc[h] = "openNames"
    /\ k[h] < Len(OpenOrder)
    /\ sem_open(h, OpenOrder[k[h] + 1])
    /\ k' = [k EXCEPT ![h] = @ + 1]
    /\ UNCHANGED <<state, pc, held>>

OpenEnd(h) ==
    /\ Goto(h, "openNames", "out")
    /\ k[h] = Len(OpenOrder)
    /\ Change(h, "sem_mutex", 1)
    /\ k' = [k EXCEPT ![h] = 0]
    /\ UNCHANGED <<made, linked, ref, state, held>>

elektraSemlockOpen(h) ==
    \/ OpenMutex(h)
    \/ sem_wait(h, "openWait", "sem_mutex", "openNames") /\ UNCHANGED held
    \/ OpenName(h)
    \/ OpenEnd(h)

\* sem_close() of all semaphores but the mutex comes first and concerns nobody
\* else.
CloseBegin(h) ==
    /\ Goto(h, "out", "close")
    /\ Reopening \/ \A g \in Handles : pc[g] \notin OpenPCs
    /\ ref' = [ref EXCEPT ![h] = [n \in Names |-> IF n = "sem_mutex" THEN @[n] ELSE 0]]
    /\ UNCHANGED <<sem, made, linked, state, k, held>>

CloseName(h) ==
    /\ pc[h] = "closeNames"
    /\ k[h] < Len(UnlinkOrder)
    /\ sem_unlink(UnlinkOrder[k[h] + 1])
    /\ k' = [k EXCEPT ![h] = @ + 1]
    /\ UNCHANGED <<ref, state, pc, held>>

ClosePost(h) ==
    /\ Goto(h, "closeNames", "closeMutex")
    /\ k[h] = Len(UnlinkOrder)
    /\ Change(h, "sem_mutex", 1)
    /\ k' = [k EXCEPT ![h] = 0]
    /\ UNCHANGED <<made, linked, ref, state, held>>

CloseMutex(h) ==
    /\ Goto(h, "closeMutex", "gone")
    /\ sem_unlink("sem_mutex")
    /\ ref' = [ref EXCEPT ![h]["sem_mutex"] = 0]
    /\ UNCHANGED <<state, k, held>>

elektraSemlockClose(h) ==
    \/ sem_wait(h, "close", "sem_mutex", "closeNames") /\ UNCHANGED held
    \/ CloseName(h)
    \/ ClosePost(h)
    \/ CloseMutex(h)

-----------------------------------------------------------------------------
(***************************************************************************)
(* elektraSemlockGet and elektraSemlockSet.  A call is PRE or POST by      *)
(* data->state alone, which it toggles.                                    *)
(***************************************************************************)
Enter(h, pre, post) ==
    /\ Goto(h, "out", IF state[h] = "PRE" THEN pre ELSE post)
    /\ state' = [state EXCEPT ![h] = IF @ = "PRE" THEN "POST" ELSE "PRE"]
    /\ held' = [held EXCEPT ![h] = IF state[h] = "PRE" THEN @ ELSE "nothing"]
    /\ UNCHANGED <<semVars, k>>

GetEnter(h) == Enter(h, "getPRE", "getPOST")
SetEnter(h) == Enter(h, "setPRE", "setPOST")

\* Variants of the steps below as a plausible error would have them.
GetPREForgetsAccess(h) ==
    /\ \/ sem_wait(h, "getPRE", "tryRead", "getPRE_read")
       \/ sem_wait(h, "getPRE_read", "read", "getPRE_count")
       \/ sem_post(h, "getPRE_count", "readCount", "getPRE_postRead")
       \/ sem_post(h, "getPRE_postRead", "read", "getPRE_postTryRead")
    /\ UNCHANGED held

GetPOSTAlwaysPosts(h) ==
    /\ \/ sem_wait(h, "getPOST", "read", "getPOST_count")
       \/ sem_wait(h, "getPOST_count", "readCount", "getPOST_access")
       \/ sem_post(h, "getPOST_access", "access", "getPOST_postRead")
       \/ sem_post(h, "getPOST_postRead", "read", "out")
    /\ UNCHANGED held

SetPRELetsReadersIn(h) ==
    /\ \/ sem_wait(h, "setPRE", "write", "setPRE_count")
       \/ sem_post(h, "setPRE_count", "writeCount", "setPRE_postWrite")
       \/ sem_post(h, "setPRE_postWrite", "write", "setPRE_access")
    /\ UNCHANGED held

SetPOSTKeepsReadersOut(h) ==
    /\ \/ sem_post(h, "setPOST", "access", "setPOST_write")
       \/ sem_wait(h, "setPOST_write", "write", "setPOST_count")
       \/ sem_wait(h, "setPOST_count", "writeCount", "setPOST_postWrite")
       \/ sem_post(h, "setPOST_postWrite", "write", "out")
    /\ UNCHANGED held

GetPRE(h) ==
    /\ \/ sem_wait(h, "getPRE", "tryRead", "getPRE_read")
       \/ sem_wait(h, "getPRE_read", "read", "getPRE_count")
       \/ sem_post(h, "getPRE_count", "readCount", "getPRE_value")
       \/ sem_getvalue(h, "getPRE_value", "readCount", 1, "getPRE_access", "getPRE_postRead")
       \/ sem_wait(h, "getPRE_access", "access", "getPRE_postRead")
       \/ sem_post(h, "getPRE_postRead", "read", "getPRE_postTryRead")
    /\ UNCHANGED held

GetLocked(h) ==
    /\ sem_post(h, "getPRE_postTryRead", "tryRead", "out")
    /\ held' = [held EXCEPT ![h] = "read"]

GetPOST(h) ==
    /\ \/ sem_wait(h, "getPOST", "read", "getPOST_count")
       \/ sem_wait(h, "getPOST_count", "readCount", "getPOST_value")
       \/ sem_getvalue(h, "getPOST_value", "readCount", 0, "getPOST_access", "getPOST_postRead")
       \/ sem_post(h, "getPOST_access", "access", "getPOST_postRead")
       \/ sem_post(h, "getPOST_postRead", "read", "out")
    /\ UNCHANGED held

SetPRE(h) ==
    /\ \/ sem_wait(h, "setPRE", "write", "setPRE_count")
       \/ sem_post(h, "setPRE_count", "writeCount", "setPRE_value")
       \/ sem_getvalue(h, "setPRE_value", "writeCount", 1, "setPRE_tryRead", "setPRE_postWrite")
       \/ sem_wait(h, "setPRE_tryRead", "tryRead", "setPRE_postWrite")
       \/ sem_post(h, "setPRE_postWrite", "write", "setPRE_access")
    /\ UNCHANGED held

SetLocked(h) ==
    /\ sem_wait(h, "setPRE_access", "access", "out")
    /\ held' = [held EXCEPT ![h] = "write"]

SetPOST(h) ==
    /\ \/ sem_post(h, "setPOST", "access", "setPOST_write")
       \/ sem_wait(h, "setPOST_write", "write", "setPOST_count")
       \/ sem_wait(h, "setPOST_count", "writeCount", "setPOST_value")
       \/ sem_getvalue(h, "setPOST_value", "writeCount", 0, "setPOST_tryRead", "setPOST_postWrite")
       \/ sem_post(h, "setPOST_tryRead", "tryRead", "setPOST_postWrite")
       \/ sem_post(h, "setPOST_postWrite", "write", "out")
    /\ UNCHANGED held

PluginStep(h) ==
    \/ elektraSemlockOpen(h)
    \/ elektraSemlockClose(h)
    \/ GetPRE(h) \/ GetLocked(h) \/ GetPOST(h)
    \/ SetPRE(h) \/ SetLocked(h) \/ SetPOST(h)

-----------------------------------------------------------------------------
(***************************************************************************)
(* The clients the plugin is written for: they call it in pairs, two times *)
(* Get or two times Set, and close it after a pair.                        *)
(***************************************************************************)
PairedGet(h) == (state[h] = "POST" => held[h] = "read") /\ GetEnter(h)
PairedSet(h) == (state[h] = "POST" => held[h] = "write") /\ SetEnter(h)
PairedClose(h) == state[h] = "PRE" /\ CloseBegin(h)

SemlockNext ==
    \E h \in Handles : PluginStep(h) \/ PairedGet(h) \/ PairedSet(h) \/ PairedClose(h)

SemlockSpec == SemlockInit /\ [][SemlockNext]_semlockVars

-----------------------------------------------------------------------------
\* All but the two counters are binary semaphores: nobody posts one that is
\* free.
SemlockTypeOK ==
    /\ sem \in [Names -> [1..MaxInstances -> Nat]]
    /\ \A n \in Names \ {"readCount", "writeCount"} : \A i \in 1..MaxInstances : sem[n][i] <= 1
    /\ made \in [Names -> 0..MaxInstances]
    /\ linked \in [Names -> 0..MaxInstances]
    /\ ref \in [Handles -> [Names -> 0..MaxInstances]]
    /\ state \in [Handles -> {"PRE", "POST"}]
    /\ pc \in [Handles -> PCs]
    /\ k \in [Handles -> 0..6]
    /\ held \in [Handles -> {"nothing", "read", "write"}]

\* A handle that writes has the configuration for itself: while one handle is
\* between the two calls of its kdbSet(), no other one is between the two
\* calls of a kdbGet() or kdbSet().
Exclusion == \A g, h \in Handles : held[g] = "write" /\ held[h] # "nothing" => g = h

\* The plugin favours writers: no reader gets the lock once a writer has
\* closed tryRead and waits for the readers before it to leave.
WriterGoesFirst ==
    [][\A r, w \in Handles :
         /\ held[r] # "read" /\ held'[r] = "read"
         => pc[w] \notin {"setPRE_postWrite", "setPRE_access"}]_semlockVars
=============================================================================
