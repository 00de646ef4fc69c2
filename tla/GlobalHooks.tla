----------------------------- MODULE GlobalHooks -----------------------------
(***************************************************************************)
(* Global plugins: the hooks that kdbGet() and kdbSet() call               *)
(* (src/libs/elektra/kdb.c) and the list plugin (src/plugins/list/list.c)  *)
(* that is mounted at all of them and delegates to the plugins of a        *)
(* placement.  The list plugin is not told which hook calls it: it counts  *)
(* its calls, with one cursor for each of get, set and error.  The plugin  *)
(* it delegates to here is semlock, which counts its calls as well.        *)
(***************************************************************************)
EXTENDS Semlock, FiniteSetsExt

CONSTANTS
    Calls,       \* the calls of kdbGet() and kdbSet() made with each handle
    Denied,      \* the handles of processes in which sem_open() always fails
    MaxCalls     \* bound: calls of all handles together

VARIABLES
    current,     \* the cursors of the handle's list plugin
    todo,        \* what is left of the running call
    calls        \* calls so far

vars == <<semlockVars, current, todo, calls>>

\* The placements of each function of the list plugin, in the order of its
\* enumerations.
Placements ==
    [err |-> <<"prerollback", "postrollback">>,
     set |-> <<"presetstorage", "presetcleanup", "precommit", "postcommit">>,
     get |-> <<"pregetstorage", "postgetstorage", "postgetcleanup">>]

Ops == {"err", "set", "get"}
OpOf(hook) == CHOOSE op \in Ops : \E i \in DOMAIN Placements[op] : Placements[op][i] = hook
Hooks == UNION {{Placements[op][i] : i \in DOMAIN Placements[op]} : op \in Ops}

\* The placements that "kdb global-mount" and the built-in default give to the
\* list plugin; it is mounted at exactly these hooks.
Mounted == Hooks \ {"presetcleanup", "postgetcleanup"}

(***************************************************************************)
(* The arrays errPlacements, setPlacements and getPlacements lie in this   *)
(* order in the plugin's data, followed by the pointer setKS[0].  A loop   *)
(* that leaves its own array reads on in the next one, and the pointer is  *)
(* never zero.                                                             *)
(***************************************************************************)
Flags(op) == [i \in DOMAIN Placements[op] |-> Placements[op][i] \in Mounted]
Memory == Flags("err") \o Flags("set") \o Flags("get") \o <<TRUE>>
Offset == [err |-> 0, set |-> 2, get |-> 6]

\* As if the flags of the placements did not matter.
NextPlacementAnyFlag(op, c) == (c % Len(Placements[op])) + 1

\* The cursor after a call: the next placement whose flag is set, taken modulo
\* the number of placements only once it is found.
NextPlacement(op, c) ==
    LET found == Min({n \in (c + 1) .. (Len(Memory) - Offset[op]) : Memory[Offset[op] + n]})
    IN ((found - 1) % Len(Placements[op])) + 1

FirstPlacements == [op \in Ops |-> 1]

-----------------------------------------------------------------------------
(***************************************************************************)
(* What a call does: a sequence of hooks and of "read" or "write", the     *)
(* work of the backends between them.                                      *)
(***************************************************************************)

\* kdbGet(): no backend has anything new; the backends were read or one of them
\* failed up to its storage plugin; a backend failed after it.
GetNothing == <<"pregetstorage", "read">>
GetUpdated == <<"pregetstorage", "read", "postgetstorage">>
GetFailedLate == <<"pregetstorage", "read", "postgetstorage", "postgetstorage">>

\* kdbSet(): the hook before the storage runs once for each of the n backends
\* whose resolver has something to write, the hooks around the commit once.
Prepare(n) == [i \in 1..(2 * n) |-> IF i % 2 = 1 THEN "presetstorage" ELSE "write"]
SetCommitted(n) == Prepare(n) \o <<"precommit", "write", "postcommit">>
SetFailed(n) == Prepare(n) \o <<"prerollback", "postrollback">>

\* Calls whose hooks come once each, in the order of the placements.
PairedCalls == {GetUpdated, SetCommitted(1)}
\* Calls of an application that works with at most two backends at a time.
AllCalls == PairedCalls \cup {GetNothing, GetFailedLate}
              \cup {SetCommitted(n) : n \in {0, 2}} \cup {SetFailed(n) : n \in 0..2}
ASSUME HooksAssumption ==
    /\ Calls \in [Handles -> SUBSET AllCalls]
    /\ Denied \subseteq Handles
    /\ MaxCalls \in Nat

\* The handles whose calls come with all hooks.
Paired == {h \in Handles : Calls[h] \subseteq PairedCalls}

\* Values of Calls: every handle is one of these; or also calls kdbGet() when
\* there is nothing new; or makes every call.
AllPaired == [h \in Handles |-> PairedCalls]
AnyGets == [h \in Handles |-> {GetNothing, GetUpdated}]
AnyCalls == [h \in Handles |-> AllCalls]

-----------------------------------------------------------------------------
(***************************************************************************)
(* A call runs from Begin to Return; in between it is at the head of todo. *)
(* The plugin is idle whenever pc is "new" or "out".                       *)
(***************************************************************************)
At(h, what) == pc[h] \in {"new", "out"} /\ todo[h] # <<>> /\ Head(todo[h]) \in what
Reading(h) == At(h, {"read"})
Writing(h) == At(h, {"write"})
Pop(h) == todo' = [todo EXCEPT ![h] = Tail(@)]

Init ==
    /\ SemlockInit
    /\ current = [h \in Handles |-> FirstPlacements]
    /\ todo = [h \in Handles |-> <<>>]
    /\ calls = 0

Begin(h, call) ==
    /\ todo[h] = <<>>
    /\ \/ pc[h] = "out"
       \/ pc[h] = "new" /\ (Reopening \/ h \in Denied \/ \A g \in Handles : ~Closing(g))
    /\ calls < MaxCalls
    /\ todo' = [todo EXCEPT ![h] = call]
    /\ calls' = calls + 1
    /\ UNCHANGED <<semlockVars, current>>

\* The backends do their work.
Work(h) ==
    /\ At(h, {"read", "write"})
    /\ Pop(h)
    /\ UNCHANGED <<semlockVars, current, calls>>

\* As if semlock were placed at the hook before the commit, too.
SemlockPlacementsPrecommit ==
    {"pregetstorage", "postgetstorage", "presetstorage", "precommit", "postcommit"}

\* As if it were not placed at the hook after the commit.
SemlockPlacementsNoCommit == {"pregetstorage", "postgetstorage", "presetstorage", "postrollback"}

\* infos/placements of the semlock plugin.
SemlockPlacements ==
    {"pregetstorage", "postgetstorage", "presetstorage", "postcommit", "postrollback"}

\* The placement whose plugins a hook runs.
Placement(h, hook) == Placements[OpOf(hook)][current[h][OpOf(hook)]]

\* elektraListGet, elektraListSet and elektraListError: the plugins at the
\* cursor run, and the cursor moves on.  runPlugins opens a plugin that is not
\* open yet.  Where it cannot, the hook fails, which kdb.c does not look at, and
\* the cursor moves on as well.  The semlock plugin has no error function.
ListCall(h) ==
    LET hook == Head(todo[h])
        op == OpOf(hook)
        runs == Placement(h, hook) \in SemlockPlacements /\ h \notin Denied
    IN /\ At(h, Mounted)
       /\ runs => pc[h] = "out"
       /\ IF ~runs \/ op = "err" THEN UNCHANGED semlockVars
          ELSE (op = "get" /\ GetEnter(h)) \/ (op = "set" /\ SetEnter(h))
       /\ current' = [current EXCEPT ![h][op] = NextPlacement(op, @)]
       /\ Pop(h)
       /\ UNCHANGED calls

ListOpen(h) ==
    /\ At(h, Mounted)
    /\ Placement(h, Head(todo[h])) \in SemlockPlacements
    /\ h \notin Denied
    /\ OpenMutex(h)
    /\ UNCHANGED <<current, todo, calls>>

Plugin(h) ==
    /\ pc[h] # "new"
    /\ PluginStep(h)
    /\ UNCHANGED <<current, todo, calls>>

\* kdbClose(): elektraListClose closes the plugins it has opened.
kdbClose(h) ==
    /\ todo[h] = <<>>
    /\ Reopening \/ \A g \in Handles \ Denied : todo[g] # <<>> => pc[g] # "new"
    /\ CloseBegin(h)
    /\ UNCHANGED <<current, todo, calls>>

Step(h) == Plugin(h) \/ ListOpen(h) \/ ListCall(h) \/ Work(h)

Next ==
    \E h \in Handles :
        \/ Step(h)
        \/ \E call \in Calls[h] : Begin(h, call)
        \/ kdbClose(h)

Spec == Init /\ [][Next]_vars /\ \A h \in Handles : WF_vars(Step(h))

-----------------------------------------------------------------------------
\* A hook of kdbGet() or kdbSet() runs the plugins that are configured for it:
\* the cursors of the list plugin never get out of step with kdb.c, also when a
\* hook fails.  This is so for a handle whose calls come with all their hooks,
\* once each, whatever is done with other handles.
HookRunsItsPlacement ==
    \A h \in Paired : At(h, Mounted) => Placement(h, Head(todo[h])) = Head(todo[h])

\* The backends of kdbGet() read under a read lock, those of kdbSet() write
\* under a write lock, where semlock could be opened: kdb.c does not look at the
\* result of the hook and works without a lock where it could not.
LockedWhileWorking ==
    \A h \in Paired \ Denied :
        (Reading(h) => held[h] = "read") /\ (Writing(h) => held[h] = "write")

\* Waiting for the semaphores never lasts forever: every call that was begun
\* returns, and closing ends too.
CallsEnd == \A h \in Handles : []<>(todo[h] = <<>> /\ pc[h] \in {"new", "out", "gone"})
=============================================================================
