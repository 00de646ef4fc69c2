--------------------------------- MODULE Kdb ---------------------------------
(***************************************************************************)
(* kdbGet() and kdbSet() of one KDB handle with several mounted backends:  *)
(* src/libs/elektra/kdb.c with the split of src/libs/elektra/split.c and   *)
(* the sizes of src/libs/elektra/backend.c.                                *)
(*                                                                         *)
(* The application edits its keyset between the calls; other applications  *)
(* replace or remove the files at any time they are not locked.  Every     *)
(* backend has a resolver and a storage plugin.  Only the outcome of the   *)
(* resolver matters here (module Resolver has its steps): `fresh' tells    *)
(* whether the stamp it knows is the stamp of the file.                    *)
(***************************************************************************)
EXTENDS Integers, FiniteSets

CONSTANTS
    N,             \* mounted backends 1 .. N, in the order of split->handles
    Keys,          \* names of keys
    BackendOf,     \* mountGetBackend: the backend a key belongs to
    Values,        \* values of keys
    Absent,        \* the value of a key that is not there
    GetParents,    \* the backends below the parent keys passed to kdbGet()
    SetParents,    \* the backends below the parent keys passed to kdbSet()
    MaxEdits,      \* bound: changes of the keyset by the application
    MaxExternal,   \* bound: changes of files by other applications
    EditedGet,     \* may kdbGet() be called with unsaved changes?
    MayEmpty,      \* may the application remove the last key of a backend?
    ExternalUnlink,\* may other applications remove files?
    ReadFails,     \* may getplugins fail?
    HookFails,     \* may getplugins fail that run after a postgetstorage hook?
    WriteFails,    \* may setplugins fail before the commit?
    CommitFails    \* may the resolver fail in the commit?

Backends == 1 .. N

ASSUME KdbAssumption ==
    /\ N \in Nat
    /\ IsFiniteSet(Keys)
    /\ BackendOf \in [Keys -> Backends]
    /\ Absent \notin Values
    /\ GetParents \cup SetParents \subseteq SUBSET Backends
    /\ MaxEdits \in Nat /\ MaxExternal \in Nat
    /\ {EditedGet, MayEmpty, ExternalUnlink, ReadFails, HookFails, WriteFails,
        CommitFails} \subseteq BOOLEAN

VARIABLES
    file,       \* the keys in the configuration files
    exists,     \* backends whose file exists
    fresh,      \* backends whose resolver knows the stamp of the file
    missing,    \* backends whose resolver found no file (isMissing)
    locked,     \* backends whose file this handle has locked
    size,       \* backend->usersize etc.: keys at the last call, -1 before it
    ks,         \* the keyset of the application
    sync,       \* the keys of ks with KEY_FLAG_SYNC
    pc,         \* the phase of the running call
    split,      \* the backends of split
    i,          \* loop index over split
    bits,       \* the backends with SPLIT_FLAG_SYNC
    got,        \* split->keysets of the updated backends, one after the other
    err,        \* any_error of elektraSetPrepare
    ret,        \* the result of the call that just returned
    base,       \* history: what the handle last read from or wrote to the files
    dirty,      \* history: backends with unsaved changes of the application
    edits,      \* changes by the application so far
    external    \* changes by others so far

fileVars == <<file, exists, external>>
resolverVars == <<fresh, missing, locked>>
appVars == <<ks, sync, dirty, edits>>
callVars == <<split, i, bits, got, err>>
vars == <<fileVars, resolverVars, size, appVars, pc, callVars, ret, base>>

KeySets == [Keys -> Values \cup {Absent}]
Empty == [k \in Keys |-> Absent]

KeysOf(b) == {k \in Keys : BackendOf[k] = b}

\* ksGetSize of the part of f in backend b
SizeOf(f, b) == Cardinality({k \in KeysOf(b) : f[k] # Absent})

\* Does f have the same keys in backend b as g?
SameIn(f, g, b) == \A k \in KeysOf(b) : f[k] = g[k]

\* f with the keys of the backends B from g
Merge(f, g, B) == [k \in Keys |-> IF BackendOf[k] \in B THEN g[k] ELSE f[k]]

\* The first backend of B after position j, N + 1 at the end of the loop
After(j, B) == IF \E b \in B : b > j
               THEN CHOOSE b \in B : b > j /\ \A c \in B : c > j => b <= c
               ELSE N + 1

Init ==
    /\ \E f \in KeySets :
          /\ file = f
          /\ exists = {b \in Backends : SizeOf(f, b) > 0}
    /\ fresh = {} /\ missing = {} /\ locked = {}
    /\ size = [b \in Backends |-> -1]
    /\ ks = Empty /\ sync = {}
    /\ pc = "idle" /\ split = {} /\ i = 0 /\ bits = {} /\ got = Empty /\ err = FALSE
    /\ ret = "none"
    /\ base = Empty /\ dirty = {} /\ edits = 0 /\ external = 0

-----------------------------------------------------------------------------
(* The application and the others *)

\* keySetString() or ksAppendKey(keyNew()): the key needs sync.
SetKey(k, v) ==
    /\ pc = "idle"
    /\ edits < MaxEdits
    /\ ks[k] # v
    /\ ks' = [ks EXCEPT ![k] = v]
    /\ sync' = sync \cup {k}
    /\ dirty' = dirty \cup {BackendOf[k]}
    /\ edits' = edits + 1
    /\ ret' = "none"
    /\ UNCHANGED <<fileVars, resolverVars, size, pc, callVars, base>>

\* ksLookup(KDB_O_POP)
PopKey(k) ==
    /\ pc = "idle"
    /\ edits < MaxEdits
    /\ ks[k] # Absent
    /\ MayEmpty \/ SizeOf(ks, BackendOf[k]) > 1
    /\ ks' = [ks EXCEPT ![k] = Absent]
    /\ sync' = sync \ {k}
    /\ dirty' = dirty \cup {BackendOf[k]}
    /\ edits' = edits + 1
    /\ ret' = "none"
    /\ UNCHANGED <<fileVars, resolverVars, size, pc, callVars, base>>

\* Another application stores f in backend b.
ExternalSet(b, f) ==
    /\ external < MaxExternal
    /\ b \notin locked
    /\ SizeOf(f, b) > 0
    /\ file' = Merge(file, f, {b})
    /\ exists' = exists \cup {b}
    /\ fresh' = fresh \ {b}
    /\ external' = external + 1
    /\ ret' = "none"
    /\ UNCHANGED <<missing, locked, size, appVars, pc, callVars, base>>

\* Another application stores no keys in backend b: the file disappears.
ExternalRemove(b) ==
    /\ ExternalUnlink
    /\ external < MaxExternal
    /\ b \in exists
    /\ file' = Merge(file, Empty, {b})
    /\ exists' = exists \ {b}
    /\ fresh' = fresh \ {b}
    /\ external' = external + 1
    /\ ret' = "none"
    /\ UNCHANGED <<missing, locked, size, appVars, pc, callVars, base>>

-----------------------------------------------------------------------------
(* kdbGet *)

Return(r) == pc' = "idle" /\ ret' = r

\* splitBuildup
GetBegin(S) ==
    /\ pc = "idle"
    /\ EditedGet \/ dirty = {}
    /\ split' = S
    /\ bits' = {}
    /\ i' = After(0, S)
    /\ got' = Empty
    /\ pc' = "check"
    /\ ret' = "none"
    /\ UNCHANGED <<fileVars, resolverVars, size, appVars, err, base>>

\* elektraGetCheckUpdateNeeded: the resolver of backend i looks at its file.
\* The size becomes 0 whatever it finds.
GetCheck ==
    /\ pc = "check"
    /\ i \in split
    /\ size' = [size EXCEPT ![i] = 0]
    /\ \/ /\ i \notin exists
          /\ missing' = missing \cup {i}
          /\ base' = Merge(base, Empty, {i})
          /\ UNCHANGED <<fresh, bits>>
       \/ /\ i \in exists
          /\ missing' = missing \ {i}
          /\ bits' = IF i \in fresh THEN bits ELSE bits \cup {i}
          /\ fresh' = fresh \cup {i}
          /\ UNCHANGED base
    /\ i' = After(i, split)
    /\ UNCHANGED <<fileVars, locked, appVars, pc, split, got, err, ret>>

\* No backend needs an update: kdbGet() returns 0 at once.
GetNoUpdate ==
    /\ pc = "check"
    /\ i \notin split
    /\ bits = {}
    /\ Return("get0")
    /\ UNCHANGED <<fileVars, resolverVars, size, appVars, callVars, base>>

GetUpdate ==
    /\ pc = "check"
    /\ i \notin split
    /\ bits # {}
    /\ pc' = "read"
    /\ i' = After(0, bits)
    /\ UNCHANGED <<fileVars, resolverVars, size, appVars, split, bits, got, err, ret,
                   base>>

\* Mutated: the loop over the backends ends after the first one.
GetReadOnlyFirst ==
    /\ pc = "read"
    /\ i \in bits
    /\ i \in exists
    /\ got' = Merge(got, file, {i})
    /\ i' = N + 1
    /\ UNCHANGED <<fileVars, resolverVars, size, appVars, pc, split, bits, err, ret,
                   base>>

\* elektraGetDoUpdate: the storage plugin of backend i reads the file.
GetRead ==
    /\ pc = "read"
    /\ i \in bits
    /\ i \in exists
    /\ got' = Merge(got, file, {i})
    /\ i' = After(i, bits)
    /\ UNCHANGED <<fileVars, resolverVars, size, appVars, pc, split, bits, err, ret,
                   base>>

\* A plugin fails, or the file vanished after the resolver looked: kdbGet()
\* returns -1 and leaves the keyset alone.
GetFail ==
    /\ pc = "read"
    /\ i \in bits
    /\ ReadFails \/ i \notin exists
    /\ Return("get-1")
    /\ UNCHANGED <<fileVars, resolverVars, size, appVars, callVars, base>>

\* Mutated: only the keys of updated backends are in the result.
MergedWithoutUserKeys == Merge(Merge(ks, Empty, split), got, bits)

\* splitAppoint, splitGet, ksClear and splitMerge: updated backends get what was
\* read, the others keep the keys of the user.
Merged == Merge(ks, got, bits)

\* splitGet processes the keysets of all backends, also those that come from the
\* user: test_bit (syncbits, 0) is never true.  With global hooks the plugins of
\* the second pass run after the keyset was replaced, and they may fail.
GetMerge ==
    /\ pc = "read"
    /\ i \notin bits
    /\ ks' = Merged
    /\ sync' = {k \in sync : BackendOf[k] \notin split}
    /\ size' = [b \in Backends |-> IF b \in split THEN SizeOf(Merged, b) ELSE size[b]]
    /\ base' = Merge(base, got, bits)
    /\ dirty' = dirty \ bits
    /\ \/ Return("get1")
       \/ HookFails /\ Return("get-1")
    /\ UNCHANGED <<fileVars, resolverVars, edits, callVars>>

-----------------------------------------------------------------------------
(* kdbSet *)

\* Mutated: removed keys do not count.
NeedSyncFlagsOnly(S) == {b \in S : \E k \in KeysOf(b) : k \in sync /\ ks[k] # Absent}

\* Mutated: changed keys do not count.
NeedSyncSizesOnly(S) == {b \in S : size[b] # SizeOf(ks, b)}

\* splitDivide and splitSync: the backends with changed keys or another size.
NeedSync(S) ==
    {b \in S : \/ \E k \in KeysOf(b) : k \in sync /\ ks[k] # Absent
               \/ size[b] # SizeOf(ks, b)}

SetBegin(S) ==
    /\ pc = "idle"
    /\ \/ /\ \E b \in S : size[b] = -1
          /\ Return("set-1")
          /\ UNCHANGED callVars
       \/ /\ \A b \in S : size[b] # -1
          /\ NeedSync(S) = {}
          /\ Return("set0")
          /\ split' = S
          /\ UNCHANGED <<i, bits, got, err>>
       \/ /\ \A b \in S : size[b] # -1
          /\ NeedSync(S) # {}
          /\ pc' = "prepare"
          /\ ret' = "none"
          /\ split' = S
          /\ bits' = NeedSync(S)
          /\ i' = After(0, NeedSync(S))
          /\ err' = FALSE
          /\ UNCHANGED got
    /\ UNCHANGED <<fileVars, resolverVars, size, appVars, base>>

\* Mutated: the stamps are not compared.
ConflictOnlyIfMissing(b) == (b \in missing) = (b \in exists)

\* The resolver refuses a file that is not as its last get left it.
Conflict(b) == \/ (b \in missing) = (b \in exists)
               \/ b \in exists /\ b \notin fresh

\* Mutated: the last backend decides about the error.
SetPrepareLastResult ==
    /\ pc = "prepare"
    /\ i \in bits
    /\ \/ /\ SizeOf(ks, i) > 0
          /\ ~Conflict(i)
          /\ locked' = locked \cup {i}
          /\ err' = FALSE
       \/ /\ SizeOf(ks, i) > 0
          /\ Conflict(i)
          /\ err' = TRUE
          /\ UNCHANGED locked
    /\ i' = After(i, bits)
    /\ UNCHANGED <<fileVars, fresh, missing, size, appVars, pc, split, bits, got, ret,
                   base>>

\* elektraSetPrepare for backend i; errors do not end the loop.  The resolver
\* leaves a backend without keys for the commit, without check and lock.
SetPrepare ==
    /\ pc = "prepare"
    /\ i \in bits
    /\ \/ /\ SizeOf(ks, i) = 0
          /\ UNCHANGED <<locked, err>>
       \/ /\ SizeOf(ks, i) > 0
          /\ ~Conflict(i)
          /\ locked' = locked \cup {i}
          /\ \/ UNCHANGED err
             \/ WriteFails /\ err' = TRUE
       \/ /\ SizeOf(ks, i) > 0
          /\ Conflict(i)
          /\ err' = TRUE
          /\ UNCHANGED locked
    /\ i' = After(i, bits)
    /\ UNCHANGED <<fileVars, fresh, missing, size, appVars, pc, split, bits, got, ret,
                   base>>

\* Mutated: an error returns without elektraSetRollback.
SetPreparedNoRollback ==
    /\ pc = "prepare"
    /\ i \notin bits
    /\ \/ ~err /\ pc' = "commit" /\ i' = After(0, bits) /\ UNCHANGED ret
       \/ err /\ Return("set-1") /\ UNCHANGED i
    /\ UNCHANGED <<fileVars, resolverVars, size, appVars, split, bits, got, err, base>>

\* All prepared: elektraSetCommit, or elektraSetRollback if there was an error.
SetPrepared ==
    /\ pc = "prepare"
    /\ i \notin bits
    /\ \/ /\ ~err
          /\ pc' = "commit"
          /\ i' = After(0, bits)
          /\ UNCHANGED <<locked, ret>>
       \/ /\ err
          /\ locked' = {}
          /\ Return("set-1")
          /\ UNCHANGED i
    /\ UNCHANGED <<fileVars, fresh, missing, size, appVars, split, bits, got, err, base>>

\* The resolver of backend i renames the temporary file or removes the file.
SetCommit ==
    /\ pc = "commit"
    /\ i \in bits
    /\ file' = Merge(file, ks, {i})
    /\ base' = Merge(base, ks, {i})
    /\ \/ /\ SizeOf(ks, i) = 0
          /\ exists' = exists \ {i}
          /\ fresh' = fresh \ {i}
          /\ UNCHANGED missing
       \/ /\ SizeOf(ks, i) > 0
          /\ exists' = exists \cup {i}
          /\ fresh' = fresh \cup {i}
          /\ missing' = missing \ {i}
    /\ locked' = locked \ {i}
    /\ i' = After(i, bits)
    /\ UNCHANGED <<external, size, appVars, pc, split, bits, got, err, ret>>

\* rename() fails: a warning, and the loop goes on.  The empty file that the
\* resolver created for a missing one stays.
SetCommitFail ==
    /\ CommitFails
    /\ pc = "commit"
    /\ i \in bits
    /\ SizeOf(ks, i) > 0
    /\ exists' = exists \cup ({i} \cap missing)
    /\ missing' = missing \ {i}
    /\ locked' = locked \ {i}
    /\ i' = After(i, bits)
    /\ UNCHANGED <<file, external, fresh, size, appVars, pc, split, bits, got, err, ret,
                   base>>

\* Mutated: the sizes are added to the known ones.
SetFinishAdds ==
    /\ pc = "commit"
    /\ i \notin bits
    /\ size' = [b \in Backends |-> IF b \in bits THEN size[b] + SizeOf(ks, b) ELSE size[b]]
    /\ sync' = {}
    /\ dirty' = dirty \ bits
    /\ Return("set1")
    /\ UNCHANGED <<fileVars, resolverVars, ks, edits, callVars, base>>

\* splitUpdateSize, and no key of the keyset needs sync any more.
SetFinish ==
    /\ pc = "commit"
    /\ i \notin bits
    /\ size' = [b \in Backends |-> IF b \in bits THEN SizeOf(ks, b) ELSE size[b]]
    /\ sync' = {}
    /\ dirty' = dirty \ bits
    /\ Return("set1")
    /\ UNCHANGED <<fileVars, resolverVars, ks, edits, callVars, base>>

-----------------------------------------------------------------------------
application == \E k \in Keys : PopKey(k) \/ \E v \in Values : SetKey(k, v)

others == \E b \in Backends : ExternalRemove(b) \/ \E f \in KeySets : ExternalSet(b, f)

kdbGet ==
    \/ \E S \in GetParents : GetBegin(S)
    \/ GetCheck \/ GetNoUpdate \/ GetUpdate \/ GetRead \/ GetFail \/ GetMerge

kdbSet ==
    \/ \E S \in SetParents : SetBegin(S)
    \/ SetPrepare \/ SetPrepared \/ SetCommit \/ SetCommitFail \/ SetFinish

Next == application \/ others \/ kdbGet \/ kdbSet

Spec == Init /\ [][Next]_vars

-----------------------------------------------------------------------------
(* Properties *)

\* Every variable has its type.
TypeOK ==
    /\ {file, ks, got, base} \subseteq KeySets
    /\ {exists, fresh, missing, locked, split, bits, dirty} \subseteq SUBSET Backends
    /\ size \in [Backends -> -1 .. Cardinality(Keys)]
    /\ sync \subseteq Keys
    /\ pc \in {"idle", "check", "read", "prepare", "commit"}
    /\ i \in 0 .. N + 1
    /\ err \in BOOLEAN
    /\ ret \in {"none", "get0", "get1", "get-1", "set0", "set1", "set-1"}
    /\ edits \in 0 .. MaxEdits /\ external \in 0 .. MaxExternal

\* A kdbSet() that returns 0 had nothing to do: the keyset is what was read or
\* written last (kdb.c: "0 if nothing had to be done").
ZeroMeansNothingToDo ==
    ret = "set0" => \A b \in split : SameIn(ks, base, b)

\* A kdbSet() that returns 1 left no change of the application behind, in any
\* backend below the parent key: the handle stored what it has, and the files
\* nobody replaced since then hold it.
OneMeansStored ==
    ret = "set1" => \A b \in split :
        /\ SameIn(ks, base, b)
        /\ b \in fresh => SameIn(ks, file, b)

\* Where the resolver takes the file for known, the handle has read its content:
\* kdbGet() will not skip changes, kdbSet() will not overwrite unseen keys.
KnownMeansRead ==
    pc = "idle" => \A b \in fresh : SameIn(base, file, b)

\* A successful kdbGet() without unsaved changes leaves exactly the keys of the
\* files it has seen in the keyset.
GetDelivers ==
    ret \in {"get0", "get1"} =>
        \A b \in split \ dirty : SameIn(ks, base, b)

\* The commit of a backend replaces keys that the handle has seen.
CommitReplacesSeen ==
    [][SetCommit => SameIn(base, file, i)]_vars

\* Two phases: when the first file is replaced, every backend that gets a new
\* file passed its conflict check and is still locked, so that no error of a
\* later backend leaves earlier ones already changed.
PreparedBeforeCommit ==
    pc = "commit" => \A b \in bits : (b >= i /\ SizeOf(ks, b) > 0) => b \in locked

\* No lock survives a call, however it ends.
NoLockLeft == pc = "idle" => locked = {}
=============================================================================
