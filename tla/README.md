# Elektra's configuration storage in TLA+

Elektra is a library that gives applications a common, hierarchical key
database.  An application opens a handle (`kdbOpen`), retrieves keys into a
`KeySet` (`kdbGet`), changes the keyset in memory and stores it (`kdbSet`).
The keys live in configuration files; each mounted *backend* owns one file per
namespace and a stack of plugins.  The first plugin of every backend is a
*resolver*: it finds the file, notices whether it changed, detects conflicts
with other applications and makes the replacement of the file atomic.

Nothing but the file system connects two applications.  There is no server:
correct sharing rests on the order in which the resolver stats, opens, locks,
renames, stamps and unlinks files, and on the bookkeeping of sizes, sync flags
and time stamps that `kdbGet` and `kdbSet` keep between two calls.  That is the
core of the program, and it is what most of these modules model.  The others are
about what `kdbGet` and `kdbSet` stand on: keysets and their lookup, the mounted
backends, and the global plugins with the lock of the semlock plugin.

## Inventory

| Part | State | Operations | Interacts with | What makes it correct |
|---|---|---|---|---|
| resolver (`src/plugins/resolver/resolver.c`) | per namespace: `fd`, `mtime`, `isMissing`, `removalNeeded`, `timeFix`; per process: a mutex; in the kernel: record locks | get, set (prepare and commit), error | other processes through the file system, other threads through the mutex; called by kdb | no committed key is lost, readers see complete files, errors undo everything, no self-conflict |
| kdb (`src/libs/elektra/kdb.c`) | the split of the handle, global plugins | kdbOpen, kdbGet, kdbSet, kdbClose | calls the plugins of all backends in a fixed order, two phases with rollback | return values mean what the interface says; all backends or none |
| split (`split.c`), backend sizes (`backend.c`) | keysets and sync bits per backend; number of keys at the last call | buildup, divide, appoint, get, sync, prepare, merge | used by kdb only | each key goes to its backend; a change is noticed, also a removal |
| mount, trie (`mount.c`, `trie.c`) | trie from key names to backends | mountBackend, mountGetBackend | filled by kdbOpen | the longest mount point above a key wins |
| KeySet, Key (`keyset.c`, `key*.c`) | sorted array with cursor and flags; reference counts, sync and read-only flags | append, pop, cut, lookup, dup | everywhere | behaves like a finite map in name order |
| OPMPHM (`opmphm*.c`) | graph, virtual heap and stack | built for fast lookup | KeySet | a perfect, order preserving hash |
| global plugins (`kdb.c`, `mount.c`, `src/plugins/list`) | plugins per hook; three cursors of the list plugin | hooks around get, set and commit | called by kdbGet and kdbSet | a hook runs the plugins configured for it |
| semlock plugin | six named semaphores, PRE/POST state | get and set hooks | global hooks of kdb | readers or one writer, nobody starves, hooks are paired |
| storage and filter plugins (dump, ini, spec, sync, list ...) | mostly none | get, set | files, kdb | what was written is read again |
| tools library (`src/libs/tools`) | backend builders, merge results | three-way merge, ordering of plugins | kdb command line tool | a merge takes every one-sided change |
| C++ `Coordinator` (`kdbthread.hpp`) | contexts of several threads | attach, sync | threads of an application | updates reach every thread once |
| race test (`src/tools/race`) | none | writers at a barrier | kdb | one writer wins |
| command line tool, qt-gui, rest services, bindings, generators | user interfaces and wrappers | - | library | not part of the core |

What is hard here: several processes and threads interleave between any two
system calls; a call may fail or its process die after each of them; stamps are
compared for equality on clocks that may be coarse; an error in one backend must
undo the others; and long sequences of legal calls with one handle depend on
flags that earlier calls left behind.  The list of hazards in `PROJECT.json`
names the lines.

## Modules

| Module | Models | State |
|---|---|---|
| `PosixFiles` | the file system and record locks as the resolver uses them (external) | one file name, inodes with content, stamp and lock, the clock |
| `Resolver` | `resolver.c` for one file and any number of handles in any number of processes | `pk` of every handle, its temporary file, the mutex, a program counter per handle |
| `ConfigStore` | what the resolver promises: an optimistically shared register | the stored keyset, what each handle saw last |
| `Race` | `race.c` on top of `Resolver` | the writers that take part |
| `Kdb` | `kdbGet` and `kdbSet` of one handle over several backends | files, sizes, sync flags, split, error state |
| `Semlock` | `semlock.c` and POSIX semaphores, one call on a semaphore per step; `SemlockSpec` has the clients it is written for | semaphores by name and number, the PRE/POST state and a program counter per handle |
| `GlobalHooks` | the hooks of `kdb.c` and the list plugin, composed with `Semlock` | cursors of the list plugin, what is left of a call |
| `KeySet` | `keyset.c` with the reference counters of `key.c` and the users of cursors in `split.c` | keysets as arrays with cursor, reference counters |
| `KeyMap` | what keysets promise: sets of keys with different names that own their members | the members of each keyset, the live keys |
| `Lookup` | `ksLookup` of a cascading key with specification | the names in the keyset, the metadata of the spec keys |
| `Mount` | `kdbOpen`, `kdbClose`, `mount.c`, `trie.c` and the split of `split.c` | trie, split, reference counters of the backends |
| `ResolverProofs` | type correctness of `Resolver`, its inductive invariant, the theorems that follow from it, and those that do not need it | |
| `RaceProofs` | the invariant of the race test, on top of the one of `Resolver` | |
| `KdbSafety` | types, two phases and locks of `Kdb`, and what the results of `kdbGet` and `kdbSet` mean | |
| `HooksProofs` | the inductive invariants of `Semlock` and of the composed `GlobalHooks`, the refinement and the theorems that follow | |
| `DataInduction` | induction over data for first-order provers, used by the proofs below and above | |
| `KeySetProofs` | order of names; the binary search; operators on one keyset; appending and cutting with several; what counters count; where the cursor goes; the inductive invariant of `KeySet`, the theorems that follow and the refinement of `KeyMap` | |
| `LookupProofs` | what `ksLookup` finds; lookups do not influence each other; what exhausts the stack | |
| `MountProofs` | the trie; what names are as strings; the invariants of what is mounted and of `kdb->split`, and the theorems that follow | |
| `MCResolver`, `MCRace`, `MCKdb`, `MCKeySet`, `MCLookup`, `MCMount` | instances for TLC | |

### PosixFiles and Resolver

A descriptor is the inode it refers to, so that a handle can hold a file that
no name refers to any more: the situation the stamps and locks exist for.
`lock` follows POSIX record locks: they belong to processes, `F_SETLK` fails at
once if another process has the lock, and closing *any* descriptor of the file
drops them.  The clock moves by some `d \in Ticks` with each write that stamps
a file: `{1}` gives every write a stamp of its own (nanosecond file systems),
`{0, 1}` is a coarse clock.  A coarse clock is
a coarse source of time: two writes may get the same stamp, and a stamp that `futimens`
sets is kept as it was set.  A file system with "a resolution of one second"
(`doc/help/elektra-algorithm.md:372`) also truncates the stamps that are set, and with them the
correction by a nanosecond.  That is not modelled.

Every action of `Resolver` is one system call on shared state, with the local
computation around it:

| Actions | Code |
|---|---|
| `GetMissing`, `GetUnchanged`, `GetChanged` | get function of the resolver: `stat` |
| `Read` | the storage plugin reads the file (by name, after the `stat`) |
| `SetBegin`, `SetBeginEmpty` | set function of the resolver, first phase |
| `Open`, `OpenExclusive`, `Mkdir`, `Create` | `elektraOpenFile`, `elektraMkdirParents`, `elektraCreateFile` |
| `LockMutex`, `LockFile`, `CheckConflict` | the rest of `elektraSetPrepare` with its error paths |
| `WriteTemp`, `FlushTemp`, `StoreFail` | the storage plugin writes the temporary file; it or another backend may fail |
| `OpenTemp`, `Rename`, `RenameFail`, `Stamp`, `StampOld`, `UnlockOld`, `UnlockNew` | `elektraSetCommit` |
| `Remove` | `elektraRemoveConfigurationFile` |
| `Rollback`, `RollbackUnlock`, `RollbackUnlink` | the error function |
| `Crash` | the process dies and is started again |

A failing prepare does not end the call: `kdbSet` goes on to the storage plugin
and runs the error function last, so `Fail` goes to the write.  Keysets are
abstracted to what lost updates need: every handle owns one key and increases
its value with each `kdbSet`, like the writers of `race.c`, which add a key of
their own.  `base` and `won` are history variables: the keyset a handle saw
last, and the value it stored last with success.

### Kdb

One handle, backends `1 .. N` in the order of the split, keys with values.  The
resolver is reduced to its result: `fresh` holds the backends whose known stamp
is the stamp of the file.  `size` and `sync` are the only things `kdbSet` looks
at to find out whether there is anything to do.  Other applications replace or
remove files between all steps unless they are locked (a removal does not ask
for a lock, see `Remove` of `Resolver`).  A file created in the first
phase and removed by a rollback is not visible here; `Resolver` has these steps.  One
whose `rename` failed is: the empty file that was created in its place stays.

### Semlock and GlobalHooks

`sem_wait` is enabled only when the semaphore is positive; everything else of
POSIX semaphores is what one expects, but for names: `sem_unlink` removes a name
while others have the semaphore open, and the next `sem_open` makes another one.
Hence the semaphores of a name are numbered and a handle refers to one of them.

The plugin sees two calls of its get function per `kdbGet` and takes the first
for the lock and the second for the unlock (`data->state`).  In between sits the
list plugin, which is mounted at all hooks and is not told which one calls it
either; it walks through the placements with a cursor.  The loop
that looks for the next placement applies the modulus to the cursor it stores but not
to the index it goes on with, so that it reads behind its array; `Memory` lays the arrays out as the struct does.
`GlobalHooks` runs a call as the sequence of hooks that `kdb.c` calls, with
"read" and "write" for the work of the backends.  `held` of `Semlock` is a history
variable.  Handles of processes in which `sem_open` always fails (no support, no
permission) are in `Denied`.  Every hook that needs semlock fails there, `runPlugins` tries to
open it again at the next one, `kdb.c` looks at no result of a hook (`kdb.c:600` and
`777`), the cursor of the list plugin moves on all the same (`list.c:364`), and
the backends work without a lock.  `Calls` are the calls made with each
handle; `Paired` are the handles all of whose calls run each of their hooks once.
`SemlockSpec` is at the same time the specification of `Semlock` for
clients that call it in pairs, and what `GlobalHooks` is shown to implement.

### KeySet, KeyMap and Lookup

A keyset has its keys, its allocated size, its cursor (position and key, as in
the source) and what is behind its last key: the null pointer, or what was there
before (`Junk`).
Operators on one keyset or on keysets and counters model the functions of
`keyset.c`, so that functions that call each other do so in the model; actions are
the calls of an application.  `trail` is a history variable: the keys `ksNext` has
returned since the cursor was before the first key.  Names are sequences of numbers
with the namespace first.  Applications use nothing after its end: a key that is
in no keyset may be freed, a keyset that was deleted is not used.

`Lookup` leaves out the array and keeps the search order: override links,
namespaces, fallback links, default; links call `ksLookup` again.

### Mount

Names are sequences of characters, since the trie compares characters while
`keyRel` compares parts; `Letters` and the paths are parameters.  A node of the
trie and an entry in it are known by the characters on the way to them from the root.  So the trie is a
function from these strings to what the code keeps there: the `value` of the entry and
the `empty_value` of the node behind it.  The text of an entry is what its string has
more than the node it is in.  `trieInsert` and
`elektraTriePrefixLookup` walk along a name as the code does: the entry for the next
character, compared by `elektraTrieStartsWith`, then continued, split (`Split`) or added.

The bootstrap backends are closed before anything is mounted and appear only
as the configuration that was read: `Configs` are the possible sequences of
mountpoints, `Configured` names their backends and `Modules` the plugins that are
loaded, one of which may occur twice.  Each entry is mounted or skipped, in any combination.  `mounted` is a
history variable: the names and backends inserted into the trie.

## Runs

Passing runs:

| Run | Instance | Checks |
|---|---|---|
| `Writers` | 2 processes, 2 `kdbSet` each, existing file, failing storage, crashes | type correctness; no lost update; a checked file stays the visible and locked one until the rename; every error path releases descriptor, locks, mutex and temporary file; a failed `kdbSet` changes nothing; `Resolver` implements `ConfigStore` |
| `Alone` | 1 handle, 5 `kdbSet`, every initial situation, standing or moving clock | no conflict with oneself |
| `Race` | `race.c` with 3 processes and with 3 threads of one process, with and without a file, coarse clock | exactly one winner, by record locks or by the mutex alone |
| `Faults` | 2 processes, every fault and every branch | readers see only complete files |
| `KdbCalls` | 2 backends, 3 keys, 2 edits, 1 change by others, failing set plugins and hooks | 0 means that nothing had to be done, 1 that everything is stored; what counts as known was read; `kdbGet` delivers what is in the files; nothing unseen is overwritten |
| `KdbFaults` | the same with every fault, removals, unsaved changes | two phases: all backends checked and locked before the first is replaced; no lock left |
| `Semlock` | 4 handles, one of which cannot open semlock, 3 calls that run each of their hooks once, opening and closing at any time | semaphores stay binary; a writer that has the lock excludes all others that have it and goes before later readers; a hook runs the plugins placed there, also after hooks that failed; backends work under the right lock where there is one; every call returns; the hooks use the plugin in pairs (`SemlockSpec`) |
| `KeySet` | 2 keysets, 4 keys (two with one name, one below it, one in another namespace), arrays of 3 places at least | reference counters; order; room for and presence of the null pointer; validity of the cursor; an iteration sees every key once, whatever is dropped, cut or looked up meanwhile; keysets implement `KeyMap` |
| `Lookup` | 2 paths, any keys in 4 namespaces, all combinations of links, namespaces and defaults, 5 option sets | the first key of the prescribed order is found; lookups do not influence each other; endless recursion needs a cycle of links |
| `Mount` | every sequence of up to 3 of 8 mountpoints, `system/elektra` among them, with and without fallback, failing bootstrap and default backends, 3 modules of which 2 are the same | longest mountpoint; `system/elektra` stays reachable; the split has a part for each key below the parent key; no backend is closed too often, and all are closed in the end |

Runs that show a disagreement between the code and what it says of itself
(details under `findings` in `PROJECT.json`):

| Run | Shows |
|---|---|
| `RaceMixed` | with threads and processes, `close` in the error path of one thread drops the record lock of another thread |
| `KdbFailedGet` | a failed `kdbGet` leaves a file that was not read marked as known |

### Bounds

Two writers with two calls each are enough for every pattern in which one
writer checks, another commits and the first goes on, twice in a row (the
second call starts from the stamps the first one left).  The race needs a third
writer for the case that one holds the lock, one waits and one comes late.
`Inodes` has room for the visible file, one old file per descriptor and one
temporary file per handle; `Available` guards every creation, and no run is cut
off by it.  `MaxSets`, `MaxEdits` and `MaxExternal` bound the calls and edits.
Two backends are enough for "one backend fails, the other does not"; the two
keys of the first one let a key be removed without emptying the backend.

Three handles are the least at which the semlock plugin has a reader inside, a writer
that waits and a reader behind it; the fourth one is in `Denied`.  `MaxCalls` lets three of the
four have a call, or one of them three.  `MaxInstances`
is 1 as no name is made twice unless a handle opens the plugin after another one has
closed it.  In `KeySet` an array of three places grows when the second key comes and
shrinks again, as the real one with 16 does; `MaxAlloc` bounds the arrays that are
duplicated (a duplicate is larger than its source), `MaxLoose` the keys in no
keyset.  Applications iterate and search in one keyset (`Browsed`); the other one is
filled by copying, duplicating, appending and cutting.  `Depth` in `Lookup` stands for
the stack: a chain of links without a cycle goes through each path once, so with two paths
everything deeper than 2 is a cycle.  Three mountpoints
are enough for an entry of the trie that is split and split again; the parts of names
"a" and "ab", and the namespaces spec and system, share characters.

### Under which assumptions the properties hold

The constants that switch off a behaviour in a passing run mark places where the
code does not keep the property.  With one constant changed TLC finds:

- `Writers`, `Initially = {"dir"}`: `NoLostUpdate` fails.  The created file is
  visible before it is locked; another process retrieves it and commits, and the
  creator, which skips the check ("conflict already handled at file creation
  time"), renames over it.  `FailedSetChangesNothing` fails too: the rollback
  unlocks the file it created before it unlinks it.
- `Writers`, `Empties = TRUE`: `NoLostUpdate` fails, since a removal takes no
  lock and checks nothing.
- `Writers`, `Ticks = {0}`: `NoLostUpdate` fails.  A corrected stamp differs from
  the one just replaced, and two corrections bring the first one back.
- `Writers`, `CrashAt <- AnyPoint`: `NoLostUpdate` fails if a process dies after
  the rename and before it has stamped the old file.
- `Writers`, `RenameFails = TRUE`: `NoLostUpdate` fails, since `kdbSet` returns 1
  when the commit failed.  `ReturnReleasesEverything` fails too, since the
  temporary file stays.
- `KdbCalls`, `MayEmpty = TRUE`: `ZeroMeansNothingToDo` fails.  A `kdbGet` without
  update resets the sizes to 0, so that removing all keys looks like no change.
- `KdbCalls`, `SetParents <- AnyBackends`: `ZeroMeansNothingToDo` fails, since
  `kdbSet` clears the sync flags of all keys, also of those it did not store.
- `KdbCalls`, `ExternalUnlink = TRUE`: `GetDelivers` fails.  A removed file counts
  as "no update".
- "-1 on failure - no changes are made to the keyset then" (`kdb.c:735`) is not stated as a
  property.  With global hooks `kdbGet` replaces the keyset (`kdb.c:829`) before the last
  plugins run, and one of these may fail (`kdb.c:833`); without that case it would
  restate what the error path does not touch.
- `Race`, `Initially = {"nothing"}`: `OneWinner` fails.  After
  `elektraMkdirParents` the file is created without `O_EXCL` (`resolver.c:593`):
  two writers open the same file, `isMissing` skips the check of both, both win.
- `Alone`, `Empties = TRUE`: `AloneMeansNoConflict` fails.  A handle that has
  removed the file keeps `isMissing` as it was and conflicts with its own removal
  (`resolver.c:1015`), although "any number of kdbGet() and kdbSet() can be used"
  (`kdb.c:102`).
- `KdbCalls`, `EditedGet = TRUE`: `ZeroMeansNothingToDo` fails.  `splitGet` tests
  `test_bit (syncbits, 0)`, which is never true (`split.c:606`), and clears the
  sync flags of unsaved keys of backends without update.
- `HookRunsItsPlacement` and `LockedWhileWorking` speak of handles in `Paired`: those that
  call `kdbGet` only when there is something new, and `kdbSet` with changes in just one
  backend, and whose calls do not fail.  This is a strong restriction.  A `kdbGet` without
  anything new, the most common call, returns before the postgetstorage hook (`kdb.c:789`);
  the cursor of the list plugin and the state of semlock stay one behind, so that the next
  `kdbGet` unlocks first and locks last.  The presetstorage hook runs
  once for each backend (`kdb.c:953`), and calls that fail run other hooks.
- `Semlock`, `Calls <- AnyGets` (also `kdbGet` without anything new): `SemlockSpec` fails.
  `Calls <- AnyCalls` (all of the above): `CallsEnd` fails too, as locks are taken and never
  given back.  The README of the plugin warns that its use "could lead to deadlocks".
- `LockedWhileWorking` speaks of handles that are not in `Denied`.  With the others the backends
  work unlocked, since `kdb.c` ignores that the hook failed (`kdb.c:777`).
- `Semlock`, `Reopening = TRUE` and `MaxInstances = 2`: `Exclusion` fails.  A
  handle that closes the plugin unlinks the names, and one that opens it then locks
  other semaphores than those that are still at work.
- `Mount`: in fallback `EveryKeyIsSplit` asks for a configuration that mounts nothing at
  `system/elektra` itself (`ElektraIsFree`).  Otherwise the default backend gets its only part at
  `system/elektra` (`mount.c:183`), keys of `system` that nobody else has are not split, and
  `kdbGet` with `/` does not "retrieve all keys" (`kdb.c:725`).  The tools
  refuse such mountpoints (`src/libs/tools/src/backend.cpp:208`), the library does not.
- `Mount`: `AllReleased` exempts a backend whose mountpoint is used again by a later
  one.  The trie overwrites the first value, and nobody closes that backend.
- `Lookup` leaves `KDB_O_POP` out of `FindsFirst`: for a path with a specification it
  is the spec key that is taken out of the keyset, and not the key that is found.
- `KeySet`: `CursorValid` and `SeenUpToCursor` exempt a keyset whose last key was
  popped while the cursor was at it.  They exempt a second case, which only the proof
  attempt brought to light: an iteration to the end, `ksPop`, and then `ksCut` of keys in
  front.  The position is then one behind the null pointer; `ksCut` moves it along
  with the keys that remain and takes the key pointer that happens to be in the
  array there for the cursor (`keyset.c:1115` and `1129`), although it promises that "the cursor
  will stay at the same key as it was before" (`keyset.c:936`).  `Terminated` asks for the null pointer
  only in a keyset with keys: `ksClear` allocates an array without writing
  to it.  A lookup in vain at the end of an iteration rewinds the keyset, and so does
  each `KDB_O_POP`, though "@p ks internal cursor will not move" (`keyset.c:1940`).

### Fairness

Only `Spec` of `GlobalHooks` has fairness.  The properties of `Resolver`, `Race`, `Kdb`,
`KeySet`, `Lookup` and `Mount` are safety properties: nothing in them waits (the mutex is
tried, `F_SETLK` does not block), so that their calls end whatever the locks do.

`Spec` of `GlobalHooks` assumes weak fairness of the next step of each handle's running
call.  Such a step is disabled only while it waits for a semaphore; POSIX promises
no order among those that wait, so fairness stays weak.  `CallsEnd` holds
nevertheless because applications make finitely many calls; nothing is assumed of when
they begin one.

## Proofs

A theorem holds for every value of the constants, hence for any number of handles,
processes, inodes, backends, keys and calls.  What it does not hold for is a
hypothesis of the theorem about the constants that switch on a behaviour, never
about states, or a set of handles that the property names (`Paired`, `Denied`); the section above says what happens without it, and the instance of
the run that checks the property satisfies the hypothesis.  No constant is
assumed to be more than the named `ASSUME`s of the modules say.

| Theorem | States | Under |
|---|---|---|
| `TypeCorrect` (`ResolverProofs`) | `Spec => []TypeOK` | - |
| `CheckedIsCurrent` | `Spec => []CheckedFileIsCurrent` | `Cooperative` |
| `NoUpdateIsLost` | `Spec => []NoLostUpdate` | `Cooperative` |
| `ImplementsStore` | `Spec => StoreSpec`, the refinement of `ConfigStore` | `Cooperative` |
| `ReadersSeeCompleteFiles` | `Spec => []VisibleIsComplete` | - |
| `EverythingIsReleased` | `Spec => []ReturnReleasesEverything` | `~RenameFails` |
| `FailureChangesNothing` | `Spec => FailedSetChangesNothing` | `Initially \subseteq {"file"}`, `~Empties` |
| `AloneNeverConflicts` | `Spec => []AloneMeansNoConflict` | `~Empties`, `~StoreFails` |
| `RaceHasOneWinner` (`RaceProofs`) | `RaceSpec => []OneWinner` | `Fair` |
| `KdbTypes` (`KdbSafety`) | `Spec => []TypeOK` | - |
| `PreparedFirst` | `Spec => []PreparedBeforeCommit` | - |
| `LocksReleased` | `Spec => []NoLockLeft` | - |
| `KnownFilesWereRead` | `Spec => []KnownMeansRead` | `ReadsSucceed` |
| `CommitsReplaceSeen` | `Spec => CommitReplacesSeen` | `ReadsSucceed`, `~MayEmpty` |
| `NothingToDo` | `Spec => []ZeroMeansNothingToDo` | `WholeCalls` |
| `Stored` | `Spec => []OneMeansStored` | `WholeCalls`, `ReadsSucceed` |
| `GetsDeliver` | `Spec => []GetDelivers` | `WholeCalls` |
| `SemlockTypes` (`HooksProofs`) | `SemlockSpec => []SemlockTypeOK` | `~Reopening` |
| `WritersExclude` | `SemlockSpec => []Exclusion` | `~Reopening` |
| `WritersGoFirst` | `SemlockSpec => WriterGoesFirst` | `~Reopening` |
| `ComposedInvariance` | `Spec => []Composed`, the inductive invariant | - |
| `HooksImplementSemlock` | `Spec => SemlockSpec`, the refinement | `Handles \subseteq Paired \cup Denied` |
| `HooksRunTheirPlacement` | `Spec => []HookRunsItsPlacement`, of the handles in `Paired` | - |
| `LockedAtWork` | `Spec => []LockedWhileWorking`, of the handles in `Paired \ Denied` | - |
| `WritersWorkAlone` | `Spec => []WorkExcludes`, of the handles not in `Denied` | `~Reopening`, `Handles \subseteq Paired \cup Denied` |
| `SearchCorrect` (`KeySetProofs`) | what `ksSearchInternal` returns for every sorted keyset and name | - |
| `AlwaysInv` | `Spec => []Inv`, the inductive invariant | - |
| `SpecSorted` | `Spec => []Sorted` | - |
| `SpecTerminated` | `Spec => []Terminated` | - |
| `SpecCursorValid` | `Spec => []CursorValid` | - |
| `SpecSeenUpToCursor` | `Spec => []SeenUpToCursor` | - |
| `SpecRefCounts` | `Spec => []RefCounts` | - |
| `SpecMapSpec` | `Spec => MapSpec`, the refinement of `KeyMap` | - |
| `SpecFindsFirst` (`LookupProofs`) | `Spec => []FindsFirst` | - |
| `SpecIndependent` | `Spec => []Independent` | - |
| `SpecOverflowNeedsCycle` | `Spec => []OverflowNeedsCycle` | - |
| `TypesStay` (`MountProofs`) | `Spec => []MountTypeOK` | - |
| `SpecLongestMountpoint` | `Spec => []LongestMountpoint` | - |
| `SpecElektraStaysReachable` | `Spec => []ElektraStaysReachable` | - |
| `SpecEveryKeyIsSplit` | `Spec => []EveryKeyIsSplit` | - |
| `SpecAllReleased` | `Spec => []AllReleased` | - |

The hypotheses with names are conditions on the constants only:

- `Cooperative`: every handle is in a process of its own, the file exists at the
  start, every write gets a stamp of its own (`0 \notin Ticks`), nobody stores an
  empty keyset, `rename` works, and no process dies between its `rename` and the
  stamp of the old file.  Storage plugins may fail, and processes die elsewhere.
- `Fair`: `Cooperative`, no storage plugin fails, and somebody takes part.
- `ReadsSucceed`: no getplugin fails and no file vanishes.  Conflicts, failing set
  plugins, commits and hooks, unsaved changes and emptied backends are allowed.
- `WholeCalls`: the application stores all backends before it calls `kdbGet` again and
  leaves each a key; no file vanishes and no commit fails.
- `Handles \subseteq Paired \cup Denied`: every handle either cannot open semlock or makes only
  calls that run all their hooks once.

### Resolver

`TypeOK` alone is not inductive: the steps after a successful open look up the stamp
and the lock of `pkfd[h]`, of `fd[h]` and of `tmp[h]`, which are inodes only because
of where the handle is in its call.  `Holds` says that: from the mutex on a handle
that has not failed has an open file, from the write on a temporary file, and
from the rename on a second descriptor.  One lemma per phase (get, begin,
prepare, storage, commit, rollback, crash) shows that the steps keep `TypeOK`,
two more that they keep `Holds`.

For cooperating processes the invariant `IInv` adds:

- `Settled`: what is open at which step;
- `Private`: nobody else refers to a temporary file, so writing it disturbs nobody;
- `Replaced`: after the `rename` the new file stays the visible one until its
  writer has unlocked it;
- `Locked`, `Owned`, `Serial`: who has which lock and mutex, in both directions;
- `Clocked`, `NewStamps`: nobody knows the stamp of a file that is not in place
  yet.  This also excludes the branch of `Stamp` that corrects a stamp;
- `Stalled`: a handle that opened a file which was replaced before it got the lock
  either knows another stamp than the file has now, or the handle that replaced
  the file still has the lock and has not stamped it yet.  This is the heart of the
  protocol: it is why the stamp of the *old* file has to change before its lock is
  given away;
- `Current`: the checked file is the visible one; it follows from `Stalled` in the
  step of the check, and from mutual exclusion afterwards;
- `Grows`, `Known`, `Written`: a handle that knows the stamp of the visible file has
  seen its content, and the keyset it writes is at least that content.

Two lemmas per part, for the steps of a handle and for a crash, prove that it is
kept; `NextSafe` puts them together.  For the refinement, `Rename` maps to `Publish`
(by `Known`, the replaced content is `base`), `Read` to `Retrieve`, `Crash` to
`Reopen`, and every other step leaves the visible keyset and `base` alone.

The second part of `ResolverProofs` is about handles that do not cooperate.  Most of
`IInv` is false then, but three properties need much less.  `Temporary` (a temporary
file is neither the visible one nor another handle's, and complete before its
`rename`) is kept by every step of every process and thread, and implies that readers see complete
files.  `Closing`, `Owned` and `Serial` say what is open at which step and who owns locks
and mutexes; `Owned` is about processes, not handles, and so survives that one thread
drops the record lock of another.  A failing `rename` alone breaks `Closing`: it leaves
the temporary file, and `kdbSet` returns 1.  `Staying` says that nobody creates or removes the file,
so that a rollback has nothing to unlink.

A handle that is alone never conflicts because it stays up to date (`UpToDate`: it
knows that the file is missing, or knows its stamp), through both ways the commit can
go: `rename` succeeds and the handle takes or corrects the stamp of the new file, or
it fails and the *old* file gets the stamp of the temporary one.  This needs nothing of the
clock.

### Race

`RaceInv` has eight parts.  `Barrier` and `Untouched` say that no writer stores before
all have retrieved the file, so that until the first `rename` all know the stamp of
the visible file.  `Single` is the core: once a writer has replaced the file,
none of the others knows its stamp, and none will, as it retrieves nothing between the
barrier and its own success.  With `Matching` (who passed the check knows the stamp) there is no second winner.
`Contest` is why there is a first: a writer that has given up was refused by one that
holds the lock and will win, or that has won.  It rests on `Yields` (who failed
or waits has no lock) and on `Owned` and `Serial` of `IInv`.

### Kdb

`TwoPhase` is `TypeOK` with `Loop` and `Locks`.  `Loop` says that the index of a running
loop is at one of its backends or behind the last; that a step takes it to the next one
(`AfterIsNext`) is proved from the well-foundedness of finite subsets
(`LeastElement`).  `Locks` says that in the first phase every backend passed that gets a
new file is locked or there is an error, and that in the second phase exactly
those not passed yet are.  That gives `PreparedBeforeCommit` and `NoLockLeft` for every
fault and interference.

The meaning of the return values needs four more invariants:

- `Known`: where the resolver knows the stamp of the file, the handle has the content in
  `base`, or the running `kdbGet` still has it to read or has it in `got`.  The middle
  case is the one that a failing getplugin makes permanent (run `KdbFailedGet`);
- `Unseen`: a file that is not there holds no keys, and neither does what the handle
  knows of a file it has missed; a locked backend has no conflict any more;
- `NonEmpty`: a backend without keys has the size 0 or none, so that `kdbSet` never
  stores (removes) it and every backend it stores gets a new file;
- `Edits`: a key that differs from `base` has the sync flag, or it is gone and the size
  of its backend tells; the size is the one of `base`, or 0 after a `kdbGet` that read
  nothing, or unknown; and what the commit has passed is as the application has it.

### Semlock and GlobalHooks

The invariant of `Semlock` has seven parts.  `Types` and `Life` say that each name stands for one
semaphore, which is what `~Reopening` is needed for: a handle begins to close
only when none is opening, and none opens afterwards.  `Opened` says that a handle has
open what it uses, `Phase` what it has locked at which step.  `Locks` gives the
mutexes `sem_mutex`, `read` and `write` at most one holder.  `Counters` is the core of
the algorithm: `readCount` and `writeCount` are the cardinalities of the sets of handles
between the post and the wait of the counter.  `Switches` says for whom `access` and
`tryRead` are taken: by a group (the readers, or the writers that wait) or by one
single handle, never both.  The step that tests the counter is where they
meet: a handle that reads 1 after its own post is alone in the set (`FirstReader`,
`FirstWriter`), one that reads 0 is the last (`LastReader`, `LastWriter`), which holds as
the mutex keeps all others from changing the set between the two calls.  The lemmas
`Counting` and `CountingOne` connect cardinalities with elements; there is one lemma
for each phase of each function (`GetPREStep`, `GetPOSTStep`, `SetPREStep`,
`SetPOSTStep`, and so on), and `NextIInv` puts them together.

The composition adds `InStep`: for each handle in `Paired`, the two cursors of the list plugin, the
PRE/POST state of semlock (that of `Denied` handles never changes, `StaysOut`) and the hooks that
are left of its call are in one of five combinations.  Without it nothing says that the second
call of the get function is the postgetstorage hook of the same `kdbGet`.  The lemmas on
`Memory` compute where the unbounded search of the list plugin stops for each cursor
that occurs.  `InStep` is about one handle at a time, and a step of another one changes nothing
of it (`OneHandle`); therefore `HooksRunTheirPlacement` and `LockedAtWork` need no hypothesis
about the other handles, which may make any calls.  What the lock *means* does depend on all
who take it: from `InStep` each step of a hook is a step of `SemlockSpec` or a stutter if all
handles are in `Paired` or `Denied` (`HooksImplementSemlock`), and then what is proved of
`SemlockSpec` holds of the hooks.  With `LockedAtWork` this gives `WritersWorkAlone`:
the backends of a handle write only while those of no other handle that has semlock read or
write.

### KeySet

`KeySetAssumption` is all that is assumed: names are sequences of numbers with a
namespace first, a new keyset has room for at least two keys, and the model values differ from
each other.  Keys, keysets, names and the length of arrays are arbitrary.

*Induction over data.*  The induction theorems of the library take a predicate as
parameter, which the provers cannot instantiate.  The proofs use sets and functions in
its place.  `LeastElement` (from the well-foundedness of finite subsets) gives
`Induction` for a *set* of numbers that has 0 and with each number the next one, and
`LoopExists`: for a function `g` from an index and a state to a state and sets `S[i]` that `g` leads
from one to the next, there is one function that is the loop, and its i-th value is in `S[i]`.
The sets `S[i]` are the loop invariants of the code: for `ksAppend`, "the keyset is in order, has the
keys of before and the first `i` new ones, and the counters are right"; for `ksClose`,
"right but for the keys still to come"; for `ksCut` at a cascading name, one round per
namespace.  That a recursive function of the model is this loop follows, as it is chosen to
satisfy its equation.

*The binary search.*  The recursive function of `ksSearchInternal` is compared with an explicit one
(`Near`): on a range that holds the place of the name it gives the position of the
name, or the place; by induction over the length of the range they agree.  `SearchCorrect`
follows from that and from the order of names being total and
transitive (`BeforeTotal`, `BeforeTransitive`).  It is what `Sorted` rests on: a key is inserted where
the search ended.

*The invariant.*  `Inv` is `Good(State, own, trail)` and has these parts:

- `Fine`: a keyset is sorted and holds each name once; has `Room` (the array is longer
  than the number of keys); the null pointer is behind the last key if there is one; and where the position
  is at a key, the cursor is that key or the keyset is rewound (`CursorAt`).  `Room` is why
  `MakeRoom` has to double the array one key early, and why `ksPop` and `ksResize` may shrink it;
- `Tracks`: while a trail is told, the keys `ksNext` has returned are those up to the cursor
  (`Seen`).  `DropStep` shows this for the steps of `splitGet` (pop at the cursor, set the cursor, step
  back), and the lemmas on `CutCursor` for the four positions that the cursor can
  have to the part that is cut out, the second half of `ksCut` finding what the first
  has already changed;
- `Counted`: the counter of a key that is not freed is the number of keysets that hold it and
  the reference of its owner, and a freed key is in no keyset.  Replacing a key of the same name
  gives back one reference and takes another, `ksAppend` takes one for each key, and
  `ksClose` gives one back for each: `CountChange` says how the cardinality of the set of
  holders changes when one keyset does.

`Sorted`, `Terminated`, `CursorValid`, `SeenUpToCursor` and `RefCounts` follow state by state.  For the
refinement, a keyset is mapped to the set of its keys (`ContentOf`), and the live keys are those whose
counter is not `Freed` (`LiveIn`).  Operations that only move the cursor stutter; all others are
operations of `KeyMap` on sets (`MapBecome`, `MapReplace`, `MapTake`).

The attempt to prove `CursorValid` failed at `ksCut` with a cursor behind the null pointer, a state that
the run did not distinguish before.  It is described above; the model now has what is in
the array behind the keys.

### Lookup

`LookupAssumption` is what is assumed: override, fallback and namespace metadata name keys
and real namespaces, there are finitely many paths, and the stack (`Depth`) has room for a chain of
links that goes through each path once.  Paths, specifications, links (also
from a path to itself), keysets and options are arbitrary.

*What is found.*  `elektraLookupBySpec` and the links it follows call each other.  The property
`FindsFirst` says what this recursion is for: it replaces links by what they stand
for, in one list of `Candidates`, and the first candidate in the keyset wins.  The code does not build that
list; it takes the first result at every level that is not NULL.  Both are tables that are filled level by
level of nesting, `ByLink` with results and `Candidates` with lists.  By `LoopExists` there are
such tables (`ByLinkUnfolds`, `CandidatesUnfolds`), and by induction over the level each
entry of the one is the first hit in the entry of the other (`TablesAgree`).  The step needs
that the first hit of a concatenation is that of the first part that has one
(`FirstHitOfConcat`, `FirstHitOfFlatten`).  What is left are the cases of the default, of
`KDB_O_CREATE` and of a cascading key in the keyset itself (`KsLookupFinds`).

*Independence.*  A lookup may add its default to the keyset, under the cascading name.  Lookups
search the namespaces first, which do not contain it, and links do not lead
to a cascading name itself.  So two keysets that differ in cascading names only
(`OnlyDefaults`) give the same first hit for every name (`DefaultsHideNothing`, `SameByLink`, `SameBySpec`).  The
invariant `LookupInv` says that the keyset differs so from `first`, and that a default was added only where the
specification has one, so the lookup in `first` would have given it too.

*The stack.*  A result `Overflow` at level 0 was handed up by a link on each level above
(`LinksLeadFromOne`).  That is a chain of `Depth + 1` links (`ChainGrows`), more than there are paths, so by
the pigeonhole principle a path comes twice, and the links between the two are a cycle
(`LongChainHasCycle`).

### Mount

`MountAssumption` is what is assumed: no backend is in the configuration twice or has the name of a
module or of a built-in backend, names do not contain the slash, and no configuration has more
entries than there are backends for.  Mountpoints, their number and order, names and modules are arbitrary.

*The trie.*  `IsTrie` says what the strings of a trie are like; its core is `Branching`:
where two of them part, their common beginning is a node.  Therefore all entries of a
node that begin with the next character of a name go on behind the shortest one
(`EntryProperties`), and a lookup
meets each node whose string begins the name (`LookupFinds`, by induction from the end of the name
backwards).  `LookupCorrect`: the result is what is kept at the longest
of these that keeps anything, in whichever of its two places.  `InsertCorrect`: an insertion,
whether it splits an entry or not, keeps `IsTrie` and changes what is kept at one
name only.  That a split moves the old value and child to the new node shows up here: all other strings
keep their slots.

*Names.*  `Spelled` gives the places at which the slashes of a name are; from it
`AboveMeans`: a name with a slash at its end is a prefix of another one just if its
parts are a prefix of the other's.  The slash that `trieLookup` and `mountBackend` add is needed for that;
without it `user/a` would be above `user/ab`.  Namespaces need `DifferentNamespaces`, as spec and
system begin alike.

*What is mounted.*  `MountInv` has four parts:

- `StateOK`: types, and the trie `Mounts` the history: what was inserted last at a name is kept there, and
  nothing else is in the trie;
- `CountOK`: until `kdbClose` a reference counter is the number of slots in the trie plus the
  references of the handle, unless a later backend has replaced this one; after it, 0;
- `PendingOK`: a backend still to be mounted is mounted nowhere and has no reference.  `mountBackend`
  assigns the counter and does not add to it, which is right only for such a backend; for
  `mountModules`, which meets names twice, it is what the loop checks;
- `ElektraOK`: nobody but the init or the default backend has `system/elektra`.  The version and the
  modules are mounted below, so their names are longer and not above it.

`LongestMountpoint` follows by `FoundInHistory`, `AllReleased` from `CountOK`.

*The split.*  `SplitInv` relates the list to the trie: each insertion has a part at its
mountpoint (`EachHasPart`); where the root of a namespace belongs to nobody, the default backend has a
part for it (`RootsHaveParts`; it needs that `mountDefault` comes after all configured
backends, `FromConfig`); and two parts of one backend are for different namespaces and marked so
(`PartsApart`), without which `splitSearchBackend`, which takes the first part of the
backend, could take one that is not above the key.  Hence every key has a part that is
responsible for it (`ResponsiblePart`): the one of the longest mountpoint.  For a parent key above the key that
part is below the parent key, or it is above and belongs to the backend of the parent
key, as the longest mountpoint above the key is also the longest one above what lies
between (`LongestBetween`).  In both cases `splitBuildup` takes it.

The proof attempt is what made the exception in fallback part of the property.

### Only model-checked

- Liveness (`CallsEnd`), which is out of the prover's reach.
- `OneWinner` for threads, with a coarse clock or a missing file, which the run `Race`
  covers: `RaceHasOneWinner` rests on the invariant of cooperating processes.

## Plan

1. Done: `Resolver` with its runs, `ConfigStore`, `Race`, `Kdb`; type correctness, the
   safety properties of cooperating processes and the refinement proved.
2. Done: `Semlock` and `GlobalHooks` with the lock proved correct; `KeySet`, `KeyMap`
   and `Lookup`; `Mount`.
3. Done: proofs of `Kdb`, `GlobalHooks`, `Race`, `KeySet`, `Lookup` and `Mount`, and of what `Resolver` keeps
   without `Cooperative`.
4. Next: which of the hypotheses of `Cooperative` can be weakened for `NoLostUpdate`
   (storage of an empty keyset by a handle that is alone; crashes in the window with a
   single other writer); `OneWinner` among the threads of one process, where the mutex
   takes the place of the record lock.
5. Possible extensions: the correction of stamps with seconds and nanoseconds apart
   (`resolver.c:846`); the virtual heap of the hash map against a bag; the three-way
   merge of the tools library; the coordinator of thread contexts of the C++ binding.

## Not modelled

- File modes, owners and `fsync`; names of files and namespaces (`filename.c`);
  `fstat` or `open` failing on files that exist; seconds and nanoseconds of stamps; file
  systems that truncate stamps.
- `elektraMkdirParents` failing, whose result is ignored (`resolver.c:783`), and
  `elektraCreateFile` failing after it (`resolver.c:786`): `Mkdir` and `Create` always succeed.
  The second `open` of the commit failing (`resolver.c:902`), after which it goes
  on with -1 as descriptor.
- `sem_open` failing only now and then, or for only some of the names (`semlock.c:86`):
  in the model it always works in a process or never does.  If it fails at one hook and works at
  the next one, the plugin takes that one for the first and is out of step from then on.
  `sem_wait` interrupted by a signal: no caller looks at its result (`semlock.c:78`, `110`
  and from 147 on).  Failing results of the other plugins that the list plugin delegates to;
  `kdb.c` ignores these as well.
- Keysets that hold one name several times with different owners: the code compares the metadata
  `owner` after the name (`keyset.c:512` and `709`), `Before` names only.
- Text of errors and warnings; key names, values and metadata as strings, with their
  escaping and validation; allocation that fails.
- Plugins other than resolver, list, semlock and storage: most convert formats or check
  values of one keyset and keep no state between calls.  How plugins are loaded and
  how a backend is assembled from its configuration.
- The order preserving minimal perfect hash map, which no keyset uses in this revision.
- The tools library (merging, ordering of plugins): sequential transformations of keysets.
- User interfaces, services, bindings and code generators.  They make up most of the
  lines of the repository; their state is that of the library.
