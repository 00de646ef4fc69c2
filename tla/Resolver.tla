------------------------------ MODULE Resolver ------------------------------
(***************************************************************************)
(* The resolver plugin (src/plugins/resolver/resolver.c) of several KDB    *)
(* handles that share one configuration file, driven by kdbGet() and       *)
(* kdbSet() (src/libs/elektra/kdb.c) for a mount point with this file.     *)
(*                                                                         *)
(* Every handle is a thread of a process.  A step of a handle is one       *)
(* system call on the shared file (or one on state private to the handle), *)
(* so that the handles interleave wherever the operating system lets them. *)
(*                                                                         *)
(* Keysets: every handle owns one key, whose value it increases with each  *)
(* kdbSet(), as the writers of src/tools/race/race.c each add a key of     *)
(* their own.  A keyset maps each handle to the value of its key, 0 if it  *)
(* has no such key.                                                        *)
(***************************************************************************)
EXTENDS PosixFiles

CONSTANTS
    Handles,      \* the KDB handles, one per thread
    ProcOf,       \* the process a handle belongs to
    NoHandle,     \* the holder of a free mutex
    NoKs,         \* what a handle has seen that never retrieved anything
    MaxSets,      \* bound: kdbSet() calls per handle
    Empties,      \* may applications store an empty keyset?
    StoreFails,   \* may the storage plugin, or another backend, fail in kdbSet()?
    RenameFails,  \* may rename() fail?
    CrashAt,      \* the points of a call at which its process may die
    Initially,    \* what may exist at the start: "file", "dir" or "nothing"
    MonoTimes     \* what clock_gettime(CLOCK_MONOTONIC) may return

VARIABLES
    pkfd,         \* pk->fd: the inode of the open configuration file, or -1, -2
    mtime,        \* pk->mtime: the stamp the handle knows, 0 for no file
    isMissing,    \* pk->isMissing: was there no file when it looked?
    removalNeeded,\* pk->removalNeeded: must a rollback remove the file?
    timeFix,      \* pk->timeFix: direction of the next correction of a stamp
    tmp,          \* the inode of pk->tempfile, a name no other handle uses
    fd,           \* the local fd of elektraSetCommit
    mutex,        \* elektraResolverMutex of each process
    ks,           \* the keyset of the application
    seq,          \* kdbSet() calls so far
    pc,           \* the system call the handle executes next
    failed,       \* did the running kdbSet() meet an error?
    base,         \* history: the keyset the handle retrieved or stored last
    won           \* history: its own key as of its last successful kdbSet()

nodeVars == <<data, complete, stamp>>
posixVars == <<dir, file, nodeVars, lock, now>>
known == <<mtime, isMissing, removalNeeded, timeFix>>
pkVars == <<pkfd, known>>
appVars == <<ks, seq, base, won>>
vars == <<posixVars, pkVars, appVars, tmp, fd, mutex, pc, failed>>

PCs == {"idle", "read", "open", "mkdir", "create", "mutex", "flock", "check",
        "write", "flush", "commit", "rename", "stamp", "stampold", "unlockold",
        "unlocknew", "remove", "rollback", "unlock", "unlink"}

ASSUME HandlesAssumption ==
    /\ ProcOf \in [Handles -> Procs]
    /\ NoHandle \notin Handles
    /\ MaxSets \in Nat
    /\ MonoTimes \subseteq Nat
    /\ Empties \in BOOLEAN /\ StoreFails \in BOOLEAN /\ RenameFails \in BOOLEAN
    /\ CrashAt \subseteq PCs
    /\ Initially \subseteq {"file", "dir", "nothing"}
    /\ "file" \in Initially => Inodes # {}

KeySets == [Handles -> 0 .. MaxSets]
EmptyKs == [h \in Handles |-> 0]

ASSUME NoKsAssumption == NoKs \notin KeySets

\* Content of the configuration file for whoever reads it: a missing file and
\* an empty one are both a configuration without keys.
Visible == IF file = NoInode THEN EmptyKs ELSE data[file]

\* Values of pk->fd without an open file.
NoFd == -1
RemovalFd == -2

\* Mutated: a handle whose timeFix was never initialised.
resolverInitNoTimeFix ==
    /\ pkfd = [h \in Handles |-> NoFd]
    /\ mtime = [h \in Handles |-> 0]
    /\ isMissing = [h \in Handles |-> FALSE]
    /\ removalNeeded = [h \in Handles |-> FALSE]
    /\ timeFix = [h \in Handles |-> 0]

resolverInit ==
    /\ pkfd = [h \in Handles |-> NoFd]
    /\ mtime = [h \in Handles |-> 0]
    /\ isMissing = [h \in Handles |-> FALSE]
    /\ removalNeeded = [h \in Handles |-> FALSE]
    /\ timeFix = [h \in Handles |-> 1]

-----------------------------------------------------------------------------
Init ==
    /\ \E there \in Initially :
          /\ dir = (there # "nothing")
          /\ file = IF there = "file" THEN FreshInode({}) ELSE NoInode
    /\ data = [i \in Inodes |-> EmptyKs]
    /\ complete = [i \in Inodes |-> TRUE]
    /\ stamp = [i \in Inodes |-> StartTime]
    /\ lock = [i \in Inodes |-> NoProc]
    /\ now = StartTime
    /\ resolverInit
    /\ tmp = [h \in Handles |-> NoInode]
    /\ fd = [h \in Handles |-> NoFd]
    /\ mutex = [p \in Procs |-> NoHandle]
    /\ ks = [h \in Handles |-> EmptyKs]
    /\ seq = [h \in Handles |-> 0]
    /\ pc = [h \in Handles |-> "idle"]
    /\ failed = [h \in Handles |-> FALSE]
    /\ base = [h \in Handles |-> NoKs]
    /\ won = [h \in Handles |-> 0]

Goto(h, l) == pc' = [pc EXCEPT ![h] = l]
At(h, l) == pc[h] = l

\* Inodes some name or descriptor refers to.
Used == {file} \cup {pkfd[h] : h \in Handles} \cup {tmp[h] : h \in Handles}
               \cup {fd[h] : h \in Handles}
Available == Inodes \ Used # {}

\* kdbSet() goes on after an error of the resolver: the storage plugin still
\* runs, and the error function of the resolver comes last.
Fail(h) ==
    /\ failed' = [failed EXCEPT ![h] = TRUE]
    /\ Goto(h, "write")

-----------------------------------------------------------------------------
(* kdbGet *)

\* The get function of the resolver: stat() decides what happens.
GetMissing(h) ==
    /\ At(h, "idle")
    /\ file = NoInode
    /\ mtime' = [mtime EXCEPT ![h] = 0]
    /\ isMissing' = [isMissing EXCEPT ![h] = TRUE]
    /\ base' = [base EXCEPT ![h] = EmptyKs]
    /\ UNCHANGED <<posixVars, pkfd, removalNeeded, timeFix, tmp, fd, mutex, ks, seq, pc,
                   failed, won>>

GetUnchanged(h) ==
    /\ At(h, "idle")
    /\ file # NoInode
    /\ stamp[file] = mtime[h]
    /\ isMissing' = [isMissing EXCEPT ![h] = FALSE]
    /\ UNCHANGED <<posixVars, appVars, pkfd, mtime, removalNeeded, timeFix, tmp, fd,
                   mutex, pc, failed>>

GetChanged(h) ==
    /\ At(h, "idle")
    /\ file # NoInode
    /\ stamp[file] # mtime[h]
    /\ mtime' = [mtime EXCEPT ![h] = stamp[file]]
    /\ isMissing' = [isMissing EXCEPT ![h] = FALSE]
    /\ Goto(h, "read")
    /\ UNCHANGED <<posixVars, appVars, pkfd, removalNeeded, timeFix, tmp, fd, mutex,
                   failed>>

\* The storage plugin opens the file by its name, reads and closes it.  If the
\* file vanished after the stat(), kdbGet() fails.
Read(h) ==
    /\ At(h, "read")
    /\ Goto(h, "idle")
    /\ \/ /\ file # NoInode
          /\ ks' = [ks EXCEPT ![h] = data[file]]
          /\ base' = [base EXCEPT ![h] = data[file]]
          /\ lock' = Released(ProcOf[h], file)
       \/ /\ file = NoInode
          /\ UNCHANGED <<ks, base, lock>>
    /\ UNCHANGED <<dir, file, nodeVars, now, pkVars, tmp, fd, mutex, seq, failed, won>>

-----------------------------------------------------------------------------
(* kdbSet, first phase: the prepare functions of the backend *)

\* A kdbSet() needs a kdbGet() before it (error 107), successful or not: the
\* resolver has stat()ed the file.
Got(h) == isMissing[h] \/ mtime[h] # 0

\* The application increases its key and the set function of the resolver starts.
SetBegin(h) ==
    /\ At(h, "idle")
    /\ Got(h)
    /\ seq[h] < MaxSets
    /\ seq' = [seq EXCEPT ![h] = @ + 1]
    /\ ks' = [ks EXCEPT ![h][h] = seq[h] + 1]
    /\ removalNeeded' = [removalNeeded EXCEPT ![h] = FALSE]
    /\ Goto(h, "open")
    /\ UNCHANGED <<posixVars, pkfd, mtime, isMissing, timeFix, tmp, fd, mutex, failed,
                   base, won>>

\* A kdbSet() of an empty keyset: the resolver returns 0, so that no other
\* plugin of the backend is called before the commit.
SetBeginEmpty(h) ==
    /\ At(h, "idle")
    /\ Empties
    /\ Got(h)
    /\ seq[h] < MaxSets
    /\ seq' = [seq EXCEPT ![h] = @ + 1]
    /\ ks' = [ks EXCEPT ![h] = EmptyKs]
    /\ pkfd' = [pkfd EXCEPT ![h] = RemovalFd]
    /\ \/ Goto(h, "remove") /\ UNCHANGED failed
       \/ /\ StoreFails
          /\ failed' = [failed EXCEPT ![h] = TRUE]
          /\ Goto(h, "rollback")
    /\ UNCHANGED <<posixVars, known, tmp, fd, mutex, base, won>>

\* elektraOpenFile of a handle that knows the file.
Open(h) ==
    /\ At(h, "open")
    /\ ~isMissing[h]
    /\ \/ /\ file = NoInode
          /\ Fail(h)
          /\ UNCHANGED pkfd
       \/ /\ file # NoInode
          /\ pkfd' = [pkfd EXCEPT ![h] = file]
          /\ Goto(h, "mutex")
          /\ UNCHANGED failed
    /\ UNCHANGED <<posixVars, known, appVars, tmp, fd, mutex>>

\* The inode that open(O_CREAT) creates under the name of the configuration
\* file, and the handle's descriptor for it.
Created(h) ==
    /\ Available
    /\ LET i == FreshInode(Used)
       IN  /\ \E d \in Ticks : /\ now' = now + d
                               /\ stamp' = [stamp EXCEPT ![i] = now + d]
           /\ data' = [data EXCEPT ![i] = EmptyKs]
           /\ complete' = [complete EXCEPT ![i] = TRUE]
           /\ file' = i
           /\ pkfd' = [pkfd EXCEPT ![h] = i]
    /\ removalNeeded' = [removalNeeded EXCEPT ![h] = TRUE]

\* Mutated: without O_EXCL an existing file is opened.
OpenNotExclusive(h) ==
    /\ At(h, "open")
    /\ isMissing[h]
    /\ \/ /\ file # NoInode
          /\ pkfd' = [pkfd EXCEPT ![h] = file]
          /\ UNCHANGED <<file, nodeVars, now, removalNeeded>>
       \/ /\ file = NoInode
          /\ Created(h)
    /\ Goto(h, "mutex")
    /\ UNCHANGED <<dir, lock, failed, mtime, isMissing, timeFix, appVars, tmp, fd, mutex>>

\* elektraOpenFile of a handle that found no file: O_CREAT | O_EXCL.
OpenExclusive(h) ==
    /\ At(h, "open")
    /\ isMissing[h]
    /\ \/ /\ file # NoInode
          /\ Fail(h)
          /\ UNCHANGED <<posixVars, pkfd, removalNeeded>>
       \/ /\ file = NoInode
          /\ dir
          /\ Created(h)
          /\ Goto(h, "mutex")
          /\ UNCHANGED <<dir, lock, failed>>
       \/ /\ ~dir
          /\ Goto(h, "mkdir")
          /\ UNCHANGED <<posixVars, pkfd, removalNeeded, failed>>
    /\ UNCHANGED <<mtime, isMissing, timeFix, appVars, tmp, fd, mutex>>

\* elektraMkdirParents
Mkdir(h) ==
    /\ At(h, "mkdir")
    /\ dir' = TRUE
    /\ Goto(h, "create")
    /\ UNCHANGED <<file, nodeVars, lock, now, appVars, pkVars, tmp, fd, mutex, failed>>

\* elektraCreateFile: this time without O_EXCL.
Create(h) ==
    /\ At(h, "create")
    /\ \/ /\ file = NoInode
          /\ Created(h)
       \/ /\ file # NoInode
          /\ pkfd' = [pkfd EXCEPT ![h] = file]
          /\ removalNeeded' = [removalNeeded EXCEPT ![h] = TRUE]
          /\ UNCHANGED <<file, nodeVars, now>>
    /\ Goto(h, "mutex")
    /\ UNCHANGED <<dir, lock, mtime, isMissing, timeFix, appVars, tmp, fd, mutex, failed>>

\* elektraCloseFile (pk->fd) in the error paths of elektraSetPrepare.
CloseFd(h) ==
    /\ lock' = Released(ProcOf[h], pkfd[h])
    /\ pkfd' = [pkfd EXCEPT ![h] = NoFd]

UnlockMutex(h) == mutex' = [mutex EXCEPT ![ProcOf[h]] = NoHandle]

\* Mutated: a thread goes on when the mutex is busy.
LockMutexIgnored(h) ==
    /\ At(h, "mutex")
    /\ mutex' = [mutex EXCEPT ![ProcOf[h]] = h]
    /\ Goto(h, "flock")
    /\ UNCHANGED <<lock, pkVars, failed, dir, file, nodeVars, now, appVars, tmp, fd>>

\* elektraLockMutex: trylock.
LockMutex(h) ==
    /\ At(h, "mutex")
    /\ \/ /\ mutex[ProcOf[h]] = NoHandle
          /\ mutex' = [mutex EXCEPT ![ProcOf[h]] = h]
          /\ Goto(h, "flock")
          /\ UNCHANGED <<lock, pkfd, failed>>
       \/ /\ mutex[ProcOf[h]] # NoHandle
          /\ CloseFd(h)
          /\ Fail(h)
          /\ UNCHANGED mutex
    /\ UNCHANGED <<dir, file, nodeVars, now, known, appVars, tmp, fd>>

\* Mutated: the mutex stays locked when the file is locked by somebody else.
LockFileKeepsMutex(h) ==
    /\ At(h, "flock")
    /\ \/ /\ CanLock(ProcOf[h], pkfd[h])
          /\ lock' = [lock EXCEPT ![pkfd[h]] = ProcOf[h]]
          /\ Goto(h, "check")
          /\ UNCHANGED <<pkfd, failed>>
       \/ /\ ~CanLock(ProcOf[h], pkfd[h])
          /\ CloseFd(h)
          /\ Fail(h)
    /\ UNCHANGED <<mutex, dir, file, nodeVars, now, known, appVars, tmp, fd>>

\* elektraLockFile: F_SETLK does not wait.
LockFile(h) ==
    /\ At(h, "flock")
    /\ \/ /\ CanLock(ProcOf[h], pkfd[h])
          /\ lock' = [lock EXCEPT ![pkfd[h]] = ProcOf[h]]
          /\ Goto(h, "check")
          /\ UNCHANGED <<pkfd, mutex, failed>>
       \/ /\ ~CanLock(ProcOf[h], pkfd[h])
          /\ CloseFd(h)
          /\ UnlockMutex(h)
          /\ Fail(h)
    /\ UNCHANGED <<dir, file, nodeVars, now, known, appVars, tmp, fd>>

\* Mutated: only the existence of the file counts.
UnmodifiedIfPresent(h) == isMissing[h] \/ file # NoInode

\* elektraCheckConflict: fstat() must yield the stamp of the last kdbGet(),
\* unless the handle created the file.
Unmodified(h) == isMissing[h] \/ stamp[pkfd[h]] = mtime[h]

CheckConflict(h) ==
    /\ At(h, "check")
    /\ \/ /\ Unmodified(h)
          /\ Goto(h, "write")
          /\ UNCHANGED <<lock, pkfd, mutex, failed>>
       \/ /\ ~Unmodified(h)
          /\ CloseFd(h)
          /\ UnlockMutex(h)
          /\ Fail(h)
    /\ UNCHANGED <<dir, file, nodeVars, now, known, appVars, tmp, fd>>

-----------------------------------------------------------------------------
(* The storage plugin writes the temporary file. *)

\* Mutated: the storage plugin writes the configuration file itself.
WriteInPlace(h) ==
    /\ At(h, "write")
    /\ file # NoInode
    /\ tmp' = [tmp EXCEPT ![h] = file]
    /\ data' = [data EXCEPT ![file] = EmptyKs]
    /\ complete' = [complete EXCEPT ![file] = FALSE]
    /\ stamp' = [stamp EXCEPT ![file] = now]
    /\ Goto(h, "flush")
    /\ UNCHANGED <<dir, file, lock, now, appVars, pkVars, fd, mutex, failed>>

\* fopen(tempfile, "w"): what is in the file now is no configuration yet.
WriteTemp(h) ==
    /\ At(h, "write")
    /\ tmp[h] = NoInode => Available
    /\ LET i == IF tmp[h] = NoInode THEN FreshInode(Used) ELSE tmp[h]
       IN  /\ tmp' = [tmp EXCEPT ![h] = i]
           /\ data' = [data EXCEPT ![i] = EmptyKs]
           /\ complete' = [complete EXCEPT ![i] = FALSE]
           /\ stamp' = [stamp EXCEPT ![i] = now]
    /\ Goto(h, "flush")
    /\ UNCHANGED <<dir, file, lock, now, appVars, pkVars, fd, mutex, failed>>

FlushTemp(h) ==
    /\ At(h, "flush")
    /\ data' = [data EXCEPT ![tmp[h]] = ks[h]]
    /\ complete' = [complete EXCEPT ![tmp[h]] = TRUE]
    /\ \E d \in Ticks : /\ now' = now + d
                        /\ stamp' = [stamp EXCEPT ![tmp[h]] = now + d]
    /\ Goto(h, IF failed[h] THEN "rollback" ELSE "commit")
    /\ UNCHANGED <<dir, file, lock, appVars, pkVars, tmp, fd, mutex, failed>>

\* The storage plugin fails before or while it writes, or a plugin of another
\* backend does: kdbSet() rolls back.
StoreFail(h) ==
    /\ StoreFails
    /\ pc[h] \in {"write", "flush"}
    /\ failed' = [failed EXCEPT ![h] = TRUE]
    /\ Goto(h, "rollback")
    /\ UNCHANGED <<posixVars, appVars, pkVars, tmp, fd, mutex>>

-----------------------------------------------------------------------------
(* kdbSet, second phase: elektraSetCommit or the removal *)

OpenTemp(h) ==
    /\ At(h, "commit")
    /\ fd' = [fd EXCEPT ![h] = tmp[h]]
    /\ lock' = [lock EXCEPT ![tmp[h]] = ProcOf[h]]
    /\ Goto(h, "rename")
    /\ UNCHANGED <<dir, file, nodeVars, now, appVars, pkVars, tmp, mutex, failed>>

\* Mutated: the old file is unlocked before its stamp changed.
RenameThenUnlock(h) ==
    /\ At(h, "rename")
    /\ file' = tmp[h]
    /\ tmp' = [tmp EXCEPT ![h] = NoInode]
    /\ base' = [base EXCEPT ![h] = ks[h]]
    /\ lock' = Released(ProcOf[h], pkfd[h])
    /\ Goto(h, "stamp")
    /\ UNCHANGED <<dir, nodeVars, now, pkVars, fd, mutex, ks, seq, failed, won>>

Rename(h) ==
    /\ At(h, "rename")
    /\ file' = tmp[h]
    /\ tmp' = [tmp EXCEPT ![h] = NoInode]
    /\ base' = [base EXCEPT ![h] = ks[h]]
    /\ Goto(h, "stamp")
    /\ UNCHANGED <<dir, nodeVars, lock, now, pkVars, fd, mutex, ks, seq, failed, won>>

\* rename() fails (error 31): elektraSetCommit goes on and returns -1, which
\* kdbSet() takes as a warning.
RenameFail(h) ==
    /\ RenameFails
    /\ At(h, "rename")
    /\ Goto(h, "stamp")
    /\ UNCHANGED <<posixVars, appVars, pkVars, tmp, fd, mutex, failed>>

\* elektraModifyFileTime: another stamp than the one the handle knows.
ModifyFileTime(h) ==
    \E ts \in MonoTimes :
        \/ /\ ts = mtime[h]
           /\ mtime' = [mtime EXCEPT ![h] = @ + timeFix[h]]
           /\ timeFix' = [timeFix EXCEPT ![h] = -@]
        \/ /\ ts # mtime[h]
           /\ mtime' = [mtime EXCEPT ![h] = ts]
           /\ UNCHANGED timeFix

\* Mutated: the stamp of the new file is not remembered.
StampForgotten(h) ==
    /\ At(h, "stamp")
    /\ Goto(h, "stampold")
    /\ UNCHANGED <<posixVars, pkVars, appVars, tmp, fd, mutex, failed>>

\* fstat() of the new file: take its stamp, or give it another one if it has
\* the stamp of the old file.
Stamp(h) ==
    /\ At(h, "stamp")
    /\ \/ /\ stamp[fd[h]] # mtime[h]
          /\ mtime' = [mtime EXCEPT ![h] = stamp[fd[h]]]
          /\ UNCHANGED <<stamp, timeFix>>
       \/ /\ stamp[fd[h]] = mtime[h]
          /\ ModifyFileTime(h)
          /\ stamp' = [stamp EXCEPT ![fd[h]] = mtime'[h]]
    /\ Goto(h, "stampold")
    /\ UNCHANGED <<dir, file, data, complete, lock, now, pkfd, isMissing, removalNeeded,
                   appVars, tmp, fd, mutex, failed>>

\* Mutated: the stamp of the old file does not change.
StampOldForgotten(h) ==
    /\ At(h, "stampold")
    /\ isMissing' = [isMissing EXCEPT ![h] = FALSE]
    /\ Goto(h, "unlockold")
    /\ UNCHANGED <<posixVars, pkfd, mtime, removalNeeded, timeFix, appVars, tmp, fd, mutex,
                   failed>>

\* elektraUpdateFileTime on the old file, for processes stalling on it.
StampOld(h) ==
    /\ At(h, "stampold")
    /\ stamp' = [stamp EXCEPT ![pkfd[h]] = mtime[h]]
    /\ isMissing' = [isMissing EXCEPT ![h] = FALSE]
    /\ Goto(h, "unlockold")
    /\ UNCHANGED <<dir, file, data, complete, lock, now, pkfd, mtime, removalNeeded,
                   timeFix, appVars, tmp, fd, mutex, failed>>

UnlockOld(h) ==
    /\ At(h, "unlockold")
    /\ CloseFd(h)
    /\ Goto(h, "unlocknew")
    /\ UNCHANGED <<dir, file, nodeVars, now, known, appVars, tmp, fd, mutex, failed>>

\* ... and kdbSet() returns 1.
UnlockNew(h) ==
    /\ At(h, "unlocknew")
    /\ lock' = Released(ProcOf[h], fd[h])
    /\ fd' = [fd EXCEPT ![h] = NoFd]
    /\ UnlockMutex(h)
    /\ won' = [won EXCEPT ![h] = ks[h][h]]
    /\ Goto(h, "idle")
    /\ UNCHANGED <<dir, file, nodeVars, now, ks, seq, base, pkVars, tmp, failed>>

\* The keys a removal by h takes away deliberately: those h has seen.
Forgotten(h) == {g \in Handles : base[h] # NoKs /\ base[h][g] >= won[g]}

\* elektraRemoveConfigurationFile
Remove(h) ==
    /\ At(h, "remove")
    /\ file' = NoInode
    /\ pkfd' = [pkfd EXCEPT ![h] = NoFd]
    /\ won' = [g \in Handles |-> IF g \in Forgotten(h) THEN 0 ELSE won[g]]
    /\ base' = [base EXCEPT ![h] = EmptyKs]
    /\ Goto(h, "idle")
    /\ UNCHANGED <<dir, nodeVars, lock, now, known, ks, seq, tmp, fd, mutex, failed>>

-----------------------------------------------------------------------------
(* The error function of the resolver, after which kdbSet() returns -1 *)

Return(h) ==
    /\ failed' = [failed EXCEPT ![h] = FALSE]
    /\ Goto(h, "idle")

Rollback(h) ==
    /\ At(h, "rollback")
    /\ \/ /\ pkfd[h] = RemovalFd
          /\ pkfd' = [pkfd EXCEPT ![h] = NoFd]
          /\ Return(h)
          /\ UNCHANGED tmp
       \/ /\ pkfd[h] = NoFd
          /\ tmp' = [tmp EXCEPT ![h] = NoInode]
          /\ Return(h)
          /\ UNCHANGED pkfd
       \/ /\ pkfd[h] \in Inodes
          /\ tmp' = [tmp EXCEPT ![h] = NoInode]
          /\ Goto(h, "unlock")
          /\ UNCHANGED <<pkfd, failed>>
    /\ UNCHANGED <<posixVars, known, appVars, fd, mutex>>

RollbackUnlock(h) ==
    /\ At(h, "unlock")
    /\ CloseFd(h)
    /\ Goto(h, "unlink")
    /\ UNCHANGED <<dir, file, nodeVars, now, known, appVars, tmp, fd, mutex, failed>>

\* Mutated: unlinks the file whoever created it.
RollbackUnlinkAlways(h) ==
    /\ At(h, "unlink")
    /\ file' = NoInode
    /\ UnlockMutex(h)
    /\ Return(h)
    /\ UNCHANGED <<dir, nodeVars, lock, now, appVars, pkVars, tmp, fd>>

RollbackUnlink(h) ==
    /\ At(h, "unlink")
    /\ file' = IF removalNeeded[h] THEN NoInode ELSE file
    /\ UnlockMutex(h)
    /\ Return(h)
    /\ UNCHANGED <<dir, nodeVars, lock, now, appVars, pkVars, tmp, fd>>

-----------------------------------------------------------------------------
\* A process dies in the middle of a call and is started again.  The kernel
\* closes its descriptors; a temporary file stays, under a name that nobody
\* will use again.
Crash(p) ==
    LET died == {h \in Handles : ProcOf[h] = p}
    IN  /\ \E h \in died : pc[h] \in CrashAt
        /\ lock' = ReleasedAll(p)
        /\ pkfd' = [h \in Handles |-> IF h \in died THEN NoFd ELSE pkfd[h]]
        /\ mtime' = [h \in Handles |-> IF h \in died THEN 0 ELSE mtime[h]]
        /\ isMissing' = [h \in Handles |-> h \notin died /\ isMissing[h]]
        /\ removalNeeded' = [h \in Handles |-> h \notin died /\ removalNeeded[h]]
        /\ timeFix' = [h \in Handles |-> IF h \in died THEN 1 ELSE timeFix[h]]
        /\ tmp' = [h \in Handles |-> IF h \in died THEN NoInode ELSE tmp[h]]
        /\ fd' = [h \in Handles |-> IF h \in died THEN NoFd ELSE fd[h]]
        /\ mutex' = [mutex EXCEPT ![p] = NoHandle]
        /\ ks' = [h \in Handles |-> IF h \in died THEN EmptyKs ELSE ks[h]]
        /\ pc' = [h \in Handles |-> IF h \in died THEN "idle" ELSE pc[h]]
        /\ failed' = [h \in Handles |-> h \notin died /\ failed[h]]
        /\ base' = [h \in Handles |-> IF h \in died THEN NoKs ELSE base[h]]
        /\ UNCHANGED <<dir, file, nodeVars, now, seq, won>>

kdbGet(h) == GetMissing(h) \/ GetUnchanged(h) \/ GetChanged(h) \/ Read(h)

\* The steps of a kdbSet() that has begun.
SetStep(h) ==
    \/ Open(h) \/ OpenExclusive(h) \/ Mkdir(h) \/ Create(h)
    \/ LockMutex(h) \/ LockFile(h) \/ CheckConflict(h)
    \/ WriteTemp(h) \/ FlushTemp(h) \/ StoreFail(h)
    \/ OpenTemp(h) \/ Rename(h) \/ RenameFail(h) \/ Stamp(h) \/ StampOld(h)
    \/ UnlockOld(h) \/ UnlockNew(h) \/ Remove(h)
    \/ Rollback(h) \/ RollbackUnlock(h) \/ RollbackUnlink(h)

Next ==
    \/ \E h \in Handles : kdbGet(h) \/ SetBegin(h) \/ SetBeginEmpty(h) \/ SetStep(h)
    \/ \E p \in Procs : Crash(p)

Spec == Init /\ [][Next]_vars

-----------------------------------------------------------------------------
(* Properties *)

\* Every variable has its type; stamps are numbers, -1 and -2 mark closed files.
TypeOK ==
    /\ PosixTypeOK
    /\ data \in [Inodes -> KeySets]
    /\ pkfd \in [Handles -> Inodes \cup {NoFd, RemovalFd}]
    /\ mtime \in [Handles -> Int]
    /\ isMissing \in [Handles -> BOOLEAN]
    /\ removalNeeded \in [Handles -> BOOLEAN]
    /\ timeFix \in [Handles -> {-1, 1}]
    /\ tmp \in [Handles -> Inodes \cup {NoInode}]
    /\ fd \in [Handles -> Inodes \cup {NoFd}]
    /\ mutex \in [Procs -> Handles \cup {NoHandle}]
    /\ ks \in [Handles -> KeySets]
    /\ seq \in [Handles -> 0 .. MaxSets]
    /\ pc \in [Handles -> PCs]
    /\ failed \in [Handles -> BOOLEAN]
    /\ base \in [Handles -> KeySets \cup {NoKs}]
    /\ won \in [Handles -> 0 .. MaxSets]

\* No writer that won the race loses its key again: whatever other handles
\* store, the file keeps at least the value of each handle's last successful
\* kdbSet() (the writers of race.c).
NoLostUpdate == \A h \in Handles : Visible[h] >= won[h]

\* The handle passed elektraCheckConflict and has not replaced the file yet.
Checked(h) == /\ pc[h] \in {"write", "flush", "commit", "rename"}
              /\ pkfd[h] \in Inodes

\* Between its conflict check and its rename() a handle holds the lock of the
\* very file that readers still see: nobody removed or replaced it meanwhile.
CheckedFileIsCurrent ==
    \A h \in Handles : Checked(h) => /\ pkfd[h] = file
                                     /\ lock[file] = ProcOf[h]

\* Readers never find a half-written configuration, wherever a process died:
\* the storage plugin writes a temporary file and rename() puts it in place.
VisibleIsComplete == file # NoInode => complete[file]

\* When every call returned, nothing is held: no descriptor, no temporary file,
\* no mutex and no record lock survive any of the error paths of kdbSet().
ReturnReleasesEverything ==
    \A p \in Procs :
        (\A h \in Handles : ProcOf[h] = p => pc[h] = "idle") =>
            /\ mutex[p] = NoHandle
            /\ \A i \in Inodes : lock[i] # p
            /\ \A h \in Handles : ProcOf[h] = p =>
                  pkfd[h] = NoFd /\ fd[h] = NoFd /\ tmp[h] = NoInode

\* Only another application makes kdbSet() fail: a handle that is alone never
\* meets a conflict, however often it gets and sets (kdb.c on kdbOpen()).
AloneMeansNoConflict ==
    (\E h \in Handles : Handles = {h}) => \A h \in Handles : ~failed[h]

\* A kdbSet() that fails modifies no configuration: none of its steps after the
\* error changes what readers see (kdb.c: "no configuration file will be
\* modified").
FailedSetChangesNothing ==
    [][\A h \in Handles : (failed[h] /\ pc'[h] # pc[h]) => Visible' = Visible]_vars

\* The resolver implements the optimistic register: kdbSet() replaces exactly
\* the keyset that its handle saw last, and kdbGet() returns what is stored.
Store == INSTANCE ConfigStore WITH store <- Visible
StoreSpec == Store!Spec
=============================================================================
