--------------------------- MODULE ResolverProofs ---------------------------
(***************************************************************************)
(* Theorems about Resolver for any number of handles, processes, inodes,   *)
(* kdbSet() calls and any clock.                                           *)
(***************************************************************************)
EXTENDS Resolver, TLAPS
USE DEF NoInode, NoFd, RemovalFd

\* FreshInode() returns an inode that no name and no descriptor refers to, as
\* long as there is one.
LEMMA FreshIsNew ==
    ASSUME NEW used, Inodes \ used # {}
    PROVE  FreshInode(used) \in Inodes /\ FreshInode(used) \notin used
BY DEF FreshInode

\* The keyset without keys is a keyset.
LEMMA EmptyKsType == EmptyKs \in KeySets
BY HandlesAssumption DEF EmptyKs, KeySets

\* The process of a handle.
LEMMA ProcOfType == \A h \in Handles : ProcOf[h] \in Procs
BY HandlesAssumption

\* What a handle holds at each step, without which TypeOK is not inductive: a
\* step may only use a descriptor that an earlier one opened.
Holds ==
    \A h \in Handles :
        /\ pc[h] \in {"mutex", "flock", "check", "commit", "rename", "stamp",
                      "stampold", "unlockold", "unlock"} => pkfd[h] \in Inodes
        /\ pc[h] \in {"write", "flush"} /\ ~failed[h] => pkfd[h] \in Inodes
        /\ pc[h] \in {"flush", "commit", "rename"} => tmp[h] \in Inodes
        /\ pc[h] \in {"rename", "stamp", "stampold", "unlockold", "unlocknew"}
              => fd[h] \in Inodes

\* The initial state has the right types.
LEMMA InitType == Init => TypeOK
<1> SUFFICES ASSUME Init PROVE TypeOK
    OBVIOUS
<1>1. dir \in BOOLEAN /\ file \in Inodes \cup {NoInode}
    <2>1. PICK there \in Initially : /\ dir = (there # "nothing")
                                     /\ file = IF there = "file" THEN FreshInode({})
                                                                ELSE NoInode
        BY DEF Init
    <2> QED
        BY <2>1, HandlesAssumption, FreshIsNew
<1>2. data \in [Inodes -> KeySets] /\ ks \in [Handles -> KeySets]
    BY EmptyKsType DEF Init
<1>3. PosixTypeOK
    BY <1>1, ClockAssumption DEF Init, PosixTypeOK
<1> QED
    BY <1>2, <1>3, HandlesAssumption DEF Init, resolverInit, TypeOK, PCs

\* Each kdbGet() step keeps the types.
LEMMA GetType ==
    ASSUME TypeOK, NEW h \in Handles, kdbGet(h)
    PROVE  TypeOK'
<1> USE EmptyKsType DEF TypeOK, PosixTypeOK, Goto, At, posixVars, nodeVars, appVars,
                        pkVars, known
<1>1. CASE GetMissing(h)
    BY <1>1 DEF GetMissing
<1>2. CASE GetUnchanged(h)
    BY <1>2 DEF GetUnchanged
<1>3. CASE GetChanged(h)
    BY <1>3 DEF GetChanged, PCs
<1>4. CASE Read(h)
    <2>1. lock' \in [Inodes -> Procs \cup {NoProc}]
        BY <1>4, ProcOfType DEF Read, Released
    <2> QED
        BY <1>4, <2>1 DEF Read, PCs
<1> QED
    BY <1>1, <1>2, <1>3, <1>4 DEF kdbGet

\* The first steps of kdbSet() keep the types.
LEMMA SetBeginType ==
    ASSUME TypeOK, NEW h \in Handles, SetBegin(h) \/ SetBeginEmpty(h)
    PROVE  TypeOK'
<1> USE EmptyKsType DEF TypeOK, PosixTypeOK, Goto, At, posixVars, nodeVars, appVars,
                        pkVars, known
<1>1. seq' \in [Handles -> 0 .. MaxSets]
    BY HandlesAssumption DEF SetBegin, SetBeginEmpty
<1>2. ks' \in [Handles -> KeySets]
    <2>1. CASE SetBegin(h)
        <3>1. [ks[h] EXCEPT ![h] = seq[h] + 1] \in KeySets
            BY <2>1, HandlesAssumption DEF SetBegin, KeySets
        <3>2. ks' = [ks EXCEPT ![h] = [ks[h] EXCEPT ![h] = seq[h] + 1]]
            BY <2>1 DEF SetBegin
        <3> QED
            BY <3>1, <3>2
    <2>2. CASE SetBeginEmpty(h)
        BY <2>2 DEF SetBeginEmpty
    <2> QED
        BY <2>1, <2>2
<1> QED
    BY <1>1, <1>2 DEF SetBegin, SetBeginEmpty, PCs

\* Creating the configuration file keeps the types it touches.
LEMMA CreatedType ==
    ASSUME TypeOK, NEW h \in Handles, Created(h)
    PROVE  /\ now' \in Nat
           /\ data' \in [Inodes -> KeySets]
           /\ complete' \in [Inodes -> BOOLEAN]
           /\ stamp' \in [Inodes -> Int]
           /\ file' \in Inodes
           /\ pkfd' \in [Handles -> Inodes \cup {NoFd, RemovalFd}]
           /\ removalNeeded' \in [Handles -> BOOLEAN]
<1>1. FreshInode(Used) \in Inodes
    BY FreshIsNew DEF Created, Available
<1> QED
    BY <1>1, EmptyKsType, ClockAssumption DEF Created, TypeOK, PosixTypeOK

\* The steps of elektraSetPrepare keep the types.
LEMMA PrepareType ==
    ASSUME TypeOK, NEW h \in Handles,
           \/ Open(h) \/ OpenExclusive(h) \/ Mkdir(h) \/ Create(h)
           \/ LockMutex(h) \/ LockFile(h) \/ CheckConflict(h)
    PROVE  TypeOK'
<1> USE DEF TypeOK, PosixTypeOK, Goto, At, Fail, posixVars, nodeVars, appVars, pkVars,
            known
<1>1. CASE Open(h)
    <2>1. pc' \in [Handles -> PCs] /\ failed' \in [Handles -> BOOLEAN]
        BY <1>1 DEF Open, PCs
    <2>2. pkfd' \in [Handles -> Inodes \cup {NoFd, RemovalFd}]
        BY <1>1 DEF Open
    <2> QED
        BY <1>1, <2>1, <2>2 DEF Open
<1>2. CASE OpenExclusive(h)
    <2>1. CASE file # NoInode
        BY <1>2, <2>1 DEF OpenExclusive, PCs
    <2>2. CASE file = NoInode /\ Created(h) /\ Goto(h, "mutex") /\ UNCHANGED <<dir, lock, failed>>
        BY <1>2, <2>2, CreatedType DEF OpenExclusive, PCs
    <2>3. CASE ~dir /\ Goto(h, "mkdir") /\ UNCHANGED <<posixVars, pkfd, removalNeeded, failed>>
        BY <1>2, <2>3 DEF OpenExclusive, PCs
    <2> QED
        BY <1>2, <2>1, <2>2, <2>3 DEF OpenExclusive
<1>3. CASE Mkdir(h)
    BY <1>3 DEF Mkdir, PCs
<1>4. CASE Create(h)
    <2>1. CASE file = NoInode /\ Created(h)
        BY <1>4, <2>1, CreatedType DEF Create, PCs
    <2>2. CASE file # NoInode
        <3>1. /\ pkfd' \in [Handles -> Inodes \cup {NoFd, RemovalFd}]
              /\ removalNeeded' \in [Handles -> BOOLEAN]
              /\ UNCHANGED <<file, nodeVars, now>>
            BY <1>4, <2>2 DEF Create
        <3> QED
            BY <1>4, <3>1 DEF Create, PCs
    <2> QED
        BY <1>4, <2>1, <2>2 DEF Create
<1>5. ASSUME CloseFd(h)
      PROVE  /\ lock' \in [Inodes -> Procs \cup {NoProc}]
             /\ pkfd' \in [Handles -> Inodes \cup {NoFd, RemovalFd}]
    BY <1>5, ProcOfType DEF CloseFd, Released
<1>6. ASSUME Fail(h)
      PROVE  pc' \in [Handles -> PCs] /\ failed' \in [Handles -> BOOLEAN]
    BY <1>6 DEF PCs
<1>7. ASSUME UnlockMutex(h)
      PROVE  mutex' \in [Procs -> Handles \cup {NoHandle}]
    BY <1>7 DEF UnlockMutex
<1>8. CASE LockMutex(h)
    <2>1. CASE mutex[ProcOf[h]] = NoHandle
        BY <1>8, <2>1 DEF LockMutex, PCs
    <2>2. CASE mutex[ProcOf[h]] # NoHandle
        BY <1>5, <1>6, <1>8, <2>2 DEF LockMutex
    <2> QED
        BY <2>1, <2>2
<1>9. CASE LockFile(h)
    <2>1. CASE CanLock(ProcOf[h], pkfd[h])
        <3>1. lock' \in [Inodes -> Procs \cup {NoProc}]
            BY <1>9, <2>1, ProcOfType DEF LockFile
        <3> QED
            BY <1>9, <2>1, <3>1 DEF LockFile, PCs
    <2>2. CASE ~CanLock(ProcOf[h], pkfd[h])
        BY <1>5, <1>6, <1>7, <1>9, <2>2 DEF LockFile
    <2> QED
        BY <2>1, <2>2
<1>10. CASE CheckConflict(h)
    <2>1. CASE Unmodified(h)
        BY <1>10, <2>1 DEF CheckConflict, PCs
    <2>2. CASE ~Unmodified(h)
        BY <1>5, <1>6, <1>7, <1>10, <2>2 DEF CheckConflict
    <2> QED
        BY <2>1, <2>2
<1> QED
    BY <1>1, <1>2, <1>3, <1>4, <1>8, <1>9, <1>10

\* The steps of the storage plugin keep the types.
LEMMA StorageType ==
    ASSUME TypeOK, Holds, NEW h \in Handles,
           WriteTemp(h) \/ FlushTemp(h) \/ StoreFail(h)
    PROVE  TypeOK'
<1> USE DEF TypeOK, PosixTypeOK, Goto, At, posixVars, nodeVars, appVars, pkVars, known
<1>1. CASE WriteTemp(h)
    <2> DEFINE i == IF tmp[h] = NoInode THEN FreshInode(Used) ELSE tmp[h]
    <2>1. i \in Inodes
        BY <1>1, FreshIsNew DEF WriteTemp, Available
    <2>2. /\ tmp' \in [Handles -> Inodes \cup {NoInode}]
          /\ data' \in [Inodes -> KeySets]
          /\ complete' \in [Inodes -> BOOLEAN]
          /\ stamp' \in [Inodes -> Int]
        BY <1>1, <2>1, EmptyKsType DEF WriteTemp
    <2> QED
        BY <1>1, <2>2 DEF WriteTemp, PCs
<1>2. CASE FlushTemp(h)
    <2>1. now' \in Nat /\ stamp' \in [Inodes -> Int]
        <3>1. PICK d \in Ticks : /\ now' = now + d
                                /\ stamp' = [stamp EXCEPT ![tmp[h]] = now + d]
            BY <1>2 DEF FlushTemp
        <3>2. now + d \in Nat /\ now + d \in Int
            BY ClockAssumption
        <3>3. tmp[h] \in Inodes
            BY <1>2 DEF FlushTemp, Holds
        <3>4. now' \in Nat
            BY <3>1, <3>2
        <3>5. stamp' \in [Inodes -> Int]
            BY <3>1, <3>2, <3>3
        <3> QED
            BY <3>4, <3>5
    <2> QED
        BY <1>2, <2>1 DEF FlushTemp, PCs
<1>3. CASE StoreFail(h)
    BY <1>3 DEF StoreFail, PCs
<1> QED
    BY <1>1, <1>2, <1>3

\* The steps of elektraSetCommit and of the removal keep the types.
LEMMA CommitType ==
    ASSUME TypeOK, Holds, NEW h \in Handles,
           \/ OpenTemp(h) \/ Rename(h) \/ RenameFail(h) \/ Stamp(h) \/ StampOld(h)
           \/ UnlockOld(h) \/ UnlockNew(h) \/ Remove(h)
    PROVE  TypeOK'
<1> USE DEF TypeOK, PosixTypeOK, Goto, At, posixVars, nodeVars, appVars, pkVars, known
<1>1. CASE OpenTemp(h)
    <2>1. lock' \in [Inodes -> Procs \cup {NoProc}]
        BY <1>1, ProcOfType DEF OpenTemp
    <2>2. fd' \in [Handles -> Inodes \cup {NoFd}]
        BY <1>1 DEF OpenTemp
    <2> QED
        BY <1>1, <2>1, <2>2 DEF OpenTemp, PCs
<1>2. CASE Rename(h)
    BY <1>2 DEF Rename, PCs
<1>3. CASE RenameFail(h)
    BY <1>3 DEF RenameFail, PCs
<1>4. CASE Stamp(h)
    <2>1. fd[h] \in Inodes
        BY <1>4 DEF Stamp, Holds
    <2>2. mtime' \in [Handles -> Int] /\ timeFix' \in [Handles -> {-1, 1}]
        <3>1. CASE ModifyFileTime(h)
            BY <3>1, HandlesAssumption DEF ModifyFileTime
        <3>2. CASE mtime' = [mtime EXCEPT ![h] = stamp[fd[h]]] /\ UNCHANGED <<stamp, timeFix>>
            BY <2>1, <3>2
        <3> QED
            BY <1>4, <3>1, <3>2 DEF Stamp
    <2>3. stamp' \in [Inodes -> Int]
        BY <1>4, <2>1, <2>2 DEF Stamp
    <2> QED
        BY <1>4, <2>2, <2>3 DEF Stamp, PCs
<1>5. CASE StampOld(h)
    BY <1>5 DEF StampOld, PCs
<1>6. CASE UnlockOld(h)
    BY <1>6, ProcOfType DEF UnlockOld, CloseFd, Released, PCs
<1>7. CASE UnlockNew(h)
    <2>1. ks[h][h] \in 0 .. MaxSets
        BY DEF KeySets
    <2>2. lock' \in [Inodes -> Procs \cup {NoProc}]
        BY <1>7, ProcOfType DEF UnlockNew, Released
    <2>3. /\ won' \in [Handles -> 0 .. MaxSets]
          /\ mutex' \in [Procs -> Handles \cup {NoHandle}]
        BY <1>7, <2>1 DEF UnlockNew, UnlockMutex
    <2> QED
        BY <1>7, <2>2, <2>3 DEF UnlockNew, PCs
<1>8. CASE Remove(h)
    <2>1. won' \in [Handles -> 0 .. MaxSets]
        BY <1>8, HandlesAssumption DEF Remove
    <2> QED
        BY <1>8, <2>1, EmptyKsType DEF Remove, PCs
<1> QED
    BY <1>1, <1>2, <1>3, <1>4, <1>5, <1>6, <1>7, <1>8

\* The steps of the error function keep the types.
LEMMA RollbackType ==
    ASSUME TypeOK, Holds, NEW h \in Handles,
           Rollback(h) \/ RollbackUnlock(h) \/ RollbackUnlink(h)
    PROVE  TypeOK'
<1> USE DEF TypeOK, PosixTypeOK, Goto, At, Return, posixVars, nodeVars, appVars, pkVars,
            known
<1>1. CASE Rollback(h)
    <2>1. CASE pkfd[h] = RemovalFd
        BY <1>1, <2>1, InodesAssumption DEF Rollback, PCs
    <2>2. CASE pkfd[h] = NoFd
        BY <1>1, <2>2, InodesAssumption DEF Rollback, PCs
    <2>3. CASE pkfd[h] \in Inodes
        BY <1>1, <2>3, InodesAssumption DEF Rollback, PCs
    <2> QED
        BY <2>1, <2>2, <2>3
<1>2. CASE RollbackUnlock(h)
    BY <1>2, ProcOfType DEF RollbackUnlock, CloseFd, Released, PCs
<1>3. CASE RollbackUnlink(h)
    BY <1>3 DEF RollbackUnlink, UnlockMutex, PCs
<1> QED
    BY <1>1, <1>2, <1>3

\* A crash keeps the types.
LEMMA CrashType ==
    ASSUME TypeOK, NEW p \in Procs, Crash(p)
    PROVE  TypeOK'
<1> USE DEF TypeOK, PosixTypeOK, Crash, nodeVars
<1>1. lock' \in [Inodes -> Procs \cup {NoProc}]
    BY DEF ReleasedAll
<1>2. /\ pkfd' \in [Handles -> Inodes \cup {NoFd, RemovalFd}]
      /\ mtime' \in [Handles -> Int]
      /\ isMissing' \in [Handles -> BOOLEAN]
      /\ removalNeeded' \in [Handles -> BOOLEAN]
      /\ timeFix' \in [Handles -> {-1, 1}]
    OBVIOUS
<1>3. /\ tmp' \in [Handles -> Inodes \cup {NoInode}]
      /\ fd' \in [Handles -> Inodes \cup {NoFd}]
      /\ mutex' \in [Procs -> Handles \cup {NoHandle}]
      /\ ks' \in [Handles -> KeySets]
    BY EmptyKsType
<1>4. /\ pc' \in [Handles -> PCs]
      /\ failed' \in [Handles -> BOOLEAN]
      /\ base' \in [Handles -> KeySets \cup {NoKs}]
    BY DEF PCs
<1> QED
    BY <1>1, <1>2, <1>3, <1>4

\* Every step of a kdbSet() opens what the later steps use.
LEMMA HoldsSetStep ==
    ASSUME TypeOK, Holds, NEW h \in Handles, SetStep(h)
    PROVE  Holds'
<1> SUFFICES ASSUME NEW g \in Handles
             PROVE  /\ pc'[g] \in {"mutex", "flock", "check", "commit", "rename",
                          "stamp", "stampold", "unlockold", "unlock"}
                        => pkfd'[g] \in Inodes
                    /\ pc'[g] \in {"write", "flush"} /\ ~failed'[g]
                        => pkfd'[g] \in Inodes
                    /\ pc'[g] \in {"flush", "commit", "rename"} => tmp'[g] \in Inodes
                    /\ pc'[g] \in {"rename", "stamp", "stampold", "unlockold",
                          "unlocknew"} => fd'[g] \in Inodes
    BY DEF Holds
<1> USE DEF Holds, TypeOK, PosixTypeOK, Goto, At, Fail, CloseFd, Return, pkVars
<1>1. CASE Open(h)
    BY <1>1 DEF Open
<1>2. CASE OpenExclusive(h)
    BY <1>2, CreatedType DEF OpenExclusive, Created
<1>3. CASE Mkdir(h)
    BY <1>3 DEF Mkdir
<1>4. CASE Create(h)
    BY <1>4, CreatedType DEF Create, Created
<1>5. CASE LockMutex(h) \/ LockFile(h) \/ CheckConflict(h)
    BY <1>5 DEF LockMutex, LockFile, CheckConflict
<1>6. CASE WriteTemp(h)
    BY <1>6, FreshIsNew DEF WriteTemp, Available
<1>7. CASE FlushTemp(h) \/ StoreFail(h)
    BY <1>7 DEF FlushTemp, StoreFail
<1>8. CASE OpenTemp(h) \/ Rename(h) \/ RenameFail(h)
    BY <1>8 DEF OpenTemp, Rename, RenameFail
<1>9. CASE Stamp(h) \/ StampOld(h)
    BY <1>9 DEF Stamp, StampOld
<1>10. CASE UnlockOld(h) \/ UnlockNew(h) \/ Remove(h)
    BY <1>10 DEF UnlockOld, UnlockNew, Remove
<1>11. CASE Rollback(h) \/ RollbackUnlock(h) \/ RollbackUnlink(h)
    BY <1>11 DEF Rollback, RollbackUnlock, RollbackUnlink
<1> QED
    BY <1>1, <1>2, <1>3, <1>4, <1>5, <1>6, <1>7, <1>8, <1>9, <1>10, <1>11 DEF SetStep

\* No other step takes anything away from a handle in the middle of a call.
LEMMA HoldsOtherwise ==
    ASSUME TypeOK, Holds,
           \/ \E h \in Handles : kdbGet(h) \/ SetBegin(h) \/ SetBeginEmpty(h)
           \/ \E p \in Procs : Crash(p)
           \/ UNCHANGED vars
    PROVE  Holds'
<1> USE DEF Holds, TypeOK, Goto, At, pkVars
<1>1. ASSUME NEW h \in Handles, kdbGet(h) PROVE Holds'
    BY <1>1 DEF kdbGet, GetMissing, GetUnchanged, GetChanged, Read
<1>2. ASSUME NEW h \in Handles, SetBegin(h) \/ SetBeginEmpty(h) PROVE Holds'
    BY <1>2 DEF SetBegin, SetBeginEmpty
<1>3. ASSUME NEW p \in Procs, Crash(p) PROVE Holds'
    BY <1>3 DEF Crash
<1>4. CASE UNCHANGED vars
    BY <1>4 DEF vars
<1> QED
    BY <1>1, <1>2, <1>3, <1>4

\* Every step keeps the types.
LEMMA NextType ==
    ASSUME TypeOK, Holds, [Next]_vars
    PROVE  TypeOK' /\ Holds'
<1>1. ASSUME NEW h \in Handles, SetStep(h) PROVE TypeOK'
    BY <1>1, PrepareType, StorageType, CommitType, RollbackType DEF SetStep
<1>2. ASSUME UNCHANGED vars PROVE TypeOK'
    BY <1>2 DEF vars, TypeOK, PosixTypeOK, posixVars, nodeVars, pkVars, known, appVars
<1>3. TypeOK'
    BY <1>1, <1>2, GetType, SetBeginType, CrashType DEF Next
<1>4. Holds'
    BY HoldsSetStep, HoldsOtherwise DEF Next
<1> QED
    BY <1>3, <1>4

\* TypeOK is an invariant of the resolver, with any number of handles, threads,
\* crashes, faults and whatever the clock does.
THEOREM TypeCorrect == Spec => []TypeOK
<1>1. Init => TypeOK /\ Holds
    BY InitType DEF Init, Holds
<1>2. (TypeOK /\ Holds) /\ [Next]_vars => (TypeOK /\ Holds)'
    BY NextType
<1> QED
    BY <1>1, <1>2, PTL DEF Spec

-----------------------------------------------------------------------------
(***************************************************************************)
(* Why no update is lost.  The argument, for any number of processes:      *)
(*                                                                         *)
(*  - whoever passed the conflict check has the lock of the visible file,  *)
(*    so at most one handle is between its check and its last unlock;      *)
(*  - a handle that waits with the descriptor of a replaced file finds     *)
(*    another stamp than the one it knows as soon as it gets the lock,     *)
(*    because the handle that replaced the file has stamped it;            *)
(*  - a handle that knows the stamp of the visible file has seen its keys, *)
(*    so what it stores contains them.                                     *)
(*                                                                         *)
(* It needs what Cooperative states; README names what happens otherwise.  *)
(***************************************************************************)

HIDE DEF NoInode, NoFd, RemovalFd

\* Handles in processes of their own, on an existing file that nobody removes,
\* where every write gets a stamp of its own, rename() works and nobody dies
\* between the rename() and the stamp of the old file.
Cooperative ==
    /\ \A g, h \in Handles : ProcOf[g] = ProcOf[h] => g = h
    /\ Initially \subseteq {"file"}
    /\ 0 \notin Ticks
    /\ ~Empties /\ ~RenameFails
    /\ "stamp" \notin CrashAt /\ "stampold" \notin CrashAt

-----------------------------------------------------------------------------
(* The parts of the invariant *)

\* The file is always there, and what is open depends on the step only.
Settled ==
    /\ file \in Inodes
    /\ \A h \in Handles :
          /\ ~isMissing[h] /\ ~removalNeeded[h] /\ pkfd[h] # RemovalFd
          /\ pc[h] \notin {"mkdir", "create", "remove"}
          /\ pc[h] \in {"idle", "read", "open", "unlocknew", "unlink"} => pkfd[h] = NoFd
          /\ pc[h] \notin {"flush", "commit", "rename", "rollback"} => tmp[h] = NoInode
          /\ pc[h] \notin {"rename", "stamp", "stampold", "unlockold", "unlocknew"}
                => fd[h] = NoFd
          /\ pc[h] = "rename" => fd[h] = tmp[h]
          /\ pc[h] \in {"commit", "rename"} => ~failed[h]

\* Nobody else refers to a temporary file.
Private ==
    \A h \in Handles : tmp[h] \in Inodes =>
        /\ tmp[h] # file
        /\ \A g \in Handles : /\ tmp[h] # pkfd[g]
                              /\ g # h => tmp[h] # tmp[g] /\ tmp[h] # fd[g]

\* The new file stays the visible one until its writer has unlocked it.
Replaced ==
    \A h \in Handles :
        /\ pc[h] \in {"stamp", "stampold", "unlockold", "unlocknew"} => fd[h] = file
        /\ pc[h] \in {"stamp", "stampold", "unlockold"} => pkfd[h] # file

\* Locks are held from the check on, and on the new file until the end.
Locked ==
    \A h \in Handles :
        /\ (/\ pkfd[h] \in Inodes
            /\ pc[h] \in {"check", "write", "flush", "commit", "rename", "stamp",
                          "stampold"})
              => lock[pkfd[h]] = ProcOf[h]
        /\ pc[h] \in {"rename", "stamp", "stampold", "unlockold", "unlocknew"}
              => lock[fd[h]] = ProcOf[h]

\* A lock belongs to a handle with a descriptor of the file.
Owned ==
    \A i \in Inodes : lock[i] # NoProc =>
        \E h \in Handles : lock[i] = ProcOf[h] /\ (i = pkfd[h] \/ i = fd[h])

\* A mutex belongs to a handle in the middle of a kdbSet(), which will come to
\* the step that gives it back.
Serial ==
    \A p \in Procs : mutex[p] # NoHandle =>
        /\ ProcOf[mutex[p]] = p
        /\ \/ pc[mutex[p]] \in {"unlocknew", "unlink"}
           \/ /\ pkfd[mutex[p]] \in Inodes
              /\ pc[mutex[p]] \notin {"idle", "read", "open", "mutex"}

\* The clock is ahead of all stamps.
Clocked ==
    /\ \A i \in Inodes : 1 <= stamp[i] /\ stamp[i] <= now
    /\ \A h \in Handles : 0 <= mtime[h] /\ mtime[h] <= now

\* Nobody knows the stamp of a file that is not in place yet.
NewStamps ==
    \A h \in Handles :
        /\ pc[h] \in {"commit", "rename"} =>
              /\ stamp[tmp[h]] # stamp[file]
              /\ \A g \in Handles : mtime[g] # stamp[tmp[h]]
        /\ pc[h] = "stamp" => mtime[h] # stamp[fd[h]]
        /\ pc[h] = "stampold" => mtime[h] = stamp[fd[h]]

\* A handle waiting with a replaced file will meet a conflict.
Stalled ==
    \A h \in Handles : (pc[h] \in {"mutex", "flock", "check"} /\ pkfd[h] # file) =>
        /\ mtime[h] # stamp[file]
        /\ \/ stamp[pkfd[h]] # mtime[h]
           \/ \E g \in Handles : pc[g] \in {"stamp", "stampold"} /\ pkfd[g] = pkfd[h]

\* The file a handle has checked is the visible one.
Current == \A h \in Handles : Checked(h) => pkfd[h] = file

FileInv ==
    /\ Settled /\ Private /\ Replaced /\ Locked /\ Owned /\ Serial
    /\ Clocked /\ NewStamps /\ Stalled /\ Current

\* No value of a key is newer than the last kdbSet() of its handle, and keysets
\* only grow.
Grows ==
    \A g, h \in Handles :
        /\ \A i \in Inodes : data[i][g] <= seq[g]
        /\ ks[h][g] <= seq[g]
        /\ base[h] # NoKs => base[h][g] <= ks[h][g]

\* Who knows the stamp of the visible file has seen its keys.
Known ==
    \A h \in Handles :
        /\ pc[h] # "read" /\ mtime[h] # 0 => base[h] # NoKs
        /\ pc[h] # "read" /\ mtime[h] = stamp[file] => base[h] = data[file]
        /\ Checked(h) => base[h] = data[file]

\* The new file has the keyset of the application.
Written ==
    \A h \in Handles :
        /\ pc[h] \in {"commit", "rename"} => data[tmp[h]] = ks[h]
        /\ pc[h] \in {"stamp", "stampold", "unlockold", "unlocknew"}
              => data[fd[h]] = ks[h]
        /\ pc[h] = "stamp" => base[h] = data[fd[h]]

DataInv == Grows /\ Known /\ Written /\ NoLostUpdate

-----------------------------------------------------------------------------
(* Facts used in all proofs *)

\* Marks of closed descriptors are no inodes.
LEMMA Closed ==
    /\ NoFd \notin Inodes /\ RemovalFd \notin Inodes /\ NoInode \notin Inodes
    /\ NoFd # RemovalFd /\ NoInode = NoFd
BY InodesAssumption DEF NoFd, RemovalFd, NoInode

\* What a handle can do to a file that exists and is never removed.
Step(h) ==
    \/ GetUnchanged(h) \/ GetChanged(h) \/ Read(h) \/ SetBegin(h) \/ Open(h)
    \/ LockMutex(h) \/ LockFile(h) \/ CheckConflict(h)
    \/ WriteTemp(h) \/ FlushTemp(h) \/ StoreFail(h)
    \/ OpenTemp(h) \/ Rename(h) \/ Stamp(h) \/ StampOld(h)
    \/ UnlockOld(h) \/ UnlockNew(h)
    \/ Rollback(h) \/ RollbackUnlock(h) \/ RollbackUnlink(h)

\* The other actions need a missing file, an empty keyset or a failed rename().
LEMMA OnlySteps ==
    ASSUME Cooperative, Settled, Next
    PROVE  (\E h \in Handles : Step(h)) \/ (\E p \in Procs : Crash(p))
BY Closed DEF Cooperative, Settled, Next, Step, kdbGet, SetStep, GetMissing,
   SetBeginEmpty, OpenExclusive, Mkdir, Create, RenameFail, Remove, At

\* The storage plugin of h writes to an inode i that nobody else refers to.
NewTemp(h, i) ==
    /\ i # file
    /\ \A g \in Handles : i # pkfd[g] /\ i # tmp[g] /\ i # fd[g]
    /\ tmp' = [tmp EXCEPT ![h] = i]
    /\ data' = [data EXCEPT ![i] = EmptyKs]
    /\ complete' = [complete EXCEPT ![i] = FALSE]
    /\ stamp' = [stamp EXCEPT ![i] = now]

\* The temporary file is a new one.
LEMMA TempIsNew ==
    ASSUME TypeOK, Settled, NEW h \in Handles, WriteTemp(h)
    PROVE  \E i \in Inodes : NewTemp(h, i)
<1> DEFINE i == FreshInode(Used)
<1>1. tmp[h] = NoInode
    BY DEF WriteTemp, Settled, At
<1>2. i \in Inodes /\ i \notin Used
    BY <1>1, FreshIsNew DEF WriteTemp, Available
<1>3. i # file /\ \A g \in Handles : i # pkfd[g] /\ i # tmp[g] /\ i # fd[g]
    BY <1>2 DEF Used
<1>4. /\ tmp' = [tmp EXCEPT ![h] = i]
      /\ data' = [data EXCEPT ![i] = EmptyKs]
      /\ complete' = [complete EXCEPT ![i] = FALSE]
      /\ stamp' = [stamp EXCEPT ![i] = now]
    BY <1>1 DEF WriteTemp
<1> HIDE DEF i
<1> QED
    BY <1>2, <1>3, <1>4 DEF NewTemp

\* The process of a handle is its own, and only it dies in a crash.
LEMMA OneDies ==
    ASSUME Cooperative, NEW p \in Procs, Crash(p)
    PROVE  \E h \in Handles :
              /\ ProcOf[h] = p
              /\ pc[h] \notin {"stamp", "stampold"}
              /\ \A g \in Handles : ProcOf[g] = p <=> g = h
BY DEF Cooperative, Crash

USE Closed DEF Goto, At, Fail, Return, CloseFd, UnlockMutex, posixVars, nodeVars,
    appVars, pkVars, known

\* Settled: nobody removes the file, and descriptors are closed in order.
LEMMA SettledStep ==
    ASSUME TypeOK, Holds, Settled, NEW h \in Handles, Step(h)
    PROVE  Settled'
<1> USE DEF TypeOK, Holds, Settled, PosixTypeOK
<1>1. CASE GetUnchanged(h) \/ GetChanged(h) \/ Read(h) \/ SetBegin(h)
    BY <1>1 DEF GetUnchanged, GetChanged, Read, SetBegin
<1>2. CASE Open(h) \/ LockMutex(h)
    BY <1>2 DEF Open, LockMutex
<1>3. CASE LockFile(h)
    BY <1>3 DEF LockFile
<1>4. CASE CheckConflict(h)
    BY <1>4 DEF CheckConflict
<1>5. CASE WriteTemp(h)
    <2>1. PICK i \in Inodes : NewTemp(h, i)
        BY <1>5, TempIsNew
    <2> QED
        BY <1>5, <2>1 DEF WriteTemp, NewTemp
<1>6. CASE FlushTemp(h) \/ StoreFail(h)
    BY <1>6 DEF FlushTemp, StoreFail
<1>7. CASE OpenTemp(h)
    BY <1>7 DEF OpenTemp
<1>8. CASE Rename(h)
    BY <1>8 DEF Rename
<1>9. CASE Stamp(h) \/ StampOld(h)
    BY <1>9 DEF Stamp, StampOld
<1>10. CASE UnlockOld(h) \/ UnlockNew(h)
    BY <1>10 DEF UnlockOld, UnlockNew
<1>11. CASE Rollback(h) \/ RollbackUnlock(h) \/ RollbackUnlink(h)
    BY <1>11 DEF Rollback, RollbackUnlock, RollbackUnlink
<1> QED
    BY <1>1, <1>2, <1>3, <1>4, <1>5, <1>6, <1>7, <1>8, <1>9, <1>10, <1>11 DEF Step

\* A crash keeps Settled.
LEMMA SettledCrash ==
    ASSUME Cooperative, TypeOK, Holds, Settled, NEW p \in Procs, Crash(p)
    PROVE  Settled'
BY OneDies DEF TypeOK, Holds, Settled, PosixTypeOK, Crash, ReleasedAll

\* Private: temporary names are never shared, and an inode in use is not handed out.
LEMMA PrivateStep ==
    ASSUME TypeOK, Holds, Settled, Private, NEW h \in Handles, Step(h)
    PROVE  Private'
<1> USE DEF TypeOK, Holds, Settled, Private, PosixTypeOK
<1>1. CASE GetUnchanged(h) \/ GetChanged(h) \/ Read(h) \/ SetBegin(h)
    BY <1>1 DEF GetUnchanged, GetChanged, Read, SetBegin
<1>2. CASE Open(h) \/ LockMutex(h)
    BY <1>2 DEF Open, LockMutex
<1>3. CASE LockFile(h)
    BY <1>3 DEF LockFile
<1>4. CASE CheckConflict(h)
    BY <1>4 DEF CheckConflict
<1>5. CASE WriteTemp(h)
    <2>1. PICK i \in Inodes : NewTemp(h, i)
        BY <1>5, TempIsNew
    <2> QED
        BY <1>5, <2>1 DEF WriteTemp, NewTemp
<1>6. CASE FlushTemp(h) \/ StoreFail(h)
    BY <1>6 DEF FlushTemp, StoreFail
<1>7. CASE OpenTemp(h)
    BY <1>7 DEF OpenTemp
<1>8. CASE Rename(h)
    BY <1>8 DEF Rename
<1>9. CASE Stamp(h) \/ StampOld(h)
    BY <1>9 DEF Stamp, StampOld
<1>10. CASE UnlockOld(h) \/ UnlockNew(h)
    BY <1>10 DEF UnlockOld, UnlockNew
<1>11. CASE Rollback(h) \/ RollbackUnlock(h) \/ RollbackUnlink(h)
    BY <1>11 DEF Rollback, RollbackUnlock, RollbackUnlink
<1> QED
    BY <1>1, <1>2, <1>3, <1>4, <1>5, <1>6, <1>7, <1>8, <1>9, <1>10, <1>11 DEF Step

\* A crash keeps Private.
LEMMA PrivateCrash ==
    ASSUME Cooperative, TypeOK, Holds, Settled, Private, NEW p \in Procs, Crash(p)
    PROVE  Private'
BY OneDies DEF TypeOK, Holds, Settled, Private, PosixTypeOK, Crash, ReleasedAll

\* Replaced: nobody else can replace the new file, as its writer still has its lock.
LEMMA ReplacedStep ==
    ASSUME Cooperative, TypeOK, Holds, Settled, Private, Replaced, Locked, Current,
           NEW h \in Handles, Step(h)
    PROVE  Replaced'
<1> USE ProcOfType DEF Cooperative, TypeOK, Holds, Settled, Private, Replaced,
        Locked, Current, PosixTypeOK, Checked
<1>1. CASE GetUnchanged(h) \/ GetChanged(h) \/ Read(h) \/ SetBegin(h)
    BY <1>1 DEF GetUnchanged, GetChanged, Read, SetBegin
<1>2. CASE Open(h) \/ LockMutex(h)
    BY <1>2 DEF Open, LockMutex
<1>3. CASE LockFile(h)
    BY <1>3 DEF LockFile
<1>4. CASE CheckConflict(h)
    BY <1>4 DEF CheckConflict
<1>5. CASE WriteTemp(h)
    <2>1. PICK i \in Inodes : NewTemp(h, i)
        BY <1>5, TempIsNew
    <2> QED
        BY <1>5, <2>1 DEF WriteTemp, NewTemp
<1>6. CASE FlushTemp(h) \/ StoreFail(h)
    BY <1>6 DEF FlushTemp, StoreFail
<1>7. CASE OpenTemp(h)
    BY <1>7 DEF OpenTemp
<1>8. CASE Rename(h)
    BY <1>8 DEF Rename
<1>9. CASE Stamp(h) \/ StampOld(h)
    BY <1>9 DEF Stamp, StampOld
<1>10. CASE UnlockOld(h) \/ UnlockNew(h)
    BY <1>10 DEF UnlockOld, UnlockNew
<1>11. CASE Rollback(h) \/ RollbackUnlock(h) \/ RollbackUnlink(h)
    BY <1>11 DEF Rollback, RollbackUnlock, RollbackUnlink
<1> QED
    BY <1>1, <1>2, <1>3, <1>4, <1>5, <1>6, <1>7, <1>8, <1>9, <1>10, <1>11 DEF Step

\* A crash keeps Replaced.
LEMMA ReplacedCrash ==
    ASSUME Cooperative, TypeOK, Holds, Settled, Private, Replaced, Locked, Current,
           NEW p \in Procs, Crash(p)
    PROVE  Replaced'
BY ProcOfType, OneDies DEF Cooperative, TypeOK, Holds, Settled, Private, Replaced,
   Locked, Current, PosixTypeOK, Checked, Crash, ReleasedAll

\* h unlocks or closes a descriptor of inode i.
Releases(h, i) == lock' = Released(ProcOf[h], i)

\* A process gives away its own locks only, and of these the one of inode i.
LEMMA ReleaseKeeps ==
    ASSUME Cooperative, TypeOK, NEW h \in Handles, NEW i, Releases(h, i)
    PROVE  \A j \in Inodes :
              /\ j # i => lock'[j] = lock[j]
              /\ lock'[j] # NoProc =>
                    lock'[j] = lock[j] /\ ~(j = i /\ lock[j] = ProcOf[h])
              /\ \A g \in Handles \ {h} : lock[j] = ProcOf[g] => lock'[j] = ProcOf[g]
BY ProcOfType, ProcsAssumption DEF Cooperative, TypeOK, PosixTypeOK, Releases, Released

\* A handle that has closed its descriptors needs no locks any more.
LEMMA LockedReleased ==
    ASSUME Cooperative, TypeOK, Holds, Locked, NEW h \in Handles, NEW i, Releases(h, i),
           pkfd'[h] \notin Inodes,
           pc'[h] \notin {"rename", "stamp", "stampold", "unlockold", "unlocknew"},
           \A g \in Handles \ {h} :
               pc'[g] = pc[g] /\ pkfd'[g] = pkfd[g] /\ fd'[g] = fd[g]
    PROVE  Locked'
<1>1. \A j \in Inodes, g \in Handles \ {h} : lock[j] = ProcOf[g] => lock'[j] = ProcOf[g]
    BY ReleaseKeeps
<1> QED
    BY <1>1 DEF Locked, Holds

\* Locked: locks are lost only to the process that holds them, at its own steps.
LEMMA LockedStep ==
    ASSUME Cooperative, TypeOK, Holds, Settled, Private, Replaced, Locked,
           NEW h \in Handles, Step(h)
    PROVE  Locked'
<1> USE DEF TypeOK, Holds, Settled, Locked
<1>1. CASE GetUnchanged(h) \/ GetChanged(h) \/ SetBegin(h)
    BY <1>1 DEF GetUnchanged, GetChanged, SetBegin
<1>2. CASE Read(h)
    <2>1. Releases(h, file)
        BY <1>2 DEF Read, Releases
    <2> QED
        BY <1>2, <2>1, LockedReleased DEF Read
<1>3. CASE Open(h)
    BY <1>3 DEF Open
<1>4. CASE LockMutex(h)
    <2>1. CASE mutex[ProcOf[h]] = NoHandle
        BY <1>4, <2>1 DEF LockMutex
    <2>2. CASE mutex[ProcOf[h]] # NoHandle
        <3>1. Releases(h, pkfd[h])
            BY <1>4, <2>2 DEF LockMutex, Releases
        <3> QED
            BY <1>4, <2>2, <3>1, LockedReleased DEF LockMutex
    <2> QED
        BY <2>1, <2>2
<1>5. CASE LockFile(h)
    <2>1. CASE CanLock(ProcOf[h], pkfd[h])
        <3>1. \A g \in Handles, j \in Inodes :
                  lock[j] = ProcOf[g] => lock'[j] = ProcOf[g]
            BY <1>5, <2>1, ProcOfType, ProcsAssumption
               DEF LockFile, CanLock, Cooperative, PosixTypeOK
        <3>2. lock'[pkfd[h]] = ProcOf[h]
            BY <1>5, <2>1 DEF LockFile, PosixTypeOK
        <3> QED
            BY <1>5, <2>1, <3>1, <3>2 DEF LockFile
    <2>2. CASE ~CanLock(ProcOf[h], pkfd[h])
        <3>1. Releases(h, pkfd[h])
            BY <1>5, <2>2 DEF LockFile, Releases
        <3> QED
            BY <1>5, <2>2, <3>1, LockedReleased DEF LockFile
    <2> QED
        BY <2>1, <2>2
<1>6. CASE CheckConflict(h)
    <2>1. CASE Unmodified(h)
        BY <1>6, <2>1 DEF CheckConflict
    <2>2. CASE ~Unmodified(h)
        <3>1. Releases(h, pkfd[h])
            BY <1>6, <2>2 DEF CheckConflict, Releases
        <3> QED
            BY <1>6, <2>2, <3>1, LockedReleased, SMTT(20) DEF CheckConflict
    <2> QED
        BY <2>1, <2>2
<1>7. CASE WriteTemp(h) \/ FlushTemp(h) \/ StoreFail(h)
    BY <1>7 DEF WriteTemp, FlushTemp, StoreFail
<1>8. CASE OpenTemp(h)
    BY <1>8 DEF OpenTemp, Private, PosixTypeOK
<1>9. CASE Rename(h)
    BY <1>9 DEF Rename
<1>10. CASE Stamp(h) \/ StampOld(h)
    BY <1>10 DEF Stamp, StampOld
<1>11. CASE UnlockOld(h)
    <2>1. Releases(h, pkfd[h])
        BY <1>11 DEF UnlockOld, Releases
    <2>2. /\ pkfd' = [pkfd EXCEPT ![h] = NoFd]
          /\ pc' = [pc EXCEPT ![h] = "unlocknew"]
          /\ UNCHANGED fd
        BY <1>11 DEF UnlockOld
    <2>3. fd[h] \in Inodes /\ lock'[fd[h]] = ProcOf[h]
        BY <1>11, <2>1, ReleaseKeeps, SMTT(20) DEF UnlockOld, Replaced
    <2>4. \A j \in Inodes, g \in Handles \ {h} :
              lock[j] = ProcOf[g] => lock'[j] = ProcOf[g]
        BY <2>1, ReleaseKeeps
    <2> QED
        BY <2>2, <2>3, <2>4
<1>12. CASE UnlockNew(h)
    <2>1. Releases(h, fd[h])
        BY <1>12 DEF UnlockNew, Releases
    <2> QED
        BY <1>12, <2>1, LockedReleased DEF UnlockNew
<1>13. CASE Rollback(h) \/ RollbackUnlink(h)
    BY <1>13 DEF Rollback, RollbackUnlink
<1>14. CASE RollbackUnlock(h)
    <2>1. Releases(h, pkfd[h])
        BY <1>14 DEF RollbackUnlock, Releases
    <2> QED
        BY <1>14, <2>1, LockedReleased DEF RollbackUnlock
<1> QED
    BY <1>1, <1>2, <1>3, <1>4, <1>5, <1>6, <1>7, <1>8, <1>9, <1>10, <1>11, <1>12,
       <1>13, <1>14 DEF Step

\* A crash keeps Locked.
LEMMA LockedCrash ==
    ASSUME Cooperative, TypeOK, Holds, Settled, Locked, NEW p \in Procs, Crash(p)
    PROVE  Locked'
BY ProcOfType, ProcsAssumption, OneDies
   DEF TypeOK, PosixTypeOK, Holds, Settled, Locked, Crash, ReleasedAll

\* Steps that touch no lock keep the descriptors of locked files open.
LEMMA OwnedKept ==
    ASSUME Owned, UNCHANGED lock,
           \A g \in Handles : /\ pkfd[g] \in Inodes => pkfd'[g] = pkfd[g]
                              /\ fd[g] \in Inodes => fd'[g] = fd[g]
    PROVE  Owned'
BY DEF Owned

\* Closing a descriptor releases the lock, if no other descriptor refers to it.
LEMMA OwnedReleased ==
    ASSUME Cooperative, TypeOK, Owned, NEW h \in Handles, NEW i, Releases(h, i),
           \A g \in Handles :
               /\ pkfd[g] \in Inodes /\ ~(g = h /\ pkfd[g] = i) => pkfd'[g] = pkfd[g]
               /\ fd[g] \in Inodes /\ ~(g = h /\ fd[g] = i) => fd'[g] = fd[g]
    PROVE  Owned'
<1> SUFFICES ASSUME NEW j \in Inodes, lock'[j] # NoProc
             PROVE  \E g \in Handles :
                       lock'[j] = ProcOf[g] /\ (j = pkfd'[g] \/ j = fd'[g])
    BY DEF Owned
<1>1. lock'[j] = lock[j] /\ ~(j = i /\ lock[j] = ProcOf[h])
    BY ReleaseKeeps
<1>2. PICK g \in Handles : lock[j] = ProcOf[g] /\ (j = pkfd[g] \/ j = fd[g])
    BY <1>1 DEF Owned
<1> QED
    BY <1>1, <1>2

\* Owned: whoever locks a file unlocks it before it closes the last descriptor.
LEMMA OwnedStep ==
    ASSUME Cooperative, TypeOK, Holds, Settled, Owned, NEW h \in Handles, Step(h)
    PROVE  Owned'
<1> USE DEF TypeOK, Holds, Settled
<1>1. CASE GetUnchanged(h) \/ GetChanged(h) \/ SetBegin(h) \/ Open(h)
    BY <1>1, OwnedKept DEF GetUnchanged, GetChanged, SetBegin, Open
<1>2. CASE Read(h)
    <2>1. Releases(h, file)
        BY <1>2 DEF Read, Releases
    <2> QED
        BY <1>2, <2>1, OwnedReleased DEF Read
<1>3. CASE LockMutex(h)
    <2>1. CASE mutex[ProcOf[h]] = NoHandle
        BY <1>3, <2>1, OwnedKept DEF LockMutex
    <2>2. CASE mutex[ProcOf[h]] # NoHandle
        <3>1. Releases(h, pkfd[h])
            BY <1>3, <2>2 DEF LockMutex, Releases
        <3> QED
            BY <1>3, <2>2, <3>1, OwnedReleased DEF LockMutex
    <2> QED
        BY <2>1, <2>2
<1>4. CASE LockFile(h)
    <2>1. CASE CanLock(ProcOf[h], pkfd[h])
        <3>1. /\ lock' = [lock EXCEPT ![pkfd[h]] = ProcOf[h]]
              /\ UNCHANGED <<pkfd, fd>>
            BY <1>4, <2>1 DEF LockFile
        <3> QED
            BY <3>1 DEF Owned, PosixTypeOK
    <2>2. CASE ~CanLock(ProcOf[h], pkfd[h])
        <3>1. Releases(h, pkfd[h])
            BY <1>4, <2>2 DEF LockFile, Releases
        <3> QED
            BY <1>4, <2>2, <3>1, OwnedReleased DEF LockFile
    <2> QED
        BY <2>1, <2>2
<1>5. CASE CheckConflict(h)
    <2>1. CASE Unmodified(h)
        BY <1>5, <2>1, OwnedKept DEF CheckConflict
    <2>2. CASE ~Unmodified(h)
        <3>1. Releases(h, pkfd[h])
            BY <1>5, <2>2 DEF CheckConflict, Releases
        <3> QED
            BY <1>5, <2>2, <3>1, OwnedReleased DEF CheckConflict
    <2> QED
        BY <2>1, <2>2
<1>6. CASE WriteTemp(h) \/ FlushTemp(h) \/ StoreFail(h)
    BY <1>6, OwnedKept DEF WriteTemp, FlushTemp, StoreFail
<1>7. CASE OpenTemp(h)
    <2>1. /\ lock' = [lock EXCEPT ![tmp[h]] = ProcOf[h]]
          /\ fd' = [fd EXCEPT ![h] = tmp[h]]
          /\ fd[h] = NoFd
          /\ UNCHANGED pkfd
        BY <1>7 DEF OpenTemp
    <2> QED
        BY <2>1 DEF Owned, PosixTypeOK
<1>8. CASE Rename(h) \/ Stamp(h) \/ StampOld(h)
    BY <1>8, OwnedKept DEF Rename, Stamp, StampOld
<1>9. CASE UnlockOld(h)
    <2>1. Releases(h, pkfd[h])
        BY <1>9 DEF UnlockOld, Releases
    <2> QED
        BY <1>9, <2>1, OwnedReleased DEF UnlockOld
<1>10. CASE UnlockNew(h)
    <2>1. Releases(h, fd[h])
        BY <1>10 DEF UnlockNew, Releases
    <2> QED
        BY <1>10, <2>1, OwnedReleased DEF UnlockNew
<1>11. CASE Rollback(h) \/ RollbackUnlink(h)
    BY <1>11, OwnedKept DEF Rollback, RollbackUnlink
<1>12. CASE RollbackUnlock(h)
    <2>1. Releases(h, pkfd[h])
        BY <1>12 DEF RollbackUnlock, Releases
    <2> QED
        BY <1>12, <2>1, OwnedReleased DEF RollbackUnlock
<1> QED
    BY <1>1, <1>2, <1>3, <1>4, <1>5, <1>6, <1>7, <1>8, <1>9, <1>10, <1>11, <1>12
       DEF Step

\* A crash keeps Owned.
LEMMA OwnedCrash ==
    ASSUME Cooperative, TypeOK, Owned, NEW p \in Procs, Crash(p)
    PROVE  Owned'
<1> SUFFICES ASSUME NEW i \in Inodes, lock'[i] # NoProc
             PROVE  \E g \in Handles :
                       lock'[i] = ProcOf[g] /\ (i = pkfd'[g] \/ i = fd'[g])
    BY DEF Owned
<1>1. lock'[i] = lock[i] /\ lock[i] # p
    BY DEF Crash, ReleasedAll
<1>2. PICK g \in Handles : lock[i] = ProcOf[g] /\ (i = pkfd[g] \/ i = fd[g])
    BY <1>1 DEF Owned
<1> QED
    BY <1>1, <1>2 DEF Crash, TypeOK

\* Steps that leave the mutex alone do not end the call of its holder.
LEMMA SerialKept ==
    ASSUME TypeOK, Serial, UNCHANGED mutex,
           \A g \in Handles :
               /\ pc[g] \in {"unlocknew", "unlink"} => pc'[g] = pc[g]
               /\ (pkfd[g] \in Inodes /\ pc[g] \notin {"idle", "read", "open", "mutex"})
                     => \/ pc'[g] \in {"unlocknew", "unlink"}
                        \/ /\ pkfd'[g] \in Inodes
                           /\ pc'[g] \notin {"idle", "read", "open", "mutex"}
    PROVE  Serial'
BY DEF Serial, TypeOK

\* The holder gives the mutex back.
LEMMA SerialReleased ==
    ASSUME TypeOK, Serial, NEW h \in Handles, UnlockMutex(h),
           \A g \in Handles \ {h} : pc'[g] = pc[g] /\ pkfd'[g] = pkfd[g]
    PROVE  Serial'
<1> SUFFICES ASSUME NEW p \in Procs, mutex'[p] # NoHandle
             PROVE  /\ mutex'[p] = mutex[p]
                    /\ mutex[p] # h
                    /\ mutex[p] \in Handles
    BY DEF Serial
<1> QED
    BY ProcOfType DEF Serial, TypeOK, UnlockMutex

\* Serial: elektraSetPrepare and elektraSetCommit unlock on all their ways out.
LEMMA SerialStep ==
    ASSUME Cooperative, TypeOK, Holds, Settled, Serial, NEW h \in Handles, Step(h)
    PROVE  Serial'
<1> USE DEF TypeOK, Holds, Settled
<1>1. CASE GetUnchanged(h) \/ GetChanged(h) \/ Read(h)
    BY <1>1, SerialKept DEF GetUnchanged, GetChanged, Read
<1>2. CASE SetBegin(h) \/ Open(h)
    BY <1>2, SerialKept DEF SetBegin, Open
<1>3. CASE LockMutex(h)
    <2>1. mutex[ProcOf[h]] = NoHandle
        BY <1>3, ProcOfType DEF LockMutex, Serial, Cooperative
    <2>2. /\ mutex' = [mutex EXCEPT ![ProcOf[h]] = h]
          /\ pc' = [pc EXCEPT ![h] = "flock"]
          /\ UNCHANGED pkfd
        BY <1>3, <2>1 DEF LockMutex
    <2>3. pkfd[h] \in Inodes
        BY <1>3 DEF LockMutex
    <2> QED
        BY <2>1, <2>2, <2>3, ProcOfType, HandlesAssumption DEF Serial
<1>4. CASE LockFile(h)
    <2>1. CASE CanLock(ProcOf[h], pkfd[h])
        BY <1>4, <2>1, SerialKept DEF LockFile
    <2>2. CASE ~CanLock(ProcOf[h], pkfd[h])
        BY <1>4, <2>2, SerialReleased DEF LockFile
    <2> QED
        BY <2>1, <2>2
<1>5. CASE CheckConflict(h)
    <2>1. CASE Unmodified(h)
        BY <1>5, <2>1, SerialKept DEF CheckConflict
    <2>2. CASE ~Unmodified(h)
        BY <1>5, <2>2, SerialReleased DEF CheckConflict
    <2> QED
        BY <2>1, <2>2
<1>6. CASE WriteTemp(h) \/ FlushTemp(h) \/ StoreFail(h)
    BY <1>6, SerialKept DEF WriteTemp, FlushTemp, StoreFail
<1>7. CASE OpenTemp(h) \/ Rename(h) \/ Stamp(h) \/ StampOld(h) \/ UnlockOld(h)
    BY <1>7, SerialKept DEF OpenTemp, Rename, Stamp, StampOld, UnlockOld
<1>8. CASE UnlockNew(h) \/ RollbackUnlink(h)
    BY <1>8, SerialReleased DEF UnlockNew, RollbackUnlink
<1>9. CASE Rollback(h) \/ RollbackUnlock(h)
    BY <1>9, SerialKept DEF Rollback, RollbackUnlock
<1> QED
    BY <1>1, <1>2, <1>3, <1>4, <1>5, <1>6, <1>7, <1>8, <1>9 DEF Step

\* A crash keeps Serial.
LEMMA SerialCrash ==
    ASSUME TypeOK, Serial, NEW p \in Procs, Crash(p)
    PROVE  Serial'
<1> SUFFICES ASSUME NEW q \in Procs, mutex'[q] # NoHandle
             PROVE  /\ mutex'[q] = mutex[q] /\ q # p
                    /\ mutex[q] \in Handles /\ ProcOf[mutex[q]] = q
                    /\ pc'[mutex[q]] = pc[mutex[q]] /\ pkfd'[mutex[q]] = pkfd[mutex[q]]
    BY DEF Serial
<1>1. mutex'[q] = mutex[q] /\ q # p
    BY DEF Crash, TypeOK
<1>2. mutex[q] \in Handles /\ ProcOf[mutex[q]] = q
    BY <1>1 DEF Serial, TypeOK
<1> QED
    BY <1>1, <1>2 DEF Crash

\* Clocked: the clock moves with every write, and stamps are copied from it.
LEMMA ClockedStep ==
    ASSUME Cooperative, TypeOK, Holds, Settled, Clocked, NewStamps,
           NEW h \in Handles, Step(h)
    PROVE  Clocked'
<1> USE ClockAssumption DEF Cooperative, TypeOK, Holds, Settled, Clocked, NewStamps,
        PosixTypeOK
<1>1. CASE GetUnchanged(h) \/ SetBegin(h)
    BY <1>1 DEF GetUnchanged, SetBegin
<1>2. CASE GetChanged(h)
    BY <1>2 DEF GetChanged
<1>3. CASE Read(h)
    BY <1>3 DEF Read
<1>4. CASE Open(h) \/ LockMutex(h)
    BY <1>4 DEF Open, LockMutex
<1>5. CASE LockFile(h)
    BY <1>5 DEF LockFile
<1>6. CASE CheckConflict(h)
    BY <1>6 DEF CheckConflict
<1>7. CASE WriteTemp(h)
    <2>1. PICK i \in Inodes : NewTemp(h, i)
        BY <1>7, TempIsNew
    <2> QED
        BY <1>7, <2>1 DEF WriteTemp, NewTemp
<1>8. CASE FlushTemp(h) \/ StoreFail(h)
    BY <1>8 DEF FlushTemp, StoreFail
<1>9. CASE OpenTemp(h)
    BY <1>9 DEF OpenTemp
<1>10. CASE Rename(h)
    BY <1>10 DEF Rename
<1>11. CASE StampOld(h)
    BY <1>11 DEF StampOld
<1>12. CASE Stamp(h)
    BY <1>12 DEF Stamp
<1>13. CASE UnlockOld(h) \/ UnlockNew(h)
    BY <1>13 DEF UnlockOld, UnlockNew
<1>14. CASE Rollback(h) \/ RollbackUnlock(h) \/ RollbackUnlink(h)
    BY <1>14 DEF Rollback, RollbackUnlock, RollbackUnlink
<1> QED
    BY <1>1, <1>2, <1>3, <1>4, <1>5, <1>6, <1>7, <1>8, <1>9, <1>10, <1>11, <1>12,
       <1>13, <1>14 DEF Step

\* A crash keeps Clocked.
LEMMA ClockedCrash ==
    ASSUME Cooperative, TypeOK, Holds, Settled, Clocked, NewStamps, NEW p \in Procs,
           Crash(p)
    PROVE  Clocked'
BY ClockAssumption, OneDies DEF Cooperative, TypeOK, Holds, Settled, Clocked,
   NewStamps, PosixTypeOK, Crash, ReleasedAll

\* NewStamps: a file that is written now is newer than all stamps anybody knows.
LEMMA NewStampsStep ==
    ASSUME Cooperative, TypeOK, Holds, FileInv, NEW h \in Handles, Step(h)
    PROVE  NewStamps'
<1> USE ClockAssumption, ProcOfType DEF Cooperative, TypeOK, Holds, FileInv,
        Settled, Private, Replaced, Locked, Owned, Clocked, NewStamps, Stalled,
        Current, PosixTypeOK, Checked
<1>1. CASE GetUnchanged(h) \/ GetChanged(h) \/ Read(h) \/ SetBegin(h)
    BY <1>1 DEF GetUnchanged, GetChanged, Read, SetBegin
<1>2. CASE Open(h) \/ LockMutex(h)
    BY <1>2 DEF Open, LockMutex
<1>3. CASE LockFile(h)
    <2>1. CASE CanLock(ProcOf[h], pkfd[h])
        BY <1>3, <2>1 DEF LockFile
    <2>2. CASE ~CanLock(ProcOf[h], pkfd[h])
        BY <1>3, <2>2 DEF LockFile
    <2> QED
        BY <2>1, <2>2
<1>4. CASE CheckConflict(h)
    BY <1>4 DEF CheckConflict
<1>5. CASE WriteTemp(h)
    <2>1. PICK i \in Inodes : NewTemp(h, i)
        BY <1>5, TempIsNew
    <2> QED
        BY <1>5, <2>1 DEF WriteTemp, NewTemp
<1>6. CASE FlushTemp(h) \/ StoreFail(h)
    BY <1>6 DEF FlushTemp, StoreFail
<1>7. CASE OpenTemp(h)
    BY <1>7 DEF OpenTemp
<1>8. CASE Rename(h)
    BY <1>8 DEF Rename
<1>9. CASE Stamp(h) \/ StampOld(h)
    BY <1>9, SMTT(20) DEF Stamp, StampOld
<1>10. CASE UnlockOld(h) \/ UnlockNew(h)
    BY <1>10 DEF UnlockOld, UnlockNew
<1>11. CASE Rollback(h) \/ RollbackUnlock(h) \/ RollbackUnlink(h)
    BY <1>11 DEF Rollback, RollbackUnlock, RollbackUnlink
<1> QED
    BY <1>1, <1>2, <1>3, <1>4, <1>5, <1>6, <1>7, <1>8, <1>9, <1>10, <1>11 DEF Step

\* A crash keeps NewStamps.
LEMMA NewStampsCrash ==
    ASSUME Cooperative, TypeOK, Holds, FileInv, NEW p \in Procs, Crash(p)
    PROVE  NewStamps'
BY ClockAssumption, ProcOfType, OneDies DEF Cooperative, TypeOK, Holds, FileInv,
   Settled, Private, Replaced, Locked, Owned, Clocked, NewStamps, Stalled, Current,
   PosixTypeOK, Checked, Crash, ReleasedAll

\* Grows: keys are only increased, and by their own handle.
LEMMA GrowsStep ==
    ASSUME TypeOK, Holds, Settled, Grows, NEW h \in Handles, Step(h)
    PROVE  Grows'
<1> USE HandlesAssumption DEF TypeOK, Holds, Settled, Grows, PosixTypeOK, KeySets,
        EmptyKs
<1>1. CASE GetUnchanged(h) \/ GetChanged(h)
    BY <1>1 DEF GetUnchanged, GetChanged
<1>2. CASE Read(h)
    <2> DEFINE s == data[file]
    <2>1. /\ ks' = [ks EXCEPT ![h] = s]
          /\ base' = [base EXCEPT ![h] = s]
          /\ UNCHANGED <<data, seq>>
        BY <1>2 DEF Read
    <2>2. \A g \in Handles : s[g] \in 0 .. MaxSets /\ s[g] <= seq[g]
        OBVIOUS
    <2> HIDE DEF s
    <2> QED
        BY <2>1, <2>2
<1>3. CASE SetBegin(h)
    BY <1>3 DEF SetBegin
<1>4. CASE Open(h) \/ LockMutex(h)
    BY <1>4 DEF Open, LockMutex
<1>5. CASE LockFile(h)
    BY <1>5 DEF LockFile
<1>6. CASE CheckConflict(h)
    BY <1>6 DEF CheckConflict
<1>7. CASE WriteTemp(h)
    <2>1. PICK i \in Inodes : NewTemp(h, i)
        BY <1>7, TempIsNew
    <2> QED
        BY <1>7, <2>1 DEF WriteTemp, NewTemp
<1>8. CASE FlushTemp(h) \/ StoreFail(h)
    BY <1>8 DEF FlushTemp, StoreFail
<1>9. CASE OpenTemp(h)
    BY <1>9 DEF OpenTemp
<1>10. CASE Rename(h)
    BY <1>10 DEF Rename
<1>11. CASE Stamp(h) \/ StampOld(h)
    BY <1>11 DEF Stamp, StampOld
<1>12. CASE UnlockOld(h) \/ UnlockNew(h)
    BY <1>12 DEF UnlockOld, UnlockNew
<1>13. CASE Rollback(h) \/ RollbackUnlock(h) \/ RollbackUnlink(h)
    BY <1>13 DEF Rollback, RollbackUnlock, RollbackUnlink
<1> QED
    BY <1>1, <1>2, <1>3, <1>4, <1>5, <1>6, <1>7, <1>8, <1>9, <1>10, <1>11, <1>12,
       <1>13 DEF Step

\* A crash keeps Grows.
LEMMA GrowsCrash ==
    ASSUME Cooperative, TypeOK, Holds, Settled, Grows, NEW p \in Procs, Crash(p)
    PROVE  Grows'
BY HandlesAssumption, OneDies DEF TypeOK, Holds, Settled, Grows, PosixTypeOK,
   KeySets, EmptyKs, Crash, ReleasedAll

\* Known: a stamp that equals the one of the visible file was read with its keys.
LEMMA KnownStep ==
    ASSUME Cooperative, TypeOK, Holds, FileInv, Known, Written, NEW h \in Handles,
           Step(h)
    PROVE  Known'
<1> USE ProcOfType, ClockAssumption DEF Cooperative, TypeOK, Holds, FileInv,
        Settled, Private, Replaced, Locked, Owned, Clocked, NewStamps, Stalled,
        Current, Known, Written, PosixTypeOK, Checked, Unmodified
<1>1. CASE GetUnchanged(h) \/ GetChanged(h) \/ SetBegin(h)
    BY <1>1 DEF GetUnchanged, GetChanged, SetBegin
<1>2. CASE Read(h)
    <2>1. /\ base' = [base EXCEPT ![h] = data[file]]
          /\ pc' = [pc EXCEPT ![h] = "idle"]
          /\ UNCHANGED <<data, stamp, file, mtime, pkfd>>
        BY <1>2 DEF Read
    <2>2. data[file] # NoKs
        BY NoKsAssumption
    <2> QED
        BY <2>1, <2>2
<1>3. CASE Open(h) \/ LockMutex(h)
    BY <1>3 DEF Open, LockMutex
<1>4. CASE LockFile(h)
    BY <1>4 DEF LockFile
<1>5. CASE CheckConflict(h)
    BY <1>5, SMTT(20) DEF CheckConflict
<1>6. CASE WriteTemp(h)
    <2>1. PICK i \in Inodes : NewTemp(h, i)
        BY <1>6, TempIsNew
    <2> QED
        BY <1>6, <2>1 DEF WriteTemp, NewTemp
<1>7. CASE FlushTemp(h) \/ StoreFail(h)
    BY <1>7 DEF FlushTemp, StoreFail
<1>8. CASE OpenTemp(h)
    BY <1>8 DEF OpenTemp
<1>9. CASE Rename(h)
    <2>1. ASSUME NEW g \in Handles, g # h PROVE ~Checked(g)
        BY <1>9, <2>1 DEF Rename
    <2>2. base[h] # NoKs /\ ks[h] # NoKs
        BY <1>9, NoKsAssumption DEF Rename
    <2>3. /\ file' = tmp[h] /\ base' = [base EXCEPT ![h] = ks[h]]
          /\ pc' = [pc EXCEPT ![h] = "stamp"]
          /\ UNCHANGED <<data, stamp, mtime, pkfd>>
        BY <1>9 DEF Rename
    <2>4. \A g \in Handles : mtime[g] # stamp[tmp[h]]
        BY <1>9 DEF Rename
    <2> QED
        BY <2>1, <2>2, <2>3, <2>4
<1>10. CASE StampOld(h)
    BY <1>10 DEF StampOld
<1>11. CASE Stamp(h)
    <2>1. /\ mtime' = [mtime EXCEPT ![h] = stamp[fd[h]]]
          /\ UNCHANGED <<stamp, data, file, base, pkfd>>
        BY <1>11 DEF Stamp
    <2>2. fd[h] = file /\ base[h] = data[file]
        BY <1>11 DEF Stamp
    <2>3. base[h] # NoKs
        BY <2>2, NoKsAssumption
    <2>4. pc' = [pc EXCEPT ![h] = "stampold"]
        BY <1>11 DEF Stamp
    <2> QED
        BY <2>1, <2>2, <2>3, <2>4
<1>12. CASE UnlockOld(h) \/ UnlockNew(h)
    BY <1>12 DEF UnlockOld, UnlockNew
<1>13. CASE Rollback(h) \/ RollbackUnlock(h) \/ RollbackUnlink(h)
    BY <1>13 DEF Rollback, RollbackUnlock, RollbackUnlink
<1> QED
    BY <1>1, <1>2, <1>3, <1>4, <1>5, <1>6, <1>7, <1>8, <1>9, <1>10, <1>11, <1>12,
       <1>13 DEF Step

\* A crash keeps Known.
LEMMA KnownCrash ==
    ASSUME Cooperative, TypeOK, Holds, FileInv, Known, Written, NEW p \in Procs,
           Crash(p)
    PROVE  Known'
BY ProcOfType, ClockAssumption, OneDies DEF Cooperative, TypeOK, Holds, FileInv,
   Settled, Private, Replaced, Locked, Owned, Clocked, NewStamps, Stalled, Current,
   Known, Written, PosixTypeOK, Checked, Unmodified, Crash, ReleasedAll

\* Written: nobody else writes the temporary file or the new one.
LEMMA WrittenStep ==
    ASSUME Cooperative, TypeOK, Holds, Settled, Private, Replaced, Locked, Current,
           Clocked, NewStamps, Written, NEW h \in Handles, Step(h)
    PROVE  Written'
<1> USE ProcOfType DEF Cooperative, TypeOK, Holds, Settled, Private, Replaced,
        Locked, Current, Clocked, NewStamps, Written, PosixTypeOK, Checked
<1>1. CASE GetUnchanged(h) \/ GetChanged(h) \/ Read(h) \/ SetBegin(h)
    BY <1>1 DEF GetUnchanged, GetChanged, Read, SetBegin
<1>2. CASE Open(h) \/ LockMutex(h)
    BY <1>2 DEF Open, LockMutex
<1>3. CASE LockFile(h)
    BY <1>3 DEF LockFile
<1>4. CASE CheckConflict(h)
    BY <1>4 DEF CheckConflict
<1>5. CASE WriteTemp(h)
    <2>1. PICK i \in Inodes : NewTemp(h, i)
        BY <1>5, TempIsNew
    <2> QED
        BY <1>5, <2>1 DEF WriteTemp, NewTemp
<1>6. CASE FlushTemp(h) \/ StoreFail(h)
    BY <1>6 DEF FlushTemp, StoreFail
<1>7. CASE OpenTemp(h)
    BY <1>7 DEF OpenTemp
<1>8. CASE Rename(h)
    BY <1>8 DEF Rename
<1>9. CASE Stamp(h) \/ StampOld(h)
    BY <1>9 DEF Stamp, StampOld
<1>10. CASE UnlockOld(h) \/ UnlockNew(h)
    BY <1>10 DEF UnlockOld, UnlockNew
<1>11. CASE Rollback(h) \/ RollbackUnlock(h) \/ RollbackUnlink(h)
    BY <1>11 DEF Rollback, RollbackUnlock, RollbackUnlink
<1> QED
    BY <1>1, <1>2, <1>3, <1>4, <1>5, <1>6, <1>7, <1>8, <1>9, <1>10, <1>11 DEF Step

\* A crash keeps Written.
LEMMA WrittenCrash ==
    ASSUME Cooperative, TypeOK, Holds, Settled, Private, Replaced, Locked, Current,
           Clocked, NewStamps, Written, NEW p \in Procs, Crash(p)
    PROVE  Written'
BY ProcOfType, OneDies DEF Cooperative, TypeOK, Holds, Settled, Private, Replaced,
   Locked, Current, Clocked, NewStamps, Written, PosixTypeOK, Checked, Crash,
   ReleasedAll

\* NoLostUpdate: a rename() replaces a keyset by a larger one.
LEMMA NoLostUpdateStep ==
    ASSUME TypeOK, Holds, Settled, Private, Replaced, Current, Grows, Known,
           Written, NoLostUpdate, NEW h \in Handles, Step(h)
    PROVE  NoLostUpdate'
<1> USE DEF TypeOK, Holds, Settled, Private, Replaced, Current, Grows, Known,
        Written, NoLostUpdate, PosixTypeOK, Checked, Visible, KeySets
<1>1. CASE GetUnchanged(h) \/ GetChanged(h) \/ Read(h) \/ SetBegin(h)
    BY <1>1 DEF GetUnchanged, GetChanged, Read, SetBegin
<1>2. CASE Open(h) \/ LockMutex(h)
    BY <1>2 DEF Open, LockMutex
<1>3. CASE LockFile(h)
    BY <1>3 DEF LockFile
<1>4. CASE CheckConflict(h)
    BY <1>4 DEF CheckConflict
<1>5. CASE WriteTemp(h)
    <2>1. PICK i \in Inodes : NewTemp(h, i)
        BY <1>5, TempIsNew
    <2> QED
        BY <1>5, <2>1 DEF WriteTemp, NewTemp
<1>6. CASE FlushTemp(h) \/ StoreFail(h)
    BY <1>6 DEF FlushTemp, StoreFail
<1>7. CASE OpenTemp(h)
    BY <1>7 DEF OpenTemp
<1>8. CASE Rename(h)
    <2>1. base[h] = data[file] /\ data[tmp[h]] = ks[h] /\ base[h] # NoKs
        BY <1>8, NoKsAssumption DEF Rename
    <2>2. ASSUME NEW g \in Handles PROVE data[tmp[h]][g] >= won[g]
        <3>1. data[file][g] >= won[g] /\ base[h][g] <= ks[h][g]
            BY <2>1
        <3>2. data[file][g] \in Nat /\ ks[h][g] \in Nat /\ won[g] \in Nat
            BY HandlesAssumption
        <3> HIDE DEF TypeOK, Holds, Settled, Private, Replaced, Current, Grows, Known,
                 Written, NoLostUpdate, PosixTypeOK, Checked, Visible, KeySets
        <3> QED
            BY <2>1, <3>1, <3>2
    <2> QED
        BY <1>8, <2>2 DEF Rename
<1>9. CASE Stamp(h) \/ StampOld(h)
    BY <1>9 DEF Stamp, StampOld
<1>10. CASE UnlockOld(h)
    BY <1>10 DEF UnlockOld
<1>11. CASE UnlockNew(h)
    BY <1>11 DEF UnlockNew
<1>12. CASE Rollback(h) \/ RollbackUnlock(h) \/ RollbackUnlink(h)
    BY <1>12 DEF Rollback, RollbackUnlock, RollbackUnlink
<1> QED
    BY <1>1, <1>2, <1>3, <1>4, <1>5, <1>6, <1>7, <1>8, <1>9, <1>10, <1>11, <1>12 DEF
       Step

\* A crash keeps NoLostUpdate.
LEMMA NoLostUpdateCrash ==
    ASSUME Cooperative, TypeOK, Holds, Settled, Private, Replaced, Current, Grows,
           Known, Written, NoLostUpdate, NEW p \in Procs, Crash(p)
    PROVE  NoLostUpdate'
BY OneDies DEF TypeOK, Holds, Settled, Private, Replaced, Current, Grows, Known,
   Written, NoLostUpdate, PosixTypeOK, Checked, Visible, KeySets, Crash, ReleasedAll

\* Current: only the handle that has the lock of the visible file replaces it.
LEMMA CurrentStep ==
    ASSUME Cooperative, TypeOK, Holds, FileInv, NEW h \in Handles, Step(h)
    PROVE  Current'
<1> USE ProcOfType DEF Cooperative, TypeOK, Holds, FileInv, Settled, Private,
        Replaced, Locked, Owned, Clocked, NewStamps, Stalled, Current, PosixTypeOK,
        Checked, Unmodified
<1>1. CASE GetUnchanged(h) \/ GetChanged(h) \/ Read(h) \/ SetBegin(h)
    BY <1>1 DEF GetUnchanged, GetChanged, Read, SetBegin
<1>2. CASE Open(h) \/ LockMutex(h)
    BY <1>2 DEF Open, LockMutex
<1>3. CASE LockFile(h)
    BY <1>3 DEF LockFile
<1>4. CASE CheckConflict(h)
    BY <1>4 DEF CheckConflict
<1>5. CASE WriteTemp(h)
    <2>1. PICK i \in Inodes : NewTemp(h, i)
        BY <1>5, TempIsNew
    <2> QED
        BY <1>5, <2>1 DEF WriteTemp, NewTemp
<1>6. CASE FlushTemp(h) \/ StoreFail(h)
    BY <1>6 DEF FlushTemp, StoreFail
<1>7. CASE OpenTemp(h)
    BY <1>7 DEF OpenTemp
<1>8. CASE Rename(h)
    BY <1>8 DEF Rename
<1>9. CASE Stamp(h) \/ StampOld(h)
    BY <1>9 DEF Stamp, StampOld
<1>10. CASE UnlockOld(h) \/ UnlockNew(h)
    BY <1>10 DEF UnlockOld, UnlockNew
<1>11. CASE Rollback(h) \/ RollbackUnlock(h) \/ RollbackUnlink(h)
    BY <1>11 DEF Rollback, RollbackUnlock, RollbackUnlink
<1> QED
    BY <1>1, <1>2, <1>3, <1>4, <1>5, <1>6, <1>7, <1>8, <1>9, <1>10, <1>11 DEF Step

\* A crash keeps Current.
LEMMA CurrentCrash ==
    ASSUME Cooperative, TypeOK, Holds, FileInv, NEW p \in Procs, Crash(p)
    PROVE  Current'
BY ProcOfType, OneDies DEF Cooperative, TypeOK, Holds, FileInv, Settled, Private,
   Replaced, Locked, Owned, Clocked, NewStamps, Stalled, Current, PosixTypeOK,
   Checked, Unmodified, Crash, ReleasedAll

\* Steps that neither stamp nor replace a file let the waiting handles wait.
LEMMA StalledKept ==
    ASSUME Stalled, UNCHANGED <<file, stamp>>,
           \A f \in Handles : pc[f] \in {"stamp", "stampold"} =>
               pc'[f] \in {"stamp", "stampold"} /\ pkfd'[f] = pkfd[f],
           \A g \in Handles : pc'[g] \in {"mutex", "flock", "check"} =>
               /\ pc[g] \in {"mutex", "flock", "check"}
               /\ pkfd'[g] = pkfd[g] /\ mtime'[g] = mtime[g]
    PROVE  Stalled'
BY DEF Stalled

\* Stalled: who replaces a file stamps it before giving its lock away.
LEMMA StalledStep ==
    ASSUME Cooperative, TypeOK, Holds, FileInv, NEW h \in Handles, Step(h)
    PROVE  Stalled'
<1> USE DEF TypeOK, PosixTypeOK, Holds, FileInv
<1>1. CASE GetUnchanged(h) \/ GetChanged(h) \/ Read(h) \/ SetBegin(h)
    BY <1>1, StalledKept DEF GetUnchanged, GetChanged, Read, SetBegin
<1>2. CASE Open(h)
    BY <1>2 DEF Open, Stalled
<1>3. CASE LockMutex(h)
    BY <1>3, StalledKept DEF LockMutex
<1>4. CASE LockFile(h)
    BY <1>4, StalledKept DEF LockFile
<1>5. CASE CheckConflict(h)
    BY <1>5, StalledKept DEF CheckConflict
<1>6. CASE WriteTemp(h)
    <2>1. PICK i \in Inodes : NewTemp(h, i)
        BY <1>6, TempIsNew
    <2> QED
        BY <1>6, <2>1 DEF WriteTemp, NewTemp, Stalled
<1>7. CASE FlushTemp(h)
    BY <1>7 DEF FlushTemp, Stalled, Private
<1>8. CASE StoreFail(h) \/ OpenTemp(h)
    BY <1>8, StalledKept DEF StoreFail, OpenTemp
<1>9. CASE Rename(h)
    BY <1>9 DEF Rename, Stalled, Current, Checked, NewStamps
<1>10. CASE Stamp(h)
    BY <1>10 DEF Stamp, Stalled, NewStamps
<1>11. CASE StampOld(h)
    BY <1>11 DEF StampOld, Stalled, NewStamps, Replaced
<1>12. CASE UnlockOld(h) \/ UnlockNew(h)
    BY <1>12, StalledKept DEF UnlockOld, UnlockNew
<1>13. CASE Rollback(h) \/ RollbackUnlock(h) \/ RollbackUnlink(h)
    BY <1>13, StalledKept DEF Rollback, RollbackUnlock, RollbackUnlink, Settled
<1> QED
    BY <1>1, <1>2, <1>3, <1>4, <1>5, <1>6, <1>7, <1>8, <1>9, <1>10, <1>11, <1>12,
       <1>13
       DEF Step

\* A crash keeps Stalled.
LEMMA StalledCrash ==
    ASSUME Cooperative, TypeOK, FileInv, NEW p \in Procs, Crash(p)
    PROVE  Stalled'
BY OneDies, StalledKept DEF Crash, TypeOK, FileInv

-----------------------------------------------------------------------------
(* The invariant *)

\* What every step of the resolver maintains.
IInv == TypeOK /\ Holds /\ FileInv /\ DataInv

\* All parts hold at the start: a complete file without keys, and nothing open.
LEMMA InitSafe ==
    ASSUME Cooperative, Init
    PROVE  IInv
<1>1. TypeOK /\ Holds
    BY InitType DEF Init, Holds
<1>2. file \in Inodes
    BY FreshIsNew, HandlesAssumption DEF Init, Cooperative
<1>3. FileInv
    BY <1>1, <1>2, ClockAssumption DEF Init, resolverInit, FileInv, Settled,
       Private,
       Replaced, Locked, Owned, Serial, Clocked, NewStamps, Stalled, Current, Checked,
          TypeOK
<1>4. Grows /\ NoLostUpdate
    BY <1>2 DEF Init, Grows, NoLostUpdate, Visible, EmptyKs
<1>5. Known /\ Written
    BY <1>2, ClockAssumption DEF Init, resolverInit, Known, Written, Checked
<1> QED
    BY <1>1, <1>3, <1>4, <1>5 DEF IInv, DataInv

\* Every step keeps all parts.
LEMMA NextSafe ==
    ASSUME Cooperative, IInv, [Next]_vars
    PROVE  IInv'
<1> USE DEF IInv
<1>1. TypeOK' /\ Holds'
    BY NextType
<1>2. ASSUME NEW h \in Handles, Step(h) PROVE FileInv' /\ DataInv'
    <2>1. FileInv'
        BY <1>2, SettledStep, PrivateStep, ReplacedStep, LockedStep, OwnedStep,
           SerialStep, ClockedStep, NewStampsStep, StalledStep, CurrentStep DEF FileInv
    <2>2. DataInv'
        BY <1>2, GrowsStep, KnownStep, WrittenStep, NoLostUpdateStep
           DEF FileInv, DataInv
    <2> QED
        BY <2>1, <2>2
<1>3. ASSUME NEW p \in Procs, Crash(p) PROVE FileInv' /\ DataInv'
    <2>1. FileInv'
        BY <1>3, SettledCrash, PrivateCrash, ReplacedCrash, LockedCrash, OwnedCrash,
           SerialCrash, ClockedCrash, NewStampsCrash, StalledCrash, CurrentCrash
           DEF FileInv
    <2>2. DataInv'
        BY <1>3, GrowsCrash, KnownCrash, WrittenCrash, NoLostUpdateCrash
           DEF FileInv, DataInv
    <2> QED
        BY <2>1, <2>2
<1>4. CASE UNCHANGED vars
    <2>1. (Settled /\ Private /\ Replaced /\ Locked /\ Owned /\ Serial)'
        BY <1>4 DEF vars, FileInv, Settled, Private, Replaced, Locked, Owned, Serial
    <2>2. (Clocked /\ NewStamps /\ Stalled /\ Current)'
        BY <1>4 DEF vars, FileInv, Clocked, NewStamps, Stalled, Current, Checked
    <2>3. DataInv'
        BY <1>4 DEF vars, DataInv, Grows, Known, Written, NoLostUpdate, Visible,
           Checked
    <2> QED
        BY <1>1, <2>1, <2>2, <2>3 DEF FileInv
<1> QED
    BY <1>1, <1>2, <1>3, <1>4, OnlySteps DEF FileInv

\* The invariant holds in every reachable state.
LEMMA Invariance ==
    ASSUME Cooperative
    PROVE  Spec => []IInv
<1>1. Init => IInv
    BY InitSafe
<1>2. IInv /\ [Next]_vars => IInv'
    BY NextSafe
<1> QED
    BY <1>1, <1>2, PTL DEF Spec

-----------------------------------------------------------------------------
(***************************************************************************)
(* What the invariant implies: the safety properties of Resolver, and that *)
(* it implements ConfigStore, for any number of cooperating processes and  *)
(* of kdbGet() and kdbSet() calls.  Then what holds of processes and       *)
(* threads that do not cooperate, and of a handle that is alone.           *)
(***************************************************************************)

\* Between its conflict check (elektraCheckConflict) and its rename() a handle
\* has the lock of the file readers see, however many processes wait for it.
THEOREM CheckedIsCurrent ==
    ASSUME Cooperative
    PROVE  Spec => []CheckedFileIsCurrent
<1>1. IInv => CheckedFileIsCurrent
    BY DEF IInv, FileInv, Current, Locked, Checked, CheckedFileIsCurrent
<1> QED
    BY <1>1, Invariance, PTL

\* A key stored by a successful kdbSet() is never lost.
THEOREM NoUpdateIsLost ==
    ASSUME Cooperative
    PROVE  Spec => []NoLostUpdate
<1>1. IInv => NoLostUpdate
    BY DEF IInv, DataInv
<1> QED
    BY <1>1, Invariance, PTL

\* What readers see changes with a rename() only.
LEMMA OnlyRenameShows ==
    ASSUME Cooperative, IInv, NEW h \in Handles, Step(h), ~Rename(h)
    PROVE  Visible' = Visible
<1> USE DEF IInv, FileInv, Settled, TypeOK, PosixTypeOK, Holds, Visible
<1>1. CASE WriteTemp(h)
    <2>1. PICK i \in Inodes : NewTemp(h, i)
        BY <1>1, TempIsNew
    <2> QED
        BY <1>1, <2>1 DEF WriteTemp, NewTemp
<1>2. CASE FlushTemp(h)
    BY <1>2 DEF FlushTemp, Private
<1>3. CASE ~WriteTemp(h) /\ ~FlushTemp(h)
    BY <1>3 DEF Step, GetUnchanged, GetChanged, Read, SetBegin, Open, LockMutex,
       LockFile, CheckConflict, StoreFail, OpenTemp, Stamp, StampOld, UnlockOld,
       UnlockNew, Rollback, RollbackUnlock, RollbackUnlink
<1> QED
    BY <1>1, <1>2, <1>3

\* Only reading and renaming change what a handle has seen.
LEMMA OnlyReadOrRenameSees ==
    ASSUME Cooperative, NEW h \in Handles, Step(h), ~Rename(h), ~Read(h)
    PROVE  UNCHANGED base
BY DEF Step, GetUnchanged, GetChanged, SetBegin, Open, LockMutex, LockFile,
   CheckConflict, WriteTemp, FlushTemp, StoreFail, OpenTemp, Stamp, StampOld,
      UnlockOld,
   UnlockNew, Rollback, RollbackUnlock, RollbackUnlink

\* The resolver implements ConfigStore: rename() is the step that publishes,
\* and the reading of the file by the storage plugin the one that retrieves.
THEOREM ImplementsStore ==
    ASSUME Cooperative
    PROVE  Spec => StoreSpec
<1>1. Init => Store!Init
    <2> SUFFICES ASSUME Init PROVE Store!Init
        OBVIOUS
    <2>1. file \in Inodes
        BY FreshIsNew, HandlesAssumption DEF Init, Cooperative
    <2> QED
        BY <2>1, EmptyKsType DEF Init, Store!Init, Visible
<1>2. IInv /\ [Next]_vars => [Store!Next]_(Store!vars)
    <2> SUFFICES ASSUME IInv, [Next]_vars PROVE [Store!Next]_(Store!vars)
        OBVIOUS
    <2> USE DEF Store!Next, Store!vars
    <2>1. Settled
        BY DEF IInv, FileInv
    <2>2. ASSUME NEW h \in Handles, Read(h) PROVE Store!Retrieve(h)
        BY <2>1, <2>2, OnlyRenameShows DEF Read, Store!Retrieve, Visible, Settled
    <2>3. ASSUME NEW h \in Handles, Rename(h)
          PROVE  Store!Publish(h, ks[h]) /\ ks[h] \in KeySets
        <3>1. base[h] = data[file] /\ data[tmp[h]] = ks[h] /\ tmp[h] \in Inodes
            BY <2>3 DEF Rename, IInv, DataInv, Known, Written, Checked, Holds
        <3> QED
            BY <2>1, <2>3, <3>1 DEF Rename, Store!Publish, Visible, Settled, IInv,
               TypeOK
    <2>4. ASSUME NEW h \in Handles, Step(h), ~Read(h), ~Rename(h)
          PROVE  UNCHANGED <<Visible, base>>
        BY <2>4, OnlyRenameShows, OnlyReadOrRenameSees
    <2>5. ASSUME NEW p \in Procs, Crash(p)
          PROVE  Store!Reopen({h \in Handles : ProcOf[h] = p})
        BY <2>5 DEF Crash, Store!Reopen, Visible
    <2>6. CASE UNCHANGED vars
        BY <2>6 DEF vars, Visible
    <2>7. ASSUME NEW h \in Handles, Step(h) PROVE [Store!Next]_(Store!vars)
        BY <2>2, <2>3, <2>4, <2>7
    <2>8. ASSUME NEW p \in Procs, Crash(p) PROVE Store!Next
        BY <2>5, <2>8
    <2> QED
        BY <2>1, <2>6, <2>7, <2>8, OnlySteps
<1> QED
    BY <1>1, <1>2, Invariance, PTL DEF Spec, StoreSpec, Store!Spec

-----------------------------------------------------------------------------
(***************************************************************************)
(* Handles that do not cooperate: threads of one process, files that come  *)
(* and go, coarse clocks, crashes at any point.  What the resolver still   *)
(* keeps rests on the temporary files, which nobody shares, and on what is *)
(* open at which step.                                                     *)
(***************************************************************************)

\* A temporary file is neither visible nor the one of another handle, and is
\* written completely before its rename().
Temporary ==
    \A h \in Handles :
        /\ tmp[h] \in Inodes =>
              /\ tmp[h] # file
              /\ \A g \in Handles : g # h => tmp[h] # tmp[g]
        /\ pc[h] \in {"commit", "rename"} => complete[tmp[h]]

\* The storage plugin of h writes to an inode i that is its own.
OwnTemp(h, i) ==
    /\ i # file
    /\ \A g \in Handles : g # h => i # tmp[g]
    /\ tmp' = [tmp EXCEPT ![h] = i]
    /\ data' = [data EXCEPT ![i] = EmptyKs]
    /\ complete' = [complete EXCEPT ![i] = FALSE]

\* The temporary file is a new one, or left from a rename() that failed.
LEMMA TempIsOwn ==
    ASSUME TypeOK, Temporary, NEW h \in Handles, WriteTemp(h)
    PROVE  \E i \in Inodes : OwnTemp(h, i)
<1> DEFINE i == IF tmp[h] = NoInode THEN FreshInode(Used) ELSE tmp[h]
<1>1. i \in Inodes /\ i # file /\ \A g \in Handles : g # h => i # tmp[g]
    <2>1. CASE tmp[h] = NoInode
        <3>1. FreshInode(Used) \in Inodes /\ FreshInode(Used) \notin Used
            BY <2>1, FreshIsNew DEF WriteTemp, Available
        <3> QED
            BY <2>1, <3>1 DEF Used
    <2>2. CASE tmp[h] # NoInode
        BY <2>2 DEF TypeOK, Temporary
    <2> QED
        BY <2>1, <2>2
<1>2. /\ tmp' = [tmp EXCEPT ![h] = i]
      /\ data' = [data EXCEPT ![i] = EmptyKs]
      /\ complete' = [complete EXCEPT ![i] = FALSE]
    BY DEF WriteTemp
<1> HIDE DEF i
<1> QED
    BY <1>1, <1>2 DEF OwnTemp

\* No step writes to a temporary file of another handle or to the visible file.
LEMMA TemporaryStep ==
    ASSUME TypeOK, Holds, Temporary, VisibleIsComplete, [Next]_vars
    PROVE  Temporary' /\ VisibleIsComplete'
<1> USE DEF TypeOK, PosixTypeOK, Holds, Temporary, VisibleIsComplete
<1>1. ASSUME NEW h \in Handles, kdbGet(h) \/ SetBegin(h) \/ SetBeginEmpty(h)
      PROVE  Temporary' /\ VisibleIsComplete'
    BY <1>1 DEF kdbGet, GetMissing, GetUnchanged, GetChanged, Read, SetBegin, SetBeginEmpty
<1>2. ASSUME NEW h \in Handles, SetStep(h) PROVE Temporary' /\ VisibleIsComplete'
    <2>1. ASSUME Created(h)
          PROVE  /\ file' \in Inodes /\ complete'[file']
                 /\ \A g \in Handles : tmp[g] # file'
                 /\ \A i \in Inodes : complete[i] => complete'[i]
        BY <2>1, FreshIsNew DEF Created, Available, Used
    <2>2. CASE Open(h) \/ Mkdir(h)
        BY <2>2 DEF Open, Mkdir
    <2>3. CASE OpenExclusive(h)
        BY <2>1, <2>3 DEF OpenExclusive
    <2>4. CASE Create(h)
        BY <2>1, <2>4 DEF Create
    <2>5. CASE LockMutex(h) \/ LockFile(h) \/ CheckConflict(h)
        BY <2>5 DEF LockMutex, LockFile, CheckConflict
    <2>6. CASE WriteTemp(h)
        <3>1. PICK i \in Inodes : OwnTemp(h, i)
            BY <2>6, TempIsOwn
        <3> QED
            BY <2>6, <3>1 DEF WriteTemp, OwnTemp
    <2>7. CASE FlushTemp(h) \/ StoreFail(h)
        BY <2>7 DEF FlushTemp, StoreFail
    <2>8. CASE OpenTemp(h) \/ Rename(h) \/ RenameFail(h)
        BY <2>8 DEF OpenTemp, Rename, RenameFail
    <2>9. CASE Stamp(h) \/ StampOld(h) \/ UnlockOld(h) \/ UnlockNew(h) \/ Remove(h)
        BY <2>9 DEF Stamp, StampOld, UnlockOld, UnlockNew, Remove
    <2>10. CASE Rollback(h) \/ RollbackUnlock(h) \/ RollbackUnlink(h)
        BY <2>10 DEF Rollback, RollbackUnlock, RollbackUnlink
    <2> QED
        BY <1>2, <2>2, <2>3, <2>4, <2>5, <2>6, <2>7, <2>8, <2>9, <2>10 DEF SetStep
<1>3. ASSUME NEW p \in Procs, Crash(p) PROVE Temporary' /\ VisibleIsComplete'
    BY <1>3 DEF Crash
<1>4. CASE UNCHANGED vars
    BY <1>4 DEF vars
<1> QED
    BY <1>1, <1>2, <1>3, <1>4 DEF Next

\* Readers never find a half-written file (elektraSetCommit renames), whatever
\* else happens: threads, crashes at any point, failing renames, removals and
\* coarse clocks.
THEOREM ReadersSeeCompleteFiles == Spec => []VisibleIsComplete
<1> DEFINE Inv == TypeOK /\ Holds /\ Temporary /\ VisibleIsComplete
<1>1. Init => Inv
    BY InitType DEF Init, Holds, Temporary, VisibleIsComplete, TypeOK, PosixTypeOK
<1>2. Inv /\ [Next]_vars => Inv'
    BY NextType, TemporaryStep
<1> QED
    BY <1>1, <1>2, PTL DEF Spec

\* What is open at which step, as long as rename() works.
Closing ==
    \A h \in Handles :
        /\ pc[h] \in {"idle", "read", "open", "mkdir", "create", "unlocknew", "unlink"} =>
              pkfd[h] = NoFd
        /\ pc[h] = "remove" => pkfd[h] = RemovalFd
        /\ pkfd[h] = RemovalFd => pc[h] \in {"remove", "rollback"} /\ tmp[h] = NoInode
        /\ pc[h] \notin {"flush", "commit", "rename", "rollback"} => tmp[h] = NoInode
        /\ pc[h] \notin {"rename", "stamp", "stampold", "unlockold", "unlocknew"} =>
              fd[h] = NoFd

\* The steps of a kdbSet() close in the end what they opened.
LEMMA ClosingStep ==
    ASSUME ~RenameFails, TypeOK, Holds, Closing, [Next]_vars
    PROVE  Closing'
<1> USE DEF TypeOK, PosixTypeOK, Holds, Closing
<1>1. ASSUME NEW h \in Handles, kdbGet(h) \/ SetBegin(h) \/ SetBeginEmpty(h)
      PROVE  Closing'
    <2>1. CASE kdbGet(h) \/ SetBegin(h)
        BY <2>1 DEF kdbGet, GetMissing, GetUnchanged, GetChanged, Read, SetBegin
    <2>2. CASE SetBeginEmpty(h)
        BY <2>2 DEF SetBeginEmpty
    <2> QED
        BY <1>1, <2>1, <2>2
<1>2. ASSUME NEW h \in Handles, SetStep(h) PROVE Closing'
    <2>1. ASSUME Created(h) PROVE \E i \in Inodes : pkfd' = [pkfd EXCEPT ![h] = i]
        BY <2>1, FreshIsNew DEF Created, Available
    <2>2. CASE Open(h) \/ Mkdir(h)
        BY <2>2 DEF Open, Mkdir
    <2>3. CASE OpenExclusive(h)
        BY <2>1, <2>3 DEF OpenExclusive
    <2>4. CASE Create(h)
        BY <2>1, <2>4 DEF Create
    <2>5. CASE LockMutex(h) \/ LockFile(h) \/ CheckConflict(h)
        BY <2>5 DEF LockMutex, LockFile, CheckConflict
    <2>6. CASE WriteTemp(h)
        BY <2>6 DEF WriteTemp
    <2>7. CASE FlushTemp(h) \/ StoreFail(h)
        BY <2>7 DEF FlushTemp, StoreFail
    <2>8. CASE OpenTemp(h) \/ Rename(h)
        BY <2>8 DEF OpenTemp, Rename
    <2>9. ~RenameFail(h)
        BY DEF RenameFail
    <2>10. CASE Stamp(h) \/ StampOld(h) \/ UnlockOld(h) \/ UnlockNew(h) \/ Remove(h)
        BY <2>10 DEF Stamp, StampOld, UnlockOld, UnlockNew, Remove
    <2>11. CASE Rollback(h) \/ RollbackUnlock(h) \/ RollbackUnlink(h)
        BY <2>11 DEF Rollback, RollbackUnlock, RollbackUnlink
    <2> QED
        BY <1>2, <2>2, <2>3, <2>4, <2>5, <2>6, <2>7, <2>8, <2>9, <2>10, <2>11 DEF SetStep
<1>3. ASSUME NEW p \in Procs, Crash(p) PROVE Closing'
    BY <1>3 DEF Crash
<1>4. CASE UNCHANGED vars
    BY <1>4 DEF vars
<1> QED
    BY <1>1, <1>2, <1>3, <1>4 DEF Next

\* A lock stays with a process until it closes a descriptor of the file, also
\* when its threads close descriptors of their own.
LEMMA OwnedByProcess ==
    ASSUME ~RenameFails, TypeOK, Holds, Closing, Owned, [Next]_vars
    PROVE  Owned'
<1> USE ProcOfType DEF TypeOK, PosixTypeOK, Holds, Closing, Owned, Released
<1>1. ASSUME NEW h \in Handles, kdbGet(h) \/ SetBegin(h) \/ SetBeginEmpty(h)
      PROVE  Owned'
    BY <1>1 DEF kdbGet, GetMissing, GetUnchanged, GetChanged, Read, SetBegin, SetBeginEmpty
<1>2. ASSUME NEW h \in Handles, SetStep(h) PROVE Owned'
    <2>1. ASSUME Created(h) PROVE \E i \in Inodes : pkfd' = [pkfd EXCEPT ![h] = i]
        BY <2>1, FreshIsNew DEF Created, Available
    <2>2. CASE Open(h) \/ Mkdir(h)
        BY <2>2 DEF Open, Mkdir
    <2>3. CASE OpenExclusive(h)
        BY <2>1, <2>3 DEF OpenExclusive
    <2>4. CASE Create(h)
        BY <2>1, <2>4 DEF Create
    <2>5. CASE LockMutex(h) \/ LockFile(h) \/ CheckConflict(h)
        BY <2>5 DEF LockMutex, LockFile, CheckConflict
    <2>6. CASE WriteTemp(h) \/ FlushTemp(h) \/ StoreFail(h)
        BY <2>6 DEF WriteTemp, FlushTemp, StoreFail
    <2>7. CASE OpenTemp(h)
        BY <2>7 DEF OpenTemp
    <2>8. CASE Rename(h) \/ Stamp(h) \/ StampOld(h) \/ Remove(h)
        BY <2>8 DEF Rename, Stamp, StampOld, Remove
    <2>9. ~RenameFail(h)
        BY DEF RenameFail
    <2>10. CASE UnlockOld(h) \/ UnlockNew(h)
        BY <2>10 DEF UnlockOld, UnlockNew
    <2>11. CASE Rollback(h) \/ RollbackUnlock(h) \/ RollbackUnlink(h)
        BY <2>11 DEF Rollback, RollbackUnlock, RollbackUnlink
    <2> QED
        BY <1>2, <2>2, <2>3, <2>4, <2>5, <2>6, <2>7, <2>8, <2>9, <2>10, <2>11 DEF SetStep
<1>3. ASSUME NEW p \in Procs, Crash(p) PROVE Owned'
    BY <1>3 DEF Crash, ReleasedAll
<1>4. CASE UNCHANGED vars
    BY <1>4 DEF vars
<1> QED
    BY <1>1, <1>2, <1>3, <1>4 DEF Next

\* A thread that does not get the mutex leaves it to the one that has it.
LEMMA SerialInProcess ==
    ASSUME ~RenameFails, TypeOK, Holds, Closing, Serial, [Next]_vars
    PROVE  Serial'
<1> USE ProcOfType DEF TypeOK, PosixTypeOK, Holds, Closing, Serial
<1>1. ASSUME NEW h \in Handles, kdbGet(h) \/ SetBegin(h) \/ SetBeginEmpty(h)
      PROVE  Serial'
    BY <1>1 DEF kdbGet, GetMissing, GetUnchanged, GetChanged, Read, SetBegin, SetBeginEmpty
<1>2. ASSUME NEW h \in Handles, SetStep(h) PROVE Serial'
    <2>1. ASSUME Created(h) PROVE \E i \in Inodes : pkfd' = [pkfd EXCEPT ![h] = i]
        BY <2>1, FreshIsNew DEF Created, Available
    <2>2. CASE Open(h) \/ Mkdir(h)
        BY <2>2 DEF Open, Mkdir
    <2>3. CASE OpenExclusive(h)
        BY <2>1, <2>3 DEF OpenExclusive
    <2>4. CASE Create(h)
        BY <2>1, <2>4 DEF Create
    <2>5. CASE LockMutex(h) \/ LockFile(h) \/ CheckConflict(h)
        BY <2>5 DEF LockMutex, LockFile, CheckConflict
    <2>6. CASE WriteTemp(h) \/ FlushTemp(h) \/ StoreFail(h)
        BY <2>6 DEF WriteTemp, FlushTemp, StoreFail
    <2>7. CASE OpenTemp(h) \/ Rename(h)
        BY <2>7 DEF OpenTemp, Rename
    <2>8. CASE Stamp(h) \/ StampOld(h) \/ Remove(h)
        BY <2>8 DEF Stamp, StampOld, Remove
    <2>9. ~RenameFail(h)
        BY DEF RenameFail
    <2>10. CASE UnlockOld(h) \/ UnlockNew(h)
        BY <2>10 DEF UnlockOld, UnlockNew
    <2>11. CASE Rollback(h) \/ RollbackUnlock(h) \/ RollbackUnlink(h)
        BY <2>11 DEF Rollback, RollbackUnlock, RollbackUnlink
    <2> QED
        BY <1>2, <2>2, <2>3, <2>4, <2>5, <2>6, <2>7, <2>8, <2>9, <2>10, <2>11 DEF SetStep
<1>3. ASSUME NEW p \in Procs, Crash(p) PROVE Serial'
    BY <1>3 DEF Crash
<1>4. CASE UNCHANGED vars
    BY <1>4 DEF vars
<1> QED
    BY <1>1, <1>2, <1>3, <1>4 DEF Next

\* No path through kdbSet() leaves a lock, a mutex, a descriptor or a temporary
\* file behind, unless a rename() fails: not the error paths, not a removal, not
\* a crash, and not the threads of a process that get in each other's way.
THEOREM EverythingIsReleased ==
    ASSUME ~RenameFails
    PROVE  Spec => []ReturnReleasesEverything
<1> DEFINE Inv == TypeOK /\ Holds /\ Closing /\ Owned /\ Serial
<1>1. Init => Inv
    BY InitType DEF Init, resolverInit, Holds, Closing, Owned, Serial
<1>2. Inv /\ [Next]_vars => Inv'
    BY NextType, ClosingStep, OwnedByProcess, SerialInProcess
<1>3. ASSUME Inv, NEW p \in Procs, \A h \in Handles : ProcOf[h] = p => pc[h] = "idle"
      PROVE  /\ mutex[p] = NoHandle
             /\ \A i \in Inodes : lock[i] # p
             /\ \A h \in Handles : ProcOf[h] = p =>
                   pkfd[h] = NoFd /\ fd[h] = NoFd /\ tmp[h] = NoInode
    <2>1. \A h \in Handles : ProcOf[h] = p =>
              pkfd[h] = NoFd /\ fd[h] = NoFd /\ tmp[h] = NoInode
        BY <1>3 DEF Closing
    <2>2. mutex[p] = NoHandle
        BY <1>3 DEF Serial, TypeOK
    <2>3. ASSUME NEW i \in Inodes PROVE lock[i] # p
        BY <1>3, <2>1, ProcsAssumption DEF Owned
    <2> QED
        BY <2>1, <2>2, <2>3
<1>4. Inv => ReturnReleasesEverything
    BY <1>3 DEF ReturnReleasesEverything
<1> QED
    BY <1>1, <1>2, <1>4, PTL DEF Spec

\* The file is there from the start and stays there, so that no kdbSet() has to
\* remove what it created; a kdbSet() with an error goes to the rollback.
Staying ==
    /\ file \in Inodes
    /\ \A h \in Handles :
          /\ ~isMissing[h] /\ ~removalNeeded[h]
          /\ pc[h] \notin {"mkdir", "create", "remove"}
          /\ failed[h] => pc[h] \in {"write", "flush", "rollback", "unlock", "unlink"}

\* Without removals the file stays, and after an error only the temporary file
\* of the handle changes.
LEMMA StayingStep ==
    ASSUME ~Empties, TypeOK, Holds, Temporary, Staying, [Next]_vars
    PROVE  /\ Staying'
           /\ \A h \in Handles : (failed[h] /\ pc'[h] # pc[h]) => Visible' = Visible
<1> USE DEF TypeOK, PosixTypeOK, Holds, Temporary, Staying, Visible
<1> DEFINE Kept == \A h \in Handles : (failed[h] /\ pc'[h] # pc[h]) => Visible' = Visible
<1>1. ASSUME NEW h \in Handles, kdbGet(h) \/ SetBegin(h) \/ SetBeginEmpty(h)
      PROVE  Staying' /\ Kept
    BY <1>1 DEF kdbGet, GetMissing, GetUnchanged, GetChanged, Read, SetBegin, SetBeginEmpty
<1>2. ASSUME NEW h \in Handles, SetStep(h) PROVE Staying' /\ Kept
    <2>1. ~OpenExclusive(h) /\ ~Mkdir(h) /\ ~Create(h) /\ ~Remove(h)
        BY DEF OpenExclusive, Mkdir, Create, Remove
    <2>2. CASE Open(h)
        BY <2>2 DEF Open
    <2>3. CASE LockMutex(h) \/ LockFile(h) \/ CheckConflict(h)
        BY <2>3 DEF LockMutex, LockFile, CheckConflict
    <2>4. CASE WriteTemp(h)
        <3>1. PICK i \in Inodes : OwnTemp(h, i)
            BY <2>4, TempIsOwn
        <3> QED
            BY <2>4, <3>1 DEF WriteTemp, OwnTemp
    <2>5. CASE FlushTemp(h) \/ StoreFail(h)
        BY <2>5 DEF FlushTemp, StoreFail
    <2>6. CASE OpenTemp(h) \/ Rename(h) \/ RenameFail(h)
        BY <2>6 DEF OpenTemp, Rename, RenameFail
    <2>7. CASE Stamp(h) \/ StampOld(h) \/ UnlockOld(h) \/ UnlockNew(h)
        BY <2>7 DEF Stamp, StampOld, UnlockOld, UnlockNew
    <2>8. CASE Rollback(h) \/ RollbackUnlock(h) \/ RollbackUnlink(h)
        BY <2>8 DEF Rollback, RollbackUnlock, RollbackUnlink
    <2> QED
        BY <1>2, <2>1, <2>2, <2>3, <2>4, <2>5, <2>6, <2>7, <2>8 DEF SetStep
<1>3. ASSUME NEW p \in Procs, Crash(p) PROVE Staying' /\ Kept
    BY <1>3 DEF Crash
<1>4. CASE UNCHANGED vars
    BY <1>4 DEF vars
<1> QED
    BY <1>1, <1>2, <1>3, <1>4 DEF Next

\* A kdbSet() that met an error changes no configuration any more, with threads,
\* coarse clocks, failing renames and crashes at any point.  The file has to be
\* there: a kdbSet() that created it makes it visible before it can fail.
THEOREM FailureChangesNothing ==
    ASSUME Initially \subseteq {"file"}, ~Empties
    PROVE  Spec => FailedSetChangesNothing
<1> DEFINE Inv == TypeOK /\ Holds /\ Temporary /\ VisibleIsComplete /\ Staying
<1>1. Init => Inv
    <2> SUFFICES ASSUME Init PROVE Inv
        OBVIOUS
    <2>1. TypeOK /\ Holds
        BY InitType DEF Init, Holds
    <2>2. file \in Inodes
        BY FreshIsNew, HandlesAssumption DEF Init
    <2> QED
        BY <2>1, <2>2 DEF Init, resolverInit, Temporary, VisibleIsComplete, Staying
<1>2. Inv /\ [Next]_vars => Inv'
    BY NextType, TemporaryStep, StayingStep
<1>3. Inv /\ [Next]_vars =>
          [\A h \in Handles :
              (failed[h] /\ pc'[h] # pc[h]) => Visible' = Visible]_vars
    BY StayingStep
<1> QED
    BY <1>1, <1>2, <1>3, PTL DEF Spec, FailedSetChangesNothing

-----------------------------------------------------------------------------
(***************************************************************************)
(* A handle that is alone.  This argument is independent of the one above: *)
(* it allows a coarse clock, a missing file, crashes and failing renames.  *)
(***************************************************************************)

\* Nothing has failed, and nobody else has locked anything.
Undisturbed(h) ==
    /\ ~failed[h]
    /\ pc[h] \notin {"remove", "rollback", "unlock", "unlink"}
    /\ pc[h] \in {"idle", "read", "open", "mkdir", "create", "mutex"} =>
          mutex[ProcOf[h]] = NoHandle
    /\ \A i \in Inodes : lock[i] \in {NoProc, ProcOf[h]}

\* The temporary file and the two descriptors of a kdbSet().
OwnFiles(h) ==
    /\ tmp[h] \in Inodes => tmp[h] # file /\ tmp[h] # pkfd[h]
    /\ pc[h] \in {"mutex", "flock", "check", "write", "flush", "commit", "rename"} =>
          pkfd[h] = file
    /\ pc[h] = "rename" => fd[h] = tmp[h]
    /\ pc[h] \in {"stamp", "stampold"} =>
          (fd[h] = file /\ pkfd[h] # file) \/ (fd[h] # file /\ pkfd[h] = file)

\* The handle knows what there is: that the file is missing, or its stamp.
UpToDate(h) ==
    /\ pc[h] \in {"idle", "read", "open", "mkdir", "create"} /\ isMissing[h] => file = NoInode
    /\ pc[h] \in {"mkdir", "create"} => isMissing[h]
    /\ pc[h] \notin {"stamp", "stampold", "unlockold", "unlocknew"} /\ ~isMissing[h]
          /\ mtime[h] # 0 => file # NoInode /\ stamp[file] = mtime[h]
    /\ pc[h] = "stampold" /\ fd[h] = file => stamp[file] = mtime[h]
    /\ pc[h] \in {"unlockold", "unlocknew"} =>
          file # NoInode /\ stamp[file] = mtime[h] /\ ~isMissing[h]
    /\ pc[h] \in {"open", "mutex", "flock", "check", "write", "flush", "commit", "rename"} =>
          isMissing[h] \/ mtime[h] # 0

AloneAt(h) == Undisturbed(h) /\ OwnFiles(h) /\ UpToDate(h)

\* A kdbGet() and the beginning of a kdbSet().
LEMMA AloneGets ==
    ASSUME TypeOK, Holds, NEW h \in Handles, AloneAt(h), kdbGet(h) \/ SetBegin(h)
    PROVE  AloneAt(h)'
<1> USE DEF TypeOK, PosixTypeOK, Holds, AloneAt, Undisturbed, OwnFiles, UpToDate
<1>1. CASE GetMissing(h)
    BY <1>1 DEF GetMissing
<1>2. CASE GetUnchanged(h)
    BY <1>2 DEF GetUnchanged
<1>3. CASE GetChanged(h)
    BY <1>3 DEF GetChanged
<1>4. CASE Read(h)
    BY <1>4, ProcOfType DEF Read, Released
<1>5. CASE SetBegin(h)
    BY <1>5 DEF SetBegin, Got
<1> QED
    BY <1>1, <1>2, <1>3, <1>4, <1>5 DEF kdbGet

\* The prepare functions find the file as the handle knows it, or still none.
LEMMA AlonePrepares ==
    ASSUME TypeOK, Holds, NEW h \in Handles, AloneAt(h),
           \/ Open(h) \/ OpenExclusive(h) \/ Mkdir(h) \/ Create(h)
           \/ LockMutex(h) \/ LockFile(h) \/ CheckConflict(h)
    PROVE  AloneAt(h)'
<1> USE DEF TypeOK, PosixTypeOK, Holds, AloneAt, Undisturbed, OwnFiles, UpToDate
<1>1. CASE Open(h)
    BY <1>1 DEF Open
<1>2. ASSUME Created(h), file = NoInode, isMissing[h], UNCHANGED <<tmp, isMissing, mtime>>
      PROVE  /\ file' \in Inodes /\ pkfd'[h] = file'
             /\ tmp[h] \in Inodes => tmp[h] # file'
    BY <1>2, FreshIsNew DEF Created, Available, Used
<1>3. CASE OpenExclusive(h)
    BY <1>2, <1>3 DEF OpenExclusive
<1>4. CASE Mkdir(h)
    BY <1>4 DEF Mkdir
<1>5. CASE Create(h)
    BY <1>2, <1>5 DEF Create
<1>6. CASE LockMutex(h)
    BY <1>6 DEF LockMutex
<1>7. CASE LockFile(h)
    BY <1>7, ProcOfType DEF LockFile, CanLock
<1>8. CASE CheckConflict(h)
    BY <1>8 DEF CheckConflict, Unmodified
<1> QED
    BY <1>1, <1>3, <1>4, <1>5, <1>6, <1>7, <1>8

\* The storage plugin writes a file of its own, and the commit leaves the handle
\* with the stamp of the visible file, whether the rename() succeeds or not.
LEMMA AloneCommits ==
    ASSUME TypeOK, Holds, NEW h \in Handles, AloneAt(h),
           \/ WriteTemp(h) \/ FlushTemp(h) \/ OpenTemp(h) \/ Rename(h) \/ RenameFail(h)
           \/ Stamp(h) \/ StampOld(h) \/ UnlockOld(h) \/ UnlockNew(h)
    PROVE  AloneAt(h)'
<1> USE DEF TypeOK, PosixTypeOK, Holds, AloneAt, Undisturbed, OwnFiles, UpToDate
<1>1. CASE WriteTemp(h)
    BY <1>1, FreshIsNew DEF WriteTemp, Available, Used
<1>2. CASE FlushTemp(h)
    BY <1>2 DEF FlushTemp
<1>3. CASE OpenTemp(h)
    BY <1>3, ProcOfType DEF OpenTemp
<1>4. CASE Rename(h) \/ RenameFail(h)
    BY <1>4 DEF Rename, RenameFail
<1>5. CASE Stamp(h)
    BY <1>5 DEF Stamp, ModifyFileTime
<1>6. CASE StampOld(h)
    BY <1>6 DEF StampOld
<1>7. CASE UnlockOld(h)
    BY <1>7, ProcOfType DEF UnlockOld, Released
<1>8. CASE UnlockNew(h)
    BY <1>8, ProcOfType DEF UnlockNew, Released
<1> QED
    BY <1>1, <1>2, <1>3, <1>4, <1>5, <1>6, <1>7, <1>8

\* The process dies: the handle forgets everything.
LEMMA AloneDies ==
    ASSUME TypeOK, Holds, NEW h \in Handles, Handles = {h}, AloneAt(h),
           NEW p \in Procs, Crash(p)
    PROVE  AloneAt(h)'
BY DEF TypeOK, PosixTypeOK, AloneAt, Undisturbed, OwnFiles, UpToDate, Crash, ReleasedAll

\* A handle that is alone never meets a conflict, as long as it removes no file
\* and the storage plugins work.
THEOREM AloneNeverConflicts ==
    ASSUME ~Empties, ~StoreFails
    PROVE  Spec => []AloneMeansNoConflict
<1> DEFINE Alone == \A h \in Handles : Handles = {h} => AloneAt(h)
           Inv == TypeOK /\ Holds /\ Alone
<1>1. Init => Inv
    <2> SUFFICES ASSUME Init PROVE Inv
        OBVIOUS
    <2>1. TypeOK /\ Holds
        BY InitType DEF Init, Holds
    <2>2. Alone
        BY ProcOfType DEF Init, resolverInit, AloneAt, Undisturbed, OwnFiles, UpToDate
    <2> QED
        BY <2>1, <2>2
<1>2. Inv /\ [Next]_vars => Inv'
    <2> SUFFICES ASSUME Inv, [Next]_vars PROVE Inv'
        OBVIOUS
    <2>1. TypeOK' /\ Holds'
        BY NextType
    <2>2. ASSUME NEW h \in Handles, Handles = {h} PROVE AloneAt(h)'
        <3>1. AloneAt(h)
            BY <2>2
        <3>2. CASE UNCHANGED vars
            BY <3>1, <3>2 DEF vars, AloneAt, Undisturbed, OwnFiles, UpToDate
        <3>3. CASE kdbGet(h) \/ SetBegin(h)
            BY <3>1, <3>3, AloneGets
        <3>4. ~SetBeginEmpty(h)
            BY DEF SetBeginEmpty
        <3>5. CASE SetStep(h)
            <4>1. ~StoreFail(h) /\ ~Remove(h) /\ ~Rollback(h) /\ ~RollbackUnlock(h)
                     /\ ~RollbackUnlink(h)
                BY <3>1 DEF StoreFail, Remove, Rollback, RollbackUnlock, RollbackUnlink,
                   AloneAt, Undisturbed
            <4> QED
                BY <3>1, <3>5, <4>1, AlonePrepares, AloneCommits DEF SetStep
        <3>6. ASSUME NEW p \in Procs, Crash(p) PROVE AloneAt(h)'
            BY <2>2, <3>1, <3>6, AloneDies
        <3> QED
            BY <2>2, <3>2, <3>3, <3>4, <3>5, <3>6 DEF Next
    <2> QED
        BY <2>1, <2>2
<1>3. Inv => AloneMeansNoConflict
    BY DEF AloneMeansNoConflict, AloneAt, Undisturbed
<1> QED
    BY <1>1, <1>2, <1>3, PTL DEF Spec

=============================================================================
