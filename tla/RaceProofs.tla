----------------------------- MODULE RaceProofs -----------------------------
(***************************************************************************)
(* The race test (src/tools/race/race.c) has one winner, however many      *)
(* processes race.                                                         *)
(*                                                                         *)
(* No writer stores before all have retrieved the configuration, so all of *)
(* them know the stamp of the same file.  The first rename() gives the     *)
(* visible file a stamp that none of the others knows or will learn: they  *)
(* do not retrieve it again.  And a writer fails only because another one  *)
(* has the lock, and is going to win, or because it has already won.       *)
(***************************************************************************)
EXTENDS Race, ResolverProofs

USE Closed DEF Goto, At, Fail, Return, CloseFd, UnlockMutex, posixVars, nodeVars,
    appVars, pkVars, known

\* The race of processes on an existing file, where no storage plugin fails.
Fair == Cooperative /\ ~StoreFails /\ {} \notin Teams

-----------------------------------------------------------------------------
(* The parts of the invariant *)

\* The writer has replaced the file.
Renamed(h) == pc[h] \in {"stamp", "stampold", "unlockold", "unlocknew"} \/ won[h] # 0

\* The writer has the lock of the file and will replace it.
Holder(h) == pc[h] \in {"check", "write", "flush", "commit", "rename"} /\ pkfd[h] \in Inodes

\* The writer has not failed yet.
Trying(h) ==
    /\ pc[h] \in {"open", "mutex", "flock", "check", "write", "flush", "commit", "rename"}
    /\ ~failed[h]

\* Handles that do not race do nothing.
Outside == team \in Teams /\ \A h \in Handles \ team : pc[h] = "idle"

\* A kdbSet() stores the key of its writer.
Begun ==
    \A h \in team :
        /\ pc[h] \notin {"idle", "read"} => seq[h] # 0 /\ ks[h][h] # 0
        /\ won[h] # 0 => seq[h] # 0

\* No kdbSet() begins before every writer has retrieved the configuration.
Barrier ==
    \A g, h \in team : seq[g] # 0 => mtime[h] # 0 /\ (seq[h] = 0 => pc[h] = "idle")

\* Who passed the conflict check knows the stamp of the visible file.
Matching == \A h \in Handles : Checked(h) => mtime[h] = stamp[file]

\* Once a writer has replaced the file, no other knows its stamp.
Single ==
    \A g, h \in team : Renamed(g) /\ g # h => ~Renamed(h) /\ mtime[h] # stamp[file]

\* Until then all of them know it, and have no other file open.
Untouched ==
    (\A g \in team : ~Renamed(g)) =>
        \A h \in team : mtime[h] \in {0, stamp[file]} /\ pkfd[h] \in {NoFd, file}

\* A writer that failed has closed the file; one that waits has no lock.
Yields ==
    \A h \in Handles :
        /\ failed[h] => pkfd[h] = NoFd
        /\ pc[h] \in {"rollback", "unlock", "unlink"} => failed[h]
        /\ pc[h] \in {"idle", "read", "open", "mutex", "flock", "check", "stamp", "stampold",
                     "unlockold", "unlocknew"} => ~failed[h]
        /\ pc[h] \in {"mutex", "flock"} => \A i \in Inodes : lock[i] # ProcOf[h]

\* Nobody fails unless somebody else wins.
Contest ==
    \A h \in team :
        seq[h] = 0 \/ Trying(h) \/ \E g \in team : Renamed(g) \/ Holder(g)

RaceInv ==
    Outside /\ Begun /\ Barrier /\ Matching /\ Single /\ Untouched /\ Yields /\ Contest

-----------------------------------------------------------------------------
(* The steps of a writer *)

\* The steps of a kdbSet() that has begun, on a file that is there.
Sets(h) ==
    \/ Open(h) \/ LockMutex(h) \/ LockFile(h) \/ CheckConflict(h)
    \/ WriteTemp(h) \/ FlushTemp(h) \/ OpenTemp(h) \/ Rename(h) \/ Stamp(h)
    \/ StampOld(h) \/ UnlockOld(h) \/ UnlockNew(h)
    \/ Rollback(h) \/ RollbackUnlock(h) \/ RollbackUnlink(h)

\* The handles retrieve the configuration before the barrier or after winning,
\* and store it once.
Races(h) ==
    \/ (GetUnchanged(h) \/ GetChanged(h)) /\ (mtime[h] = 0 \/ won[h] # 0)
    \/ Read(h)
    \/ SetBegin(h) /\ seq[h] = 0 /\ \A g \in team : seq[g] = 1 \/ (mtime[g] # 0 /\ pc[g] = "idle")
    \/ Sets(h)

\* A writer of race.c takes no other steps.
LEMMA WriterRaces ==
    ASSUME Fair, Settled, Outside, NEW h \in team, writer(h)
    PROVE  h \in Handles /\ Step(h) /\ Races(h) /\ Next
<1>1. h \in Handles /\ team \subseteq Handles
    BY TeamsAssumption DEF Outside
<1>2. /\ ~isMissing[h] /\ file # NoInode /\ ~StoreFails /\ ~RenameFails
      /\ \A g \in team : ~isMissing[g]
      /\ pc[h] \notin {"mkdir", "create", "remove"}
    BY <1>1 DEF Fair, Cooperative, Settled
<1>3. CASE FirstGet(h) \/ SecondGet(h) \/ Read(h)
    BY <1>1, <1>2, <1>3 DEF FirstGet, SecondGet, kdbGet, GetMissing, Got, Races, Step, Next
<1>4. CASE (\A g \in team : AtBarrier(g)) /\ seq[h] = 0 /\ SetBegin(h)
    BY <1>1, <1>2, <1>4 DEF AtBarrier, Got, Races, Step, Next
<1>5. CASE SetStep(h)
    <2>1. Sets(h)
        BY <1>2, <1>5 DEF SetStep, Sets, OpenExclusive, Mkdir, Create, StoreFail, RenameFail, Remove
    <2> QED
        BY <1>1, <1>5, <2>1 DEF Sets, Races, Step, Next
<1> QED
    BY <1>3, <1>4, <1>5 DEF writer

\* The visible file and its stamp change with a rename() only.
LEMMA OnlyRenameRestamps ==
    ASSUME Cooperative, IInv, NEW h \in Handles, Step(h), ~Rename(h)
    PROVE  file' = file /\ stamp'[file] = stamp[file]
<1> USE DEF IInv, FileInv, Settled, TypeOK, PosixTypeOK, Holds
<1>1. CASE WriteTemp(h)
    <2>1. PICK i \in Inodes : NewTemp(h, i)
        BY <1>1, TempIsNew
    <2> QED
        BY <1>1, <2>1 DEF WriteTemp, NewTemp
<1>2. CASE FlushTemp(h)
    BY <1>2 DEF FlushTemp, Private
<1>3. CASE Stamp(h)
    BY <1>3 DEF Stamp, NewStamps
<1>4. CASE StampOld(h)
    BY <1>4 DEF StampOld, Replaced
<1>5. CASE ~WriteTemp(h) /\ ~FlushTemp(h) /\ ~Stamp(h) /\ ~StampOld(h)
    BY <1>5 DEF Step, GetUnchanged, GetChanged, Read, SetBegin, Open, LockMutex,
       LockFile, CheckConflict, StoreFail, OpenTemp, UnlockOld,
       UnlockNew, Rollback, RollbackUnlock, RollbackUnlink
<1> QED
    BY <1>1, <1>2, <1>3, <1>4, <1>5

\* A handle learns the stamp of the visible file, and no other.
LEMMA LearnsVisible ==
    ASSUME Cooperative, IInv, NEW h \in Handles, Step(h)
    PROVE  /\ \A g \in Handles \ {h} : mtime'[g] = mtime[g]
           /\ mtime'[h] = mtime[h] \/ mtime'[h] = stamp[file]
           /\ mtime'[h] = mtime[h] \/ GetChanged(h) \/ Stamp(h)
<1> USE DEF IInv, FileInv, Settled, TypeOK, PosixTypeOK, Holds
<1>1. CASE GetChanged(h)
    BY <1>1 DEF GetChanged
<1>2. CASE Stamp(h)
    BY <1>2 DEF Stamp, NewStamps, Replaced
<1>3. CASE ~GetChanged(h) /\ ~Stamp(h)
    BY <1>3 DEF Step, GetUnchanged, Read, SetBegin, Open, LockMutex,
       LockFile, CheckConflict, StoreFail, WriteTemp, FlushTemp, OpenTemp, Rename, StampOld,
       UnlockOld, UnlockNew, Rollback, RollbackUnlock, RollbackUnlink
<1> QED
    BY <1>1, <1>2, <1>3

\* What belongs to the other handles.
LEMMA OthersKeep ==
    ASSUME TypeOK, NEW h \in Handles, Step(h), NEW g \in Handles, g # h
    PROVE  /\ pc'[g] = pc[g] /\ pkfd'[g] = pkfd[g] /\ failed'[g] = failed[g]
           /\ won'[g] = won[g] /\ seq'[g] = seq[g] /\ ks'[g] = ks[g]
<1> USE DEF TypeOK
<1>1. CASE GetUnchanged(h) \/ GetChanged(h) \/ Read(h) \/ SetBegin(h)
    BY <1>1 DEF GetUnchanged, GetChanged, Read, SetBegin
<1>2. CASE Open(h) \/ LockMutex(h) \/ LockFile(h) \/ CheckConflict(h)
    BY <1>2 DEF Open, LockMutex, LockFile, CheckConflict
<1>3. CASE WriteTemp(h) \/ FlushTemp(h) \/ StoreFail(h) \/ OpenTemp(h)
    BY <1>3 DEF WriteTemp, FlushTemp, StoreFail, OpenTemp
<1>4. CASE Rename(h) \/ Stamp(h) \/ StampOld(h) \/ UnlockOld(h) \/ UnlockNew(h)
    BY <1>4 DEF Rename, Stamp, StampOld, UnlockOld, UnlockNew
<1>5. CASE Rollback(h) \/ RollbackUnlock(h) \/ RollbackUnlink(h)
    BY <1>5 DEF Rollback, RollbackUnlock, RollbackUnlink
<1> QED
    BY <1>1, <1>2, <1>3, <1>4, <1>5 DEF Step

\* Who has replaced the file has done so for ever.
LEMMA RenamedStays ==
    ASSUME TypeOK, Begun, NEW h \in team, h \in Handles, Step(h), Races(h),
           NEW g \in team, g \in Handles
    PROVE  /\ Renamed(g) => Renamed(g)'
           /\ Rename(h) => Renamed(h)'
           /\ Renamed(g)' => Renamed(g) \/ (Rename(h) /\ g = h)
<1> USE DEF TypeOK, Begun, Renamed
<1>1. ASSUME g # h PROVE Renamed(g)' <=> Renamed(g)
    BY <1>1, OthersKeep
<1>2. Rename(h) => Renamed(h)'
    BY DEF Rename
<1>3. ASSUME Renamed(h), ~Rename(h) PROVE Renamed(h)'
    <2>1. CASE won[h] # 0 /\ ~UnlockNew(h)
        <3>1. won' = won
            BY <1>3, <2>1 DEF Races, Sets, GetUnchanged, GetChanged, Read, SetBegin, Open,
               LockMutex, LockFile, CheckConflict, WriteTemp, FlushTemp, OpenTemp, Stamp,
               StampOld, UnlockOld, Rollback, RollbackUnlock, RollbackUnlink
        <3> QED
            BY <2>1, <3>1
    <2>2. CASE UnlockNew(h)
        BY <2>2 DEF UnlockNew
    <2>3. CASE pc[h] \in {"stamp", "stampold", "unlockold", "unlocknew"} /\ ~UnlockNew(h)
        <3>1. Stamp(h) \/ StampOld(h) \/ UnlockOld(h)
            BY <1>3, <2>3 DEF Races, Sets, GetUnchanged, GetChanged, Read, SetBegin, Open,
               LockMutex, LockFile, CheckConflict, WriteTemp, FlushTemp, OpenTemp,
               Rollback, RollbackUnlock, RollbackUnlink
        <3> QED
            BY <3>1 DEF Stamp, StampOld, UnlockOld
    <2> QED
        BY <1>3, <2>1, <2>2, <2>3
<1>4. ASSUME ~Renamed(h), ~Rename(h) PROVE ~Renamed(h)'
    <2>1. CASE GetUnchanged(h) \/ GetChanged(h) \/ Read(h) \/ SetBegin(h)
        BY <1>4, <2>1 DEF GetUnchanged, GetChanged, Read, SetBegin
    <2>2. CASE Open(h) \/ LockMutex(h) \/ LockFile(h) \/ CheckConflict(h)
        BY <1>4, <2>2 DEF Open, LockMutex, LockFile, CheckConflict
    <2>3. CASE WriteTemp(h) \/ FlushTemp(h) \/ OpenTemp(h)
        BY <1>4, <2>3 DEF WriteTemp, FlushTemp, OpenTemp
    <2>4. CASE Stamp(h) \/ StampOld(h) \/ UnlockOld(h) \/ UnlockNew(h)
        BY <1>4, <2>4 DEF Stamp, StampOld, UnlockOld, UnlockNew
    <2>5. CASE Rollback(h) \/ RollbackUnlock(h) \/ RollbackUnlink(h)
        BY <1>4, <2>5 DEF Rollback, RollbackUnlock, RollbackUnlink
    <2> QED
        BY <1>4, <2>1, <2>2, <2>3, <2>4, <2>5 DEF Races, Sets
<1> HIDE DEF Renamed
<1> QED
    BY <1>1, <1>2, <1>3, <1>4

\* Begun: the barrier lets a writer store its key.
LEMMA BegunStep ==
    ASSUME IInv, Begun, NEW h \in team, h \in Handles, Step(h), Races(h), team \subseteq Handles
    PROVE  /\ pc'[h] \notin {"idle", "read"} => seq'[h] # 0 /\ ks'[h][h] # 0
           /\ won'[h] # 0 => seq'[h] # 0
<1> USE DEF TypeOK, Begun, IInv
<1>1. CASE GetUnchanged(h) \/ GetChanged(h) \/ Read(h)
    BY <1>1 DEF GetUnchanged, GetChanged, Read
<1>2. CASE SetBegin(h) /\ seq[h] = 0
    <2>1. seq'[h] = 1 /\ ks'[h][h] = 1
        BY <1>2 DEF SetBegin, KeySets
    <2> QED
        BY <2>1
<1>3. CASE Sets(h)
    <2>1. /\ pc[h] \notin {"idle", "read"} /\ seq' = seq /\ ks' = ks
        BY <1>3 DEF Sets, Open, LockMutex, LockFile, CheckConflict, WriteTemp, FlushTemp,
           OpenTemp, Rename, Stamp, StampOld, UnlockOld, UnlockNew, Rollback,
           RollbackUnlock, RollbackUnlink
    <2> QED
        BY <2>1
<1> QED
    BY <1>1, <1>2, <1>3 DEF Races

\* Barrier: pthread_barrier_wait() and, after it, no first kdbGet().
LEMMA BarrierStep ==
    ASSUME Fair, IInv, Outside, Begun, Barrier, NEW h \in team, h \in Handles,
           team \subseteq Handles, Step(h), Races(h)
    PROVE  \A g, x \in team : seq'[g] # 0 => mtime'[x] # 0 /\ (seq'[x] = 0 => pc'[x] = "idle")
<1>1. stamp[file] # 0 /\ file \in Inodes
    BY DEF IInv, FileInv, Settled, Clocked, TypeOK, PosixTypeOK
<1>2. \A x \in team : mtime[x] # 0 => mtime'[x] # 0
    BY <1>1, LearnsVisible DEF Fair
<1>3. CASE SetBegin(h) /\ \A g \in team : seq[g] = 1 \/ (mtime[g] # 0 /\ pc[g] = "idle")
    <2>1. \A x \in team : mtime[x] # 0 /\ (seq[x] = 0 => pc[x] = "idle")
        BY <1>3 DEF Barrier
    <2>2. seq'[h] # 0
        BY <1>3 DEF SetBegin, IInv, TypeOK
    <2>3. \A x \in team \ {h} : seq'[x] = seq[x] /\ pc'[x] = pc[x]
        BY OthersKeep DEF IInv
    <2> QED
        BY <1>2, <2>1, <2>2, <2>3
<1>4. CASE \/ (GetUnchanged(h) \/ GetChanged(h)) /\ (mtime[h] = 0 \/ won[h] # 0)
           \/ Read(h) \/ Sets(h)
    <2>1. seq' = seq
        BY <1>4 DEF Sets, GetUnchanged, GetChanged, Read, Open, LockMutex, LockFile,
           CheckConflict, WriteTemp, FlushTemp, StoreFail, OpenTemp, Rename, Stamp, StampOld,
           UnlockOld, UnlockNew, Rollback, RollbackUnlock, RollbackUnlink
    <2> SUFFICES ASSUME NEW g \in team, NEW x \in team, seq[g] # 0
                 PROVE  mtime'[x] # 0 /\ (seq'[x] = 0 => pc'[x] = "idle")
        BY <2>1
    <2>2. mtime[x] # 0 /\ (seq[x] = 0 => pc[x] = "idle")
        BY DEF Barrier
    <2>3. CASE x # h
        BY <1>2, <2>1, <2>2, <2>3, OthersKeep DEF IInv
    <2>4. CASE x = h /\ seq[h] = 0
        <3>1. won[h] = 0 /\ mtime[h] # 0 /\ pc[h] = "idle"
            BY <2>2, <2>4 DEF Begun
        <3> QED
            BY <1>4, <3>1 DEF Sets, Read, Open, LockMutex, LockFile,
               CheckConflict, WriteTemp, FlushTemp, OpenTemp, Rename, Stamp, StampOld,
               UnlockOld, UnlockNew, Rollback, RollbackUnlock, RollbackUnlink
    <2>5. CASE x = h /\ seq[h] # 0
        BY <1>2, <2>1, <2>2, <2>5
    <2> QED
        BY <2>3, <2>4, <2>5
<1> QED
    BY <1>3, <1>4 DEF Races

\* Matching: elektraCheckConflict compares the stamps, and nobody replaces the
\* file of somebody who has passed it.
LEMMA MatchingStep ==
    ASSUME Fair, IInv, IInv', Matching, NEW h \in Handles, Step(h), Races(h)
    PROVE  Matching'
<1>1. /\ ~Rename(h) => file' = file /\ stamp'[file] = stamp[file]
      /\ \A g \in Handles \ {h} : mtime'[g] = mtime[g]
    BY OnlyRenameRestamps, LearnsVisible DEF Fair
<1>2. ASSUME NEW g \in Handles, g # h, Checked(g)' PROVE mtime'[g] = stamp'[file']
    <2>1. Checked(g)
        BY <1>2, OthersKeep DEF Checked, IInv
    <2>2. ~Rename(h)
        <3>1. ASSUME Rename(h) PROVE FALSE
            <4>1. pc[h] = "rename" /\ Checked(h)
                BY <3>1 DEF Rename, Checked, IInv, Holds
            <4>2. pkfd[g] = file /\ pkfd[h] = file
                BY <2>1, <4>1 DEF IInv, FileInv, Current
            <4>3. lock[file] = ProcOf[g] /\ lock[file] = ProcOf[h]
                BY <2>1, <4>1, <4>2 DEF IInv, FileInv, Locked, Checked
            <4> QED
                BY <1>2, <4>3 DEF Fair, Cooperative
        <3> QED
            BY <3>1
    <2> QED
        BY <1>1, <1>2, <2>1, <2>2 DEF Matching
<1>3. ASSUME Checked(h)' PROVE mtime'[h] = stamp'[file']
    <2>1. \/ CheckConflict(h) /\ pkfd' = pkfd
          \/ WriteTemp(h) \/ FlushTemp(h) \/ OpenTemp(h)
        <3> USE DEF Checked, IInv, TypeOK
        <3>1. ~(GetUnchanged(h) \/ GetChanged(h) \/ Read(h) \/ SetBegin(h))
            BY <1>3 DEF GetUnchanged, GetChanged, Read, SetBegin
        <3>2. ~Open(h) /\ ~LockMutex(h) /\ ~LockFile(h)
            BY <1>3 DEF Open, LockMutex, LockFile, FileInv, Settled
        <3>3. ~(Rename(h) \/ Stamp(h) \/ StampOld(h) \/ UnlockOld(h) \/ UnlockNew(h))
            BY <1>3 DEF Rename, Stamp, StampOld, UnlockOld, UnlockNew
        <3>4. ~(Rollback(h) \/ RollbackUnlock(h) \/ RollbackUnlink(h))
            BY <1>3 DEF Rollback, RollbackUnlock, RollbackUnlink
        <3>5. CheckConflict(h) => pkfd' = pkfd
            BY <1>3 DEF CheckConflict
        <3> QED
            BY <3>1, <3>2, <3>3, <3>4, <3>5 DEF Races, Sets
    <2>2. mtime'[h] = mtime[h] /\ ~Rename(h)
        BY <2>1 DEF CheckConflict, WriteTemp, FlushTemp, OpenTemp, Rename
    <2>3. pkfd'[h] = file' /\ file' = file /\ stamp'[file] = stamp[file]
        BY <1>1, <1>3, <2>2 DEF IInv, FileInv, Current
    <2>4. CASE CheckConflict(h) /\ pkfd' = pkfd
        <3>1. Unmodified(h)
            BY <2>4 DEF CheckConflict, IInv, TypeOK, Holds
        <3> QED
            BY <2>2, <2>3, <2>4, <3>1 DEF Unmodified, IInv, FileInv, Settled
    <2>5. CASE WriteTemp(h) \/ FlushTemp(h) \/ OpenTemp(h)
        <3>1. Checked(h)
            BY <1>3, <2>5 DEF Checked, WriteTemp, FlushTemp, OpenTemp
        <3> QED
            BY <2>2, <2>3, <3>1 DEF Matching
    <2> QED
        BY <2>1, <2>4, <2>5
<1> QED
    BY <1>2, <1>3 DEF Matching

\* Single: the stamp of the new file is unknown to all others, who do not
\* retrieve it, so that none of them passes the check.
LEMMA SingleStep ==
    ASSUME Fair, IInv, Begun, Barrier, Matching, Single, NEW h \in team, team \subseteq Handles,
           h \in Handles, Step(h), Races(h), team' = team
    PROVE  Single'
<1>0. TypeOK
    BY DEF IInv
<1>1. CASE Rename(h)
    <2>1. pc[h] = "rename" /\ Checked(h) /\ file' = tmp[h] /\ stamp' = stamp /\ mtime' = mtime
        BY <1>1 DEF Rename, Checked, IInv, Holds
    <2>2. mtime[h] = stamp[file]
        BY <2>1 DEF Matching
    <2>3. \A g \in team : g # h => ~Renamed(g)
        BY <2>2 DEF Single
    <2>4. \A g \in team : mtime'[g] # stamp'[file']
        BY <2>1 DEF IInv, FileInv, NewStamps
    <2>5. \A g \in team : Renamed(g)' => g = h
        BY <1>0, <1>1, <2>3, RenamedStays
    <2> QED
        BY <2>4, <2>5 DEF Single
<1>2. CASE ~Rename(h)
    <2>1. file' = file /\ stamp'[file] = stamp[file]
        BY <1>2, OnlyRenameRestamps DEF Fair
    <2>2. \A g \in team : Renamed(g)' => Renamed(g)
        BY <1>0, <1>2, RenamedStays
    <2>3. ASSUME NEW g \in team, NEW x \in team, Renamed(g), g # x
          PROVE  mtime'[x] = mtime[x]
        <3>1. ~Renamed(x) /\ mtime[x] # 0
            <4>1. seq[g] # 0
                BY <2>3 DEF Renamed, Begun
            <4> QED
                BY <2>3, <4>1 DEF Single, Barrier
        <3>2. CASE x # h
            BY <3>2, LearnsVisible DEF Fair
        <3>3. CASE x = h
            <4>1. ~Stamp(h)
                BY <3>1, <3>3 DEF Renamed, Stamp
            <4>2. ~(GetChanged(h) /\ (mtime[h] = 0 \/ won[h] # 0))
                BY <3>1, <3>3 DEF Renamed
            <4> QED
                BY <3>3, <4>1, <4>2 DEF Races, Sets, GetUnchanged, Read, SetBegin, Open,
                   LockMutex, LockFile, CheckConflict, WriteTemp, FlushTemp, OpenTemp, Rename,
                   StampOld, UnlockOld, UnlockNew, Rollback, RollbackUnlock, RollbackUnlink
        <3> QED
            BY <3>2, <3>3
    <2> QED
        BY <2>1, <2>2, <2>3 DEF Single
<1> QED
    BY <1>1, <1>2

\* Untouched: before the first rename() there is one file and one stamp.
LEMMA UntouchedStep ==
    ASSUME Fair, IInv, Begun, Untouched, NEW h \in team, team \subseteq Handles,
           h \in Handles, Step(h), Races(h), team' = team
    PROVE  Untouched'
<1> SUFFICES ASSUME \A g \in team : ~Renamed(g)', NEW x \in team
             PROVE  mtime'[x] \in {0, stamp'[file']} /\ pkfd'[x] \in {NoFd, file'}
    BY DEF Untouched
<1>0. TypeOK
    BY DEF IInv
<1>1. ~Rename(h) /\ \A g \in team : ~Renamed(g)
    BY <1>0, RenamedStays
<1>2. file' = file /\ stamp'[file] = stamp[file]
    BY <1>1, OnlyRenameRestamps DEF Fair
<1>3. mtime[x] \in {0, stamp[file]} /\ pkfd[x] \in {NoFd, file}
    BY <1>1 DEF Untouched
<1>4. mtime'[x] \in {0, stamp[file]}
    BY <1>3, LearnsVisible DEF Fair
<1>5. pkfd'[x] \in {NoFd, file}
    <2>1. CASE x # h
        BY <1>0, <1>3, <2>1, OthersKeep
    <2>2. CASE x = h
        <3>1. pkfd' = pkfd \/ pkfd'[h] = file \/ pkfd'[h] = NoFd
            BY DEF Races, Sets, GetUnchanged, GetChanged, Read, SetBegin, Open,
               LockMutex, LockFile, CheckConflict, WriteTemp, FlushTemp, OpenTemp, Rename, Stamp,
               StampOld, UnlockOld, UnlockNew, Rollback, RollbackUnlock, RollbackUnlink,
               IInv, TypeOK
        <3> QED
            BY <1>3, <2>2, <3>1
    <2> QED
        BY <2>1, <2>2
<1> QED
    BY <1>2, <1>4, <1>5

\* Yields: whoever fails closes the file and gives the lock away.
LEMMA YieldsStep ==
    ASSUME Fair, IInv, Yields, NEW h \in Handles, Step(h), Races(h)
    PROVE  Yields'
<1>0. TypeOK
    BY DEF IInv
<1>1. /\ failed'[h] => pkfd'[h] = NoFd
      /\ pc'[h] \in {"rollback", "unlock", "unlink"} => failed'[h]
      /\ pc'[h] \in {"idle", "read", "open", "mutex", "flock", "check", "stamp", "stampold",
                    "unlockold", "unlocknew"} => ~failed'[h]
    <2> USE DEF IInv, TypeOK, PosixTypeOK, Yields, Holds, FileInv, Settled
    <2>1. CASE GetUnchanged(h) \/ GetChanged(h) \/ Read(h) \/ SetBegin(h)
        BY <2>1 DEF GetUnchanged, GetChanged, Read, SetBegin
    <2>2. CASE Open(h)
        BY <2>2 DEF Open
    <2>3. CASE LockMutex(h)
        BY <2>3 DEF LockMutex
    <2>4. CASE LockFile(h)
        BY <2>4 DEF LockFile
    <2>5. CASE CheckConflict(h)
        BY <2>5 DEF CheckConflict
    <2>6. CASE WriteTemp(h) \/ FlushTemp(h) \/ OpenTemp(h)
        BY <2>6 DEF WriteTemp, FlushTemp, OpenTemp
    <2>7. CASE Rename(h) \/ Stamp(h) \/ StampOld(h)
        BY <2>7 DEF Rename, Stamp, StampOld
    <2>8. CASE UnlockOld(h) \/ UnlockNew(h)
        BY <2>8 DEF UnlockOld, UnlockNew
    <2>9. CASE Rollback(h) \/ RollbackUnlock(h) \/ RollbackUnlink(h)
        BY <2>9 DEF Rollback, RollbackUnlock, RollbackUnlink
    <2> QED
        BY <2>1, <2>2, <2>3, <2>4, <2>5, <2>6, <2>7, <2>8, <2>9 DEF Races, Sets
<1>2. \A g \in Handles \ {h}, i \in Inodes : lock'[i] = ProcOf[g] => lock[i] = ProcOf[g]
    <2>1. \A i \in Inodes : lock'[i] \in {lock[i], NoProc, ProcOf[h]}
        BY ProcOfType DEF Races, Sets, GetUnchanged, GetChanged, Read, SetBegin, Open,
           LockMutex, LockFile, CheckConflict, WriteTemp, FlushTemp, OpenTemp, Rename, Stamp,
           StampOld, UnlockOld, UnlockNew, Rollback, RollbackUnlock, RollbackUnlink, Released,
           IInv, TypeOK, PosixTypeOK
    <2>2. \A g \in Handles \ {h} : ProcOf[g] # ProcOf[h] /\ ProcOf[g] # NoProc
        BY ProcOfType, ProcsAssumption DEF Fair, Cooperative
    <2> QED
        BY <2>1, <2>2
<1>3. pc'[h] \in {"mutex", "flock"} => \A i \in Inodes : lock'[i] # ProcOf[h]
    <2>1. ASSUME pc'[h] \in {"mutex", "flock"}
          PROVE  lock' = lock /\ pc[h] \in {"open", "mutex"}
        BY <2>1 DEF Races, Sets, GetUnchanged, GetChanged, Read, SetBegin, Open,
           LockMutex, LockFile, CheckConflict, WriteTemp, FlushTemp, OpenTemp, Rename, Stamp,
           StampOld, UnlockOld, UnlockNew, Rollback, RollbackUnlock, RollbackUnlink,
           IInv, TypeOK
    <2>2. ASSUME pc[h] = "open", NEW i \in Inodes PROVE lock[i] # ProcOf[h]
        <3>1. pkfd[h] = NoFd /\ fd[h] = NoFd
            BY <2>2 DEF IInv, FileInv, Settled
        <3>2. ProcOf[h] # NoProc
            BY ProcOfType, ProcsAssumption
        <3> QED
            BY <3>1, <3>2 DEF Fair, Cooperative, IInv, FileInv, Owned
    <2> QED
        BY <2>1, <2>2 DEF Yields
<1> QED
    BY <1>0, <1>1, <1>2, <1>3, OthersKeep DEF Yields

\* Who has the lock and finds the file untouched goes on and replaces it.
LEMMA HolderWins ==
    ASSUME IInv, Begun, Barrier, Untouched, Yields, NEW h \in team, team \subseteq Handles,
           h \in Handles, Races(h), \A g \in team : ~Renamed(g), Holder(h)
    PROVE  Holder(h)' \/ Rename(h)
<1> USE DEF IInv, TypeOK, PosixTypeOK, Holder
<1>1. ~failed[h] /\ pkfd[h] = file /\ mtime[h] = stamp[file]
    <2>1. ~failed[h]
        BY DEF Yields
    <2>2. pkfd[h] = file /\ mtime[h] \in {0, stamp[file]}
        BY DEF Untouched
    <2>3. mtime[h] # 0
        BY DEF Begun, Barrier
    <2> QED
        BY <2>1, <2>2, <2>3
<1>2. CASE CheckConflict(h)
    BY <1>1, <1>2 DEF CheckConflict, Unmodified
<1>3. CASE WriteTemp(h) \/ FlushTemp(h) \/ OpenTemp(h)
    BY <1>1, <1>3 DEF WriteTemp, FlushTemp, OpenTemp
<1>4. CheckConflict(h) \/ WriteTemp(h) \/ FlushTemp(h) \/ OpenTemp(h) \/ Rename(h)
    BY DEF Races, Sets, GetUnchanged, GetChanged, Read, SetBegin, Open,
       LockMutex, LockFile, Stamp, StampOld, UnlockOld, UnlockNew, Rollback,
       RollbackUnlock, RollbackUnlink
<1> QED
    BY <1>2, <1>3, <1>4

\* Whoever finds the file locked, before anybody has replaced it, has met a
\* writer that passed elektraLockFile.
LEMMA LockedByHolder ==
    ASSUME Fair, IInv, Outside, Untouched, Yields, NEW h \in Handles, h \in team,
           team \subseteq Handles, pc[h] = "flock", ~CanLock(ProcOf[h], pkfd[h]),
           \A g \in team : ~Renamed(g)
    PROVE  \E g \in team : g # h /\ Holder(g)
<1> USE DEF IInv, TypeOK, PosixTypeOK
<1>1. pkfd[h] \in Inodes /\ lock[pkfd[h]] # NoProc /\ lock[pkfd[h]] # ProcOf[h]
    BY DEF Holds, CanLock
<1>2. PICK g \in Handles : lock[pkfd[h]] = ProcOf[g] /\ (pkfd[h] = pkfd[g] \/ pkfd[h] = fd[g])
    BY <1>1 DEF FileInv, Owned
<1>3. g # h
    BY <1>1, <1>2
<1>4. g \in team
    <2>1. CASE pc[g] = "idle"
        BY <1>1, <1>2, <2>1 DEF FileInv, Settled
    <2> QED
        BY <2>1 DEF Outside
<1>5. pc[g] \notin {"stamp", "stampold", "unlockold", "unlocknew"}
    BY <1>4 DEF Renamed
<1>6. pkfd[h] = pkfd[g] /\ pkfd[g] \in Inodes
    BY <1>1, <1>2, <1>5 DEF FileInv, Settled, Private, Holds
<1>7. ~failed[g]
    BY <1>6 DEF Yields
<1>8. pc[g] \notin {"mutex", "flock"}
    BY <1>1, <1>2 DEF Yields
<1>9. pc[g] \in {"check", "write", "flush", "commit", "rename"}
    BY <1>5, <1>6, <1>7, <1>8 DEF FileInv, Settled, PCs, Yields
<1> QED
    BY <1>3, <1>4, <1>6, <1>9 DEF Holder

\* Contest: as long as nobody has won, somebody is going to.
LEMMA ContestStep ==
    ASSUME Fair, IInv, RaceInv, NEW h \in team, team \subseteq Handles,
           h \in Handles, Step(h), Races(h), team' = team
    PROVE  Contest'
<1> USE DEF RaceInv
<1>0. TypeOK
    BY DEF IInv
<1>1. CASE \E g \in team : Renamed(g)
    BY <1>0, <1>1, RenamedStays DEF Contest
<1>2. CASE Rename(h)
    BY <1>0, <1>2, RenamedStays DEF Contest
<1>3. CASE ~Rename(h) /\ \A g \in team : ~Renamed(g)
    <2>1. ASSUME NEW g \in team, Holder(g) PROVE Holder(g)'
        <3>1. CASE g # h
            BY <1>0, <2>1, <3>1, OthersKeep DEF Holder
        <3>2. CASE g = h
            BY <1>3, <2>1, <3>2, HolderWins
        <3> QED
            BY <3>1, <3>2
    <2>2. CASE \E g \in team : Holder(g)
        BY <2>1, <2>2 DEF Contest
    <2>3. CASE \A g \in team : ~Holder(g)
        <3>1. ~(pc[h] = "flock" /\ ~CanLock(ProcOf[h], pkfd[h]))
            BY <1>3, <2>3, LockedByHolder
        <3>2. ASSUME NEW g \in team, g # h PROVE seq'[g] = 0 \/ Trying(g)'
            BY <1>0, <1>3, <2>3, <3>2, OthersKeep DEF Contest, Trying
        <3>3. seq'[h] = 0 \/ Trying(h)'
            <4> USE DEF IInv, TypeOK, PosixTypeOK, Trying
            <4>1. CASE seq[h] = 0
                <5>1. pc[h] \in {"idle", "read"} /\ ~failed[h]
                    BY <4>1 DEF Begun, Yields
                <5>2. CASE SetBegin(h)
                    BY <5>1, <5>2 DEF SetBegin
                <5>3. CASE GetUnchanged(h) \/ GetChanged(h) \/ Read(h)
                    BY <4>1, <5>3 DEF GetUnchanged, GetChanged, Read
                <5>4. ~Sets(h)
                    BY <5>1 DEF Sets, Open, LockMutex, LockFile, CheckConflict, WriteTemp,
                       FlushTemp, OpenTemp, Rename, Stamp, StampOld, UnlockOld, UnlockNew,
                       Rollback, RollbackUnlock, RollbackUnlink
                <5> QED
                    BY <5>2, <5>3, <5>4 DEF Races
            <4>2. CASE seq[h] # 0
                <5>1. Trying(h)
                    BY <1>3, <2>3, <4>2 DEF Contest
                <5>2. pc[h] \in {"open", "mutex", "flock"}
                    BY <2>3, <5>1 DEF Holder, Holds
                <5>3. mutex[ProcOf[h]] # NoHandle => pc[h] # "mutex"
                    <6>1. mutex[ProcOf[h]] # NoHandle => mutex[ProcOf[h]] = h
                        BY ProcOfType DEF FileInv, Serial, Fair, Cooperative
                    <6> QED
                        BY <6>1, ProcOfType DEF FileInv, Serial
                <5>4. Open(h) \/ LockMutex(h) \/ LockFile(h)
                    BY <5>2 DEF Races, Sets, GetUnchanged, GetChanged, Read, SetBegin,
                       CheckConflict, WriteTemp, FlushTemp, OpenTemp, Rename, Stamp, StampOld,
                       UnlockOld, UnlockNew, Rollback, RollbackUnlock, RollbackUnlink
                <5>5. CASE Open(h)
                    BY <5>1, <5>5 DEF Open, FileInv, Settled
                <5>6. CASE LockMutex(h)
                    BY <5>1, <5>3, <5>6 DEF LockMutex
                <5>7. CASE LockFile(h)
                    BY <3>1, <5>1, <5>7 DEF LockFile
                <5> QED
                    BY <5>4, <5>5, <5>6, <5>7
            <4> QED
                BY <4>1, <4>2
        <3> QED
            BY <3>2, <3>3 DEF Contest
    <2> QED
        BY <2>2, <2>3
<1> QED
    BY <1>1, <1>2, <1>3

-----------------------------------------------------------------------------
(* The result *)

\* Nobody has done anything yet.
LEMMA RaceInvInit ==
    ASSUME Fair, RaceInit
    PROVE  IInv /\ RaceInv
<1>1. IInv
    BY InitSafe DEF RaceInit, Fair
<1>2. /\ team \in Teams /\ team \subseteq Handles
      /\ \A h \in Handles : /\ pc[h] = "idle" /\ seq[h] = 0 /\ won[h] = 0 /\ mtime[h] = 0
                            /\ pkfd[h] = NoFd /\ ~failed[h]
    BY TeamsAssumption DEF RaceInit, Init, resolverInit
<1> QED
    BY <1>1, <1>2 DEF RaceInv, Outside, Begun, Barrier, Matching, Single, Untouched, Yields,
       Contest, Checked, Renamed

\* Every step of a writer keeps the invariant.
LEMMA RaceInvNext ==
    ASSUME Fair, IInv, RaceInv, [RaceNext]_raceVars
    PROVE  IInv' /\ RaceInv'
<1>1. CASE UNCHANGED raceVars
    <2>1. UNCHANGED vars /\ team' = team
        BY <1>1 DEF raceVars
    <2>2. IInv'
        BY <2>1, NextSafe DEF Fair
    <2> QED
        BY <2>1, <2>2 DEF vars, RaceInv, Outside, Begun, Barrier, Matching, Single, Untouched,
           Yields, Contest, Checked, Renamed, Holder, Trying
<1>2. CASE RaceNext
    <2>1. PICK h \in team : writer(h) /\ team' = team
        BY <1>2 DEF RaceNext
    <2>2. h \in Handles /\ Step(h) /\ Races(h) /\ Next /\ team \subseteq Handles
        BY <2>1, WriterRaces, TeamsAssumption DEF IInv, FileInv, RaceInv, Outside
    <2>3. IInv'
        BY <2>2, NextSafe DEF Fair
    <2>4. TypeOK /\ Outside'
        BY <2>1, <2>2, OthersKeep DEF IInv, RaceInv, Outside
    <2>5. Begun'
        <3>1. \A g \in team : g # h => pc'[g] = pc[g] /\ won'[g] = won[g]
                                          /\ seq'[g] = seq[g] /\ ks'[g] = ks[g]
            BY <2>2, <2>4, OthersKeep
        <3> QED
            BY <2>1, <2>2, <3>1, BegunStep DEF Begun, RaceInv
    <2>6. Barrier'
        BY <2>1, <2>2, BarrierStep DEF Barrier, RaceInv
    <2>7. Matching' /\ Yields'
        BY <2>2, <2>3, MatchingStep, YieldsStep DEF RaceInv
    <2>8. Single' /\ Untouched' /\ Contest'
        BY <2>1, <2>2, SingleStep, UntouchedStep, ContestStep DEF RaceInv
    <2> QED
        BY <2>3, <2>4, <2>5, <2>6, <2>7, <2>8 DEF RaceInv
<1> QED
    BY <1>1, <1>2

\* The race test has at most one winner at any time, and one when all writers
\* are done, for any number of processes.
THEOREM RaceHasOneWinner ==
    ASSUME Fair
    PROVE  RaceSpec => []OneWinner
<1>1. RaceInit => IInv /\ RaceInv
    BY RaceInvInit
<1>2. (IInv /\ RaceInv) /\ [RaceNext]_raceVars => (IInv /\ RaceInv)'
    BY RaceInvNext
<1>3. RaceInv => OneWinner
    <2> SUFFICES ASSUME RaceInv PROVE OneWinner
        OBVIOUS
    <2>1. \A g, h \in team : won[g] # 0 /\ won[h] # 0 => g = h
        BY DEF RaceInv, Single, Renamed
    <2>2. ASSUME \A h \in team : seq[h] = 1 /\ pc[h] = "idle"
          PROVE  \E h \in team : won[h] # 0
        <3>1. PICK h \in team : TRUE
            BY DEF RaceInv, Outside, Fair
        <3>2. PICK g \in team : Renamed(g) \/ Holder(g)
            BY <2>2, <3>1 DEF RaceInv, Contest, Trying
        <3> QED
            BY <2>2, <3>2 DEF Renamed, Holder
    <2> QED
        BY <2>1, <2>2 DEF OneWinner
<1> QED
    BY <1>1, <1>2, <1>3, PTL DEF RaceSpec
=============================================================================
