----------------------------- MODULE PosixFiles -----------------------------
(***************************************************************************)
(* The POSIX file system as far as the resolver plugin uses it: one        *)
(* configuration file name in one directory, inodes that stay alive while  *)
(* a descriptor refers to them, advisory record locks (fcntl F_SETLK) and  *)
(* the real-time clock that stamps inodes.                                 *)
(*                                                                         *)
(* This is code outside the repository.  It is modelled from how           *)
(* src/plugins/resolver/resolver.c calls it: open, close, stat, fstat,     *)
(* rename, unlink, mkdir, futimens and fcntl.                              *)
(*                                                                         *)
(* A descriptor is represented by the inode it refers to; -1 is the result *)
(* of a failed open.  A time stamp (seconds and nanoseconds in the code)   *)
(* is one number here: the resolver only ever compares stamps for equality.*)
(***************************************************************************)
EXTENDS Integers

CONSTANTS
    Inodes,     \* inodes the file system can hand out, natural numbers
    Procs,      \* processes, the owners of record locks
    NoProc,     \* the owner of an inode nobody has locked
    Ticks,      \* how far the clock may move between two writes: {1} when
                \* every write gets a stamp of its own, {0, 1} when it is coarse
    StartTime   \* the clock at the start, above any stamp in use

ASSUME InodesAssumption == Inodes \subseteq Nat
ASSUME ProcsAssumption == NoProc \notin Procs
ASSUME ClockAssumption == Ticks \subseteq Nat /\ StartTime \in Nat \ {0}

VARIABLES
    dir,        \* does the directory of the configuration file exist?
    file,       \* the inode the configuration file name refers to, or -1
    data,       \* per inode: the content
    complete,   \* per inode: is the content completely written?
    stamp,      \* per inode: the modification time
    lock,       \* per inode: the process holding the record lock
    now         \* the real-time clock

NoInode == -1

\* The types of everything but the contents of files.
PosixTypeOK ==
    /\ dir \in BOOLEAN
    /\ file \in Inodes \cup {NoInode}
    /\ complete \in [Inodes -> BOOLEAN]
    /\ stamp \in [Inodes -> Int]
    /\ lock \in [Inodes -> Procs \cup {NoProc}]
    /\ now \in Nat

\* An inode that neither a name nor a descriptor in `used' refers to.
FreshInode(used) == CHOOSE i \in Inodes : i \notin used

\* fcntl(F_SETLK, F_WRLCK) by process p succeeds unless another process holds it.
CanLock(p, i) == lock[i] \in {NoProc, p}

\* The locks after process p unlocks or closes a descriptor for inode i: any
\* close of the inode by the process gives its lock away.
Released(p, i) == [lock EXCEPT ![i] = IF @ = p THEN NoProc ELSE @]

\* The locks after process p died.
ReleasedAll(p) == [i \in Inodes |-> IF lock[i] = p THEN NoProc ELSE lock[i]]
=============================================================================
