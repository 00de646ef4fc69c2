----------------------------- MODULE KdbSafety ------------------------------
(***************************************************************************)
(* What kdbGet() and kdbSet() keep for any number of backends, any keyset  *)
(* and any fault: the types, the two phases of kdbSet() and the locks.     *)
(* Then what their results mean, where faults are excluded by name.        *)
(*                                                                         *)
(* The argument is about the loops over split.  The loop index is always   *)
(* the next backend that is not done yet; the first loop of kdbSet()       *)
(* leaves every backend it has passed locked, or there is an error; the    *)
(* second one finds exactly the backends locked that it has not passed.    *)
(***************************************************************************)
EXTENDS Kdb, DataInduction

-----------------------------------------------------------------------------
(* Operators of the model *)

\* What the provers need to know of the constants most of the time.
LEMMA ConstantTypes ==
    /\ N \in Nat
    /\ BackendOf \in [Keys -> Backends]
    /\ \A v \in Values : v # Absent
    /\ \A S \in GetParents \cup SetParents : S \in SUBSET Backends
  BY KdbAssumption

\* The loop index: After(j, B) is the first backend of B behind j, or N + 1
\* when there is none.
LEMMA AfterIsNext ==
    ASSUME NEW B \in SUBSET Backends, NEW j \in 0 .. N + 1
    PROVE  /\ After(j, B) \in 0 .. N + 1
           /\ After(j, B) \in B \cup {N + 1}
           /\ After(j, B) > j \/ After(j, B) = N + 1
           /\ \A b \in B : b > j => After(j, B) <= b
<1>0. N \in Nat /\ j \in Int /\ \A b \in B : b \in Int /\ 1 <= b /\ b <= N
  BY ConstantTypes DEF Backends
<1>1. CASE \E b \in B : b > j
  <2>1. \E b \in B : b > j /\ \A c \in B : c > j => b <= c
    <3>1. {b \in B : b > j} \in SUBSET (0 .. N) /\ {b \in B : b > j} # {}
      BY <1>0, <1>1
    <3>2. PICK x \in {b \in B : b > j} : \A y \in {b \in B : b > j} : x <= y
      BY <1>0, <3>1, LeastElement
    <3> QED
      BY <3>2
  <2>2. After(j, B) = CHOOSE b \in B : b > j /\ \A c \in B : c > j => b <= c
    BY <1>1 DEF After
  <2>3. After(j, B) \in B /\ After(j, B) > j /\ \A c \in B : c > j => After(j, B) <= c
    BY <2>1, <2>2
  <2> QED
    BY <1>0, <2>3
<1>2. CASE ~\E b \in B : b > j
  BY <1>0, <1>2 DEF After
<1> QED
  BY <1>1, <1>2

\* The number of keys in a backend is a natural number, and it is 0 exactly if
\* every key of the backend is absent.
LEMMA SizeOfType ==
    ASSUME NEW f, NEW b
    PROVE  /\ IsFiniteSet({k \in KeysOf(b) : f[k] # Absent})
           /\ SizeOf(f, b) \in 0 .. Cardinality(Keys)
           /\ SizeOf(f, b) = 0 <=> \A k \in KeysOf(b) : f[k] = Absent
<1> DEFINE T == {k \in KeysOf(b) : f[k] # Absent}
<1>1. T \in SUBSET Keys
  BY DEF KeysOf
<1>2. IsFiniteSet(T) /\ Cardinality(T) <= Cardinality(Keys)
  BY <1>1, FS_Subset, KdbAssumption
<1>3. Cardinality(T) \in Nat /\ Cardinality(Keys) \in Nat
  BY <1>2, FS_CardinalityType, KdbAssumption
<1>4. Cardinality(T) = 0 <=> T = {}
  BY <1>2, FS_EmptySet
<1> QED
  BY <1>2, <1>3, <1>4 DEF SizeOf

\* A number of keys is a value of backend->usersize.
LEMMA SizeInRange ==
    ASSUME NEW f, NEW b
    PROVE  SizeOf(f, b) \in -1 .. Cardinality(Keys)
<1>1. Cardinality(Keys) \in Nat
  BY FS_CardinalityType, KdbAssumption
<1>2. \A n \in 0 .. Cardinality(Keys) : n \in -1 .. Cardinality(Keys)
  BY <1>1
<1>3. SizeOf(f, b) \in 0 .. Cardinality(Keys)
  BY SizeOfType
<1> QED
  BY <1>2, <1>3

\* A merge of keysets is a keyset: it has the keys of the backends B from g and
\* the others from f.
LEMMA MergeType ==
    ASSUME NEW f \in KeySets, NEW g \in KeySets, NEW B
    PROVE  /\ Merge(f, g, B) \in KeySets
           /\ \A k \in Keys : Merge(f, g, B)[k] = IF BackendOf[k] \in B THEN g[k] ELSE f[k]
  BY DEF Merge, KeySets

\* The empty keyset is a keyset.
LEMMA EmptyType == Empty \in KeySets
  BY DEF Empty, KeySets

-----------------------------------------------------------------------------
(***************************************************************************)
(* Types.                                                                  *)
(***************************************************************************)

\* The application's steps keep the types.
LEMMA ApplicationTypes ==
    ASSUME TypeOK, application
    PROVE  TypeOK'
<1> USE DEF TypeOK, fileVars, resolverVars, callVars
<1>1. ASSUME NEW k \in Keys, NEW v \in Values, SetKey(k, v)
      PROVE  TypeOK'
  <2>1. ks' \in KeySets
    BY <1>1 DEF SetKey, KeySets
  <2>2. sync' \subseteq Keys /\ dirty' \subseteq Backends /\ edits' \in 0 .. MaxEdits
    BY <1>1, ConstantTypes, KdbAssumption DEF SetKey
  <2> QED
    BY <1>1, <2>1, <2>2 DEF SetKey
<1>2. ASSUME NEW k \in Keys, PopKey(k)
      PROVE  TypeOK'
  <2>1. ks' \in KeySets
    BY <1>2 DEF PopKey, KeySets
  <2>2. sync' \subseteq Keys /\ dirty' \subseteq Backends /\ edits' \in 0 .. MaxEdits
    BY <1>2, ConstantTypes, KdbAssumption DEF PopKey
  <2> QED
    BY <1>2, <2>1, <2>2 DEF PopKey
<1> QED
  BY <1>1, <1>2 DEF application

\* The steps of other applications keep the types.
LEMMA OthersTypes ==
    ASSUME TypeOK, others
    PROVE  TypeOK'
<1> USE DEF TypeOK, appVars, callVars
<1>1. ASSUME NEW b \in Backends, NEW f \in KeySets, ExternalSet(b, f)
      PROVE  TypeOK'
  <2>1. file' \in KeySets
    BY <1>1, MergeType DEF ExternalSet
  <2>2. external' \in 0 .. MaxExternal
    BY <1>1, KdbAssumption DEF ExternalSet
  <2> QED
    BY <1>1, <2>1, <2>2 DEF ExternalSet
<1>2. ASSUME NEW b \in Backends, ExternalRemove(b)
      PROVE  TypeOK'
  <2>1. file' \in KeySets
    BY <1>2, MergeType, EmptyType DEF ExternalRemove
  <2>2. external' \in 0 .. MaxExternal
    BY <1>2, KdbAssumption DEF ExternalRemove
  <2> QED
    BY <1>2, <2>1, <2>2 DEF ExternalRemove
<1> QED
  BY <1>1, <1>2 DEF others

\* The steps of kdbGet() keep the types.
LEMMA GetTypes ==
    ASSUME TypeOK, kdbGet
    PROVE  TypeOK'
<1> USE DEF TypeOK, fileVars, resolverVars, appVars, callVars, Return
<1>0. Cardinality(Keys) \in Nat
  BY FS_CardinalityType, KdbAssumption
<1>1. ASSUME NEW S \in GetParents, GetBegin(S)
      PROVE  TypeOK'
  <2>1. S \in SUBSET Backends /\ After(0, S) \in 0 .. N + 1
    BY ConstantTypes, AfterIsNext
  <2> QED
    BY <1>1, <2>1, EmptyType DEF GetBegin
<1>2. CASE GetCheck
  <2>1. i \in Backends /\ i' \in 0 .. N + 1
    BY <1>2, AfterIsNext DEF GetCheck
  <2>2. size' \in [Backends -> -1 .. Cardinality(Keys)]
    BY <1>0, <1>2 DEF GetCheck
  <2>3. base' \in KeySets
    BY <1>2, MergeType, EmptyType DEF GetCheck
  <2>4. /\ missing' \subseteq Backends /\ bits' \subseteq Backends
        /\ fresh' \subseteq Backends
    BY <1>2, <2>1 DEF GetCheck
  <2> QED
    BY <1>2, <2>1, <2>2, <2>3, <2>4 DEF GetCheck
<1>3. CASE GetNoUpdate
  BY <1>3 DEF GetNoUpdate
<1>4. CASE GetUpdate
  <2>1. After(0, bits) \in 0 .. N + 1
    BY ConstantTypes, AfterIsNext
  <2> QED
    BY <1>4, <2>1 DEF GetUpdate
<1>5. CASE GetRead
  <2>1. After(i, bits) \in 0 .. N + 1 /\ got' \in KeySets
    BY <1>5, AfterIsNext, MergeType DEF GetRead
  <2> QED
    BY <1>5, <2>1 DEF GetRead
<1>6. CASE GetFail
  BY <1>6 DEF GetFail
<1>7. CASE GetMerge
  <2>1. ks' \in KeySets /\ base' \in KeySets
    BY <1>7, MergeType DEF GetMerge, Merged
  <2>2. size' \in [Backends -> -1 .. Cardinality(Keys)]
    <3>1. \A b \in Backends : SizeOf(Merged, b) \in -1 .. Cardinality(Keys)
      BY SizeInRange
    <3> QED
      BY <1>7, <3>1 DEF GetMerge
  <2>3. /\ sync' \subseteq Keys /\ dirty' \subseteq Backends
        /\ pc' = "idle" /\ ret' \in {"get1", "get-1"}
    BY <1>7 DEF GetMerge
  <2> QED
    BY <1>7, <2>1, <2>2, <2>3 DEF GetMerge
<1> QED
  BY <1>1, <1>2, <1>3, <1>4, <1>5, <1>6, <1>7 DEF kdbGet

\* The steps of kdbSet() keep the types.
LEMMA SetTypes ==
    ASSUME TypeOK, kdbSet
    PROVE  TypeOK'
<1> USE DEF TypeOK, fileVars, resolverVars, appVars, callVars, Return
<1>0. Cardinality(Keys) \in Nat
  BY FS_CardinalityType, KdbAssumption
<1>1. ASSUME NEW S \in SetParents, SetBegin(S)
      PROVE  TypeOK'
  <2>1. S \in SUBSET Backends /\ NeedSync(S) \in SUBSET Backends
    BY ConstantTypes DEF NeedSync
  <2>2. After(0, NeedSync(S)) \in 0 .. N + 1
    BY <2>1, ConstantTypes, AfterIsNext
  <2>3. /\ split' \subseteq Backends /\ bits' \subseteq Backends
        /\ i' \in 0 .. N + 1 /\ err' \in BOOLEAN /\ got' \in KeySets
    BY <1>1, <2>1, <2>2 DEF SetBegin
  <2>4. pc' \in {"idle", "prepare"} /\ ret' \in {"none", "set0", "set-1"}
    BY <1>1 DEF SetBegin
  <2> QED
    BY <1>1, <2>3, <2>4 DEF SetBegin
<1>2. CASE SetPrepare
  <2>1. After(i, bits) \in 0 .. N + 1
    BY AfterIsNext
  <2>2. locked' \subseteq Backends /\ err' \in BOOLEAN
    BY <1>2 DEF SetPrepare
  <2> QED
    BY <1>2, <2>1, <2>2 DEF SetPrepare
<1>3. CASE SetPrepared
  <2>1. After(0, bits) \in 0 .. N + 1
    BY ConstantTypes, AfterIsNext
  <2> QED
    BY <1>3, <2>1 DEF SetPrepared
<1>4. CASE SetCommit
  <2>1. After(i, bits) \in 0 .. N + 1
    BY AfterIsNext
  <2>2. file' \in KeySets /\ base' \in KeySets
    BY <1>4, MergeType DEF SetCommit
  <2>3. /\ exists' \subseteq Backends /\ fresh' \subseteq Backends
        /\ missing' \subseteq Backends /\ locked' \subseteq Backends
    BY <1>4 DEF SetCommit
  <2> QED
    BY <1>4, <2>1, <2>2, <2>3 DEF SetCommit
<1>5. CASE SetCommitFail
  <2>1. After(i, bits) \in 0 .. N + 1
    BY AfterIsNext
  <2> QED
    BY <1>5, <2>1 DEF SetCommitFail
<1>6. CASE SetFinish
  <2>1. \A b \in Backends : SizeOf(ks, b) \in -1 .. Cardinality(Keys)
    BY SizeInRange
  <2>2. size' \in [Backends -> -1 .. Cardinality(Keys)]
    BY <1>6, <2>1 DEF SetFinish
  <2> QED
    BY <1>6, <2>2 DEF SetFinish
<1> QED
  BY <1>1, <1>2, <1>3, <1>4, <1>5, <1>6 DEF kdbSet

\* Every step keeps the types.
LEMMA TypesStep ==
    ASSUME TypeOK, [Next]_vars
    PROVE  TypeOK'
<1>1. CASE UNCHANGED vars
  BY <1>1 DEF vars, fileVars, resolverVars, appVars, callVars, TypeOK
<1> QED
  BY <1>1, ApplicationTypes, OthersTypes, GetTypes, SetTypes DEF Next

\* The initial state has the types.
LEMMA TypesInit ==
    ASSUME Init
    PROVE  TypeOK
<1>1. Cardinality(Keys) \in Nat
  BY FS_CardinalityType, KdbAssumption
<1>2. size \in [Backends -> -1 .. Cardinality(Keys)]
  BY <1>1 DEF Init
<1>3. edits \in 0 .. MaxEdits /\ external \in 0 .. MaxExternal /\ i \in 0 .. N + 1
  BY KdbAssumption DEF Init
<1> QED
  BY <1>2, <1>3, EmptyType DEF Init, TypeOK

\* The variables of kdbGet() and kdbSet() always have their types: every size
\* is -1 or a number of keys, every loop ends at N + 1, and what is merged,
\* read or written is a keyset.
THEOREM KdbTypes == Spec => []TypeOK
<1> QED
  BY TypesInit, TypesStep, PTL DEF Spec

-----------------------------------------------------------------------------
(***************************************************************************)
(* The two phases.                                                         *)
(***************************************************************************)

\* The loop index is at a backend of the loop or at its end; the backends to
\* update or to store are among those of the call; a running call has not
\* returned anything yet.
Loop ==
    /\ pc = "check" => i \in split \cup {N + 1}
    /\ pc \in {"read", "prepare", "commit"} => i \in bits \cup {N + 1}
    /\ pc # "idle" => bits \subseteq split /\ ret = "none"

\* What is locked: nothing outside of kdbSet(); while preparing, every backend
\* passed that gets a new file, unless there was an error; while committing, the
\* backends from i on that get a new file.
Locks ==
    /\ pc \in {"idle", "check", "read"} => locked = {}
    /\ pc = "prepare" =>
         /\ locked \subseteq bits
         /\ ~err => \A b \in bits : b < i /\ SizeOf(ks, b) > 0 => b \in locked
    /\ pc = "commit" =>
         /\ locked \subseteq {b \in bits : b >= i}
         /\ \A b \in bits : b >= i /\ SizeOf(ks, b) > 0 => b \in locked

TwoPhase == TypeOK /\ Loop /\ Locks

\* A loop over some of the backends that is at none of them is at its end.
LEMMA LoopDone ==
    ASSUME TypeOK, Loop, pc \in {"read", "prepare", "commit"}, i \notin bits
    PROVE  \A b \in bits : b < i
<1>1. i = N + 1 /\ bits \subseteq Backends
  BY DEF Loop, TypeOK
<1> QED
  BY <1>1, ConstantTypes DEF Backends

\* The backends of a loop that are passed after a step are the ones passed
\* before it and the one the step was about.
LEMMA LoopStep ==
    ASSUME TypeOK, NEW B \in SUBSET Backends, i \in B
    PROVE  /\ After(i, B) \in B \cup {N + 1}
           /\ \A b \in B : b < After(i, B) <=> b <= i
           /\ \A b \in B : b >= After(i, B) <=> (b >= i /\ b # i)
<1>1. /\ i \in Int /\ i <= N /\ N \in Nat /\ i \in 0 .. N + 1
      /\ \A b \in B : b \in Int /\ b <= N
  BY ConstantTypes DEF Backends, TypeOK
<1>2. /\ After(i, B) \in 0 .. N + 1
      /\ After(i, B) \in B \cup {N + 1}
      /\ After(i, B) > i \/ After(i, B) = N + 1
      /\ \A b \in B : b > i => After(i, B) <= b
  BY <1>1, AfterIsNext
<1>3. After(i, B) > i /\ After(i, B) \in Int
  BY <1>1, <1>2
<1> QED
  BY <1>1, <1>2, <1>3

\* A loop begins before all its backends.
LEMMA LoopBegin ==
    ASSUME NEW B \in SUBSET Backends
    PROVE  /\ After(0, B) \in B \cup {N + 1}
           /\ \A b \in B : b >= After(0, B)
<1>1. N \in Nat /\ 0 \in 0 .. N + 1 /\ \A b \in B : b \in Int /\ b > 0
  BY ConstantTypes DEF Backends
<1>2. /\ After(0, B) \in 0 .. N + 1
      /\ After(0, B) \in B \cup {N + 1}
      /\ \A b \in B : b > 0 => After(0, B) <= b
  BY <1>1, AfterIsNext
<1> QED
  BY <1>1, <1>2

\* Neither the application nor another one disturbs the loops and the locks.
LEMMA TwoPhaseOutside ==
    ASSUME TwoPhase, application \/ others
    PROVE  Loop' /\ Locks'
<1> USE DEF TwoPhase, Loop, Locks, fileVars, resolverVars, appVars, callVars
<1>1. ASSUME NEW k \in Keys, NEW v \in Values, SetKey(k, v)
      PROVE  Loop' /\ Locks'
  BY <1>1 DEF SetKey
<1>2. ASSUME NEW k \in Keys, PopKey(k)
      PROVE  Loop' /\ Locks'
  BY <1>2 DEF PopKey
<1>3. ASSUME NEW b \in Backends, NEW f \in KeySets, ExternalSet(b, f)
      PROVE  Loop' /\ Locks'
  BY <1>3 DEF ExternalSet
<1>4. ASSUME NEW b \in Backends, ExternalRemove(b)
      PROVE  Loop' /\ Locks'
  BY <1>4 DEF ExternalRemove
<1> QED
  BY <1>1, <1>2, <1>3, <1>4 DEF application, others

\* kdbGet() keeps its loops within the backends, and locks nothing.
LEMMA TwoPhaseGet ==
    ASSUME TwoPhase, kdbGet
    PROVE  Loop' /\ Locks'
<1> USE DEF TwoPhase, fileVars, resolverVars, appVars, callVars, Return
<1>1. ASSUME NEW S \in GetParents, GetBegin(S)
      PROVE  Loop' /\ Locks'
  <2>1. After(0, S) \in S \cup {N + 1}
    BY ConstantTypes, LoopBegin
  <2> QED
    BY <1>1, <2>1 DEF GetBegin, Loop, Locks
<1>2. CASE GetCheck
  <2>1. i \in split /\ split \in SUBSET Backends
    BY <1>2 DEF GetCheck, TypeOK
  <2>2. After(i, split) \in split \cup {N + 1}
    BY <2>1, LoopStep
  <2> QED
    BY <1>2, <2>2 DEF GetCheck, Loop, Locks
<1>3. CASE GetNoUpdate
  BY <1>3 DEF GetNoUpdate, Loop, Locks
<1>4. CASE GetUpdate
  <2>1. bits \in SUBSET Backends
    BY DEF TypeOK
  <2>2. After(0, bits) \in bits \cup {N + 1}
    BY <2>1, LoopBegin
  <2> QED
    BY <1>4, <2>2 DEF GetUpdate, Loop, Locks
<1>5. CASE GetRead
  <2>1. i \in bits /\ bits \in SUBSET Backends
    BY <1>5 DEF GetRead, TypeOK
  <2>2. After(i, bits) \in bits \cup {N + 1}
    BY <2>1, LoopStep
  <2> QED
    BY <1>5, <2>2 DEF GetRead, Loop, Locks
<1>6. CASE GetFail
  BY <1>6 DEF GetFail, Loop, Locks
<1>7. CASE GetMerge
  BY <1>7 DEF GetMerge, Loop, Locks
<1> QED
  BY <1>1, <1>2, <1>3, <1>4, <1>5, <1>6, <1>7 DEF kdbGet

\* kdbSet() has every backend that gets a new file locked when the commit
\* begins, and releases each as it passes it.
LEMMA TwoPhaseSet ==
    ASSUME TwoPhase, kdbSet
    PROVE  Loop' /\ Locks'
<1> USE DEF TwoPhase, fileVars, resolverVars, appVars, callVars, Return
<1>0. bits \in SUBSET Backends
  BY DEF TypeOK
<1>1. ASSUME NEW S \in SetParents, SetBegin(S)
      PROVE  Loop' /\ Locks'
  <2>1. NeedSync(S) \subseteq S /\ NeedSync(S) \in SUBSET Backends
    BY ConstantTypes DEF NeedSync
  <2>2. /\ After(0, NeedSync(S)) \in NeedSync(S) \cup {N + 1}
        /\ \A b \in NeedSync(S) : b >= After(0, NeedSync(S))
    BY <2>1, LoopBegin
  <2>3. Loop'
    BY <1>1, <2>1, <2>2 DEF SetBegin, Loop
  <2>4. Locks'
    <3>1. CASE pc' = "idle"
      BY <1>1, <3>1 DEF SetBegin, Locks
    <3>2. CASE pc' = "prepare" /\ bits' = NeedSync(S) /\ i' = After(0, NeedSync(S))
      <4>1. locked' = {} /\ bits' \in SUBSET Backends
        BY <1>1, <2>1, <3>2 DEF SetBegin, Locks
      <4>2. \A b \in bits' : ~(b < i')
        <5>1. After(0, NeedSync(S)) \in 0 .. N + 1
          BY <2>1, ConstantTypes, AfterIsNext
        <5> QED
          BY <2>1, <2>2, <3>2, <5>1, ConstantTypes DEF Backends
      <4> QED
        BY <3>2, <4>1, <4>2 DEF Locks
    <3> QED
      BY <1>1, <3>1, <3>2 DEF SetBegin
  <2> QED
    BY <2>3, <2>4
<1>2. CASE SetPrepare
  <2>1. i \in bits
    BY <1>2 DEF SetPrepare
  <2>2. /\ After(i, bits) \in bits \cup {N + 1}
        /\ \A b \in bits : b < After(i, bits) <=> b <= i
    BY <1>0, <2>1, LoopStep
  <2>3. Loop'
    BY <1>2, <2>2 DEF SetPrepare, Loop
  <2>4. Locks'
    <3>1. pc' = "prepare" /\ bits' = bits /\ ks' = ks /\ i' = After(i, bits)
      BY <1>2 DEF SetPrepare
    <3>2. locked' \subseteq bits
      BY <1>2, <2>1 DEF SetPrepare, Locks
    <3>3. ASSUME ~err', NEW b \in bits, b <= i, SizeOf(ks, b) > 0
          PROVE  b \in locked'
      <4>1. ~err
        BY <1>2, <3>3 DEF SetPrepare
      <4>2. CASE b = i
        <5>1. SizeOf(ks, i) # 0
          BY <3>3, <4>2
        <5> QED
          BY <1>2, <3>3, <4>2, <5>1 DEF SetPrepare
      <4>3. CASE b # i
        <5>1. b < i
          BY <1>0, <2>1, <3>3, <4>3 DEF Backends
        <5> QED
          BY <1>2, <3>3, <4>1, <5>1 DEF SetPrepare, Locks
      <4> QED
        BY <4>2, <4>3
    <3> QED
      BY <2>2, <3>1, <3>2, <3>3 DEF Locks
  <2> QED
    BY <2>3, <2>4
<1>3. CASE SetPrepared
  <2>1. /\ After(0, bits) \in bits \cup {N + 1}
        /\ \A b \in bits : b >= After(0, bits)
    BY <1>0, LoopBegin
  <2>2. \A b \in bits : b < i
    BY <1>3, LoopDone DEF SetPrepared
  <2>3. Loop'
    BY <1>3, <2>1 DEF SetPrepared, Loop
  <2>4. Locks'
    BY <1>3, <2>1, <2>2 DEF SetPrepared, Locks
  <2> QED
    BY <2>3, <2>4
<1>4. CASE SetCommit \/ SetCommitFail
  <2>1. /\ i \in bits /\ pc = "commit" /\ pc' = "commit" /\ bits' = bits /\ ks' = ks
        /\ i' = After(i, bits) /\ locked' = locked \ {i} /\ split' = split /\ ret' = ret
    BY <1>4 DEF SetCommit, SetCommitFail
  <2>2. /\ After(i, bits) \in bits \cup {N + 1}
        /\ \A b \in bits : b >= After(i, bits) <=> (b >= i /\ b # i)
    BY <1>0, <2>1, LoopStep
  <2>3. Loop'
    BY <2>1, <2>2 DEF Loop
  <2>4. Locks'
    BY <2>1, <2>2 DEF Locks
  <2> QED
    BY <2>3, <2>4
<1>5. CASE SetFinish
  <2>1. \A b \in bits : b < i
    BY <1>5, LoopDone DEF SetFinish
  <2>2. \A b \in bits : ~(b >= i)
    BY <1>0, <2>1 DEF Backends, TypeOK
  <2>3. locked = {}
    BY <1>5, <2>2 DEF SetFinish, Locks
  <2> QED
    BY <1>5, <2>3 DEF SetFinish, Loop, Locks
<1> QED
  BY <1>1, <1>2, <1>3, <1>4, <1>5 DEF kdbSet

\* TwoPhase is inductive.
LEMMA TwoPhaseStep ==
    ASSUME TwoPhase, [Next]_vars
    PROVE  TwoPhase'
<1>1. TypeOK'
  BY TypesStep DEF TwoPhase
<1>2. CASE UNCHANGED vars
  BY <1>1, <1>2 DEF vars, fileVars, resolverVars, appVars, callVars, TwoPhase, Loop, Locks
<1>3. CASE Next
  BY <1>1, <1>3, TwoPhaseOutside, TwoPhaseGet, TwoPhaseSet DEF Next, TwoPhase
<1> QED
  BY <1>2, <1>3

\* TwoPhase holds at all times.
LEMMA TwoPhaseAlways == Spec => []TwoPhase
<1>1. Init => TwoPhase
  BY TypesInit DEF Init, TwoPhase, Loop, Locks
<1> QED
  BY <1>1, TwoPhaseStep, PTL DEF Spec

\* kdbSet() replaces the first file only when every backend that gets a new one
\* has passed its conflict check and is locked, whatever fails and whoever
\* interferes.
THEOREM PreparedFirst == Spec => []PreparedBeforeCommit
<1>1. TwoPhase => PreparedBeforeCommit
  BY DEF TwoPhase, Locks, PreparedBeforeCommit
<1> QED
  BY <1>1, TwoPhaseAlways, PTL

\* No call returns with a file still locked: not after a commit, not after a
\* rollback, and kdbGet() takes no lock.
THEOREM LocksReleased == Spec => []NoLockLeft
<1>1. TwoPhase => NoLockLeft
  BY DEF TwoPhase, Locks, NoLockLeft
<1> QED
  BY <1>1, TwoPhaseAlways, PTL

-----------------------------------------------------------------------------
(***************************************************************************)
(* What the results of kdbGet() and kdbSet() mean, for any number of       *)
(* backends and any keysets.  None of it holds for every application and   *)
(* every fault (the runs KdbFailedGet and KdbFaults have the exceptions),  *)
(* so each theorem names what it excludes, and no more than that.          *)
(*                                                                         *)
(* Known: where the resolver takes the file for known, the handle has its  *)
(* content, or the running kdbGet() still has it to read.                  *)
(* Unseen: a file that is not there and was missed is empty for both.      *)
(* NonEmpty: no backend loses its last key.                                *)
(* Edits: a key that is not as it was read or written has the sync flag,   *)
(* or it is gone and the size of its backend tells.                        *)
(***************************************************************************)

\* No getplugin fails and no file vanishes.
ReadsSucceed == ~ReadFails /\ ~ExternalUnlink

\* The application stores all backends before it calls kdbGet(), and leaves each
\* a key; no file vanishes, and no commit fails once all are prepared.
WholeCalls ==
    /\ ~EditedGet /\ ~MayEmpty /\ ~ExternalUnlink /\ ~CommitFails
    /\ SetParents \subseteq {Backends}

-----------------------------------------------------------------------------
(* Operators of the model *)

\* A merge is like g in the backends B and like f in the others.
LEMMA MergeSame ==
    ASSUME NEW f \in KeySets, NEW g \in KeySets, NEW B, NEW b, NEW h
    PROVE  /\ b \in B => /\ SameIn(Merge(f, g, B), h, b) <=> SameIn(g, h, b)
                         /\ SameIn(h, Merge(f, g, B), b) <=> SameIn(h, g, b)
                         /\ SameIn(g, Merge(f, g, B), b)
           /\ b \notin B => /\ SameIn(Merge(f, g, B), h, b) <=> SameIn(f, h, b)
                            /\ SameIn(h, Merge(f, g, B), b) <=> SameIn(h, f, b)
<1>1. \A k \in KeysOf(b) : k \in Keys /\ BackendOf[k] = b
  BY DEF KeysOf
<1>2. \A k \in KeysOf(b) : Merge(f, g, B)[k] = IF b \in B THEN g[k] ELSE f[k]
  BY <1>1, MergeType
<1> QED
  BY <1>2 DEF SameIn

\* Keysets with the same keys in a backend have as many there.
LEMMA SameSize ==
    ASSUME NEW f, NEW g, NEW b, SameIn(f, g, b)
    PROVE  SizeOf(f, b) = SizeOf(g, b)
<1>1. {k \in KeysOf(b) : f[k] # Absent} = {k \in KeysOf(b) : g[k] # Absent}
  BY DEF SameIn
<1> QED
  BY <1>1 DEF SizeOf

\* A backend has no keys exactly if it is like the empty keyset.
LEMMA ZeroIsEmpty ==
    ASSUME NEW f, NEW b
    PROVE  SizeOf(f, b) = 0 <=> SameIn(f, Empty, b)
<1>1. \A k \in KeysOf(b) : Empty[k] = Absent
  BY DEF Empty, KeysOf
<1> QED
  BY <1>1, SizeOfType DEF SameIn

\* Keysets that are the same in every backend are the same.
LEMMA SameEverywhere ==
    ASSUME NEW f \in KeySets, NEW g \in KeySets, \A b \in Backends : SameIn(f, g, b)
    PROVE  \A k \in Keys : f[k] = g[k]
  BY ConstantTypes DEF SameIn, KeysOf

-----------------------------------------------------------------------------
(***************************************************************************)
(* What the handle knows of the files.                                     *)
(***************************************************************************)

\* The resolver knows the stamp of a file only if the handle has its content in
\* base, or kdbGet() has it to read, or has read it into got.
Known ==
    /\ fresh \subseteq exists
    /\ pc \in {"check", "read"} => bits \subseteq exists
    /\ \A b \in fresh : (pc \in {"check", "read"} => b \notin bits) => SameIn(base, file, b)
    /\ pc = "read" => \A b \in fresh \cap bits : b < i => SameIn(got, file, b)

\* Known is kept.
LEMMA KnownStep ==
    ASSUME ReadsSucceed, TwoPhase, Known, [Next]_vars
    PROVE  Known'
<1> USE DEF Return
<1>0. /\ file \in KeySets /\ ks \in KeySets /\ got \in KeySets /\ base \in KeySets
      /\ fresh \in SUBSET Backends /\ bits \in SUBSET Backends /\ split \in SUBSET Backends
  BY DEF TwoPhase, TypeOK
<1>1. CASE UNCHANGED vars
  BY <1>1 DEF vars, fileVars, resolverVars, callVars, Known
<1>2. CASE application
  BY <1>2 DEF application, SetKey, PopKey, fileVars, resolverVars, callVars, Known
<1>3. CASE others
  <2>1. PICK b \in Backends, f \in KeySets : ExternalSet(b, f)
    BY <1>3 DEF others, ExternalRemove, ReadsSucceed
  <2>2. /\ file' = Merge(file, f, {b}) /\ fresh' = fresh \ {b} /\ exists' = exists \cup {b}
        /\ pc' = pc /\ bits' = bits /\ got' = got /\ base' = base /\ i' = i
    BY <2>1 DEF ExternalSet, callVars
  <2>3. \A c : c # b => /\ SameIn(base, file', c) <=> SameIn(base, file, c)
                        /\ SameIn(got, file', c) <=> SameIn(got, file, c)
    BY <1>0, <2>2, MergeSame
  <2> QED
    BY <2>2, <2>3 DEF Known
<1>4. ASSUME NEW S \in GetParents, GetBegin(S)
      PROVE  Known'
  BY <1>4 DEF GetBegin, Known, fileVars, resolverVars
<1>5. CASE GetCheck
  <2>1. pc' = "check" /\ file' = file /\ exists' = exists /\ pc = "check"
    BY <1>5 DEF GetCheck, fileVars
  <2>2. CASE i \notin exists
    <3>1. base' = Merge(base, Empty, {i}) /\ fresh' = fresh /\ bits' = bits
      BY <1>5, <2>2 DEF GetCheck
    <3>2. \A b : b # i => (SameIn(base', file, b) <=> SameIn(base, file, b))
      BY <1>0, <3>1, MergeSame, EmptyType
    <3>3. i \notin fresh
      BY <2>2 DEF Known
    <3> QED
      BY <2>1, <3>1, <3>2, <3>3 DEF Known
  <2>3. CASE i \in exists
    <3>1. /\ base' = base /\ fresh' = fresh \cup {i}
          /\ bits' = IF i \in fresh THEN bits ELSE bits \cup {i}
      BY <1>5, <2>3 DEF GetCheck
    <3> QED
      BY <2>1, <2>3, <3>1 DEF Known
  <2> QED
    BY <2>2, <2>3
<1>6. CASE GetNoUpdate
  BY <1>6 DEF GetNoUpdate, Known, fileVars, resolverVars, callVars
<1>7. CASE GetUpdate
  <2>1. /\ pc = "check" /\ pc' = "read" /\ i' = After(0, bits)
        /\ UNCHANGED <<file, exists, fresh, bits, base, got>>
    BY <1>7 DEF GetUpdate, fileVars, resolverVars
  <2>2. \A b \in bits : ~(b < i')
    <3>1. \A b \in bits : b >= After(0, bits)
      BY <1>0, LoopBegin
    <3>2. After(0, bits) \in 0 .. N + 1
      BY <1>0, ConstantTypes, AfterIsNext
    <3> QED
      BY <1>0, <2>1, <3>1, <3>2, ConstantTypes DEF Backends
  <2> QED
    BY <2>1, <2>2 DEF Known
<1>8. CASE GetRead
  <2>1. /\ pc = "read" /\ pc' = "read" /\ i \in bits /\ i' = After(i, bits)
        /\ got' = Merge(got, file, {i})
        /\ UNCHANGED <<file, exists, fresh, bits, base>>
    BY <1>8 DEF GetRead, fileVars, resolverVars
  <2>2. \A b \in bits : b < i' => b < i \/ b = i
    <3>1. \A b \in bits : b < i' => b <= i
      BY <1>0, <2>1, LoopStep DEF TwoPhase
    <3> QED
      BY <1>0, <2>1, <3>1 DEF Backends
  <2>3. /\ SameIn(got', file, i)
        /\ \A b : b # i => (SameIn(got', file, b) <=> SameIn(got, file, b))
    <3>1. SameIn(file, file, i)
      BY DEF SameIn
    <3> QED
      BY <1>0, <2>1, <3>1, MergeSame
  <2> QED
    BY <2>1, <2>2, <2>3 DEF Known
<1>9. CASE GetFail
  <2>1. i \in bits /\ i \notin exists /\ pc = "read"
    BY <1>9 DEF GetFail, ReadsSucceed
  <2> QED
    BY <2>1 DEF Known
<1>10. CASE GetMerge
  <2>1. /\ pc = "read" /\ pc' = "idle" /\ base' = Merge(base, got, bits)
        /\ UNCHANGED <<file, exists, fresh, bits>>
    BY <1>10 DEF GetMerge, fileVars, resolverVars, callVars
  <2>2. \A b \in bits : b < i
    BY <1>10, LoopDone DEF GetMerge, TwoPhase
  <2>3. \A b \in fresh : SameIn(base', file, b) <=>
                           IF b \in bits THEN SameIn(got, file, b) ELSE SameIn(base, file, b)
    BY <1>0, <2>1, MergeSame
  <2> QED
    BY <2>1, <2>2, <2>3 DEF Known
<1>11. ASSUME NEW S \in SetParents, SetBegin(S)
       PROVE  Known'
  <2>1. pc = "idle" /\ pc' \in {"idle", "prepare"} /\ UNCHANGED <<file, exists, fresh, base>>
    BY <1>11 DEF SetBegin, fileVars, resolverVars
  <2> QED
    BY <2>1 DEF Known
<1>12. CASE SetPrepare \/ SetPrepared \/ SetCommitFail \/ SetFinish
  <2>1. /\ pc \in {"prepare", "commit"} /\ pc' \in {"idle", "prepare", "commit"}
        /\ UNCHANGED <<file, fresh, base>> /\ exists \subseteq exists'
    BY <1>12 DEF SetPrepare, SetPrepared, SetCommitFail, SetFinish, fileVars, resolverVars
  <2> QED
    BY <2>1 DEF Known
<1>13. CASE SetCommit
  <2>1. /\ pc = "commit" /\ pc' = "commit"
        /\ file' = Merge(file, ks, {i}) /\ base' = Merge(base, ks, {i})
        /\ \/ exists' = exists \ {i} /\ fresh' = fresh \ {i}
           \/ exists' = exists \cup {i} /\ fresh' = fresh \cup {i}
    BY <1>13 DEF SetCommit
  <2>2. SameIn(base', file', i)
    <3>1. SameIn(ks, Merge(file, ks, {i}), i)
      BY <1>0, MergeSame
    <3> QED
      BY <1>0, <2>1, <3>1, MergeSame
  <2>3. \A b : b # i => (SameIn(base', file', b) <=> SameIn(base, file, b))
    <3>1. \A b : b # i => (SameIn(base', file', b) <=> SameIn(base, file', b))
      BY <1>0, <2>1, MergeSame
    <3>2. \A b : b # i => (SameIn(base, file', b) <=> SameIn(base, file, b))
      BY <1>0, <2>1, MergeSame
    <3> QED
      BY <3>1, <3>2
  <2> QED
    BY <2>1, <2>2, <2>3 DEF Known
<1> QED
  BY <1>1, <1>2, <1>3, <1>4, <1>5, <1>6, <1>7, <1>8, <1>9, <1>10, <1>11, <1>12, <1>13
     DEF Next, kdbGet, kdbSet

\* Known holds at all times.
LEMMA KnownAlways ==
    ASSUME ReadsSucceed
    PROVE  Spec => []Known
<1>1. Init => Known
  BY DEF Init, Known
<1>2. TwoPhase /\ Known /\ [Next]_vars => Known'
  BY KnownStep
<1> QED
  BY <1>1, <1>2, TwoPhaseAlways, PTL DEF Spec

\* As long as reading never fails, a file whose stamp the resolver knows was
\* read: the next kdbGet() skips no change, and kdbSet() overwrites nothing that
\* the handle has not seen.  Conflicts, failing writes and commits, unsaved
\* changes and emptied backends do not matter.
THEOREM KnownFilesWereRead ==
    ASSUME ReadsSucceed
    PROVE  Spec => []KnownMeansRead
<1>1. Known => KnownMeansRead
  BY DEF Known, KnownMeansRead
<1> QED
  BY <1>1, KnownAlways, PTL

-----------------------------------------------------------------------------
(***************************************************************************)
(* What a commit replaces.                                                 *)
(***************************************************************************)

\* A file that is not there holds no keys, and neither does what the handle knows
\* of a file it has missed; a file it has locked is as its last get left it.
Unseen ==
    /\ \A b \in Backends \ exists : SameIn(file, Empty, b)
    /\ \A b \in missing : SameIn(base, Empty, b)
    /\ pc \in {"check", "read"} => bits \cap missing = {}
    /\ \A b \in locked : ~Conflict(b)

\* Unseen is kept: who is locked out cannot cause a conflict later.
LEMMA UnseenStep ==
    ASSUME ReadsSucceed, TwoPhase, Known, Unseen, [Next]_vars
    PROVE  Unseen'
<1> USE DEF Return
<1>0. /\ file \in KeySets /\ ks \in KeySets /\ got \in KeySets /\ base \in KeySets
      /\ pc \in {"idle", "check", "read"} => locked = {}
  BY DEF TwoPhase, TypeOK, Locks
<1>1. CASE UNCHANGED vars
  BY <1>1 DEF vars, fileVars, resolverVars, callVars, Unseen, Conflict
<1>2. CASE application
  BY <1>2 DEF application, SetKey, PopKey, fileVars, resolverVars, callVars, Unseen, Conflict
<1>3. CASE others
  <2>1. PICK b \in Backends, f \in KeySets : ExternalSet(b, f)
    BY <1>3 DEF others, ExternalRemove, ReadsSucceed
  <2>2. /\ file' = Merge(file, f, {b}) /\ fresh' = fresh \ {b} /\ exists' = exists \cup {b}
        /\ b \notin locked
        /\ UNCHANGED <<pc, bits, base, missing, locked>>
    BY <2>1 DEF ExternalSet, callVars
  <2>3. \A c : c # b => (SameIn(file', Empty, c) <=> SameIn(file, Empty, c))
    BY <1>0, <2>2, MergeSame
  <2>4. \A c \in locked : ~Conflict(c)'
    BY <2>2 DEF Unseen, Conflict
  <2> QED
    BY <2>2, <2>3, <2>4 DEF Unseen
<1>4. ASSUME NEW S \in GetParents, GetBegin(S)
      PROVE  Unseen'
  BY <1>4 DEF GetBegin, Unseen, Conflict, fileVars, resolverVars
<1>5. CASE GetCheck
  <2>1. /\ pc' = "check" /\ pc = "check" /\ locked' = {}
        /\ UNCHANGED <<file, exists>>
    BY <1>0, <1>5 DEF GetCheck, fileVars
  <2>2. CASE i \notin exists
    <3>1. base' = Merge(base, Empty, {i}) /\ missing' = missing \cup {i} /\ bits' = bits
      BY <1>5, <2>2 DEF GetCheck
    <3>2. /\ SameIn(base', Empty, i)
          /\ \A b : b # i => (SameIn(base', Empty, b) <=> SameIn(base, Empty, b))
      <4>1. SameIn(Empty, Empty, i)
        BY DEF SameIn
      <4> QED
        BY <1>0, <3>1, <4>1, MergeSame, EmptyType
    <3>3. i \notin bits
      BY <2>1, <2>2 DEF Known
    <3> QED
      BY <2>1, <3>1, <3>2, <3>3 DEF Unseen
  <2>3. CASE i \in exists
    <3>1. base' = base /\ missing' = missing \ {i} /\ bits' \subseteq bits \cup {i}
      BY <1>5, <2>3 DEF GetCheck
    <3> QED
      BY <2>1, <3>1 DEF Unseen
  <2> QED
    BY <2>2, <2>3
<1>6. CASE GetNoUpdate \/ GetUpdate \/ GetRead \/ GetFail
  <2>1. /\ pc \in {"check", "read"} /\ UNCHANGED <<file, exists, fresh, missing, locked, base>>
        /\ bits' = bits
    BY <1>6 DEF GetNoUpdate, GetUpdate, GetRead, GetFail, fileVars, resolverVars, callVars
  <2> QED
    BY <2>1 DEF Unseen, Conflict
<1>7. CASE GetMerge
  <2>1. /\ pc = "read" /\ pc' = "idle" /\ base' = Merge(base, got, bits)
        /\ UNCHANGED <<file, exists, fresh, missing, locked>>
    BY <1>7 DEF GetMerge, fileVars, resolverVars
  <2>2. \A b \in missing : b \notin bits
    BY <2>1 DEF Unseen
  <2>3. \A b \in missing : SameIn(base', Empty, b)
    BY <1>0, <2>1, <2>2, MergeSame DEF Unseen
  <2> QED
    BY <2>1, <2>3 DEF Unseen, Conflict
<1>8. ASSUME NEW S \in SetParents, SetBegin(S)
      PROVE  Unseen'
  <2>1. /\ pc' \in {"idle", "prepare"}
        /\ UNCHANGED <<file, exists, fresh, missing, locked, base>>
    BY <1>8 DEF SetBegin, fileVars, resolverVars
  <2> QED
    BY <2>1 DEF Unseen, Conflict
<1>9. CASE SetPrepare
  <2>1. /\ pc' = "prepare" /\ UNCHANGED <<file, exists, fresh, missing, base>>
        /\ \A b \in locked' : b \in locked \/ ~Conflict(b)
    BY <1>9 DEF SetPrepare, fileVars
  <2> QED
    BY <2>1 DEF Unseen, Conflict
<1>10. CASE SetPrepared \/ SetFinish
  <2>1. /\ pc' \in {"idle", "commit"} /\ UNCHANGED <<file, exists, fresh, missing, base>>
        /\ locked' \subseteq locked
    BY <1>10 DEF SetPrepared, SetFinish, fileVars, resolverVars
  <2> QED
    BY <2>1 DEF Unseen, Conflict
<1>11. CASE SetCommitFail
  <2>1. /\ pc' = "commit" /\ UNCHANGED <<file, fresh, base>>
        /\ exists' = exists \cup ({i} \cap missing)
        /\ missing' = missing \ {i} /\ locked' = locked \ {i}
    BY <1>11 DEF SetCommitFail
  <2>2. \A b \in locked' : ~Conflict(b)'
    BY <2>1 DEF Unseen, Conflict
  <2> QED
    BY <2>1, <2>2 DEF Unseen
<1>12. CASE SetCommit
  <2>1. /\ pc' = "commit" /\ locked' = locked \ {i}
        /\ file' = Merge(file, ks, {i}) /\ base' = Merge(base, ks, {i})
        /\ \/ /\ SizeOf(ks, i) = 0 /\ exists' = exists \ {i}
              /\ fresh' = fresh \ {i} /\ missing' = missing
           \/ /\ exists' = exists \cup {i} /\ fresh' = fresh \cup {i}
              /\ missing' = missing \ {i}
    BY <1>12 DEF SetCommit
  <2>2. \A b : b # i => /\ SameIn(file', Empty, b) <=> SameIn(file, Empty, b)
                        /\ SameIn(base', Empty, b) <=> SameIn(base, Empty, b)
    BY <1>0, <2>1, MergeSame
  <2>3. SizeOf(ks, i) = 0 => SameIn(file', Empty, i) /\ SameIn(base', Empty, i)
    BY <1>0, <2>1, MergeSame, ZeroIsEmpty
  <2>4. \A b \in locked' : ~Conflict(b)'
    BY <2>1 DEF Unseen, Conflict
  <2> QED
    BY <2>1, <2>2, <2>3, <2>4 DEF Unseen
<1> QED
  BY <1>1, <1>2, <1>3, <1>4, <1>5, <1>6, <1>7, <1>8, <1>9, <1>10, <1>11, <1>12
     DEF Next, kdbGet, kdbSet

\* The size of a backend without keys is 0 or not known yet, so that kdbSet()
\* never stores it: every backend with the sync bit gets a new file.
NonEmpty ==
    /\ \A b \in Backends : SizeOf(ks, b) = 0 => size[b] \in {-1, 0}
    /\ pc \in {"prepare", "commit"} => \A b \in bits : SizeOf(ks, b) # 0

\* An edit of the application leaves a backend without keys only if it had none.
LEMMA EditKeepsOne ==
    ASSUME ~MayEmpty, TypeOK, NEW k \in Keys,
           PopKey(k) \/ \E v \in Values : SetKey(k, v),
           NEW b \in Backends, SizeOf(ks', b) = 0
    PROVE  b # BackendOf[k] /\ SameIn(ks', ks, b) /\ SizeOf(ks, b) = 0
<1>0. ks \in KeySets /\ \A l \in Keys : l # k => ks'[l] = ks[l]
  BY DEF TypeOK, KeySets, PopKey, SetKey
<1>1. \A l \in KeysOf(b) : ks'[l] = Absent
  BY SizeOfType
<1>2. b # BackendOf[k]
  <2>1. CASE \E v \in Values : SetKey(k, v)
    <3>1. ks'[k] # Absent
      BY <1>0, <2>1, ConstantTypes DEF SetKey, KeySets
    <3> QED
      BY <1>1, <3>1 DEF KeysOf
  <2>2. ASSUME PopKey(k), b = BackendOf[k]
        PROVE  FALSE
    <3> DEFINE T == {l \in KeysOf(b) : ks[l] # Absent}
    <3>1. SizeOf(ks, b) > 1
      BY <2>2 DEF PopKey
    <3>2. IsFiniteSet(T) /\ Cardinality(T) > 1 /\ k \in T
      BY <2>2, <3>1, SizeOfType DEF SizeOf, PopKey, KeysOf
    <3>3. IsFiniteSet(T \ {k}) /\ Cardinality(T \ {k}) = Cardinality(T) - 1
      BY <3>2, FS_RemoveElement
    <3>4. Cardinality(T) \in Nat
      BY <3>2, FS_CardinalityType
    <3>5. T \ {k} # {}
      BY <3>2, <3>3, <3>4, FS_EmptySet
    <3> QED
      BY <1>0, <1>1, <3>5 DEF KeysOf
  <2> QED
    BY <2>1, <2>2
<1>3. SameIn(ks', ks, b)
  BY <1>0, <1>2 DEF SameIn, KeysOf
<1> QED
  BY <1>2, <1>3, SameSize

\* NonEmpty is kept.
LEMMA NonEmptyStep ==
    ASSUME ~MayEmpty, TwoPhase, NonEmpty, [Next]_vars
    PROVE  NonEmpty'
<1> USE DEF Return
<1>0. /\ ks \in KeySets /\ got \in KeySets /\ size \in [Backends -> -1 .. Cardinality(Keys)]
      /\ bits \in SUBSET Backends
  BY DEF TwoPhase, TypeOK
<1>1. CASE UNCHANGED vars
  BY <1>1 DEF vars, appVars, callVars, NonEmpty
<1>2. CASE application
  <2>1. PICK k \in Keys : PopKey(k) \/ \E v \in Values : SetKey(k, v)
    BY <1>2 DEF application
  <2>2. pc' = "idle" /\ size' = size
    BY <2>1 DEF PopKey, SetKey
  <2>3. \A b \in Backends : SizeOf(ks', b) = 0 => SizeOf(ks, b) = 0
    BY <2>1, EditKeepsOne DEF TwoPhase
  <2> QED
    BY <2>2, <2>3 DEF NonEmpty
<1>3. CASE others
  BY <1>3 DEF others, ExternalSet, ExternalRemove, appVars, callVars, NonEmpty
<1>4. ASSUME NEW S \in GetParents, GetBegin(S)
      PROVE  NonEmpty'
  BY <1>4 DEF GetBegin, NonEmpty, appVars
<1>5. CASE GetCheck
  <2>1. pc' = "check" /\ ks' = ks /\ size' = [size EXCEPT ![i] = 0]
    BY <1>5 DEF GetCheck, appVars
  <2>2. \A b \in Backends : size'[b] \in {size[b], 0}
    BY <1>0, <2>1
  <2> QED
    BY <2>1, <2>2 DEF NonEmpty
<1>6. CASE GetNoUpdate \/ GetUpdate \/ GetRead \/ GetFail
  <2>1. pc' \in {"idle", "read"} /\ UNCHANGED <<ks, size>>
    BY <1>6 DEF GetNoUpdate, GetUpdate, GetRead, GetFail, appVars
  <2> QED
    BY <2>1 DEF NonEmpty
<1>7. CASE GetMerge
  <2>1. /\ pc' = "idle" /\ ks' = Merge(ks, got, bits) /\ bits \subseteq split
        /\ \A b \in Backends : size'[b] = IF b \in split THEN SizeOf(ks', b) ELSE size[b]
    BY <1>7 DEF GetMerge, Merged, TwoPhase, Loop
  <2>2. \A b \in Backends \ split : SizeOf(ks', b) = SizeOf(ks, b)
    <3>1. ASSUME NEW b \in Backends \ split
          PROVE  SameIn(ks', ks, b)
      <4>1. SameIn(ks, ks, b) /\ b \notin bits
        BY <2>1 DEF SameIn
      <4> QED
        BY <1>0, <2>1, <4>1, MergeSame
    <3> QED
      BY <3>1, SameSize
  <2> QED
    BY <2>1, <2>2 DEF NonEmpty
<1>8. ASSUME NEW S \in SetParents, SetBegin(S)
      PROVE  NonEmpty'
  <2>1. UNCHANGED <<ks, size>>
    BY <1>8 DEF SetBegin, appVars
  <2>2. CASE pc' = "idle"
    BY <2>1, <2>2 DEF NonEmpty
  <2>3. CASE bits' = NeedSync(S) /\ \A b \in S : size[b] # -1
    <3>1. S \in SUBSET Backends
      BY ConstantTypes
    <3>2. ASSUME NEW b \in NeedSync(S), SizeOf(ks, b) = 0
          PROVE  FALSE
      <4>1. b \in S /\ b \in Backends /\ size[b] = 0
        BY <2>3, <3>1, <3>2 DEF NonEmpty, NeedSync
      <4>2. \A k \in KeysOf(b) : ks[k] = Absent
        BY <3>2, SizeOfType
      <4> QED
        BY <3>2, <4>1, <4>2 DEF NeedSync
    <3> QED
      BY <2>1, <2>3, <3>2 DEF NonEmpty
  <2> QED
    BY <1>8, <2>2, <2>3 DEF SetBegin
<1>9. CASE SetPrepare \/ SetPrepared \/ SetCommit \/ SetCommitFail
  <2>1. pc \in {"prepare", "commit"} /\ UNCHANGED <<ks, size, bits>>
    BY <1>9 DEF SetPrepare, SetPrepared, SetCommit, SetCommitFail, appVars
  <2> QED
    BY <2>1 DEF NonEmpty
<1>10. CASE SetFinish
  <2>1. /\ pc' = "idle" /\ ks' = ks
        /\ \A b \in Backends : size'[b] = IF b \in bits THEN SizeOf(ks, b) ELSE size[b]
    BY <1>10 DEF SetFinish
  <2> QED
    BY <2>1 DEF NonEmpty
<1> QED
  BY <1>1, <1>2, <1>3, <1>4, <1>5, <1>6, <1>7, <1>8, <1>9, <1>10 DEF Next, kdbGet, kdbSet

\* The handle has seen what it is about to replace: its last get found the file
\* in this state, or found none.
LEMMA LockedIsSeen ==
    ASSUME TwoPhase, Known, Unseen, NonEmpty, SetCommit
    PROVE  SameIn(base, file, i)
<1>1. i \in bits /\ pc = "commit" /\ i \in Backends /\ SizeOf(ks, i) # 0
  BY DEF SetCommit, NonEmpty, TwoPhase, TypeOK
<1>2. i >= i /\ SizeOf(ks, i) > 0
  <2>1. SizeOf(ks, i) \in 0 .. Cardinality(Keys) /\ Cardinality(Keys) \in Nat
    BY SizeOfType, FS_CardinalityType, KdbAssumption
  <2> QED
    BY <1>1, <2>1 DEF Backends
<1>3. i \in locked
  BY <1>1, <1>2 DEF TwoPhase, Locks
<1>4. CASE i \in exists
  BY <1>1, <1>3, <1>4 DEF Unseen, Conflict, Known
<1>5. CASE i \notin exists
  <2>1. SameIn(base, Empty, i) /\ SameIn(file, Empty, i)
    BY <1>1, <1>3, <1>5 DEF Unseen, Conflict
  <2> QED
    BY <2>1 DEF SameIn
<1> QED
  BY <1>4, <1>5

\* As long as reading never fails and the application leaves every backend a key,
\* a commit replaces only keys that the handle has read or written itself.
THEOREM CommitsReplaceSeen ==
    ASSUME ReadsSucceed, ~MayEmpty
    PROVE  Spec => CommitReplacesSeen
<1>1. Init => Unseen /\ NonEmpty
  <2> SUFFICES ASSUME Init
               PROVE  Unseen /\ NonEmpty
    OBVIOUS
  <2>1. ASSUME NEW b \in Backends \ exists
        PROVE  SameIn(file, Empty, b)
    <3>1. SizeOf(file, b) \in 0 .. Cardinality(Keys) /\ ~(SizeOf(file, b) > 0)
      BY <2>1, SizeOfType DEF Init
    <3>2. SizeOf(file, b) = 0
      BY <3>1
    <3> QED
      BY <3>2, ZeroIsEmpty
  <2> QED
    BY <2>1 DEF Init, Unseen, NonEmpty
<1>2. TwoPhase /\ Known /\ Unseen /\ [Next]_vars => Unseen'
  BY UnseenStep
<1>3. TwoPhase /\ NonEmpty /\ [Next]_vars => NonEmpty'
  BY NonEmptyStep
<1>4. TwoPhase /\ Known /\ Unseen /\ NonEmpty => [SetCommit => SameIn(base, file, i)]_vars
  BY LockedIsSeen
<1> QED
  BY <1>1, <1>2, <1>3, <1>4, TwoPhaseAlways, KnownAlways, PTL DEF Spec, CommitReplacesSeen

-----------------------------------------------------------------------------
(***************************************************************************)
(* What the application is told of its changes.                            *)
(***************************************************************************)

\* Before kdbGet() nothing is unsaved.  A key that is not as it was read or
\* written last is in a dirty backend, and has the sync flag unless it is gone.
\* A backend without keys has no change.  The size of a backend is the one of
\* what was read or written last, or 0 after a kdbGet() that read nothing.
\* kdbSet() has the sync bit for every change, and stores one after the other.
Edits ==
    /\ pc \in {"check", "read"} => dirty = {} /\ bits \subseteq exists
    /\ \A b \in Backends \ exists : SameIn(base, Empty, b)
    /\ \A k \in Keys : ks[k] # base[k] =>
          BackendOf[k] \in dirty /\ (ks[k] # Absent => k \in sync)
    /\ \A b \in Backends : SizeOf(ks, b) = 0 => SameIn(ks, base, b)
    /\ \A b \in Backends :
          IF pc = "commit" /\ b \in bits /\ b < i
          THEN SameIn(ks, base, b)
          ELSE size[b] \in {-1, 0, SizeOf(base, b)}
    /\ pc \in {"prepare", "commit"} => \A b \in Backends \ bits : SameIn(ks, base, b)

\* splitSync() misses no change: a backend without changed keys and with the
\* size it had is as it was read or written.
LEMMA NotNeeded ==
    ASSUME TwoPhase, Edits, pc = "idle", NEW S, NEW b \in S \cap Backends,
           size[b] # -1, b \notin NeedSync(S)
    PROVE  SameIn(ks, base, b)
<1>1. /\ \A k \in KeysOf(b) : k \in sync => ks[k] = Absent
      /\ size[b] = SizeOf(ks, b)
  BY DEF NeedSync
<1>2. CASE size[b] = 0
  BY <1>1, <1>2 DEF Edits
<1>3. CASE size[b] # 0
  <2> DEFINE T == {k \in KeysOf(b) : base[k] # Absent}
             U == {k \in KeysOf(b) : ks[k] # Absent}
  <2>1. size[b] = SizeOf(base, b)
    BY <1>3 DEF Edits
  <2>2. \A k \in KeysOf(b) : ks[k] # base[k] => ks[k] = Absent
    BY <1>1 DEF Edits, KeysOf
  <2>3. U \in SUBSET T
    BY <2>2
  <2>4. IsFiniteSet(T) /\ Cardinality(T) = Cardinality(U)
    BY <1>1, <2>1, SizeOfType DEF SizeOf
  <2>5. T = U
    BY <2>3, <2>4, FS_Subset
  <2> QED
    BY <2>2, <2>5 DEF SameIn
<1> QED
  BY <1>2, <1>3

\* Nothing is unsaved: the keyset is what was read or written last.
LEMMA CleanIsBase ==
    ASSUME TypeOK, Edits, dirty = {}
    PROVE  ks = base
<1>1. ks \in KeySets /\ base \in KeySets
  BY DEF TypeOK
<1>2. \A k \in Keys : ks[k] = base[k]
  BY DEF Edits
<1> QED
  BY <1>1, <1>2 DEF KeySets

\* The application's changes keep Edits.
LEMMA EditsApplication ==
    ASSUME WholeCalls, TwoPhase, Edits, application
    PROVE  Edits'
<1>1. PICK k \in Keys : PopKey(k) \/ \E v \in Values : SetKey(k, v)
  BY DEF application
<1>2. /\ pc' = "idle" /\ UNCHANGED <<size, base, exists, bits, i>>
      /\ dirty' = dirty \cup {BackendOf[k]}
  BY <1>1 DEF PopKey, SetKey, fileVars, callVars
<1>3. /\ \A l \in Keys : l # k => ks'[l] = ks[l]
      /\ \A l \in Keys : l # k => (l \in sync' <=> l \in sync)
      /\ ks'[k] # Absent => k \in sync'
  <2>1. ks \in KeySets
    BY DEF TwoPhase, TypeOK
  <2> QED
    BY <1>1, <2>1 DEF PopKey, SetKey, KeySets
<1>4. ASSUME NEW l \in Keys, ks'[l] # base[l]
      PROVE  BackendOf[l] \in dirty' /\ (ks'[l] # Absent => l \in sync')
  <2>1. CASE l = k
    BY <1>2, <1>3, <2>1
  <2>2. CASE l # k
    BY <1>2, <1>3, <1>4, <2>2 DEF Edits
  <2> QED
    BY <2>1, <2>2
<1>5. ASSUME NEW b \in Backends, SizeOf(ks', b) = 0
      PROVE  SameIn(ks', base, b)
  <2>1. SameIn(ks', ks, b) /\ SizeOf(ks, b) = 0
    BY <1>1, <1>5, EditKeepsOne DEF TwoPhase, WholeCalls
  <2>2. SameIn(ks, base, b)
    BY <2>1 DEF Edits
  <2> QED
    BY <2>1, <2>2 DEF SameIn
<1>6. pc = "idle"
  BY <1>1 DEF PopKey, SetKey
<1>7. \A b \in Backends : size[b] \in {-1, 0, SizeOf(base, b)}
  BY <1>6 DEF Edits
<1> QED
  BY <1>2, <1>4, <1>5, <1>7 DEF Edits

\* kdbGet() keeps Edits.
LEMMA EditsGet ==
    ASSUME WholeCalls, TwoPhase, Edits, kdbGet
    PROVE  Edits'
<1> USE DEF Return
<1>0. /\ ks \in KeySets /\ got \in KeySets /\ base \in KeySets
      /\ size \in [Backends -> -1 .. Cardinality(Keys)]
      /\ bits \in SUBSET Backends
  BY DEF TwoPhase, TypeOK
<1>1. ASSUME NEW S \in GetParents, GetBegin(S)
      PROVE  Edits'
  <2>1. /\ pc = "idle" /\ pc' = "check" /\ dirty = {} /\ bits' = {}
        /\ UNCHANGED <<exists, size, ks, sync, dirty, base>>
    BY <1>1 DEF GetBegin, WholeCalls, fileVars, appVars
  <2> QED
    BY <2>1 DEF Edits
<1>2. CASE GetCheck
  <2>1. /\ pc = "check" /\ pc' = "check" /\ UNCHANGED <<exists, ks, sync, dirty>>
        /\ size' = [size EXCEPT ![i] = 0]
        /\ bits' \subseteq exists
    BY <1>2 DEF GetCheck, fileVars, appVars, Edits
  <2>2. \A b \in Backends : size'[b] \in {0, size[b]}
    BY <1>0, <2>1
  <2>3. base' = base
    <3>1. CASE i \in exists
      BY <1>2, <3>1 DEF GetCheck
    <3>2. CASE i \notin exists
      <4>1. base' = Merge(base, Empty, {i}) /\ i \in Backends
        BY <1>2, <3>2 DEF GetCheck, TwoPhase, TypeOK
      <4>2. SameIn(base, Empty, i)
        BY <3>2, <4>1 DEF Edits
      <4>3. \A k \in Keys : base'[k] = base[k]
        BY <1>0, <4>1, <4>2, MergeType, EmptyType DEF SameIn, KeysOf
      <4>4. base' \in KeySets
        BY <1>0, <4>1, MergeType, EmptyType
      <4> QED
        BY <1>0, <4>3, <4>4 DEF KeySets
    <3> QED
      BY <3>1, <3>2
  <2> QED
    BY <2>1, <2>2, <2>3 DEF Edits
<1>3. CASE GetNoUpdate \/ GetUpdate \/ GetRead \/ GetFail
  <2>1. /\ pc \in {"check", "read"} /\ pc' \in {"idle", "read"}
        /\ UNCHANGED <<exists, size, ks, sync, dirty, base, bits>>
    BY <1>3 DEF GetNoUpdate, GetUpdate, GetRead, GetFail, fileVars, appVars, callVars
  <2> QED
    BY <2>1 DEF Edits
<1>4. CASE GetMerge
  <2>1. /\ pc = "read" /\ pc' = "idle" /\ ks' = Merge(ks, got, bits)
        /\ base' = Merge(base, got, bits) /\ exists' = exists
        /\ \A b \in Backends : size'[b] = IF b \in split THEN SizeOf(ks', b) ELSE size[b]
        /\ bits \subseteq split /\ bits \subseteq exists
    BY <1>4 DEF GetMerge, Merged, fileVars, TwoPhase, Loop, Edits
  <2>2. ks' = base'
    <3>1. ks = base
      BY <2>1, CleanIsBase DEF TwoPhase, Edits
    <3> QED
      BY <2>1, <3>1
  <2>3. \A b \in Backends : SameIn(ks', base', b)
    BY <2>2 DEF SameIn
  <2>4. \A b \in Backends \ exists : SameIn(base', Empty, b)
    BY <1>0, <2>1, MergeSame DEF Edits
  <2>5. \A b \in Backends : size'[b] \in {-1, 0, SizeOf(base', b)}
    <3>1. ASSUME NEW b \in Backends \ split
          PROVE  SizeOf(base', b) = SizeOf(base, b)
      <4>1. b \notin bits /\ SameIn(base, base, b)
        BY <2>1 DEF SameIn
      <4>2. SameIn(base', base, b)
        BY <1>0, <2>1, <4>1, MergeSame
      <4> QED
        BY <4>2, SameSize
    <3> QED
      BY <2>1, <2>2, <3>1 DEF Edits
  <2> QED
    BY <2>1, <2>2, <2>3, <2>4, <2>5 DEF Edits
<1> QED
  BY <1>1, <1>2, <1>3, <1>4 DEF kdbGet

\* kdbSet() keeps Edits.
LEMMA EditsSet ==
    ASSUME WholeCalls, TwoPhase, Edits, kdbSet
    PROVE  Edits'
<1> USE DEF Return
<1>0. /\ ks \in KeySets /\ base \in KeySets /\ bits \in SUBSET Backends
      /\ i \in 0 .. N + 1
  BY DEF TwoPhase, TypeOK
<1>1. ASSUME NEW S \in SetParents, SetBegin(S)
      PROVE  Edits'
  <2>1. pc = "idle" /\ UNCHANGED <<exists, size, ks, sync, dirty, base>>
    BY <1>1 DEF SetBegin, fileVars, appVars
  <2>2. CASE pc' = "idle"
    BY <2>1, <2>2 DEF Edits
  <2>3. CASE pc' = "prepare" /\ bits' = NeedSync(S) /\ \A b \in S : size[b] # -1
    <3>1. S = Backends
      BY DEF WholeCalls
    <3>2. \A b \in Backends \ NeedSync(S) : SameIn(ks, base, b)
      BY <2>1, <2>3, <3>1, NotNeeded
    <3> QED
      BY <2>1, <2>3, <3>2 DEF Edits
  <2> QED
    BY <1>1, <2>2, <2>3 DEF SetBegin
<1>2. CASE SetPrepare
  <2>1. /\ pc = "prepare" /\ pc' = "prepare"
        /\ UNCHANGED <<exists, size, ks, sync, dirty, base, bits>>
    BY <1>2 DEF SetPrepare, fileVars, appVars
  <2> QED
    BY <2>1 DEF Edits
<1>3. CASE SetPrepared
  <2>1. /\ pc = "prepare" /\ UNCHANGED <<exists, size, ks, sync, dirty, base, bits>>
        /\ pc' = "idle" \/ (pc' = "commit" /\ i' = After(0, bits))
    BY <1>3 DEF SetPrepared, fileVars, appVars
  <2>2. \A b \in bits : ~(b < After(0, bits))
    <3>1. \A b \in bits : b >= After(0, bits)
      BY <1>0, LoopBegin
    <3>2. After(0, bits) \in 0 .. N + 1
      BY <1>0, ConstantTypes, AfterIsNext
    <3> QED
      BY <1>0, <3>1, <3>2, ConstantTypes DEF Backends
  <2> QED
    BY <2>1, <2>2 DEF Edits
<1>4. CASE SetCommit
  <2>1. /\ pc = "commit" /\ pc' = "commit" /\ i \in bits /\ i' = After(i, bits)
        /\ UNCHANGED <<size, ks, sync, dirty, bits>>
        /\ base' = Merge(base, ks, {i})
        /\ \/ SizeOf(ks, i) = 0 /\ exists' = exists \ {i}
           \/ exists' = exists \cup {i}
    BY <1>4 DEF SetCommit, appVars
  <2>2. /\ SameIn(ks, base', i)
        /\ \A b : b # i => /\ SameIn(ks, base', b) <=> SameIn(ks, base, b)
                           /\ SameIn(base', Empty, b) <=> SameIn(base, Empty, b)
                           /\ SizeOf(base', b) = SizeOf(base, b)
    <3>1. ASSUME NEW b, b # i
          PROVE  SizeOf(base', b) = SizeOf(base, b)
      <4>1. SameIn(base', base, b)
        BY <1>0, <2>1, <3>1, MergeType DEF SameIn, KeysOf
      <4> QED
        BY <4>1, SameSize
    <3> QED
      BY <1>0, <2>1, <3>1, MergeSame
  <2>3. \A b \in Backends \ exists' : SameIn(base', Empty, b)
    <3>1. SizeOf(ks, i) = 0 => SameIn(base', Empty, i)
      BY <1>0, <2>1, MergeSame, ZeroIsEmpty
    <3> QED
      BY <2>1, <2>2, <3>1 DEF Edits
  <2>4. \A k \in Keys : ks[k] # base'[k] => ks[k] # base[k]
    BY <1>0, <2>1, MergeType
  <2>5. \A b \in bits : b < i' <=> (b < i \/ b = i)
    <3>1. \A b \in bits : b < i' <=> b <= i
      BY <1>0, <2>1, LoopStep DEF TwoPhase
    <3> QED
      BY <1>0, <2>1, <3>1 DEF Backends
  <2>6. \A b \in Backends : IF b \in bits /\ b < i'
                            THEN SameIn(ks, base', b)
                            ELSE size[b] \in {-1, 0, SizeOf(base', b)}
    BY <2>1, <2>2, <2>5 DEF Edits
  <2>7. \A b \in Backends : SizeOf(ks, b) = 0 => SameIn(ks, base', b)
    BY <2>2 DEF Edits
  <2>8. \A b \in Backends \ bits : SameIn(ks, base', b)
    BY <2>1, <2>2 DEF Edits
  <2> QED
    BY <2>1, <2>3, <2>4, <2>6, <2>7, <2>8 DEF Edits
<1>5. CASE SetCommitFail
  BY <1>5 DEF SetCommitFail, WholeCalls
<1>6. CASE SetFinish
  <2>1. /\ pc = "commit" /\ pc' = "idle" /\ UNCHANGED <<exists, ks, base>>
        /\ \A b \in Backends : size'[b] = IF b \in bits THEN SizeOf(ks, b) ELSE size[b]
    BY <1>6 DEF SetFinish, fileVars
  <2>2. \A b \in Backends : SameIn(ks, base, b)
    <3>1. \A b \in bits : b < i
      BY <1>6, LoopDone DEF SetFinish, TwoPhase
    <3> QED
      BY <2>1, <3>1 DEF Edits
  <2>3. \A k \in Keys : ks[k] = base[k]
    BY <1>0, <2>2, SameEverywhere
  <2>4. \A b \in Backends : SizeOf(ks, b) = SizeOf(base, b)
    BY <2>2, SameSize
  <2> QED
    BY <2>1, <2>2, <2>3, <2>4 DEF Edits
<1> QED
  BY <1>1, <1>2, <1>3, <1>4, <1>5, <1>6 DEF kdbSet

\* Edits is inductive.
LEMMA EditsStep ==
    ASSUME WholeCalls, TwoPhase, Edits, [Next]_vars
    PROVE  Edits'
<1>1. CASE UNCHANGED vars
  BY <1>1 DEF vars, fileVars, appVars, callVars, Edits
<1>2. CASE others
  <2>1. /\ exists \subseteq exists'
        /\ UNCHANGED <<size, ks, sync, dirty, base, bits, i, pc>>
    BY <1>2 DEF others, ExternalSet, ExternalRemove, WholeCalls, appVars, callVars
  <2> QED
    BY <2>1 DEF Edits
<1> QED
  BY <1>1, <1>2, EditsApplication, EditsGet, EditsSet DEF Next

\* Edits holds at all times.
LEMMA EditsAlways ==
    ASSUME WholeCalls
    PROVE  Spec => []Edits
<1>1. Init => Edits
  BY DEF Init, Edits, SameIn
<1>2. TwoPhase /\ Edits /\ [Next]_vars => Edits'
  BY EditsStep
<1> QED
  BY <1>1, <1>2, TwoPhaseAlways, PTL DEF Spec

\* Only kdbSet() returns 0 and 1 for a kdbSet(): 0 at once, 1 at its end.
LEMMA WhoReturns ==
    ASSUME TwoPhase, Next
    PROVE  /\ ret' = "set0" => \E S \in SetParents : SetBegin(S)
           /\ ret' = "set1" => SetFinish
<1> USE DEF Return
<1>1. CASE pc # "idle"
  <2>1. ret = "none"
    BY <1>1 DEF TwoPhase, Loop
  <2>2. ret' # "set0"
    BY <1>1, <2>1 DEF Next, application, others, kdbGet, kdbSet, PopKey, SetKey,
       ExternalSet, ExternalRemove, GetBegin, GetCheck, GetNoUpdate, GetUpdate, GetRead,
       GetFail, GetMerge, SetBegin, SetPrepare, SetPrepared, SetCommit, SetCommitFail,
       SetFinish
  <2>3. SetFinish \/ ret' # "set1"
    BY <1>1, <2>1 DEF Next, application, others, kdbGet, kdbSet, PopKey, SetKey,
       ExternalSet, ExternalRemove, GetBegin, GetCheck, GetNoUpdate, GetUpdate, GetRead,
       GetFail, GetMerge, SetBegin, SetPrepare, SetPrepared, SetCommit, SetCommitFail
  <2> QED
    BY <2>2, <2>3
<1>2. CASE pc = "idle"
  <2>1. \/ application \/ others \/ (\E S \in GetParents : GetBegin(S))
        \/ \E S \in SetParents : SetBegin(S)
    BY <1>2 DEF Next, kdbGet, kdbSet, GetCheck, GetNoUpdate, GetUpdate, GetRead, GetFail,
       GetMerge, SetPrepare, SetPrepared, SetCommit, SetCommitFail, SetFinish
  <2>2. CASE application \/ others \/ \E S \in GetParents : GetBegin(S)
    BY <2>2 DEF application, others, PopKey, SetKey, ExternalSet, ExternalRemove, GetBegin
  <2>3. CASE \E S \in SetParents : SetBegin(S)
    <3>1. ret' # "set1"
      BY <2>3 DEF SetBegin
    <3> QED
      BY <2>3, <3>1
  <2> QED
    BY <2>1, <2>2, <2>3
<1> QED
  BY <1>1, <1>2

\* A kdbSet() that says there was nothing to do is right, for an application
\* that makes whole calls: it overlooks no changed, new or removed key, even if
\* a kdbGet() before it failed, or reset the sizes without reading anything.
THEOREM NothingToDo ==
    ASSUME WholeCalls
    PROVE  Spec => []ZeroMeansNothingToDo
<1>1. Init => ZeroMeansNothingToDo
  BY DEF Init, ZeroMeansNothingToDo
<1>2. ASSUME TwoPhase, Edits, ZeroMeansNothingToDo, [Next]_vars
      PROVE  ZeroMeansNothingToDo'
  <2>1. CASE ret' # "set0"
    BY <2>1 DEF ZeroMeansNothingToDo
  <2>2. CASE UNCHANGED vars
    BY <1>2, <2>2 DEF vars, appVars, callVars, ZeroMeansNothingToDo
  <2>3. ASSUME NEW S \in SetParents, SetBegin(S), ret' = "set0"
        PROVE  ZeroMeansNothingToDo'
    <3>1. /\ pc = "idle" /\ split' = S /\ NeedSync(S) = {} /\ \A b \in S : size[b] # -1
          /\ UNCHANGED <<ks, base>>
      BY <2>3 DEF SetBegin, Return, appVars
    <3>2. S \in SUBSET Backends
      BY ConstantTypes
    <3>3. \A b \in S : SameIn(ks, base, b)
      BY <1>2, <3>1, <3>2, NotNeeded
    <3> QED
      BY <3>1, <3>3 DEF ZeroMeansNothingToDo
  <2> QED
    BY <1>2, <2>1, <2>2, <2>3, WhoReturns
<1>3. TwoPhase /\ Edits /\ ZeroMeansNothingToDo /\ [Next]_vars => ZeroMeansNothingToDo'
  BY <1>2
<1> QED
  BY <1>1, <1>3, TwoPhaseAlways, EditsAlways, PTL DEF Spec

\* A kdbSet() that returns 1 has stored every change in every backend, and a file
\* that nobody replaced since then holds it.
THEOREM Stored ==
    ASSUME WholeCalls, ReadsSucceed
    PROVE  Spec => []OneMeansStored
<1> DEFINE Written == ret = "set1" => \A b \in split : SameIn(ks, base, b)
<1>1. Init => Written
  BY DEF Init
<1>2. ASSUME TwoPhase, Edits, Written, [Next]_vars
      PROVE  Written'
  <2>1. CASE ret' # "set1"
    BY <2>1
  <2>2. CASE UNCHANGED vars
    BY <1>2, <2>2 DEF vars, appVars, callVars
  <2>3. CASE SetFinish
    <3>1. /\ pc = "commit" /\ UNCHANGED <<ks, base, split>> /\ split \in SUBSET Backends
      BY <1>2, <2>3 DEF SetFinish, callVars, TwoPhase, TypeOK
    <3>2. \A b \in bits : b < i
      BY <1>2, <2>3, LoopDone DEF SetFinish, TwoPhase
    <3>3. \A b \in Backends : SameIn(ks, base, b)
      BY <1>2, <3>1, <3>2 DEF Edits
    <3> QED
      BY <3>1, <3>3
  <2> QED
    BY <1>2, <2>1, <2>2, <2>3, WhoReturns
<1>3. TwoPhase /\ Edits /\ Written /\ [Next]_vars => Written'
  BY <1>2
<1>4. ASSUME TwoPhase, Known, Written
      PROVE  OneMeansStored
  <2> SUFFICES ASSUME ret = "set1", NEW b \in split
               PROVE  /\ SameIn(ks, base, b)
                      /\ b \in fresh => SameIn(ks, file, b)
    BY DEF OneMeansStored
  <2>1. pc = "idle"
    BY <1>4 DEF TwoPhase, Loop
  <2>2. SameIn(ks, base, b)
    BY <1>4
  <2>3. b \in fresh => SameIn(base, file, b)
    BY <1>4, <2>1 DEF Known
  <2> QED
    BY <2>2, <2>3 DEF SameIn
<1>5. TwoPhase /\ Known /\ Written => OneMeansStored
  BY <1>4
<1> HIDE DEF Written
<1> QED
  BY <1>1, <1>3, <1>5, TwoPhaseAlways, KnownAlways, EditsAlways, PTL DEF Spec

\* A kdbGet() that succeeds leaves the keys it has read in the keyset, together
\* with those of the backends that had nothing new.
THEOREM GetsDeliver ==
    ASSUME WholeCalls
    PROVE  Spec => []GetDelivers
<1>1. TwoPhase /\ Edits => GetDelivers
  BY DEF TwoPhase, TypeOK, Edits, GetDelivers, SameIn, KeysOf
<1> QED
  BY <1>1, TwoPhaseAlways, EditsAlways, PTL

=============================================================================
