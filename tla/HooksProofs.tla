---------------------------- MODULE HooksProofs -----------------------------
(***************************************************************************)
(* The lock of the semlock plugin is correct for any number of handles, as *)
(* long as none opens the plugin after another one has closed it, and the  *)
(* hooks of kdb.c and the list plugin use it as it has to be used.         *)
(*                                                                         *)
(* Then every name stands for one semaphore.  The mutexes "sem_mutex",     *)
(* "read" and "write" have at most one holder; "readCount" and             *)
(* "writeCount" count handles; and the first of the readers takes "access" *)
(* for all of them and the last one gives it back, as the writers do with  *)
(* "tryRead".                                                              *)
(***************************************************************************)
EXTENDS GlobalHooks, FiniteSetTheorems, SequenceTheorems, TLAPS

Among(P) == {h \in Handles : pc[h] \in P}
Holding(what) == {h \in Handles : held[h] = what}
V(n) == sem[n][1]

\* A lock with value v is free or has one holder.
Lock(v, holders) ==
    /\ v \in {0, 1}
    /\ v = 1 => \A h \in Handles : h \notin holders
    /\ \A g, h \in holders : g = h

Opening == Among({"openNames", "closeNames"})
InRead == Among({"getPRE_count", "getPRE_value", "getPRE_access", "getPRE_postRead",
                 "getPOST_count", "getPOST_value", "getPOST_access", "getPOST_postRead"})
InWrite == Among({"setPRE_count", "setPRE_value", "setPRE_tryRead", "setPRE_postWrite",
                  "setPOST_count", "setPOST_value", "setPOST_tryRead", "setPOST_postWrite"})

\* The readers that readCount counts, and those for which "access" is taken.
Readers == Holding("read") \cup Among({"getPRE_value", "getPRE_access", "getPRE_postRead",
                                       "getPRE_postTryRead", "getPOST", "getPOST_count"})
ReadLocked == Holding("read") \cup Among({"getPRE_postRead", "getPRE_postTryRead", "getPOST",
                                          "getPOST_count", "getPOST_value", "getPOST_access"})
\* The writers that writeCount counts, those for which "tryRead" is taken, and
\* the one that has "access".
Writers == Holding("write") \cup Among({"setPRE_value", "setPRE_tryRead", "setPRE_postWrite",
                                        "setPRE_access", "setPOST", "setPOST_write", "setPOST_count"})
Waiting == Holding("write") \cup Among({"setPRE_postWrite", "setPRE_access", "setPOST", "setPOST_write",
                                        "setPOST_count", "setPOST_value", "setPOST_tryRead"})
WriteLocked == Holding("write") \cup Among({"setPOST"})
\* The reader that has "tryRead".
Entering == Among({"getPRE_read", "getPRE_count", "getPRE_value", "getPRE_access",
                   "getPRE_postRead", "getPRE_postTryRead"})

\* A lock that a group shares or that one handle has alone.
Shared(v, group, single) ==
    /\ v \in {0, 1}
    /\ v = 1 => \A h \in Handles : h \notin group /\ h \notin single
    /\ \A g \in group, h \in single : FALSE
    /\ \A g, h \in single : g = h

-----------------------------------------------------------------------------
(***************************************************************************)
(* The inductive invariant.                                                *)
(***************************************************************************)
Types ==
    /\ sem \in [Names -> [1..MaxInstances -> Int]]
    /\ made \in [Names -> 0..1]
    /\ linked \in [Names -> 0..1]
    /\ ref \in [Handles -> [Names -> 0..1]]
    /\ state \in [Handles -> {"PRE", "POST"}]
    /\ pc \in [Handles -> PCs]
    /\ k \in [Handles -> 0..6]
    /\ held \in [Handles -> {"nothing", "read", "write"}]

\* Only the first semaphore of a name is ever made, and nobody opens one after
\* a name was unlinked.
Life ==
    /\ \A n \in Names, i \in 2..MaxInstances : sem[n][i] = InitialValue(n)
    /\ \A n \in Names : linked[n] = 0 /\ made[n] = 1 => \E g \in Handles : Closing(g)
    /\ \A g, h \in Handles : pc[g] \in OpenPCs => ~Closing(h)

\* A handle has open what it uses.
Opened ==
    \A h \in Handles :
        /\ pc[h] \notin {"new", "gone"} => ref[h]["sem_mutex"] = 1
        /\ pc[h] \in {"out"} \cup PrePCs \cup PostPCs => \A n \in Names : ref[h][n] = 1
        /\ pc[h] = "openNames" => \A i \in 1..k[h] : ref[h][OpenOrder[i]] = 1
        /\ pc[h] \notin {"openNames", "closeNames"} => k[h] = 0

\* What a handle has locked, and which call comes next.
Phase ==
    \A h \in Handles :
        /\ pc[h] # "out" => held[h] = "nothing"
        /\ pc[h] = "out" => (held[h] = "nothing" <=> state[h] = "PRE")
        /\ pc[h] \in PrePCs => state[h] = "POST"
        /\ pc[h] \notin PrePCs \cup {"out"} => state[h] = "PRE"

Locks ==
    /\ Lock(V("sem_mutex"), Opening)
    /\ Lock(V("read"), InRead)
    /\ Lock(V("write"), InWrite)

Counters ==
    /\ V("readCount") = Cardinality(Readers)
    /\ V("writeCount") = Cardinality(Writers)

Switches ==
    /\ Shared(V("access"), ReadLocked, WriteLocked)
    /\ Shared(V("tryRead"), Waiting, Entering)
    /\ \A h \in Handles :
         /\ pc[h] = "getPRE_access" => \A g \in Handles : g \notin ReadLocked
         /\ pc[h] = "getPOST_access" => \A g \in ReadLocked : g = h
         /\ pc[h] = "setPRE_tryRead" => \A g \in Handles : g \notin Waiting
         /\ pc[h] = "setPOST_tryRead" => \A g \in Waiting : g = h

IInv == Types /\ Life /\ Opened /\ Phase /\ Locks /\ Counters /\ Switches
-----------------------------------------------------------------------------
(***************************************************************************)
(* The steps, in terms of the values of the semaphores.                    *)
(***************************************************************************)
Frame == Types /\ Life /\ Opened /\ Phase
Pass == PrePCs \cup PostPCs

\* The semaphores after a step that adds d to the one of name n.
Adds(n, d) ==
    /\ sem' \in [Names -> [1..MaxInstances -> Int]]
    /\ sem'[n][1] = V(n) + d
    /\ \A m \in Names \ {n} : sem'[m][1] = V(m)
    /\ \A m \in Names, i \in 2..MaxInstances : sem'[m][i] = sem[m][i]

Jump(h, from, to) == pc[h] = from /\ pc' = [pc EXCEPT ![h] = to]

\* sem_wait() and sem_post() change the one semaphore of the name.
LEMMA ChangeAdds ==
    ASSUME Types, NEW h \in Handles, NEW n \in Names, NEW d \in Int,
           ref[h][n] = 1, Change(h, n, d)
    PROVE  Adds(n, d)
BY SemlockAssumption DEF Types, Change, Adds, V

\* The types and the bookkeeping survive the steps of Get and Set.
LEMMA FrameStep ==
    ASSUME Frame, NEW h \in Handles, NEW from \in Pass, NEW to \in PCs,
           Jump(h, from, to), UNCHANGED <<made, linked, ref, state, k>>,
           sem' \in [Names -> [1..MaxInstances -> Int]],
           \A m \in Names, i \in 2..MaxInstances : sem'[m][i] = sem[m][i],
           \/ from \in PrePCs /\ to \in PrePCs /\ held' = held
           \/ from \in PostPCs /\ to \in PostPCs \cup {"out"} /\ held' = held
           \/ /\ from \in PrePCs /\ to = "out"
              /\ \E w \in {"read", "write"} : held' = [held EXCEPT ![h] = w]
    PROVE  Frame'
<1> USE DEF Jump, Pass
<1>1. Types'
    BY DEF Frame, Types
<1>2. Life'
    <2>1. \A g \in Handles : /\ Closing(g)' <=> Closing(g)
                             /\ pc'[g] \in OpenPCs <=> pc[g] \in OpenPCs
        BY DEF Frame, Types, Closing, PCs, OpenPCs, ClosePCs, PrePCs, PostPCs
    <2> QED
        BY <2>1 DEF Frame, Life
<1>3. Opened'
    BY DEF Frame, Types, Opened, PCs, PrePCs, PostPCs
<1>4. Phase'
    BY DEF Frame, Types, Phase, PCs, PrePCs, PostPCs
<1> QED
    BY <1>1, <1>2, <1>3, <1>4 DEF Frame

\* Sets of handles can be counted.
LEMMA Counting ==
    ASSUME NEW S \in SUBSET Handles, NEW h \in Handles
    PROVE  /\ Cardinality(S) \in Nat
           /\ Cardinality(S) = 0 => S = {}
           /\ h \in S => Cardinality(S) > 0 /\ Cardinality(S \ {h}) = Cardinality(S) - 1
           /\ h \notin S => Cardinality(S \cup {h}) = Cardinality(S) + 1
<1>1. IsFiniteSet(S) /\ Cardinality(S) \in Nat
    BY SemlockAssumption, FS_Subset, FS_CardinalityType
<1>2. Cardinality(S) = 0 <=> S = {}
    BY <1>1, FS_EmptySet
<1>3. h \in S => Cardinality(S \ {h}) = Cardinality(S) - 1
    BY <1>1, FS_RemoveElement
<1>4. h \notin S => Cardinality(S \cup {h}) = Cardinality(S) + 1
    BY <1>1, FS_AddElement
<1> QED
    BY <1>1, <1>2, <1>3, <1>4

\* A set of handles has one element or another one.
LEMMA CountingOne ==
    ASSUME NEW S, NEW h \in S, S \subseteq Handles
    PROVE  /\ Cardinality(S) = 1 => \A g \in S : g = h
           /\ Cardinality(S) # 1 => \E g \in S : g # h
<1>1. IsFiniteSet(S)
    BY SemlockAssumption, FS_Subset
<1>2. CASE Cardinality(S) = 1
    <2>1. PICK x : S = {x}
        BY <1>1, <1>2, FS_Singleton
    <2> QED
        BY <1>2, <2>1
<1>3. CASE Cardinality(S) # 1
    <2>1. S # {h}
        BY <1>3, FS_Singleton
    <2> QED
        BY <1>3, <2>1
<1> QED
    BY <1>2, <1>3

\* A reader that is counted alone, while it has the mutex "read".
LEMMA FirstReader ==
    ASSUME IInv, NEW h \in Handles, pc[h] = "getPRE_value"
    PROVE  /\ V("readCount") = 1 => \A g \in Handles : g \notin ReadLocked
           /\ V("readCount") # 1 => \E g \in Handles : g \in ReadLocked
<1>1. h \in Readers /\ Readers \in SUBSET Handles /\ V("readCount") = Cardinality(Readers)
    BY DEF IInv, Counters, Readers, Among, Holding
<1>2. \A g \in Handles : g \in InRead => g = h
    BY DEF IInv, Locks, Lock, InRead, Among
<1>3. \A g \in Handles : g # h => (g \in Readers <=> g \in ReadLocked)
    BY <1>2 DEF Readers, ReadLocked, InRead, Among, Holding
<1>4. h \notin ReadLocked
    BY DEF ReadLocked, Among, Holding, IInv, Phase
<1>5. /\ Cardinality(Readers) = 1 => \A g \in Readers : g = h
      /\ Cardinality(Readers) # 1 => \E g \in Readers : g # h
    BY <1>1, CountingOne
<1> QED
    BY <1>1, <1>3, <1>4, <1>5

\* A reader that has left as the last one.
LEMMA LastReader ==
    ASSUME IInv, NEW h \in Handles, pc[h] = "getPOST_value", V("readCount") = 0
    PROVE  \A g \in ReadLocked : g = h
<1>1. Readers = {}
    <2>1. Readers \in SUBSET Handles /\ V("readCount") = Cardinality(Readers)
        BY DEF IInv, Counters, Readers, Among, Holding
    <2> QED
        BY <2>1, Counting
<1>2. \A g \in Handles : g \in InRead => g = h
    BY DEF IInv, Locks, Lock, InRead, Among
<1> QED
    BY <1>1, <1>2 DEF Readers, ReadLocked, InRead, Among, Holding

\* The same for the writers.
LEMMA FirstWriter ==
    ASSUME IInv, NEW h \in Handles, pc[h] = "setPRE_value"
    PROVE  /\ V("writeCount") = 1 => \A g \in Handles : g \notin Waiting
           /\ V("writeCount") # 1 => \E g \in Handles : g \in Waiting
<1>1. h \in Writers /\ Writers \in SUBSET Handles /\ V("writeCount") = Cardinality(Writers)
    BY DEF IInv, Counters, Writers, Among, Holding
<1>2. \A g \in Handles : g \in InWrite => g = h
    BY DEF IInv, Locks, Lock, InWrite, Among
<1>3. \A g \in Handles : g # h => (g \in Writers <=> g \in Waiting)
    BY <1>2 DEF Writers, Waiting, InWrite, Among, Holding
<1>4. h \notin Waiting
    BY DEF Waiting, Among, Holding, IInv, Phase
<1>5. /\ Cardinality(Writers) = 1 => \A g \in Writers : g = h
      /\ Cardinality(Writers) # 1 => \E g \in Writers : g # h
    BY <1>1, CountingOne
<1> QED
    BY <1>1, <1>3, <1>4, <1>5

\* A writer that has left as the last one.
LEMMA LastWriter ==
    ASSUME IInv, NEW h \in Handles, pc[h] = "setPOST_value", V("writeCount") = 0
    PROVE  \A g \in Waiting : g = h
<1>1. Writers = {}
    <2>1. Writers \in SUBSET Handles /\ V("writeCount") = Cardinality(Writers)
        BY DEF IInv, Counters, Writers, Among, Holding
    <2> QED
        BY <2>1, Counting
<1>2. \A g \in Handles : g \in InWrite => g = h
    BY DEF IInv, Locks, Lock, InWrite, Among
<1> QED
    BY <1>1, <1>2 DEF Writers, Waiting, InWrite, Among, Holding

\* The steps of Get, in terms of the values of the semaphores.
Taken(h, from, n, to) == Jump(h, from, to) /\ V(n) > 0 /\ Adds(n, -1)
Given(h, from, n, to) == Jump(h, from, to) /\ Adds(n, 1)
Tested(h, from, to) == Jump(h, from, to) /\ sem' = sem

\* What sem_wait(), sem_post() and sem_getvalue() do inside Get and Set, where the
\* handle has every name open.
LEMMA Semaphores ==
    ASSUME Frame, NEW h \in Handles, NEW from \in Pass, NEW n \in Names, NEW to,
           pc[h] = from
    PROVE  /\ sem_wait(h, from, n, to) => Taken(h, from, n, to)
           /\ sem_post(h, from, n, to) => Given(h, from, n, to)
           /\ \A value, else : sem_getvalue(h, from, n, value, to, else) =>
                 IF V(n) = value THEN Tested(h, from, to) ELSE Tested(h, from, else)
<1>1. ref[h][n] = 1 /\ Value(h, n) = V(n)
    BY DEF Frame, Opened, Pass, Value, V
<1>2. sem_wait(h, from, n, to) => Taken(h, from, n, to)
    BY <1>1, ChangeAdds DEF sem_wait, Taken, Goto, Jump, Frame
<1>3. sem_post(h, from, n, to) => Given(h, from, n, to)
    BY <1>1, ChangeAdds DEF sem_post, Given, Goto, Jump, Frame
<1> QED
    BY <1>1, <1>2, <1>3 DEF sem_getvalue, Tested, Goto, Jump, semVars

\* How elektraSemlockGet locks.
LEMMA GetPREStep ==
    ASSUME IInv, NEW h \in Handles, GetPRE(h)
    PROVE  IInv'
<1>1. \/ Taken(h, "getPRE", "tryRead", "getPRE_read")
      \/ Taken(h, "getPRE_read", "read", "getPRE_count")
      \/ Given(h, "getPRE_count", "readCount", "getPRE_value")
      \/ Tested(h, "getPRE_value", "getPRE_access") /\ V("readCount") = 1
      \/ Tested(h, "getPRE_value", "getPRE_postRead") /\ V("readCount") # 1
      \/ Taken(h, "getPRE_access", "access", "getPRE_postRead")
      \/ Given(h, "getPRE_postRead", "read", "getPRE_postTryRead")
    <2> USE DEF Pass, PrePCs, PostPCs, Names
    <2>1. CASE sem_wait(h, "getPRE", "tryRead", "getPRE_read")
        BY <2>1, Semaphores DEF IInv, Frame, sem_wait, Goto
    <2>2. CASE sem_wait(h, "getPRE_read", "read", "getPRE_count")
        BY <2>2, Semaphores DEF IInv, Frame, sem_wait, Goto
    <2>3. CASE sem_post(h, "getPRE_count", "readCount", "getPRE_value")
        BY <2>3, Semaphores DEF IInv, Frame, sem_post, Goto
    <2>4. CASE sem_getvalue(h, "getPRE_value", "readCount", 1, "getPRE_access", "getPRE_postRead")
        <3>1. pc[h] = "getPRE_value"
            BY <2>4 DEF sem_getvalue, Goto
        <3> QED
            BY <2>4, <3>1, Semaphores DEF IInv, Frame
    <2>5. CASE sem_wait(h, "getPRE_access", "access", "getPRE_postRead")
        BY <2>5, Semaphores DEF IInv, Frame, sem_wait, Goto
    <2>6. CASE sem_post(h, "getPRE_postRead", "read", "getPRE_postTryRead")
        BY <2>6, Semaphores DEF IInv, Frame, sem_post, Goto
    <2> HIDE DEF Pass, PrePCs, PostPCs, Names
    <2> QED
        BY <2>1, <2>2, <2>3, <2>4, <2>5, <2>6, Zenon DEF GetPRE
<1>2. held' = held /\ UNCHANGED <<made, linked, ref, state, k>>
    BY DEF GetPRE, sem_wait, sem_post, sem_getvalue, semVars
<1> USE DEF Taken, Given, Tested, Jump
<1>3. Frame /\ sem \in [Names -> [1..MaxInstances -> Int]]
    BY DEF IInv, Frame, Types
<1>4. CASE Taken(h, "getPRE", "tryRead", "getPRE_read")
    <2>1. Locks'
        BY <1>2, <1>4 DEF IInv, Types, Locks, Lock, Opening, InRead, InWrite, Among, Adds, V, Names
    <2>2. Switches'
        BY <1>2, <1>4 DEF IInv, Types, Phase, Switches, Shared, ReadLocked, WriteLocked, Waiting, Entering,
                         Among, Holding, Adds, V, Names
    <2>3. Readers' = Readers /\ Writers' = Writers
        BY <1>2, <1>4 DEF IInv, Types, Phase, Readers, Writers, Among, Holding
    <2>4. Counters'
        BY <1>4, <2>3 DEF IInv, Counters, Adds, V, Names
    <2>5. Frame'
        BY <1>2, <1>3, <1>4, FrameStep DEF Adds, Pass, PCs, PrePCs, PostPCs
    <2> QED
        BY <2>1, <2>2, <2>4, <2>5 DEF IInv, Frame
<1>5. CASE Taken(h, "getPRE_read", "read", "getPRE_count")
    <2>1. Locks'
        BY <1>2, <1>5 DEF IInv, Types, Locks, Lock, Opening, InRead, InWrite, Among, Adds, V, Names
    <2>2. Switches'
        BY <1>2, <1>5 DEF IInv, Types, Phase, Switches, Shared, ReadLocked, WriteLocked, Waiting, Entering,
                         Among, Holding, Adds, V, Names
    <2>3. Readers' = Readers /\ Writers' = Writers
        BY <1>2, <1>5 DEF IInv, Types, Phase, Readers, Writers, Among, Holding
    <2>4. Counters'
        BY <1>5, <2>3 DEF IInv, Counters, Adds, V, Names
    <2>5. Frame'
        BY <1>2, <1>3, <1>5, FrameStep DEF Adds, Pass, PCs, PrePCs, PostPCs
    <2> QED
        BY <2>1, <2>2, <2>4, <2>5 DEF IInv, Frame
<1>6. CASE Given(h, "getPRE_count", "readCount", "getPRE_value")
    <2>1. Locks'
        BY <1>2, <1>6 DEF IInv, Types, Locks, Lock, Opening, InRead, InWrite, Among, Adds, V, Names
    <2>2. Switches'
        BY <1>2, <1>6 DEF IInv, Types, Phase, Switches, Shared, ReadLocked, WriteLocked, Waiting, Entering,
                         Among, Holding, Adds, V, Names
    <2>3. Readers' = Readers \cup {h} /\ h \notin Readers /\ Readers \in SUBSET Handles /\ Writers' = Writers
        BY <1>2, <1>6 DEF IInv, Types, Phase, Readers, Writers, Among, Holding
    <2>4. Counters'
        BY <1>6, <2>3, Counting DEF IInv, Counters, Adds, V, Names
    <2>5. Frame'
        BY <1>2, <1>3, <1>6, FrameStep DEF Adds, Pass, PCs, PrePCs, PostPCs
    <2> QED
        BY <2>1, <2>2, <2>4, <2>5 DEF IInv, Frame
<1>7. CASE Tested(h, "getPRE_value", "getPRE_access") /\ V("readCount") = 1
    <2>0. \A g \in Handles : g \in InRead => g = h
        BY <1>7 DEF IInv, Locks, Lock, InRead, Among
    <2>1. Locks'
        BY <1>2, <1>7 DEF IInv, Types, Locks, Lock, Opening, InRead, InWrite, Among, Adds, V, Names
    <2>2. Switches'
        BY <1>2, <1>7, <2>0, FirstReader DEF IInv, Types, Phase, Switches, Shared, ReadLocked, WriteLocked, Waiting, Entering,
                         InRead, Among, Holding, Adds, V, Names
    <2>3. Readers' = Readers /\ Writers' = Writers
        BY <1>2, <1>7 DEF IInv, Types, Phase, Readers, Writers, Among, Holding
    <2>4. Counters'
        BY <1>7, <2>3 DEF IInv, Counters, Adds, V, Names
    <2>5. Frame'
        BY <1>2, <1>3, <1>7, FrameStep DEF Adds, Pass, PCs, PrePCs, PostPCs
    <2> QED
        BY <2>1, <2>2, <2>4, <2>5 DEF IInv, Frame
<1>8. CASE Tested(h, "getPRE_value", "getPRE_postRead") /\ V("readCount") # 1
    <2>0. \A g \in Handles : g \in InRead => g = h
        BY <1>8 DEF IInv, Locks, Lock, InRead, Among
    <2>1. Locks'
        BY <1>2, <1>8 DEF IInv, Types, Locks, Lock, Opening, InRead, InWrite, Among, Adds, V, Names
    <2>2. Switches'
        BY <1>2, <1>8, <2>0, FirstReader DEF IInv, Types, Phase, Switches, Shared, ReadLocked, WriteLocked, Waiting, Entering,
                         InRead, Among, Holding, Adds, V, Names
    <2>3. Readers' = Readers /\ Writers' = Writers
        BY <1>2, <1>8 DEF IInv, Types, Phase, Readers, Writers, Among, Holding
    <2>4. Counters'
        BY <1>8, <2>3 DEF IInv, Counters, Adds, V, Names
    <2>5. Frame'
        BY <1>2, <1>3, <1>8, FrameStep DEF Adds, Pass, PCs, PrePCs, PostPCs
    <2> QED
        BY <2>1, <2>2, <2>4, <2>5 DEF IInv, Frame
<1>9. CASE Taken(h, "getPRE_access", "access", "getPRE_postRead")
    <2>1. Locks'
        BY <1>2, <1>9 DEF IInv, Types, Locks, Lock, Opening, InRead, InWrite, Among, Adds, V, Names
    <2>2. Switches'
        BY <1>2, <1>9 DEF IInv, Types, Phase, Switches, Shared, ReadLocked, WriteLocked, Waiting, Entering,
                         Among, Holding, Adds, V, Names
    <2>3. Readers' = Readers /\ Writers' = Writers
        BY <1>2, <1>9 DEF IInv, Types, Phase, Readers, Writers, Among, Holding
    <2>4. Counters'
        BY <1>9, <2>3 DEF IInv, Counters, Adds, V, Names
    <2>5. Frame'
        BY <1>2, <1>3, <1>9, FrameStep DEF Adds, Pass, PCs, PrePCs, PostPCs
    <2> QED
        BY <2>1, <2>2, <2>4, <2>5 DEF IInv, Frame
<1>10. CASE Given(h, "getPRE_postRead", "read", "getPRE_postTryRead")
    <2>1. Locks'
        BY <1>2, <1>10 DEF IInv, Types, Locks, Lock, Opening, InRead, InWrite, Among, Adds, V, Names
    <2>2. Switches'
        BY <1>2, <1>10 DEF IInv, Types, Phase, Switches, Shared, ReadLocked, WriteLocked, Waiting, Entering,
                         Among, Holding, Adds, V, Names
    <2>3. Readers' = Readers /\ Writers' = Writers
        BY <1>2, <1>10 DEF IInv, Types, Phase, Readers, Writers, Among, Holding
    <2>4. Counters'
        BY <1>10, <2>3 DEF IInv, Counters, Adds, V, Names
    <2>5. Frame'
        BY <1>2, <1>3, <1>10, FrameStep DEF Adds, Pass, PCs, PrePCs, PostPCs
    <2> QED
        BY <2>1, <2>2, <2>4, <2>5 DEF IInv, Frame
<1> QED
    BY <1>1, <1>4, <1>5, <1>6, <1>7, <1>8, <1>9, <1>10

\* How elektraSemlockGet unlocks.
LEMMA GetPOSTStep ==
    ASSUME IInv, NEW h \in Handles, GetPOST(h)
    PROVE  IInv'
<1>1. \/ Taken(h, "getPOST", "read", "getPOST_count")
      \/ Taken(h, "getPOST_count", "readCount", "getPOST_value")
      \/ Tested(h, "getPOST_value", "getPOST_access") /\ V("readCount") = 0
      \/ Tested(h, "getPOST_value", "getPOST_postRead") /\ V("readCount") # 0
      \/ Given(h, "getPOST_access", "access", "getPOST_postRead")
      \/ Given(h, "getPOST_postRead", "read", "out")
    <2> USE DEF Pass, PrePCs, PostPCs, Names
    <2>1. CASE sem_wait(h, "getPOST", "read", "getPOST_count")
        BY <2>1, Semaphores DEF IInv, Frame, sem_wait, Goto
    <2>2. CASE sem_wait(h, "getPOST_count", "readCount", "getPOST_value")
        BY <2>2, Semaphores DEF IInv, Frame, sem_wait, Goto
    <2>3. CASE sem_getvalue(h, "getPOST_value", "readCount", 0, "getPOST_access", "getPOST_postRead")
        <3>1. pc[h] = "getPOST_value"
            BY <2>3 DEF sem_getvalue, Goto
        <3> QED
            BY <2>3, <3>1, Semaphores DEF IInv, Frame
    <2>4. CASE sem_post(h, "getPOST_access", "access", "getPOST_postRead")
        BY <2>4, Semaphores DEF IInv, Frame, sem_post, Goto
    <2>5. CASE sem_post(h, "getPOST_postRead", "read", "out")
        BY <2>5, Semaphores DEF IInv, Frame, sem_post, Goto
    <2> HIDE DEF Pass, PrePCs, PostPCs, Names
    <2> QED
        BY <2>1, <2>2, <2>3, <2>4, <2>5 DEF GetPOST
<1>2. held' = held /\ UNCHANGED <<made, linked, ref, state, k>>
    BY DEF GetPOST, sem_wait, sem_post, sem_getvalue, semVars
<1> USE DEF Taken, Given, Tested, Jump
<1>3. Frame /\ sem \in [Names -> [1..MaxInstances -> Int]]
    BY DEF IInv, Frame, Types
<1>4. CASE Taken(h, "getPOST", "read", "getPOST_count")
    <2>1. Locks'
        BY <1>2, <1>4 DEF IInv, Types, Locks, Lock, Opening, InRead, InWrite, Among, Adds, V, Names
    <2>2. Switches'
        BY <1>2, <1>4 DEF IInv, Types, Phase, Switches, Shared, ReadLocked, WriteLocked, Waiting, Entering,
                         Among, Holding, Adds, V, Names
    <2>3. Readers' = Readers /\ Writers' = Writers
        BY <1>2, <1>4 DEF IInv, Types, Phase, Readers, Writers, Among, Holding
    <2>4. Counters'
        BY <1>4, <2>3 DEF IInv, Counters, Adds, V, Names
    <2>5. Frame'
        BY <1>2, <1>3, <1>4, FrameStep DEF Adds, Pass, PCs, PrePCs, PostPCs
    <2> QED
        BY <2>1, <2>2, <2>4, <2>5 DEF IInv, Frame
<1>5. CASE Taken(h, "getPOST_count", "readCount", "getPOST_value")
    <2>1. Locks'
        BY <1>2, <1>5 DEF IInv, Types, Locks, Lock, Opening, InRead, InWrite, Among, Adds, V, Names
    <2>2. Switches'
        BY <1>2, <1>5 DEF IInv, Types, Phase, Switches, Shared, ReadLocked, WriteLocked, Waiting, Entering,
                         Among, Holding, Adds, V, Names
    <2>3. Readers' = Readers \ {h} /\ h \in Readers /\ Readers \in SUBSET Handles /\ Writers' = Writers
        BY <1>2, <1>5 DEF IInv, Types, Phase, Readers, Writers, Among, Holding
    <2>4. Counters'
        BY <1>5, <2>3, Counting DEF IInv, Counters, Adds, V, Names
    <2>5. Frame'
        BY <1>2, <1>3, <1>5, FrameStep DEF Adds, Pass, PCs, PrePCs, PostPCs
    <2> QED
        BY <2>1, <2>2, <2>4, <2>5 DEF IInv, Frame
<1>6. CASE Tested(h, "getPOST_value", "getPOST_access") /\ V("readCount") = 0
    <2>1. Locks'
        BY <1>2, <1>6 DEF IInv, Types, Locks, Lock, Opening, InRead, InWrite, Among, Adds, V, Names
    <2>2. Switches'
        BY <1>2, <1>6, LastReader DEF IInv, Types, Phase, Switches, Shared, ReadLocked, WriteLocked, Waiting, Entering,
                         Among, Holding, Adds, V, Names
    <2>3. Readers' = Readers /\ Writers' = Writers
        BY <1>2, <1>6 DEF IInv, Types, Phase, Readers, Writers, Among, Holding
    <2>4. Counters'
        BY <1>6, <2>3 DEF IInv, Counters, Adds, V, Names
    <2>5. Frame'
        BY <1>2, <1>3, <1>6, FrameStep DEF Adds, Pass, PCs, PrePCs, PostPCs
    <2> QED
        BY <2>1, <2>2, <2>4, <2>5 DEF IInv, Frame
<1>7. CASE Tested(h, "getPOST_value", "getPOST_postRead") /\ V("readCount") # 0
    <2>1. Locks'
        BY <1>2, <1>7 DEF IInv, Types, Locks, Lock, Opening, InRead, InWrite, Among, Adds, V, Names
    <2>2. Switches'
        BY <1>2, <1>7, LastReader DEF IInv, Types, Phase, Switches, Shared, ReadLocked, WriteLocked, Waiting, Entering,
                         Among, Holding, Adds, V, Names
    <2>3. Readers' = Readers /\ Writers' = Writers
        BY <1>2, <1>7 DEF IInv, Types, Phase, Readers, Writers, Among, Holding
    <2>4. Counters'
        BY <1>7, <2>3 DEF IInv, Counters, Adds, V, Names
    <2>5. Frame'
        BY <1>2, <1>3, <1>7, FrameStep DEF Adds, Pass, PCs, PrePCs, PostPCs
    <2> QED
        BY <2>1, <2>2, <2>4, <2>5 DEF IInv, Frame
<1>8. CASE Given(h, "getPOST_access", "access", "getPOST_postRead")
    <2>1. Locks'
        BY <1>2, <1>8 DEF IInv, Types, Locks, Lock, Opening, InRead, InWrite, Among, Adds, V, Names
    <2>2. Switches'
        BY <1>2, <1>8 DEF IInv, Types, Phase, Switches, Shared, ReadLocked, WriteLocked, Waiting, Entering,
                         Among, Holding, Adds, V, Names
    <2>3. Readers' = Readers /\ Writers' = Writers
        BY <1>2, <1>8 DEF IInv, Types, Phase, Readers, Writers, Among, Holding
    <2>4. Counters'
        BY <1>8, <2>3 DEF IInv, Counters, Adds, V, Names
    <2>5. Frame'
        BY <1>2, <1>3, <1>8, FrameStep DEF Adds, Pass, PCs, PrePCs, PostPCs
    <2> QED
        BY <2>1, <2>2, <2>4, <2>5 DEF IInv, Frame
<1>9. CASE Given(h, "getPOST_postRead", "read", "out")
    <2>1. Locks'
        BY <1>2, <1>9 DEF IInv, Types, Locks, Lock, Opening, InRead, InWrite, Among, Adds, V, Names
    <2>2. Switches'
        BY <1>2, <1>9 DEF IInv, Types, Phase, Switches, Shared, ReadLocked, WriteLocked, Waiting, Entering,
                         Among, Holding, Adds, V, Names
    <2>3. Readers' = Readers /\ Writers' = Writers
        BY <1>2, <1>9 DEF IInv, Types, Phase, Readers, Writers, Among, Holding
    <2>4. Counters'
        BY <1>9, <2>3 DEF IInv, Counters, Adds, V, Names
    <2>5. Frame'
        BY <1>2, <1>3, <1>9, FrameStep DEF Adds, Pass, PCs, PrePCs, PostPCs
    <2> QED
        BY <2>1, <2>2, <2>4, <2>5 DEF IInv, Frame
<1> QED
    BY <1>1, <1>4, <1>5, <1>6, <1>7, <1>8, <1>9

\* How elektraSemlockSet locks out the readers.
LEMMA SetPREStep ==
    ASSUME IInv, NEW h \in Handles, SetPRE(h)
    PROVE  IInv'
<1>1. \/ Taken(h, "setPRE", "write", "setPRE_count")
      \/ Given(h, "setPRE_count", "writeCount", "setPRE_value")
      \/ Tested(h, "setPRE_value", "setPRE_tryRead") /\ V("writeCount") = 1
      \/ Tested(h, "setPRE_value", "setPRE_postWrite") /\ V("writeCount") # 1
      \/ Taken(h, "setPRE_tryRead", "tryRead", "setPRE_postWrite")
      \/ Given(h, "setPRE_postWrite", "write", "setPRE_access")
    <2> USE DEF Pass, PrePCs, PostPCs, Names
    <2>1. CASE sem_wait(h, "setPRE", "write", "setPRE_count")
        BY <2>1, Semaphores DEF IInv, Frame, sem_wait, Goto
    <2>2. CASE sem_post(h, "setPRE_count", "writeCount", "setPRE_value")
        BY <2>2, Semaphores DEF IInv, Frame, sem_post, Goto
    <2>3. CASE sem_getvalue(h, "setPRE_value", "writeCount", 1, "setPRE_tryRead", "setPRE_postWrite")
        <3>1. pc[h] = "setPRE_value"
            BY <2>3 DEF sem_getvalue, Goto
        <3> QED
            BY <2>3, <3>1, Semaphores DEF IInv, Frame
    <2>4. CASE sem_wait(h, "setPRE_tryRead", "tryRead", "setPRE_postWrite")
        BY <2>4, Semaphores DEF IInv, Frame, sem_wait, Goto
    <2>5. CASE sem_post(h, "setPRE_postWrite", "write", "setPRE_access")
        BY <2>5, Semaphores DEF IInv, Frame, sem_post, Goto
    <2> HIDE DEF Pass, PrePCs, PostPCs, Names
    <2> QED
        BY <2>1, <2>2, <2>3, <2>4, <2>5 DEF SetPRE
<1>2. held' = held /\ UNCHANGED <<made, linked, ref, state, k>>
    BY DEF SetPRE, sem_wait, sem_post, sem_getvalue, semVars
<1> USE DEF Taken, Given, Tested, Jump
<1>3. Frame /\ sem \in [Names -> [1..MaxInstances -> Int]]
    BY DEF IInv, Frame, Types
<1>4. CASE Taken(h, "setPRE", "write", "setPRE_count")
    <2>1. Locks'
        BY <1>2, <1>4 DEF IInv, Types, Locks, Lock, Opening, InRead, InWrite, Among, Adds, V, Names
    <2>2. Switches'
        BY <1>2, <1>4 DEF IInv, Types, Phase, Switches, Shared, ReadLocked, WriteLocked, Waiting, Entering,
                         Among, Holding, Adds, V, Names
    <2>3. Readers' = Readers /\ Writers' = Writers
        BY <1>2, <1>4 DEF IInv, Types, Phase, Readers, Writers, Among, Holding
    <2>4. Counters'
        BY <1>4, <2>3 DEF IInv, Counters, Adds, V, Names
    <2>5. Frame'
        BY <1>2, <1>3, <1>4, FrameStep DEF Adds, Pass, PCs, PrePCs, PostPCs
    <2> QED
        BY <2>1, <2>2, <2>4, <2>5 DEF IInv, Frame
<1>5. CASE Given(h, "setPRE_count", "writeCount", "setPRE_value")
    <2>1. Locks'
        BY <1>2, <1>5 DEF IInv, Types, Locks, Lock, Opening, InRead, InWrite, Among, Adds, V, Names
    <2>2. Switches'
        BY <1>2, <1>5 DEF IInv, Types, Phase, Switches, Shared, ReadLocked, WriteLocked, Waiting, Entering,
                         Among, Holding, Adds, V, Names
    <2>3. Writers' = Writers \cup {h} /\ h \notin Writers /\ Writers \in SUBSET Handles /\ Readers' = Readers
        BY <1>2, <1>5 DEF IInv, Types, Phase, Readers, Writers, Among, Holding
    <2>4. Counters'
        BY <1>5, <2>3, Counting DEF IInv, Counters, Adds, V, Names
    <2>5. Frame'
        BY <1>2, <1>3, <1>5, FrameStep DEF Adds, Pass, PCs, PrePCs, PostPCs
    <2> QED
        BY <2>1, <2>2, <2>4, <2>5 DEF IInv, Frame
<1>6. CASE Tested(h, "setPRE_value", "setPRE_tryRead") /\ V("writeCount") = 1
    <2>0. \A g \in Handles : g \in InWrite => g = h
        BY <1>6 DEF IInv, Locks, Lock, InWrite, Among
    <2>1. Locks'
        BY <1>2, <1>6 DEF IInv, Types, Locks, Lock, Opening, InRead, InWrite, Among, Adds, V, Names
    <2>2. Switches'
        BY <1>2, <1>6, <2>0, FirstWriter DEF IInv, Types, Phase, Switches, Shared, ReadLocked, WriteLocked, Waiting, Entering,
                         InWrite, Among, Holding, Adds, V, Names
    <2>3. Readers' = Readers /\ Writers' = Writers
        BY <1>2, <1>6 DEF IInv, Types, Phase, Readers, Writers, Among, Holding
    <2>4. Counters'
        BY <1>6, <2>3 DEF IInv, Counters, Adds, V, Names
    <2>5. Frame'
        BY <1>2, <1>3, <1>6, FrameStep DEF Adds, Pass, PCs, PrePCs, PostPCs
    <2> QED
        BY <2>1, <2>2, <2>4, <2>5 DEF IInv, Frame
<1>7. CASE Tested(h, "setPRE_value", "setPRE_postWrite") /\ V("writeCount") # 1
    <2>0. \A g \in Handles : g \in InWrite => g = h
        BY <1>7 DEF IInv, Locks, Lock, InWrite, Among
    <2>1. Locks'
        BY <1>2, <1>7 DEF IInv, Types, Locks, Lock, Opening, InRead, InWrite, Among, Adds, V, Names
    <2>2. Switches'
        BY <1>2, <1>7, <2>0, FirstWriter DEF IInv, Types, Phase, Switches, Shared, ReadLocked, WriteLocked, Waiting, Entering,
                         InWrite, Among, Holding, Adds, V, Names
    <2>3. Readers' = Readers /\ Writers' = Writers
        BY <1>2, <1>7 DEF IInv, Types, Phase, Readers, Writers, Among, Holding
    <2>4. Counters'
        BY <1>7, <2>3 DEF IInv, Counters, Adds, V, Names
    <2>5. Frame'
        BY <1>2, <1>3, <1>7, FrameStep DEF Adds, Pass, PCs, PrePCs, PostPCs
    <2> QED
        BY <2>1, <2>2, <2>4, <2>5 DEF IInv, Frame
<1>8. CASE Taken(h, "setPRE_tryRead", "tryRead", "setPRE_postWrite")
    <2>0. \A g \in Handles : g \in InWrite => g = h
        BY <1>8 DEF IInv, Locks, Lock, InWrite, Among
    <2>1. Locks'
        BY <1>2, <1>8 DEF IInv, Types, Locks, Lock, Opening, InRead, InWrite, Among, Adds, V, Names
    <2>2. Switches'
        BY <1>2, <1>8, <2>0 DEF IInv, Types, Phase, Switches, Shared, ReadLocked, WriteLocked, Waiting, Entering,
                         InWrite, Among, Holding, Adds, V, Names
    <2>3. Readers' = Readers /\ Writers' = Writers
        BY <1>2, <1>8 DEF IInv, Types, Phase, Readers, Writers, Among, Holding
    <2>4. Counters'
        BY <1>8, <2>3 DEF IInv, Counters, Adds, V, Names
    <2>5. Frame'
        BY <1>2, <1>3, <1>8, FrameStep DEF Adds, Pass, PCs, PrePCs, PostPCs
    <2> QED
        BY <2>1, <2>2, <2>4, <2>5 DEF IInv, Frame
<1>9. CASE Given(h, "setPRE_postWrite", "write", "setPRE_access")
    <2>1. Locks'
        BY <1>2, <1>9 DEF IInv, Types, Locks, Lock, Opening, InRead, InWrite, Among, Adds, V, Names
    <2>2. Switches'
        BY <1>2, <1>9 DEF IInv, Types, Phase, Switches, Shared, ReadLocked, WriteLocked, Waiting, Entering,
                         Among, Holding, Adds, V, Names
    <2>3. Readers' = Readers /\ Writers' = Writers
        BY <1>2, <1>9 DEF IInv, Types, Phase, Readers, Writers, Among, Holding
    <2>4. Counters'
        BY <1>9, <2>3 DEF IInv, Counters, Adds, V, Names
    <2>5. Frame'
        BY <1>2, <1>3, <1>9, FrameStep DEF Adds, Pass, PCs, PrePCs, PostPCs
    <2> QED
        BY <2>1, <2>2, <2>4, <2>5 DEF IInv, Frame
<1> QED
    BY <1>1, <1>4, <1>5, <1>6, <1>7, <1>8, <1>9

\* How elektraSemlockSet unlocks.
LEMMA SetPOSTStep ==
    ASSUME IInv, NEW h \in Handles, SetPOST(h)
    PROVE  IInv'
<1>1. \/ Given(h, "setPOST", "access", "setPOST_write")
      \/ Taken(h, "setPOST_write", "write", "setPOST_count")
      \/ Taken(h, "setPOST_count", "writeCount", "setPOST_value")
      \/ Tested(h, "setPOST_value", "setPOST_tryRead") /\ V("writeCount") = 0
      \/ Tested(h, "setPOST_value", "setPOST_postWrite") /\ V("writeCount") # 0
      \/ Given(h, "setPOST_tryRead", "tryRead", "setPOST_postWrite")
      \/ Given(h, "setPOST_postWrite", "write", "out")
    <2> USE DEF Pass, PrePCs, PostPCs, Names
    <2>1. CASE sem_post(h, "setPOST", "access", "setPOST_write")
        BY <2>1, Semaphores DEF IInv, Frame, sem_post, Goto
    <2>2. CASE sem_wait(h, "setPOST_write", "write", "setPOST_count")
        BY <2>2, Semaphores DEF IInv, Frame, sem_wait, Goto
    <2>3. CASE sem_wait(h, "setPOST_count", "writeCount", "setPOST_value")
        BY <2>3, Semaphores DEF IInv, Frame, sem_wait, Goto
    <2>4. CASE sem_getvalue(h, "setPOST_value", "writeCount", 0, "setPOST_tryRead", "setPOST_postWrite")
        <3>1. pc[h] = "setPOST_value"
            BY <2>4 DEF sem_getvalue, Goto
        <3> QED
            BY <2>4, <3>1, Semaphores DEF IInv, Frame
    <2>5. CASE sem_post(h, "setPOST_tryRead", "tryRead", "setPOST_postWrite")
        BY <2>5, Semaphores DEF IInv, Frame, sem_post, Goto
    <2>6. CASE sem_post(h, "setPOST_postWrite", "write", "out")
        BY <2>6, Semaphores DEF IInv, Frame, sem_post, Goto
    <2> HIDE DEF Pass, PrePCs, PostPCs, Names
    <2> QED
        BY <2>1, <2>2, <2>3, <2>4, <2>5, <2>6 DEF SetPOST
<1>2. held' = held /\ UNCHANGED <<made, linked, ref, state, k>>
    BY DEF SetPOST, sem_wait, sem_post, sem_getvalue, semVars
<1> USE DEF Taken, Given, Tested, Jump
<1>3. Frame /\ sem \in [Names -> [1..MaxInstances -> Int]]
    BY DEF IInv, Frame, Types
<1>4. CASE Given(h, "setPOST", "access", "setPOST_write")
    <2>1. Locks'
        BY <1>2, <1>4 DEF IInv, Types, Locks, Lock, Opening, InRead, InWrite, Among, Adds, V, Names
    <2>2. Switches'
        BY <1>2, <1>4 DEF IInv, Types, Phase, Switches, Shared, ReadLocked, WriteLocked, Waiting, Entering,
                         Among, Holding, Adds, V, Names
    <2>3. Readers' = Readers /\ Writers' = Writers
        BY <1>2, <1>4 DEF IInv, Types, Phase, Readers, Writers, Among, Holding
    <2>4. Counters'
        BY <1>4, <2>3 DEF IInv, Counters, Adds, V, Names
    <2>5. Frame'
        BY <1>2, <1>3, <1>4, FrameStep DEF Adds, Pass, PCs, PrePCs, PostPCs
    <2> QED
        BY <2>1, <2>2, <2>4, <2>5 DEF IInv, Frame
<1>5. CASE Taken(h, "setPOST_write", "write", "setPOST_count")
    <2>1. Locks'
        BY <1>2, <1>5 DEF IInv, Types, Locks, Lock, Opening, InRead, InWrite, Among, Adds, V, Names
    <2>2. Switches'
        BY <1>2, <1>5 DEF IInv, Types, Phase, Switches, Shared, ReadLocked, WriteLocked, Waiting, Entering,
                         Among, Holding, Adds, V, Names
    <2>3. Readers' = Readers /\ Writers' = Writers
        BY <1>2, <1>5 DEF IInv, Types, Phase, Readers, Writers, Among, Holding
    <2>4. Counters'
        BY <1>5, <2>3 DEF IInv, Counters, Adds, V, Names
    <2>5. Frame'
        BY <1>2, <1>3, <1>5, FrameStep DEF Adds, Pass, PCs, PrePCs, PostPCs
    <2> QED
        BY <2>1, <2>2, <2>4, <2>5 DEF IInv, Frame
<1>6. CASE Taken(h, "setPOST_count", "writeCount", "setPOST_value")
    <2>1. Locks'
        BY <1>2, <1>6 DEF IInv, Types, Locks, Lock, Opening, InRead, InWrite, Among, Adds, V, Names
    <2>2. Switches'
        BY <1>2, <1>6 DEF IInv, Types, Phase, Switches, Shared, ReadLocked, WriteLocked, Waiting, Entering,
                         Among, Holding, Adds, V, Names
    <2>3. Writers' = Writers \ {h} /\ h \in Writers /\ Writers \in SUBSET Handles /\ Readers' = Readers
        BY <1>2, <1>6 DEF IInv, Types, Phase, Readers, Writers, Among, Holding
    <2>4. Counters'
        BY <1>6, <2>3, Counting DEF IInv, Counters, Adds, V, Names
    <2>5. Frame'
        BY <1>2, <1>3, <1>6, FrameStep DEF Adds, Pass, PCs, PrePCs, PostPCs
    <2> QED
        BY <2>1, <2>2, <2>4, <2>5 DEF IInv, Frame
<1>7. CASE Tested(h, "setPOST_value", "setPOST_tryRead") /\ V("writeCount") = 0
    <2>1. Locks'
        BY <1>2, <1>7 DEF IInv, Types, Locks, Lock, Opening, InRead, InWrite, Among, Adds, V, Names
    <2>2. Switches'
        BY <1>2, <1>7, LastWriter DEF IInv, Types, Phase, Switches, Shared, ReadLocked, WriteLocked, Waiting, Entering,
                         Among, Holding, Adds, V, Names
    <2>3. Readers' = Readers /\ Writers' = Writers
        BY <1>2, <1>7 DEF IInv, Types, Phase, Readers, Writers, Among, Holding
    <2>4. Counters'
        BY <1>7, <2>3 DEF IInv, Counters, Adds, V, Names
    <2>5. Frame'
        BY <1>2, <1>3, <1>7, FrameStep DEF Adds, Pass, PCs, PrePCs, PostPCs
    <2> QED
        BY <2>1, <2>2, <2>4, <2>5 DEF IInv, Frame
<1>8. CASE Tested(h, "setPOST_value", "setPOST_postWrite") /\ V("writeCount") # 0
    <2>1. Locks'
        BY <1>2, <1>8 DEF IInv, Types, Locks, Lock, Opening, InRead, InWrite, Among, Adds, V, Names
    <2>2. Switches'
        BY <1>2, <1>8, LastWriter DEF IInv, Types, Phase, Switches, Shared, ReadLocked, WriteLocked, Waiting, Entering,
                         Among, Holding, Adds, V, Names
    <2>3. Readers' = Readers /\ Writers' = Writers
        BY <1>2, <1>8 DEF IInv, Types, Phase, Readers, Writers, Among, Holding
    <2>4. Counters'
        BY <1>8, <2>3 DEF IInv, Counters, Adds, V, Names
    <2>5. Frame'
        BY <1>2, <1>3, <1>8, FrameStep DEF Adds, Pass, PCs, PrePCs, PostPCs
    <2> QED
        BY <2>1, <2>2, <2>4, <2>5 DEF IInv, Frame
<1>9. CASE Given(h, "setPOST_tryRead", "tryRead", "setPOST_postWrite")
    <2>0. \A g \in Handles : g \in InWrite => g = h
        BY <1>9 DEF IInv, Locks, Lock, InWrite, Among
    <2>1. Locks'
        BY <1>2, <1>9 DEF IInv, Types, Locks, Lock, Opening, InRead, InWrite, Among, Adds, V, Names
    <2>2. Switches'
        BY <1>2, <1>9, <2>0 DEF IInv, Types, Phase, Switches, Shared, ReadLocked, WriteLocked, Waiting, Entering,
                         InWrite, Among, Holding, Adds, V, Names
    <2>3. Readers' = Readers /\ Writers' = Writers
        BY <1>2, <1>9 DEF IInv, Types, Phase, Readers, Writers, Among, Holding
    <2>4. Counters'
        BY <1>9, <2>3 DEF IInv, Counters, Adds, V, Names
    <2>5. Frame'
        BY <1>2, <1>3, <1>9, FrameStep DEF Adds, Pass, PCs, PrePCs, PostPCs
    <2> QED
        BY <2>1, <2>2, <2>4, <2>5 DEF IInv, Frame
<1>10. CASE Given(h, "setPOST_postWrite", "write", "out")
    <2>1. Locks'
        BY <1>2, <1>10 DEF IInv, Types, Locks, Lock, Opening, InRead, InWrite, Among, Adds, V, Names
    <2>2. Switches'
        BY <1>2, <1>10 DEF IInv, Types, Phase, Switches, Shared, ReadLocked, WriteLocked, Waiting, Entering,
                         Among, Holding, Adds, V, Names
    <2>3. Readers' = Readers /\ Writers' = Writers
        BY <1>2, <1>10 DEF IInv, Types, Phase, Readers, Writers, Among, Holding
    <2>4. Counters'
        BY <1>10, <2>3 DEF IInv, Counters, Adds, V, Names
    <2>5. Frame'
        BY <1>2, <1>3, <1>10, FrameStep DEF Adds, Pass, PCs, PrePCs, PostPCs
    <2> QED
        BY <2>1, <2>2, <2>4, <2>5 DEF IInv, Frame
<1> QED
    BY <1>1, <1>4, <1>5, <1>6, <1>7, <1>8, <1>9, <1>10

\* The last step of a kdbGet() that locks.
LEMMA GetLockedStep ==
    ASSUME IInv, NEW h \in Handles, GetLocked(h)
    PROVE  IInv'
<1>1. Given(h, "getPRE_postTryRead", "tryRead", "out")
    BY Semaphores DEF GetLocked, IInv, Frame, sem_post, Goto, Pass, PrePCs, Names
<1>2. held' = [held EXCEPT ![h] = "read"] /\ UNCHANGED <<made, linked, ref, state, k>>
    BY DEF GetLocked, sem_post
<1> USE DEF Given, Jump
<1>3. Locks'
    BY <1>1, <1>2 DEF IInv, Types, Locks, Lock, Opening, InRead, InWrite, Among, Adds, V, Names
<1>4. Switches'
    BY <1>1, <1>2 DEF IInv, Types, Phase, Switches, Shared, ReadLocked, WriteLocked, Waiting, Entering,
                      Among, Holding, Adds, V, Names
<1>5. Readers' = Readers /\ Writers' = Writers
    BY <1>1, <1>2 DEF IInv, Types, Phase, Readers, Writers, Among, Holding
<1>6. Counters'
    BY <1>1, <1>5 DEF IInv, Counters, Adds, V, Names
<1>7. Frame'
    BY <1>1, <1>2, FrameStep DEF IInv, Frame, Adds, Pass, PCs, PrePCs, PostPCs
<1> QED
    BY <1>3, <1>4, <1>6, <1>7 DEF IInv, Frame

\* The last step of a kdbSet() that locks.
LEMMA SetLockedStep ==
    ASSUME IInv, NEW h \in Handles, SetLocked(h)
    PROVE  IInv'
<1>1. Taken(h, "setPRE_access", "access", "out")
    BY Semaphores DEF SetLocked, IInv, Frame, sem_wait, Goto, Pass, PrePCs, Names
<1>2. held' = [held EXCEPT ![h] = "write"] /\ UNCHANGED <<made, linked, ref, state, k>>
    BY DEF SetLocked, sem_wait
<1> USE DEF Taken, Jump
<1>3. Locks'
    BY <1>1, <1>2 DEF IInv, Types, Locks, Lock, Opening, InRead, InWrite, Among, Adds, V, Names
<1>4. Switches'
    BY <1>1, <1>2 DEF IInv, Types, Phase, Switches, Shared, ReadLocked, WriteLocked, Waiting, Entering,
                      Among, Holding, Adds, V, Names
<1>5. Readers' = Readers /\ Writers' = Writers
    BY <1>1, <1>2 DEF IInv, Types, Phase, Readers, Writers, Among, Holding
<1>6. Counters'
    BY <1>1, <1>5 DEF IInv, Counters, Adds, V, Names
<1>7. Frame'
    BY <1>1, <1>2, FrameStep DEF IInv, Frame, Adds, Pass, PCs, PrePCs, PostPCs
<1> QED
    BY <1>3, <1>4, <1>6, <1>7 DEF IInv, Frame

\* The beginning of a call that locks: nothing is locked yet.
LEMMA EnterPRE ==
    ASSUME IInv, NEW h \in Handles, NEW to \in {"getPRE", "setPRE"}, Jump(h, "out", to),
           held[h] = "nothing", held' = held, state' = [state EXCEPT ![h] = "POST"],
           UNCHANGED <<sem, made, linked, ref, k>>
    PROVE  IInv'
<1> USE DEF Jump
<1>1. Locks'
    BY DEF IInv, Types, Locks, Lock, Opening, InRead, InWrite, Among, V
<1>2. Switches'
    BY DEF IInv, Types, Phase, Switches, Shared, ReadLocked, WriteLocked, Waiting, Entering, Among, Holding, V
<1>3. Readers' = Readers /\ Writers' = Writers
    BY DEF IInv, Types, Phase, Readers, Writers, Among, Holding
<1>4. Counters'
    BY <1>3 DEF IInv, Counters, V
<1>5. Types'
    BY DEF IInv, Types, PCs, PrePCs, PostPCs
<1>6. Phase'
    BY DEF IInv, Types, Phase, PCs, PrePCs, PostPCs
<1>7. Opened'
    BY DEF IInv, Types, Opened, PCs, PrePCs, PostPCs
<1>8. Life'
    <2>1. \A g \in Handles : /\ Closing(g)' <=> Closing(g)
                             /\ pc'[g] \in OpenPCs <=> pc[g] \in OpenPCs
        BY DEF IInv, Types, Closing, OpenPCs, ClosePCs
    <2> QED
        BY <2>1 DEF IInv, Life
<1> QED
    BY <1>1, <1>2, <1>4, <1>5, <1>6, <1>7, <1>8 DEF IInv

\* The beginning of a call that unlocks: nothing is given back yet.
LEMMA EnterPOST ==
    ASSUME IInv, NEW h \in Handles, NEW what \in {"read", "write"}, held[h] = what,
           Jump(h, "out", IF what = "read" THEN "getPOST" ELSE "setPOST"),
           held' = [held EXCEPT ![h] = "nothing"], state' = [state EXCEPT ![h] = "PRE"],
           UNCHANGED <<sem, made, linked, ref, k>>
    PROVE  IInv'
<1> USE DEF Jump
<1>1. Locks'
    BY DEF IInv, Types, Locks, Lock, Opening, InRead, InWrite, Among, V
<1>2. Switches'
    BY DEF IInv, Types, Phase, Switches, Shared, ReadLocked, WriteLocked, Waiting, Entering, Among, Holding, V
<1>3. Readers' = Readers /\ Writers' = Writers
    BY DEF IInv, Types, Phase, Readers, Writers, Among, Holding
<1>4. Counters'
    BY <1>3 DEF IInv, Counters, V
<1>5. Types'
    BY DEF IInv, Types, PCs, PrePCs, PostPCs
<1>6. Phase'
    BY DEF IInv, Types, Phase, PCs, PrePCs, PostPCs
<1>7. Opened'
    BY DEF IInv, Types, Opened, PCs, PrePCs, PostPCs
<1>8. Life'
    <2>1. \A g \in Handles : /\ Closing(g)' <=> Closing(g)
                             /\ pc'[g] \in OpenPCs <=> pc[g] \in OpenPCs
        BY DEF IInv, Types, Closing, OpenPCs, ClosePCs
    <2> QED
        BY <2>1 DEF IInv, Life
<1> QED
    BY <1>1, <1>2, <1>4, <1>5, <1>6, <1>7, <1>8 DEF IInv

\* A call of elektraSemlockGet or elektraSemlockSet begins.
LEMMA EnterStep ==
    ASSUME IInv, NEW h \in Handles, PairedGet(h) \/ PairedSet(h)
    PROVE  IInv'
<1> USE DEF PairedGet, PairedSet, GetEnter, SetEnter, Enter, Goto, Jump, IInv, Types, Phase
<1>1. UNCHANGED <<sem, made, linked, ref, k>>
    BY DEF semVars
<1>2. CASE state[h] = "PRE"
    <2>1. \E to \in {"getPRE", "setPRE"} : Jump(h, "out", to)
        BY <1>2
    <2>2. held[h] = "nothing" /\ held' = held /\ state' = [state EXCEPT ![h] = "POST"]
        BY <1>2
    <2> HIDE DEF PairedGet, PairedSet, IInv, Jump
    <2> QED
        BY <1>1, <2>1, <2>2, EnterPRE
<1>3. CASE state[h] = "POST"
    <2>1. \E what \in {"read", "write"} :
             held[h] = what /\ Jump(h, "out", IF what = "read" THEN "getPOST" ELSE "setPOST")
        BY <1>3
    <2>2. held' = [held EXCEPT ![h] = "nothing"] /\ state' = [state EXCEPT ![h] = "PRE"]
        BY <1>3
    <2> HIDE DEF PairedGet, PairedSet, IInv, Jump
    <2> QED
        BY <1>1, <2>1, <2>2, EnterPOST
<1> QED
    BY <1>2, <1>3

-----------------------------------------------------------------------------
(***************************************************************************)
(* Opening and closing.                                                    *)
(***************************************************************************)
\* A step outside Get and Set does not concern the locks.
LEMMA OutsideStep ==
    ASSUME IInv, NEW h \in Handles, NEW to \in PCs \ Pass, pc[h] \notin Pass,
           pc' = [pc EXCEPT ![h] = to], held' = held,
           \A n \in Names \ {"sem_mutex"} : sem'[n][1] = V(n)
    PROVE  /\ Lock(V("read"), InRead)' /\ Lock(V("write"), InWrite)'
           /\ Counters' /\ Switches'
<1> USE DEF Pass, PrePCs, PostPCs
<1>1. /\ InRead' = InRead /\ InWrite' = InWrite
      /\ Readers' = Readers /\ ReadLocked' = ReadLocked
      /\ Writers' = Writers /\ Waiting' = Waiting /\ WriteLocked' = WriteLocked
      /\ Entering' = Entering
    BY DEF IInv, Types, InRead, InWrite, Readers, ReadLocked, Writers, Waiting, WriteLocked, Entering, Among, Holding
<1>2. \A n \in Names \ {"sem_mutex"} : V(n)' = V(n)
    BY DEF V
<1>3. \A g \in Handles : pc'[g] \in Pass => pc'[g] = pc[g]
    BY DEF IInv, Types
<1> QED
    BY <1>1, <1>2, <1>3 DEF IInv, Locks, Lock, Counters, Switches, Shared, Names

\* sem_open() of a name gives the one semaphore of the name.
LEMMA sem_openOne ==
    ASSUME Frame, NEW h \in Handles, NEW n \in Names, sem_open(h, n),
           \A g \in Handles : ~Closing(g)
    PROVE  /\ made' \in [Names -> 0..1] /\ linked' \in [Names -> 0..1]
           /\ ref' = [ref EXCEPT ![h][n] = 1]
           /\ \A m \in Names : linked'[m] = 0 => linked[m] = 0 /\ made'[m] = made[m]
           /\ sem' = sem
<1>1. linked[n] = 0 => made[n] = 0
    BY DEF Frame, Life, Types
<1>2. /\ ref' = [ref EXCEPT ![h][n] = linked'[n]] /\ sem' = sem
    BY DEF sem_open
<1>3. CASE linked[n] # 0
    <2>1. linked' = linked /\ made' = made /\ linked[n] = 1
        BY <1>3 DEF sem_open, Frame, Types
    <2> QED
        BY <1>2, <2>1 DEF Frame, Types
<1>4. CASE linked[n] = 0
    <2>1. made' = [made EXCEPT ![n] = 1] /\ linked' = [linked EXCEPT ![n] = 1]
        BY <1>1, <1>4 DEF sem_open, Frame, Types
    <2>2. linked'[n] = 1
        BY <2>1 DEF Frame, Types
    <2> QED
        BY <1>2, <2>1, <2>2 DEF Frame, Types
<1> QED
    BY <1>3, <1>4

\* elektraSemlockOpen() opens "sem_mutex" while nobody closes the plugin.
LEMMA OpenMutexStep ==
    ASSUME IInv, ~Reopening, NEW h \in Handles, OpenMutex(h)
    PROVE  IInv'
<1>1. /\ pc[h] = "new" /\ pc' = [pc EXCEPT ![h] = "openWait"]
      /\ \A g \in Handles : ~Closing(g)
      /\ UNCHANGED <<state, k, held>>
    BY DEF OpenMutex, Goto
<1>2. /\ made' \in [Names -> 0..1] /\ linked' \in [Names -> 0..1]
      /\ ref' = [ref EXCEPT ![h]["sem_mutex"] = 1]
      /\ \A m \in Names : linked'[m] = 0 => linked[m] = 0 /\ made'[m] = made[m]
      /\ sem' = sem
    BY <1>1, sem_openOne DEF OpenMutex, IInv, Frame, Names
<1>3. Lock(V("read"), InRead)' /\ Lock(V("write"), InWrite)' /\ Counters' /\ Switches'
    BY <1>1, <1>2, OutsideStep DEF Pass, PCs, OpenPCs, PrePCs, PostPCs, V
<1>4. Lock(V("sem_mutex"), Opening)'
    BY <1>1, <1>2 DEF IInv, Types, Locks, Lock, Opening, Among, V
<1>5. Types'
    BY <1>1, <1>2 DEF IInv, Types, PCs, OpenPCs, Names
<1>6. Phase'
    BY <1>1 DEF IInv, Types, Phase, PrePCs
<1>7. Opened'
    BY <1>1, <1>2 DEF IInv, Types, Opened, PrePCs, PostPCs, Names
<1>8. Life'
    <2>1. \A g \in Handles : ~Closing(g)'
        BY <1>1 DEF IInv, Types, Closing, ClosePCs
    <2> QED
        BY <1>1, <1>2, <2>1 DEF IInv, Life
<1> QED
    BY <1>3, <1>4, <1>5, <1>6, <1>7, <1>8 DEF IInv, Locks

\* elektraSemlockOpen() opens its next name, with "sem_mutex" taken.
LEMMA OpenNameStep ==
    ASSUME IInv, NEW h \in Handles, OpenName(h)
    PROVE  IInv'
<1> DEFINE n == OpenOrder[k[h] + 1]
<1>1. /\ pc[h] = "openNames" /\ pc' = pc /\ k[h] \in 0..5
      /\ k' = [k EXCEPT ![h] = @ + 1] /\ UNCHANGED <<state, held>>
    BY DEF OpenName, IInv, Types, OpenOrder
<1>2. n \in Names /\ sem_open(h, n)
    BY <1>1 DEF OpenName, OpenOrder, Names
<1>3. \A g \in Handles : ~Closing(g)
    BY <1>1 DEF IInv, Life, OpenPCs
<1>4. /\ made' \in [Names -> 0..1] /\ linked' \in [Names -> 0..1]
      /\ ref' = [ref EXCEPT ![h][n] = 1]
      /\ \A m \in Names : linked'[m] = 0 => linked[m] = 0 /\ made'[m] = made[m]
      /\ sem' = sem
    BY <1>2, <1>3, sem_openOne DEF IInv, Frame
<1> HIDE DEF n
<1>5. Locks' /\ Counters' /\ Switches'
    BY <1>1, <1>4 DEF IInv, Locks, Counters, Switches, V, Opening, InRead, InWrite, Readers, ReadLocked,
                      Writers, Waiting, WriteLocked, Entering, Among, Holding
<1>6. Types'
    BY <1>1, <1>2, <1>4 DEF IInv, Types
<1>7. Phase'
    BY <1>1 DEF IInv, Phase
<1>8. Opened'
    <2>1. ASSUME NEW i \in 1..k'[h] PROVE ref'[h][OpenOrder[i]] = 1
        <3>1. i = k[h] + 1 \/ i \in 1..k[h]
            BY <1>1 DEF IInv, Types
        <3>2. OpenOrder[i] \in Names
            BY <1>1, <3>1 DEF OpenOrder, Names
        <3>3. CASE i = k[h] + 1
            BY <1>2, <1>4, <3>3 DEF IInv, Types, n
        <3>4. CASE i \in 1..k[h]
            BY <1>1, <1>2, <1>4, <3>2, <3>4 DEF IInv, Types, Opened
        <3> QED
            BY <3>1, <3>3, <3>4
    <2>2. \A g \in Handles, m \in Names : ref[g][m] = 1 => ref'[g][m] = 1
        BY <1>2, <1>4 DEF IInv, Types
    <2>3. \A g \in Handles \ {h} : ref'[g] = ref[g] /\ k'[g] = k[g]
        BY <1>1, <1>2, <1>4 DEF IInv, Types
    <2>4. ref'[h]["sem_mutex"] = 1
        BY <1>1, <2>2 DEF IInv, Opened, Names
    <2> QED
        BY <1>1, <2>1, <2>3, <2>4 DEF IInv, Opened, PrePCs, PostPCs
<1>9. Life'
    BY <1>1, <1>3, <1>4 DEF IInv, Life, Closing
<1> QED
    BY <1>5, <1>6, <1>7, <1>8, <1>9 DEF IInv

\* The wait for "sem_mutex" when a handle opens or closes.
LEMMA MutexWaitStep ==
    ASSUME IInv, NEW h \in Handles, UNCHANGED held,
           \/ sem_wait(h, "openWait", "sem_mutex", "openNames")
           \/ sem_wait(h, "close", "sem_mutex", "closeNames")
    PROVE  IInv'
<1>1. \/ Jump(h, "openWait", "openNames")
      \/ Jump(h, "close", "closeNames")
    BY DEF sem_wait, Goto, Jump
<1>2. ref[h]["sem_mutex"] = 1 /\ k[h] = 0
    BY <1>1 DEF IInv, Opened, Jump
<1>3. Adds("sem_mutex", -1) /\ V("sem_mutex") > 0
    BY <1>2, ChangeAdds DEF sem_wait, IInv, Names, Value, V
<1>4. UNCHANGED <<made, linked, ref, state, k>>
    BY DEF sem_wait
<1> USE DEF Jump
<1>5. Lock(V("read"), InRead)' /\ Lock(V("write"), InWrite)' /\ Counters' /\ Switches'
    BY <1>1, <1>3, OutsideStep DEF Adds, Pass, PCs, OpenPCs, ClosePCs, PrePCs, PostPCs
<1>6. Lock(V("sem_mutex"), Opening)'
    BY <1>1, <1>3 DEF IInv, Types, Locks, Lock, Opening, Among, Adds, V
<1>7. Types'
    BY <1>1, <1>3, <1>4 DEF IInv, Types, PCs, OpenPCs, ClosePCs, Adds
<1>8. Phase'
    BY <1>1, <1>4 DEF IInv, Types, Phase, PrePCs
<1>9. Opened'
    BY <1>1, <1>2, <1>4 DEF IInv, Types, Opened, PrePCs, PostPCs
<1>10. Life'
    <2>1. \A g \in Handles : /\ Closing(g)' <=> Closing(g)
                             /\ pc'[g] \in OpenPCs <=> pc[g] \in OpenPCs
        BY <1>1 DEF IInv, Types, Closing, OpenPCs, ClosePCs
    <2> QED
        BY <1>3, <1>4, <2>1 DEF IInv, Life, Adds
<1> QED
    BY <1>5, <1>6, <1>7, <1>8, <1>9, <1>10 DEF IInv, Locks

\* All names are open when elektraSemlockOpen() returns.
LEMMA OpenEndStep ==
    ASSUME IInv, NEW h \in Handles, OpenEnd(h)
    PROVE  IInv'
<1>1. /\ Jump(h, "openNames", "out") /\ k[h] = 6
      /\ k' = [k EXCEPT ![h] = 0] /\ UNCHANGED <<made, linked, ref, state, held>>
    BY DEF OpenEnd, Goto, Jump, OpenOrder
<1>2. \A n \in Names : ref[h][n] = 1
    <2>1. ref[h]["sem_mutex"] = 1 /\ \A i \in 1..6 : ref[h][OpenOrder[i]] = 1
        BY <1>1 DEF IInv, Opened, Jump
    <2> QED
        BY <2>1 DEF OpenOrder, Names
<1>3. Adds("sem_mutex", 1)
    BY <1>2, ChangeAdds DEF OpenEnd, IInv, Names
<1> USE DEF Jump
<1>4. Lock(V("read"), InRead)' /\ Lock(V("write"), InWrite)' /\ Counters' /\ Switches'
    BY <1>1, <1>3, OutsideStep DEF Adds, Pass, PCs, OpenPCs, ClosePCs, PrePCs, PostPCs
<1>5. Lock(V("sem_mutex"), Opening)'
    BY <1>1, <1>3 DEF IInv, Types, Locks, Lock, Opening, Among, Adds, V
<1>6. Types'
    BY <1>1, <1>3 DEF IInv, Types, PCs, Adds
<1>7. Phase'
    BY <1>1 DEF IInv, Types, Phase, PrePCs
<1>8. Opened'
    BY <1>1, <1>2 DEF IInv, Types, Opened, PrePCs, PostPCs
<1>9. Life'
    <2>1. \A g \in Handles : /\ Closing(g)' <=> Closing(g)
                             /\ pc'[g] \in OpenPCs => pc[g] \in OpenPCs
        BY <1>1 DEF IInv, Types, Closing, OpenPCs, ClosePCs
    <2> QED
        BY <1>1, <1>3, <2>1 DEF IInv, Life, Adds
<1> QED
    BY <1>4, <1>5, <1>6, <1>7, <1>8, <1>9 DEF IInv, Locks

\* A handle closes between two calls, when none is being opened.
LEMMA CloseBeginStep ==
    ASSUME IInv, ~Reopening, NEW h \in Handles, PairedClose(h)
    PROVE  IInv'
<1>1. /\ Jump(h, "out", "close") /\ state[h] = "PRE"
      /\ \A g \in Handles : pc[g] \notin OpenPCs
      /\ UNCHANGED <<sem, made, linked, state, k, held>>
    BY DEF PairedClose, CloseBegin, Goto, Jump
<1>2. /\ ref' \in [Handles -> [Names -> 0..1]]
      /\ \A g \in Handles : g # h => ref'[g] = ref[g]
      /\ ref'[h]["sem_mutex"] = ref[h]["sem_mutex"]
    BY DEF PairedClose, CloseBegin, IInv, Types, Names
<1> USE DEF Jump
<1>3. Lock(V("read"), InRead)' /\ Lock(V("write"), InWrite)' /\ Counters' /\ Switches'
    BY <1>1, OutsideStep DEF V, Pass, PCs, OpenPCs, ClosePCs, PrePCs, PostPCs
<1>4. Lock(V("sem_mutex"), Opening)'
    BY <1>1 DEF IInv, Types, Locks, Lock, Opening, Among, V
<1>5. Types'
    BY <1>1, <1>2 DEF IInv, Types, PCs, ClosePCs
<1>6. Phase'
    BY <1>1 DEF IInv, Types, Phase, PrePCs
<1>7. Opened'
    BY <1>1, <1>2 DEF IInv, Types, Opened, PrePCs, PostPCs
<1>8. Life'
    <2>1. \A g \in Handles : /\ Closing(g) => Closing(g)'
                             /\ pc'[g] \notin OpenPCs
        BY <1>1 DEF IInv, Types, Closing, OpenPCs, ClosePCs
    <2> QED
        BY <1>1, <2>1 DEF IInv, Life
<1> QED
    BY <1>3, <1>4, <1>5, <1>6, <1>7, <1>8 DEF IInv, Locks

\* Names are unlinked while a handle closes.
LEMMA CloseStep ==
    ASSUME IInv, NEW h \in Handles, CloseName(h) \/ ClosePost(h) \/ CloseMutex(h)
    PROVE  IInv'
<1> DEFINE to == IF CloseName(h) THEN "closeNames" ELSE IF ClosePost(h) THEN "closeMutex" ELSE "gone"
<1>1. /\ pc[h] \in {"closeNames", "closeMutex"} /\ to \in {"closeNames", "closeMutex", "gone"}
      /\ pc' = [pc EXCEPT ![h] = to]
      /\ UNCHANGED <<made, state, held>>
    BY DEF CloseName, ClosePost, CloseMutex, Goto, sem_unlink, IInv, Types
<1>2. Closing(h) /\ Closing(h)'
    BY <1>1 DEF Closing, ClosePCs, IInv, Types
<1>3. /\ linked' \in [Names -> 0..1]
      /\ k' \in [Handles -> 0..6] /\ \A g \in Handles : g # h => k'[g] = k[g]
      /\ to # "closeNames" => k'[h] = 0
      /\ ref' \in [Handles -> [Names -> 0..1]] /\ \A g \in Handles : g # h => ref'[g] = ref[g]
      /\ to # "gone" => ref'[h] = ref[h]
    <2>1. CASE CloseName(h)
        BY SMTT(20), <2>1 DEF CloseName, sem_unlink, UnlinkOrder, Names, IInv, Types
    <2>2. CASE ClosePost(h) /\ ~CloseName(h)
        BY <2>2 DEF ClosePost, IInv, Types
    <2>3. CASE CloseMutex(h) /\ ~CloseName(h) /\ ~ClosePost(h)
        BY <2>3 DEF CloseMutex, Goto, sem_unlink, IInv, Types, Names, Opened
    <2> QED
        BY <2>1, <2>2, <2>3
<1>4. /\ sem' \in [Names -> [1..MaxInstances -> Int]]
      /\ \A n \in Names \ {"sem_mutex"} : sem'[n][1] = V(n)
      /\ \A n \in Names, i \in 2..MaxInstances : sem'[n][i] = sem[n][i]
      /\ V("sem_mutex")' = IF to = "closeMutex" THEN V("sem_mutex") + 1 ELSE V("sem_mutex")
      /\ to # "gone" => pc[h] = "closeNames"
      /\ to = "gone" => pc[h] = "closeMutex"
    <2>1. CASE ClosePost(h)
        <3>1. ~CloseName(h) /\ pc[h] = "closeNames" /\ ref[h]["sem_mutex"] = 1
            BY <2>1 DEF ClosePost, CloseName, Goto, IInv, Opened, UnlinkOrder
        <3>2. Adds("sem_mutex", 1)
            BY <2>1, <3>1, ChangeAdds DEF ClosePost, IInv, Names
        <3> QED
            BY <2>1, <3>1, <3>2 DEF Adds, V
    <2>2. CASE ~ClosePost(h)
        BY <2>2 DEF CloseName, CloseMutex, Goto, sem_unlink, V, IInv, Types
    <2> QED
        BY <2>1, <2>2
<1> HIDE DEF to
<1>5. Lock(V("read"), InRead)' /\ Lock(V("write"), InWrite)' /\ Counters' /\ Switches'
    BY <1>1, <1>4, OutsideStep DEF Pass, PCs, OpenPCs, ClosePCs, PrePCs, PostPCs
<1>6. Lock(V("sem_mutex"), Opening)'
    BY <1>1, <1>4 DEF IInv, Types, Locks, Lock, Opening, Among
<1>7. Types'
    BY <1>1, <1>3, <1>4 DEF IInv, Types, PCs, ClosePCs
<1>8. Phase'
    BY <1>1 DEF IInv, Types, Phase, PrePCs
<1>9. Opened'
    BY <1>1, <1>3, <1>4 DEF IInv, Types, Opened, PrePCs, PostPCs
<1>10. Life'
    <2>1. \A g \in Handles : /\ Closing(g)' <=> Closing(g)
                             /\ pc'[g] \in OpenPCs <=> pc[g] \in OpenPCs
        BY <1>1 DEF IInv, Types, Closing, OpenPCs, ClosePCs
    <2> QED
        BY <1>2, <1>4, <2>1 DEF IInv, Life
<1> QED
    BY <1>5, <1>6, <1>7, <1>8, <1>9, <1>10 DEF IInv, Locks

-----------------------------------------------------------------------------
(***************************************************************************)
(* The theorems.                                                           *)
(***************************************************************************)
\* The invariant holds before any handle has opened the plugin.
LEMMA InitIInv == SemlockInit => IInv
<1> SUFFICES ASSUME SemlockInit PROVE IInv
    OBVIOUS
<1>1. Types
    BY SemlockAssumption DEF SemlockInit, Types, InitialValue, PCs
<1>2. \A P : "new" \notin P => Among(P) = {}
    BY DEF SemlockInit, Among
<1>3. Holding("read") = {} /\ Holding("write") = {}
    BY DEF SemlockInit, Holding
<1>4. /\ Opening = {} /\ InRead = {} /\ InWrite = {} /\ Readers = {} /\ ReadLocked = {}
      /\ Writers = {} /\ Waiting = {} /\ WriteLocked = {} /\ Entering = {}
    BY <1>2, <1>3 DEF Opening, InRead, InWrite, Readers, ReadLocked, Writers, Waiting, WriteLocked, Entering
<1>5. \A n \in Names : V(n) = InitialValue(n)
    BY SemlockAssumption DEF SemlockInit, V
<1>6. Locks
    BY <1>4, <1>5 DEF Locks, Lock, InitialValue, Names
<1>7. Counters
    BY <1>4, <1>5, FS_EmptySet DEF Counters, InitialValue, Names
<1>8. Switches
    BY <1>4, <1>5 DEF Switches, Shared, InitialValue, Names, SemlockInit
<1>9. Life
    BY DEF SemlockInit, Life, OpenPCs
<1>10. Opened
    BY DEF SemlockInit, Opened, PrePCs, PostPCs
<1>11. Phase
    BY DEF SemlockInit, Phase, PrePCs
<1> QED
    BY <1>1, <1>6, <1>7, <1>8, <1>9, <1>10, <1>11 DEF IInv

\* Every step of the plugin and of clients that call it in pairs keeps it.
LEMMA NextIInv ==
    ASSUME ~Reopening, IInv, [SemlockNext]_semlockVars
    PROVE  IInv'
<1>1. ASSUME NEW h \in Handles, PluginStep(h) PROVE IInv'
    BY <1>1, OpenMutexStep, OpenNameStep, MutexWaitStep, OpenEndStep, CloseStep,
       GetPREStep, GetLockedStep, GetPOSTStep, SetPREStep, SetLockedStep, SetPOSTStep
       DEF PluginStep, elektraSemlockOpen, elektraSemlockClose
<1>2. CASE UNCHANGED semlockVars
    BY <1>2 DEF semlockVars, semVars, IInv, Types, Life, Opened, Phase, Locks, Counters, Switches,
       Closing, V, Opening, InRead, InWrite, Readers, ReadLocked, Writers, Waiting, WriteLocked, Entering, Among, Holding
<1> QED
    BY <1>1, <1>2, EnterStep, CloseBeginStep DEF SemlockNext

\* The invariant holds as long as nobody opens the plugin after somebody has
\* closed it.
THEOREM SemlockInvariance ==
    ASSUME ~Reopening
    PROVE  SemlockSpec => []IInv
BY InitIInv, NextIInv, PTL DEF SemlockSpec

\* No binary semaphore of the plugin is posted while it is free, for any number
\* of handles that lock, unlock, open and close it.
THEOREM SemlockTypes ==
    ASSUME ~Reopening
    PROVE  SemlockSpec => []SemlockTypeOK
<1>1. ASSUME IInv PROVE SemlockTypeOK
    <2>1. \A n \in Names \ {"readCount", "writeCount"} : V(n) \in {0, 1}
        BY <1>1 DEF IInv, Locks, Lock, Switches, Shared, Names
    <2>2. V("readCount") \in Nat /\ V("writeCount") \in Nat
        <3>1. Readers \in SUBSET Handles /\ Writers \in SUBSET Handles
            BY DEF Readers, Writers, Among, Holding
        <3>2. IsFiniteSet(Readers) /\ IsFiniteSet(Writers)
            BY <3>1, SemlockAssumption, FS_Subset
        <3> QED
            BY <1>1, <3>2, FS_CardinalityType DEF IInv, Counters
    <2>3. \A n \in Names, i \in 1..MaxInstances :
             sem[n][i] \in Nat /\ (n \notin {"readCount", "writeCount"} => sem[n][i] <= 1)
        <3> TAKE n \in Names, i \in 1..MaxInstances
        <3>1. CASE i = 1
            BY <2>1, <2>2, <3>1 DEF V, Names
        <3>2. CASE i # 1
            BY <1>1, <3>2, SemlockAssumption DEF IInv, Life, InitialValue
        <3> QED
            BY <3>1, <3>2
    <2>4. sem \in [Names -> [1..MaxInstances -> Nat]]
        <3>1. sem \in [Names -> [1..MaxInstances -> Int]]
            BY <1>1 DEF IInv, Types
        <3>2. \A n \in Names : sem[n] \in [1..MaxInstances -> Nat]
            BY <2>3, <3>1
        <3> QED
            BY <3>1, <3>2
    <2>5. /\ made \in [Names -> 0..MaxInstances]
          /\ linked \in [Names -> 0..MaxInstances]
          /\ ref \in [Handles -> [Names -> 0..MaxInstances]]
        <3>1. 0..1 \subseteq 0..MaxInstances
            BY SemlockAssumption
        <3> QED
            BY <1>1, <3>1 DEF IInv, Types
    <2> QED
        BY <1>1, <2>3, <2>4, <2>5 DEF IInv, Types, SemlockTypeOK
<1> QED
    BY <1>1, SemlockInvariance, PTL

\* A handle that has locked for writing (elektraSemlockSet) excludes all other
\* readers and writers, for any number of handles.
THEOREM WritersExclude ==
    ASSUME ~Reopening
    PROVE  SemlockSpec => []Exclusion
<1>1. IInv => Exclusion
    BY DEF IInv, Types, Switches, Shared, ReadLocked, WriteLocked, Among, Holding, Exclusion
<1> QED
    BY <1>1, SemlockInvariance, PTL

\* A reader never overtakes a writer that has closed tryRead.
THEOREM WritersGoFirst ==
    ASSUME ~Reopening
    PROVE  SemlockSpec => WriterGoesFirst
<1>1. ASSUME IInv, SemlockNext, NEW r \in Handles, held[r] # "read", held'[r] = "read"
      PROVE  pc[r] = "getPRE_postTryRead"
    <2>1. PICK h \in Handles : PluginStep(h) \/ PairedGet(h) \/ PairedSet(h) \/ PairedClose(h)
        BY <1>1 DEF SemlockNext
    <2>2. CASE GetLocked(h)
        BY <1>1, <2>2 DEF GetLocked, sem_post, Goto, IInv, Types
    <2>3. CASE SetLocked(h)
        BY <1>1, <2>3 DEF SetLocked, IInv, Types
    <2>4. CASE PairedGet(h) \/ PairedSet(h)
        BY <1>1, <2>4 DEF PairedGet, PairedSet, GetEnter, SetEnter, Enter, IInv, Types
    <2>5. CASE PairedClose(h)
        BY <1>1, <2>5 DEF PairedClose, CloseBegin
    <2>6. CASE PluginStep(h) /\ ~GetLocked(h) /\ ~SetLocked(h)
        BY <1>1, <2>6 DEF PluginStep, elektraSemlockOpen, elektraSemlockClose, OpenMutex, OpenName,
           OpenEnd, CloseName, ClosePost, CloseMutex, GetPRE, GetPOST, SetPRE, SetPOST
    <2> QED
        BY <2>1, <2>2, <2>3, <2>4, <2>5, <2>6
<1>2. ASSUME IInv, NEW r \in Handles, NEW w \in Handles, pc[r] = "getPRE_postTryRead"
      PROVE  pc[w] \notin {"setPRE_postWrite", "setPRE_access"}
    BY <1>2 DEF IInv, Switches, Shared, Waiting, Entering, Among
<1>3. IInv /\ [SemlockNext]_semlockVars =>
        [\A r, w \in Handles :
           /\ held[r] # "read" /\ held'[r] = "read"
           => pc[w] \notin {"setPRE_postWrite", "setPRE_access"}]_semlockVars
    BY <1>1, <1>2
<1> QED
    BY <1>3, SemlockInvariance, PTL DEF SemlockSpec, WriterGoesFirst

-----------------------------------------------------------------------------
(***************************************************************************)
(* The hooks of kdb.c, the list plugin and the semlock plugin work         *)
(* together, for any number of handles.                                    *)
(*                                                                         *)
(* Neither plugin is told which hook calls it: the list plugin counts its  *)
(* calls with a cursor per function, and semlock its own in "state".       *)
(* InStep ties both to what is left of the call of kdbGet() or kdbSet(),   *)
(* for a handle whose calls come with all their hooks.  No other handle    *)
(* can disturb that, whatever its calls are and whether it could open the  *)
(* plugin or not.  If all that could open it are such handles, the hooks   *)
(* use semlock as SemlockSpec asks for, and what is proved of SemlockSpec  *)
(* holds for them.                                                         *)
(***************************************************************************)

-----------------------------------------------------------------------------
(* Operators of the model *)

\* The hooks at which the list plugin is mounted.
LEMMA MountedHooks ==
    /\ Mounted = {"prerollback", "postrollback", "presetstorage", "precommit",
                  "postcommit", "pregetstorage", "postgetstorage"}
    /\ "read" \notin Mounted /\ "write" \notin Mounted
<1>1. /\ Placements["err"] = <<"prerollback", "postrollback">>
      /\ Placements["set"] = <<"presetstorage", "presetcleanup", "precommit", "postcommit">>
      /\ Placements["get"] = <<"pregetstorage", "postgetstorage", "postgetcleanup">>
  BY DEF Placements
<1>2. /\ {Placements["err"][i] : i \in DOMAIN Placements["err"]} = {"prerollback", "postrollback"}
      /\ {Placements["set"][i] : i \in DOMAIN Placements["set"]} =
            {"presetstorage", "presetcleanup", "precommit", "postcommit"}
      /\ {Placements["get"][i] : i \in DOMAIN Placements["get"]} =
            {"pregetstorage", "postgetstorage", "postgetcleanup"}
  BY <1>1
<1>3. Hooks = {Placements["err"][i] : i \in DOMAIN Placements["err"]}
                \cup {Placements["set"][i] : i \in DOMAIN Placements["set"]}
                \cup {Placements["get"][i] : i \in DOMAIN Placements["get"]}
  BY DEF Hooks, Ops
<1> QED
  BY <1>2, <1>3 DEF Mounted

\* The function of the list plugin that a hook calls.
LEMMA HookOps ==
    /\ OpOf("pregetstorage") = "get" /\ OpOf("postgetstorage") = "get"
    /\ OpOf("presetstorage") = "set" /\ OpOf("precommit") = "set"
    /\ OpOf("postcommit") = "set"
  BY DEF OpOf, Ops, Placements

\* A function on 1..n is a sequence of length n.
LEMMA FunctionIsSeq ==
    ASSUME NEW S, NEW n \in Nat, NEW f \in [1..n -> S]
    PROVE  f \in Seq(S) /\ Len(f) = n
  OBVIOUS

\* Where the elements of two sequences are in their concatenation.
Concatenated(S, s, t, u) ==
    /\ u \in Seq(S)
    /\ Len(u) = Len(s) + Len(t)
    /\ \A i \in 1..Len(s) : u[i] = s[i]
    /\ \A i \in 1..Len(t) : u[Len(s) + i] = t[i]

\* The concatenation of two sequences.
LEMMA ConcatTwo ==
    ASSUME NEW S, NEW s \in Seq(S), NEW t \in Seq(S)
    PROVE  Concatenated(S, s, t, s \o t)
  BY DEF Concatenated

\* The flags of the placements as they lie in memory.
LEMMA MemoryFlags ==
    /\ Len(Memory) = 10
    /\ Memory[3] /\ ~Memory[4] /\ Memory[5] /\ Memory[6] /\ Memory[7]
    /\ Memory[8] /\ ~Memory[9] /\ Memory[10]
<1>1. /\ Flags("err") \in Seq(BOOLEAN) /\ Len(Flags("err")) = 2
  <2>1. /\ DOMAIN Placements["err"] = 1..2 /\ Len(Placements["err"]) = 2
    BY DEF Placements
  <2>2. Flags("err") \in [1..2 -> BOOLEAN]
    BY <2>1 DEF Flags
  <2> QED
    BY <2>2, FunctionIsSeq
<1>2. /\ Flags("set") \in Seq(BOOLEAN) /\ Len(Flags("set")) = 4
      /\ Flags("set")[1] /\ ~Flags("set")[2] /\ Flags("set")[3] /\ Flags("set")[4]
  <2>1. /\ DOMAIN Placements["set"] = 1..4
        /\ Placements["set"][1] = "presetstorage" /\ Placements["set"][2] = "presetcleanup"
        /\ Placements["set"][3] = "precommit" /\ Placements["set"][4] = "postcommit"
    BY DEF Placements
  <2>2. Flags("set") \in [1..4 -> BOOLEAN]
    BY <2>1 DEF Flags
  <2>3. \A i \in 1..4 : Flags("set")[i] <=> Placements["set"][i] \in Mounted
    BY <2>1 DEF Flags
  <2>4. Flags("set") \in Seq(BOOLEAN) /\ Len(Flags("set")) = 4
    BY <2>2, FunctionIsSeq
  <2> QED
    BY <2>1, <2>3, <2>4, MountedHooks
<1>3. /\ Flags("get") \in Seq(BOOLEAN) /\ Len(Flags("get")) = 3
      /\ Flags("get")[1] /\ Flags("get")[2] /\ ~Flags("get")[3]
  <2>1. /\ DOMAIN Placements["get"] = 1..3
        /\ Placements["get"][1] = "pregetstorage" /\ Placements["get"][2] = "postgetstorage"
        /\ Placements["get"][3] = "postgetcleanup"
    BY DEF Placements
  <2>2. Flags("get") \in [1..3 -> BOOLEAN]
    BY <2>1 DEF Flags
  <2>3. \A i \in 1..3 : Flags("get")[i] <=> Placements["get"][i] \in Mounted
    BY <2>1 DEF Flags
  <2>4. Flags("get") \in Seq(BOOLEAN) /\ Len(Flags("get")) = 3
    BY <2>2, FunctionIsSeq
  <2> QED
    BY <2>1, <2>3, <2>4, MountedHooks
<1>4. <<TRUE>> \in Seq(BOOLEAN) /\ Len(<<TRUE>>) = 1 /\ <<TRUE>>[1]
  OBVIOUS
<1> HIDE DEF Flags
<1> DEFINE A == Flags("err") \o Flags("set")
           B == A \o Flags("get")
<1>5. /\ A \in Seq(BOOLEAN) /\ Len(A) = 6
      /\ \A i \in 1..4 : A[2 + i] = Flags("set")[i]
  <2>0. Flags("err") \in Seq(BOOLEAN) /\ Flags("set") \in Seq(BOOLEAN)
    BY <1>1, <1>2
  <2>1. /\ A \in Seq(BOOLEAN) /\ Len(A) = Len(Flags("err")) + Len(Flags("set"))
        /\ \A i \in 1..Len(Flags("set")) : A[Len(Flags("err")) + i] = Flags("set")[i]
    BY <2>0, ConcatTwo DEF Concatenated
  <2>2. Len(A) = 2 + 4 /\ \A i \in 1..4 : A[2 + i] = Flags("set")[i]
    BY <1>1, <1>2, <2>1, Zenon
  <2>3. 2 + 4 = 6
    OBVIOUS
  <2> QED
    BY <2>1, <2>2, <2>3, Zenon
<1> HIDE DEF A
<1>6. /\ B \in Seq(BOOLEAN) /\ Len(B) = 9
      /\ \A i \in 1..6 : B[i] = A[i]
      /\ \A i \in 1..3 : B[6 + i] = Flags("get")[i]
  <2>0. A \in Seq(BOOLEAN) /\ Flags("get") \in Seq(BOOLEAN)
    BY <1>3, <1>5
  <2>1. /\ B \in Seq(BOOLEAN) /\ Len(B) = Len(A) + Len(Flags("get"))
        /\ \A i \in 1..Len(A) : B[i] = A[i]
        /\ \A i \in 1..Len(Flags("get")) : B[Len(A) + i] = Flags("get")[i]
    BY <2>0, ConcatTwo DEF Concatenated
  <2>2. /\ Len(B) = 6 + 3 /\ \A i \in 1..6 : B[i] = A[i]
        /\ \A i \in 1..3 : B[6 + i] = Flags("get")[i]
    BY <1>3, <1>5, <2>1, Zenon
  <2>3. 6 + 3 = 9
    OBVIOUS
  <2> QED
    BY <2>1, <2>2, <2>3, Zenon
<1> HIDE DEF B
<1> DEFINE D == <<TRUE>>
<1>7. /\ Len(Memory) = 10
      /\ \A i \in 1..9 : Memory[i] = B[i]
      /\ \A i \in 1..1 : Memory[9 + i] = D[i]
  <2>1. D \in Seq(BOOLEAN) /\ Len(D) = 1
    BY <1>4
  <2>2. Memory = B \o D
    BY DEF Memory, A, B
  <2> HIDE DEF D
  <2>3. /\ Len(Memory) = Len(B) + Len(D)
        /\ \A i \in 1..Len(B) : Memory[i] = B[i]
        /\ \A i \in 1..Len(D) : Memory[Len(B) + i] = D[i]
    <3>1. B \in Seq(BOOLEAN) /\ D \in Seq(BOOLEAN)
      BY <1>6, <2>1
    <3> QED
      BY <3>1, <2>2, ConcatTwo DEF Concatenated
  <2>4. /\ Len(Memory) = 9 + 1
        /\ \A i \in 1..9 : Memory[i] = B[i]
        /\ \A i \in 1..1 : Memory[9 + i] = D[i]
    BY <1>6, <2>1, <2>3, Zenon
  <2>5. 9 + 1 = 10
    OBVIOUS
  <2> QED
    BY <2>4, <2>5, Zenon
<1>8. /\ Memory[3] = Flags("set")[1] /\ Memory[4] = Flags("set")[2]
      /\ Memory[5] = Flags("set")[3] /\ Memory[6] = Flags("set")[4]
  <2>1. \A i \in 1..4 : Memory[2 + i] = Flags("set")[i]
    BY <1>5, <1>6, <1>7
  <2> QED
    BY <2>1
<1>9. /\ Memory[7] = Flags("get")[1] /\ Memory[8] = Flags("get")[2]
      /\ Memory[9] = Flags("get")[3]
  <2>1. \A i \in 1..3 : Memory[6 + i] = Flags("get")[i]
    BY <1>6, <1>7
  <2> QED
    BY <2>1
<1>10. Memory[10] = D[1]
  <2>1. 1 \in 1..1 /\ 9 + 1 = 10
    OBVIOUS
  <2> QED
    BY <1>7, <2>1, Zenon
<1>11. Len(Memory) = 10
  BY <1>7
<1> QED
  BY <1>2, <1>3, <1>4, <1>8, <1>9, <1>10, <1>11, Zenon DEF D

\* The number that is in a set and not greater than any of it is its minimum.
LEMMA MinIs ==
    ASSUME NEW S \in SUBSET Int, NEW x \in S, \A y \in S : x <= y
    PROVE  Min(S) = x
<1>1. \A y \in S : (\A z \in S : y <= z) => y = x
  <2>1. \A y \in S : y \in Int
    OBVIOUS
  <2> QED
    BY <2>1
<1>2. Min(S) \in S /\ \A z \in S : Min(S) <= z
  BY DEF Min
<1> QED
  BY <1>1, <1>2

\* The cursors of a kdbGet() come back to where they were after two calls, those
\* of a kdbSet() after three: the flag that is not set is passed over, and the
\* one behind the last placement is set.
LEMMA Cursors ==
    /\ NextPlacement("get", 1) = 2 /\ NextPlacement("get", 2) = 1
    /\ NextPlacement("set", 1) = 3 /\ NextPlacement("set", 3) = 4
    /\ NextPlacement("set", 4) = 1
<1> DEFINE F(op, c) == {n \in (c + 1) .. (Len(Memory) - Offset[op]) : Memory[Offset[op] + n]}
<1>0. /\ Offset["set"] = 2 /\ Offset["get"] = 6
      /\ Len(Placements["set"]) = 4 /\ Len(Placements["get"]) = 3
  BY DEF Offset, Placements
<1>1. \A op, c : NextPlacement(op, c) = ((Min(F(op, c)) - 1) % Len(Placements[op])) + 1
  BY DEF NextPlacement
<1>2. /\ F("get", 1) = {n \in 2..4 : Memory[6 + n]}
      /\ F("get", 2) = {n \in 3..4 : Memory[6 + n]}
      /\ F("set", 1) = {n \in 2..8 : Memory[2 + n]}
      /\ F("set", 3) = {n \in 4..8 : Memory[2 + n]}
      /\ F("set", 4) = {n \in 5..8 : Memory[2 + n]}
  BY <1>0, MemoryFlags
<1> HIDE DEF F
<1>3. Min(F("get", 1)) = 2
  BY <1>2, MemoryFlags, MinIs
<1>4. Min(F("get", 2)) = 4
  BY <1>2, MemoryFlags, MinIs
<1>5. Min(F("set", 1)) = 3
  BY SMTT(20), <1>2, MemoryFlags, MinIs
<1>6. Min(F("set", 3)) = 4
  BY <1>2, MemoryFlags, MinIs
<1>7. Min(F("set", 4)) = 5
  BY <1>2, MemoryFlags, MinIs
<1>8. /\ NextPlacement("get", 1) = ((2 - 1) % 3) + 1
      /\ NextPlacement("get", 2) = ((4 - 1) % 3) + 1
      /\ NextPlacement("set", 1) = ((3 - 1) % 4) + 1
      /\ NextPlacement("set", 3) = ((4 - 1) % 4) + 1
      /\ NextPlacement("set", 4) = ((5 - 1) % 4) + 1
  BY <1>0, <1>1, <1>3, <1>4, <1>5, <1>6, <1>7, Zenon
<1>9. /\ ((2 - 1) % 3) + 1 = 2 /\ ((4 - 1) % 3) + 1 = 1
      /\ ((3 - 1) % 4) + 1 = 3 /\ ((4 - 1) % 4) + 1 = 4 /\ ((5 - 1) % 4) + 1 = 1
  OBVIOUS
<1> QED
  BY <1>8, <1>9, Zenon

-----------------------------------------------------------------------------
(***************************************************************************)
(* What is left of a call, and what the plugins are in then.               *)
(***************************************************************************)
GetWork == <<"read", "postgetstorage">>
GetEnd == <<"postgetstorage">>
SetFull == <<"presetstorage", "write", "precommit", "write", "postcommit">>
SetWork == <<"write", "precommit", "write", "postcommit">>
SetCommitting == <<"precommit", "write", "postcommit">>
SetRest == <<"write", "postcommit">>
SetEnd == <<"postcommit">>

GetPREs == {"getPRE", "getPRE_read", "getPRE_count", "getPRE_value", "getPRE_access",
            "getPRE_postRead", "getPRE_postTryRead"}
SetPREs == {"setPRE", "setPRE_count", "setPRE_value", "setPRE_tryRead",
            "setPRE_postWrite", "setPRE_access"}

\* The cursors of handle h.
CursorsAt(h, g, s) == current[h]["get"] = g /\ current[h]["set"] = s

\* Between two calls, and before the first hook of a call.
Unlocked(h) == state[h] = "PRE" /\ held[h] = "nothing"

\* The plugin has the lock, or is about to get it, or could not be opened.
GetsLock(h) ==
    \/ h \in Denied
    \/ state[h] = "POST" /\ (pc[h] \in GetPREs \/ (pc[h] = "out" /\ held[h] = "read"))
SetsLock(h) ==
    \/ h \in Denied
    \/ state[h] = "POST" /\ (pc[h] \in SetPREs \/ (pc[h] = "out" /\ held[h] = "write"))

\* The cursors of the list plugin, the state of the semlock plugin and the rest
\* of the call fit together.
InStepAt(h) ==
    \/ /\ todo[h] = <<>>
       /\ CursorsAt(h, 1, 1) /\ Unlocked(h)
       /\ pc[h] \in {"new", "out", "gone"} \cup ClosePCs \cup PostPCs
    \/ /\ todo[h] = GetUpdated \/ todo[h] = SetFull
       /\ CursorsAt(h, 1, 1) /\ Unlocked(h)
       /\ pc[h] \in {"new", "out"} \cup OpenPCs
    \/ /\ todo[h] = GetWork \/ todo[h] = GetEnd
       /\ CursorsAt(h, 2, 1) /\ GetsLock(h)
    \/ /\ todo[h] = SetWork \/ todo[h] = SetCommitting
       /\ CursorsAt(h, 1, 3) /\ SetsLock(h)
    \/ /\ todo[h] = SetRest \/ todo[h] = SetEnd
       /\ CursorsAt(h, 1, 4) /\ SetsLock(h)

InStep == \A h \in Paired : current[h] \in [Ops -> Nat] /\ InStepAt(h)

\* The variables are functions of the handles.
Total(f) == f = [h \in Handles |-> f[h]]
Shape == Total(todo) /\ Total(current) /\ Total(pc) /\ Total(state) /\ Total(held)

\* A handle that cannot open the plugin never gets into it.
StaysOut == \A h \in Denied : pc[h] = "new" /\ Unlocked(h)

\* The call of a kdbSet() that stores one backend, as a tuple.
LEMMA SetCommittedTuple == SetCommitted(1) = SetFull
<1> DEFINE E == {"presetstorage", "write", "precommit", "postcommit"}
           P == Prepare(1)
           Q == <<"precommit", "write", "postcommit">>
<1>0. 2 * 1 = 2 /\ 1 % 2 = 1 /\ 2 % 2 = 0
  OBVIOUS
<1>1. P \in [1..2 -> E] /\ P[1] = "presetstorage" /\ P[2] = "write"
  <2>1. P = [i \in 1..2 |-> IF i % 2 = 1 THEN "presetstorage" ELSE "write"]
    BY <1>0 DEF Prepare
  <2> HIDE DEF P
  <2> QED
    BY <1>0, <2>1
<1>2. P \in Seq(E) /\ Len(P) = 2
  <2> HIDE DEF P, E
  <2> QED
    BY <1>1, FunctionIsSeq
<1>3. Q \in [1..3 -> E] /\ Q[1] = "precommit" /\ Q[2] = "write" /\ Q[3] = "postcommit"
  OBVIOUS
<1>3a. Q \in Seq(E) /\ Len(Q) = 3
  BY <1>3, FunctionIsSeq
<1>4. SetCommitted(1) = P \o Q
  BY DEF SetCommitted
<1>5. /\ SetFull \in [1..5 -> E]
      /\ SetFull[1] = "presetstorage" /\ SetFull[2] = "write" /\ SetFull[3] = "precommit"
      /\ SetFull[4] = "write" /\ SetFull[5] = "postcommit"
  BY DEF SetFull
<1> HIDE DEF P, Q
<1>6. /\ P \o Q \in Seq(E) /\ Len(P \o Q) = Len(P) + Len(Q)
      /\ \A i \in 1..Len(P) : (P \o Q)[i] = P[i]
      /\ \A i \in 1..Len(Q) : (P \o Q)[Len(P) + i] = Q[i]
  <2>1. P \in Seq(E) /\ Q \in Seq(E)
    BY <1>2, <1>3a
  <2> HIDE DEF E
  <2> QED
    BY <2>1, ConcatTwo DEF Concatenated
<1> HIDE DEF E
<1>7. /\ Len(P \o Q) = 2 + 3
      /\ \A i \in 1..2 : (P \o Q)[i] = P[i]
      /\ \A i \in 1..3 : (P \o Q)[2 + i] = Q[i]
  BY <1>2, <1>3a, <1>6, Zenon
<1> DEFINE U == P \o Q
<1>8. U \in [1..5 -> E]
  <2>1. 2 + 3 = 5
    OBVIOUS
  <2>2. U \in Seq(E) /\ Len(U) = 5
    BY <1>6, <1>7, <2>1, Zenon
  <2> HIDE DEF U
  <2>3. U \in [1..Len(U) -> E]
    BY <2>2, LenProperties
  <2> QED
    BY <2>2, <2>3, Zenon
<1>9. /\ \A i \in 1..2 : U[i] = P[i]
      /\ \A i \in 1..3 : U[2 + i] = Q[i]
  BY <1>7, Zenon
<1> HIDE DEF U
<1>10. U[1] = P[1] /\ U[2] = P[2]
  BY <1>9
<1>11. U[3] = Q[1] /\ U[4] = Q[2] /\ U[5] = Q[3]
  <2>1. 2 + 1 = 3 /\ 2 + 2 = 4 /\ 2 + 3 = 5 /\ 1 \in 1..3 /\ 2 \in 1..3 /\ 3 \in 1..3
    OBVIOUS
  <2> QED
    BY <1>9, <2>1, Zenon
<1>12. /\ U[1] = SetFull[1] /\ U[2] = SetFull[2] /\ U[3] = SetFull[3]
       /\ U[4] = SetFull[4] /\ U[5] = SetFull[5]
  BY <1>1, <1>3, <1>5, <1>10, <1>11, Zenon
<1>13. U = SetFull
  <2> HIDE DEF SetFull
  <2>1. \A i \in 1..5 : U[i] = SetFull[i]
    <3>1. \A i \in 1..5 : i = 1 \/ i = 2 \/ i = 3 \/ i = 4 \/ i = 5
      OBVIOUS
    <3> QED
      BY <1>12, <3>1, Zenon
  <2> QED
    BY <1>5, <1>8, <2>1
<1> QED
  BY <1>4, <1>13 DEF U

\* What comes next in a call, and what is left of it then.
LEMMA Heads ==
    /\ GetUpdated # <<>> /\ Head(GetUpdated) = "pregetstorage" /\ Tail(GetUpdated) = GetWork
    /\ GetWork # <<>> /\ Head(GetWork) = "read" /\ Tail(GetWork) = GetEnd
    /\ GetEnd # <<>> /\ Head(GetEnd) = "postgetstorage" /\ Tail(GetEnd) = <<>>
    /\ SetFull # <<>> /\ Head(SetFull) = "presetstorage" /\ Tail(SetFull) = SetWork
    /\ SetWork # <<>> /\ Head(SetWork) = "write" /\ Tail(SetWork) = SetCommitting
    /\ SetCommitting # <<>> /\ Head(SetCommitting) = "precommit" /\ Tail(SetCommitting) = SetRest
    /\ SetRest # <<>> /\ Head(SetRest) = "write" /\ Tail(SetRest) = SetEnd
    /\ SetEnd # <<>> /\ Head(SetEnd) = "postcommit" /\ Tail(SetEnd) = <<>>
<1>1. GetUpdated # <<>> /\ Head(GetUpdated) = "pregetstorage" /\ Tail(GetUpdated) = GetWork
  BY DEF GetUpdated, GetWork
<1>2. GetWork # <<>> /\ Head(GetWork) = "read" /\ Tail(GetWork) = GetEnd
  BY DEF GetEnd, GetWork
<1>3. GetEnd # <<>> /\ Head(GetEnd) = "postgetstorage" /\ Tail(GetEnd) = <<>>
  BY DEF GetEnd
<1>4. SetFull # <<>> /\ Head(SetFull) = "presetstorage" /\ Tail(SetFull) = SetWork
  BY DEF SetFull, SetWork
<1>5. SetWork # <<>> /\ Head(SetWork) = "write" /\ Tail(SetWork) = SetCommitting
  BY DEF SetCommitting, SetWork
<1>6. SetCommitting # <<>> /\ Head(SetCommitting) = "precommit" /\ Tail(SetCommitting) = SetRest
  BY DEF SetCommitting, SetRest
<1>7. SetRest # <<>> /\ Head(SetRest) = "write" /\ Tail(SetRest) = SetEnd
  BY DEF SetEnd, SetRest
<1>8. SetEnd # <<>> /\ Head(SetEnd) = "postcommit" /\ Tail(SetEnd) = <<>>
  BY DEF SetEnd
<1> QED
  BY <1>1, <1>2, <1>3, <1>4, <1>5, <1>6, <1>7, <1>8

\* The placements at the cursors that a paired call meets.
LEMMA PlacementsAt ==
    ASSUME NEW h \in Handles
    PROVE  /\ current[h]["get"] = 1 => Placement(h, "pregetstorage") = "pregetstorage"
           /\ current[h]["get"] = 2 => Placement(h, "postgetstorage") = "postgetstorage"
           /\ current[h]["set"] = 1 => Placement(h, "presetstorage") = "presetstorage"
           /\ current[h]["set"] = 3 => Placement(h, "precommit") = "precommit"
           /\ current[h]["set"] = 4 => Placement(h, "postcommit") = "postcommit"
<1>1. /\ Placements["set"][1] = "presetstorage" /\ Placements["set"][3] = "precommit"
      /\ Placements["set"][4] = "postcommit"
      /\ Placements["get"][1] = "pregetstorage" /\ Placements["get"][2] = "postgetstorage"
  BY DEF Placements
<1> QED
  BY <1>1, HookOps, Zenon DEF Placement

-----------------------------------------------------------------------------
(***************************************************************************)
(* The invariant of the composed specification, step by step.              *)
(***************************************************************************)

\* What a handle does.
StepOf(h) == Step(h) \/ (\E call \in Calls[h] : Begin(h, call)) \/ kdbClose(h)

\* Everybody but handle h stays where it is.
OthersStay(h) ==
    \A g \in Handles \ {h} :
        /\ todo'[g] = todo[g] /\ current'[g] = current[g]
        /\ pc'[g] = pc[g] /\ state'[g] = state[g] /\ held'[g] = held[g]

\* Where a step of the plugin leads, and what it locks.
Moves(h) ==
    \/ pc[h] \in OpenPCs /\ pc'[h] \in OpenPCs \cup {"out"} /\ held'[h] = held[h]
    \/ pc[h] \in ClosePCs /\ pc'[h] \in ClosePCs \cup {"gone"} /\ held'[h] = held[h]
    \/ pc[h] \in PostPCs /\ pc'[h] \in PostPCs \cup {"out"} /\ held'[h] = held[h]
    \/ pc[h] \in GetPREs /\ (pc'[h] \in GetPREs \/ (pc'[h] = "out" /\ held'[h] = "read"))
    \/ pc[h] \in SetPREs /\ (pc'[h] \in SetPREs \/ (pc'[h] = "out" /\ held'[h] = "write"))

\* A step of the plugin that is open leads on within its function, or out of it.
LEMMA PluginMoves ==
    ASSUME Shape, NEW h \in Handles, PluginStep(h), pc[h] # "new"
    PROVE  /\ Moves(h) /\ state' = state
           /\ \A g \in Handles \ {h} : pc'[g] = pc[g] /\ held'[g] = held[g]
           /\ Total(pc)' /\ Total(held)'
<1>1. CASE elektraSemlockOpen(h)
  <2>1. \/ Goto(h, "openWait", "openNames") /\ UNCHANGED <<state, held>>
        \/ pc[h] = "openNames" /\ UNCHANGED <<state, pc, held>>
        \/ Goto(h, "openNames", "out") /\ UNCHANGED <<state, held>>
    BY <1>1 DEF elektraSemlockOpen, OpenMutex, OpenName, OpenEnd, sem_wait, Goto
  <2> QED
    BY <2>1 DEF Shape, Total, Goto, Moves, OpenPCs
<1>2. CASE elektraSemlockClose(h)
  <2>1. \/ Goto(h, "close", "closeNames") /\ UNCHANGED <<state, held>>
        \/ pc[h] = "closeNames" /\ UNCHANGED <<state, pc, held>>
        \/ Goto(h, "closeNames", "closeMutex") /\ UNCHANGED <<state, held>>
        \/ Goto(h, "closeMutex", "gone") /\ UNCHANGED <<state, held>>
    BY <1>2 DEF elektraSemlockClose, CloseName, ClosePost, CloseMutex, sem_wait
  <2> QED
    BY <2>1 DEF Shape, Total, Goto, Moves, ClosePCs
<1>3. CASE GetPRE(h)
  <2>1. /\ \E from, to \in GetPREs : Goto(h, from, to)
        /\ UNCHANGED <<state, held>>
    BY <1>3 DEF GetPRE, sem_wait, sem_post, sem_getvalue, GetPREs
  <2>2. pc[h] \in GetPREs /\ pc'[h] \in GetPREs /\ state' = state
    BY <2>1 DEF Shape, Total, Goto
  <2>3. /\ \A g \in Handles \ {h} : pc'[g] = pc[g] /\ held'[g] = held[g]
        /\ Total(pc)' /\ Total(held)'
    BY <2>1 DEF Shape, Total, Goto
  <2> QED
    BY <2>2, <2>3, Zenon DEF Moves
<1>4. CASE GetLocked(h)
  <2>1. /\ Goto(h, "getPRE_postTryRead", "out") /\ state' = state
        /\ held' = [held EXCEPT ![h] = "read"]
    BY <1>4 DEF GetLocked, sem_post
  <2>2. pc'[h] = "out" /\ held'[h] = "read" /\ pc[h] \in GetPREs
    BY <2>1 DEF Shape, Total, Goto, GetPREs
  <2>3. /\ \A g \in Handles \ {h} : pc'[g] = pc[g] /\ held'[g] = held[g]
        /\ Total(pc)' /\ Total(held)'
    BY <2>1 DEF Shape, Total, Goto
  <2> QED
    BY <2>1, <2>2, <2>3 DEF Moves
<1>5. CASE GetPOST(h)
  <2>1. /\ \E from \in PostPCs, to \in PostPCs \cup {"out"} : Goto(h, from, to)
        /\ UNCHANGED <<state, held>>
    BY <1>5 DEF GetPOST, sem_wait, sem_post, sem_getvalue, PostPCs
  <2> QED
    BY <2>1 DEF Shape, Total, Goto, Moves
<1>6. CASE SetPRE(h)
  <2>1. /\ \E from, to \in SetPREs : Goto(h, from, to)
        /\ UNCHANGED <<state, held>>
    BY <1>6 DEF SetPRE, sem_wait, sem_post, sem_getvalue, SetPREs
  <2>2. pc[h] \in SetPREs /\ pc'[h] \in SetPREs /\ state' = state
    BY <2>1 DEF Shape, Total, Goto
  <2>3. /\ \A g \in Handles \ {h} : pc'[g] = pc[g] /\ held'[g] = held[g]
        /\ Total(pc)' /\ Total(held)'
    BY <2>1 DEF Shape, Total, Goto
  <2> QED
    BY <2>2, <2>3, Zenon DEF Moves
<1>7. CASE SetLocked(h)
  <2>1. /\ Goto(h, "setPRE_access", "out") /\ state' = state
        /\ held' = [held EXCEPT ![h] = "write"]
    BY <1>7 DEF SetLocked, sem_wait
  <2>2. pc'[h] = "out" /\ held'[h] = "write" /\ pc[h] \in SetPREs
    BY <2>1 DEF Shape, Total, Goto, SetPREs
  <2>3. /\ \A g \in Handles \ {h} : pc'[g] = pc[g] /\ held'[g] = held[g]
        /\ Total(pc)' /\ Total(held)'
    BY <2>1 DEF Shape, Total, Goto
  <2> QED
    BY <2>1, <2>2, <2>3 DEF Moves
<1>8. CASE SetPOST(h)
  <2>1. /\ \E from \in PostPCs, to \in PostPCs \cup {"out"} : Goto(h, from, to)
        /\ UNCHANGED <<state, held>>
    BY <1>8 DEF SetPOST, sem_wait, sem_post, sem_getvalue, PostPCs
  <2> QED
    BY <2>1 DEF Shape, Total, Goto, Moves
<1> QED
  BY <1>1, <1>2, <1>3, <1>4, <1>5, <1>6, <1>7, <1>8 DEF PluginStep

\* What entering the plugin does to its state and to what it holds.
LEMMA Entered ==
    ASSUME Shape, NEW h \in Handles, NEW pre, NEW post, Enter(h, pre, post)
    PROVE  /\ pc[h] = "out"
           /\ state[h] = "PRE" => pc'[h] = pre /\ state'[h] = "POST" /\ held'[h] = held[h]
           /\ state[h] = "POST" => pc'[h] = post /\ state'[h] = "PRE" /\ held'[h] = "nothing"
           /\ \A g \in Handles \ {h} :
                 pc'[g] = pc[g] /\ state'[g] = state[g] /\ held'[g] = held[g]
           /\ Total(pc)' /\ Total(state)' /\ Total(held)'
<1>1. /\ pc[h] = "out" /\ pc' = [pc EXCEPT ![h] = IF state[h] = "PRE" THEN pre ELSE post]
      /\ state' = [state EXCEPT ![h] = IF state[h] = "PRE" THEN "POST" ELSE "PRE"]
      /\ held' = [held EXCEPT ![h] = IF state[h] = "PRE" THEN held[h] ELSE "nothing"]
  BY DEF Enter, Goto
<1>2. /\ pc'[h] = (IF state[h] = "PRE" THEN pre ELSE post)
      /\ (\A g \in Handles \ {h} : pc'[g] = pc[g]) /\ Total(pc)'
  BY <1>1 DEF Shape, Total
<1>3. /\ state'[h] = (IF state[h] = "PRE" THEN "POST" ELSE "PRE")
      /\ (\A g \in Handles \ {h} : state'[g] = state[g]) /\ Total(state)'
  BY <1>1 DEF Shape, Total
<1>4. /\ held'[h] = (IF state[h] = "PRE" THEN held[h] ELSE "nothing")
      /\ (\A g \in Handles \ {h} : held'[g] = held[g]) /\ Total(held)'
  BY <1>1 DEF Shape, Total
<1> QED
  BY <1>1, <1>2, <1>3, <1>4

\* What is left of a call after its next hook or the work of the backends.
LEMMA Popped ==
    ASSUME Shape, NEW h \in Handles, Pop(h)
    PROVE  /\ todo'[h] = Tail(todo[h])
           /\ \A g \in Handles \ {h} : todo'[g] = todo[g]
           /\ Total(todo)'
  BY DEF Pop, Shape, Total

\* A step of one handle leaves the others alone.
LEMMA OneHandle ==
    ASSUME Shape, StaysOut, NEW h \in Handles, StepOf(h)
    PROVE  Shape' /\ StaysOut' /\ OthersStay(h)
<1>1. CASE Plugin(h)
  <2>1. PluginStep(h) /\ pc[h] # "new" /\ todo' = todo /\ current' = current
    BY <1>1 DEF Plugin
  <2>2. /\ state' = state /\ Total(pc)' /\ Total(held)'
        /\ \A g \in Handles \ {h} : pc'[g] = pc[g] /\ held'[g] = held[g]
    BY <2>1, PluginMoves
  <2>3. OthersStay(h)
    BY <2>1, <2>2 DEF OthersStay
  <2>4. Shape'
    BY <2>1, <2>2 DEF Shape, Total
  <2>5. StaysOut'
    <3>1. h \notin Denied
      BY <2>1 DEF StaysOut
    <3> QED
      BY <2>3, <3>1, HooksAssumption DEF StaysOut, OthersStay, Unlocked
  <2> QED
    BY <2>3, <2>4, <2>5
<1>2. CASE ListOpen(h)
  <2>1. /\ OpenMutex(h) /\ todo' = todo /\ current' = current /\ h \notin Denied
    BY <1>2 DEF ListOpen
  <2>2. pc' = [pc EXCEPT ![h] = "openWait"] /\ state' = state /\ held' = held
    BY <2>1 DEF OpenMutex, Goto
  <2>3. Total(pc)' /\ \A g \in Handles \ {h} : pc'[g] = pc[g]
    BY <2>2 DEF Shape, Total
  <2>4. OthersStay(h)
    BY <2>1, <2>2, <2>3 DEF OthersStay
  <2>5. Shape'
    BY <2>1, <2>2, <2>3 DEF Shape, Total
  <2>6. StaysOut'
    BY <2>1, <2>4, HooksAssumption DEF StaysOut, OthersStay, Unlocked
  <2> QED
    BY <2>4, <2>5, <2>6
<1>3. CASE ListCall(h)
  <2>1. /\ Pop(h)
        /\ \E op, v : current' = [current EXCEPT ![h][op] = v]
        /\ \/ UNCHANGED semlockVars
           \/ h \notin Denied /\ (GetEnter(h) \/ SetEnter(h))
    BY <1>3 DEF ListCall
  <2>2. Total(todo)' /\ \A g \in Handles \ {h} : todo'[g] = todo[g]
    BY <2>1, Popped
  <2>3. Total(current)' /\ \A g \in Handles \ {h} : current'[g] = current[g]
    BY <2>1 DEF Shape, Total
  <2>4. CASE UNCHANGED semlockVars
    <3>1. pc' = pc /\ state' = state /\ held' = held
      BY <2>4 DEF semlockVars
    <3>2. OthersStay(h)
      BY <2>2, <2>3, <3>1 DEF OthersStay
    <3>3. Shape'
      BY <2>2, <2>3, <3>1 DEF Shape, Total
    <3> QED
      BY <3>1, <3>2, <3>3 DEF StaysOut, Unlocked
  <2>5. CASE h \notin Denied /\ (GetEnter(h) \/ SetEnter(h))
    <3>1. /\ \A g \in Handles \ {h} :
                pc'[g] = pc[g] /\ state'[g] = state[g] /\ held'[g] = held[g]
          /\ Total(pc)' /\ Total(state)' /\ Total(held)'
      BY <2>5, Entered DEF GetEnter, SetEnter
    <3>2. OthersStay(h)
      BY <2>2, <2>3, <3>1 DEF OthersStay
    <3>3. Shape'
      BY <2>2, <2>3, <3>1 DEF Shape
    <3> QED
      BY <2>5, <3>2, <3>3, HooksAssumption DEF StaysOut, OthersStay, Unlocked
  <2> QED
    BY <2>1, <2>4, <2>5
<1>4. CASE Work(h) \/ \E call \in Calls[h] : Begin(h, call)
  <2>1. /\ UNCHANGED semlockVars /\ current' = current
        /\ Pop(h) \/ \E call : todo' = [todo EXCEPT ![h] = call]
    BY <1>4 DEF Work, Begin
  <2>2. pc' = pc /\ state' = state /\ held' = held
    BY <2>1 DEF semlockVars
  <2>3. Total(todo)' /\ \A g \in Handles \ {h} : todo'[g] = todo[g]
    BY <2>1, Popped DEF Shape, Total
  <2>4. OthersStay(h)
    BY <2>1, <2>2, <2>3 DEF OthersStay
  <2>5. Shape'
    BY <2>1, <2>2, <2>3 DEF Shape, Total
  <2> QED
    BY <2>2, <2>4, <2>5 DEF StaysOut, Unlocked
<1>5. CASE kdbClose(h)
  <2>1. CloseBegin(h) /\ todo' = todo /\ current' = current
    BY <1>5 DEF kdbClose
  <2>2. /\ pc[h] = "out" /\ pc' = [pc EXCEPT ![h] = "close"] /\ state' = state /\ held' = held
    BY <2>1 DEF CloseBegin, Goto
  <2>3. Total(pc)' /\ \A g \in Handles \ {h} : pc'[g] = pc[g]
    BY <2>2 DEF Shape, Total
  <2>4. OthersStay(h)
    BY <2>1, <2>2, <2>3 DEF OthersStay
  <2>5. Shape'
    BY <2>1, <2>2, <2>3 DEF Shape, Total
  <2>6. StaysOut'
    <3>1. h \notin Denied
      BY <2>2 DEF StaysOut
    <3> QED
      BY <2>4, <3>1, HooksAssumption DEF StaysOut, OthersStay, Unlocked
  <2> QED
    BY <2>4, <2>5, <2>6
<1> QED
  BY <1>1, <1>2, <1>3, <1>4, <1>5 DEF StepOf, Step

\* A step of the plugin.
LEMMA PluginInStep ==
    ASSUME Shape, StaysOut, NEW h \in Handles, InStepAt(h), Plugin(h)
    PROVE  InStepAt(h)'
<1>1. /\ PluginStep(h) /\ pc[h] # "new" /\ todo' = todo /\ current' = current
  BY DEF Plugin
<1>2. Moves(h) /\ state' = state /\ h \notin Denied
  BY <1>1, PluginMoves DEF StaysOut
<1>3. CASE todo[h] = <<>> /\ CursorsAt(h, 1, 1) /\ Unlocked(h)
           /\ pc[h] \in {"new", "out", "gone"} \cup ClosePCs \cup PostPCs
  <2>1. /\ pc'[h] \in {"new", "out", "gone"} \cup ClosePCs \cup PostPCs
        /\ held'[h] = held[h]
    BY <1>2, <1>3 DEF Moves, ClosePCs, PostPCs, OpenPCs, GetPREs, SetPREs
  <2> QED
    BY <1>1, <1>2, <1>3, <2>1, Zenon DEF InStepAt, Unlocked, CursorsAt
<1>4. CASE (todo[h] = GetUpdated \/ todo[h] = SetFull) /\ CursorsAt(h, 1, 1) /\ Unlocked(h)
           /\ pc[h] \in {"new", "out"} \cup OpenPCs
  <2>1. pc'[h] \in {"new", "out"} \cup OpenPCs /\ held'[h] = held[h]
    BY <1>2, <1>4 DEF Moves, ClosePCs, PostPCs, OpenPCs, GetPREs, SetPREs
  <2> QED
    BY <1>1, <1>2, <1>4, <2>1, Zenon DEF InStepAt, Unlocked, CursorsAt
<1>5. ASSUME GetsLock(h) PROVE GetsLock(h)'
  BY <1>2, <1>5 DEF GetsLock, Moves, ClosePCs, PostPCs, OpenPCs, GetPREs, SetPREs
<1>6. ASSUME SetsLock(h) PROVE SetsLock(h)'
  BY <1>2, <1>6 DEF SetsLock, Moves, ClosePCs, PostPCs, OpenPCs, GetPREs, SetPREs
<1>7. \A g, s : CursorsAt(h, g, s) => CursorsAt(h, g, s)'
  BY <1>1 DEF CursorsAt
<1> QED
  BY <1>1, <1>3, <1>4, <1>5, <1>6, <1>7, Zenon DEF InStepAt

\* A hook opens the plugin first.
LEMMA ListOpenInStep ==
    ASSUME Shape, NEW h \in Handles, InStepAt(h), ListOpen(h)
    PROVE  InStepAt(h)' /\ PluginStep(h)
<1>1. /\ OpenMutex(h) /\ todo' = todo /\ current' = current /\ todo[h] # <<>> /\ h \notin Denied
  BY DEF ListOpen, At
<1>2. /\ pc[h] = "new" /\ pc' = [pc EXCEPT ![h] = "openWait"] /\ state' = state /\ held' = held
  BY <1>1 DEF OpenMutex, Goto
<1>3. pc'[h] = "openWait"
  BY <1>2 DEF Shape, Total
<1>4. (todo[h] = GetUpdated \/ todo[h] = SetFull) /\ CursorsAt(h, 1, 1) /\ Unlocked(h)
  BY <1>1, <1>2 DEF InStepAt, GetsLock, SetsLock, GetPREs, SetPREs
<1>5. InStepAt(h)'
  <2>1. pc'[h] \in {"new", "out"} \cup OpenPCs
    BY <1>3 DEF OpenPCs
  <2> QED
    BY <1>1, <1>2, <1>4, <2>1, Zenon DEF InStepAt, Unlocked, CursorsAt
<1>6. PluginStep(h)
  BY <1>1 DEF PluginStep, elektraSemlockOpen
<1> QED
  BY <1>5, <1>6

\* An application calls kdbGet() or kdbSet().
LEMMA BeginInStep ==
    ASSUME Shape, NEW h \in Handles, InStepAt(h), NEW call \in PairedCalls, Begin(h, call)
    PROVE  InStepAt(h)'
<1>1. /\ todo[h] = <<>> /\ pc[h] \in {"new", "out"} /\ todo' = [todo EXCEPT ![h] = call]
      /\ UNCHANGED semlockVars /\ current' = current
  BY DEF Begin
<1>2. state' = state /\ pc' = pc /\ held' = held
  BY <1>1 DEF semlockVars
<1>3. call = GetUpdated \/ call = SetFull
  BY SetCommittedTuple DEF PairedCalls
<1>4. todo'[h] = call
  BY <1>1 DEF Shape, Total
<1>5. CursorsAt(h, 1, 1) /\ Unlocked(h)
  BY <1>1, Heads DEF InStepAt
<1> QED
  BY <1>1, <1>2, <1>3, <1>4, <1>5, Zenon DEF InStepAt, Unlocked, CursorsAt

\* An application closes its handle.
LEMMA CloseInStep ==
    ASSUME Shape, NEW h \in Handles, InStepAt(h), kdbClose(h)
    PROVE  InStepAt(h)' /\ PairedClose(h)
<1>1. /\ todo[h] = <<>> /\ CloseBegin(h) /\ todo' = todo /\ current' = current
  BY DEF kdbClose
<1>2. /\ pc' = [pc EXCEPT ![h] = "close"] /\ state' = state /\ held' = held
  BY <1>1 DEF CloseBegin, Goto
<1>3. pc'[h] = "close"
  BY <1>2 DEF Shape, Total
<1>4. CursorsAt(h, 1, 1) /\ Unlocked(h)
  BY <1>1, Heads DEF InStepAt
<1>5. InStepAt(h)'
  <2>1. pc'[h] \in {"new", "out", "gone"} \cup ClosePCs \cup PostPCs
    BY <1>3 DEF ClosePCs
  <2> QED
    BY <1>1, <1>2, <1>4, <2>1, Zenon DEF InStepAt, Unlocked, CursorsAt
<1> QED
  BY <1>1, <1>4, <1>5 DEF PairedClose, Unlocked

\* The backends work: the lock is held, or the plugin could not be opened.
LEMMA WorkInStep ==
    ASSUME Shape, NEW h \in Handles, InStepAt(h), Work(h)
    PROVE  InStepAt(h)'
<1>1. /\ todo[h] # <<>> /\ Head(todo[h]) \in {"read", "write"}
      /\ Pop(h) /\ UNCHANGED semlockVars /\ current' = current
  BY DEF Work, At
<1>2. state' = state /\ pc' = pc /\ held' = held
  BY <1>1 DEF semlockVars
<1>3. todo'[h] = Tail(todo[h])
  BY <1>1, Popped
<1>4. todo[h] = GetWork \/ todo[h] = SetWork \/ todo[h] = SetRest
  BY <1>1, Heads DEF InStepAt
<1>5. CASE todo[h] = GetWork
  <2>1. CursorsAt(h, 2, 1) /\ GetsLock(h) /\ todo'[h] = GetEnd
    BY <1>3, <1>5, Heads DEF InStepAt
  <2> QED
    BY <1>1, <1>2, <2>1 DEF InStepAt, CursorsAt, GetsLock
<1>6. CASE todo[h] = SetWork
  <2>1. CursorsAt(h, 1, 3) /\ SetsLock(h) /\ todo'[h] = SetCommitting
    BY <1>3, <1>6, Heads DEF InStepAt
  <2> QED
    BY <1>1, <1>2, <2>1 DEF InStepAt, CursorsAt, SetsLock
<1>7. CASE todo[h] = SetRest
  <2>1. CursorsAt(h, 1, 4) /\ SetsLock(h) /\ todo'[h] = SetEnd
    BY <1>3, <1>7, Heads DEF InStepAt
  <2> QED
    BY <1>1, <1>2, <2>1 DEF InStepAt, CursorsAt, SetsLock
<1> QED
  BY <1>4, <1>5, <1>6, <1>7

\* The cursors after a call of the list plugin.
LEMMA CursorMoves ==
    ASSUME Shape, NEW h \in Handles, current[h] \in [Ops -> Nat],
           NEW op \in {"get", "set"}, NEW v \in Nat,
           current' = [current EXCEPT ![h][op] = v]
    PROVE  /\ current'[h] \in [Ops -> Nat]
           /\ current'[h][op] = v
           /\ \A o \in Ops \ {op} : current'[h][o] = current[h][o]
<1>1. op \in Ops
  BY DEF Ops
<1>2. current'[h] = [current[h] EXCEPT ![op] = v]
  BY DEF Shape, Total
<1> QED
  BY <1>1, <1>2

\* The semlock plugin is entered for the lock.
LEMMA Locking ==
    ASSUME Shape, NEW h \in Handles, Unlocked(h)
    PROVE  /\ GetEnter(h) => GetsLock(h)' /\ PairedGet(h)
           /\ SetEnter(h) => SetsLock(h)' /\ PairedSet(h)
<1>1. ASSUME GetEnter(h) PROVE GetsLock(h)' /\ PairedGet(h)
  <2>1. pc'[h] = "getPRE" /\ state'[h] = "POST"
    BY <1>1, Entered DEF GetEnter, Unlocked
  <2> QED
    BY <1>1, <2>1 DEF GetsLock, GetPREs, PairedGet, Unlocked
<1>2. ASSUME SetEnter(h) PROVE SetsLock(h)' /\ PairedSet(h)
  <2>1. pc'[h] = "setPRE" /\ state'[h] = "POST"
    BY <1>2, Entered DEF SetEnter, Unlocked
  <2> QED
    BY <1>2, <2>1 DEF SetsLock, SetPREs, PairedSet, Unlocked
<1> QED
  BY <1>1, <1>2

\* It is entered once more, to unlock.
LEMMA Unlocking ==
    ASSUME Shape, NEW h \in Handles, h \notin Denied
    PROVE  /\ GetsLock(h) /\ GetEnter(h) => Unlocked(h)' /\ pc'[h] \in PostPCs /\ PairedGet(h)
           /\ SetsLock(h) /\ SetEnter(h) => Unlocked(h)' /\ pc'[h] \in PostPCs /\ PairedSet(h)
<1>1. ASSUME GetsLock(h), GetEnter(h) PROVE Unlocked(h)' /\ pc'[h] \in PostPCs /\ PairedGet(h)
  <2>1. pc[h] = "out"
    BY <1>1, Entered DEF GetEnter
  <2>2. state[h] = "POST" /\ held[h] = "read"
    BY <1>1, <2>1 DEF GetsLock, GetPREs
  <2>3. pc'[h] = "getPOST" /\ state'[h] = "PRE" /\ held'[h] = "nothing"
    BY <1>1, <2>2, Entered DEF GetEnter
  <2> QED
    BY <1>1, <2>2, <2>3 DEF Unlocked, PostPCs, PairedGet
<1>2. ASSUME SetsLock(h), SetEnter(h) PROVE Unlocked(h)' /\ pc'[h] \in PostPCs /\ PairedSet(h)
  <2>1. pc[h] = "out"
    BY <1>2, Entered DEF SetEnter
  <2>2. state[h] = "POST" /\ held[h] = "write"
    BY <1>2, <2>1 DEF SetsLock, SetPREs
  <2>3. pc'[h] = "setPOST" /\ state'[h] = "PRE" /\ held'[h] = "nothing"
    BY <1>2, <2>2, Entered DEF SetEnter
  <2> QED
    BY <1>2, <2>2, <2>3 DEF Unlocked, PostPCs, PairedSet
<1> QED
  BY <1>1, <1>2

\* A hook calls the list plugin.  The cursor stands at the hook's own placement
\* and moves on to the next hook of the call; the semlock plugin, if it is
\* placed there and open, is called as its clients should.
LEMMA ListCallInStep ==
    ASSUME Shape, StaysOut, NEW h \in Handles, current[h] \in [Ops -> Nat], InStepAt(h),
           ListCall(h)
    PROVE  /\ current'[h] \in [Ops -> Nat] /\ InStepAt(h)'
           /\ UNCHANGED semlockVars \/ PairedGet(h) \/ PairedSet(h)
<1> DEFINE hook == Head(todo[h])
           op == OpOf(hook)
           runs == Placement(h, hook) \in SemlockPlacements /\ h \notin Denied
<1>1. /\ todo[h] # <<>> /\ hook \in Mounted /\ Pop(h)
      /\ current' = [current EXCEPT ![h][op] = NextPlacement(op, current[h][op])]
      /\ ~runs => UNCHANGED semlockVars
      /\ runs => \/ op = "err" /\ UNCHANGED semlockVars
                 \/ op = "get" /\ GetEnter(h)
                 \/ op = "set" /\ SetEnter(h)
  BY DEF ListCall, At
<1>2. todo'[h] = Tail(todo[h])
  BY <1>1, Popped
<1>3. UNCHANGED semlockVars => pc' = pc /\ state' = state /\ held' = held
  BY DEF semlockVars
<1>4. h \in Denied => /\ ~runs /\ pc[h] = "new" /\ Unlocked(h)
                      /\ GetsLock(h)' /\ SetsLock(h)'
  BY DEF StaysOut, GetsLock, SetsLock
<1> HIDE DEF hook, op, runs
<1>5. CASE todo[h] = GetUpdated
  <2>1. hook = "pregetstorage" /\ op = "get" /\ todo'[h] = GetWork
    BY <1>2, <1>5, Heads, HookOps DEF hook, op
  <2>2. CursorsAt(h, 1, 1) /\ Unlocked(h)
    BY <1>5, Heads DEF InStepAt
  <2>3. current' = [current EXCEPT ![h]["get"] = 2]
    BY <1>1, <2>1, <2>2, Cursors DEF CursorsAt
  <2>4. current'[h] \in [Ops -> Nat] /\ CursorsAt(h, 2, 1)'
    BY <2>2, <2>3, CursorMoves DEF CursorsAt, Ops
  <2>5. h \notin Denied => GetEnter(h)
    BY <1>1, <2>1, <2>2, PlacementsAt DEF runs, CursorsAt, SemlockPlacements
  <2>6. GetsLock(h)' /\ (UNCHANGED semlockVars \/ PairedGet(h))
    BY <1>1, <1>4, <2>2, <2>5, Locking
  <2> QED
    BY <2>1, <2>4, <2>6 DEF InStepAt
<1>6. CASE todo[h] = GetEnd
  <2>1. hook = "postgetstorage" /\ op = "get" /\ todo'[h] = <<>>
    BY <1>2, <1>6, Heads, HookOps DEF hook, op
  <2>2. CursorsAt(h, 2, 1) /\ GetsLock(h)
    BY <1>6, Heads DEF InStepAt
  <2>3. current' = [current EXCEPT ![h]["get"] = 1]
    BY <1>1, <2>1, <2>2, Cursors DEF CursorsAt
  <2>4. current'[h] \in [Ops -> Nat] /\ CursorsAt(h, 1, 1)'
    BY <2>2, <2>3, CursorMoves DEF CursorsAt, Ops
  <2>5. h \notin Denied => GetEnter(h)
    BY <1>1, <2>1, <2>2, PlacementsAt DEF runs, CursorsAt, SemlockPlacements
  <2>6. /\ Unlocked(h)' /\ pc'[h] \in {"new"} \cup PostPCs
        /\ UNCHANGED semlockVars \/ PairedGet(h)
    <3>1. CASE h \in Denied
      BY <1>1, <1>3, <1>4, <3>1 DEF Unlocked
    <3>2. CASE h \notin Denied
      BY <2>2, <2>5, <3>2, Unlocking
    <3> QED
      BY <3>1, <3>2
  <2> QED
    BY <2>1, <2>4, <2>6 DEF InStepAt
<1>7. CASE todo[h] = SetFull
  <2>1. hook = "presetstorage" /\ op = "set" /\ todo'[h] = SetWork
    BY <1>2, <1>7, Heads, HookOps DEF hook, op
  <2>2. CursorsAt(h, 1, 1) /\ Unlocked(h)
    BY <1>7, Heads DEF InStepAt
  <2>3. current' = [current EXCEPT ![h]["set"] = 3]
    BY <1>1, <2>1, <2>2, Cursors DEF CursorsAt
  <2>4. current'[h] \in [Ops -> Nat] /\ CursorsAt(h, 1, 3)'
    BY <2>2, <2>3, CursorMoves DEF CursorsAt, Ops
  <2>5. h \notin Denied => SetEnter(h)
    BY <1>1, <2>1, <2>2, PlacementsAt DEF runs, CursorsAt, SemlockPlacements
  <2>6. SetsLock(h)' /\ (UNCHANGED semlockVars \/ PairedSet(h))
    BY <1>1, <1>4, <2>2, <2>5, Locking
  <2> QED
    BY <2>1, <2>4, <2>6 DEF InStepAt
<1>8. CASE todo[h] = SetCommitting
  <2>1. hook = "precommit" /\ op = "set" /\ todo'[h] = SetRest
    BY <1>2, <1>8, Heads, HookOps DEF hook, op
  <2>2. CursorsAt(h, 1, 3) /\ SetsLock(h)
    BY <1>8, Heads DEF InStepAt
  <2>3. current' = [current EXCEPT ![h]["set"] = 4]
    BY <1>1, <2>1, <2>2, Cursors DEF CursorsAt
  <2>4. current'[h] \in [Ops -> Nat] /\ CursorsAt(h, 1, 4)'
    BY <2>2, <2>3, CursorMoves DEF CursorsAt, Ops
  <2>5. ~runs
    BY <2>1, <2>2, PlacementsAt DEF runs, CursorsAt, SemlockPlacements
  <2>6. SetsLock(h)' /\ UNCHANGED semlockVars
    BY <1>1, <1>3, <2>2, <2>5 DEF SetsLock
  <2> QED
    BY <2>1, <2>4, <2>6 DEF InStepAt
<1>9. CASE todo[h] = SetEnd
  <2>1. hook = "postcommit" /\ op = "set" /\ todo'[h] = <<>>
    BY <1>2, <1>9, Heads, HookOps DEF hook, op
  <2>2. CursorsAt(h, 1, 4) /\ SetsLock(h)
    BY <1>9, Heads DEF InStepAt
  <2>3. current' = [current EXCEPT ![h]["set"] = 1]
    BY <1>1, <2>1, <2>2, Cursors DEF CursorsAt
  <2>4. current'[h] \in [Ops -> Nat] /\ CursorsAt(h, 1, 1)'
    BY <2>2, <2>3, CursorMoves DEF CursorsAt, Ops
  <2>5. h \notin Denied => SetEnter(h)
    BY <1>1, <2>1, <2>2, PlacementsAt DEF runs, CursorsAt, SemlockPlacements
  <2>6. /\ Unlocked(h)' /\ pc'[h] \in {"new"} \cup PostPCs
        /\ UNCHANGED semlockVars \/ PairedSet(h)
    <3>1. CASE h \in Denied
      BY <1>1, <1>3, <1>4, <3>1 DEF Unlocked
    <3>2. CASE h \notin Denied
      BY <2>2, <2>5, <3>2, Unlocking
    <3> QED
      BY <3>1, <3>2
  <2> QED
    BY <2>1, <2>4, <2>6 DEF InStepAt
<1> QED
  BY <1>1, <1>5, <1>6, <1>7, <1>8, <1>9, Heads, MountedHooks DEF InStepAt, hook

-----------------------------------------------------------------------------
(***************************************************************************)
(* The results.  What a handle whose calls come with all their hooks gets  *)
(* of its own hooks does not depend on the other handles; that the lock    *)
(* excludes does.                                                          *)
(***************************************************************************)
Composed == Shape /\ StaysOut /\ InStep

\* At the start no call is under way and all cursors are at the first placement.
LEMMA ComposedInit == Init => Composed
<1> SUFFICES ASSUME Init PROVE Composed
  OBVIOUS
<1>1. ASSUME NEW h \in Handles
      PROVE  /\ todo[h] = <<>> /\ pc[h] = "new" /\ state[h] = "PRE" /\ held[h] = "nothing"
             /\ current[h] = FirstPlacements
  BY DEF Init, SemlockInit
<1>2. Shape
  BY DEF Init, SemlockInit, Shape, Total
<1>3. StaysOut
  BY <1>1, HooksAssumption DEF StaysOut, Unlocked
<1>4. ASSUME NEW h \in Paired PROVE current[h] \in [Ops -> Nat] /\ InStepAt(h)
  <2>1. h \in Handles
    BY DEF Paired
  <2>2. CursorsAt(h, 1, 1) /\ current[h] \in [Ops -> Nat]
    BY <1>1, <2>1 DEF CursorsAt, FirstPlacements, Ops
  <2> QED
    BY <1>1, <2>1, <2>2 DEF InStepAt, Unlocked
<1> QED
  BY <1>2, <1>3, <1>4 DEF Composed, InStep

\* A step of a handle whose calls come with all their hooks.
LEMMA PairedStep ==
    ASSUME Composed, NEW h \in Paired, StepOf(h)
    PROVE  /\ current'[h] \in [Ops -> Nat] /\ InStepAt(h)'
           /\ [SemlockNext]_semlockVars
<1>1. /\ h \in Handles /\ Calls[h] \subseteq PairedCalls /\ Shape /\ StaysOut
      /\ current[h] \in [Ops -> Nat] /\ InStepAt(h)
  BY DEF Composed, InStep, Paired
<1>2. CASE Plugin(h)
  BY <1>1, <1>2, PluginInStep DEF Plugin, SemlockNext
<1>3. CASE ListOpen(h)
  BY <1>1, <1>3, ListOpenInStep DEF ListOpen, SemlockNext
<1>4. CASE ListCall(h)
  BY <1>1, <1>4, ListCallInStep DEF SemlockNext
<1>5. CASE Work(h)
  BY <1>1, <1>5, WorkInStep DEF Work
<1>6. ASSUME NEW call \in Calls[h], Begin(h, call)
      PROVE  InStepAt(h)' /\ UNCHANGED semlockVars /\ current' = current
  BY <1>1, <1>6, BeginInStep DEF Begin
<1>7. CASE kdbClose(h)
  BY <1>1, <1>7, CloseInStep DEF kdbClose, SemlockNext
<1> QED
  BY <1>1, <1>2, <1>3, <1>4, <1>5, <1>6, <1>7 DEF StepOf, Step

\* Every step keeps the invariant, of whatever handle it is.
LEMMA ComposedStep == Composed /\ [Next]_vars => Composed'
<1> SUFFICES ASSUME Composed, [Next]_vars PROVE Composed'
  OBVIOUS
<1>1. CASE UNCHANGED vars
  <2>1. pc' = pc /\ state' = state /\ held' = held /\ todo' = todo /\ current' = current
    BY <1>1 DEF vars, semlockVars
  <2>2. Shape' /\ StaysOut'
    BY <2>1 DEF Composed, Shape, Total, StaysOut, Unlocked
  <2>3. ASSUME NEW g \in Paired PROVE current'[g] \in [Ops -> Nat] /\ InStepAt(g)'
    <3>1. current[g] \in [Ops -> Nat] /\ InStepAt(g)
      BY DEF Composed, InStep
    <3>2. /\ todo'[g] = todo[g] /\ current'[g] = current[g]
          /\ pc'[g] = pc[g] /\ state'[g] = state[g] /\ held'[g] = held[g]
      BY <2>1
    <3> QED
      BY <3>1, <3>2, Zenon DEF InStepAt, Unlocked, CursorsAt, GetsLock, SetsLock
  <2> QED
    BY <2>2, <2>3 DEF Composed, InStep
<1>2. ASSUME NEW h \in Handles, StepOf(h) PROVE Composed'
  <2>1. Shape' /\ StaysOut' /\ OthersStay(h)
    BY <1>2, OneHandle DEF Composed
  <2>2. ASSUME NEW g \in Paired PROVE current'[g] \in [Ops -> Nat] /\ InStepAt(g)'
    <3>1. CASE g = h
      BY <1>2, <3>1, PairedStep
    <3>2. CASE g # h
      <4>1. g \in Handles /\ current[g] \in [Ops -> Nat] /\ InStepAt(g)
        BY DEF Composed, InStep, Paired
      <4>2. /\ todo'[g] = todo[g] /\ current'[g] = current[g]
            /\ pc'[g] = pc[g] /\ state'[g] = state[g] /\ held'[g] = held[g]
        BY <2>1, <3>2, <4>1 DEF OthersStay
      <4> QED
        BY <4>1, <4>2, Zenon DEF InStepAt, Unlocked, CursorsAt, GetsLock, SetsLock
    <3> QED
      BY <3>1, <3>2
  <2> QED
    BY <2>1, <2>2 DEF Composed, InStep
<1> QED
  BY <1>1, <1>2 DEF Next, StepOf

\* For a handle whose calls come with all their hooks, the cursors of the list
\* plugin, the state of the semlock plugin and what is left of the call fit
\* together for ever, whatever other handles do.
THEOREM ComposedInvariance == Spec => []Composed
  BY ComposedInit, ComposedStep, PTL DEF Spec

\* The hooks of kdb.c and the list plugin use semlock as its clients should:
\* twice in every call of kdbGet() or kdbSet(), with the same function.  That is
\* so if all handles that can open the plugin make only calls that come with all
\* their hooks, once each: a kdbGet() with nothing new, one that fails behind its
\* hook, and a kdbSet() that fails or stores no backend or several break it.
THEOREM HooksImplementSemlock ==
    ASSUME Handles \subseteq Paired \cup Denied
    PROVE  Spec => SemlockSpec
<1>1. Init => SemlockInit
  BY DEF Init
<1>2. Composed /\ [Next]_vars => [SemlockNext]_semlockVars
  <2> SUFFICES ASSUME Composed, [Next]_vars PROVE [SemlockNext]_semlockVars
    OBVIOUS
  <2>1. CASE UNCHANGED vars
    BY <2>1 DEF vars, semlockVars
  <2>2. ASSUME NEW h \in Handles, StepOf(h) PROVE [SemlockNext]_semlockVars
    <3>1. CASE h \in Paired
      BY <2>2, <3>1, PairedStep
    <3>2. CASE h \in Denied
      <4>1. pc[h] = "new"
        BY <3>2 DEF Composed, StaysOut
      <4>2. UNCHANGED semlockVars
        BY <2>2, <3>2, <4>1 DEF StepOf, Step, Plugin, ListOpen, ListCall, Work, Begin,
                                kdbClose, CloseBegin, Goto
      <4> QED
        BY <4>2
    <3> QED
      BY <3>1, <3>2
  <2> QED
    BY <2>1, <2>2 DEF Next, StepOf
<1> QED
  BY <1>1, <1>2, ComposedInvariance, PTL DEF Spec, SemlockSpec

\* A hook runs the plugins that are configured for it: elektraListGet and
\* elektraListSet, which only count their calls, count right for each handle whose
\* calls come with all their hooks, also where semlock cannot be opened.
THEOREM HooksRunTheirPlacement == Spec => []HookRunsItsPlacement
<1>1. Composed => HookRunsItsPlacement
  <2> SUFFICES ASSUME Composed, NEW h \in Paired, At(h, Mounted)
               PROVE  Placement(h, Head(todo[h])) = Head(todo[h])
    BY DEF HookRunsItsPlacement
  <2>1. h \in Handles /\ InStepAt(h) /\ todo[h] # <<>> /\ Head(todo[h]) \in Mounted
    BY DEF Composed, InStep, Paired, At
  <2> QED
    BY <2>1, Heads, MountedHooks, PlacementsAt DEF InStepAt, CursorsAt
<1> QED
  BY <1>1, ComposedInvariance, PTL

\* The backends read under semlock's read lock and write under its write lock,
\* with a handle that could open semlock and whose calls come with all their hooks.
\* No other handle can change that.
THEOREM LockedAtWork == Spec => []LockedWhileWorking
<1>1. Composed => LockedWhileWorking
  <2> SUFFICES ASSUME Composed, NEW h \in Paired \ Denied
               PROVE  (Reading(h) => held[h] = "read") /\ (Writing(h) => held[h] = "write")
    BY DEF LockedWhileWorking
  <2>1. InStepAt(h)
    BY DEF Composed, InStep
  <2>2. ASSUME Reading(h) PROVE held[h] = "read"
    BY <2>1, <2>2, Heads DEF Reading, At, InStepAt, GetsLock, GetPREs
  <2>3. ASSUME Writing(h) PROVE held[h] = "write"
    BY <2>1, <2>3, Heads DEF Writing, At, InStepAt, SetsLock, SetPREs
  <2> QED
    BY <2>2, <2>3
<1> QED
  BY <1>1, ComposedInvariance, PTL

\* While the backends of one handle write, those of no other handle read or
\* write, where both could open semlock.
WorkExcludes ==
    \A g, h \in Handles \ Denied : Writing(g) /\ (Reading(h) \/ Writing(h)) => g = h

\* A kdbSet() has the configuration for itself while it works: the lock excludes,
\* and it is held.  This needs that every handle that can open semlock makes only
\* calls that come with all their hooks, and opens it before any closes it.
THEOREM WritersWorkAlone ==
    ASSUME ~Reopening, Handles \subseteq Paired \cup Denied
    PROVE  Spec => []WorkExcludes
<1>1. LockedWhileWorking /\ Exclusion => WorkExcludes
  BY DEF LockedWhileWorking, Exclusion, WorkExcludes
<1> QED
  BY <1>1, LockedAtWork, HooksImplementSemlock, WritersExclude, PTL

=============================================================================
