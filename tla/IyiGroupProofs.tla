--------------------------- MODULE IyiGroupProofs ---------------------------
(***************************************************************************)
(* Theorems about IyiGroup, for every set of fibers, groups and            *)
(* descriptors and every program: types; the scheduler's lists and its     *)
(* fibers' states; groups, their tasks and their owners.                   *)
(***************************************************************************)
EXTENDS IyiGroup, IyiListProofs

-----------------------------------------------------------------------------
(***************************************************************************)
(* TypeOK is not inductive by itself: a task that ends accounts for itself *)
(* in its group, so that no step may run, queue or wait for a fiber that   *)
(* was never spawned into one.                                             *)
(***************************************************************************)

\* The fibers that have been made: main and those spawned into a group.
Made == {Main} \cup {f \in Fibers : group[f] \in Groups}

Placed ==
    /\ current \in Made
    /\ runq \in Seq(Made)
    /\ sleepq \in Seq(Made)
    /\ ioq \subseteq Made
    /\ children \in [Groups -> Seq(Made)]
    /\ joiner \in [Fibers -> Made \cup {None}]
    /\ gjoiner \in [Groups -> Made \cup {None}]

IInv == TypeOK /\ Placed

\* What has been made is a fiber.
LEMMA MadeType == Made \subseteq Fibers
  BY SchedulerAssumption DEF Made

\* Only a spawn makes a fiber.
LEMMA MadeSame == UNCHANGED group => Made' = Made
  BY DEF Made

\* What the lists hold are fibers.
LEMMA MadeLists == Seq(Made) \subseteq Seq(Fibers)
  BY MadeType, SeqMonotonic

-----------------------------------------------------------------------------
(* What the scheduler's helpers do to the variables they write. *)

\* The names the actions write.
LEMMA Names ==
    /\ {"running", "runnable", "sleeping", "io", "chan", "joining", "done"}
         \subseteq States
    /\ {"user", "read", "value", "gjoin", "drain", "dead"}
         \subseteq Continuations
  BY DEF States, Continuations

\* Enqueueing never takes a fiber out of the known states.
LEMMA EnqueuedType ==
    ASSUME NEW st \in [Fibers -> States], NEW w
    PROVE  Enqueued(st, w) \in [Fibers -> States]
  BY DEF Enqueued, States

\* Forget only takes fibers and descriptors away.
LEMMA ForgetType ==
    ASSUME IInv, NEW W \in SUBSET Fibers, Forget(W)
    PROVE  /\ ioq' \subseteq Made
           /\ waitFd' \in [Fibers -> Fds \cup {None}]
           /\ interest' \subseteq Fds
  BY DEF IInv, Placed, TypeOK, SchedTypeOK, Forget

\* Unlinking sleepers leaves a list of the others.
LEMMA SleepRemoveType ==
    ASSUME IInv, NEW W, SleepRemove(W)
    PROVE  sleepq' \in Seq(Made) /\ ToSet(sleepq') = ToSet(sleepq) \ W
<1>1. ToSet(sleepq) \ W \subseteq Made
  BY ElementsOf DEF IInv, Placed
<1>2. IsFiniteSet(ToSet(sleepq) \ W)
  BY <1>1, MadeType, FS_Subset, SchedulerAssumption
<1>3. /\ sleepq' \in Seq(ToSet(sleepq) \ W)
      /\ ToSet(sleepq') = ToSet(sleepq) \ W
  BY <1>2, InOrderLists DEF SleepRemove
<1> QED
  BY <1>1, <1>3, SeqMonotonic

\* sleep_insert puts a fiber somewhere into the list.
LEMMA SleepInsertType ==
    ASSUME IInv, NEW f \in Made, NEW when, SleepInsert(f, when)
    PROVE  sleepq' \in Seq(Made)
<1>1. PICK i \in 0..Len(sleepq) :
          sleepq' = SubSeq(sleepq, 1, i) \o <<f>>
                      \o SubSeq(sleepq, i + 1, Len(sleepq))
  BY DEF SleepInsert
<1>2. sleepq \in Seq(Made)
  BY DEF IInv, Placed
<1>3. /\ Len(sleepq) \in 0..Len(sleepq)
      /\ 1 \in Nat \ {0} /\ i + 1 \in Nat \ {0}
  BY <1>2
<1>4. /\ SubSeq(sleepq, 1, i) \in Seq(Made)
      /\ SubSeq(sleepq, i + 1, Len(sleepq)) \in Seq(Made)
  BY <1>2, <1>3, PartOf, Zenon
<1> QED
  BY <1>1, <1>4, InsertedBetween

\* Parking moves one fiber to one state.
LEMMA ParksType ==
    ASSUME IInv, NEW f \in Fibers, NEW st \in States, Parks(f, st)
    PROVE  state' \in [Fibers -> States] /\ parked' \in BOOLEAN
  BY DEF IInv, TypeOK, SchedTypeOK, Parks

\* Going on somewhere else moves one fiber's continuation.
LEMMA ContinueType ==
    ASSUME IInv, NEW f \in Fibers, NEW step \in Continuations,
           NEW what \in Subjects, Continue(f, step, what),
           step = "read" => what \in Fds,
           step = "value" => what \in Fibers,
           step = "gjoin" => what \in Groups
    PROVE  pc' \in [Fibers -> Continuations] /\ SubjectOK'
  BY DEF IInv, TypeOK, SchedTypeOK, GroupTypeOK, SubjectOK, Continue

\* So does a panic.
LEMMA RaiseType ==
    ASSUME IInv, NEW f \in Fibers, Raise(f)
    PROVE  /\ pc' \in [Fibers -> Continuations]
           /\ SubjectOK'
           /\ panicked' \in [Fibers -> BOOLEAN]
<1>1. "drain" \in Continuations /\ None \in Subjects
  BY Names DEF Subjects
<1>2. Continue(f, "drain", None)
  BY DEF Raise
<1>3. panicked' \in [Fibers -> BOOLEAN]
  BY DEF IInv, TypeOK, SchedTypeOK, Raise
<1> QED
  BY <1>1, <1>2, <1>3, ContinueType

\* A waiting joiner has been made.
LEMMA WaitingType ==
    ASSUME NEW j \in Made \cup {None}
    PROVE  Waiting(j) \in Seq(Made)
  BY DEF Waiting

\* The running fiber has been made, and an operation costs it fuel.
LEMMA StartsType ==
    ASSUME IInv, NEW f \in Fibers, NEW op, Starts(f, op)
    PROVE  f \in Made /\ fuel' \in [Fibers -> Nat]
<1>1. f \in Made
  BY DEF IInv, Placed, Starts, InUser, Runs
<1>2. fuel[f] \in Nat /\ fuel[f] > 0
  BY DEF IInv, TypeOK, GroupTypeOK, Starts
<1>3. fuel' \in [Fibers -> Nat]
  BY <1>2 DEF IInv, TypeOK, GroupTypeOK, Starts
<1> QED
  BY <1>1, <1>3

-----------------------------------------------------------------------------
(* Type correctness *)

\* At first only main has been made, and it runs.
LEMMA InitType == Init => IInv
<1> SUFFICES ASSUME Init PROVE IInv
  OBVIOUS
<1>1. SchedTypeOK
  <2> USE SchedulerAssumption DEF Init, SchedInit
  <2>1. /\ stalls \in [Fibers -> 0..StackDepth]
        /\ deadline \in [Fibers -> 0..MaxTime]
    OBVIOUS
  <2>2. state \in [Fibers -> States] /\ pc \in [Fibers -> Continuations]
    BY DEF States, Continuations
  <2>3. runq \in Seq(Fibers) /\ sleepq \in Seq(Fibers)
    OBVIOUS
  <2>4. waitFd \in [Fibers -> Fds \cup {None}] /\ readable \subseteq Fds
    OBVIOUS
  <2>5. cancelled \in [Fibers -> BOOLEAN] /\ panicked \in [Fibers -> BOOLEAN]
    OBVIOUS
  <2> QED
    BY <2>1, <2>2, <2>3, <2>4, <2>5 DEF SchedTypeOK
<1>2. GroupTypeOK
  BY GroupAssumption DEF Init, SchedInit, GroupInit, GroupTypeOK, SubjectOK,
                         Subjects
<1>3. Placed
  BY DEF Init, SchedInit, GroupInit, Placed, Made
<1> QED
  BY <1>1, <1>2, <1>3 DEF IInv, TypeOK

\* A fiber's innermost group is a group, and leaving it leaves the others.
LEMMA PopsType ==
    ASSUME IInv, NEW f \in Fibers, PopsGroup(f)
    PROVE  /\ scopes' \in [Fibers -> Seq(Groups)]
           /\ pc' \in [Fibers -> Continuations]
           /\ SubjectOK'
<1>1. scopes[f] \in Seq(Groups) /\ scopes[f] # <<>>
  BY DEF IInv, TypeOK, GroupTypeOK, PopsGroup
<1>2. Head(scopes[f]) \in Groups /\ Tail(scopes[f]) \in Seq(Groups)
  BY <1>1, HeadTailProperties, Zenon
<1>3. scopes' \in [Fibers -> Seq(Groups)]
  BY <1>2 DEF IInv, TypeOK, GroupTypeOK, PopsGroup
<1>4. Head(scopes[f]) \in Groups \cap Subjects /\ "gjoin" \in Continuations
  BY <1>2, Names DEF Subjects
<1>5. Continue(f, "gjoin", Head(scopes[f]))
  BY DEF PopsGroup
<1> QED
  BY <1>3, <1>4, <1>5, ContinueType

\* The end of a fiber.
LEMMA CompleteType ==
    ASSUME IInv, NEW f \in Fibers \ {Main}, group[f] \in Groups,
           NEW isFailure \in BOOLEAN, Complete(f, isFailure)
    PROVE  IInv'
<1> DEFINE g == group[f]
           fires == isFailure /\ ~failed[g]
           empty == live[g] = 1
           woken == IF fires THEN Woken(g) ELSE {}
           wakes == IF empty THEN Waiting(gjoiner[g]) ELSE <<>>
<1>1. children[g] \in Seq(Made) /\ gjoiner[g] \in Made \cup {None}
  BY DEF IInv, Placed
<1>2. woken \subseteq Made
  BY <1>1, ElementsOf DEF Woken, Flagged
<1>3. IsFiniteSet(woken)
  BY <1>2, MadeType, FS_Subset, SchedulerAssumption
<1>4. wakes \in Seq(Made) /\ Waiting(joiner[f]) \in Seq(Made)
  BY <1>1, WaitingType DEF IInv, Placed
<1>5. PICK w \in InOrder(children[g], woken) :
         /\ runq' = runq \o w \o wakes \o Waiting(joiner[f])
         /\ state' = [Enqueued(state, w \o wakes \o Waiting(joiner[f]))
                        EXCEPT ![f] = "done"]
  BY DEF Complete
<1>6. w \in Seq(Made)
  BY <1>2, <1>3, InOrderLists, SeqMonotonic
<1>7. runq' \in Seq(Made)
  <2>1. runq \in Seq(Made)
    BY DEF IInv, Placed
  <2>2. runq \o w \o wakes \in Seq(Made)
    BY <1>4, <1>6, <2>1, ConcatProperties
  <2> QED
    BY <1>4, <1>5, <2>2, ConcatProperties
<1>8. state' \in [Fibers -> States]
  <2>1. state \in [Fibers -> States]
    BY DEF IInv, TypeOK, SchedTypeOK
  <2>2. Enqueued(state,
    w \o wakes \o Waiting(joiner[f])) \in [Fibers -> States]
    BY <2>1, EnqueuedType
  <2> QED
    BY <1>5, <2>2, Names
<1>9. Forget(woken) /\ SleepRemove(woken) /\ Continue(f, "dead", None)
  BY DEF Complete
<1>10. /\ ioq' \subseteq Made
       /\ waitFd' \in [Fibers -> Fds \cup {None}]
       /\ interest' \subseteq Fds
  BY <1>2, <1>9, MadeType, ForgetType
<1>11. sleepq' \in Seq(Made)
  BY <1>9, SleepRemoveType
<1>12. pc' \in [Fibers -> Continuations] /\ SubjectOK'
  BY <1>9, ContinueType, Names DEF Subjects
<1>13. /\ live' \in [Groups -> Int]
       /\ failed' \in [Groups -> BOOLEAN]
       /\ gjoiner' \in [Groups -> Made \cup {None}]
       /\ joiner' \in [Fibers -> Made \cup {None}]
  BY DEF Complete, IInv, TypeOK, GroupTypeOK, Placed
<1>14. cancelled' \in [Fibers -> BOOLEAN] /\ parked' \in BOOLEAN
  BY DEF Complete, IInv, TypeOK, SchedTypeOK
<1>15. UNCHANGED <<current, endVars, panicked, deadline, worldVars, group,
                   delivered, caught, owner, children, progVars>>
  BY DEF Complete
<1>16. Made' = Made
  BY <1>15, MadeSame
<1>17. Placed'
  BY <1>7, <1>10, <1>11, <1>13, <1>15, <1>16 DEF IInv, Placed
<1> QED
  BY <1>7, <1>8, <1>10, <1>11, <1>12, <1>13, <1>14, <1>15, <1>17,
     MadeType, MadeLists
     DEF IInv, TypeOK, SchedTypeOK, GroupTypeOK, SubjectOK, endVars,
         worldVars, progVars

\* sleep
LEMMA SleepsType ==
    ASSUME IInv, NEW f \in Fibers, TaskSleeps(f)
    PROVE  IInv'
<1>1. PICK ms \in 0..MaxTime : Sleep(f, ms)
  BY DEF TaskSleeps
<1>2. f \in Made /\ fuel' \in [Fibers -> Nat]
  BY StartsType DEF TaskSleeps
<1>3. UNCHANGED <<taskVars, groupVars, scopes>>
  BY DEF TaskSleeps
<1>4. Made' = Made
  BY <1>3, MadeSame DEF taskVars
<1>5. CASE UNCHANGED schedVars
  BY <1>2, <1>3, <1>4, <1>5
     DEF IInv, TypeOK, SchedTypeOK, GroupTypeOK, SubjectOK, Placed, schedVars,
         endVars, sleepVars, ioVars, worldVars, taskVars, groupVars
<1>6. CASE ~UNCHANGED schedVars
  <2>1. /\ now + ms <= MaxTime
        /\ deadline' = [deadline EXCEPT ![f] = now + ms]
        /\ SleepInsert(f, now + ms)
        /\ Parks(f, "sleeping")
        /\ UNCHANGED <<current, endVars, pc, subject, cancelled, panicked,
                       runq, ioVars, worldVars>>
    BY <1>1, <1>6 DEF Sleep
  <2>2. sleepq' \in Seq(Made)
    BY <1>2, <2>1, SleepInsertType
  <2>3. state' \in [Fibers -> States] /\ parked' \in BOOLEAN
    BY <2>1, ParksType, Names
  <2>4. deadline' \in [Fibers -> 0..MaxTime]
    <3>1. now \in 0..MaxTime /\ deadline \in [Fibers -> 0..MaxTime]
      BY DEF IInv, TypeOK, SchedTypeOK
    <3>2. MaxTime \in Nat
      BY SchedulerAssumption
    <3>3. now + ms \in 0..MaxTime
      BY <2>1, <3>1, <3>2
    <3> QED
      BY <2>1, <3>1, <3>3
  <2> QED
    BY <1>2, <1>3, <1>4, <2>1, <2>2, <2>3, <2>4, MadeLists
       DEF IInv, TypeOK, SchedTypeOK, GroupTypeOK, SubjectOK, Placed, endVars,
           ioVars, worldVars, taskVars, groupVars
<1> QED
  BY <1>5, <1>6

\* read
LEMMA ReadsType ==
    ASSUME IInv, NEW f \in Fibers, TaskReads(f)
    PROVE  IInv'
<1>1. PICK fd \in Fds : WaitReadable(f, fd)
  BY DEF TaskReads
<1>2. f \in Made /\ fuel' \in [Fibers -> Nat]
  BY StartsType DEF TaskReads
<1>3. UNCHANGED <<taskVars, groupVars, scopes>>
  BY DEF TaskReads
<1>4. Made' = Made
  BY <1>3, MadeSame DEF taskVars
<1>5. fd \in Subjects /\ "read" \in Continuations /\ "io" \in States
  BY Names DEF Subjects
<1>6. CASE UNCHANGED schedVars
  BY <1>2, <1>3, <1>4, <1>6
     DEF IInv, TypeOK, SchedTypeOK, GroupTypeOK, SubjectOK, Placed, schedVars,
         endVars, sleepVars, ioVars, worldVars, taskVars, groupVars
<1>7. CASE /\ Raise(f)
           /\ UNCHANGED <<current, parked, endVars, state, cancelled, runq,
                          sleepVars, ioVars, worldVars>>
  <2>1. /\ pc' \in [Fibers -> Continuations] /\ SubjectOK'
        /\ panicked' \in [Fibers -> BOOLEAN]
    BY <1>7, RaiseType
  <2> QED
    BY <1>2, <1>3, <1>4, <1>7, <2>1
       DEF IInv, TypeOK, SchedTypeOK, GroupTypeOK, SubjectOK, Placed, endVars,
           sleepVars, ioVars, worldVars, taskVars, groupVars
<1>8. CASE /\ Continue(f, "read", fd)
           /\ UNCHANGED <<current, parked, endVars, state, cancelled, panicked,
                          runq, sleepVars, ioVars, worldVars>>
  <2>1. pc' \in [Fibers -> Continuations] /\ SubjectOK'
    BY <1>5, <1>8, ContinueType
  <2> QED
    BY <1>2, <1>3, <1>4, <1>8, <2>1
       DEF IInv, TypeOK, SchedTypeOK, GroupTypeOK, SubjectOK, Placed, endVars,
           sleepVars, ioVars, worldVars, taskVars, groupVars
<1>9. CASE /\ waitFd' = [waitFd EXCEPT ![f] = fd]
           /\ ioq' = ioq \cup {f}
           /\ interest' = interest \cup {fd}
           /\ Continue(f, "read", fd)
           /\ Parks(f, "io")
           /\ UNCHANGED <<current, endVars, cancelled, panicked, runq,
                          sleepVars, worldVars>>
  <2>1. pc' \in [Fibers -> Continuations] /\ SubjectOK'
    BY <1>5, <1>9, ContinueType
  <2>2. state' \in [Fibers -> States] /\ parked' \in BOOLEAN
    BY <1>5, <1>9, ParksType
  <2>3. /\ waitFd' \in [Fibers -> Fds \cup {None}] /\ ioq' \subseteq Made
        /\ interest' \subseteq Fds
    BY <1>2, <1>9 DEF IInv, TypeOK, SchedTypeOK, Placed
  <2> QED
    BY <1>2, <1>3, <1>4, <1>9, <2>1, <2>2, <2>3, MadeType
       DEF IInv, TypeOK, SchedTypeOK, GroupTypeOK, SubjectOK, Placed, endVars,
           sleepVars, worldVars, taskVars, groupVars
<1> QED
  BY <1>1, <1>6, <1>7, <1>8, <1>9 DEF WaitReadable

\* read after its park
LEMMA ReadsOnType ==
    ASSUME IInv, NEW f \in Fibers, TaskReadsOn(f)
    PROVE  IInv'
<1>1. /\ Continue(f, "user", None)
      /\ readable' \in {readable, readable \ {subject[f]}}
          \/ UNCHANGED readable
      /\ UNCHANGED <<current, parked, endVars, state, cancelled, panicked,
                     runq, sleepVars, ioVars, now>>
      /\ UNCHANGED <<taskVars, groupVars, progVars>>
  BY DEF TaskReadsOn, Read
<1>2. pc' \in [Fibers -> Continuations] /\ SubjectOK'
  BY <1>1, ContinueType, Names DEF Subjects
<1>3. Made' = Made
  BY <1>1, MadeSame DEF taskVars
<1>4. readable' \subseteq Fds
  BY <1>1 DEF IInv, TypeOK, SchedTypeOK
<1> QED
  BY <1>1, <1>2, <1>3, <1>4
     DEF IInv, TypeOK, SchedTypeOK, GroupTypeOK, SubjectOK, Placed, endVars,
         sleepVars, ioVars, taskVars, groupVars, progVars

\* A panic.
LEMMA PanicsType ==
    ASSUME IInv, NEW f \in Fibers, TaskPanics(f)
    PROVE  IInv'
<1>1. fuel' \in [Fibers -> Nat]
  BY StartsType DEF TaskPanics
<1>2. /\ pc' \in [Fibers -> Continuations] /\ SubjectOK'
      /\ panicked' \in [Fibers -> BOOLEAN]
  BY RaiseType DEF TaskPanics
<1>3. UNCHANGED <<quietVars, parked, state, cancelled, runq, taskVars,
                  groupVars, scopes>>
  BY DEF TaskPanics
<1>4. Made' = Made
  BY <1>3, MadeSame DEF taskVars
<1> QED
  BY <1>1, <1>2, <1>3, <1>4
     DEF IInv, TypeOK, SchedTypeOK, GroupTypeOK, SubjectOK, Placed, quietVars,
         endVars, sleepVars, ioVars, worldVars, taskVars, groupVars

\* group
LEMMA OpensType ==
    ASSUME IInv, NEW f \in Fibers, OpenGroup(f)
    PROVE  IInv'
<1>1. fuel' \in [Fibers -> Nat]
  BY StartsType DEF OpenGroup
<1>2. PICK g \in Groups :
          /\ owner' = [owner EXCEPT ![g] = f]
          /\ scopes' = [scopes EXCEPT ![f] = <<g>> \o @]
  BY DEF OpenGroup
<1>3. owner' \in [Groups -> Fibers \cup {None}]
  BY <1>2 DEF IInv, TypeOK, GroupTypeOK
<1>4. scopes' \in [Fibers -> Seq(Groups)]
  <2>1. scopes[f] \in Seq(Groups) /\ <<g>> \in Seq(Groups)
    BY DEF IInv, TypeOK, GroupTypeOK
  <2>2. <<g>> \o scopes[f] \in Seq(Groups)
    BY <2>1, ConcatProperties
  <2> QED
    BY <1>2, <2>2 DEF IInv, TypeOK, GroupTypeOK
<1>5. UNCHANGED <<schedVars, taskVars, children, live, failed, gjoiner>>
  BY DEF OpenGroup
<1>6. Made' = Made
  BY <1>5, MadeSame DEF taskVars
<1> QED
  BY <1>1, <1>3, <1>4, <1>5, <1>6
     DEF IInv, TypeOK, SchedTypeOK, GroupTypeOK, SubjectOK, Placed, schedVars,
         endVars, sleepVars, ioVars, worldVars, taskVars

\* IyiGroup#spawn, the one step that makes a fiber.
LEMMA SpawnsType ==
    ASSUME IInv, NEW f \in Fibers, Spawn(f)
    PROVE  IInv'
<1>1. fuel' \in [Fibers -> Nat] /\ f \in Made
  BY StartsType DEF Spawn
<1>2. PICK g \in Spawnable(f), c \in Fibers :
          /\ children' = [children EXCEPT ![g] = <<c>> \o @]
          /\ group' = [group EXCEPT ![c] = g]
          /\ live' = [live EXCEPT ![g] = @ + 1]
          /\ runq' = Append(runq, c)
          /\ state' = Enqueued(state, <<c>>)
  BY DEF Spawn
<1>3. g \in Groups
  <2>1. scopes[f] \in Seq(Groups) /\ group[f] \in Groups \cup {None}
    BY DEF IInv, TypeOK, GroupTypeOK
  <2>2. ToSet(scopes[f]) \subseteq Groups
    BY <2>1, ElementsOf
  <2> QED
    BY <2>1, <2>2 DEF Spawnable
<1>4. group' \in [Fibers -> Groups \cup {None}]
  BY <1>2, <1>3 DEF IInv, TypeOK, GroupTypeOK
<1>5. Made \subseteq Made' /\ c \in Made' /\ Made' \subseteq Fibers
  BY <1>2, <1>3, SchedulerAssumption DEF Made, IInv, TypeOK, GroupTypeOK
<1>6. Seq(Made) \subseteq Seq(Made') /\ Seq(Made') \subseteq Seq(Fibers)
  BY <1>5, SeqMonotonic
<1>7. runq' \in Seq(Made')
  <2>1. runq \in Seq(Made')
    BY <1>6 DEF IInv, Placed
  <2> QED
    BY <1>2, <1>5, <2>1, AppendProperties
<1>8. children' \in [Groups -> Seq(Made')]
  <2>1. children \in [Groups -> Seq(Made')]
    BY <1>6 DEF IInv, Placed
  <2>2. <<c>> \in Seq(Made') /\ children[g] \in Seq(Made')
    BY <1>3, <1>5, <2>1
  <2>3. <<c>> \o children[g] \in Seq(Made')
    BY <2>2, ConcatProperties
  <2> QED
    BY <1>2, <2>1, <2>3
<1>9. live' \in [Groups -> Int]
  BY <1>2, <1>3 DEF IInv, TypeOK, GroupTypeOK
<1>10. state' \in [Fibers -> States]
  BY <1>2, EnqueuedType DEF IInv, TypeOK, SchedTypeOK
<1>11. UNCHANGED <<quietVars, parked, pc, subject, cancelled, panicked, joiner,
                   delivered, caught, owner, failed, gjoiner, scopes>>
  BY DEF Spawn
<1>12. /\ current' \in Made' /\ sleepq' \in Seq(Made') /\ ioq' \subseteq Made'
       /\ joiner' \in [Fibers -> Made' \cup {None}]
       /\ gjoiner' \in [Groups -> Made' \cup {None}]
  BY <1>5, <1>6, <1>11 DEF IInv, Placed, quietVars, sleepVars, ioVars
<1>13. Placed'
  BY <1>7, <1>8, <1>12 DEF Placed
<1>14. runq' \in Seq(Fibers) /\ children' \in [Groups -> Seq(Fibers)]
  BY <1>6, <1>7, <1>8
<1> QED
  BY <1>1, <1>4, <1>9, <1>10, <1>11, <1>13, <1>14
     DEF IInv, TypeOK, SchedTypeOK, GroupTypeOK, SubjectOK, quietVars,
         endVars, sleepVars, ioVars, worldVars

\* Leaving a group, and draining one.
LEMMA LeavesType ==
    ASSUME IInv, NEW f \in Fibers, PopsGroup(f)
    PROVE  IInv'
<1>1. /\ scopes' \in [Fibers -> Seq(Groups)]
      /\ pc' \in [Fibers -> Continuations]
      /\ SubjectOK'
  BY PopsType
<1>2. UNCHANGED <<quietVars, parked, state, cancelled, panicked, runq,
                  taskVars, groupVars, fuel>>
  BY DEF PopsGroup
<1>3. Made' = Made
  BY <1>2, MadeSame DEF taskVars
<1> QED
  BY <1>1, <1>2, <1>3
     DEF IInv, TypeOK, SchedTypeOK, GroupTypeOK, SubjectOK, Placed, quietVars,
         endVars, sleepVars, ioVars, worldVars, taskVars, groupVars

\* The join inside the block.
LEMMA GathersType ==
    ASSUME IInv, NEW f \in Fibers, Gather(f)
    PROVE  IInv'
<1>1. fuel' \in [Fibers -> Nat]
  BY StartsType DEF Gather
<1>2. scopes[f] \in Seq(Groups) /\ scopes[f] # <<>>
  BY DEF IInv, TypeOK, GroupTypeOK, Gather
<1>3. Head(scopes[f]) \in Groups \cap Subjects
  BY <1>2, HeadTailProperties DEF Subjects
<1>4. pc' \in [Fibers -> Continuations] /\ SubjectOK'
  BY <1>3, ContinueType, Names DEF Gather
<1>5. UNCHANGED <<quietVars, parked, state, cancelled, panicked, runq,
                  taskVars, groupVars, scopes>>
  BY DEF Gather
<1>6. Made' = Made
  BY <1>5, MadeSame DEF taskVars
<1> QED
  BY <1>1, <1>4, <1>5, <1>6
     DEF IInv, TypeOK, SchedTypeOK, GroupTypeOK, SubjectOK, Placed, quietVars,
         endVars, sleepVars, ioVars, worldVars, taskVars, groupVars

\* IyiGroup#join, its park.
LEMMA JoinParksType ==
    ASSUME IInv, NEW f \in Fibers, JoinParks(f)
    PROVE  IInv'
<1>1. f \in Made
  BY DEF IInv, Placed, JoinParks, Runs
<1>2. gjoiner' \in [Groups -> Made \cup {None}]
  BY <1>1 DEF IInv, Placed, JoinParks
<1>3. state' \in [Fibers -> States] /\ parked' \in BOOLEAN
  BY ParksType, Names DEF JoinParks
<1>4. UNCHANGED <<quietVars, pc, subject, cancelled, panicked, runq,
                  taskVars, owner, children, live, failed, progVars>>
  BY DEF JoinParks
<1>5. Made' = Made
  BY <1>4, MadeSame DEF taskVars
<1> QED
  BY <1>2, <1>3, <1>4, <1>5, MadeType
     DEF IInv, TypeOK, SchedTypeOK, GroupTypeOK, SubjectOK, Placed, quietVars,
         endVars, sleepVars, ioVars, worldVars, taskVars, progVars

\* IyiGroup#join, its walk.
LEMMA JoinReturnsType ==
    ASSUME IInv, NEW f \in Fibers, JoinReturns(f)
    PROVE  IInv'
<1>1. /\ delivered' \in [Fibers -> BOOLEAN]
      /\ panicked' \in [Fibers -> BOOLEAN]
      /\ pc' \in [Fibers -> Continuations]
      /\ SubjectOK'
  <2> DEFINE g == subject[f]
  <2>1. CASE /\ Unread(g) = {} /\ UNCHANGED <<delivered, panicked>>
             /\ Continue(f, IF panicked[f] THEN "drain" ELSE "user", None)
    BY <2>1, ContinueType, Names
       DEF IInv, TypeOK, SchedTypeOK, GroupTypeOK, Subjects
  <2>2. CASE /\ Unread(g) # {} /\ panicked[f] /\ UNCHANGED panicked
             /\ delivered' = [c \in Fibers |-> delivered[c] \/ c \in Unread(g)]
             /\ Continue(f, "drain", None)
    BY <2>2, ContinueType, Names
       DEF IInv, TypeOK, SchedTypeOK, GroupTypeOK, Subjects
  <2>3. CASE /\ ~panicked[f]
             /\ \E i \in DOMAIN children[g] :
                  delivered' = [delivered EXCEPT ![children[g][i]] = TRUE]
             /\ Raise(f)
    BY <2>3, RaiseType DEF IInv, TypeOK, GroupTypeOK
  <2> QED
    BY <2>1, <2>2, <2>3 DEF JoinReturns
<1>2. UNCHANGED <<quietVars, parked, state, cancelled, runq, group, joiner,
                  caught, groupVars, progVars>>
  BY DEF JoinReturns
<1>3. Made' = Made
  BY <1>2, MadeSame
<1> QED
  BY <1>1, <1>2, <1>3
     DEF IInv, TypeOK, SchedTypeOK, GroupTypeOK, SubjectOK, Placed, quietVars,
         endVars, sleepVars, ioVars, worldVars, groupVars, progVars

\* IyiTask#value, from its call to its answer.
LEMMA ValueType ==
    ASSUME IInv, NEW f \in Fibers, Value(f)
    PROVE  IInv'
<1>1. fuel' \in [Fibers -> Nat]
  BY StartsType DEF Value
<1>2. pc' \in [Fibers -> Continuations] /\ SubjectOK'
  BY ContinueType, Names DEF Value, Subjects
<1>3. UNCHANGED <<quietVars, parked, state, cancelled, panicked, runq,
                  taskVars, groupVars, scopes>>
  BY DEF Value
<1>4. Made' = Made
  BY <1>3, MadeSame DEF taskVars
<1> QED
  BY <1>1, <1>2, <1>3, <1>4
     DEF IInv, TypeOK, SchedTypeOK, GroupTypeOK, SubjectOK, Placed, quietVars,
         endVars, sleepVars, ioVars, worldVars, taskVars, groupVars

\* A join parks behind a task that has no joiner, or raises.
LEMMA ValueParksType ==
    ASSUME IInv, NEW f \in Fibers, ValueParks(f)
    PROVE  IInv'
<1>1. f \in Made
  BY DEF IInv, Placed, ValueParks, Runs
<1>2. UNCHANGED <<quietVars, cancelled, runq, group, delivered, caught,
                  groupVars, progVars>>
  BY DEF ValueParks
<1>3. Made' = Made
  BY <1>2, MadeSame
<1>4. CASE /\ joiner' = [joiner EXCEPT ![subject[f]] = f]
           /\ Parks(f, "joining")
           /\ UNCHANGED <<pc, subject, panicked>>
  <2>1. joiner' \in [Fibers -> Made \cup {None}]
    BY <1>1, <1>4 DEF IInv, Placed
  <2>2. state' \in [Fibers -> States] /\ parked' \in BOOLEAN
    BY <1>4, ParksType, Names
  <2> QED
    BY <1>2, <1>3, <1>4, <2>1, <2>2, MadeType
       DEF IInv, TypeOK, SchedTypeOK, GroupTypeOK, SubjectOK, Placed,
           quietVars, endVars, sleepVars, ioVars, worldVars, groupVars,
           progVars
<1>5. CASE Raise(f) /\ UNCHANGED <<joiner, state, parked>>
  <2>1. /\ pc' \in [Fibers -> Continuations] /\ SubjectOK'
        /\ panicked' \in [Fibers -> BOOLEAN]
    BY <1>5, RaiseType
  <2> QED
    BY <1>2, <1>3, <1>5, <2>1
       DEF IInv, TypeOK, SchedTypeOK, GroupTypeOK, SubjectOK, Placed,
           quietVars, endVars, sleepVars, ioVars, worldVars, groupVars,
           progVars
<1> QED
  BY <1>4, <1>5 DEF ValueParks

\* A value that is read changes marks only.
LEMMA ValueReturnsType ==
    ASSUME IInv, NEW f \in Fibers, ValueReturns(f)
    PROVE  IInv'
<1>1. pc' \in [Fibers -> Continuations] /\ SubjectOK'
  BY ContinueType, Names DEF ValueReturns, Subjects
<1>2. delivered' \in [Fibers -> BOOLEAN]
  BY DEF ValueReturns, IInv, TypeOK, SchedTypeOK, GroupTypeOK
<1>3. caught' \subseteq Fibers
  BY DEF ValueReturns, IInv, TypeOK, GroupTypeOK, SubjectOK
<1>4. UNCHANGED <<quietVars, parked, state, cancelled, panicked, runq, group,
                  joiner, groupVars, progVars>>
  BY DEF ValueReturns
<1>5. Made' = Made
  BY <1>4, MadeSame
<1> QED
  BY <1>1, <1>2, <1>3, <1>4, <1>5
     DEF IInv, TypeOK, SchedTypeOK, GroupTypeOK, SubjectOK, Placed, quietVars,
         endVars, sleepVars, ioVars, worldVars, groupVars, progVars

\* A fiber that ends on its own stack is a spawned one.
LEMMA EndsType ==
    ASSUME IInv, NEW f \in Fibers \ {Main}, Runs(f),
           NEW isFailure \in BOOLEAN, Complete(f, isFailure)
    PROVE  IInv'
<1>1. group[f] \in Groups
  BY DEF IInv, Placed, Runs, Made
<1> QED
  BY <1>1, CompleteType

\* Every step of a fiber's program keeps the types.
LEMMA FiberStepType ==
    ASSUME IInv, NEW f \in Fibers, FiberStep(f)
    PROVE  IInv'
<1>1. CASE TaskReturns(f)
  <2>1. /\ Runs(f) /\ f \in Fibers \ {Main}
        /\ \E isError \in BOOLEAN : Complete(f, isError /\ ~cancelled[f])
    BY <1>1 DEF TaskReturns, InUser
  <2>2. \A isError \in BOOLEAN : (isError /\ ~cancelled[f]) \in BOOLEAN
    BY DEF IInv, TypeOK, SchedTypeOK
  <2> QED
    BY <2>1, <2>2, EndsType
<1>2. CASE TaskDies(f)
  <2>1. Runs(f) /\ f \in Fibers \ {Main} /\ Complete(f, ~cancelled[f])
    BY <1>2 DEF TaskDies, Drained
  <2>2. (~cancelled[f]) \in BOOLEAN
    OBVIOUS
  <2> QED
    BY <2>1, <2>2, EndsType
<1>3. CASE LeaveGroup(f) \/ DrainGroup(f)
  BY <1>3, LeavesType DEF LeaveGroup, DrainGroup
<1> QED
  BY <1>1, <1>2, <1>3, SleepsType, ReadsType, ReadsOnType, PanicsType,
     OpensType, SpawnsType, GathersType, JoinParksType, JoinReturnsType,
     ValueType, ValueParksType, ValueReturnsType
     DEF FiberStep

\* reschedule: a dispatch, a poll, or the deadlock panic.
LEMMA DispatchType ==
    ASSUME IInv, Dispatch, UNCHANGED <<taskVars, groupVars, progVars>>
    PROVE  IInv'
<1>1. runq \in Seq(Made) /\ runq # <<>>
  BY DEF IInv, Placed, Dispatch
<1>2. Head(runq) \in Made /\ Tail(runq) \in Seq(Made)
  BY <1>1, HeadTailProperties
<1>3. current' \in Made /\ runq' \in Seq(Made) /\ parked' = FALSE
  BY <1>2 DEF Dispatch
<1>4. state' \in [Fibers -> States]
  BY Names DEF Dispatch, IInv, TypeOK, SchedTypeOK
<1>5. exited' \in {"dead fiber ran", "no"}
  BY DEF Dispatch
<1>6. UNCHANGED <<stalls, pc, subject, cancelled, panicked, sleepVars, ioVars,
                  worldVars>>
  BY DEF Dispatch
<1>7. Made' = Made
  BY MadeSame DEF taskVars
<1> QED
  BY <1>3, <1>4, <1>5, <1>6, <1>7, MadeType, MadeLists
     DEF IInv, TypeOK, SchedTypeOK, GroupTypeOK, SubjectOK, Placed, sleepVars,
         ioVars, worldVars, taskVars, groupVars, progVars

\* The poll moves fibers from its lists to the run queue.
LEMMA PollType ==
    ASSUME IInv, Poll, UNCHANGED <<taskVars, groupVars, progVars>>
    PROVE  IInv'
<1>1. PICK W \in SUBSET ioq, n \in 0..Len(sleepq) :
          /\ \E w \in SetToSeqs(W) : runq' = w \o SubSeq(sleepq, 1, n)
          /\ state' = Enqueued(state, runq')
          /\ Forget(W)
          /\ sleepq' = SubSeq(sleepq, n + 1, Len(sleepq))
  BY DEF Poll
<1>2. PICK w \in SetToSeqs(W) : runq' = w \o SubSeq(sleepq, 1, n)
  BY <1>1
<1>3. W \subseteq Made
  BY DEF IInv, Placed
<1>4. IsFiniteSet(W)
  BY <1>3, MadeType, FS_Subset, SchedulerAssumption
<1>5. w \in Seq(Made)
  BY <1>3, <1>4, ListsAll, SeqMonotonic
<1>6. sleepq \in Seq(Made)
  BY DEF IInv, Placed
<1>7. /\ Len(sleepq) \in 0..Len(sleepq)
      /\ 1 \in Nat \ {0} /\ n + 1 \in Nat \ {0}
  BY <1>6
<1>8. /\ SubSeq(sleepq, 1, n) \in Seq(Made)
      /\ SubSeq(sleepq, n + 1, Len(sleepq)) \in Seq(Made)
  BY <1>6, <1>7, PartOf, Zenon
<1>9. runq' \in Seq(Made) /\ sleepq' \in Seq(Made)
  BY <1>1, <1>2, <1>5, <1>8, ConcatProperties
<1>10. state' \in [Fibers -> States]
  BY <1>1, EnqueuedType DEF IInv, TypeOK, SchedTypeOK
<1>11. /\ ioq' \subseteq Made
       /\ waitFd' \in [Fibers -> Fds \cup {None}]
       /\ interest' \subseteq Fds
  BY <1>1, <1>3, MadeType, ForgetType
<1>12. UNCHANGED <<current, parked, endVars, pc, subject, cancelled, panicked,
                   deadline, worldVars>>
  BY DEF Poll
<1>13. Made' = Made
  BY MadeSame DEF taskVars
<1> QED
  BY <1>9, <1>10, <1>11, <1>12, <1>13, MadeType, MadeLists
     DEF IInv, TypeOK, SchedTypeOK, GroupTypeOK, SubjectOK, Placed, endVars,
         worldVars, taskVars, groupVars, progVars

\* The deadlock panic is raised on a fiber that was made.
LEMMA StallType ==
    ASSUME IInv, Stall, UNCHANGED <<taskVars, groupVars, progVars>>
    PROVE  IInv'
<1>1. UNCHANGED <<current, state, cancelled, runq, sleepVars, ioVars,
                  worldVars>>
  BY DEF Stall
<1>2. Made' = Made
  BY MadeSame DEF taskVars
<1>3. CASE /\ stalls[current] < StackDepth
           /\ stalls' = [stalls EXCEPT ![current] = @ + 1]
           /\ parked' = FALSE
           /\ Raise(current)
           /\ UNCHANGED exited
  <2>1. /\ current \in Fibers /\ StackDepth \in Nat
        /\ stalls \in [Fibers -> 0..StackDepth]
    BY SchedulerAssumption DEF IInv, TypeOK, SchedTypeOK
  <2>2. stalls[current] + 1 \in 0..StackDepth
    BY <1>3, <2>1
  <2>3. stalls' \in [Fibers -> 0..StackDepth]
    BY <1>3, <2>1, <2>2
  <2>4. /\ pc' \in [Fibers -> Continuations] /\ SubjectOK'
        /\ panicked' \in [Fibers -> BOOLEAN]
    BY <1>3, <2>1, RaiseType
  <2> QED
    BY <1>1, <1>2, <1>3, <2>3, <2>4
       DEF IInv, TypeOK, SchedTypeOK, GroupTypeOK, Placed, sleepVars, ioVars,
           worldVars, taskVars, groupVars, progVars
<1>4. CASE /\ exited' = "stack overflow"
           /\ UNCHANGED <<stalls, parked, panicked, pc, subject>>
  BY <1>1, <1>2, <1>4
     DEF IInv, TypeOK, SchedTypeOK, GroupTypeOK, SubjectOK, Placed, sleepVars,
         ioVars, worldVars, taskVars, groupVars, progVars
<1> QED
  BY <1>3, <1>4 DEF Stall

\* The clock, a peer, the end of the process, and a step in which nothing
\* happens.
LEMMA WorldType ==
    ASSUME IInv,
           \/ Passes \/ MainReturns \/ MainDies
           \/ \E fd \in Fds : Answers(fd)
           \/ UNCHANGED vars
    PROVE  IInv'
<1>1. CASE Passes
  <2>1. now' \in 0..MaxTime
    <3>1. now \in 0..MaxTime /\ MaxTime \in Nat
      BY SchedulerAssumption DEF IInv, TypeOK, SchedTypeOK
    <3> QED
      BY <1>1, <3>1 DEF Passes, Tick
  <2>2. Made' = Made
    BY <1>1, MadeSame DEF Passes, taskVars
  <2> QED
    BY <1>1, <2>1, <2>2
       DEF Passes, Tick, IInv, TypeOK, SchedTypeOK, GroupTypeOK, SubjectOK,
           Placed, endVars, sleepVars, ioVars, taskVars, groupVars, progVars
<1>2. CASE MainReturns \/ MainDies
  <2>1. PICK how \in {"returned", "panicked"} : Exit(how)
    BY <1>2 DEF MainReturns, MainDies
  <2>2. Made' = Made
    BY <2>1, MadeSame DEF Exit, taskVars
  <2> QED
    BY <2>1, <2>2
       DEF Exit, IInv, TypeOK, SchedTypeOK, GroupTypeOK, SubjectOK, Placed,
           sleepVars, ioVars, worldVars, taskVars, groupVars, progVars
<1>3. CASE \E fd \in Fds : Answers(fd)
  <2>1. Made' = Made
    BY <1>3, MadeSame DEF Answers, taskVars
  <2> QED
    BY <1>3, <2>1
       DEF Answers, Arrive, IInv, TypeOK, SchedTypeOK, GroupTypeOK, SubjectOK,
           Placed, endVars, sleepVars, ioVars, taskVars, groupVars, progVars
<1>4. CASE UNCHANGED vars
  <2>1. Made' = Made
    BY <1>4, MadeSame DEF vars, taskVars
  <2> QED
    BY <1>4, <2>1
       DEF vars, schedVars, IInv, TypeOK, SchedTypeOK, GroupTypeOK, SubjectOK,
           Placed, endVars, sleepVars, ioVars, worldVars, taskVars, groupVars,
           progVars
<1> QED
  BY <1>1, <1>2, <1>3, <1>4

\* The invariant is inductive.
LEMMA NextType ==
    ASSUME IInv, [Next]_vars
    PROVE  IInv'
<1>1. CASE Reschedules
  BY <1>1, DispatchType, PollType, StallType DEF Reschedules
<1>2. CASE \E f \in Fibers : FiberStep(f)
  BY <1>2, FiberStepType
<1>3. CASE Passes \/ MainReturns \/ MainDies \/ (\E fd \in Fds : Answers(fd))
  BY <1>3, WorldType
<1>4. CASE Over \/ UNCHANGED vars
  BY <1>4, WorldType DEF Over
<1> QED
  BY <1>1, <1>2, <1>3, <1>4 DEF Next, Runtime

\* The invariant holds in every reachable state.
LEMMA Inductive == Spec => []IInv
  BY InitType, NextType, PTL DEF Spec

\* In every execution, of any program over any fibers, groups and
\* descriptors, the variables keep their types: no step of the scheduler
\* queues, joins or ends a fiber that was never spawned.
THEOREM TypeCorrect == Spec => []TypeOK
<1>1. IInv => TypeOK
  BY DEF IInv
<1> QED
  BY <1>1, Inductive, PTL

-----------------------------------------------------------------------------
(* Cancellation *)

\* A step that enqueues fibers and parks none that was told to stop keeps
\* cancelled fibers off the waits.
LEMMA StaysReachable ==
    ASSUME CancelReachesBlocked, IInv, UNCHANGED cancelled,
           \A f \in Fibers :
              \/ state'[f] = state[f]
              \/ state'[f] \notin Unparkable
              \/ ~cancelled[f]
    PROVE  CancelReachesBlocked'
  BY DEF CancelReachesBlocked

\* The end of a task is the one step that tells tasks to stop, and it wakes
\* every one of them that it finds parked.
LEMMA CompleteReaches ==
    ASSUME IInv, CancelReachesBlocked, NEW f \in Fibers, group[f] \in Groups,
           NEW isFailure \in BOOLEAN, Complete(f, isFailure)
    PROVE  CancelReachesBlocked'
<1> DEFINE g == group[f]
           fires == isFailure /\ ~failed[g]
           empty == live[g] = 1
           woken == IF fires THEN Woken(g) ELSE {}
           wakes == IF empty THEN Waiting(gjoiner[g]) ELSE <<>>
<1>1. children[g] \in Seq(Made) /\ gjoiner[g] \in Made \cup {None}
  BY DEF IInv, Placed
<1>2. woken \subseteq Made
  BY <1>1, ElementsOf DEF Woken, Flagged
<1>3. IsFiniteSet(woken)
  BY <1>2, MadeType, FS_Subset, SchedulerAssumption
<1>4. wakes \in Seq(Made) /\ Waiting(joiner[f]) \in Seq(Made)
  BY <1>1, WaitingType DEF IInv, Placed
<1>5. PICK w \in InOrder(children[g], woken) :
         state' = [Enqueued(state, w \o wakes \o Waiting(joiner[f]))
                     EXCEPT ![f] = "done"]
  BY DEF Complete
<1>6. w \in Seq(Made) /\ ToSet(w) = woken
  BY <1>2, <1>3, InOrderLists, SeqMonotonic
<1>7. woken \subseteq ToSet(w \o wakes \o Waiting(joiner[f]))
  <2>1. ToSet(w) \subseteq ToSet(w \o wakes \o Waiting(joiner[f]))
    BY <1>4, <1>6, FirstOfThree, Zenon
  <2> QED
    BY <1>6, <2>1
<1>8. ASSUME NEW c \in Fibers, cancelled'[c]
      PROVE  state'[c] \notin Unparkable
  <2>1. state'[c] \in {"done", "runnable", state[c]}
    BY <1>5 DEF Enqueued
  <2>2. c \in woken => state'[c] \in {"done", "runnable"}
    BY <1>5, <1>7 DEF Enqueued
  <2>3. cancelled[c] \/ (fires /\ c \in Flagged(g))
    BY <1>8 DEF Complete
  <2>4. CASE cancelled[c]
    BY <2>1, <2>4 DEF CancelReachesBlocked, Unparkable
  <2>5. CASE fires /\ c \in Flagged(g)
    BY <2>1, <2>2, <2>5 DEF Woken, Unparkable
  <2> QED
    BY <2>3, <2>4, <2>5
<1> QED
  BY <1>8 DEF CancelReachesBlocked

\* Every other step of a fiber parks it only if it was not told to stop.
LEMMA FiberStepReaches ==
    ASSUME IInv, CancelReachesBlocked, NEW f \in Fibers, FiberStep(f)
    PROVE  CancelReachesBlocked'
<1>1. CASE TaskReturns(f) \/ TaskDies(f)
  <2>1. group[f] \in Groups
    BY <1>1 DEF TaskReturns, TaskDies, InUser, Drained, Runs, IInv, Placed,
                Made
  <2>2. (~cancelled[f]) \in BOOLEAN
        /\ \A isError \in BOOLEAN : (isError /\ ~cancelled[f]) \in BOOLEAN
    BY DEF IInv, TypeOK, SchedTypeOK
  <2>3. CASE TaskReturns(f)
    BY <2>1, <2>2, <2>3, CompleteReaches DEF TaskReturns
  <2>4. CASE TaskDies(f)
    BY <2>1, <2>2, <2>4, CompleteReaches DEF TaskDies
  <2> QED
    BY <1>1, <2>3, <2>4
<1> SUFFICES ASSUME ~TaskReturns(f), ~TaskDies(f)
             PROVE  /\ UNCHANGED cancelled
                    /\ \A h \in Fibers :
                         \/ state'[h] = state[h]
                         \/ state'[h] \notin Unparkable
                         \/ ~cancelled[h]
  BY <1>1, StaysReachable
<1> USE DEF IInv, TypeOK, SchedTypeOK, Unparkable
<1>2. CASE TaskSleeps(f)
  BY <1>2 DEF TaskSleeps, Sleep, Parks, schedVars
<1>3. CASE TaskReads(f)
  BY <1>3 DEF TaskReads, WaitReadable, Parks, schedVars
<1>4. CASE TaskReadsOn(f) \/ TaskPanics(f) \/ OpenGroup(f)
  BY <1>4 DEF TaskReadsOn, Read, TaskPanics, OpenGroup, schedVars
<1>5. CASE Spawn(f)
  BY <1>5 DEF Spawn, Enqueued
<1>6. CASE LeaveGroup(f) \/ DrainGroup(f) \/ Gather(f) \/ JoinReturns(f)
  BY <1>6 DEF LeaveGroup, DrainGroup, PopsGroup, Gather, JoinReturns
<1>7. CASE JoinParks(f)
  BY <1>7 DEF JoinParks, Parks
<1>8. CASE Value(f) \/ ValueReturns(f)
  BY <1>8 DEF Value, ValueReturns
<1>9. CASE ValueParks(f)
  BY <1>9 DEF ValueParks, Parks
<1> QED
  BY <1>2, <1>3, <1>4, <1>5, <1>6, <1>7, <1>8, <1>9 DEF FiberStep

\* No step parks a cancelled fiber or leaves parked one that it cancels.
LEMMA NextReaches ==
    ASSUME IInv, CancelReachesBlocked, [Next]_vars
    PROVE  CancelReachesBlocked'
<1>1. CASE \E f \in Fibers : FiberStep(f)
  BY <1>1, FiberStepReaches
<1>2. CASE Dispatch \/ Poll \/ Stall
  <2>1. UNCHANGED cancelled /\ \A h \in Fibers :
            state'[h] = state[h] \/ state'[h] \notin Unparkable
    BY <1>2 DEF Dispatch, Poll, Stall, Enqueued, Unparkable, IInv, TypeOK,
                SchedTypeOK
  <2> QED
    BY <2>1, StaysReachable
<1>3. CASE \/ Passes \/ MainReturns \/ MainDies \/ Over \/ UNCHANGED vars
           \/ \E fd \in Fds : Answers(fd)
  BY <1>3 DEF Passes, Tick, MainReturns, MainDies, Exit, Over, Answers,
              Arrive, vars, schedVars, CancelReachesBlocked
<1> QED
  BY <1>1, <1>2, <1>3 DEF Next, Runtime, Reschedules

\* Whatever the program, however its tasks fail, sleep, read and spawn: no
\* fiber that was told to stop is ever left parked on time, on a descriptor
\* or on a channel.
THEOREM CancellationReaches == Spec => []CancelReachesBlocked
<1>1. Init => CancelReachesBlocked
  BY DEF Init, SchedInit, CancelReachesBlocked
<1> QED
  BY <1>1, Inductive, NextReaches, PTL DEF Spec

-----------------------------------------------------------------------------
(***************************************************************************)
(* QueueExact is not inductive by itself: the end of a task enqueues the   *)
(* tasks it wakes, its group's joiner and its own, and these are three     *)
(* different fibers, none of them on the run queue, only because whoever   *)
(* is a joiner is parked in that join and in no other.                     *)
(***************************************************************************)

InState(st) == {f \in Fibers : state[f] = st}

Running == \A f \in Fibers : state[f] = "running" <=> f = current /\ ~parked

\* What a parked reader waits for is a descriptor.
WaitsOnFd == \A f \in ioq : waitFd[f] \in Fds

JoinersPark ==
    \A t, j \in Fibers : joiner[t] = j =>
        state[j] = "joining" /\ pc[j] = "value" /\ subject[j] = t

GroupJoinersPark ==
    \A g \in Groups, j \in Fibers : gjoiner[g] = j =>
        state[j] = "joining" /\ pc[j] = "gjoin" /\ subject[j] = g

Queued ==
    /\ Lists(runq, InState("runnable"))
    /\ Lists(sleepq, InState("sleeping"))
    /\ SleepSorted
    /\ Registered
    /\ Running
    /\ WaitsOnFd
    /\ JoinersPark
    /\ GroupJoinersPark

QInv == ~stalled => Queued

\* The lists of the invariant are those of the property.
LEMMA QueuedIsExact == QInv => QueueExact
<1> SUFFICES ASSUME Queued
             PROVE  Listed(runq, "runnable") /\ Listed(sleepq, "sleeping")
                      /\ SleepSorted /\ Registered /\ Running
  BY DEF QInv, QueueExact, Running
<1>1. \A f \in Fibers : state[f] = "runnable" <=> f \in ToSet(runq)
  BY DEF Queued, Lists, InState
<1>2. \A f \in Fibers : state[f] = "sleeping" <=> f \in ToSet(sleepq)
  BY DEF Queued, Lists, InState
<1> QED
  BY <1>1, <1>2 DEF Queued, Listed, Lists

\* At first nothing is on a list.
LEMMA InitQueued == Init => Queued
<1> SUFFICES ASSUME Init PROVE Queued
  OBVIOUS
<1> USE DEF Init, SchedInit, GroupInit
<1>1. InState("runnable") = {} /\ InState("sleeping") = {}
  BY DEF InState
<1>2. Lists(runq, InState("runnable")) /\ Lists(sleepq, InState("sleeping"))
  BY <1>1, ListsNone
<1>3. SleepSorted
  BY DEF SleepSorted
<1>4. Registered /\ WaitsOnFd
  BY DEF Registered, WaitsOnFd
<1>5. Running
  BY DEF Running
<1>6. JoinersPark /\ GroupJoinersPark
  BY SchedulerAssumption DEF JoinersPark, GroupJoinersPark
<1> QED
  BY <1>2, <1>3, <1>4, <1>5, <1>6 DEF Queued

\* A fiber that goes on, the world and the end of the process leave the
\* lists alone.
LEMMA Untouched ==
    ASSUME IInv, Queued,
           UNCHANGED <<current, parked, state, runq, sleepVars, ioVars,
                       joiner, gjoiner>>,
           \A h \in Fibers : state[h] # "running" =>
               pc'[h] = pc[h] /\ subject'[h] = subject[h]
    PROVE  Queued'
<1>1. InState("runnable")' = InState("runnable")
        /\ InState("sleeping")' = InState("sleeping")
  BY DEF InState
<1>2. Lists(runq, InState("runnable"))' /\ Lists(sleepq, InState("sleeping"))'
  BY <1>1 DEF Queued, sleepVars
<1>3. SleepSorted' /\ Registered' /\ WaitsOnFd' /\ Running'
  BY DEF Queued, SleepSorted, Registered, WaitsOnFd, Running, sleepVars,
         ioVars
<1>4. JoinersPark' /\ GroupJoinersPark'
  BY DEF Queued, JoinersPark, GroupJoinersPark
<1> QED
  BY <1>2, <1>3, <1>4 DEF Queued

\* A fiber that is enqueued was on no list and is now on one.
LEMMA EnqueuesListed ==
    ASSUME Lists(runq, InState("runnable")),
           NEW W \in SUBSET Fibers, W \cap InState("runnable") = {},
           NEW w, Lists(w, W), runq' = runq \o w,
           \A f \in Fibers : state'[f] = "runnable"
                               <=> state[f] = "runnable" \/ f \in W
    PROVE  Lists(runq, InState("runnable"))'
<1>1. Lists(runq \o w, InState("runnable") \cup W)
  BY ListsJoined
<1>2. InState("runnable")' = InState("runnable") \cup W
  BY DEF InState
<1> QED
  BY <1>1, <1>2

\* Unlinking sleepers keeps the others in order.
LEMMA RemovedSorted ==
    ASSUME SleepSorted, NEW W, SleepRemove(W), UNCHANGED deadline
    PROVE  SleepSorted'
<1>1. \A i, j \in DOMAIN sleepq' : i < j =>
         \E a, b \in DOMAIN sleepq :
            a < b /\ sleepq[a] = sleepq'[i] /\ sleepq[b] = sleepq'[j]
  BY DEF SleepRemove, InOrder
<1> QED
  BY <1>1 DEF SleepSorted

\* Forgetting some readers leaves the descriptors of the others.
LEMMA ForgetsRegistered ==
    ASSUME IInv, Registered, WaitsOnFd, NEW W \in SUBSET Fibers, Forget(W),
           \A f \in Fibers : state'[f] = "io" <=> state[f] = "io" /\ f \notin W
    PROVE  Registered' /\ WaitsOnFd'
<1>1. ioq \subseteq Fibers /\ None \notin Fds
      /\ \A f \in Fibers : waitFd[f] \in Fds \cup {None}
  BY SchedulerAssumption DEF IInv, TypeOK, SchedTypeOK
<1>2. /\ ioq' = ioq \ W
      /\ \A f \in Fibers : waitFd'[f] = IF f \in W THEN None ELSE waitFd[f]
      /\ interest' = interest \ {waitFd[f] : f \in W}
  BY DEF Forget
<1>3. \A f \in ioq' : waitFd'[f] = waitFd[f] /\ f \in ioq /\ f \in Fibers
  BY <1>1, <1>2
<1>4. interest' = {waitFd'[f] : f \in ioq'}
  <2>1. ASSUME NEW x \in interest' PROVE \E f \in ioq' : x = waitFd'[f]
    <3>1. PICK f \in ioq : x = waitFd[f]
      BY <1>2 DEF Registered
    <3>2. f \notin W
      BY <1>2, <3>1
    <3> QED
      BY <1>1, <1>2, <3>1, <3>2
  <2>2. ASSUME NEW f \in ioq' PROVE waitFd'[f] \in interest'
    <3>1. waitFd[f] \in interest /\ waitFd[f] \in Fds
      BY <1>3 DEF Registered, WaitsOnFd
    <3>2. ASSUME NEW h \in W PROVE waitFd[h] # waitFd[f]
      <4>1. CASE h \in ioq
        BY <1>2, <1>3, <4>1 DEF Registered
      <4>2. CASE h \notin ioq
        BY <1>1, <3>1, <4>2 DEF Registered
      <4> QED
        BY <4>1, <4>2
    <3> QED
      BY <1>2, <1>3, <3>1, <3>2
  <2> QED
    BY <2>1, <2>2
<1>5. \A f, g \in ioq' : waitFd'[f] = waitFd'[g] => f = g
  BY <1>3 DEF Registered
<1>6. \A f \in Fibers \ ioq' : waitFd'[f] = None
  BY <1>2 DEF Registered
<1>7. \A f \in Fibers : state'[f] = "io" <=> f \in ioq'
  BY <1>2 DEF Registered
<1>8. WaitsOnFd'
  BY <1>3 DEF WaitsOnFd
<1> QED
  BY <1>4, <1>5, <1>6, <1>7, <1>8 DEF Registered

\* sleep_insert puts the fiber where its deadline belongs.
LEMMA InsertedSorted ==
    ASSUME IInv, SleepSorted, NEW f \in Fibers, f \notin ToSet(sleepq),
           NEW when \in Nat, SleepInsert(f, when),
           deadline' = [deadline EXCEPT ![f] = when]
    PROVE  SleepSorted'
<1>1. sleepq \in Seq(Fibers) /\ Len(sleepq) \in Nat
        /\ DOMAIN sleepq = 1..Len(sleepq)
        /\ \A i \in DOMAIN sleepq : sleepq[i] \in Fibers /\ sleepq[i] # f
  <2>1. sleepq \in Seq(Fibers)
    BY DEF IInv, TypeOK, SchedTypeOK
  <2>2. \A i \in DOMAIN sleepq : sleepq[i] # f
    BY Zenon DEF ToSet
  <2> QED
    BY <2>1, <2>2
<1>2. \A h \in Fibers : deadline[h] \in Nat
        /\ deadline'[h] = IF h = f THEN when ELSE deadline[h]
  <2>1. deadline \in [Fibers -> 0..MaxTime]
    BY DEF IInv, TypeOK, SchedTypeOK
  <2>2. MaxTime \in Nat
    BY SchedulerAssumption
  <2> QED
    BY <2>1, <2>2
<1>3. PICK n \in 0..Len(sleepq) :
        /\ \A j \in 1..n : deadline[sleepq[j]] <= when
        /\ n < Len(sleepq) => deadline[sleepq[n + 1]] > when
        /\ sleepq' = SubSeq(sleepq, 1, n) \o <<f>>
                       \o SubSeq(sleepq, n + 1, Len(sleepq))
  BY DEF SleepInsert
<1>4. /\ DOMAIN sleepq' = 1..(Len(sleepq) + 1)
      /\ sleepq'[n + 1] = f
      /\ \A i \in 1..n : sleepq'[i] = sleepq[i]
      /\ \A i \in (n + 1)..Len(sleepq) : sleepq'[i + 1] = sleepq[i]
  <2> DEFINE r == SubSeq(sleepq, 1, n) \o <<f>>
                    \o SubSeq(sleepq, n + 1, Len(sleepq))
  <2>1. /\ DOMAIN r = 1..(Len(sleepq) + 1)
        /\ r[n + 1] = f
        /\ \A i \in 1..n : r[i] = sleepq[i]
        /\ \A i \in (n + 1)..Len(sleepq) : r[i + 1] = sleepq[i]
    BY <1>1, Inserted, Zenon
  <2>2. sleepq' = r
    BY <1>3
  <2> HIDE DEF r
  <2> QED
    BY <2>1, <2>2
<1>5. ASSUME NEW i \in 1..(Len(sleepq) + 1)
      PROVE  \/ i \in 1..n /\ sleepq'[i] = sleepq[i]
                /\ deadline'[sleepq'[i]] = deadline[sleepq[i]]
                /\ deadline[sleepq[i]] <= when
             \/ i = n + 1 /\ deadline'[sleepq'[i]] = when
             \/ /\ i - 1 \in (n + 1)..Len(sleepq)
                /\ deadline'[sleepq'[i]] = deadline[sleepq[i - 1]]
                /\ deadline[sleepq[i - 1]] >= when
  <2>1. CASE i \in 1..n
    BY <1>1, <1>2, <1>3, <1>4, <2>1
  <2>2. CASE i = n + 1
    BY <1>2, <1>4, <2>2
  <2>3. CASE i > n + 1
    <3> DEFINE k == i - 1
    <3>1. k \in (n + 1)..Len(sleepq) /\ i = k + 1 /\ n < Len(sleepq)
      BY <1>1, <2>3
    <3>2. sleepq'[i] = sleepq[k] /\ k \in DOMAIN sleepq
            /\ n + 1 \in DOMAIN sleepq
      BY <1>1, <1>4, <3>1
    <3>3. deadline'[sleepq'[i]] = deadline[sleepq[k]]
      BY <1>1, <1>2, <3>2
    <3>4. deadline[sleepq[n + 1]] <= deadline[sleepq[k]]
      <4>1. CASE k = n + 1
        BY <1>1, <1>2, <3>2, <4>1
      <4>2. CASE n + 1 < k
        BY <3>2, <4>2 DEF SleepSorted
      <4> QED
        BY <3>1, <4>1, <4>2
    <3>5. deadline[sleepq[k]] \in Nat /\ deadline[sleepq[n + 1]] \in Nat
      BY <1>1, <1>2, <3>2
    <3>6. deadline[sleepq[k]] >= when
      BY <1>3, <3>1, <3>4, <3>5
    <3> QED
      BY <3>1, <3>3, <3>6
  <2> QED
    BY <1>1, <2>1, <2>2, <2>3
<1>6. ASSUME NEW i \in 1..(Len(sleepq) + 1), NEW j \in 1..(Len(sleepq) + 1),
             i < j
      PROVE  deadline'[sleepq'[i]] <= deadline'[sleepq'[j]]
  <2>1. \A k \in 1..(Len(sleepq) + 1) :
          k \in DOMAIN sleepq => deadline[sleepq[k]] \in Nat
    BY <1>1, <1>2
  <2>2. CASE i \in 1..n /\ j \in 1..n
    BY <1>1, <1>5, <1>6, <2>2 DEF SleepSorted
  <2>3. CASE i \in 1..n /\ j \notin 1..n
    <3>1. deadline'[sleepq'[i]] <= when /\ deadline'[sleepq'[i]] \in Nat
      BY <1>1, <1>5, <2>1, <2>3
    <3>2. deadline'[sleepq'[j]] >= when /\ deadline'[sleepq'[j]] \in Nat
      BY <1>1, <1>5, <2>1, <2>3
    <3> QED
      BY <3>1, <3>2
  <2>4. CASE i = n + 1
    <3>1. deadline'[sleepq'[i]] = when
      BY <1>5, <2>4
    <3>2. deadline'[sleepq'[j]] >= when
      BY <1>5, <1>6, <2>4
    <3> QED
      BY <3>1, <3>2
  <2>5. CASE i > n + 1
    <3>1. i - 1 \in DOMAIN sleepq /\ j - 1 \in DOMAIN sleepq /\ i - 1 < j - 1
            /\ deadline'[sleepq'[i]] = deadline[sleepq[i - 1]]
            /\ deadline'[sleepq'[j]] = deadline[sleepq[j - 1]]
      BY <1>1, <1>5, <1>6, <2>5
    <3> QED
      BY <3>1 DEF SleepSorted
  <2> QED
    BY <1>1, <2>2, <2>3, <2>4, <2>5
<1> QED
  BY <1>4, <1>6 DEF SleepSorted

\* sleep
LEMMA SleepsQueued ==
    ASSUME IInv, Queued, NEW f \in Fibers, TaskSleeps(f)
    PROVE  Queued'
<1>1. PICK ms \in 0..MaxTime : Sleep(f, ms)
  BY DEF TaskSleeps
<1>2. UNCHANGED <<joiner, gjoiner>>
  BY DEF TaskSleeps, taskVars, groupVars
<1>3. CASE UNCHANGED schedVars
  BY <1>2, <1>3, Untouched DEF schedVars
<1>4. CASE ~UNCHANGED schedVars
  <2>1. /\ now + ms <= MaxTime
        /\ deadline' = [deadline EXCEPT ![f] = now + ms]
        /\ SleepInsert(f, now + ms)
        /\ Parks(f, "sleeping")
        /\ UNCHANGED <<current, endVars, pc, subject, cancelled, panicked,
                       runq, ioVars, worldVars>>
    BY <1>1, <1>4 DEF Sleep
  <2>2. now + ms \in Nat
    <3>1. now \in 0..MaxTime /\ MaxTime \in Nat
      BY SchedulerAssumption DEF IInv, TypeOK, SchedTypeOK
    <3> QED
      BY <3>1
  <2>3. state[f] = "running" /\ current = f /\ ~parked
    BY DEF TaskSleeps, Starts, InUser, Runs, Queued, Running
  <2>4. /\ \A h \in Fibers : state'[h] = IF h = f THEN "sleeping" ELSE state[h]
        /\ parked' = TRUE
    BY <2>1 DEF Parks, IInv, TypeOK, SchedTypeOK
  <2>5. InState("runnable")' = InState("runnable")
          /\ InState("sleeping")' = InState("sleeping") \cup {f}
          /\ f \notin InState("sleeping")
    BY <2>3, <2>4 DEF InState
  <2>6. f \notin ToSet(sleepq)
    BY <2>5 DEF Queued, Lists
  <2>7. SleepSorted'
    BY <2>1, <2>2, <2>6, InsertedSorted DEF Queued
  <2>8. Lists(sleepq, InState("sleeping"))'
    BY <2>1, <2>5, ListsInserted DEF Queued, SleepInsert
  <2>9. Lists(runq, InState("runnable"))'
    BY <2>1, <2>5 DEF Queued
  <2>10. Registered' /\ WaitsOnFd'
    BY <2>1, <2>3, <2>4 DEF Queued, Registered, WaitsOnFd, ioVars
  <2>11. Running'
    BY <2>1, <2>3, <2>4 DEF Queued, Running
  <2>12. JoinersPark' /\ GroupJoinersPark'
    BY <1>2, <2>1, <2>3, <2>4 DEF Queued, JoinersPark, GroupJoinersPark
  <2> QED
    BY <2>7, <2>8, <2>9, <2>10, <2>11, <2>12 DEF Queued
<1> QED
  BY <1>3, <1>4

\* read
LEMMA ReadsQueued ==
    ASSUME IInv, Queued, NEW f \in Fibers, TaskReads(f)
    PROVE  Queued'
<1>1. PICK fd \in Fds : WaitReadable(f, fd)
  BY DEF TaskReads
<1>2. UNCHANGED <<joiner, gjoiner>>
  BY DEF TaskReads, taskVars, groupVars
<1>3. state[f] = "running" /\ current = f /\ ~parked
  BY DEF TaskReads, Starts, InUser, Runs, Queued, Running
<1>4. CASE UNCHANGED <<current, parked, state, runq, sleepVars, ioVars>>
  <2>1. \A h \in Fibers : h # f => pc'[h] = pc[h] /\ subject'[h] = subject[h]
    BY <1>1 DEF WaitReadable, Raise, Continue, schedVars, IInv, TypeOK,
                SchedTypeOK, GroupTypeOK, SubjectOK
  <2> QED
    BY <1>2, <1>3, <1>4, <2>1, Untouched
<1>5. CASE /\ ~Refused(fd)
           /\ waitFd' = [waitFd EXCEPT ![f] = fd]
           /\ ioq' = ioq \cup {f}
           /\ interest' = interest \cup {fd}
           /\ Continue(f, "read", fd)
           /\ Parks(f, "io")
           /\ UNCHANGED <<current, endVars, cancelled, panicked, runq,
                          sleepVars, worldVars>>
  <2>1. /\ \A h \in Fibers : state'[h] = IF h = f THEN "io" ELSE state[h]
        /\ \A h \in Fibers : waitFd'[h] = IF h = f THEN fd ELSE waitFd[h]
        /\ \A h \in Fibers : h # f => pc'[h] = pc[h] /\ subject'[h] = subject[h]
        /\ parked' = TRUE /\ ioq \subseteq Fibers /\ f \notin ioq
    BY <1>3, <1>5 DEF Parks, Continue, IInv, TypeOK, SchedTypeOK, GroupTypeOK,
                      SubjectOK, Queued, Registered
  <2>2. InState("runnable")' = InState("runnable")
          /\ InState("sleeping")' = InState("sleeping")
    BY <1>3, <2>1 DEF InState
  <2>3. Lists(runq, InState("runnable"))' /\ Lists(sleepq, InState("sleeping"))'
          /\ SleepSorted'
    BY <1>5, <2>2 DEF Queued, SleepSorted, sleepVars
  <2>4. WaitsOnFd'
    BY <1>5, <2>1 DEF Queued, WaitsOnFd
  <2>5. Registered'
    <3>1. \A h \in Fibers : state'[h] = "io" <=> h \in ioq'
      BY <1>5, <2>1 DEF Queued, Registered
    <3>2. \A h \in ioq : waitFd[h] # fd
      BY <1>5 DEF Refused
    <3>3. \A h, k \in ioq' : waitFd'[h] = waitFd'[k] => h = k
      BY <1>5, <2>1, <3>2 DEF Queued, Registered
    <3>4. \A h \in Fibers \ ioq' : waitFd'[h] = None
      BY <1>5, <2>1 DEF Queued, Registered
    <3>5. interest' = {waitFd'[h] : h \in ioq'}
      <4>1. interest = {waitFd[h] : h \in ioq}
        BY DEF Queued, Registered
      <4>2. \A h \in ioq : waitFd'[h] = waitFd[h]
        BY <2>1
      <4>3. waitFd'[f] = fd
        BY <2>1
      <4> QED
        BY <1>5, <4>1, <4>2, <4>3
    <3> QED
      BY <3>1, <3>3, <3>4, <3>5 DEF Registered
  <2>6. Running'
    BY <1>3, <1>5, <2>1 DEF Queued, Running
  <2>7. JoinersPark' /\ GroupJoinersPark'
    BY <1>2, <1>3, <2>1 DEF Queued, JoinersPark, GroupJoinersPark
  <2> QED
    BY <2>3, <2>4, <2>5, <2>6, <2>7 DEF Queued
<1> QED
  BY <1>1, <1>4, <1>5 DEF WaitReadable, schedVars

\* A fiber is parked by the step that takes it off the processor.
LEMMA JoinParksQueued ==
    ASSUME IInv, Queued, NEW f \in Fibers, JoinParks(f)
    PROVE  Queued'
<1>1. state[f] = "running" /\ current = f /\ ~parked /\ pc[f] = "gjoin"
  BY DEF JoinParks, Runs, Queued, Running
<1>2. /\ \A h \in Fibers : state'[h] = IF h = f THEN "joining" ELSE state[h]
      /\ \A g \in Groups :
            gjoiner'[g] = IF g = subject[f] THEN f ELSE gjoiner[g]
      /\ parked' = TRUE
      /\ UNCHANGED <<current, pc, subject, runq, sleepVars, ioVars, joiner>>
  BY DEF JoinParks, Parks, quietVars, taskVars, IInv, TypeOK, SchedTypeOK,
         GroupTypeOK
<1>3. InState("runnable")' = InState("runnable")
        /\ InState("sleeping")' = InState("sleeping")
  BY <1>1, <1>2 DEF InState
<1>4. Lists(runq, InState("runnable"))' /\ Lists(sleepq, InState("sleeping"))'
        /\ SleepSorted'
  BY <1>2, <1>3 DEF Queued, SleepSorted, sleepVars
<1>5. Registered' /\ WaitsOnFd' /\ Running'
  BY <1>1, <1>2 DEF Queued, Registered, WaitsOnFd, Running, ioVars
<1>6. JoinersPark' /\ GroupJoinersPark'
  BY <1>1, <1>2 DEF Queued, JoinersPark, GroupJoinersPark
<1> QED
  BY <1>4, <1>5, <1>6 DEF Queued

\* A task's joiner is registered with it when it parks, or it raises.
LEMMA ValueParksQueued ==
    ASSUME IInv, Queued, NEW f \in Fibers, ValueParks(f)
    PROVE  Queued'
<1>1. state[f] = "running" /\ current = f /\ ~parked /\ pc[f] = "value"
  BY DEF ValueParks, Runs, Queued, Running
<1>2. UNCHANGED <<current, runq, sleepVars, ioVars, gjoiner>>
  BY DEF ValueParks, quietVars, groupVars
<1>3. CASE Raise(f) /\ UNCHANGED <<joiner, state, parked>>
  <2>1. \A h \in Fibers : h # f => pc'[h] = pc[h] /\ subject'[h] = subject[h]
    BY <1>3 DEF Raise, Continue, IInv, TypeOK, SchedTypeOK, GroupTypeOK,
                SubjectOK
  <2> QED
    BY <1>1, <1>2, <1>3, <2>1, Untouched
<1>4. CASE /\ joiner' = [joiner EXCEPT ![subject[f]] = f]
           /\ Parks(f, "joining")
           /\ UNCHANGED <<pc, subject, panicked>>
  <2>1. /\ \A h \in Fibers : state'[h] = IF h = f THEN "joining" ELSE state[h]
        /\ \A t \in Fibers :
              joiner'[t] = IF t = subject[f] THEN f ELSE joiner[t]
        /\ parked' = TRUE
    BY <1>4 DEF Parks, IInv, TypeOK, SchedTypeOK, GroupTypeOK
  <2>2. InState("runnable")' = InState("runnable")
          /\ InState("sleeping")' = InState("sleeping")
    BY <1>1, <2>1 DEF InState
  <2>3. Lists(runq, InState("runnable"))' /\ Lists(sleepq, InState("sleeping"))'
          /\ SleepSorted'
    BY <1>2, <2>2 DEF Queued, SleepSorted, sleepVars
  <2>4. Registered' /\ WaitsOnFd' /\ Running'
    BY <1>1, <1>2, <2>1 DEF Queued, Registered, WaitsOnFd, Running, ioVars
  <2>5. JoinersPark' /\ GroupJoinersPark'
    BY <1>1, <1>2, <1>4, <2>1 DEF Queued, JoinersPark, GroupJoinersPark
  <2> QED
    BY <2>3, <2>4, <2>5 DEF Queued
<1> QED
  BY <1>3, <1>4 DEF ValueParks

\* A task that is spawned goes to the end of the run queue.
LEMMA SpawnsQueued ==
    ASSUME IInv, Queued, NEW f \in Fibers, Spawn(f)
    PROVE  Queued'
<1>1. PICK c \in Fibers : /\ state[c] = "new"
                          /\ runq' = Append(runq, c)
                          /\ state' = Enqueued(state, <<c>>)
  BY DEF Spawn
<1>2. UNCHANGED <<current, parked, pc, subject, sleepVars, ioVars, joiner,
                  gjoiner>>
  BY DEF Spawn, quietVars
<1>3. ToSet(<<c>>) = {c} /\ Lists(<<c>>, {c})
  BY ListsOne DEF Lists
<1>4. \A h \in Fibers : state'[h] = IF h = c THEN "runnable" ELSE state[h]
  BY <1>1, <1>3 DEF Enqueued
<1>5. runq' = runq \o <<c>>
  <2>1. runq \in Seq(Fibers)
    BY DEF IInv, TypeOK, SchedTypeOK
  <2> QED
    BY <1>1, <2>1
<1>6. Lists(runq, InState("runnable"))'
  <2>1. {c} \in SUBSET Fibers /\ {c} \cap InState("runnable") = {}
    BY <1>1 DEF InState
  <2>2. \A h \in Fibers : state'[h] = "runnable"
                            <=> state[h] = "runnable" \/ h \in {c}
    BY <1>4
  <2> QED
    BY <1>3, <1>5, <2>1, <2>2, EnqueuesListed DEF Queued
<1>7. InState("sleeping")' = InState("sleeping")
  BY <1>1, <1>4 DEF InState
<1>8. Lists(sleepq, InState("sleeping"))' /\ SleepSorted'
  BY <1>2, <1>7 DEF Queued, SleepSorted, sleepVars
<1>9. Registered' /\ WaitsOnFd' /\ Running'
  BY <1>1, <1>2, <1>4 DEF Queued, Registered, WaitsOnFd, Running, ioVars
<1>10. JoinersPark' /\ GroupJoinersPark'
  BY <1>1, <1>2, <1>4 DEF Queued, JoinersPark, GroupJoinersPark
<1> QED
  BY <1>6, <1>8, <1>9, <1>10 DEF Queued

\* The list of a joiner, if there is one.
LEMMA WaitingLists ==
    ASSUME NEW j
    PROVE  Lists(Waiting(j), {j} \ {None})
<1>1. CASE j = None
  BY <1>1, ListsNone DEF Waiting
<1>2. CASE j # None
  <2>1. {j} \ {None} = {j} /\ Waiting(j) = <<j>>
    BY <1>2 DEF Waiting
  <2> QED
    BY <2>1, ListsOne
<1> QED
  BY <1>1, <1>2

\* The end of a task: those it wakes and the two joiners are different
\* fibers, and none of them is on the run queue.
LEMMA CompleteQueued ==
    ASSUME IInv, Queued, NEW f \in Fibers, Runs(f), group[f] \in Groups,
           NEW isFailure \in BOOLEAN, Complete(f, isFailure)
    PROVE  /\ Queued'
           /\ \A h \in Fibers : state[h] = "done" => state'[h] = "done"
<1> DEFINE g == group[f]
           fires == isFailure /\ ~failed[g]
           empty == live[g] = 1
           woken == IF fires THEN Woken(g) ELSE {}
           wakes == IF empty THEN Waiting(gjoiner[g]) ELSE <<>>
           gwaits == IF empty THEN {gjoiner[g]} \ {None} ELSE {}
           waits == {joiner[f]} \ {None}
           all == woken \cup gwaits \cup waits
<1>1. PICK w \in InOrder(children[g], woken) :
         /\ runq' = runq \o w \o wakes \o Waiting(joiner[f])
         /\ state' = [Enqueued(state, w \o wakes \o Waiting(joiner[f]))
                        EXCEPT ![f] = "done"]
  BY DEF Complete
<1>2. /\ Forget(woken) /\ SleepRemove(woken) /\ Continue(f, "dead", None)
      /\ gjoiner' = IF empty THEN [gjoiner EXCEPT ![g] = None] ELSE gjoiner
      /\ joiner' = [joiner EXCEPT ![f] = None]
      /\ parked' = TRUE
      /\ UNCHANGED <<current, deadline>>
  BY DEF Complete
<1>3. state[f] = "running" /\ current = f /\ ~parked
  BY DEF Runs, Queued, Running
<1>4. /\ woken \subseteq Fibers
      /\ \A h \in woken : state[h] \in {"sleeping", "io", "chan"}
  <2>1. children[g] \in Seq(Fibers)
    BY DEF IInv, TypeOK, GroupTypeOK
  <2>2. ToSet(children[g]) \subseteq Fibers
    BY <2>1, ElementsOf
  <2> QED
    BY <2>2 DEF Woken, Flagged, Unparkable
<1>5. \A h \in gwaits : /\ h \in Fibers /\ state[h] = "joining"
                        /\ pc[h] = "gjoin" /\ subject[h] = g
  BY DEF Queued, GroupJoinersPark, IInv, TypeOK, GroupTypeOK
<1>6. \A h \in waits : /\ h \in Fibers /\ state[h] = "joining"
                       /\ pc[h] = "value" /\ subject[h] = f
  BY DEF Queued, JoinersPark, IInv, TypeOK, GroupTypeOK
<1>7. /\ Lists(w, woken) /\ Lists(wakes, gwaits)
      /\ Lists(Waiting(joiner[f]), waits)
  <2>1. IsFiniteSet(woken)
    BY <1>4, FS_Subset, SchedulerAssumption
  <2>2. Lists(w, woken)
    BY <2>1, ListsSet DEF InOrder
  <2>3. Lists(wakes, gwaits)
    BY WaitingLists, ListsNone
  <2> QED
    BY <2>2, <2>3, WaitingLists
<1>8. /\ all \subseteq Fibers
      /\ \A h \in all : state[h] \in {"sleeping", "io", "chan", "joining"}
  BY <1>4, <1>5, <1>6
<1>9. woken \cap gwaits = {} /\ (woken \cup gwaits) \cap waits = {}
  BY <1>4, <1>5, <1>6
<1>10. InState("runnable") \cap woken = {}
        /\ (InState("runnable") \cup woken) \cap gwaits = {}
        /\ (InState("runnable") \cup woken \cup gwaits) \cap waits = {}
  BY <1>4, <1>5, <1>6, <1>9 DEF InState
<1> HIDE DEF woken, wakes, gwaits, waits
<1>11. ToSet(w \o wakes \o Waiting(joiner[f])) = all
  <2>1. Lists(w \o wakes, woken \cup gwaits)
    BY <1>7, <1>9, ListsJoined
  <2>2. Lists(w \o wakes \o Waiting(joiner[f]), all)
    BY <1>7, <1>9, <2>1, ListsJoined
  <2> QED
    BY <2>2 DEF Lists
<1>12. Lists(runq', InState("runnable") \cup all)
  <2>1. Lists(runq \o w, InState("runnable") \cup woken)
    BY <1>7, <1>10, ListsJoined DEF Queued
  <2>2. Lists(runq \o w \o wakes, InState("runnable") \cup woken \cup gwaits)
    BY <1>7, <1>10, <2>1, ListsJoined
  <2>3. Lists(runq \o w \o wakes \o Waiting(joiner[f]),
              InState("runnable") \cup woken \cup gwaits \cup waits)
    BY <1>7, <1>10, <2>2, ListsJoined
  <2>4. InState("runnable") \cup woken \cup gwaits \cup waits
          = InState("runnable") \cup all
    OBVIOUS
  <2> QED
    BY <1>1, <2>3, <2>4
<1>13. \A h \in Fibers : state'[h] = IF h = f THEN "done"
                                     ELSE IF h \in all THEN "runnable"
                                     ELSE state[h]
  BY <1>1, <1>11 DEF Enqueued
<1> HIDE DEF all
<1>14. Lists(runq, InState("runnable"))'
  <2>1. InState("runnable")' = InState("runnable") \cup all
    BY <1>3, <1>8, <1>13 DEF InState
  <2> QED
    BY <1>12, <2>1
<1>15. Lists(sleepq, InState("sleeping"))'
  <2>1. ToSet(sleepq) = InState("sleeping")
    BY DEF Queued, Lists
  <2>2. InState("sleeping")' = InState("sleeping") \ woken
    BY <1>3, <1>4, <1>5, <1>6, <1>13 DEF InState, all
  <2>3. IsFiniteSet(InState("sleeping") \ woken)
    BY FS_Subset, SchedulerAssumption DEF InState
  <2>4. sleepq' \in SetToSeqs(InState("sleeping") \ woken)
    BY <1>2, <2>1 DEF SleepRemove, InOrder
  <2> QED
    BY <2>2, <2>3, <2>4, ListsSet
<1>16. SleepSorted'
  <2>1. SleepSorted /\ SleepRemove(woken) /\ UNCHANGED deadline
    BY <1>2 DEF Queued
  <2> QED
    BY <2>1, RemovedSorted, Zenon
<1>17. Registered' /\ WaitsOnFd'
  <2>1. \A h \in Fibers :
           state'[h] = "io" <=> state[h] = "io" /\ h \notin woken
    BY <1>3, <1>5, <1>6, <1>13 DEF all
  <2> QED
    BY <1>2, <1>4, <2>1, ForgetsRegistered DEF Queued
<1>18. Running'
  BY <1>2, <1>3, <1>8, <1>13 DEF Queued, Running
<1>19. /\ \A h \in Fibers : h # f => pc'[h] = pc[h] /\ subject'[h] = subject[h]
       /\ \A t \in Fibers : joiner'[t] = IF t = f THEN None ELSE joiner[t]
       /\ \A k \in Groups : gjoiner'[k] = IF empty /\ k = g THEN None
                                          ELSE gjoiner[k]
  BY <1>2 DEF Continue, IInv, TypeOK, SchedTypeOK, GroupTypeOK, SubjectOK
<1>20. JoinersPark'
  <2> SUFFICES ASSUME NEW t \in Fibers, NEW j \in Fibers, joiner'[t] = j
               PROVE  state'[j] = "joining" /\ pc'[j] = "value"
                        /\ subject'[j] = t
    BY DEF JoinersPark
  <2>1. t # f /\ joiner[t] = j
    BY <1>19, SchedulerAssumption
  <2>2. state[j] = "joining" /\ pc[j] = "value" /\ subject[j] = t
    BY <2>1 DEF Queued, JoinersPark
  <2>3. j # f /\ j \notin all
    BY <1>3, <1>4, <1>5, <1>6, <2>1, <2>2 DEF all
  <2> QED
    BY <1>13, <1>19, <2>2, <2>3
<1>21. GroupJoinersPark'
  <2> SUFFICES ASSUME NEW k \in Groups, NEW j \in Fibers, gjoiner'[k] = j
               PROVE  state'[j] = "joining" /\ pc'[j] = "gjoin"
                        /\ subject'[j] = k
    BY DEF GroupJoinersPark
  <2>1. ~(empty /\ k = g) /\ gjoiner[k] = j
    BY <1>19, SchedulerAssumption
  <2>2. state[j] = "joining" /\ pc[j] = "gjoin" /\ subject[j] = k
    BY <2>1 DEF Queued, GroupJoinersPark
  <2>3. j # f /\ j \notin all
    BY <1>3, <1>4, <1>5, <1>6, <2>1, <2>2 DEF all, gwaits
  <2> QED
    BY <1>13, <1>19, <2>2, <2>3
<1>22. \A h \in Fibers : state[h] = "done" => state'[h] = "done"
  BY <1>8, <1>13
<1> QED
  BY <1>14, <1>15, <1>16, <1>17, <1>18, <1>20, <1>21, <1>22 DEF Queued

\* reschedule takes the first of the run queue.
LEMMA DispatchQueued ==
    ASSUME IInv, Queued, Dispatch, UNCHANGED <<taskVars, groupVars, progVars>>
    PROVE  Queued'
<1> DEFINE f == Head(runq)
<1>1. /\ runq # <<>> /\ parked /\ current' = f /\ runq' = Tail(runq)
      /\ parked' = FALSE
      /\ UNCHANGED <<pc, subject, sleepVars, ioVars, joiner, gjoiner>>
  BY DEF Dispatch, taskVars, groupVars
<1>2. f \in InState("runnable")
        /\ Lists(Tail(runq), InState("runnable") \ {f})
  BY <1>1, ListsTail DEF Queued
<1> HIDE DEF f
<1>3. f \in Fibers /\ state[f] = "runnable"
  BY <1>2 DEF InState
<1>4. \A h \in Fibers : state'[h] = IF h = f THEN "running" ELSE state[h]
  BY DEF Dispatch, IInv, TypeOK, SchedTypeOK, f
<1>5. InState("runnable")' = InState("runnable") \ {f}
        /\ InState("sleeping")' = InState("sleeping")
  BY <1>3, <1>4 DEF InState
<1>6. Lists(runq, InState("runnable"))' /\ Lists(sleepq, InState("sleeping"))'
        /\ SleepSorted'
  BY <1>1, <1>2, <1>5 DEF Queued, SleepSorted, sleepVars
<1>7. Registered' /\ WaitsOnFd' /\ Running'
  BY <1>1, <1>3, <1>4 DEF Queued, Registered, WaitsOnFd, Running, ioVars
<1>8. JoinersPark' /\ GroupJoinersPark'
  BY <1>1, <1>3, <1>4 DEF Queued, JoinersPark, GroupJoinersPark
<1> QED
  BY <1>6, <1>7, <1>8 DEF Queued

\* A poll moves the readers it has events for and the first sleepers.
LEMMA PollQueued ==
    ASSUME IInv, Queued, Poll, UNCHANGED <<taskVars, groupVars, progVars>>
    PROVE  /\ Queued'
           /\ \A h \in Fibers : state[h] = "done" => state'[h] = "done"
<1>1. PICK W \in SUBSET ioq, n \in 0..Len(sleepq) :
          /\ \E w \in SetToSeqs(W) : runq' = w \o SubSeq(sleepq, 1, n)
          /\ state' = Enqueued(state, runq')
          /\ Forget(W)
          /\ sleepq' = SubSeq(sleepq, n + 1, Len(sleepq))
  BY DEF Poll
<1>2. PICK w \in SetToSeqs(W) : runq' = w \o SubSeq(sleepq, 1, n)
  BY <1>1
<1>3. parked /\ runq = <<>>
        /\ UNCHANGED <<current, parked, pc, subject, deadline, joiner, gjoiner>>
  BY DEF Poll, taskVars, groupVars
<1> DEFINE due == ToSet(SubSeq(sleepq, 1, n))
<1>4. /\ Lists(SubSeq(sleepq, 1, n), due)
      /\ Lists(sleepq', InState("sleeping") \ due)
      /\ due \subseteq InState("sleeping")
  BY <1>1, ListsParted DEF Queued
<1>5. W \subseteq Fibers /\ \A h \in W : state[h] = "io"
  BY DEF Queued, Registered, IInv, TypeOK, SchedTypeOK
<1>6. Lists(w, W)
  <2>1. IsFiniteSet(W)
    BY <1>5, FS_Subset, SchedulerAssumption
  <2> QED
    BY <2>1, ListsSet
<1> HIDE DEF due
<1>7. W \cap due = {}
  BY <1>4, <1>5 DEF InState
<1>8. Lists(runq', W \cup due)
  BY <1>2, <1>4, <1>6, <1>7, ListsJoined
<1>9. ToSet(runq') = W \cup due
  BY <1>8 DEF Lists
<1>10. \A h \in Fibers :
         state'[h] = IF h \in W \cup due THEN "runnable" ELSE state[h]
  BY <1>1, <1>9 DEF Enqueued
<1>11. \A h \in W \cup due : h \in Fibers /\ state[h] \in {"io", "sleeping"}
  BY <1>4, <1>5 DEF InState
<1>12. InState("runnable") = {}
  BY <1>3 DEF Queued, Lists, ToSet
<1>13. InState("runnable")' = W \cup due
         /\ InState("sleeping")' = InState("sleeping") \ due
  BY <1>4, <1>5, <1>10, <1>11, <1>12 DEF InState
<1>14. Lists(runq, InState("runnable"))' /\ Lists(sleepq, InState("sleeping"))'
  BY <1>4, <1>8, <1>13
<1>15. SleepSorted'
  <2>1. sleepq \in Seq(Fibers) /\ Len(sleepq) \in Nat
          /\ DOMAIN sleepq = 1..Len(sleepq)
    <3>1. sleepq \in Seq(Fibers)
      BY DEF IInv, TypeOK, SchedTypeOK
    <3> QED
      BY <3>1
  <2>2. \A i \in DOMAIN sleepq' :
           n + i \in DOMAIN sleepq /\ sleepq'[i] = sleepq[n + i] /\ i \in Int
    BY <1>1, <2>1
  <2> QED
    BY <1>3, <2>2 DEF Queued, SleepSorted
<1>16. Registered' /\ WaitsOnFd'
  <2>1. \A h \in Fibers : state'[h] = "io" <=> state[h] = "io" /\ h \notin W
    BY <1>4, <1>5, <1>10, <1>11 DEF InState
  <2> QED
    BY <1>1, <1>5, <2>1, ForgetsRegistered DEF Queued
<1>17. Running'
  BY <1>3, <1>10, <1>11 DEF Queued, Running
<1>18. JoinersPark' /\ GroupJoinersPark'
  BY <1>3, <1>10, <1>11 DEF Queued, JoinersPark, GroupJoinersPark
<1>19. \A h \in Fibers : state[h] = "done" => state'[h] = "done"
  BY <1>10, <1>11
<1> QED
  BY <1>14, <1>15, <1>16, <1>17, <1>18, <1>19 DEF Queued

\* The other steps of the running fiber change what it goes on with and
\* nothing the lists depend on.
LEMMA GoesOnQueued ==
    ASSUME IInv, Queued, NEW f \in Fibers,
           \/ TaskReadsOn(f) \/ TaskPanics(f) \/ OpenGroup(f) \/ PopsGroup(f)
           \/ Gather(f) \/ JoinReturns(f) \/ Value(f) \/ ValueReturns(f),
           Runs(f)
    PROVE  Queued'
<1>1. state[f] = "running"
  BY DEF Runs, Queued, Running
<1>2. UNCHANGED <<current, parked, state, runq, sleepVars, ioVars, joiner,
                  gjoiner>>
  BY DEF TaskReadsOn, Read, TaskPanics, OpenGroup, PopsGroup, Gather,
         JoinReturns, Value, ValueReturns, schedVars, quietVars, taskVars,
         groupVars
<1>3. \A h \in Fibers : h # f => pc'[h] = pc[h] /\ subject'[h] = subject[h]
  <2>1. CASE OpenGroup(f)
    BY <2>1 DEF OpenGroup, schedVars
  <2>2. CASE \E step, what : Continue(f, step, what)
    BY <2>2 DEF Continue, IInv, TypeOK, SchedTypeOK, GroupTypeOK, SubjectOK
  <2>3. CASE TaskPanics(f)
    BY <2>2, <2>3 DEF TaskPanics, Raise
  <2>4. CASE JoinReturns(f)
    BY <2>2, <2>4, Zenon DEF JoinReturns, Raise
  <2> QED
    BY <2>1, <2>2, <2>3, <2>4
       DEF TaskReadsOn, Read, PopsGroup, Gather, Value, ValueReturns
<1> QED
  BY <1>1, <1>2, <1>3, Untouched

\* Only the fiber on the processor takes a step.
LEMMA StepRuns ==
    ASSUME NEW f, FiberStep(f)
    PROVE  Runs(f)
  BY DEF FiberStep, TaskSleeps, TaskReads, TaskReadsOn, Read, TaskPanics,
         OpenGroup, Spawn, LeaveGroup, Gather, JoinParks, JoinReturns, Value,
         ValueParks, ValueReturns, TaskReturns, DrainGroup, TaskDies, Drained,
         Starts, InUser

\* Every step of a fiber's program keeps the lists.
LEMMA FiberStepQueued ==
    ASSUME IInv, Queued, NEW f \in Fibers, FiberStep(f)
    PROVE  Queued'
<1>1. Runs(f)
  BY StepRuns
<1>2. CASE TaskReturns(f) \/ TaskDies(f)
  <2>1. group[f] \in Groups
    BY <1>1, <1>2 DEF TaskReturns, TaskDies, Runs, IInv, Placed, Made
  <2>2. (~cancelled[f]) \in BOOLEAN
        /\ \A isError \in BOOLEAN : (isError /\ ~cancelled[f]) \in BOOLEAN
    BY DEF IInv, TypeOK, SchedTypeOK
  <2>3. CASE TaskReturns(f)
    BY <1>1, <2>1, <2>2, <2>3, CompleteQueued DEF TaskReturns
  <2>4. CASE TaskDies(f)
    BY <1>1, <2>1, <2>2, <2>4, CompleteQueued DEF TaskDies
  <2> QED
    BY <1>2, <2>3, <2>4
<1>3. CASE \/ TaskReadsOn(f) \/ TaskPanics(f) \/ OpenGroup(f) \/ PopsGroup(f)
           \/ Gather(f) \/ JoinReturns(f) \/ Value(f) \/ ValueReturns(f)
  BY <1>1, <1>3, GoesOnQueued
<1> QED
  BY <1>2, <1>3, SleepsQueued, ReadsQueued, SpawnsQueued, JoinParksQueued,
     ValueParksQueued DEF FiberStep, LeaveGroup, DrainGroup

\* Only the deadlock itself is told on a stack.
LEMMA StallsOnly ==
    ASSUME [Next]_vars
    PROVE  Stall \/ UNCHANGED stalls
<1>1. CASE \E f \in Fibers : FiberStep(f)
  <2>1. PICK f \in Fibers : FiberStep(f)
    BY <1>1
  <2>2. CASE TaskReturns(f) \/ TaskDies(f)
    BY <2>2 DEF TaskReturns, TaskDies, Complete, endVars
  <2>3. CASE TaskSleeps(f) \/ TaskReads(f)
    BY <2>3 DEF TaskSleeps, Sleep, TaskReads, WaitReadable, schedVars,
                endVars
  <2>4. CASE ~(TaskReturns(f) \/ TaskDies(f) \/ TaskSleeps(f) \/ TaskReads(f))
    BY <2>1, <2>4
       DEF FiberStep, TaskReadsOn, Read, TaskPanics, OpenGroup, Spawn,
           LeaveGroup, Gather, JoinParks, JoinReturns, Value, ValueParks,
           ValueReturns, DrainGroup, PopsGroup, schedVars, endVars,
           quietVars
  <2> QED
    BY <2>2, <2>3, <2>4
<1>2. CASE Dispatch \/ Poll
  BY <1>2 DEF Dispatch, Poll, endVars
<1>3. CASE \/ Passes \/ MainReturns \/ MainDies \/ Over \/ UNCHANGED vars
           \/ \E fd \in Fds : Answers(fd)
  BY <1>3 DEF Passes, Tick, MainReturns, MainDies, Exit, Over, Answers,
              Arrive, vars, schedVars, endVars
<1> QED
  BY <1>1, <1>2, <1>3 DEF Next, Runtime, Reschedules

\* Once a deadlock has been told, it has been told.
LEMMA StalledStays ==
    ASSUME IInv, [Next]_vars, ~stalled'
    PROVE  ~stalled
<1>1. CASE UNCHANGED stalls
  BY <1>1 DEF stalled
<1>2. CASE Stall
  <2>1. stalls \in [Fibers -> 0..StackDepth] /\ StackDepth \in Nat
    BY SchedulerAssumption DEF IInv, TypeOK, SchedTypeOK
  <2>2. \/ UNCHANGED stalls
        \/ stalls' = [stalls EXCEPT ![current] = @ + 1]
    BY <1>2 DEF Stall
  <2>3. \A f \in Fibers : stalls[f] > 0 => stalls'[f] > 0
    BY <2>1, <2>2
  <2> QED
    BY <2>3 DEF stalled
<1> QED
  BY <1>1, <1>2, StallsOnly

\* A deadlock that finds room on the stack is told.
LEMMA StallTold ==
    ASSUME IInv, Stall, ~stalled'
    PROVE  ~(stalls[current] < StackDepth)
<1> SUFFICES ASSUME stalls[current] < StackDepth PROVE FALSE
  OBVIOUS
<1>1. current \in Fibers /\ stalls \in [Fibers -> 0..StackDepth]
        /\ StackDepth \in Nat
  BY SchedulerAssumption DEF IInv, TypeOK, SchedTypeOK
<1>2. stalls' = [stalls EXCEPT ![current] = @ + 1]
  <2>1. stalls[current] # StackDepth
    BY <1>1
  <2> QED
    BY <2>1 DEF Stall
<1>3. stalls'[current] > 0
  BY <1>1, <1>2
<1> QED
  BY <1>1, <1>3 DEF stalled

\* The invariant is inductive.
LEMMA NextQueued ==
    ASSUME IInv, QInv, [Next]_vars
    PROVE  QInv'
<1> SUFFICES ASSUME ~stalled' PROVE Queued'
  BY DEF QInv
<1>1. Queued
  BY StalledStays DEF QInv
<1>2. CASE \E f \in Fibers : FiberStep(f)
  BY <1>1, <1>2, FiberStepQueued
<1>3. CASE Reschedules
  <2>1. CASE Stall
    <3>1. ~(stalls[current] < StackDepth)
      BY <2>1, StallTold
    <3>2. UNCHANGED <<current, parked, state, pc, subject, runq, sleepVars,
                      ioVars>>
      BY <2>1, <3>1 DEF Stall
    <3> QED
      BY <1>1, <1>3, <3>2, Untouched DEF Reschedules, taskVars, groupVars
  <2> QED
    BY <1>1, <1>3, <2>1, DispatchQueued, PollQueued DEF Reschedules
<1>4. CASE \/ Passes \/ MainReturns \/ MainDies \/ Over \/ UNCHANGED vars
           \/ \E fd \in Fds : Answers(fd)
  <2>1. UNCHANGED <<current, parked, state, pc, subject, runq, sleepVars,
                    ioVars, joiner, gjoiner>>
    BY <1>4 DEF Passes, Tick, MainReturns, MainDies, Exit, Over, Answers,
                Arrive, vars, schedVars, taskVars, groupVars
  <2> QED
    BY <1>1, <2>1, Untouched
<1> QED
  BY <1>2, <1>3, <1>4 DEF Next, Runtime

\* The invariant holds in every reachable state.
LEMMA InductiveQueues == Spec => [](IInv /\ QInv)
<1>1. Init => QInv
  BY InitQueued DEF QInv
<1> QED
  BY <1>1, NextQueued, Inductive, PTL DEF Spec

\* Until a deadlock is told, whatever the program: a fiber is on the list
\* its state names, once, and on no other; sleepers are in the order of
\* their deadlines; the epoll set is what the parked readers wait for.
THEOREM QueuesAreExact == Spec => []QueueExact
  BY InductiveQueues, QueuedIsExact, PTL

-----------------------------------------------------------------------------
(* A fiber that is done is on no list, joins nobody and runs no more. *)

FinalStep(h) ==
    /\ state'[h] = "done" /\ cancelled'[h] = cancelled[h]
    /\ panicked'[h] = panicked[h]

\* The end of another task.
LEMMA CompleteIsFinal ==
    ASSUME IInv, Queued, NEW f \in Fibers, Runs(f), group[f] \in Groups,
           NEW isFailure \in BOOLEAN, Complete(f, isFailure),
           NEW h \in Fibers, state[h] = "done"
    PROVE  FinalStep(h)
<1>1. state'[h] = "done"
  BY CompleteQueued
<1>2. cancelled'[h] = cancelled[h]
  BY DEF Complete, Flagged, IInv, TypeOK, SchedTypeOK
<1>3. panicked'[h] = panicked[h]
  BY DEF Complete
<1> QED
  BY <1>1, <1>2, <1>3 DEF FinalStep

\* Any step of a running fiber.
LEMMA FiberStepIsFinal ==
    ASSUME IInv, Queued, NEW f \in Fibers, FiberStep(f),
           NEW h \in Fibers, state[h] = "done"
    PROVE  FinalStep(h)
<1>1. Runs(f)
  BY StepRuns
<1>2. f # h
  BY <1>1 DEF Runs, Queued, Running
<1>3. CASE TaskReturns(f) \/ TaskDies(f)
  <2>1. group[f] \in Groups
    BY <1>1, <1>3 DEF TaskReturns, TaskDies, Runs, IInv, Placed, Made
  <2>2. (~cancelled[f]) \in BOOLEAN
        /\ \A isError \in BOOLEAN : (isError /\ ~cancelled[f]) \in BOOLEAN
    BY DEF IInv, TypeOK, SchedTypeOK
  <2>3. CASE TaskReturns(f)
    BY <1>1, <2>1, <2>2, <2>3, CompleteIsFinal DEF TaskReturns
  <2>4. CASE TaskDies(f)
    BY <1>1, <2>1, <2>2, <2>4, CompleteIsFinal DEF TaskDies
  <2> QED
    BY <1>3, <2>3, <2>4
<1> USE DEF FinalStep, IInv, TypeOK, SchedTypeOK
<1>4. CASE TaskSleeps(f)
  BY <1>2, <1>4 DEF TaskSleeps, Sleep, Parks, schedVars
<1>5. CASE TaskReads(f)
  BY <1>2, <1>5 DEF TaskReads, WaitReadable, Raise, Parks, schedVars
<1>6. CASE TaskReadsOn(f) \/ TaskPanics(f) \/ OpenGroup(f)
  BY <1>2, <1>6 DEF TaskReadsOn, Read, TaskPanics, Raise, OpenGroup, schedVars
<1>7. CASE Spawn(f)
  <2>1. PICK c \in Fibers : state[c] = "new" /\ state' = Enqueued(state, <<c>>)
    BY <1>7 DEF Spawn
  <2>2. h \notin ToSet(<<c>>)
    <3>1. ToSet(<<c>>) = {c}
      BY ListsOne DEF Lists
    <3> QED
      BY <2>1, <3>1
  <2> QED
    BY <1>7, <2>1, <2>2 DEF Spawn, Enqueued
<1>8. CASE LeaveGroup(f) \/ DrainGroup(f) \/ Gather(f)
  BY <1>8 DEF LeaveGroup, DrainGroup, PopsGroup, Gather
<1>9. CASE JoinReturns(f)
  <2>1. UNCHANGED <<state, cancelled>>
    BY <1>9 DEF JoinReturns
  <2>2. UNCHANGED panicked \/ panicked' = [panicked EXCEPT ![f] = TRUE]
    BY <1>9 DEF JoinReturns, Raise
  <2> QED
    BY <1>2, <2>1, <2>2
<1>10. CASE JoinParks(f)
  BY <1>2, <1>10 DEF JoinParks, Parks
<1>11. CASE Value(f) \/ ValueReturns(f)
  BY <1>11 DEF Value, ValueReturns
<1>12. CASE ValueParks(f)
  BY <1>2, <1>12 DEF ValueParks, Parks, Raise
<1> QED
  BY <1>3, <1>4, <1>5, <1>6, <1>7, <1>8, <1>9, <1>10, <1>11, <1>12
     DEF FiberStep

\* Any step until a deadlock is told.
LEMMA NextIsFinal ==
    ASSUME IInv, QInv, [Next]_vars, ~stalled', NEW h \in Fibers,
           state[h] = "done"
    PROVE  FinalStep(h)
<1>1. Queued
  BY StalledStays DEF QInv
<1>2. CASE \E f \in Fibers : FiberStep(f)
  BY <1>1, <1>2, FiberStepIsFinal
<1>3. CASE Dispatch
  <2>1. Head(runq) \in InState("runnable")
    BY <1>1, <1>3, ListsTail DEF Queued, Dispatch
  <2> QED
    BY <1>3, <2>1 DEF Dispatch, InState, FinalStep, IInv, TypeOK, SchedTypeOK
<1>4. CASE Poll /\ UNCHANGED <<taskVars, groupVars, progVars>>
  <2>1. state'[h] = "done"
    BY <1>1, <1>4, PollQueued
  <2> QED
    BY <1>4, <2>1 DEF Poll, FinalStep
<1>5. CASE Stall
  <2>1. ~(stalls[current] < StackDepth)
    BY <1>5, StallTold
  <2> QED
    BY <1>5, <2>1 DEF Stall, FinalStep
<1>6. CASE \/ Passes \/ MainReturns \/ MainDies \/ Over \/ UNCHANGED vars
           \/ \E fd \in Fds : Answers(fd)
  BY <1>6 DEF Passes, Tick, MainReturns, MainDies, Exit, Over, Answers,
              Arrive, vars, schedVars, FinalStep
<1> QED
  BY <1>2, <1>3, <1>4, <1>5, <1>6 DEF Next, Runtime, Reschedules

\* State 6 is final: no wake, join or cancellation touches a fiber that is
\* done.
THEOREM DoneStaysDone == Spec => DoneIsFinal
<1>1. IInv /\ QInv /\ [Next]_vars
        => [\A f \in Fibers : state[f] = "done" /\ ~stalled' =>
              /\ state'[f] = "done" /\ cancelled'[f] = cancelled[f]
              /\ panicked'[f] = panicked[f]]_vars
  BY NextIsFinal DEF FinalStep
<1> QED
  BY <1>1, InductiveQueues, PTL DEF Spec, DoneIsFinal


-----------------------------------------------------------------------------
(***************************************************************************)
(* A scope can be left only by its join, and the join's condition is about *)
(* a counter.  The argument is that the counter counts the group's own     *)
(* tasks, that a group is on the registry of its owner or being joined by  *)
(* it or left for good, and that nobody can spawn into one that is left:   *)
(* its owner does not name it and its tasks are done.                      *)
(***************************************************************************)

\* f has the group on its registry, or joins it.
Inside(f, g) ==
    \/ g \in ToSet(scopes[f])
    \/ pc[f] = "gjoin" /\ subject[f] = g

\* The group's owner is through with it.
Gone(g) == owner[g] # None /\ ~Inside(owner[g], g)

Undone(g) == {c \in ToSet(children[g]) : state[c] # "done"}

\* A fiber is a child of the one group it was spawned into.
ChildrenOwn ==
    \A c \in Fibers, g \in Groups : c \in ToSet(children[g]) <=> group[c] = g

Unmade == \A c \in Fibers : state[c] = "new" => group[c] = None

\* Tasks are spawned into groups that were opened.
Opened == \A c \in Fibers : group[c] # None => owner[group[c]] # None

InsideOwns ==
    \A f \in Fibers, g \in Groups : Inside(f, g) => owner[g] = f

Counted == \A g \in Groups : live[g] = Cardinality(Undone(g))

Blamed == \A f \in Fibers : cancelled[f] =>
    /\ group[f] # None /\ failed[group[f]]
    /\ \E c \in ToSet(children[group[f]]) : state[c] = "done"

\* A panic that was delivered was read, or taken to the group's owner.
Passed == \A c \in Fibers : delivered[c] =>
    c \in caught \/ (group[c] # None /\ panicked[owner[group[c]]])

GoneDone == \A g \in Groups : Gone(g) => Undone(g) = {}

GoneLoud == \A g \in Groups : Gone(g) =>
    \A c \in ToSet(children[g]) :
        panicked[c] => c \in caught \/ panicked[owner[g]]

Scoped ==
    /\ ChildrenOwn
    /\ Unmade
    /\ Opened
    /\ InsideOwns
    /\ Counted
    /\ Blamed
    /\ Passed
    /\ GoneDone
    /\ GoneLoud

SInv == ~stalled => Scoped

\* A group's tasks are fibers.
LEMMA ChildrenType ==
    ASSUME IInv, NEW g \in Groups
    PROVE  ToSet(children[g]) \subseteq Fibers /\ IsFiniteSet(Undone(g))
<1>1. children[g] \in Seq(Fibers)
  BY DEF IInv, TypeOK, GroupTypeOK
<1>2. ToSet(children[g]) \subseteq Fibers
  BY <1>1, ElementsOf
<1>3. Undone(g) \subseteq Fibers
  BY <1>2 DEF Undone
<1> QED
  BY <1>2, <1>3, FS_Subset, SchedulerAssumption

\* At first there are no groups.
LEMMA InitScoped == Init => Scoped
<1> SUFFICES ASSUME Init PROVE Scoped
  OBVIOUS
<1> USE DEF Init, SchedInit, GroupInit
<1>1. \A g \in Groups : ToSet(children[g]) = {} /\ Undone(g) = {}
  <2>1. ToSet(<<>>) = {}
    BY DEF ToSet
  <2> QED
    BY <2>1 DEF Undone
<1>2. ChildrenOwn /\ Unmade /\ Opened
  BY <1>1, GroupAssumption DEF ChildrenOwn, Unmade, Opened
<1>3. InsideOwns
  <2>1. ToSet(<<>>) = {}
    BY DEF ToSet
  <2> QED
    BY <2>1 DEF InsideOwns, Inside
<1>4. Counted
  BY <1>1, FS_EmptySet DEF Counted
<1>5. Blamed /\ Passed
  BY DEF Blamed, Passed
<1>6. GoneDone /\ GoneLoud
  BY DEF GoneDone, GoneLoud, Gone
<1> QED
  BY <1>2, <1>3, <1>4, <1>5, <1>6 DEF Scoped

\* A step that ends no task, opens and leaves no group and reads no value.
Calm ==
    /\ UNCHANGED <<group, owner, children, live, failed, cancelled, caught,
                   delivered>>
    /\ \A f \in Fibers : /\ state'[f] = "done" <=> state[f] = "done"
                         /\ state'[f] = "new" => state[f] = "new"
                         /\ panicked[f] => panicked'[f]
                         /\ state[f] = "done" => panicked'[f] = panicked[f]
    /\ \A f \in Fibers, g \in Groups : Inside(f, g)' <=> Inside(f, g)

\* A calm step disturbs no part of the invariant.
LEMMA CalmScoped ==
    ASSUME IInv, Scoped, Calm
    PROVE  Scoped'
<1>1. UNCHANGED <<group, owner, children, live, failed, cancelled, caught,
                  delivered>>
  BY DEF Calm
<1>2. \A f \in Fibers : /\ state'[f] = "done" <=> state[f] = "done"
                        /\ state'[f] = "new" => state[f] = "new"
                        /\ panicked[f] => panicked'[f]
                        /\ state[f] = "done" => panicked'[f] = panicked[f]
  BY DEF Calm
<1>3. \A f \in Fibers, g \in Groups : Inside(f, g)' <=> Inside(f, g)
  BY DEF Calm
<1>4. \A g \in Groups : owner[g] # None => owner[g] \in Fibers
  BY DEF IInv, TypeOK, GroupTypeOK
<1>5. \A c \in Fibers : group[c] # None => group[c] \in Groups
  BY DEF IInv, TypeOK, GroupTypeOK
<1>6. \A g \in Groups : ToSet(children[g]) \subseteq Fibers
  BY ChildrenType
<1>7. \A g \in Groups : Undone(g)' = Undone(g)
  BY <1>1, <1>2, <1>6 DEF Undone
<1>8. \A g \in Groups : Gone(g)' <=> Gone(g)
  BY <1>1, <1>3, <1>4 DEF Gone
<1>9. ChildrenOwn' /\ Unmade' /\ Opened'
  BY <1>1, <1>2 DEF Scoped, ChildrenOwn, Unmade, Opened
<1>10. InsideOwns'
  BY <1>1, <1>3 DEF Scoped, InsideOwns
<1>11. Counted'
  BY <1>1, <1>7 DEF Scoped, Counted
<1>12. Blamed'
  BY <1>1, <1>2, <1>5, <1>6 DEF Scoped, Blamed
<1>13. Passed'
  BY <1>1, <1>2, <1>4, <1>5 DEF Scoped, Passed, Opened
<1>14. GoneDone'
  BY <1>7, <1>8 DEF Scoped, GoneDone
<1>15. GoneLoud'
  <2> SUFFICES ASSUME NEW g \in Groups, Gone(g)', NEW c \in ToSet(children[g]),
                      panicked'[c]
               PROVE  c \in caught \/ panicked'[owner[g]]
    BY <1>1 DEF GoneLoud
  <2>1. Gone(g) /\ owner[g] \in Fibers /\ c \in Fibers
    BY <1>4, <1>6, <1>8 DEF Gone
  <2>2. state[c] = "done"
    BY <2>1 DEF Scoped, GoneDone, Undone
  <2>3. panicked[c]
    BY <1>2, <2>1, <2>2
  <2> QED
    BY <1>2, <2>1, <2>3 DEF Scoped, GoneLoud
<1> QED
  BY <1>9, <1>10, <1>11, <1>12, <1>13, <1>14, <1>15 DEF Scoped

\* A fiber that goes on with anything but a join leaves no group.
LEMMA InsideSame ==
    ASSUME IInv, NEW f \in Fibers, pc[f] # "gjoin",
           UNCHANGED scopes,
           \/ UNCHANGED <<pc, subject>>
           \/ Raise(f)
           \/ \E step, what : step # "gjoin" /\ Continue(f, step, what)
    PROVE  \A h \in Fibers, g \in Groups : Inside(h, g)' <=> Inside(h, g)
<1>1. CASE UNCHANGED <<pc, subject>>
  BY <1>1 DEF Inside
<1>2. ASSUME NEW step, NEW what, step # "gjoin", Continue(f, step, what)
      PROVE  \A h \in Fibers, g \in Groups : Inside(h, g)' <=> Inside(h, g)
  BY <1>2 DEF Inside, Continue, IInv, TypeOK, SchedTypeOK, GroupTypeOK,
              SubjectOK
<1>3. CASE Raise(f)
  BY <1>2, <1>3 DEF Raise
<1> QED
  BY <1>1, <1>2, <1>3

\* Leaving or joining one's innermost group, one is still inside it.
LEMMA InsidePops ==
    ASSUME IInv, NEW f \in Fibers, pc[f] # "gjoin",
           PopsGroup(f) \/ Gather(f)
    PROVE  \A h \in Fibers, g \in Groups : Inside(h, g)' <=> Inside(h, g)
<1>1. scopes[f] \in Seq(Groups) /\ scopes[f] # <<>>
  BY DEF IInv, TypeOK, GroupTypeOK, PopsGroup, Gather
<1> DEFINE k == Head(scopes[f])
<1>2. ToSet(scopes[f]) = {k} \cup ToSet(Tail(scopes[f])) /\ k \in Groups
  <2> DEFINE s == scopes[f]
             t == Tail(s)
  <2>1. /\ Len(s) \in Nat /\ Len(s) > 0 /\ DOMAIN s = 1..Len(s)
        /\ DOMAIN t = 1..(Len(s) - 1) /\ k = s[1] /\ k \in Groups
        /\ \A i \in 1..(Len(s) - 1) : t[i] = s[i + 1]
    BY <1>1
  <2> HIDE DEF s, t, k
  <2>2. \A i \in DOMAIN t : i + 1 \in DOMAIN s /\ t[i] = s[i + 1]
    BY <2>1
  <2>3. \A i \in DOMAIN s : s[i] = k \/ (i - 1 \in DOMAIN t /\ s[i] = t[i - 1])
    BY <2>1
  <2>4. 1 \in DOMAIN s /\ s[1] = k
    BY <2>1
  <2>5. ToSet(s) = {k} \cup ToSet(t)
    <3>1. ToSet(s) \subseteq {k} \cup ToSet(t)
      BY <2>3, Zenon DEF ToSet
    <3>2. ToSet(t) \subseteq ToSet(s)
      BY <2>2, Zenon DEF ToSet
    <3>3. k \in ToSet(s)
      BY <2>4, Zenon DEF ToSet
    <3> QED
      BY <3>1, <3>2, <3>3
  <2> QED
    BY <2>1, <2>5 DEF s, t, k
<1>3. Continue(f, "gjoin", k)
  BY DEF PopsGroup, Gather
<1> HIDE DEF k
<1>4. /\ \A h \in Fibers : pc'[h] = IF h = f THEN "gjoin" ELSE pc[h]
      /\ \A h \in Fibers : subject'[h] = IF h = f THEN k ELSE subject[h]
  BY <1>3 DEF Continue, IInv, TypeOK, SchedTypeOK, GroupTypeOK, SubjectOK
<1>5. CASE Gather(f)
  BY <1>2, <1>4, <1>5 DEF Gather, Inside
<1>6. CASE PopsGroup(f)
  <2>1. \A h \in Fibers :
           scopes'[h] = IF h = f THEN Tail(scopes[f]) ELSE scopes[h]
    BY <1>6 DEF PopsGroup, IInv, TypeOK, GroupTypeOK
  <2> QED
    BY <1>2, <1>4, <2>1 DEF Inside
<1> QED
  BY <1>5, <1>6

\* The steps of a fiber that are calm.
LEMMA FiberCalm ==
    ASSUME IInv, Queued, NEW f \in Fibers,
           \/ TaskSleeps(f) \/ TaskReads(f) \/ TaskReadsOn(f) \/ TaskPanics(f)
           \/ LeaveGroup(f) \/ DrainGroup(f) \/ Gather(f) \/ JoinParks(f)
           \/ Value(f) \/ ValueParks(f)
    PROVE  Calm
<1>1. FiberStep(f) /\ Runs(f)
  BY StepRuns DEF FiberStep
<1>2. /\ UNCHANGED <<group, owner, children, live, failed, cancelled, caught,
                     delivered>>
  BY DEF TaskSleeps, Sleep, TaskReads, WaitReadable, TaskReadsOn, Read,
         TaskPanics, LeaveGroup, DrainGroup, PopsGroup, Gather, JoinParks,
         Value, ValueParks, schedVars, taskVars, groupVars, quietVars
<1>3. \A h \in Fibers : state[h] = "done" => FinalStep(h)
  BY <1>1, FiberStepIsFinal
<1>4. \A h \in Fibers : /\ state'[h] = "done" => state[h] = "done"
                        /\ state'[h] = "new" => state[h] = "new"
  <2>1. \/ UNCHANGED state
        \/ \E st \in {"sleeping", "io", "joining"} : Parks(f, st)
    BY DEF TaskSleeps, Sleep, TaskReads, WaitReadable, TaskReadsOn, Read,
           TaskPanics, LeaveGroup, DrainGroup, PopsGroup, Gather, JoinParks,
           Value, ValueParks, schedVars
  <2> QED
    BY <2>1 DEF Parks, IInv, TypeOK, SchedTypeOK
<1>5. \A h \in Fibers : panicked[h] => panicked'[h]
  <2>1. UNCHANGED panicked \/ panicked' = [panicked EXCEPT ![f] = TRUE]
    BY DEF TaskSleeps, Sleep, TaskReads, WaitReadable, TaskReadsOn, Read,
           TaskPanics, LeaveGroup, DrainGroup, PopsGroup, Gather, JoinParks,
           Value, ValueParks, Raise, schedVars
  <2> QED
    BY <2>1 DEF IInv, TypeOK, SchedTypeOK
<1>6. \A h \in Fibers, g \in Groups : Inside(h, g)' <=> Inside(h, g)
  <2>1. CASE JoinParks(f)
    BY <2>1 DEF JoinParks, progVars, Inside
  <2>2. CASE LeaveGroup(f) \/ DrainGroup(f) \/ Gather(f)
    BY <2>2, InsidePops DEF LeaveGroup, DrainGroup, Gather, Starts, InUser
  <2>3. CASE \/ TaskSleeps(f) \/ TaskReads(f) \/ TaskReadsOn(f)
             \/ TaskPanics(f) \/ Value(f) \/ ValueParks(f)
    <3>1. pc[f] # "gjoin" /\ UNCHANGED scopes
      BY <2>3 DEF TaskSleeps, TaskReads, TaskReadsOn, Read, TaskPanics, Value,
                  ValueParks, Starts, InUser, progVars
    <3>2. \/ UNCHANGED <<pc, subject>>
          \/ Raise(f)
          \/ \E step, what : step # "gjoin" /\ Continue(f, step, what)
      <4>1. CASE TaskSleeps(f)
        BY <4>1 DEF TaskSleeps, Sleep, schedVars
      <4>2. CASE TaskReads(f)
        <5>1. PICK fd \in Fds : WaitReadable(f, fd)
          BY <4>2 DEF TaskReads
        <5>2. UNCHANGED schedVars \/ Raise(f) \/ Continue(f, "read", fd)
          BY <5>1 DEF WaitReadable
        <5> QED
          BY <5>2 DEF schedVars
      <4>3. CASE TaskReadsOn(f)
        BY <4>3 DEF TaskReadsOn, Read
      <4>4. CASE TaskPanics(f)
        BY <4>4 DEF TaskPanics
      <4>5. CASE Value(f)
        BY <4>5 DEF Value
      <4>6. CASE ValueParks(f)
        BY <4>6 DEF ValueParks
      <4> QED
        BY <2>3, <4>1, <4>2, <4>3, <4>4, <4>5, <4>6
    <3> QED
      BY <3>1, <3>2, InsideSame
  <2> QED
    BY <2>1, <2>2, <2>3
<1> QED
  BY <1>2, <1>3, <1>4, <1>5, <1>6 DEF Calm, FinalStep

\* A value that is read is a panic that was passed on.
LEMMA ValueReturnsScoped ==
    ASSUME IInv, Queued, Scoped, NEW f \in Fibers, ValueReturns(f)
    PROVE  Scoped'
<1> DEFINE t == subject[f]
<1>1. t \in Fibers
  BY DEF ValueReturns, IInv, TypeOK, GroupTypeOK, SubjectOK
<1>2. /\ UNCHANGED <<group, owner, children, live, failed, cancelled, panicked,
                     state, scopes>>
      /\ pc[f] # "gjoin" /\ Continue(f, "user", None)
      /\ \A c \in Fibers :
            delivered'[c] <=> IF c = t THEN delivered[c] \/ panicked[c]
                                       ELSE delivered[c]
      /\ \A c : c \in caught \/ (c = t /\ panicked[c]) => c \in caught'
  BY <1>1 DEF ValueReturns, quietVars, groupVars, progVars, IInv, TypeOK,
              GroupTypeOK
<1> HIDE DEF t
<1>3. \A h \in Fibers, g \in Groups : Inside(h, g)' <=> Inside(h, g)
  BY <1>2, InsideSame
<1>4. \A g \in Groups : Gone(g)' <=> Gone(g)
  BY <1>2, <1>3 DEF Gone, IInv, TypeOK, GroupTypeOK
<1>5. ChildrenOwn' /\ Unmade' /\ Opened' /\ Counted' /\ Blamed' /\ GoneDone'
  BY <1>2, <1>4 DEF Scoped, ChildrenOwn, Unmade, Opened, Counted, Undone,
                    Blamed, GoneDone
<1>6. InsideOwns'
  BY <1>2, <1>3 DEF Scoped, InsideOwns
<1>7. Passed'
  BY <1>2 DEF Scoped, Passed
<1>8. GoneLoud'
  BY <1>2, <1>4 DEF Scoped, GoneLoud
<1> QED
  BY <1>5, <1>6, <1>7, <1>8 DEF Scoped

\* One element more, and the elements of the list it is put in front of.
LEMMA InFront ==
    ASSUME NEW S, NEW q \in Seq(S), NEW e \in S
    PROVE  ToSet(<<e>> \o q) = {e} \cup ToSet(q)
<1> DEFINE p == <<e>>
<1>1. p \in Seq(S) /\ ToSet(p) = {e}
  BY ListsOne DEF Lists
<1> HIDE DEF p
<1>2. ToSet(p \o q) = ToSet(p) \cup ToSet(q)
  BY <1>1, ElementsOfConcat
<1> QED
  BY <1>1, <1>2 DEF p

\* A group that is opened is inside its owner.
LEMMA OpensScoped ==
    ASSUME IInv, Queued, Scoped, NEW f \in Fibers, OpenGroup(f)
    PROVE  Scoped'
<1>1. PICK k \in Groups : /\ owner[k] = None
                          /\ owner' = [owner EXCEPT ![k] = f]
                          /\ scopes' = [scopes EXCEPT ![f] = <<k>> \o @]
  BY DEF OpenGroup
<1>2. UNCHANGED <<state, pc, subject, cancelled, panicked, group, delivered,
                  caught, children, live, failed>>
  BY DEF OpenGroup, schedVars, taskVars
<1>3. f # None /\ \A g \in Groups : owner'[g] = IF g = k THEN f ELSE owner[g]
  BY <1>1, SchedulerAssumption DEF IInv, TypeOK, GroupTypeOK
<1>4. scopes[f] \in Seq(Groups) /\ ToSet(scopes'[f]) = {k} \cup ToSet(scopes[f])
        /\ \A h \in Fibers : h # f => scopes'[h] = scopes[h]
  <2>1. scopes \in [Fibers -> Seq(Groups)]
    BY DEF IInv, TypeOK, GroupTypeOK
  <2>2. ToSet(<<k>> \o scopes[f]) = {k} \cup ToSet(scopes[f])
    BY <2>1, InFront
  <2>3. scopes'[f] = <<k>> \o scopes[f]
    BY <1>1, <2>1
  <2> QED
    BY <1>1, <2>1, <2>2, <2>3
<1>5. \A h \in Fibers, g \in Groups :
         Inside(h, g)' <=> Inside(h, g) \/ (h = f /\ g = k)
  BY <1>2, <1>4 DEF Inside
<1>6. \A h \in Fibers : ~Inside(h, k)
  <2>1. \A h \in Fibers : h # None
    BY SchedulerAssumption
  <2> QED
    BY <1>1, <2>1 DEF Scoped, InsideOwns
<1>7. \A g \in Groups : Gone(g)' => Gone(g) /\ g # k
  <2> SUFFICES ASSUME NEW g \in Groups, Gone(g)' PROVE Gone(g) /\ g # k
    OBVIOUS
  <2>1. owner'[g] \in Fibers
    BY <1>3 DEF Gone, IInv, TypeOK, GroupTypeOK
  <2> QED
    BY <1>3, <1>5, <2>1 DEF Gone
<1>8. ChildrenOwn' /\ Unmade' /\ Counted' /\ Blamed'
  BY <1>2 DEF Scoped, ChildrenOwn, Unmade, Counted, Undone, Blamed
<1>9. \A c \in Fibers : group[c] # None => group[c] \in Groups \ {k}
  BY <1>1 DEF Scoped, Opened, IInv, TypeOK, GroupTypeOK
<1>10. Opened' /\ Passed'
  BY <1>2, <1>3, <1>9 DEF Scoped, Opened, Passed
<1>11. InsideOwns'
  BY <1>3, <1>5, <1>6 DEF Scoped, InsideOwns
<1>12. GoneDone'
  BY <1>2, <1>7 DEF Scoped, GoneDone, Undone
<1>13. GoneLoud'
  BY <1>2, <1>3, <1>7 DEF Scoped, GoneLoud
<1> QED
  BY <1>8, <1>10, <1>11, <1>12, <1>13 DEF Scoped

\* A join that returns leaves a group whose tasks are all done, having
\* raised, or been passed, every panic of theirs that nobody read.
LEMMA JoinReturnsScoped ==
    ASSUME IInv, Queued, Scoped, NEW f \in Fibers, JoinReturns(f)
    PROVE  Scoped'
<1> DEFINE k == subject[f]
<1>1. k \in Groups /\ Inside(f, k) /\ live[k] <= 0 /\ owner[k] = f
        /\ state[f] = "running"
  BY DEF JoinReturns, Runs, Queued, Running, Scoped, InsideOwns, Inside, IInv,
         TypeOK, GroupTypeOK, SubjectOK
<1>2. UNCHANGED <<state, cancelled, group, caught, owner, children, live,
                  failed, scopes>>
  BY DEF JoinReturns, groupVars, progVars
<1>3. Undone(k) = {}
  <2>1. IsFiniteSet(Undone(k)) /\ live[k] = Cardinality(Undone(k))
    BY <1>1, ChildrenType DEF Scoped, Counted
  <2>2. Cardinality(Undone(k)) \in Nat
    BY <2>1, FS_CardinalityType
  <2>3. Cardinality(Undone(k)) = 0
    BY <1>1, <2>1, <2>2
  <2> QED
    BY <2>1, <2>3, FS_EmptySet
<1>4. /\ \A h \in Fibers : h # f => /\ pc'[h] = pc[h]
                                    /\ subject'[h] = subject[h]
                                    /\ panicked'[h] = panicked[h]
      /\ pc'[f] # "gjoin" /\ (panicked[f] => panicked'[f])
  <2>1. UNCHANGED panicked \/ panicked' = [panicked EXCEPT ![f] = TRUE]
    BY DEF JoinReturns, Raise
  <2>2. \E step \in {"user", "drain"} : Continue(f, step, None)
    BY DEF JoinReturns, Raise
  <2> QED
    BY <2>1, <2>2 DEF Continue, IInv, TypeOK, SchedTypeOK, GroupTypeOK,
                      SubjectOK
<1>5. \/ /\ Unread(k) = {} /\ UNCHANGED <<delivered, panicked>>
      \/ /\ \A c \in Fibers : delivered'[c] => delivered[c] \/ c \in Unread(k)
         /\ panicked'[f]
  <2>1. CASE Unread(k) = {} /\ UNCHANGED <<delivered, panicked>>
    BY <2>1
  <2>2. CASE /\ panicked[f] /\ UNCHANGED panicked
             /\ delivered' = [c \in Fibers |-> delivered[c] \/ c \in Unread(k)]
    BY <2>2
  <2>3. CASE /\ \E i \in DOMAIN children[k] :
                  /\ children[k][i] \in Unread(k)
                  /\ delivered' = [delivered EXCEPT ![children[k][i]] = TRUE]
             /\ Raise(f)
    BY <2>3 DEF Raise, IInv, TypeOK, SchedTypeOK, GroupTypeOK
  <2> QED
    BY <2>1, <2>2, <2>3 DEF JoinReturns
<1> HIDE DEF k
<1>6. ChildrenOwn' /\ Unmade' /\ Opened' /\ Counted' /\ Blamed'
  BY <1>2 DEF Scoped, ChildrenOwn, Unmade, Opened, Counted, Undone, Blamed
<1>7. \A h \in Fibers, g \in Groups :
         /\ Inside(h, g)' => Inside(h, g)
         /\ Inside(h, g) /\ ~(h = f /\ g = k) => Inside(h, g)'
  BY <1>2, <1>4 DEF Inside, k
<1>8. InsideOwns'
  BY <1>2, <1>7 DEF Scoped, InsideOwns
<1>9. \A g \in Groups : Gone(g)' => Gone(g) \/ g = k
  BY <1>2, <1>7 DEF Gone, IInv, TypeOK, GroupTypeOK
<1>10. GoneDone'
  <2>1. \A g \in Groups : Undone(g)' = Undone(g)
    BY <1>2 DEF Undone
  <2> QED
    BY <1>3, <1>9, <2>1 DEF Scoped, GoneDone
<1>11. \A h \in Fibers : panicked[h] => panicked'[h]
  BY <1>4
<1>12. \A g \in Groups : owner[g] # None => owner[g] \in Fibers
  BY DEF IInv, TypeOK, GroupTypeOK
<1>13. \A c \in Unread(k) : c \in Fibers /\ group[c] = k
  BY <1>1, ChildrenType DEF Scoped, ChildrenOwn, Unread
<1>14. Passed'
  <2> SUFFICES ASSUME NEW c \in Fibers, delivered'[c], c \notin caught
               PROVE  group[c] # None /\ panicked'[owner[group[c]]]
    BY <1>2 DEF Passed
  <2>1. CASE delivered[c]
    <3>1. group[c] # None /\ panicked[owner[group[c]]]
      BY <2>1 DEF Scoped, Passed
    <3>2. owner[group[c]] \in Fibers
      BY <1>12, <3>1 DEF Scoped, Opened, IInv, TypeOK, GroupTypeOK
    <3> QED
      BY <1>11, <3>1, <3>2
  <2>2. CASE ~delivered[c]
    <3>1. panicked'[f] /\ c \in Unread(k)
      BY <1>5, <2>2
    <3> QED
      BY <1>1, <1>13, <3>1, GroupAssumption
  <2> QED
    BY <2>1, <2>2
<1>15. GoneLoud'
  <2> SUFFICES ASSUME NEW g \in Groups, Gone(g)', NEW c \in ToSet(children[g]),
                      panicked'[c], c \notin caught
               PROVE  panicked'[owner[g]]
    BY <1>2 DEF GoneLoud
  <2>1. c \in Fibers /\ group[c] = g /\ owner[g] \in Fibers
    BY <1>2, <1>12, ChildrenType DEF Gone, Scoped, ChildrenOwn
  <2>2. state[c] = "done"
    BY <1>3, <1>9 DEF Scoped, GoneDone, Undone
  <2>3. panicked[c]
    BY <1>1, <1>4, <2>1, <2>2
  <2>4. CASE Gone(g)
    BY <1>11, <2>1, <2>3, <2>4 DEF Scoped, GoneLoud
  <2>5. CASE g = k
    <3>1. CASE panicked'[f]
      BY <1>1, <2>5, <3>1
    <3>2. CASE Unread(k) = {}
      <4>1. delivered[c]
        BY <2>3, <2>5, <3>2 DEF Unread
      <4>2. panicked[owner[g]]
        BY <2>1, <4>1 DEF Scoped, Passed
      <4> QED
        BY <1>11, <2>1, <4>2
    <3> QED
      BY <1>5, <3>1, <3>2
  <2> QED
    BY <1>9, <2>4, <2>5
<1> QED
  BY <1>6, <1>8, <1>10, <1>14, <1>15 DEF Scoped

\* Nobody spawns into a group that was left: its owner does not name it,
\* and a fiber that runs in it is not done.
LEMMA SpawnableStays ==
    ASSUME IInv, Queued, Scoped, NEW f \in Fibers, Runs(f),
           NEW g \in Spawnable(f)
    PROVE  g \in Groups /\ owner[g] # None /\ ~Gone(g)
<1>1. f # None /\ state[f] = "running"
  BY SchedulerAssumption DEF Runs, Queued, Running
<1>2. CASE g \in ToSet(scopes[f])
  <2>1. scopes[f] \in Seq(Groups)
    BY DEF IInv, TypeOK, GroupTypeOK
  <2>2. g \in Groups /\ Inside(f, g)
    BY <1>2, <2>1, ElementsOf DEF Inside
  <2>3. owner[g] = f
    BY <2>2 DEF Scoped, InsideOwns
  <2> QED
    BY <1>1, <2>2, <2>3 DEF Gone
<1>3. CASE g = group[f] /\ g # None
  <2>1. g \in Groups /\ f \in ToSet(children[g]) /\ owner[g] # None
    BY <1>3 DEF Scoped, ChildrenOwn, Opened, IInv, TypeOK, GroupTypeOK
  <2>2. f \in Undone(g)
    BY <1>1, <2>1 DEF Undone
  <2> QED
    BY <2>1, <2>2 DEF Scoped, GoneDone
<1> QED
  BY <1>2, <1>3 DEF Spawnable

\* A task that is spawned is one more for its group, and no other's.
LEMMA SpawnsScoped ==
    ASSUME IInv, Queued, Scoped, NEW f \in Fibers, Spawn(f)
    PROVE  Scoped'
<1>1. PICK k \in Spawnable(f), c \in Fibers :
         /\ state[c] = "new"
         /\ children' = [children EXCEPT ![k] = <<c>> \o @]
         /\ group' = [group EXCEPT ![c] = k]
         /\ live' = [live EXCEPT ![k] = @ + 1]
         /\ state' = Enqueued(state, <<c>>)
  BY DEF Spawn
<1>2. UNCHANGED <<pc, subject, cancelled, panicked, delivered, caught, owner,
                  failed, scopes>>
  BY DEF Spawn, quietVars
<1>3. k \in Groups /\ owner[k] # None /\ ~Gone(k)
  BY SpawnableStays DEF Spawn, Starts, InUser
<1>4. \A h \in Fibers : state'[h] = IF h = c THEN "runnable" ELSE state[h]
  <2>1. ToSet(<<c>>) = {c}
    BY ListsOne DEF Lists
  <2> QED
    BY <1>1, <2>1 DEF Enqueued
<1>5. /\ group[c] = None
      /\ \A h \in Fibers : group'[h] = IF h = c THEN k ELSE group[h]
      /\ \A g \in Groups : c \notin ToSet(children[g])
  <2>1. group[c] = None
    BY <1>1 DEF Scoped, Unmade
  <2> QED
    BY <1>1, <2>1, GroupAssumption
       DEF Scoped, ChildrenOwn, IInv, TypeOK, GroupTypeOK
<1>6. \A g \in Groups : ToSet(children'[g]) =
         IF g = k THEN {c} \cup ToSet(children[g]) ELSE ToSet(children[g])
  <2>1. children \in [Groups -> Seq(Fibers)]
    BY DEF IInv, TypeOK, GroupTypeOK
  <2>2. ToSet(<<c>> \o children[k]) = {c} \cup ToSet(children[k])
    BY <1>3, <2>1, InFront
  <2>3. children'[k] = <<c>> \o children[k]
    BY <1>1, <1>3, <2>1
  <2> QED
    BY <1>1, <2>1, <2>2, <2>3
<1>7. \A g \in Groups :
         Undone(g)' = IF g = k THEN Undone(g) \cup {c} ELSE Undone(g)
  <2>1. \A g \in Groups : ToSet(children[g]) \subseteq Fibers
    BY ChildrenType
  <2> QED
    BY <1>4, <1>5, <1>6, <2>1 DEF Undone
<1>8. \A g \in Groups : (Gone(g)' <=> Gone(g)) /\ (Gone(g) => g # k)
  <2>1. \A g \in Groups : Gone(g)' <=> Gone(g)
    BY <1>2 DEF Gone, Inside
  <2> QED
    BY <1>3, <2>1
<1>9. ChildrenOwn'
  <2> SUFFICES ASSUME NEW h \in Fibers, NEW g \in Groups
               PROVE  h \in ToSet(children'[g]) <=> group'[h] = g
    BY DEF ChildrenOwn
  <2>1. CASE h = c
    BY <1>5, <1>6, <2>1
  <2>2. CASE h # c
    <3>1. h \in ToSet(children[g]) <=> group[h] = g
      BY DEF Scoped, ChildrenOwn
    <3> QED
      BY <1>5, <1>6, <2>2, <3>1
  <2> QED
    BY <2>1, <2>2
<1>10. Unmade'
  BY <1>4, <1>5 DEF Scoped, Unmade
<1>11. Opened'
  BY <1>2, <1>3, <1>5 DEF Scoped, Opened
<1>12. InsideOwns'
  BY <1>2 DEF Scoped, InsideOwns, Inside
<1>13. Counted'
  <2> SUFFICES ASSUME NEW g \in Groups
               PROVE  live'[g] = Cardinality(Undone(g)')
    BY DEF Counted
  <2>1. live'[g] = IF g = k THEN live[g] + 1 ELSE live[g]
    BY <1>1 DEF IInv, TypeOK, GroupTypeOK
  <2>2. IsFiniteSet(Undone(g)) /\ c \notin Undone(g)
    BY <1>5, ChildrenType DEF Undone
  <2>3. Cardinality(Undone(g) \cup {c}) = Cardinality(Undone(g)) + 1
    BY <2>2, FS_AddElement
  <2> QED
    BY <1>7, <2>1, <2>3 DEF Scoped, Counted
<1>14. Blamed'
  <2> SUFFICES ASSUME NEW h \in Fibers, cancelled[h]
               PROVE  /\ group'[h] # None /\ failed[group'[h]]
                      /\ \E d \in ToSet(children'[group'[h]]) :
                           state'[d] = "done"
    BY <1>2 DEF Blamed
  <2>1. /\ group[h] # None /\ failed[group[h]]
        /\ \E d \in ToSet(children[group[h]]) : state[d] = "done"
    BY DEF Scoped, Blamed
  <2>2. group'[h] = group[h] /\ group[h] \in Groups
    BY <1>5, <2>1 DEF IInv, TypeOK, GroupTypeOK
  <2>3. PICK d \in ToSet(children[group[h]]) : state[d] = "done"
    BY <2>1
  <2>4. d \in Fibers /\ d # c
    BY <1>5, <2>2, <2>3, ChildrenType
  <2> QED
    BY <1>4, <1>6, <2>1, <2>2, <2>3, <2>4
<1>15. Passed'
  BY <1>2, <1>5 DEF Scoped, Passed
<1>16. GoneDone'
  BY <1>7, <1>8 DEF Scoped, GoneDone
<1>17. GoneLoud'
  BY <1>2, <1>6, <1>8 DEF Scoped, GoneLoud
<1> QED
  BY <1>9, <1>10, <1>11, <1>12, <1>13, <1>14, <1>15, <1>16, <1>17 DEF Scoped

\* The end of a task: its group counts one less, and stops the others only
\* because this one failed.
LEMMA CompleteScoped ==
    ASSUME IInv, Queued, Scoped, NEW f \in Fibers, Runs(f), pc[f] # "gjoin",
           group[f] \in Groups, NEW isFailure \in BOOLEAN,
           Complete(f, isFailure)
    PROVE  Scoped'
<1> DEFINE k == group[f]
           fires == isFailure /\ ~failed[k]
<1>1. state[f] = "running" /\ f \in ToSet(children[k]) /\ f \in Undone(k)
        /\ \A g \in Groups : f \in ToSet(children[g]) => g = k
  BY DEF Runs, Queued, Running, Scoped, ChildrenOwn, Undone
<1>2. /\ UNCHANGED <<panicked, group, delivered, caught, owner, children,
                     scopes>>
      /\ Continue(f, "dead", None)
  BY DEF Complete, progVars
<1>3. \A g \in Groups :
        /\ live'[g] = IF g = k THEN live[g] - 1 ELSE live[g]
        /\ failed'[g] <=> failed[g] \/ (g = k /\ isFailure)
  BY DEF Complete, IInv, TypeOK, GroupTypeOK
<1>4. \A h \in Fibers : cancelled'[h] =>
         cancelled[h] \/ (isFailure /\ h \in ToSet(children[k]))
  BY DEF Complete, Flagged
<1>5. \A h \in Fibers : /\ state[h] = "done" => state'[h] = "done"
                        /\ state'[h] = "done" => state[h] = "done" \/ h = f
                        /\ state'[h] = "new" => state[h] = "new"
                        /\ h = f => state'[h] = "done"
  <2>1. \A h \in Fibers : state[h] = "done" => state'[h] = "done"
    BY CompleteQueued
  <2>2. \E w : state' = [Enqueued(state, w) EXCEPT ![f] = "done"]
    BY DEF Complete
  <2> QED
    BY <2>1, <2>2 DEF Enqueued
<1>6. \A g \in Groups : ToSet(children[g]) \subseteq Fibers
  BY ChildrenType
<1> HIDE DEF k
<1>7. \A g \in Groups :
         Undone(g)' = IF g = k THEN Undone(g) \ {f} ELSE Undone(g)
  BY <1>1, <1>2, <1>5, <1>6 DEF Undone
<1>8. \A h \in Fibers, g \in Groups : Inside(h, g)' <=> Inside(h, g)
  BY <1>2, InsideSame
<1>9. \A g \in Groups : Gone(g)' <=> Gone(g)
  BY <1>2, <1>8 DEF Gone, IInv, TypeOK, GroupTypeOK
<1>10. ChildrenOwn' /\ Unmade' /\ Opened'
  BY <1>2, <1>5 DEF Scoped, ChildrenOwn, Unmade, Opened
<1>11. InsideOwns'
  BY <1>2, <1>8 DEF Scoped, InsideOwns
<1>12. Counted'
  <2> SUFFICES ASSUME NEW g \in Groups
               PROVE  live'[g] = Cardinality(Undone(g)')
    BY DEF Counted
  <2>1. IsFiniteSet(Undone(g)) /\ live[g] = Cardinality(Undone(g))
    BY ChildrenType DEF Scoped, Counted
  <2>2. f \in Undone(g) =>
          Cardinality(Undone(g) \ {f}) = Cardinality(Undone(g)) - 1
    BY <2>1, FS_RemoveElement
  <2> QED
    BY <1>1, <1>3, <1>7, <2>1, <2>2
<1>13. Blamed'
  <2> SUFFICES ASSUME NEW h \in Fibers, cancelled'[h]
               PROVE  /\ group[h] # None /\ failed'[group[h]]
                      /\ \E d \in ToSet(children[group[h]]) :
                           state'[d] = "done"
    BY <1>2 DEF Blamed
  <2>1. CASE cancelled[h]
    <3>1. /\ group[h] # None /\ failed[group[h]]
          /\ \E d \in ToSet(children[group[h]]) : state[d] = "done"
      BY <2>1 DEF Scoped, Blamed
    <3>2. group[h] \in Groups
      BY <3>1 DEF IInv, TypeOK, GroupTypeOK
    <3> QED
      BY <1>3, <1>5, <1>6, <3>1, <3>2
  <2>2. CASE isFailure /\ h \in ToSet(children[k])
    <3>1. k \in Groups /\ group[h] = k
      BY <2>2 DEF Scoped, ChildrenOwn, k
    <3>2. failed'[k] /\ k # None
      BY <1>3, <2>2, <3>1, GroupAssumption
    <3> QED
      BY <1>1, <1>5, <3>1, <3>2
  <2> QED
    BY <1>4, <2>1, <2>2
<1>14. Passed'
  BY <1>2 DEF Scoped, Passed
<1>15. GoneDone'
  BY <1>7, <1>9 DEF Scoped, GoneDone
<1>16. GoneLoud'
  BY <1>2, <1>9 DEF Scoped, GoneLoud
<1> QED
  BY <1>10, <1>11, <1>12, <1>13, <1>14, <1>15, <1>16 DEF Scoped

\* Every step of a fiber's program keeps the groups.
LEMMA FiberStepScoped ==
    ASSUME IInv, Queued, Scoped, NEW f \in Fibers, FiberStep(f)
    PROVE  Scoped'
<1>1. Runs(f)
  BY StepRuns
<1>2. CASE TaskReturns(f) \/ TaskDies(f)
  <2>1. group[f] \in Groups /\ pc[f] # "gjoin"
    BY <1>1, <1>2 DEF TaskReturns, TaskDies, Drained, InUser, Runs, IInv,
                      Placed, Made
  <2>2. (~cancelled[f]) \in BOOLEAN
        /\ \A isError \in BOOLEAN : (isError /\ ~cancelled[f]) \in BOOLEAN
    BY DEF IInv, TypeOK, SchedTypeOK
  <2>3. CASE TaskReturns(f)
    BY <1>1, <2>1, <2>2, <2>3, CompleteScoped DEF TaskReturns
  <2>4. CASE TaskDies(f)
    BY <1>1, <2>1, <2>2, <2>4, CompleteScoped DEF TaskDies
  <2> QED
    BY <1>2, <2>3, <2>4
<1>3. CASE \/ TaskSleeps(f) \/ TaskReads(f) \/ TaskReadsOn(f) \/ TaskPanics(f)
           \/ LeaveGroup(f) \/ DrainGroup(f) \/ Gather(f) \/ JoinParks(f)
           \/ Value(f) \/ ValueParks(f)
  BY <1>3, FiberCalm, CalmScoped
<1> QED
  BY <1>2, <1>3, ValueReturnsScoped, OpensScoped, JoinReturnsScoped,
     SpawnsScoped DEF FiberStep

\* The invariant is inductive.
LEMMA NextScoped ==
    ASSUME IInv, QInv, SInv, [Next]_vars
    PROVE  SInv'
<1> SUFFICES ASSUME ~stalled' PROVE Scoped'
  BY DEF SInv
<1>1. Queued /\ Scoped
  BY StalledStays DEF QInv, SInv
<1>2. CASE \E f \in Fibers : FiberStep(f)
  BY <1>1, <1>2, FiberStepScoped
<1>3. CASE ~\E f \in Fibers : FiberStep(f)
  <2>1. UNCHANGED <<group, owner, children, live, failed, cancelled, caught,
                    delivered, scopes>>
    BY <1>3 DEF Next, Runtime, Reschedules, Dispatch, Poll, Stall, Passes,
                Tick, MainReturns, MainDies, Exit, Over, Answers, Arrive,
                vars, schedVars, taskVars, groupVars, progVars
  <2>2. UNCHANGED <<pc, subject, panicked>>
    <3>1. CASE Stall
      BY <3>1, StallTold DEF Stall
    <3>2. CASE ~Stall
      BY <1>3, <3>2 DEF Next, Runtime, Reschedules, Dispatch, Poll, Passes,
                        Tick, MainReturns, MainDies, Exit, Over, Answers,
                        Arrive, vars, schedVars
    <3> QED
      BY <3>1, <3>2
  <2>3. \A h \in Fibers : state[h] = "done" => state'[h] = "done"
    BY NextIsFinal DEF FinalStep
  <2>4. \A h \in Fibers : /\ state'[h] = "done" => state[h] = "done"
                          /\ state'[h] = "new" => state[h] = "new"
    <3>1. CASE Dispatch \/ Poll
      BY <3>1 DEF Dispatch, Poll, Enqueued, IInv, TypeOK, SchedTypeOK
    <3>2. CASE ~(Dispatch \/ Poll)
      BY <1>3, <3>2 DEF Next, Runtime, Reschedules, Stall, Passes, Tick,
                        MainReturns, MainDies, Exit, Over, Answers, Arrive,
                        vars, schedVars
    <3> QED
      BY <3>1, <3>2
  <2>5. Calm
    BY <2>1, <2>2, <2>3, <2>4 DEF Calm, Inside
  <2> QED
    BY <1>1, <2>5, CalmScoped
<1> QED
  BY <1>2, <1>3

\* The invariant holds in every reachable state.
LEMMA InductiveScopes == Spec => [](IInv /\ QInv /\ SInv)
<1>1. Init => SInv
  BY InitScoped DEF SInv
<1> QED
  BY <1>1, NextScoped, InductiveQueues, PTL DEF Spec

\* A scope that was left in the words of the property is left for good.
LEMMA LeftIsGone ==
    ASSUME NEW g \in Groups, Left(g)
    PROVE  Gone(g)
  BY DEF Left, Gone, Inside

\* live counts the group's unfinished tasks, in every reachable state.
THEOREM LiveCounts == Spec => []LiveExact
<1>1. SInv => LiveExact
  BY DEF SInv, Scoped, Counted, Undone, LiveExact
<1> QED
  BY <1>1, InductiveScopes, PTL

\* III.4.1, for every program: a group's block is left only when every task
\* started in it has finished.
THEOREM ScopesJoin == Spec => []ScopeJoined
<1>1. SInv => ScopeJoined
  BY LeftIsGone DEF SInv, Scoped, GoneDone, Undone, ScopeJoined
<1> QED
  BY <1>1, InductiveScopes, PTL

\* III.1.4, for every program: a panic in a scope that was left was read, or
\* it took the scope's owner down.
THEOREM PanicsAreLoud == Spec => []PanicsSurface
<1>1. SInv => PanicsSurface
  BY LeftIsGone DEF SInv, Scoped, GoneLoud, PanicsSurface
<1> QED
  BY <1>1, InductiveScopes, PTL

\* A task is told to stop only after a task of its own group has failed.
THEOREM CancelledForCause == Spec => []CancelOnlyByFailure
<1>1. SInv => CancelOnlyByFailure
  BY DEF SInv, Scoped, Blamed, CancelOnlyByFailure
<1> QED
  BY <1>1, InductiveScopes, PTL

-----------------------------------------------------------------------------
(***************************************************************************)
(* A program of groups whose tasks' values are not read does not deadlock. *)
(* With nobody asleep and no descriptor awaited, every fiber that is not   *)
(* done is parked in a join; but a join waits for an unfinished task of    *)
(* its group, and ownership is a tree: a task comes after the fiber that   *)
(* opened its group, so the chain of joins has an end.  The tree is kept   *)
(* as a height of every fiber, which for a fiber that has been made is at  *)
(* least the number of those still to be made, so that the next one finds  *)
(* room below whoever owns its group.                                      *)
(***************************************************************************)

\* No fiber waits for one task by name, from outside the task's group.
Valueless == \A f \in Fibers : "value" \notin Ops[f]

Unspawned == {f \in Fibers : state[f] = "new"}

OnlyJoins ==
    /\ \A f \in Fibers : pc[f] # "value" /\ state[f] # "chan"
    /\ state[Main] \notin {"new", "done"}

\* A parked join is the one its group will wake, and has a task to wait for.
JoinsWait == \A f \in Fibers : state[f] = "joining" =>
    /\ pc[f] = "gjoin"
    /\ gjoiner[subject[f]] = f
    /\ live[subject[f]] > 0

OwnersMade == \A g \in Groups : owner[g] # None => state[owner[g]] # "new"

Below(height) ==
    /\ \A f \in Fibers \ Unspawned : height[f] >= Cardinality(Unspawned)
    /\ \A c \in Fibers : group[c] # None => height[c] < height[owner[group[c]]]

Tree == \E height \in [Fibers -> Nat] : Below(height)

Going == ~stalled /\ OnlyJoins /\ JoinsWait /\ OwnersMade /\ Tree

\* At first there is nobody but main.
LEMMA InitGoing == Init => Going
<1> SUFFICES ASSUME Init PROVE Going
  OBVIOUS
<1> USE DEF Init, SchedInit, GroupInit
<1>1. ~stalled
  BY DEF stalled
<1>2. OnlyJoins /\ JoinsWait /\ OwnersMade
  BY SchedulerAssumption DEF OnlyJoins, JoinsWait, OwnersMade
<1>3. Tree
  <2> DEFINE height == [f \in Fibers |-> Cardinality(Unspawned)]
  <2>1. Cardinality(Unspawned) \in Nat
    BY FS_Subset, FS_CardinalityType, SchedulerAssumption DEF Unspawned
  <2>2. height \in [Fibers -> Nat] /\ Below(height)
    BY <2>1 DEF Below
  <2> QED
    BY <2>2 DEF Tree
<1> QED
  BY <1>1, <1>2, <1>3 DEF Going

\* The processor is never out of work: of the joins parked, the lowest waits
\* for a task that is itself parked in a lower one.
LEMMA SomebodyGoesOn ==
    ASSUME IInv, Queued, Scoped, Going, parked, runq = <<>>, NothingAwaited
    PROVE  FALSE
<1> DEFINE Joining == InState("joining")
<1>1. \A f \in Fibers : state[f] \in {"joining", "new", "done"}
  <2>1. \A f \in Fibers : state[f] \notin {"runnable", "sleeping"}
    BY DEF Queued, Lists, InState, ToSet, NothingAwaited
  <2>2. \A f \in Fibers : state[f] \notin {"running", "io", "chan"}
    BY DEF Queued, Running, Registered, NothingAwaited, Going, OnlyJoins
  <2> QED
    BY <2>1, <2>2 DEF IInv, TypeOK, SchedTypeOK, States
<1>2. Main \in Joining
  BY <1>1, SchedulerAssumption DEF Going, OnlyJoins, InState
<1>3. PICK height \in [Fibers -> Nat] : Below(height)
  BY DEF Going, Tree
<1>4. PICK f \in Joining : \A h \in Joining : height[f] <= height[h]
  <2> DEFINE Reached == {height[h] : h \in Joining}
  <2>1. Reached \subseteq Nat /\ Reached # {}
    BY <1>2 DEF InState
  <2>2. PICK n \in Reached : \A m \in Reached : n <= m
    BY <2>1, Smallest
  <2> QED
    BY <2>2
<1> DEFINE g == subject[f]
<1>5. f \in Fibers /\ pc[f] = "gjoin" /\ live[g] > 0
  BY <1>4 DEF Going, JoinsWait, InState
<1>6. g \in Groups /\ g # None
  BY <1>5, GroupAssumption DEF IInv, TypeOK, GroupTypeOK, SubjectOK
<1>7. owner[g] = f
  BY <1>5, <1>6 DEF Scoped, InsideOwns, Inside
<1>8. PICK c \in Undone(g) : TRUE
  <2>1. live[g] = Cardinality(Undone(g))
    BY <1>6 DEF Scoped, Counted
  <2>2. Undone(g) # {}
    <3> SUFFICES ASSUME Undone(g) = {} PROVE FALSE
      OBVIOUS
    <3>1. live[g] = 0
      BY <2>1, FS_EmptySet
    <3> QED
      BY <1>5, <3>1
  <2> QED
    BY <2>2
<1>9. c \in Fibers /\ group[c] = g /\ state[c] \notin {"done", "new"}
  BY <1>6, <1>8, ChildrenType DEF Undone, Scoped, ChildrenOwn, Unmade
<1>10. c \in Joining /\ height[c] < height[f]
  BY <1>1, <1>3, <1>6, <1>7, <1>9 DEF Below, InState
<1>11. height[c] \in Nat /\ height[f] \in Nat /\ height[f] <= height[c]
  BY <1>3, <1>4, <1>5, <1>9, <1>10
<1> QED
  BY <1>10, <1>11

\* A step that makes and ends no fiber, and starts and ends no wait in a join.
Plain ==
    /\ UNCHANGED <<group, owner, live, gjoiner>>
    /\ \A f \in Fibers :
         /\ state'[f] = "new" <=> state[f] = "new"
         /\ state'[f] = "done" => state[f] = "done"
         /\ state'[f] # "chan" /\ pc'[f] # "value"
         /\ state'[f] = "joining" =>
              state[f] = "joining" /\ pc'[f] = pc[f] /\ subject'[f] = subject[f]

\* Where main is and who has been made, when nobody is made or ended.
LEMMA PlainGoes ==
    ASSUME IInv, Going, Plain, ~stalled'
    PROVE  Going'
<1>1. UNCHANGED <<group, owner, live, gjoiner>>
  BY DEF Plain
<1>2. \A f \in Fibers :
        /\ state'[f] = "new" <=> state[f] = "new"
        /\ state'[f] = "done" => state[f] = "done"
        /\ state'[f] # "chan" /\ pc'[f] # "value"
        /\ state'[f] = "joining" =>
             state[f] = "joining" /\ pc'[f] = pc[f] /\ subject'[f] = subject[f]
  BY DEF Plain
<1>3. OnlyJoins'
  BY <1>2, SchedulerAssumption DEF Going, OnlyJoins
<1>4. JoinsWait'
  BY <1>1, <1>2 DEF Going, JoinsWait
<1>5. OwnersMade'
  BY <1>1, <1>2 DEF Going, OwnersMade, IInv, TypeOK, GroupTypeOK
<1>6. Tree'
  <2>1. PICK height \in [Fibers -> Nat] : Below(height)
    BY DEF Going, Tree
  <2>2. Unspawned' = Unspawned
    BY <1>2 DEF Unspawned
  <2>3. Below(height)'
    BY <1>1, <2>1, <2>2 DEF Below
  <2> QED
    BY <2>3 DEF Tree
<1> QED
  BY <1>3, <1>4, <1>5, <1>6 DEF Going

\* The plain steps of a fiber's program.
LEMMA FiberPlain ==
    ASSUME IInv, Queued, OnlyJoins, NEW f \in Fibers, Runs(f),
           \/ TaskSleeps(f) \/ TaskReads(f) \/ TaskReadsOn(f) \/ TaskPanics(f)
           \/ PopsGroup(f) \/ Gather(f) \/ JoinReturns(f)
    PROVE  Plain
<1>1. state[f] = "running"
  BY DEF Runs, Queued, Running
<1>2. UNCHANGED <<group, owner, live, gjoiner>>
  BY DEF TaskSleeps, TaskReads, TaskReadsOn, TaskPanics, PopsGroup, Gather,
         JoinReturns, taskVars, groupVars
<1>3. UNCHANGED state \/ Parks(f, "sleeping") \/ Parks(f, "io")
  BY DEF TaskSleeps, Sleep, TaskReads, WaitReadable, TaskReadsOn, Read,
         TaskPanics, PopsGroup, Gather, JoinReturns, schedVars
<1>4. \/ UNCHANGED <<pc, subject>>
      \/ \E step \in {"user", "read", "gjoin", "drain"} :
            \E what : Continue(f, step, what)
  <2>1. Raise(f) => \E what : Continue(f, "drain", what)
    BY DEF Raise
  <2>2. CASE TaskSleeps(f)
    BY <2>2 DEF TaskSleeps, Sleep, schedVars
  <2>3. CASE TaskReads(f)
    <3>1. PICK fd \in Fds : WaitReadable(f, fd)
      BY <2>3 DEF TaskReads
    <3>2. UNCHANGED schedVars \/ Raise(f) \/ Continue(f, "read", fd)
      BY <3>1 DEF WaitReadable
    <3> QED
      BY <2>1, <3>2 DEF schedVars
  <2>4. CASE TaskReadsOn(f)
    BY <2>4 DEF TaskReadsOn, Read
  <2>5. CASE TaskPanics(f)
    BY <2>1, <2>5 DEF TaskPanics
  <2>6. CASE PopsGroup(f) \/ Gather(f)
    BY <2>6 DEF PopsGroup, Gather
  <2>7. CASE JoinReturns(f)
    BY <2>1, <2>7 DEF JoinReturns
  <2> QED
    BY <2>2, <2>3, <2>4, <2>5, <2>6, <2>7
<1>5. \A h \in Fibers : /\ h # f => pc'[h] = pc[h] /\ subject'[h] = subject[h]
                        /\ pc'[h] # "value"
  BY <1>4 DEF Continue, OnlyJoins, IInv, TypeOK, SchedTypeOK, GroupTypeOK,
              SubjectOK
<1>6. \A h \in Fibers : IF h = f
                          THEN state'[h] \in {"running", "sleeping", "io"}
                                 ELSE state'[h] = state[h]
  BY <1>1, <1>3 DEF Parks, IInv, TypeOK, SchedTypeOK
<1>7. \A h \in Fibers : state[h] # "chan"
  BY DEF OnlyJoins
<1> QED
  BY <1>1, <1>2, <1>5, <1>6, <1>7 DEF Plain

\* What is plain of the steps that are no fiber's.
LEMMA WorldPlain ==
    ASSUME IInv, Queued, OnlyJoins,
           \/ Reschedules /\ ~Stall
           \/ Passes \/ MainReturns \/ MainDies \/ Over \/ UNCHANGED vars
           \/ \E fd \in Fds : Answers(fd)
    PROVE  Plain
<1>1. UNCHANGED <<group, owner, live, gjoiner, pc, subject>>
  BY DEF Reschedules, Dispatch, Poll, Passes, Tick, MainReturns, MainDies,
         Exit, Over, Answers, Arrive, vars, schedVars, taskVars, groupVars
<1>2. \A h \in Fibers :
        \/ state'[h] = state[h]
        \/ state[h] \in {"runnable", "io", "sleeping"}
             /\ state'[h] \in {"running", "runnable"}
  <2>1. CASE Dispatch
    <3>1. Head(runq) \in InState("runnable")
      BY <2>1, ListsTail DEF Dispatch, Queued
    <3> QED
      BY <2>1, <3>1 DEF Dispatch, InState, IInv, TypeOK, SchedTypeOK
  <2>2. CASE Poll
    <3>1. PICK W \in SUBSET ioq, n \in 0..Len(sleepq) :
             /\ \E w \in SetToSeqs(W) : runq' = w \o SubSeq(sleepq, 1, n)
             /\ state' = Enqueued(state, runq')
      BY <2>2 DEF Poll
    <3>2. Lists(SubSeq(sleepq, 1, n), ToSet(SubSeq(sleepq, 1, n)))
            /\ ToSet(SubSeq(sleepq, 1, n)) \subseteq InState("sleeping")
      BY <3>1, ListsParted DEF Queued
    <3>3. W \subseteq Fibers /\ \A h \in W : state[h] = "io"
      BY DEF Queued, Registered, IInv, TypeOK, SchedTypeOK
    <3>4. W \cap ToSet(SubSeq(sleepq, 1, n)) = {}
      BY <3>2, <3>3 DEF InState
    <3>5. \A w \in SetToSeqs(W) : Lists(w, W)
      BY <3>3, FS_Subset, SchedulerAssumption, ListsSet
    <3>6. Lists(runq', W \cup ToSet(SubSeq(sleepq, 1, n)))
      BY <3>1, <3>2, <3>4, <3>5, ListsJoined
    <3>7. ToSet(runq') = W \cup ToSet(SubSeq(sleepq, 1, n))
      BY <3>6 DEF Lists
    <3> QED
      BY <3>1, <3>2, <3>3, <3>7 DEF Enqueued, InState
  <2>3. CASE ~Dispatch /\ ~Poll
    BY <2>3 DEF Reschedules, Passes, Tick, MainReturns, MainDies, Exit, Over,
                Answers, Arrive, vars, schedVars
  <2> QED
    BY <2>1, <2>2, <2>3
<1> QED
  BY <1>1, <1>2 DEF Plain, OnlyJoins

\* A fiber that parks in the join of a group is the group's only joiner.
LEMMA JoinGoes ==
    ASSUME IInv, Queued, Scoped, Going, NEW f \in Fibers, JoinParks(f),
           ~stalled'
    PROVE  Going'
<1> DEFINE g == subject[f]
<1>1. /\ pc[f] = "gjoin" /\ live[g] > 0 /\ state[f] = "running"
      /\ gjoiner' = [gjoiner EXCEPT ![g] = f]
      /\ state' = [state EXCEPT ![f] = "joining"]
      /\ UNCHANGED <<pc, subject, group, owner, live>>
  BY DEF JoinParks, Parks, Runs, Queued, Running, taskVars
<1>2. g \in Groups
  BY <1>1 DEF IInv, TypeOK, GroupTypeOK, SubjectOK
<1>3. \A h \in Fibers : state'[h] = IF h = f THEN "joining" ELSE state[h]
  BY <1>1 DEF IInv, TypeOK, SchedTypeOK
<1>4. \A k \in Groups : gjoiner'[k] = IF k = g THEN f ELSE gjoiner[k]
  BY <1>1 DEF IInv, TypeOK, GroupTypeOK
<1>5. \A h \in Fibers : pc[h] = "gjoin" /\ subject[h] = g => h = f
  BY <1>1, <1>2 DEF Scoped, InsideOwns, Inside
<1>6. OnlyJoins'
  BY <1>1, <1>3, SchedulerAssumption DEF Going, OnlyJoins
<1>7. JoinsWait'
  <2> SUFFICES ASSUME NEW h \in Fibers, state'[h] = "joining"
               PROVE  pc[h] = "gjoin" /\ gjoiner'[subject[h]] = h
                        /\ live[subject[h]] > 0
    BY <1>1 DEF JoinsWait
  <2>1. CASE h = f
    BY <1>1, <1>2, <1>4, <2>1
  <2>2. CASE h # f
    <3>1. pc[h] = "gjoin" /\ gjoiner[subject[h]] = h /\ live[subject[h]] > 0
      BY <1>3, <2>2 DEF Going, JoinsWait
    <3>2. subject[h] \in Groups /\ subject[h] # g
      BY <1>5, <2>2, <3>1 DEF IInv, TypeOK, GroupTypeOK, SubjectOK
    <3> QED
      BY <1>4, <3>1, <3>2
  <2> QED
    BY <2>1, <2>2
<1>8. OwnersMade'
  BY <1>1, <1>3 DEF Going, OwnersMade, IInv, TypeOK, GroupTypeOK
<1>9. Tree'
  <2>1. PICK height \in [Fibers -> Nat] : Below(height)
    BY DEF Going, Tree
  <2>2. Unspawned' = Unspawned
    BY <1>1, <1>3 DEF Unspawned
  <2>3. Below(height)'
    BY <1>1, <2>1, <2>2 DEF Below
  <2> QED
    BY <2>3 DEF Tree
<1> QED
  BY <1>6, <1>7, <1>8, <1>9 DEF Going

\* A group that is opened has no task yet.
LEMMA OpenGoes ==
    ASSUME IInv, Queued, Scoped, Going, NEW f \in Fibers, OpenGroup(f),
           ~stalled'
    PROVE  Going'
<1>1. PICK k \in Groups : owner[k] = None /\ owner' = [owner EXCEPT ![k] = f]
  BY DEF OpenGroup
<1>2. UNCHANGED <<state, pc, subject, group, live, gjoiner>>
  BY DEF OpenGroup, schedVars, taskVars
<1>3. state[f] = "running"
  BY DEF OpenGroup, Starts, InUser, Runs, Queued, Running
<1>4. \A g \in Groups : owner'[g] = IF g = k THEN f ELSE owner[g]
  BY <1>1 DEF IInv, TypeOK, GroupTypeOK
<1>5. OnlyJoins' /\ JoinsWait'
  BY <1>2 DEF Going, OnlyJoins, JoinsWait
<1>6. OwnersMade'
  BY <1>2, <1>3, <1>4 DEF Going, OwnersMade
<1>7. Tree'
  <2>1. PICK height \in [Fibers -> Nat] : Below(height)
    BY DEF Going, Tree
  <2>2. Unspawned' = Unspawned
    BY <1>2 DEF Unspawned
  <2>3. \A c \in Fibers : group[c] # None =>
           group[c] \in Groups /\ owner'[group[c]] = owner[group[c]]
    BY <1>1, <1>4 DEF Scoped, Opened, IInv, TypeOK, GroupTypeOK
  <2>4. Below(height)'
    BY <1>2, <2>1, <2>2, <2>3 DEF Below
  <2> QED
    BY <2>4 DEF Tree
<1> QED
  BY <1>5, <1>6, <1>7 DEF Going

\* A task that is spawned finds room below its group's owner.
LEMMA SpawnGoes ==
    ASSUME IInv, Queued, Scoped, Going, NEW f \in Fibers, Spawn(f), ~stalled'
    PROVE  Going'
<1>1. PICK k \in Spawnable(f), c \in Fibers :
         /\ state[c] = "new"
         /\ group' = [group EXCEPT ![c] = k]
         /\ live' = [live EXCEPT ![k] = @ + 1]
         /\ state' = Enqueued(state, <<c>>)
  BY DEF Spawn
<1>2. UNCHANGED <<pc, subject, owner, gjoiner>>
  BY DEF Spawn
<1>3. k \in Groups /\ owner[k] # None
  BY SpawnableStays DEF Spawn, Starts, InUser
<1>4. \A h \in Fibers : state'[h] = IF h = c THEN "runnable" ELSE state[h]
  <2>1. ToSet(<<c>>) = {c}
    BY ListsOne DEF Lists
  <2> QED
    BY <1>1, <2>1 DEF Enqueued
<1>5. \A h \in Fibers : group'[h] = IF h = c THEN k ELSE group[h]
  BY <1>1 DEF IInv, TypeOK, GroupTypeOK
<1>6. OnlyJoins'
  BY <1>2, <1>4, SchedulerAssumption DEF Going, OnlyJoins
<1>7. JoinsWait'
  <2> SUFFICES ASSUME NEW h \in Fibers, state'[h] = "joining"
               PROVE  pc[h] = "gjoin" /\ gjoiner[subject[h]] = h
                        /\ live'[subject[h]] > 0
    BY <1>2 DEF JoinsWait
  <2>1. pc[h] = "gjoin" /\ gjoiner[subject[h]] = h /\ live[subject[h]] > 0
    BY <1>4 DEF Going, JoinsWait
  <2>2. subject[h] \in Groups /\ live \in [Groups -> Int]
    BY <2>1 DEF IInv, TypeOK, GroupTypeOK, SubjectOK
  <2>3. live'[subject[h]] \in {live[subject[h]], live[subject[h]] + 1}
    BY <1>1, <2>2
  <2> QED
    BY <2>1, <2>2, <2>3
<1>8. OwnersMade'
  BY <1>2, <1>4 DEF Going, OwnersMade, IInv, TypeOK, GroupTypeOK
<1>9. Tree'
  <2>1. PICK height \in [Fibers -> Nat] : Below(height)
    BY DEF Going, Tree
  <2>2. Unspawned' = Unspawned \ {c} /\ c \in Unspawned
    BY <1>1, <1>4 DEF Unspawned
  <2>3. IsFiniteSet(Unspawned)
    BY FS_Subset, SchedulerAssumption DEF Unspawned
  <2>4. PICK n \in Nat : /\ n = Cardinality(Unspawned)
                         /\ n > 0 /\ Cardinality(Unspawned') = n - 1
    <3>1. /\ Cardinality(Unspawned) \in Nat
          /\ Cardinality(Unspawned \ {c}) = Cardinality(Unspawned) - 1
      BY <2>2, <2>3, FS_CardinalityType, FS_RemoveElement
    <3>2. Cardinality(Unspawned \ {c}) \in Nat
      BY <2>3, FS_Subset, FS_CardinalityType
    <3> QED
      BY <2>2, <3>1, <3>2
  <2>5. \A h \in Fibers : group[h] # None \/ h = owner[k] =>
           h \notin Unspawned /\ h # c
    BY <1>1, <1>3 DEF Going, OwnersMade, Scoped, Unmade, Unspawned
  <2>6. \A g \in Groups : owner[g] # None => owner[g] \in Fibers /\ owner[g] # c
    BY <1>1 DEF Going, OwnersMade, IInv, TypeOK, GroupTypeOK
  <2>7. PICK lower \in [Fibers -> Nat] :
           \A h \in Fibers : lower[h] = IF h = c THEN n - 1 ELSE height[h]
    <3>1. n - 1 \in Nat
      BY <2>4
    <3>2. [height EXCEPT ![c] = n - 1] \in [Fibers -> Nat]
      BY <3>1
    <3> QED
      BY <3>2
  <2>8. \A h \in Fibers \ Unspawned : height[h] >= n
    BY <2>1, <2>4 DEF Below
  <2>9. \A h \in Fibers \ Unspawned' : lower[h] >= n - 1
    <3> SUFFICES ASSUME NEW h \in Fibers, h \notin Unspawned'
                 PROVE  lower[h] >= n - 1
      OBVIOUS
    <3>1. CASE h = c
      BY <2>4, <2>7, <3>1
    <3>2. CASE h # c
      <4>1. height[h] >= n /\ height[h] \in Nat
        BY <2>1, <2>2, <2>8, <3>2
      <4> QED
        BY <2>4, <2>7, <3>2, <4>1
    <3> QED
      BY <3>1, <3>2
  <2>10. \A h \in Fibers :
            group'[h] # None => lower[h] < lower[owner[group'[h]]]
    <3> SUFFICES ASSUME NEW h \in Fibers, group'[h] # None
                 PROVE  lower[h] < lower[owner[group'[h]]]
      OBVIOUS
    <3>1. CASE h = c
      <4>1. group'[h] = k /\ owner[k] \in Fibers /\ owner[k] # c
        BY <1>3, <1>5, <2>6, <3>1
      <4>2. height[owner[k]] >= n /\ height[owner[k]] \in Nat
        BY <2>1, <2>5, <2>8, <4>1
      <4> QED
        BY <2>4, <2>7, <3>1, <4>1, <4>2
    <3>2. CASE h # c
      <4>1. group'[h] = group[h] /\ group[h] \in Groups
        BY <1>5, <3>2 DEF IInv, TypeOK, GroupTypeOK
      <4>2. owner[group[h]] \in Fibers /\ owner[group[h]] # c
        BY <2>6, <4>1 DEF Scoped, Opened
      <4>3. height[h] < height[owner[group[h]]]
        BY <2>1, <4>1 DEF Below
      <4> QED
        BY <2>7, <3>2, <4>1, <4>2, <4>3
    <3> QED
      BY <3>1, <3>2
  <2>11. Below(lower)'
    BY <1>2, <2>4, <2>9, <2>10 DEF Below
  <2> QED
    BY <2>7, <2>11 DEF Tree
<1> QED
  BY <1>6, <1>7, <1>8, <1>9 DEF Going

\* The end of a task: when its group has no other left, its joiner is woken.
LEMMA CompleteGoes ==
    ASSUME IInv, Queued, Scoped, Going, NEW f \in Fibers, Runs(f), f # Main,
           group[f] \in Groups, NEW isFailure \in BOOLEAN,
           Complete(f, isFailure), IInv', ~stalled'
    PROVE  Going'
<1> DEFINE g == group[f]
           empty == live[g] = 1
           woken == IF isFailure /\ ~failed[g] THEN Woken(g) ELSE {}
           wakes == IF empty THEN Waiting(gjoiner[g]) ELSE <<>>
<1>1. state[f] = "running"
  BY DEF Runs, Queued, Running
<1>2. /\ UNCHANGED <<group, owner>>
      /\ Continue(f, "dead", None)
      /\ live' = [live EXCEPT ![g] = @ - 1]
      /\ gjoiner' = IF empty THEN [gjoiner EXCEPT ![g] = None] ELSE gjoiner
  BY DEF Complete
<1>3. PICK w \in InOrder(children[g], woken) :
         state' = [Enqueued(state, w \o wakes \o Waiting(joiner[f]))
                     EXCEPT ![f] = "done"]
  BY DEF Complete
<1>4. \A h \in Fibers :
        /\ h = f => state'[h] = "done"
        /\ h # f => state'[h] \in {"runnable", state[h]}
  BY <1>3 DEF Enqueued
<1>5. empty => \A h \in Fibers : gjoiner[g] = h => state'[h] # "joining"
  <2> SUFFICES ASSUME empty, NEW h \in Fibers, gjoiner[g] = h
               PROVE  state'[h] # "joining"
    OBVIOUS
  <2>1. h \in ToSet(w \o wakes \o Waiting(joiner[f]))
    <3>1. IsFiniteSet(woken) /\ woken \subseteq Fibers
      BY ChildrenType, FS_Subset, SchedulerAssumption DEF Woken, Flagged
    <3>2. w \in Seq(Fibers)
      BY <3>1, ListsSet, OverMore DEF InOrder, Lists
    <3>3. wakes = <<h>> /\ wakes \in Seq(Fibers) /\ ToSet(wakes) = {h}
      BY ListsOne, SchedulerAssumption DEF Waiting, Lists
    <3>4. Waiting(joiner[f]) \in Seq(Fibers)
      BY DEF Waiting, IInv, TypeOK, GroupTypeOK
    <3> DEFINE front == w \o wakes
    <3>5. front \in Seq(Fibers) /\ h \in ToSet(front)
      BY <3>2, <3>3, ElementsOfConcat
    <3> HIDE DEF front
    <3>6. h \in ToSet(front \o Waiting(joiner[f]))
      BY <3>4, <3>5, ElementsOfConcat
    <3> QED
      BY <3>6 DEF front
  <2> QED
    BY <1>3, <1>4, <2>1 DEF Enqueued
<1> HIDE DEF g, woken, wakes
<1>6. \A h \in Fibers :
        /\ h # f => pc'[h] = pc[h] /\ subject'[h] = subject[h]
        /\ h = f => pc'[h] = "dead"
  <2>1. pc \in [Fibers -> Continuations] /\ subject \in [Fibers -> Subjects]
    BY DEF IInv, TypeOK, SchedTypeOK, GroupTypeOK, SubjectOK
  <2> QED
    BY <1>2, <2>1 DEF Continue
<1>7. OnlyJoins'
  BY <1>4, <1>6, SchedulerAssumption DEF Going, OnlyJoins
<1>8. JoinsWait'
  <2> SUFFICES ASSUME NEW h \in Fibers, state'[h] = "joining"
               PROVE  pc'[h] = "gjoin" /\ gjoiner'[subject'[h]] = h
                        /\ live'[subject'[h]] > 0
    BY DEF JoinsWait
  <2>1. h # f /\ state[h] = "joining"
    BY <1>4
  <2>2. pc[h] = "gjoin" /\ gjoiner[subject[h]] = h /\ live[subject[h]] > 0
    BY <2>1 DEF Going, JoinsWait
  <2>3. subject[h] \in Groups /\ live \in [Groups -> Int]
          /\ gjoiner \in [Groups -> Fibers \cup {None}]
    BY <2>2 DEF IInv, TypeOK, GroupTypeOK, SubjectOK
  <2>4. CASE subject[h] = g
    <3>1. ~empty
      BY <1>5, <2>2, <2>4
    <3>2. gjoiner'[g] = h /\ live'[g] = live[g] - 1
      BY <1>2, <2>2, <2>3, <2>4, <3>1
    <3> QED
      BY <1>6, <2>1, <2>2, <2>3, <2>4, <3>1, <3>2
  <2>5. CASE subject[h] # g
    BY <1>2, <1>6, <2>1, <2>2, <2>3, <2>5
  <2> QED
    BY <2>4, <2>5
<1>9. OwnersMade'
  BY <1>2, <1>4 DEF Going, OwnersMade, IInv, TypeOK, GroupTypeOK
<1>10. Tree'
  <2>1. PICK height \in [Fibers -> Nat] : Below(height)
    BY DEF Going, Tree
  <2>2. Unspawned' = Unspawned
    <3>1. \A h \in Fibers : state'[h] = "new" <=> state[h] = "new"
      <4>1. ToSet(runq') \subseteq Made
        <5>1. runq' \in Seq(Made)
          BY <1>2, MadeSame DEF IInv, Placed
        <5> QED
          BY <5>1, ElementsOf
      <4>2. \A h \in Fibers : state'[h] = "runnable" => h \in Made
        <5>1. Queued'
          BY CompleteQueued DEF g
        <5>2. InState("runnable")' = ToSet(runq')
          BY <5>1 DEF Queued, Lists
        <5> QED
          BY <4>1, <5>2 DEF InState
      <4>3. \A h \in Made : state[h] # "new"
        BY GroupAssumption, MadeType DEF Made, Scoped, Unmade, Going, OnlyJoins
      <4> QED
        BY <1>1, <1>4, <4>2, <4>3
    <3> QED
      BY <3>1 DEF Unspawned
  <2>3. Below(height)'
    BY <1>2, <2>1, <2>2 DEF Below
  <2> QED
    BY <2>3 DEF Tree
<1> QED
  BY <1>7, <1>8, <1>9, <1>10 DEF Going

\* Every step of a fiber's program keeps the chain of joins grounded.
LEMMA FiberStepGoes ==
    ASSUME IInv, Queued, Scoped, Going, Valueless, IInv', ~stalled',
           NEW f \in Fibers, FiberStep(f)
    PROVE  Going'
<1>1. Runs(f) /\ OnlyJoins
  BY StepRuns DEF Going
<1>2. ~Value(f) /\ ~ValueParks(f) /\ ~ValueReturns(f)
  BY <1>1 DEF Value, Starts, ValueParks, ValueReturns, Valueless, OnlyJoins
<1>3. CASE TaskReturns(f) \/ TaskDies(f)
  <2>1. group[f] \in Groups /\ f # Main
    BY <1>1, <1>3 DEF TaskReturns, TaskDies, Runs, IInv, Placed, Made
  <2>2. (~cancelled[f]) \in BOOLEAN
        /\ \A isError \in BOOLEAN : (isError /\ ~cancelled[f]) \in BOOLEAN
    BY DEF IInv, TypeOK, SchedTypeOK
  <2>3. CASE TaskReturns(f)
    BY <1>1, <2>1, <2>2, <2>3, CompleteGoes DEF TaskReturns
  <2>4. CASE TaskDies(f)
    BY <1>1, <2>1, <2>2, <2>4, CompleteGoes DEF TaskDies
  <2> QED
    BY <1>3, <2>3, <2>4
<1>4. CASE \/ TaskSleeps(f) \/ TaskReads(f) \/ TaskReadsOn(f) \/ TaskPanics(f)
           \/ PopsGroup(f) \/ Gather(f) \/ JoinReturns(f)
  BY <1>1, <1>4, FiberPlain, PlainGoes
<1> QED
  BY <1>2, <1>3, <1>4, JoinGoes, OpenGoes, SpawnGoes
     DEF FiberStep, LeaveGroup, DrainGroup

\* The invariant is inductive.
LEMMA NextGoes ==
    ASSUME IInv, QInv, SInv, Going, Valueless, [Next]_vars, IInv'
    PROVE  Going'
<1>1. Queued /\ Scoped /\ ~stalled /\ OnlyJoins
  BY DEF QInv, SInv, Going
<1>2. ~Stall
  BY <1>1, SomebodyGoesOn DEF Stall
<1>3. ~stalled'
  <2>1. UNCHANGED stalls
    BY <1>2, StallsOnly
  <2> QED
    BY <1>1, <2>1 DEF stalled
<1>4. CASE \E f \in Fibers : FiberStep(f)
  BY <1>1, <1>3, <1>4, FiberStepGoes
<1>5. CASE ~\E f \in Fibers : FiberStep(f)
  <2>1. Plain
    BY <1>1, <1>2, <1>5, WorldPlain DEF Next, Runtime
  <2> QED
    BY <1>3, <2>1, PlainGoes
<1> QED
  BY <1>4, <1>5

\* Structured programs do not deadlock, however many their tasks, groups and
\* descriptors: when no task's value is read and no channel is used, Stall
\* never finds every fiber parked with nothing awaited.
THEOREM StructuredGoesOn == Valueless => (Spec => []NeverDeadlocked)
<1> SUFFICES ASSUME Valueless PROVE Spec => []NeverDeadlocked
  OBVIOUS
<1>1. Init => Going
  BY InitGoing
<1>2. IInv /\ QInv /\ SInv /\ Going /\ [Next]_vars /\ IInv' => Going'
  BY NextGoes
<1>3. Going => NeverDeadlocked
  BY DEF Going, NeverDeadlocked
<1> QED
  BY <1>1, <1>2, <1>3, InductiveScopes, PTL DEF Spec

-----------------------------------------------------------------------------
(***************************************************************************)
(* A reader woken for a descriptor finds it readable when it runs.         *)
(* Between the poll and its read(2) other fibers run and may wait for the  *)
(* same descriptor, but only the next poll can send one of them to read    *)
(* it, and the next poll comes when the run queue is empty: by then every  *)
(* reader of this one has read.  One poll sends no two readers to the same *)
(* descriptor, because no two wait for it.                                 *)
(***************************************************************************)

\* On its way to read(2): woken by an event, or never parked.
ToRead(h) == pc[h] = "read" /\ h \notin ioq /\ ~cancelled[h]

Backed ==
    /\ \A h \in ioq : pc[h] = "read" /\ subject[h] = waitFd[h]
    /\ \A h \in Fibers :
         pc[h] = "read" => state[h] \in {"io", "runnable", "running"}
    /\ \A h \in Fibers : ToRead(h) => subject[h] \in readable \cup RegularFds
    /\ \A h, k \in Fibers :
         ToRead(h) /\ ToRead(k) /\ h # k /\ subject[h] = subject[k]
           => subject[h] \in RegularFds

BackInv == ~stalled => Backed

\* What the invariant is for.
LEMMA BackedReads ==
    ASSUME Queued, Backed
    PROVE  ReadNeverBlocks
<1> SUFFICES ASSUME NEW f \in Fibers, Runs(f), pc[f] = "read", ~cancelled[f]
             PROVE  subject[f] \in readable \cup RegularFds
  BY DEF ReadNeverBlocks
<1>1. f \notin ioq
  BY DEF Runs, Queued, Running, Registered
<1> QED
  BY <1>1 DEF Backed, ToRead

\* At first nobody reads.
LEMMA InitBacked == Init => Backed
  BY DEF Init, SchedInit, Backed, ToRead

\* A step that sends nobody to read(2) and takes no event away: the readers W
\* that it takes off their descriptors are told to stop.
LeavesReaders(W) ==
    /\ ioq' = ioq \ W
    /\ \A h \in Fibers : cancelled[h] => cancelled'[h]
    /\ \A h \in W : cancelled'[h]
    /\ \A h \in Fibers \ W : waitFd'[h] = waitFd[h]
    /\ readable \subseteq readable'
    /\ \A h \in Fibers :
         \/ /\ pc'[h] = pc[h] /\ subject'[h] = subject[h]
            /\ state'[h] \in {state[h], "runnable", "running"}
         \/ pc'[h] # "read" /\ h \notin ioq

\* Such a step keeps the invariant.
LEMMA StaysBacked ==
    ASSUME IInv, Queued, Backed, NEW W, LeavesReaders(W)
    PROVE  Backed'
<1> USE DEF LeavesReaders
<1>1. ioq \subseteq Fibers
  BY DEF IInv, TypeOK, SchedTypeOK
<1>2. \A h \in Fibers : ToRead(h)' => ToRead(h) /\ subject'[h] = subject[h]
  BY DEF ToRead
<1>3. \A h \in ioq' : pc'[h] = "read" /\ subject'[h] = waitFd'[h]
  BY <1>1 DEF Backed
<1>4. \A h \in Fibers :
         pc'[h] = "read" => state'[h] \in {"io", "runnable", "running"}
  BY DEF Backed
<1>5. \A h \in Fibers : ToRead(h)' => subject'[h] \in readable' \cup RegularFds
  BY <1>2 DEF Backed
<1>6. \A h, k \in Fibers :
         ToRead(h)' /\ ToRead(k)' /\ h # k /\ subject'[h] = subject'[k]
           => subject'[h] \in RegularFds
  BY <1>2 DEF Backed
<1> QED
  BY <1>3, <1>4, <1>5, <1>6 DEF Backed

\* One that takes nobody off a descriptor.
LEMMA StillBacked ==
    ASSUME IInv, Queued, Backed, UNCHANGED <<ioq, waitFd>>,
           \A h \in Fibers : cancelled[h] => cancelled'[h],
           readable \subseteq readable',
           \A h \in Fibers :
             \/ /\ pc'[h] = pc[h] /\ subject'[h] = subject[h]
                /\ state'[h] \in {state[h], "runnable", "running"}
             \/ pc'[h] # "read" /\ h \notin ioq
    PROVE  Backed'
<1>1. LeavesReaders({})
  BY DEF LeavesReaders
<1> QED
  BY <1>1, StaysBacked

\* A read empties its own descriptor at most.
LEMMA ReadsOnBacked ==
    ASSUME IInv, Queued, Backed, NEW f \in Fibers, TaskReadsOn(f)
    PROVE  Backed'
<1>1. /\ Runs(f) /\ pc[f] = "read" /\ state[f] = "running" /\ f \notin ioq
      /\ UNCHANGED <<state, cancelled, ioq, waitFd>>
      /\ readable' = readable
           \/ (ToRead(f) /\ readable' = readable \ {subject[f]})
  BY DEF TaskReadsOn, Read, Runs, Queued, Running, Registered, ioVars, ToRead
<1>2. \A h \in Fibers : IF h = f THEN pc'[h] = "user"
                        ELSE pc'[h] = pc[h] /\ subject'[h] = subject[h]
  BY DEF TaskReadsOn, Read, Continue, IInv, TypeOK, SchedTypeOK, GroupTypeOK,
         SubjectOK
<1>3. \A h \in Fibers : ToRead(h)' =>
         ToRead(h) /\ h # f /\ subject'[h] = subject[h]
  BY <1>1, <1>2 DEF ToRead
<1>4. \A h \in ioq : h \in Fibers /\ h # f
  BY <1>1 DEF IInv, TypeOK, SchedTypeOK
<1>5. \A h \in ioq' : pc'[h] = "read" /\ subject'[h] = waitFd'[h]
  BY <1>1, <1>2, <1>4 DEF Backed
<1>6. \A h \in Fibers :
         pc'[h] = "read" => state'[h] \in {"io", "runnable", "running"}
  BY <1>1, <1>2 DEF Backed
<1>7. \A h \in Fibers : ToRead(h)' => subject'[h] \in readable' \cup RegularFds
  BY <1>1, <1>3 DEF Backed
<1>8. \A h, k \in Fibers :
         ToRead(h)' /\ ToRead(k)' /\ h # k /\ subject'[h] = subject'[k]
           => subject'[h] \in RegularFds
  BY <1>3 DEF Backed
<1> QED
  BY <1>5, <1>6, <1>7, <1>8 DEF Backed

\* A fiber that asks to read parks for the event, or need not.
LEMMA ReadsBacked ==
    ASSUME IInv, Queued, Backed, NEW f \in Fibers, TaskReads(f)
    PROVE  Backed'
<1>1. state[f] = "running" /\ f \notin ioq /\ pc[f] = "user"
  BY DEF TaskReads, Starts, InUser, Runs, Queued, Running, Registered
<1>2. PICK fd \in Fds : WaitReadable(f, fd)
  BY DEF TaskReads
<1>3. /\ pc \in [Fibers -> Continuations] /\ subject \in [Fibers -> Subjects]
      /\ state \in [Fibers -> States] /\ ioq \subseteq Fibers
      /\ waitFd \in [Fibers -> Fds \cup {None}]
  BY DEF IInv, TypeOK, SchedTypeOK, GroupTypeOK, SubjectOK
<1>4. CASE UNCHANGED <<state, pc, subject, cancelled, ioVars, readable>>
  BY <1>4, StillBacked DEF ioVars
<1>5. CASE Raise(f) /\ UNCHANGED <<state, cancelled, ioVars, readable>>
  <2>1. \A h \in Fibers : IF h = f THEN pc'[h] # "read"
                          ELSE pc'[h] = pc[h] /\ subject'[h] = subject[h]
    BY <1>3, <1>5 DEF Raise, Continue
  <2> QED
    BY <1>1, <1>5, <2>1, StillBacked DEF ioVars
<1>6. CASE /\ Continue(f, "read", fd) /\ fd \in RegularFds
           /\ UNCHANGED <<state, cancelled, ioVars, readable>>
  <2>1. \A h \in Fibers : IF h = f THEN pc'[h] = "read" /\ subject'[h] = fd
                          ELSE pc'[h] = pc[h] /\ subject'[h] = subject[h]
    BY <1>3, <1>6 DEF Continue
  <2>2. \A h \in Fibers \ {f} :
           (ToRead(h)' <=> ToRead(h)) /\ subject'[h] = subject[h]
    BY <1>6, <2>1 DEF ToRead, ioVars
  <2>3. \A h \in ioq' : pc'[h] = "read" /\ subject'[h] = waitFd'[h]
    BY <1>1, <1>3, <1>6, <2>1 DEF Backed, ioVars
  <2>4. \A h \in Fibers :
           pc'[h] = "read" => state'[h] \in {"io", "runnable", "running"}
    BY <1>1, <1>6, <2>1 DEF Backed
  <2>5. \A h \in Fibers :
           ToRead(h)' => subject'[h] \in readable' \cup RegularFds
    BY <1>6, <2>1, <2>2 DEF Backed
  <2>6. \A h, k \in Fibers :
           ToRead(h)' /\ ToRead(k)' /\ h # k /\ subject'[h] = subject'[k]
             => subject'[h] \in RegularFds
    BY <1>6, <2>1, <2>2 DEF Backed
  <2> QED
    BY <2>3, <2>4, <2>5, <2>6 DEF Backed
<1>7. CASE /\ Continue(f, "read", fd) /\ Parks(f, "io")
           /\ waitFd' = [waitFd EXCEPT ![f] = fd] /\ ioq' = ioq \cup {f}
           /\ UNCHANGED <<cancelled, readable>>
  <2>1. \A h \in Fibers :
          IF h = f THEN /\ pc'[h] = "read" /\ subject'[h] = fd
                        /\ waitFd'[h] = fd /\ state'[h] = "io"
          ELSE /\ pc'[h] = pc[h] /\ subject'[h] = subject[h]
               /\ waitFd'[h] = waitFd[h] /\ state'[h] = state[h]
    BY <1>3, <1>7 DEF Continue, Parks
  <2>2. \A h \in Fibers : ToRead(h)' =>
           ToRead(h) /\ h # f /\ subject'[h] = subject[h]
    BY <1>7, <2>1 DEF ToRead
  <2>3. \A h \in ioq' : pc'[h] = "read" /\ subject'[h] = waitFd'[h]
    BY <1>1, <1>3, <1>7, <2>1 DEF Backed
  <2>4. \A h \in Fibers :
           pc'[h] = "read" => state'[h] \in {"io", "runnable", "running"}
    BY <2>1 DEF Backed
  <2>5. \A h \in Fibers :
           ToRead(h)' => subject'[h] \in readable' \cup RegularFds
    BY <1>7, <2>2 DEF Backed
  <2>6. \A h, k \in Fibers :
           ToRead(h)' /\ ToRead(k)' /\ h # k /\ subject'[h] = subject'[k]
             => subject'[h] \in RegularFds
    BY <2>2 DEF Backed
  <2> QED
    BY <2>3, <2>4, <2>5, <2>6 DEF Backed
<1> QED
  BY <1>2, <1>4, <1>5, <1>6, <1>7
     DEF WaitReadable, AtOnce, schedVars, worldVars

\* A poll sends to read whoever its events are for, and finds nobody still
\* on the way.
LEMMA PollBacked ==
    ASSUME IInv, Queued, Backed, Poll
    PROVE  Backed'
<1>1. PICK W \in SUBSET ioq :
        Delivered(W) /\ Forget(W) /\ \E q : state' = Enqueued(state, q)
  BY DEF Poll
<1>2. runq = <<>> /\ parked /\ UNCHANGED <<pc, subject, cancelled, readable>>
  BY DEF Poll, worldVars
<1>3. /\ ioq' = ioq \ W
      /\ \A h \in Fibers : waitFd'[h] = IF h \in W THEN None ELSE waitFd[h]
      /\ W \subseteq ioq /\ ioq \subseteq Fibers
  BY <1>1 DEF Forget, IInv, TypeOK, SchedTypeOK
<1>4. \A h \in Fibers : ~ToRead(h)
  <2>1. \A h \in Fibers : state[h] # "runnable"
    BY <1>2 DEF Queued, Lists, InState, ToSet
  <2>2. \A h \in Fibers : state[h] # "running" /\ (state[h] = "io" => h \in ioq)
    BY <1>2 DEF Queued, Running, Registered
  <2> QED
    BY <2>1, <2>2 DEF Backed, ToRead
<1>5. \A h \in Fibers : ToRead(h)' => h \in W
  BY <1>2, <1>3, <1>4 DEF ToRead
<1>6. \A h \in W : subject[h] = waitFd[h] /\ waitFd[h] \in readable
  BY <1>1, <1>3 DEF Delivered, Backed
<1>7. \A h, k \in W : subject[h] = subject[k] => h = k
  BY <1>3, <1>6 DEF Queued, Registered
<1>8. \A h \in ioq' : pc'[h] = "read" /\ subject'[h] = waitFd'[h]
  BY <1>2, <1>3 DEF Backed
<1>9. \A h \in Fibers :
         pc'[h] = "read" => state'[h] \in {"io", "runnable", "running"}
  BY <1>1, <1>2 DEF Backed, Enqueued
<1>10. \A h \in Fibers : ToRead(h)' => subject'[h] \in readable' \cup RegularFds
  BY <1>2, <1>5, <1>6
<1>11. \A h, k \in Fibers :
         ToRead(h)' /\ ToRead(k)' /\ h # k /\ subject'[h] = subject'[k]
           => subject'[h] \in RegularFds
  BY <1>2, <1>5, <1>7
<1> QED
  BY <1>8, <1>9, <1>10, <1>11 DEF Backed

\* Every step of a fiber's program.
LEMMA FiberStepBacked ==
    ASSUME IInv, Queued, Backed, NEW f \in Fibers, FiberStep(f)
    PROVE  Backed'
<1>1. state[f] = "running" /\ f \notin ioq
  BY StepRuns DEF Runs, Queued, Running, Registered
<1>2. /\ pc \in [Fibers -> Continuations] /\ subject \in [Fibers -> Subjects]
      /\ state \in [Fibers -> States]
  BY DEF IInv, TypeOK, SchedTypeOK, GroupTypeOK, SubjectOK
<1>3. CASE TaskReturns(f) \/ TaskDies(f)
  <2>1. PICK isFailure \in BOOLEAN : Complete(f, isFailure)
    <3>1. (~cancelled[f]) \in BOOLEAN
            /\ \A isError \in BOOLEAN : (isError /\ ~cancelled[f]) \in BOOLEAN
      BY DEF IInv, TypeOK, SchedTypeOK
    <3> QED
      BY <1>3, <3>1 DEF TaskReturns, TaskDies
  <2> DEFINE g == group[f]
             W == IF isFailure /\ ~failed[g] THEN Woken(g) ELSE {}
  <2>2. /\ cancelled' = [c \in Fibers |-> cancelled[c] \/
                           ((isFailure /\ ~failed[g]) /\ c \in Flagged(g))]
        /\ Forget(W) /\ Continue(f, "dead", None) /\ UNCHANGED readable
        /\ \E q : state' = [Enqueued(state, q) EXCEPT ![f] = "done"]
    BY <2>1 DEF Complete, worldVars
  <2>3. g \in Groups
    BY <1>3, StepRuns DEF TaskReturns, TaskDies, Runs, IInv, Placed, Made
  <2>4. \A h \in W : h \in Fibers /\ cancelled'[h]
    BY <2>2, <2>3, ChildrenType DEF Woken, Flagged
  <2> HIDE DEF W
  <2>5. /\ \A h \in Fibers : cancelled[h] => cancelled'[h]
        /\ ioq' = ioq \ W /\ \A h \in Fibers \ W : waitFd'[h] = waitFd[h]
    BY <2>2 DEF Forget
  <2>6. \A h \in Fibers :
          IF h = f THEN pc'[h] = "dead"
          ELSE /\ pc'[h] = pc[h] /\ subject'[h] = subject[h]
               /\ state'[h] \in {state[h], "runnable"}
    BY <1>2, <2>2 DEF Continue, Enqueued
  <2> QED
    <3>1. LeavesReaders(W)
      BY <1>1, <2>2, <2>4, <2>5, <2>6 DEF LeavesReaders
    <3> QED
      BY <3>1, StaysBacked
<1>4. CASE ~(TaskReturns(f) \/ TaskDies(f) \/ TaskReads(f) \/ TaskReadsOn(f))
  <2>1. UNCHANGED <<ioq, waitFd, cancelled, readable>>
    BY <1>4 DEF FiberStep, TaskSleeps, Sleep, TaskPanics, OpenGroup, Spawn,
                LeaveGroup, DrainGroup, PopsGroup, Gather, JoinParks,
                JoinReturns, Value, ValueParks, ValueReturns, schedVars,
                quietVars, ioVars, worldVars
  <2>2. pc[f] # "read"
    BY <1>4 DEF FiberStep, TaskSleeps, TaskPanics, OpenGroup, Spawn,
                LeaveGroup, DrainGroup, Gather, JoinParks, JoinReturns, Value,
                ValueParks, ValueReturns, Starts, InUser
  <2>3. /\ \A h \in Fibers \ {f} : pc'[h] = pc[h] /\ subject'[h] = subject[h]
        /\ pc'[f] # "read"
    <3>1. \/ UNCHANGED <<pc, subject>>
          \/ \E step \in {"user", "gjoin", "drain", "value"} :
                \E what : Continue(f, step, what)
      <4>1. Raise(f) => \E what : Continue(f, "drain", what)
        BY DEF Raise
      <4>2. CASE TaskSleeps(f) \/ OpenGroup(f) \/ Spawn(f) \/ JoinParks(f)
        BY <4>2 DEF TaskSleeps, Sleep, OpenGroup, Spawn, JoinParks, schedVars
      <4>3. CASE \/ LeaveGroup(f) \/ DrainGroup(f) \/ Gather(f) \/ Value(f)
                 \/ ValueReturns(f)
        BY <4>3 DEF LeaveGroup, DrainGroup, PopsGroup, Gather, Value,
                    ValueReturns
      <4>4. CASE TaskPanics(f) \/ JoinReturns(f) \/ ValueParks(f)
        BY <4>1, <4>4 DEF TaskPanics, JoinReturns, ValueParks
      <4> QED
        BY <1>4, <4>2, <4>3, <4>4 DEF FiberStep
    <3> QED
      BY <1>2, <2>2, <3>1 DEF Continue
  <2>4. \A h \in Fibers \ {f} : state'[h] \in {state[h], "runnable"}
    <3>1. \/ UNCHANGED state
          \/ \E st : Parks(f, st)
          \/ \E q : state' = Enqueued(state, q)
      BY <1>4 DEF FiberStep, TaskSleeps, Sleep, TaskPanics, OpenGroup, Spawn,
                  LeaveGroup, DrainGroup, PopsGroup, Gather, JoinParks,
                  JoinReturns, Value, ValueParks, ValueReturns, schedVars
    <3> QED
      BY <1>2, <3>1 DEF Parks, Enqueued
  <2> QED
    BY <1>1, <2>1, <2>3, <2>4, StillBacked
<1> QED
  BY <1>3, <1>4, ReadsBacked, ReadsOnBacked

\* The invariant is inductive.
LEMMA NextBacked ==
    ASSUME IInv, QInv, BackInv, [Next]_vars
    PROVE  BackInv'
<1> SUFFICES ASSUME ~stalled' PROVE Backed'
  BY DEF BackInv
<1>1. Queued /\ Backed
  BY StalledStays DEF QInv, BackInv
<1>2. CASE \E f \in Fibers : FiberStep(f)
  BY <1>1, <1>2, FiberStepBacked
<1>3. CASE Poll
  BY <1>1, <1>3, PollBacked
<1>4. CASE Dispatch
  <2>1. /\ UNCHANGED <<pc, subject, cancelled, ioq, waitFd, readable>>
        /\ \A h \in Fibers : state'[h] \in {state[h], "running"}
    BY <1>4 DEF Dispatch, ioVars, worldVars, IInv, TypeOK, SchedTypeOK
  <2> QED
    BY <1>1, <2>1, StillBacked
<1>5. CASE ~Dispatch /\ ~Poll /\ ~\E f \in Fibers : FiberStep(f)
  <2>1. /\ UNCHANGED <<pc, subject, cancelled, ioq, waitFd, state>>
        /\ readable \subseteq readable'
    <3>1. CASE Stall
      BY <3>1, StallTold DEF Stall, ioVars, worldVars
    <3>2. CASE ~Stall
      BY <1>5, <3>2 DEF Next, Runtime, Reschedules, Passes, Tick, MainReturns,
                        MainDies, Exit, Over, Answers, Arrive, vars, schedVars,
                        ioVars, worldVars
    <3> QED
      BY <3>1, <3>2
  <2> QED
    BY <1>1, <2>1, StillBacked
<1> QED
  BY <1>2, <1>3, <1>4, <1>5

-----------------------------------------------------------------------------
(***************************************************************************)
(* Sleepers: the sleep list is the sleeping fibers in the order of their   *)
(* deadlines, so that the prefix a poll takes is all that is due.          *)
(***************************************************************************)

\* What a step does to the fibers that sleep.
WokenInTime ==
    /\ \A f \in Fibers :
         state[f] = "sleeping" /\ state'[f] # "sleeping" =>
             cancelled'[f] \/ deadline[f] <= now
    /\ parked /\ runq = <<>> /\ runq' # <<>> =>
         \A f \in Fibers : state'[f] = "sleeping" => deadline[f] > now

\* A poll that wakes anyone wakes every sleeper whose time has come.
LEMMA PollInTime ==
    ASSUME IInv, Queued, Poll, UNCHANGED <<taskVars, groupVars, progVars>>
    PROVE  WokenInTime
<1>1. PICK W \in SUBSET ioq, n \in 0..Len(sleepq) :
        /\ Expired(n)
        /\ \E w \in SetToSeqs(W) : runq' = w \o SubSeq(sleepq, 1, n)
        /\ state' = Enqueued(state, runq')
        /\ sleepq' = SubSeq(sleepq, n + 1, Len(sleepq))
  BY DEF Poll
<1>2. PICK s \in Seq(Fibers) : s = sleepq
  BY DEF IInv, TypeOK, SchedTypeOK
<1>3. /\ Len(s) \in Nat /\ DOMAIN s = 1..Len(s) /\ n \in Nat /\ n <= Len(s)
      /\ \A i \in DOMAIN s : s[i] \in Fibers /\ i \in Nat
  BY <1>1, <1>2
<1>4. \A f \in Fibers : state[f] = "sleeping" <=> \E i \in DOMAIN s : s[i] = f
  BY <1>2 DEF Queued, Lists, InState, ToSet
<1>5. now \in Nat /\ \A f \in Fibers : deadline[f] \in Nat
  <2>1. now \in 0..MaxTime /\ deadline \in [Fibers -> 0..MaxTime]
    BY DEF IInv, TypeOK, SchedTypeOK
  <2>2. 0..MaxTime \subseteq Nat
    OBVIOUS
  <2> QED
    BY <2>1, <2>2
<1>6. \A i \in 1..n : deadline[s[i]] <= now
  BY <1>1, <1>2 DEF Expired
<1>7. \A i \in DOMAIN s : i > n => deadline[s[i]] > now
  <2> SUFFICES ASSUME NEW i \in DOMAIN s, i > n PROVE deadline[s[i]] > now
    OBVIOUS
  <2>1. n + 1 \in DOMAIN s /\ n < Len(s) /\ (n + 1 < i \/ n + 1 = i)
    BY <1>3
  <2>2. deadline[s[n + 1]] > now
    BY <1>1, <1>2, <2>1 DEF Expired
  <2>3. n + 1 < i => deadline[s[n + 1]] <= deadline[s[i]]
    BY <1>2, <2>1 DEF Queued, SleepSorted
  <2>4. deadline[s[i]] \in Nat /\ deadline[s[n + 1]] \in Nat
    BY <1>3, <1>5, <2>1
  <2> QED
    BY <1>5, <2>1, <2>2, <2>3, <2>4
<1>8. \A f \in Fibers : state'[f] = "sleeping" =>
         state[f] = "sleeping" /\ f \notin ToSet(runq')
  BY <1>1 DEF Enqueued
<1>9. Lists(sleepq', {f \in Fibers : state'[f] = "sleeping"})
  BY PollQueued DEF Queued, InState
<1>10. \A f \in Fibers : state'[f] = "sleeping" <=>
         \E i \in DOMAIN s : i > n /\ s[i] = f
  <2>1. DOMAIN sleepq' = 1..(Len(s) - n)
          /\ \A i \in 1..(Len(s) - n) : sleepq'[i] = s[n + i]
    BY <1>1, <1>2, <1>3
  <2>2. \A f \in Fibers : state'[f] = "sleeping" <=>
           \E i \in 1..(Len(s) - n) : s[n + i] = f
    BY <1>9, <2>1 DEF Lists, ToSet
  <2>3. \A i \in 1..(Len(s) - n) : n + i \in DOMAIN s /\ n + i > n
    BY <1>3
  <2>4. \A i \in DOMAIN s :
           i > n => i - n \in 1..(Len(s) - n) /\ n + (i - n) = i
    BY <1>3
  <2> QED
    BY <2>2, <2>3, <2>4
<1>11. \A f \in Fibers : state[f] = "sleeping" /\ state'[f] # "sleeping" =>
          deadline[f] <= now
  <2> SUFFICES ASSUME NEW f \in Fibers, state[f] = "sleeping",
                      state'[f] # "sleeping"
               PROVE  deadline[f] <= now
    OBVIOUS
  <2>1. PICK i \in DOMAIN s : s[i] = f
    BY <1>4
  <2>2. i \in 1..n
    BY <1>3, <1>10, <2>1
  <2> QED
    BY <1>6, <2>1, <2>2
<1> QED
  BY <1>7, <1>10, <1>11 DEF WokenInTime

\* The end of a task takes a sleeper off the list only to stop it.
LEMMA CompleteWakes ==
    ASSUME IInv, Queued, NEW f \in Fibers, Runs(f), group[f] \in Groups,
           NEW isFailure \in BOOLEAN, Complete(f, isFailure)
    PROVE  \A h \in Fibers : state[h] = "sleeping" /\ state'[h] # "sleeping"
             => cancelled'[h]
<1> DEFINE g == group[f]
           woken == IF isFailure /\ ~failed[g] THEN Woken(g) ELSE {}
<1>1. SleepRemove(woken)
        /\ cancelled' = [c \in Fibers |-> cancelled[c] \/
                           ((isFailure /\ ~failed[g]) /\ c \in Flagged(g))]
  BY DEF Complete
<1>2. \A h \in woken : h \in Fibers => cancelled'[h]
  BY <1>1 DEF Woken
<1>3. woken \subseteq Fibers
  BY ChildrenType DEF Woken, Flagged
<1> HIDE DEF woken
<1>4. Lists(sleepq', InState("sleeping") \ woken)
  <2>1. ToSet(sleepq) = InState("sleeping")
    BY DEF Queued, Lists
  <2>2. IsFiniteSet(InState("sleeping") \ woken)
    BY FS_Subset, SchedulerAssumption DEF InState
  <2>3. sleepq' \in SetToSeqs(InState("sleeping") \ woken)
    BY <1>1, <2>1 DEF SleepRemove, InOrder
  <2> QED
    BY <2>2, <2>3, ListsSet
<1>5. Lists(sleepq, InState("sleeping"))'
  BY CompleteQueued DEF Queued
<1>6. InState("sleeping")' = InState("sleeping") \ woken
  BY <1>4, <1>5 DEF Lists
<1> QED
  BY <1>2, <1>6 DEF InState

\* Whoever else wakes a sleeper has told it to stop.
LEMMA NextInTime ==
    ASSUME IInv, QInv, [Next]_vars, ~stalled'
    PROVE  WokenInTime
<1>1. Queued
  BY StalledStays DEF QInv
<1>2. CASE Reschedules
  <2>1. CASE Dispatch
    <3>1. Head(runq) \in InState("runnable") /\ runq # <<>>
      BY <1>1, <2>1, ListsTail DEF Dispatch, Queued
    <3> QED
      BY <2>1, <3>1
         DEF Dispatch, InState, WokenInTime, IInv, TypeOK, SchedTypeOK
  <2>2. CASE Stall
    BY <2>2 DEF Stall, WokenInTime
  <2> QED
    BY <1>1, <1>2, <2>1, <2>2, PollInTime DEF Reschedules
<1>3. ASSUME NEW f \in Fibers, FiberStep(f) PROVE WokenInTime
  <2>1. Runs(f) /\ state[f] = "running" /\ ~parked
    BY <1>1, <1>3, StepRuns DEF Runs, Queued, Running
  <2>2. CASE TaskReturns(f) \/ TaskDies(f)
    <3>1. PICK isFailure \in BOOLEAN : Complete(f, isFailure)
      <4>1. (~cancelled[f]) \in BOOLEAN
              /\ \A isError \in BOOLEAN : (isError /\ ~cancelled[f]) \in BOOLEAN
        BY DEF IInv, TypeOK, SchedTypeOK
      <4> QED
        BY <2>2, <4>1 DEF TaskReturns, TaskDies
    <3>2. group[f] \in Groups
      BY <2>1, <2>2 DEF TaskReturns, TaskDies, Runs, IInv, Placed, Made
    <3>3. \A h \in Fibers : state[h] = "sleeping" /\ state'[h] # "sleeping"
             => cancelled'[h]
      BY <1>1, <2>1, <3>1, <3>2, CompleteWakes
    <3> QED
      BY <2>1, <3>3 DEF WokenInTime
  <2>3. CASE ~(TaskReturns(f) \/ TaskDies(f))
    <3>1. \/ UNCHANGED state
          \/ \E st : Parks(f, st)
          \/ \E c \in Fibers :
               state[c] = "new" /\ state' = Enqueued(state, <<c>>)
      BY <1>3, <2>3
         DEF FiberStep, TaskSleeps, Sleep, TaskReads, WaitReadable, TaskReadsOn,
             Read, TaskPanics, OpenGroup, Spawn, LeaveGroup, DrainGroup,
             PopsGroup, Gather, JoinParks, JoinReturns, Value, ValueParks,
             ValueReturns, schedVars
    <3>2. \A c \in Fibers : ToSet(<<c>>) = {c}
      BY ListsOne DEF Lists
    <3>3. \A h \in Fibers : state[h] = "sleeping" => state'[h] = "sleeping"
      BY <2>1, <3>1, <3>2 DEF Parks, Enqueued, IInv, TypeOK, SchedTypeOK
    <3> QED
      BY <2>1, <3>3 DEF WokenInTime
  <2> QED
    BY <2>2, <2>3
<1>4. CASE ~Reschedules /\ ~\E f \in Fibers : FiberStep(f)
  <2>1. UNCHANGED <<state, runq>>
    BY <1>4 DEF Next, Runtime, Passes, Tick, MainReturns, MainDies, Exit, Over,
                Answers, Arrive, vars, schedVars
  <2> QED
    BY <2>1 DEF WokenInTime
<1> QED
  BY <1>2, <1>3, <1>4

\* In the same programs, which never meet a deadlock, reads never block the
\* thread, and sleepers wake neither early nor late.
THEOREM StructuredIsTimely ==
    Valueless => (Spec => []ReadNeverBlocks /\ SleepersWakeOnTime)
<1> SUFFICES ASSUME Valueless
             PROVE  Spec => []ReadNeverBlocks /\ SleepersWakeOnTime
  OBVIOUS
<1>1. Init => BackInv
  BY InitBacked DEF BackInv
<1>2. IInv /\ QInv /\ BackInv /\ [Next]_vars => BackInv'
  BY NextBacked
<1>3. QInv /\ BackInv /\ NeverDeadlocked => ReadNeverBlocks
  BY BackedReads DEF QInv, BackInv, NeverDeadlocked
<1>4. IInv /\ QInv /\ [Next]_vars /\ NeverDeadlocked'
        => [/\ \A f \in Fibers :
                 state[f] = "sleeping" /\ state'[f] # "sleeping" =>
                     cancelled'[f] \/ deadline[f] <= now
            /\ parked /\ runq = <<>> /\ runq' # <<>> =>
                 \A f \in Fibers :
                    state'[f] = "sleeping" => deadline[f] > now]_vars
  BY NextInTime DEF WokenInTime, NeverDeadlocked
<1>5. Spec => []NeverDeadlocked
  BY StructuredGoesOn
<1> QED
  BY <1>1, <1>2, <1>3, <1>4, <1>5, InductiveQueues, PTL
     DEF Spec, SleepersWakeOnTime
=============================================================================
