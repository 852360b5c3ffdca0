--------------------------- MODULE IyiFeedProofs ---------------------------
(***************************************************************************)
(* In a program without select, short of cancellations, whatever is in a   *)
(* buffer has a receiver on its way while receivers are parked, for every  *)
(* set of fibers, groups and channels, every capacity and every program.   *)
(***************************************************************************)
EXTENDS IyiRendezvousProofs

-----------------------------------------------------------------------------
(***************************************************************************)
(* A receiver that is on its way gets there: it is on the run queue or on  *)
(* the processor, and no step but its own, nor the deadlock panic, takes   *)
(* it out of its operation.  QueueExact is not enough, because it ends     *)
(* with the first deadlock; what is left of it then is that nobody who is  *)
(* runnable is forgotten.                                                  *)
(***************************************************************************)

Remembered ==
    /\ \A h \in Fibers : state[h] = "runnable" => h \in ToSet(runq)
    /\ \A h \in Fibers : state[h] = "running" => h = current /\ ~parked

\* Whoever is parked on a channel is in an operation, or the deadlock panic
\* is being raised on its stack.
InOperation ==
    \A h \in Fibers : state[h] = "chan" =>
        IF panicked[h] THEN h = current /\ ~parked ELSE pc[h] \in Resumptions

Honoured == Remembered /\ InOperation

\* The step of f, which may leave the processor in state st, puts the fibers
\* of w on the run queue.
Puts(f, w, st) ==
    /\ runq' = runq \o w
    /\ \A h \in Fibers :
         state'[h] = IF h = f /\ parked' THEN st
                     ELSE IF h \in ToSet(w) THEN "runnable" ELSE state[h]

\* A step that puts nobody on the run queue.
LEMMA PutsNobody ==
    ASSUME IInv, NEW f \in Fibers, NEW st, UNCHANGED runq,
           Parks(f, st) \/ (UNCHANGED state /\ ~parked')
    PROVE  Puts(f, <<>>, st)
<1>1. runq \in Seq(Fibers) /\ state \in [Fibers -> States]
  BY DEF IInv, TypeOK, SchedTypeOK
<1>2. runq \o <<>> = runq
  BY <1>1
<1>3. ToSet(<<>>) = {}
  BY DEF ToSet
<1> QED
  BY <1>1, <1>2, <1>3 DEF Puts, Parks

\* The end of a task puts those it wakes on the run queue.
LEMMA CompletePuts ==
    ASSUME IInv, NEW f \in Fibers, group[f] \in Groups,
           NEW isFailure \in BOOLEAN, Complete(f, isFailure)
    PROVE  \E w \in Seq(Fibers) : Puts(f, w, "done")
<1> DEFINE g == group[f]
           fires == isFailure /\ ~failed[g]
           empty == live[g] = 1
           woken == IF fires THEN Woken(g) ELSE {}
           wakes == IF empty THEN Waiting(gjoiner[g]) ELSE <<>>
<1>1. children[g] \in Seq(Made) /\ gjoiner[g] \in Made \cup {None}
  BY DEF IInv, Placed
<1>2. woken \subseteq Made
  BY <1>1, ElementsOf DEF Woken, Flagged
<1>3. IsFiniteSet(woken)
  BY <1>2, MadeType, FS_Subset, SchedulerAssumption
<1>4. wakes \in Seq(Made) /\ Waiting(joiner[f]) \in Seq(Made)
  BY <1>1, WaitingType DEF IInv, Placed
<1>5. PICK w \in InOrder(children[g], woken) :
        /\ runq' = runq \o w \o wakes \o Waiting(joiner[f])
        /\ state' = [Enqueued(state, w \o wakes \o Waiting(joiner[f]))
                       EXCEPT ![f] = "done"]
  BY DEF Complete
<1>6. w \in Seq(Made)
  BY <1>2, <1>3, InOrderLists, SeqMonotonic
<1>7. runq \in Seq(Made) /\ Made \subseteq Fibers
  BY MadeType DEF IInv, Placed
<1>8. parked' = TRUE
  BY DEF Complete
<1> HIDE DEF woken, wakes, fires, empty, g
<1> DEFINE x == w \o wakes \o Waiting(joiner[f])
<1>9. x \in Seq(Made)
  <2>1. w \o wakes \in Seq(Made)
    BY <1>4, <1>6, ConcatProperties
  <2> QED
    BY <1>4, <2>1, ConcatProperties
<1>10. runq \o w \o wakes \o Waiting(joiner[f]) = runq \o x
  BY <1>4, <1>6, <1>7
<1> HIDE DEF x
<1>11. x \in Seq(Fibers)
  BY <1>7, <1>9, OverMore
<1>12. runq' = runq \o x /\ state' = [Enqueued(state, x) EXCEPT ![f] = "done"]
  BY <1>5, <1>10 DEF x
<1>13. Puts(f, x, "done")
  BY <1>8, <1>12 DEF Puts, Enqueued
<1> QED
  BY <1>11, <1>13

\* Every step of a fiber outside the channels.
LEMMA StepPuts ==
    ASSUME IInv, NEW f \in Fibers, FiberStep(f)
    PROVE  \E w \in Seq(Fibers), st \in {"sleeping", "io", "joining", "done"} :
             Puts(f, w, st)
<1>1. Runs(f) /\ ~parked
  BY StepRuns DEF Runs
<1>2. <<>> \in Seq(Fibers)
  OBVIOUS
<1>3. CASE TaskReturns(f) \/ TaskDies(f)
  <2>1. group[f] \in Groups
    BY <1>1, <1>3 DEF TaskReturns, TaskDies, Runs, IInv, Placed, Made
  <2>2. (~cancelled[f]) \in BOOLEAN
        /\ \A isError \in BOOLEAN : (isError /\ ~cancelled[f]) \in BOOLEAN
    BY DEF IInv, TypeOK, SchedTypeOK
  <2>3. \E isFailure \in BOOLEAN : Complete(f, isFailure)
    BY <1>3, <2>2 DEF TaskReturns, TaskDies
  <2> QED
    BY <2>1, <2>3, CompletePuts
<1>4. CASE Spawn(f)
  <2>1. PICK c \in Fibers :
          runq' = Append(runq, c) /\ state' = Enqueued(state, <<c>>)
    BY <1>4 DEF Spawn
  <2>2. runq \in Seq(Fibers)
    BY DEF IInv, TypeOK, SchedTypeOK
  <2>6. <<c>> \in Seq(Fibers)
    OBVIOUS
  <2>3. Append(runq, c) = runq \o <<c>>
    BY <2>2, <2>6
  <2>4. ~parked'
    BY <1>1, <1>4 DEF Spawn
  <2>5. Puts(f, <<c>>, "done")
    BY <2>1, <2>3, <2>4 DEF Puts, Enqueued
  <2> QED
    BY <2>5, <2>6
<1>5. CASE TaskSleeps(f) \/ TaskReads(f) \/ JoinParks(f) \/ ValueParks(f)
  <2>1. UNCHANGED runq
    BY <1>5 DEF TaskSleeps, Sleep, TaskReads, WaitReadable, JoinParks,
                ValueParks, schedVars
  <2>2. \/ \E st \in {"sleeping", "io", "joining"} : Parks(f, st)
        \/ UNCHANGED <<state, parked>>
    BY <1>5 DEF TaskSleeps, Sleep, TaskReads, WaitReadable, JoinParks,
                ValueParks, schedVars
  <2>3. CASE UNCHANGED <<state, parked>>
    <3>1. UNCHANGED state /\ ~parked'
      BY <1>1, <2>3
    <3>2. Puts(f, <<>>, "done")
      BY <2>1, <3>1, PutsNobody
    <3> QED
      BY <1>2, <3>2
  <2>4. CASE \E st \in {"sleeping", "io", "joining"} : Parks(f, st)
    <3>1. PICK st \in {"sleeping", "io", "joining"} : Parks(f, st)
      BY <2>4
    <3>2. Puts(f, <<>>, st)
      BY <2>1, <3>1, PutsNobody
    <3> QED
      BY <1>2, <3>1, <3>2
  <2> QED
    BY <2>2, <2>3, <2>4
<1>6. CASE \/ TaskReadsOn(f) \/ TaskPanics(f) \/ OpenGroup(f) \/ LeaveGroup(f)
           \/ DrainGroup(f) \/ Gather(f) \/ JoinReturns(f) \/ Value(f)
           \/ ValueReturns(f)
  <2>1. UNCHANGED <<runq, state, parked>>
    BY <1>6 DEF TaskReadsOn, Read, TaskPanics, OpenGroup, LeaveGroup,
                DrainGroup, PopsGroup, Gather, JoinReturns, Value,
                ValueReturns, schedVars
  <2>2. UNCHANGED runq /\ UNCHANGED state /\ ~parked'
    BY <1>1, <2>1
  <2>3. Puts(f, <<>>, "done")
    BY <2>2, PutsNobody
  <2> QED
    BY <1>2, <2>3
<1> QED
  BY <1>3, <1>4, <1>5, <1>6 DEF FiberStep

\* So is every operation on a channel.
LEMMA ViewPuts ==
    ASSUME IInv, NEW f \in Fibers, GroupView(f)
    PROVE  \E w \in Seq(Fibers) : Puts(f, w, "chan")
<1>1. ~parked
  BY DEF GroupView, OnStack, Runs
<1>2. CASE ParksOnArms(f)
  <2>1. Puts(f, <<>>, "chan")
    BY <1>2, PutsNobody DEF ParksOnArms
  <2>2. <<>> \in Seq(Fibers)
    OBVIOUS
  <2> QED
    BY <2>1, <2>2
<1>3. CASE WakesParked
  <2>1. PICK W, w :
          /\ W \subseteq InState("chan") /\ Lists(w, W)
          /\ runq' = runq \o w /\ state' = Enqueued(state, w)
    BY <1>3 DEF WakesParked
  <2>2. W \subseteq Fibers /\ w \in Seq(W)
    BY <2>1 DEF InState, Lists
  <2>3. w \in Seq(Fibers)
    BY <2>2, OverMore
  <2>4. ~parked'
    BY <1>1, <1>3 DEF WakesParked
  <2>5. Puts(f, w, "chan")
    BY <2>1, <2>4 DEF Puts, Enqueued
  <2> QED
    BY <2>3, <2>5
<1> QED
  BY <1>2, <1>3 DEF GroupView

\* Whoever is on the run queue stays there.
LEMMA PutsRemembers ==
    ASSUME IInv, Remembered, NEW f \in Fibers, Runs(f), NEW w \in Seq(Fibers),
           NEW st, st \notin {"runnable", "running"}, Puts(f, w, st),
           UNCHANGED current
    PROVE  Remembered'
<1>1. current = f /\ ~parked
  BY DEF Runs
<1>2. ToSet(runq') = ToSet(runq) \cup ToSet(w)
  <2>1. runq \in Seq(Fibers) /\ runq' = runq \o w
    BY DEF Puts, IInv, TypeOK, SchedTypeOK
  <2> QED
    BY <2>1, ElementsOfConcat
<1> QED
  BY <1>1, <1>2 DEF Remembered, Puts

\* A step of a fiber outside the channels, which is in none of their
\* operations, leaves what the others do to them, and tells nobody to go on.
LEMMA StepsAlone ==
    ASSUME IInv, NEW f \in Fibers, FiberStep(f)
    PROVE  /\ Runs(f) /\ UNCHANGED current /\ pc[f] \notin Resumptions
           /\ \A h \in Fibers \ {f} :
                pc'[h] = pc[h] /\ panicked'[h] = panicked[h]
           /\ \A h \in Fibers : cancelled[h] => cancelled'[h]
<1>1. /\ pc \in [Fibers -> Continuations] /\ panicked \in [Fibers -> BOOLEAN]
      /\ cancelled \in [Fibers -> BOOLEAN]
  BY DEF IInv, TypeOK, SchedTypeOK
<1>2. ASSUME NEW step, NEW what, Continue(f, step, what)
      PROVE  \A h \in Fibers \ {f} : pc'[h] = pc[h]
  BY <1>1, <1>2 DEF Continue
<1>3. ASSUME Raise(f)
      PROVE  \A h \in Fibers \ {f} :
               pc'[h] = pc[h] /\ panicked'[h] = panicked[h]
  BY <1>1, <1>2, <1>3 DEF Raise
<1>4. CASE TaskReturns(f) \/ TaskDies(f)
  <2>1. \E isFailure : Complete(f, isFailure)
    BY <1>4 DEF TaskReturns, TaskDies
  <2>2. /\ Continue(f, "dead", None) /\ UNCHANGED <<current, panicked>>
        /\ \A h \in Fibers : cancelled[h] => cancelled'[h]
    BY <2>1 DEF Complete
  <2>3. Runs(f) /\ pc[f] \notin Resumptions
    BY <1>4 DEF TaskReturns, TaskDies, Drained, InUser, Resumptions
  <2> QED
    BY <1>2, <2>2, <2>3
<1>5. CASE ~(TaskReturns(f) \/ TaskDies(f))
  <2>1. UNCHANGED <<current, cancelled>>
    BY <1>5 DEF FiberStep, TaskSleeps, Sleep, TaskReads, WaitReadable,
                TaskReadsOn, Read, TaskPanics, OpenGroup, Spawn, LeaveGroup,
                DrainGroup, PopsGroup, Gather, JoinParks, JoinReturns, Value,
                ValueParks, ValueReturns, schedVars, quietVars
  <2>2. Runs(f) /\ pc[f] \notin Resumptions
    BY <1>5 DEF FiberStep, TaskSleeps, TaskReads, TaskReadsOn, Read,
                TaskPanics, OpenGroup, Spawn, LeaveGroup, DrainGroup, Gather,
                JoinParks, JoinReturns, Value, ValueParks, ValueReturns,
                Starts, InUser, Resumptions
  <2>3. \/ UNCHANGED <<pc, panicked>>
        \/ Raise(f)
        \/ UNCHANGED panicked /\ \E step, what : Continue(f, step, what)
    BY <1>5 DEF FiberStep, TaskSleeps, Sleep, TaskReads, WaitReadable,
                TaskReadsOn, Read, TaskPanics, OpenGroup, Spawn, LeaveGroup,
                DrainGroup, PopsGroup, Gather, JoinParks, JoinReturns, Value,
                ValueParks, ValueReturns, schedVars
  <2> QED
    BY <1>2, <1>3, <2>1, <2>2, <2>3
<1> QED
  BY <1>4, <1>5

\* A step of a fiber outside the channels.
LEMMA StepHonours ==
    ASSUME ChanInv, RunInv, Honoured, NEW f \in Fibers, FiberStep(f)
    PROVE  Honoured'
<1>1. PICK w \in Seq(Fibers), st \in {"sleeping", "io", "joining", "done"} :
        Puts(f, w, st)
  BY StepPuts DEF ChanInv
<1>2. /\ Runs(f) /\ UNCHANGED current /\ pc[f] \notin Resumptions
      /\ \A h \in Fibers \ {f} :
           pc'[h] = pc[h] /\ panicked'[h] = panicked[h]
  BY StepsAlone DEF ChanInv
<1>3. Remembered'
  <2>1. st \notin {"runnable", "running"}
    OBVIOUS
  <2> QED
    BY <1>1, <1>2, <2>1, PutsRemembers DEF ChanInv, Honoured
<1>4. \A h \in Fibers : panicked[h] => panicked'[h]
  BY FiberLeaves DEF ChanInv, RunInv
<1>5. ASSUME NEW h \in Fibers, state'[h] = "chan"
      PROVE  IF panicked'[h] THEN h = current' /\ ~parked'
             ELSE pc'[h] \in Resumptions
  <2>1. state[h] = "chan" /\ (h = f => ~parked')
    BY <1>1, <1>5 DEF Puts
  <2>2. CASE h = f
    BY <1>2, <1>4, <2>1, <2>2 DEF RunInv, OffChan, Runs
  <2>3. CASE h # f
    <3>1. ~panicked[h]
      BY <1>2, <2>1, <2>3 DEF Honoured, InOperation, Runs
    <3> QED
      BY <1>2, <2>1, <2>3, <3>1 DEF Honoured, InOperation
  <2> QED
    BY <2>2, <2>3
<1> QED
  BY <1>3, <1>5 DEF Honoured, InOperation

\* The scheduler's own steps.
LEMMA ReschedulesHonours ==
    ASSUME ChanInv, RunInv, Honoured, Dispatch \/ Poll \/ Stall
    PROVE  Honoured'
<1>1. /\ runq \in Seq(Fibers) /\ sleepq \in Seq(Fibers)
      /\ state \in [Fibers -> States] /\ current \in Fibers
      /\ pc \in [Fibers -> Continuations] /\ panicked \in [Fibers -> BOOLEAN]
  BY DEF ChanInv, IInv, TypeOK, SchedTypeOK
<1>2. \A h \in Fibers : state[h] # "running"
  BY DEF Honoured, Remembered, Dispatch, Poll, Stall
<1>3. \A h \in Fibers :
        state[h] = "chan" => ~panicked[h] /\ pc[h] \in Resumptions
  BY DEF Honoured, InOperation, Dispatch, Poll, Stall
<1>4. CASE Dispatch
  <2>0. runq # <<>>
    BY <1>4 DEF Dispatch
  <2>1. Head(runq) \in Fibers
    BY <1>1, <2>0
  <2>2. /\ current' = Head(runq) /\ ~parked' /\ runq' = Tail(runq)
        /\ UNCHANGED <<pc, panicked>>
        /\ \A h \in Fibers :
             state'[h] = IF h = Head(runq) THEN "running" ELSE state[h]
    BY <1>1, <1>4, <2>1 DEF Dispatch
  <2>3. ASSUME NEW h \in ToSet(runq), h # Head(runq)
        PROVE  h \in ToSet(Tail(runq))
    <3>1. PICK i \in DOMAIN runq : runq[i] = h
      BY <2>3 DEF ToSet
    <3>2. i \in 2..Len(runq)
      BY <1>1, <2>0, <2>3, <3>1
    <3>3. i - 1 \in DOMAIN Tail(runq) /\ Tail(runq)[i - 1] = h
      BY <1>1, <2>0, <3>1, <3>2
    <3> QED
      BY <3>3 DEF ToSet
  <2> QED
    BY <1>2, <1>3, <2>1, <2>2, <2>3 DEF Honoured, Remembered, InOperation
<1>5. CASE Poll
  <2>1. /\ runq = <<>> /\ state' = Enqueued(state, runq')
        /\ UNCHANGED <<current, parked, pc, panicked>>
    BY <1>5 DEF Poll
  <2>2. ToSet(runq) = {}
    BY <2>1 DEF ToSet
  <2>3. \A h \in Fibers :
          state'[h] = IF h \in ToSet(runq') THEN "runnable" ELSE state[h]
    BY <2>1 DEF Enqueued
  <2> QED
    BY <1>2, <1>3, <2>1, <2>2, <2>3 DEF Honoured, Remembered, InOperation
<1>6. CASE Stall
  <2>1. UNCHANGED <<current, state, runq>>
    BY <1>6 DEF Stall
  <2>2. CASE Raise(current) /\ ~parked'
    <3>1. \A h \in Fibers : IF h = current THEN panicked'[h]
                            ELSE pc'[h] = pc[h] /\ panicked'[h] = panicked[h]
      BY <1>1, <2>2 DEF Raise, Continue
    <3>2. Remembered'
      BY <1>2, <2>1 DEF Honoured, Remembered
    <3>3. ASSUME NEW h \in Fibers, state'[h] = "chan"
          PROVE  IF panicked'[h] THEN h = current' /\ ~parked'
                 ELSE pc'[h] \in Resumptions
      <4>1. CASE h = current
        BY <2>1, <2>2, <3>1, <4>1
      <4>2. CASE h # current
        BY <1>3, <2>1, <3>1, <3>3, <4>2
      <4> QED
        BY <4>1, <4>2
    <3> QED
      BY <3>2, <3>3 DEF Honoured, InOperation
  <2>3. CASE UNCHANGED <<parked, panicked, pc>>
    BY <2>1, <2>3 DEF Honoured, Remembered, InOperation
  <2> QED
    BY <1>6, <2>2, <2>3 DEF Stall
<1> QED
  BY <1>4, <1>5, <1>6

\* Every step of the scheduler and of the groups, or none.
LEMMA NextHonours ==
    ASSUME ChanInv, RunInv, Honoured, [Next]_vars
    PROVE  Honoured'
<1>1. CASE \E f \in Fibers : FiberStep(f)
  BY <1>1, StepHonours
<1>2. CASE Reschedules
  BY <1>2, ReschedulesHonours DEF Reschedules
<1>3. CASE \/ MainReturns \/ MainDies \/ Passes \/ Over \/ UNCHANGED vars
           \/ \E fd \in Fds : Answers(fd)
  <2>1. UNCHANGED <<current, parked, state, pc, panicked, runq>>
    BY <1>3 DEF MainReturns, MainDies, Exit, Passes, Tick, Over, Answers,
                Arrive, vars, schedVars
  <2> QED
    BY <2>1 DEF Honoured, Remembered, InOperation
<1> QED
  BY <1>1, <1>2, <1>3 DEF Next, Runtime

\* An operation.
LEMMA ViewHonours ==
    ASSUME ChanInv, RunInv, Honoured, NEW f \in Fibers, GroupView(f),
           parked' => pc'[f] \in Resumptions
    PROVE  Honoured'
<1>1. PICK w \in Seq(Fibers) : Puts(f, w, "chan")
  BY ViewPuts DEF ChanInv
<1>2. /\ Runs(f) /\ UNCHANGED <<current, panicked>> /\ pc[f] \notin Unwinding
  BY FarVars DEF GroupView, OnStack, Resumptions, Unwinding
<1>3. Remembered'
  <2>1. "chan" \notin {"runnable", "running"}
    OBVIOUS
  <2> QED
    BY <1>1, <1>2, <2>1, PutsRemembers DEF ChanInv, Honoured
<1>4. ~panicked[f] /\ current = f /\ ~parked
  BY <1>2 DEF RunInv, Leaving, Runs
<1>5. \A h \in Fibers \ {f} : pc'[h] = pc[h]
  <2>1. pc \in [Fibers -> Continuations]
    BY DEF ChanInv, IInv, TypeOK, SchedTypeOK
  <2> QED
    BY <2>1 DEF GroupView, GoesOn, Continue
<1>6. ASSUME NEW h \in Fibers, state'[h] = "chan"
      PROVE  ~panicked'[h] /\ pc'[h] \in Resumptions
  <2>1. CASE h = f
    <3>1. parked'
      BY <1>1, <1>4, <1>6, <2>1 DEF Puts, RunInv, OffChan
    <3> QED
      BY <1>2, <1>4, <2>1, <3>1
  <2>2. CASE h # f
    <3>1. state[h] = "chan"
      BY <1>1, <1>6, <2>2 DEF Puts
    <3> QED
      BY <1>2, <1>4, <1>5, <2>2, <3>1 DEF Honoured, InOperation
  <2> QED
    BY <2>1, <2>2
<1> QED
  BY <1>3, <1>6 DEF Honoured, InOperation

\* No operation parks its fiber but to go on with it.
LEMMA ChanHonours ==
    ASSUME ChanInv, RunInv, Honoured, NEW f \in Fibers, ChanStep(f)
    PROVE  Honoured'
<1>1. Operates(f) /\ OnStack(f) /\ GroupView(f)
  BY StepViews
<1>2. ~parked /\ pc \in [Fibers -> Continuations]
  BY <1>1 DEF OnStack, Runs, ChanInv, IInv, TypeOK, SchedTypeOK
<1>3. ASSUME NEW as, AwaitsAll(f, as) PROVE pc'[f] \in Resumptions
  BY <1>2, <1>3 DEF AwaitsAll, Continue
<1>4. parked' => pc'[f] \in Resumptions
  BY <1>1, <1>2, <1>3
     DEF Operates, Acts, EndsRefused, Declines, BoxEmptied, Ends, Close
<1> QED
  BY <1>1, <1>4, ViewHonours

-----------------------------------------------------------------------------
(* Who is parked on a queue has an arm there *)

NodesAwait ==
    \A ch \in Channels : \A n \in ToSet(recvq[ch]) :
        Current(n) => On(arms[n.fiber], "recv", ch) # {}

\* A node in a queue of receivers names a fiber.
LEMMA WaiterOf ==
    ASSUME CInv, NEW ch \in Channels, NEW n \in ToSet(recvq[ch])
    PROVE  n.fiber \in Fibers
<1>1. recvq[ch] \in Seq(RecvNodes)
  BY NodeTypes DEF RecvNodes
<1>2. n \in RecvNodes
  BY <1>1, Element DEF ToSet
<1> QED
  BY <1>2 DEF RecvNodes

\* A step that parks nobody.
LEMMA NodesAwaitOn ==
    ASSUME NInv, CInv, Moves, NodesAwait, Drops(recvq, recvq'),
           \A h \in InState("chan") : arms'[h] = arms[h]
    PROVE  NodesAwait'
<1> SUFFICES ASSUME NEW ch \in Channels, NEW n \in ToSet(recvq'[ch]),
                    Current(n)'
             PROVE  On(arms'[n.fiber], "recv", ch) # {}
  BY DEF NodesAwait, On
<1>1. n \in ToSet(recvq[ch])
  BY DEF Drops
<1>2. Current(n)
  BY <1>1, StaleNodes
<1>3. n.fiber \in Fibers
  BY <1>1, WaiterOf
<1>4. arms'[n.fiber] = arms[n.fiber]
  BY <1>2, <1>3 DEF Current, InState
<1> QED
  BY <1>1, <1>2, <1>4 DEF NodesAwait

\* A park.
LEMMA ParkAwaits ==
    ASSUME ChanInv, RunInv, NodesAwait, NEW f \in Fibers, ChanStep(f),
           NEW as, Mine(f, as), AwaitsAll(f, as)
    PROVE  NodesAwait'
<1>1. Operates(f) /\ OnStack(f) /\ GroupView(f)
  BY StepViews
<1>2. state[f] # "chan"
  BY <1>1, ViewRuns DEF ChanInv
<1>3. \A g \in Fibers : arms'[g] = IF g = f THEN as ELSE arms[g]
  BY DEF AwaitsAll, ChanInv, CInv, ChanTypeOK
<1>4. Moves
  BY EveryStepMoves DEF ChanInv, ChanNext
<1> SUFFICES ASSUME NEW ch \in Channels, NEW n \in ToSet(recvq'[ch]),
                    Current(n)'
             PROVE  On(arms'[n.fiber], "recv", ch) # {}
  BY DEF NodesAwait, On
<1>5. Adds(f, On(as, "recv", ch), recvq[ch], recvq'[ch])
  BY ParkAdds DEF ChanInv, AwaitsAll, Mine
<1>6. CASE n \in ToSet(recvq[ch])
  <2>1. Current(n)
    BY <1>4, <1>6, StaleNodes DEF ChanInv
  <2>2. n.fiber \in Fibers
    BY <1>6, WaiterOf DEF ChanInv
  <2>3. arms'[n.fiber] = arms[n.fiber]
    BY <1>2, <1>3, <2>1, <2>2 DEF Current
  <2> QED
    BY <1>6, <2>1, <2>3 DEF NodesAwait
<1>7. CASE n \notin ToSet(recvq[ch])
  BY <1>3, <1>5, <1>7 DEF Adds
<1> QED
  BY <1>6, <1>7

\* Every step of the system.
LEMMA StepAwaits ==
    ASSUME ChanInv, RunInv, NodesAwait, [ChanNext]_allVars
    PROVE  NodesAwait'
<1>1. Moves
  BY EveryStepMoves DEF ChanInv
<1>2. CASE UNCHANGED chanVars
  <2>1. UNCHANGED <<recvq, arms>>
    BY <1>2 DEF chanVars, queueVars
  <2>2. Drops(recvq, recvq')
    BY <2>1, SameDrops DEF ChanInv, NInv
  <2> QED
    BY <1>1, <2>1, <2>2, NodesAwaitOn DEF ChanInv
<1>3. ASSUME NEW f \in Fibers, ChanStep(f) PROVE NodesAwait'
  <2>1. Operates(f) /\ OnStack(f) /\ GroupView(f)
    BY <1>3, StepViews
  <2>2. state[f] # "chan" /\ ~parked
    BY <2>1, ViewRuns DEF ChanInv, OnStack, Runs
  <2>3. CASE Ends(f) \/ Close(f)
    <3>1. ~parked'
      BY <2>2, <2>3 DEF Ends, Close
    <3>2. Releases
      BY <1>3, <3>1, EndsReleases
    <3>3. \A h \in InState("chan") : arms'[h] = arms[h]
      BY <2>2, <2>3 DEF Ends, Close, InState, ChanInv, CInv, ChanTypeOK
    <3> QED
      BY <1>1, <3>2, <3>3, NodesAwaitOn DEF ChanInv, Releases
  <2>4. CASE \E as : Mine(f, as) /\ AwaitsAll(f, as)
    BY <1>3, <2>4, ParkAwaits
  <2> QED
    BY <2>1, <2>3, <2>4
       DEF Operates, Acts, EndsRefused, Declines, BoxEmptied
<1>4. CASE UNCHANGED allVars
  BY <1>2, <1>4 DEF allVars
<1> QED
  BY <1>2, <1>3, <1>4 DEF ChanNext

-----------------------------------------------------------------------------
(* A program without select *)

\* The one arm of a send or of a receive.
Lone(as, step) ==
    /\ as \in Seq(Arms) /\ Len(as) = 1
    /\ as[1].dir = IF step = "send" THEN "send" ELSE "recv"

OneArm ==
    \A h \in Fibers : pc[h] \in Resumptions =>
        pc[h] # "select" /\ Lone(arms[h], pc[h])

\* A round of a send that begins, or of a receive.
Tries(f, as, step) ==
    /\ step \in {"send", "receive"} /\ Lone(as, step)
    /\ \/ pc[f] = "user"
       \/ pc[f] = "receive" /\ step = "receive" /\ as = arms[f]
    /\ Round(f, as, step)

\* Everything a fiber does on the channels of such a program.
Turns(f) ==
    \/ /\ pc[f] = "send" \/ cancelled[f]
       /\ Ends(f) /\ UNCHANGED <<state, items, recvq, sendq>>
    \/ Close(f)
    \/ \E as, step : Tries(f, as, step)

\* A send or a receive begins.
LEMMA BeginsTurns ==
    ASSUME CInv, NEW f \in Fibers, pc[f] = "user",
           NEW dir \in {"send", "recv"}, NEW ch \in Channels,
           NEW step \in {"send", "receive"}, dir = "send" <=> step = "send",
           Begins(f, step, <<[dir |-> dir, ch |-> ch]>>)
    PROVE  Turns(f)
<1> DEFINE l == <<[dir |-> dir, ch |-> ch]>>
           as == [i \in DOMAIN l |->
                    [dir |-> l[i].dir, ch |-> l[i].ch,
                     v |-> IF l[i].dir = "send" THEN minted + i ELSE 0]]
<1>1. minted \in Nat
  BY DEF CInv, ChanTypeOK
<1>2. DOMAIN l = 1..1 /\ l[1].dir = dir /\ l[1].ch = ch
  OBVIOUS
<1>3. as \in [1..1 -> Arms]
  <2>1. \A i \in 1..1 : i = 1
    OBVIOUS
  <2>2. (IF dir = "send" THEN minted + 1 ELSE 0) \in Nat
    BY <1>1
  <2>3. \A v \in Nat : [dir |-> dir, ch |-> ch, v |-> v] \in Arms
    BY DEF Arms
  <2> QED
    BY <1>2, <2>1, <2>2, <2>3
<1>4. as \in Seq(Arms) /\ Len(as) = 1 /\ as[1].dir = dir
  <2>1. as[1].dir = dir
    BY <1>2
  <2> HIDE DEF as
  <2> QED
    BY <1>3, <2>1, IsList
<1>5. \/ cancelled[f] /\ EndsRefused(f, as)
      \/ Round(f, as, step)
  BY DEF Begins
<1> HIDE DEF as, l
<1>6. Lone(as, step)
  BY <1>4 DEF Lone
<1>7. CASE cancelled[f] /\ EndsRefused(f, as)
  BY <1>7 DEF EndsRefused, Turns, queueVars
<1>8. CASE Round(f, as, step)
  <2>1. Tries(f, as, step)
    BY <1>6, <1>8 DEF Tries
  <2> QED
    BY <2>1 DEF Turns
<1> QED
  BY <1>5, <1>7, <1>8

\* Every operation of such a program.
LEMMA StepTurns ==
    ASSUME CInv, OneArm, ArmLists = {}, NEW f \in Fibers, ChanStep(f)
    PROVE  Turns(f)
<1>1. CASE Send(f)
  <2>1. PICK ch \in Channels :
          Begins(f, "send", <<[dir |-> "send", ch |-> ch]>>)
    BY <1>1 DEF Send
  <2>2. pc[f] = "user"
    BY <1>1 DEF Send, Starts, InUser
  <2> QED
    BY <2>1, <2>2, BeginsTurns
<1>2. CASE Receive(f)
  <2>1. PICK ch \in Channels :
          Begins(f, "receive", <<[dir |-> "recv", ch |-> ch]>>)
    BY <1>2 DEF Receive
  <2>2. pc[f] = "user"
    BY <1>2 DEF Receive, Starts, InUser
  <2> QED
    BY <2>1, <2>2, BeginsTurns
<1>3. CASE Close(f)
  BY <1>3 DEF Turns
<1>4. CASE SendResumes(f)
  BY <1>4 DEF SendResumes, BoxEmptied, EndsRefused, Turns, queueVars
<1>5. CASE ReceiveResumes(f)
  <2>1. CASE cancelled[f] /\ EndsRefused(f, arms[f])
    BY <2>1 DEF EndsRefused, Turns, queueVars
  <2>2. CASE Round(f, arms[f], "receive")
    <3>1. Lone(arms[f], "receive") /\ pc[f] = "receive"
      BY <1>5 DEF ReceiveResumes, OneArm, Resumptions
    <3>2. Tries(f, arms[f], "receive")
      BY <2>2, <3>1 DEF Tries
    <3> QED
      BY <3>2 DEF Turns
  <2> QED
    BY <1>5, <2>1, <2>2 DEF ReceiveResumes
<1>6. ~Select(f) /\ ~TrySelect(f) /\ ~SelectResumes(f)
  BY DEF Select, TrySelect, SelectResumes, OneArm, Resumptions
<1> QED
  BY <1>1, <1>2, <1>3, <1>4, <1>5, <1>6 DEF ChanStep

\* It stays a program of one arm at a time.
LEMMA StaysLone ==
    ASSUME ChanInv, OneArm, ArmLists = {}, [ChanNext]_allVars
    PROVE  OneArm'
<1>1. pc \in [Fibers -> Continuations] /\ arms \in [Fibers -> Seq(Arms)]
  BY DEF ChanInv, IInv, TypeOK, SchedTypeOK, CInv, ChanTypeOK
<1>2. CASE Next /\ UNCHANGED chanVars
  <2>1. \A h \in Fibers : pc'[h] \in Resumptions => pc'[h] = pc[h]
    BY <1>2, NextPc DEF ChanInv
  <2>2. UNCHANGED arms
    BY <1>2 DEF chanVars
  <2> QED
    BY <2>1, <2>2 DEF OneArm, Lone
<1>3. CASE UNCHANGED allVars
  BY <1>3 DEF allVars, vars, schedVars, chanVars, OneArm, Lone
<1>4. ASSUME NEW f \in Fibers, ChanStep(f) PROVE OneArm'
  <2>1. Turns(f)
    BY <1>4, StepTurns DEF ChanInv
  <2>2. CASE Ends(f)
    <3>1. \A h \in Fibers : /\ pc'[h] = IF h = f THEN "user" ELSE pc[h]
                            /\ h # f => arms'[h] = arms[h]
      BY <1>1, <2>2 DEF Ends, Continue
    <3> QED
      BY <3>1 DEF OneArm, Lone, Resumptions
  <2>3. CASE Close(f)
    BY <2>3 DEF Close, OneArm, Lone
  <2>4. ASSUME NEW as, NEW step, Tries(f, as, step), ~Ends(f)
        PROVE  OneArm'
    <3>1. /\ Lone(as, step) /\ step # "select"
          /\ \A h \in Fibers : /\ pc'[h] = IF h = f THEN step ELSE pc[h]
                               /\ arms'[h] = IF h = f THEN as ELSE arms[h]
      BY <1>1, <2>4 DEF Tries, Round, Continue
    <3> QED
      BY <3>1 DEF OneArm, Lone
  <2> QED
    BY <2>1, <2>2, <2>3, <2>4 DEF Turns
<1> QED
  BY <1>2, <1>3, <1>4 DEF ChanNext

-----------------------------------------------------------------------------
(***************************************************************************)
(* Whoever was woken for a value and has not run yet is still coming.  A   *)
(* value put into a buffer wakes a parked receiver, one taken out was      *)
(* taken by one of them, or by somebody who came in between; a receiver    *)
(* parks beside an empty buffer only.                                      *)
(***************************************************************************)

Fed(ch) ==
    {h \in Fibers : /\ pc[h] = "receive"
                    /\ state[h] \in {"runnable", "running"}
                    /\ On(arms[h], "recv", ch) # {}}

Feeding(ch) ==
    Parked(recvq[ch]) # {} => Len(items[ch]) <= Cardinality(Fed(ch))

\* What is counted on both sides of Feeding is finite.
LEMMA FedCount ==
    ASSUME CInv, CInv', NEW ch \in Channels
    PROVE  /\ Len(items[ch]) \in Nat /\ Len(items'[ch]) \in Nat
           /\ IsFiniteSet(Fed(ch)) /\ Cardinality(Fed(ch)) \in Nat
           /\ IsFiniteSet(Fed(ch)') /\ Cardinality(Fed(ch)') \in Nat
<1>1. items[ch] \in Seq(Nat) /\ items'[ch] \in Seq(Nat)
  BY DEF CInv, ChanTypeOK
<1>2. Fed(ch) \subseteq Fibers /\ Fed(ch)' \subseteq Fibers
  BY DEF Fed
<1>3. IsFiniteSet(Fibers)
  BY SchedulerAssumption
<1>4. IsFiniteSet(Fed(ch)) /\ IsFiniteSet(Fed(ch)')
  BY <1>2, <1>3, FS_Subset
<1> QED
  BY <1>1, <1>4, FS_CardinalityType

\* A step that feeds nobody, wakes whom it likes, and moves no value.
LEMMA FeedsOn ==
    ASSUME CInv, CInv', NEW ch \in Channels, Feeding(ch),
           Parked(recvq[ch])' \subseteq Parked(recvq[ch]),
           items'[ch] = items[ch], Fed(ch) \subseteq Fed(ch)'
    PROVE  Feeding(ch)'
<1>1. PICK S, T : S = Fed(ch) /\ T = Fed(ch)'
  OBVIOUS
<1>2. IsFiniteSet(T) /\ S \subseteq T
  BY <1>1, FedCount
<1>3. Cardinality(S) <= Cardinality(T)
  BY <1>2, FS_Subset
<1>4. Cardinality(Fed(ch)) <= Cardinality(Fed(ch)')
  BY <1>1, <1>3
<1>5. /\ Len(items[ch]) \in Nat
      /\ Cardinality(Fed(ch)) \in Nat /\ Cardinality(Fed(ch)') \in Nat
  BY FedCount
<1>6. ASSUME Parked(recvq[ch])' # {}
      PROVE  Len(items'[ch]) <= Cardinality(Fed(ch)')
  <2>1. Len(items[ch]) <= Cardinality(Fed(ch))
    BY <1>6 DEF Feeding
  <2> QED
    BY <1>4, <1>5, <2>1
<1> QED
  BY <1>6 DEF Feeding

\* A fiber that is parked on a queue is in a receive.
LEMMA WaiterReceives ==
    ASSUME CInv, Honoured, NodesAwait, OneArm, ~parked, state[current] # "chan",
           NEW ch \in Channels, NEW n \in ToSet(recvq[ch]), Current(n)
    PROVE  /\ n.fiber \in Fibers /\ pc[n.fiber] = "receive"
           /\ On(arms[n.fiber], "recv", ch) # {}
<1>1. n.fiber \in Fibers /\ state[n.fiber] = "chan"
  BY WaiterOf DEF Current
<1>2. pc[n.fiber] \in Resumptions
  BY <1>1 DEF Honoured, InOperation
<1>3. On(arms[n.fiber], "recv", ch) # {}
  BY DEF NodesAwait
<1>4. PICK i \in DOMAIN arms[n.fiber] : arms[n.fiber][i].dir = "recv"
  BY <1>3 DEF On
<1>5. Lone(arms[n.fiber], pc[n.fiber]) /\ pc[n.fiber] # "select"
  BY <1>1, <1>2 DEF OneArm
<1>6. i = 1
  BY <1>4, <1>5 DEF Lone
<1>7. pc[n.fiber] # "send"
  BY <1>4, <1>5, <1>6 DEF Lone
<1> QED
  BY <1>1, <1>2, <1>3, <1>5, <1>7 DEF Resumptions

\* Nobody but the fiber whose turn it is leaves off receiving, and it is
\* receiving on the channel of its arm only.
LEMMA TurnKeepsFed ==
    ASSUME ChanInv, NEW f \in Fibers, ChanStep(f), NEW ch \in Channels
    PROVE  Fed(ch) \ {f} \subseteq Fed(ch)'
<1>1. Operates(f) /\ GroupView(f)
  BY StepViews
<1>2. PICK w \in Seq(Fibers) : Puts(f, w, "chan")
  BY <1>1, ViewPuts DEF ChanInv
<1>3. \A h \in Fibers \ {f} : pc'[h] = pc[h]
  <2>1. pc \in [Fibers -> Continuations]
    BY DEF ChanInv, IInv, TypeOK, SchedTypeOK
  <2> QED
    BY <1>1, <2>1 DEF GroupView, GoesOn, Continue
<1>4. \A h \in Fibers \ {f} : arms'[h] = arms[h]
  <2>1. UNCHANGED arms \/ \E as : arms' = [arms EXCEPT ![f] = as]
    BY <1>1 DEF Operates, Acts, EndsRefused, Declines, BoxEmptied, Ends,
                AwaitsAll, Close
  <2> QED
    BY <2>1 DEF ChanInv, CInv, ChanTypeOK
<1>5. \A h \in Fibers \ {f} : state'[h] = state[h] \/ state'[h] = "runnable"
  BY <1>2 DEF Puts
<1> QED
  BY <1>3, <1>4, <1>5 DEF Fed

\* The arms of a lone arm.
LEMMA OnLone ==
    ASSUME NEW as, NEW step, Lone(as, step), NEW dir, NEW ch
    PROVE  /\ 1 \in DOMAIN as /\ as[1].ch \in Channels
           /\ \A i \in DOMAIN as : i = 1
           /\ On(as, dir, ch) # {} => as[1].dir = dir /\ as[1].ch = ch
<1>1. as \in Seq(Arms) /\ Len(as) = 1
  BY DEF Lone
<1>2. DOMAIN as = 1..1
  BY <1>1
<1>3. 1 \in DOMAIN as /\ \A i \in DOMAIN as : i = 1
  BY <1>2
<1>4. as[1] \in Arms
  BY <1>1, <1>3, Element
<1> QED
  BY <1>3, <1>4 DEF On, Arms

\* Nothing has been tried before the first arm.
LEMMA FirstArm ==
    ASSUME CInv, NEW as \in Seq(Arms)
    PROVE  /\ Pruned(recvq, "send", Before(as, 1)) = recvq
           /\ Pruned(sendq, "recv", Before(as, 1)) = sendq
<1>1. DOMAIN Before(as, 1) = {}
  BY DEF Before
<1> QED
  BY <1>1 DEF Pruned, CInv, ChanTypeOK

\* A value put where receivers are parked wakes one of them for it.
LEMMA PutFeeds ==
    ASSUME ChanInv, ChanInv', RunInv, WaitInv, Honoured, NodesAwait, OneArm,
           NEW f \in Fibers, ChanStep(f), NEW as, NEW step,
           Tries(f, as, step), PutNow(as, 1), Ends(f), Releases,
           NEW ch \in Channels, Feeding(ch)
    PROVE  Feeding(ch)'
<1>1. Operates(f) /\ OnStack(f) /\ GroupView(f)
  BY StepViews
<1>2. state[f] # "chan" /\ ~parked /\ current = f
  BY <1>1, ViewRuns DEF ChanInv, OnStack, Runs
<1>3. /\ Lone(as, step) /\ as[1].dir = "send" /\ as \in Seq(Arms)
      /\ pc[f] = "user"
  BY DEF Tries, PutNow, Lone
<1>4. CInv /\ CInv' /\ NInv
  BY DEF ChanInv
<1>5. Parked(recvq[ch])' \subseteq Parked(recvq[ch])
  <2>1. Moves
    BY EveryStepMoves DEF ChanInv, ChanNext
  <2> QED
    BY <1>4, <2>1, ReleasesParked
<1>6. Fed(ch) \subseteq Fed(ch)'
  <2>1. f \notin Fed(ch)
    BY <1>3 DEF Fed
  <2> QED
    BY <2>1, TurnKeepsFed
<1>7. CASE Parked(recvq[ch]) = {}
  BY <1>5, <1>7 DEF Feeding
<1>8. CASE Parked(recvq[ch]) # {} /\ as[1].ch # ch
  <2>1. items'[ch] = items[ch]
    BY <1>4, <1>8 DEF PutNow, CInv, ChanTypeOK
  <2> QED
    BY <1>4, <1>5, <1>6, <2>1, FeedsOn
<1>9. CASE Parked(recvq[ch]) # {} /\ as[1].ch = ch
  <2>1. ~closed[ch] /\ Waits(recvq[ch]) # {}
    BY <1>9 DEF WaitInv, Parked
  <2>2. Pruned(recvq, "send", Before(as, 1)) = recvq
    BY <1>3, <1>4, FirstArm
  <2> PICK n : n = Oldest(recvq[ch])
    OBVIOUS
  <2>3. n \in ToSet(recvq[ch]) /\ Current(n)
    <3>1. recvq[ch] \in Seq(RecvNodes)
      BY <1>4, NodeTypes DEF RecvNodes
    <3> QED
      BY <2>1, <3>1, OldestType
  <2>4. /\ n.fiber \in Fibers /\ pc[n.fiber] = "receive"
        /\ On(arms[n.fiber], "recv", ch) # {}
    BY <1>2, <1>4, <2>3, WaiterReceives
  <2>5. state' = Enqueued(state, <<n.fiber>>)
    BY <1>9, <2>1, <2>2 DEF PutNow, OldestFiber
  <2>6. state'[n.fiber] = "runnable"
    <3>1. n.fiber \in ToSet(<<n.fiber>>)
      BY <2>4, ListsOne DEF Lists
    <3> QED
      BY <2>4, <2>5, <3>1 DEF Enqueued
  <2>7. n.fiber # f /\ n.fiber \notin Fed(ch)
    BY <1>2, <2>3 DEF Current, Fed
  <2>8. pc'[n.fiber] = pc[n.fiber] /\ arms'[n.fiber] = arms[n.fiber]
    BY <1>4, <2>4, <2>7
       DEF Ends, Continue, ChanInv, IInv, TypeOK, SchedTypeOK, CInv, ChanTypeOK
  <2>9. n.fiber \in Fed(ch)'
    BY <2>4, <2>6, <2>8 DEF Fed
  <2>10. Len(items'[ch]) = Len(items[ch]) + 1
    <3>1. items' = [items EXCEPT ![ch] = Append(@, as[1].v)]
      BY <1>9, <2>1 DEF PutNow
    <3>2. items'[ch] = Append(items[ch], as[1].v)
      BY <1>4, <3>1 DEF CInv, ChanTypeOK
    <3>3. items[ch] \in Seq(Nat)
      BY <1>4 DEF CInv, ChanTypeOK
    <3>4. 1 \in DOMAIN as /\ as[1] \in Arms
      BY <1>3, OnLone, Element
    <3>5. as[1].v \in Nat
      BY <3>4 DEF Arms
    <3> QED
      BY <3>2, <3>3, <3>5, AppendProperties
  <2>11. PICK S, T, x : S = Fed(ch) /\ T = Fed(ch)' /\ x = n.fiber
    OBVIOUS
  <2>12. /\ IsFiniteSet(S) /\ IsFiniteSet(T)
         /\ S \cup {x} \subseteq T /\ x \notin S
    BY <1>4, <1>6, <2>7, <2>9, <2>11, FedCount
  <2>13. Cardinality(S \cup {x}) = Cardinality(S) + 1
    BY <2>12, FS_AddElement
  <2>14. Cardinality(S \cup {x}) <= Cardinality(T)
    BY <2>12, FS_Subset
  <2>15. Cardinality(Fed(ch)) + 1 <= Cardinality(Fed(ch)')
    BY <2>11, <2>13, <2>14
  <2>16. /\ Len(items[ch]) \in Nat /\ Cardinality(Fed(ch)) \in Nat
         /\ Cardinality(Fed(ch)') \in Nat
    BY <1>4, FedCount
  <2>17. Len(items[ch]) <= Cardinality(Fed(ch))
    BY <1>9 DEF Feeding
  <2>18. Len(items'[ch]) <= Cardinality(Fed(ch)')
    BY <2>10, <2>15, <2>16, <2>17
  <2> QED
    BY <2>18 DEF Feeding
<1> QED
  BY <1>7, <1>8, <1>9

\* Beside a parked receiver no sender is parked.
LEMMA NoSenderBeside ==
    ASSUME ChanInv, WaitInv, NodesOffer, Honoured, NodesAwait, OneArm, ~parked,
           state[current] # "chan",
           NEW ch \in Channels, Parked(recvq[ch]) # {}
    PROVE  Parked(sendq[ch]) = {}
<1> SUFFICES ASSUME NEW s \in Parked(sendq[ch]) PROVE FALSE
  OBVIOUS
<1>1. s \in Parked(recvq[ch])
  BY DEF WaitInv, NoMissedRendezvous
<1>2. PICK n \in ToSet(recvq[ch]) : Current(n) /\ n.fiber = s
  BY <1>1, ParkedAre
<1>3. PICK m \in ToSet(sendq[ch]) : Current(m) /\ m.fiber = s
  BY ParkedAre
<1>4. s \in Fibers /\ pc[s] = "receive"
  BY <1>2, WaiterReceives DEF ChanInv
<1>5. Offers(arms[s]) = {}
  BY <1>4 DEF ChanInv, CInv
<1> QED
  BY <1>3, <1>5 DEF NodesOffer

\* What is taken is taken by one who was coming, or by nobody's leave.
LEMMA TakeFeeds ==
    ASSUME ChanInv, ChanInv', RunInv, WaitInv, NodesOffer, Honoured, NodesAwait,
           OneArm, NEW f \in Fibers, ChanStep(f), NEW as, NEW step,
           Tries(f, as, step), Ready(as[1]), TakeNow(as, 1), Ends(f), Releases,
           NEW ch \in Channels, Feeding(ch)
    PROVE  Feeding(ch)'
<1>1. Operates(f) /\ OnStack(f) /\ GroupView(f)
  BY StepViews
<1>2. state[f] # "chan" /\ ~parked /\ current = f
  BY <1>1, ViewRuns DEF ChanInv, OnStack, Runs
<1>3. /\ Lone(as, step) /\ as[1].dir = "recv" /\ as \in Seq(Arms)
      /\ pc[f] = "receive" => as = arms[f]
  BY DEF Tries, TakeNow, Lone
<1>4. CInv /\ CInv' /\ NInv
  BY DEF ChanInv
<1>5. Parked(recvq[ch])' \subseteq Parked(recvq[ch])
  <2>1. Moves
    BY EveryStepMoves DEF ChanInv, ChanNext
  <2> QED
    BY <1>4, <2>1, ReleasesParked
<1>6. CASE Parked(recvq[ch]) = {}
  BY <1>5, <1>6 DEF Feeding
<1>7. CASE Parked(recvq[ch]) # {} /\ as[1].ch # ch
  <2>1. items'[ch] = items[ch]
    BY <1>4, <1>7 DEF TakeNow, CInv, ChanTypeOK
  <2>2. f \notin Fed(ch)
    BY <1>3, <1>7, OnLone DEF Fed
  <2>3. Fed(ch) \subseteq Fed(ch)'
    BY <2>2, TurnKeepsFed
  <2> QED
    BY <1>4, <1>5, <2>1, <2>3, FeedsOn
<1>8. CASE Parked(recvq[ch]) # {} /\ as[1].ch = ch
  <2>1. ~closed[ch] /\ Waits(sendq[ch]) = {}
    <3>1. Parked(sendq[ch]) = {}
      BY <1>2, <1>8, NoSenderBeside
    <3>2. Waits(sendq[ch]) = {}
      BY <3>1 DEF Parked
    <3>3. ~closed[ch]
      BY <1>8 DEF WaitInv
    <3> QED
      BY <3>2, <3>3
  <2>2. Pruned(sendq, "recv", Before(as, 1)) = sendq
    BY <1>3, <1>4, FirstArm
  <2>3. items[ch] # <<>>
    BY <1>3, <1>8, <2>1 DEF Ready
  <2>4. items'[ch] = Tail(items[ch])
    BY <1>4, <1>8, <2>1, <2>2, <2>3 DEF TakeNow, CInv, ChanTypeOK
  <2>5. Len(items'[ch]) = Len(items[ch]) - 1
    <3>1. items[ch] \in Seq(Nat)
      BY <1>4 DEF CInv, ChanTypeOK
    <3> QED
      BY <2>3, <2>4, <3>1
  <2>6. PICK S, T : S = Fed(ch) /\ T = Fed(ch)'
    OBVIOUS
  <2>7. IsFiniteSet(S) /\ IsFiniteSet(T) /\ S \ {f} \subseteq T
    BY <1>4, <2>6, FedCount, TurnKeepsFed
  <2>8. /\ Cardinality(S) \in Nat /\ Cardinality(S \ {f}) \in Nat
        /\ Cardinality(T) \in Nat
        /\ Cardinality(S \ {f}) \in {Cardinality(S), Cardinality(S) - 1}
        /\ Cardinality(S \ {f}) <= Cardinality(T)
    BY <2>7, FS_RemoveElement, FS_CardinalityType, FS_Subset
  <2>9. Cardinality(S) - 1 <= Cardinality(T)
    BY <2>8
  <2>10. Len(items[ch]) \in Nat /\ Len(items[ch]) <= Cardinality(S)
    BY <1>4, <1>8, <2>6, FedCount DEF Feeding
  <2>11. Len(items'[ch]) <= Cardinality(T)
    BY <2>5, <2>8, <2>9, <2>10
  <2> QED
    BY <2>6, <2>11 DEF Feeding
<1> QED
  BY <1>6, <1>7, <1>8

\* A receiver parks beside an empty buffer, a sender beside no receiver.
LEMMA ParkFeeds ==
    ASSUME ChanInv, ChanInv', RunInv, NEW f \in Fibers, ChanStep(f),
           NEW as, NEW step, Tries(f, as, step), Unready(as), ParkArms(f, as),
           UNCHANGED items, NEW ch \in Channels, Feeding(ch)
    PROVE  Feeding(ch)'
<1>1. /\ Lone(as, step) /\ as \in Seq(Arms)
      /\ pc[f] = "receive" => step = "receive" /\ as = arms[f]
  BY DEF Tries, Lone
<1>2. CInv /\ CInv' /\ NInv /\ Moves
  BY EveryStepMoves DEF ChanInv, ChanNext
<1>3. CASE On(as, "recv", ch) # {}
  <2>1. as[1].dir = "recv" /\ as[1].ch = ch /\ 1 \in DOMAIN as
    BY <1>1, <1>3, OnLone
  <2>2. items[ch] = <<>>
    BY <2>1 DEF Unready, Ready
  <2>3. Len(items'[ch]) = 0
    BY <2>2
  <2>4. Cardinality(Fed(ch)') \in Nat
    BY <1>2, FedCount
  <2>5. Len(items'[ch]) <= Cardinality(Fed(ch)')
    BY <2>3, <2>4
  <2> QED
    BY <2>5 DEF Feeding
<1>4. CASE On(as, "recv", ch) = {}
  <2>1. Parked(recvq[ch])' \subseteq Parked(recvq[ch])
    BY <1>1, <1>2, <1>4, ParkParked
  <2>2. f \notin Fed(ch)
    BY <1>1, <1>4 DEF Fed
  <2>3. Fed(ch) \subseteq Fed(ch)'
    BY <2>2, TurnKeepsFed
  <2>4. items'[ch] = items[ch]
    OBVIOUS
  <2> QED
    BY <1>2, <2>1, <2>3, <2>4, FeedsOn
<1> QED
  BY <1>3, <1>4

\* A close wakes everybody on its channel, and moves no value.
LEMMA CloseFeeds ==
    ASSUME ChanInv, ChanInv', NEW f \in Fibers, ChanStep(f), Close(f),
           NEW ch \in Channels, Feeding(ch)
    PROVE  Feeding(ch)'
<1>1. CInv /\ CInv' /\ NInv /\ Moves /\ Releases
  BY EveryStepMoves, CloseReleases DEF ChanInv, ChanNext
<1>2. Parked(recvq[ch])' \subseteq Parked(recvq[ch])
  BY <1>1, ReleasesParked
<1>3. items'[ch] = items[ch]
  BY DEF Close
<1>4. f \notin Fed(ch)
  BY DEF Close, Starts, InUser, Fed
<1>5. Fed(ch) \subseteq Fed(ch)'
  BY <1>4, TurnKeepsFed
<1> QED
  BY <1>1, <1>2, <1>3, <1>5, FeedsOn

\* Every operation, while nobody has been told to stop.
LEMMA TurnFeeds ==
    ASSUME ChanInv, ChanInv', RunInv, WaitInv, NodesOffer, Honoured, NodesAwait,
           OneArm, ArmLists = {}, NEW f \in Fibers, ChanStep(f), ~cancelled[f],
           NEW ch \in Channels, Feeding(ch)
    PROVE  Feeding(ch)'
<1>1. Turns(f)
  BY StepTurns DEF ChanInv
<1>2. ~parked
  BY StepViews DEF OnStack, Runs
<1>3. CInv /\ CInv' /\ NInv /\ Moves
  BY EveryStepMoves DEF ChanInv, ChanNext
<1>4. CASE Close(f)
  BY <1>4, CloseFeeds
<1>5. CASE pc[f] = "send" /\ Ends(f) /\ UNCHANGED <<state, items, recvq, sendq>>
  <2>1. Parked(recvq[ch])' \subseteq Parked(recvq[ch])
    BY <1>5 DEF Parked, Waits, Current, Ends
  <2>2. f \notin Fed(ch)
    BY <1>5 DEF Fed
  <2>3. Fed(ch) \subseteq Fed(ch)'
    BY <2>2, TurnKeepsFed
  <2>4. items'[ch] = items[ch]
    BY <1>5
  <2> QED
    BY <1>3, <2>1, <2>3, <2>4, FeedsOn
<1>6. ASSUME NEW as, NEW step, Tries(f, as, step) PROVE Feeding(ch)'
  <2>1. CASE (\E i \in DOMAIN as : Wins(as, i)) /\ Ends(f)
    <3>1. PICK i \in DOMAIN as : Wins(as, i)
      BY <2>1
    <3>2. i = 1
      BY <1>6, <3>1, OnLone DEF Tries
    <3>3. Ready(as[1]) /\ (PutNow(as, 1) \/ TakeNow(as, 1))
      BY <3>1, <3>2 DEF Wins
    <3>4. Releases
      BY <1>2, <2>1, EndsReleases DEF Ends
    <3>5. CASE PutNow(as, 1)
      BY <1>6, <2>1, <3>4, <3>5, PutFeeds
    <3>6. CASE TakeNow(as, 1)
      BY <1>6, <2>1, <3>3, <3>4, <3>6, TakeFeeds
    <3> QED
      BY <3>3, <3>5, <3>6
  <2>2. CASE Unready(as) /\ ParkArms(f, as) /\ UNCHANGED items
    BY <1>6, <2>2, ParkFeeds
  <2> QED
    BY <1>6, <2>1, <2>2 DEF Tries, Round
<1> QED
  BY <1>1, <1>4, <1>5, <1>6 DEF Turns

\* No step of the scheduler or of the groups takes a receiver off its way:
\* they are in no receive, and a deadlock finds nobody on the run queue.
LEMMA NextKeepsFed ==
    ASSUME ChanInv, Honoured, [Next]_vars, UNCHANGED chanVars,
           NEW ch \in Channels
    PROVE  Fed(ch) \subseteq Fed(ch)'
<1>1. UNCHANGED arms
  BY DEF chanVars
<1>2. /\ runq \in Seq(Fibers) /\ state \in [Fibers -> States]
      /\ pc \in [Fibers -> Continuations]
  BY DEF ChanInv, IInv, TypeOK, SchedTypeOK
<1>3. ASSUME NEW f \in Fibers, FiberStep(f) PROVE Fed(ch) \subseteq Fed(ch)'
  <2>1. PICK w \in Seq(Fibers), st \in {"sleeping", "io", "joining", "done"} :
          Puts(f, w, st)
    BY <1>3, StepPuts DEF ChanInv
  <2>2. /\ pc[f] \notin Resumptions
        /\ \A h \in Fibers \ {f} : pc'[h] = pc[h]
    BY <1>3, StepsAlone DEF ChanInv
  <2>3. f \notin Fed(ch)
    BY <2>2 DEF Fed, Resumptions
  <2>4. \A h \in Fibers \ {f} : state'[h] = state[h] \/ state'[h] = "runnable"
    BY <2>1 DEF Puts
  <2> QED
    BY <1>1, <2>2, <2>3, <2>4 DEF Fed
<1>4. CASE Dispatch
  <2>1. /\ UNCHANGED pc
        /\ \A h \in Fibers : state'[h] \in {state[h], "running"}
    BY <1>2, <1>4 DEF Dispatch
  <2> QED
    BY <1>1, <2>1 DEF Fed
<1>5. CASE Poll
  <2>1. /\ UNCHANGED pc
        /\ \A h \in Fibers : state'[h] \in {state[h], "runnable"}
    BY <1>5 DEF Poll, Enqueued
  <2> QED
    BY <1>1, <2>1 DEF Fed
<1>6. CASE Stall
  <2>1. parked /\ runq = <<>>
    BY <1>6 DEF Stall
  <2>2. ToSet(runq) = {}
    BY <2>1 DEF ToSet
  <2> QED
    BY <2>1, <2>2 DEF Honoured, Remembered, Fed
<1>7. CASE \/ MainReturns \/ MainDies \/ Passes \/ Over \/ UNCHANGED vars
           \/ \E fd \in Fds : Answers(fd)
  <2>1. UNCHANGED <<state, pc>>
    BY <1>7 DEF MainReturns, MainDies, Exit, Passes, Tick, Over, Answers,
                Arrive, vars, schedVars
  <2> QED
    BY <1>1, <2>1 DEF Fed
<1> QED
  BY <1>3, <1>4, <1>5, <1>6, <1>7 DEF Next, Runtime, Reschedules

\* Nobody is told to stop and then told to go on.
LEMMA CancelledForGood ==
    ASSUME ChanInv, [ChanNext]_allVars, NEW h \in Fibers, cancelled[h]
    PROVE  cancelled'[h]
<1>1. CASE \E f \in Fibers : ChanStep(f)
  BY <1>1, StepViews, FarVars DEF OnStack
<1>2. CASE \E f \in Fibers : FiberStep(f)
  BY <1>2, StepsAlone DEF ChanInv
<1>3. CASE \/ Reschedules \/ MainReturns \/ MainDies \/ Passes \/ Over
           \/ UNCHANGED allVars \/ \E fd \in Fds : Answers(fd)
  BY <1>3 DEF Reschedules, Dispatch, Poll, Stall, MainReturns, MainDies, Exit,
              Passes, Tick, Over, Answers, Arrive, allVars, vars, schedVars
<1> QED
  BY <1>1, <1>2, <1>3 DEF ChanNext, Next, Runtime

\* What keeps the receivers fed, in a program without select.
FeedInv ==
    /\ Honoured /\ NodesAwait
    /\ ArmLists = {} =>
         /\ OneArm
         /\ (\A h \in Fibers : ~cancelled[h])
              => \A ch \in Channels : Feeding(ch)

\* Nobody waits for anything when the program starts.
LEMMA FeedInvInit == ChanInits => FeedInv
<1> SUFFICES ASSUME ChanInits PROVE FeedInv
  OBVIOUS
<1>1. /\ current = Main /\ ~parked
      /\ state = [f \in Fibers |-> IF f = Main THEN "running" ELSE "new"]
      /\ pc = [f \in Fibers |-> "user"]
  BY DEF ChanInits, Init, SchedInit
<1>2. recvq = [ch \in Channels |-> <<>>]
  BY DEF ChanInits, ChanInit
<1>3. Honoured
  BY <1>1 DEF Honoured, Remembered, InOperation
<1>4. NodesAwait
  BY <1>2 DEF NodesAwait, ToSet
<1>5. OneArm
  BY <1>1 DEF OneArm, Resumptions
<1>6. \A ch \in Channels : Parked(recvq[ch]) = {}
  BY <1>2 DEF Parked, Waits
<1> QED
  BY <1>3, <1>4, <1>5, <1>6 DEF FeedInv, Feeding

\* Every step keeps the invariant: the steps of scheduler and groups leave the
\* channels alone, and those of a channel feed whom they leave waiting.
LEMMA FeedInvStep ==
    ASSUME ChanInv, ChanInv', RunInv, WaitInv, NodesOffer, FeedInv,
           [ChanNext]_allVars
    PROVE  FeedInv'
<1>1. NodesAwait'
  BY StepAwaits DEF FeedInv
<1>2. CASE (Next /\ UNCHANGED chanVars) \/ UNCHANGED allVars
  <2>1. [Next]_vars /\ UNCHANGED chanVars
    BY <1>2 DEF allVars
  <2>2. Honoured'
    BY <2>1, NextHonours DEF FeedInv
  <2>3. ASSUME NEW ch \in Channels, Feeding(ch) PROVE Feeding(ch)'
    <3>1. CInv /\ CInv' /\ NInv
      BY DEF ChanInv
    <3>2. UNCHANGED <<items, recvq, nonce>>
      BY <2>1 DEF chanVars, queueVars
    <3>3. Parked(recvq[ch])' \subseteq Parked(recvq[ch])
      <4>1. NobodyParks
        BY <2>1, <3>1, GroupParksNobody, IdleParksNobody DEF vars, schedVars
      <4>2. Moves
        BY <3>1, EveryStepMoves
      <4>3. \A n \in ToSet(recvq[ch]) : Current(n)' => Current(n)
        BY <3>1, <4>2, StaleNodes
      <4>4. ASSUME NEW h \in Parked(recvq[ch])' PROVE h \in Parked(recvq[ch])
        <5>1. PICK n \in ToSet(recvq'[ch]) : Current(n)' /\ n.fiber = h
          BY ParkedWillBe
        <5> QED
          BY <3>2, <4>3, <5>1, ParkedAre
      <4> QED
        BY <4>4
    <3>4. Fed(ch) \subseteq Fed(ch)'
      BY <2>1, NextKeepsFed DEF FeedInv
    <3>5. items'[ch] = items[ch]
      BY <3>2
    <3> QED
      BY <2>3, <3>1, <3>3, <3>4, <3>5, FeedsOn
  <2>4. ArmLists = {} => OneArm'
    BY StaysLone DEF FeedInv
  <2> QED
    BY <1>1, <2>2, <2>3, <2>4, CancelledForGood DEF FeedInv
<1>3. ASSUME NEW f \in Fibers, ChanStep(f) PROVE FeedInv'
  <2>1. Honoured'
    BY <1>3, ChanHonours DEF FeedInv
  <2>2. ArmLists = {} => OneArm'
    BY StaysLone DEF FeedInv
  <2>3. ASSUME ArmLists = {}, \A h \in Fibers : ~cancelled'[h],
               NEW ch \in Channels
        PROVE  Feeding(ch)'
    <3>1. \A h \in Fibers : ~cancelled[h]
      BY <2>3, CancelledForGood
    <3>2. Feeding(ch)
      BY <2>3, <3>1 DEF FeedInv
    <3> QED
      BY <1>3, <2>3, <3>1, <3>2, TurnFeeds DEF FeedInv
  <2> QED
    BY <1>1, <2>1, <2>2, <2>3 DEF FeedInv
<1> QED
  BY <1>2, <1>3 DEF ChanNext

\* In a program without select no wake is lost until somebody is cancelled:
\* however many fibers send, receive and close on however many channels, of
\* whatever capacity, everything in a buffer beside a parked receiver has a
\* receiver of its own on the way.
THEOREM NobodyIsLeftStarving == ChanSpec => []NobodyStarves
<1>1. ChanInv /\ FeedInv => NobodyStarves
  <2> SUFFICES ASSUME ChanInv, FeedInv, ArmLists = {},
                      \A h \in Fibers : ~cancelled[h],
                      NEW ch \in Channels, Parked(recvq[ch]) # {}
               PROVE  Len(items[ch]) <= Cardinality(Coming(ch))
    BY DEF NobodyStarves, WaitersAreFed
  <2>1. Len(items[ch]) <= Cardinality(Fed(ch))
    BY DEF FeedInv, Feeding
  <2>2. Fed(ch) \subseteq Coming(ch) /\ Coming(ch) \subseteq Fibers
    BY DEF Fed, Coming
  <2>3. IsFiniteSet(Coming(ch)) /\ IsFiniteSet(Fed(ch))
    BY <2>2, SchedulerAssumption, FS_Subset
  <2>4. Cardinality(Fed(ch)) <= Cardinality(Coming(ch))
    BY <2>2, <2>3, FS_Subset
  <2>5. /\ Cardinality(Fed(ch)) \in Nat /\ Cardinality(Coming(ch)) \in Nat
        /\ Len(items[ch]) \in Nat
    BY <2>3, FS_CardinalityType DEF ChanInv, CInv, ChanTypeOK
  <2> QED
    BY <2>1, <2>4, <2>5
<1>2. ChanInv /\ WaitInv /\ RunInv /\ ReceiptInv => NodesOffer
  BY DEF ReceiptInv
<1> QED
  BY <1>1, <1>2, FeedInvInit, FeedInvStep, InductiveChannels, InductiveWaits,
     InductiveReceipts, PTL DEF ChanSpec
=============================================================================
