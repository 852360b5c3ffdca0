------------------------------ MODULE IyiGroup ------------------------------
(***************************************************************************)
(* Tasks, groups, cancellation and panics: IyiTask, IyiGroup, `group`,     *)
(* IyiScheduler.join/cancel/panic_current and run_spawned_fiber of         *)
(* src/iyi/concurrency.iyi, over the scheduler of IyiScheduler.            *)
(*                                                                         *)
(* A fiber's program is any sequence of at most Fuel[f] operations drawn   *)
(* from Ops[f], in properly nested groups, that ends by leaving its groups *)
(* and returning.  `defer` is modelled for the one cleanup the runtime itself *)
(* registers, a group's join.                                              *)
(***************************************************************************)
EXTENDS IyiScheduler

CONSTANTS
    Groups,       \* every IyiGroup the program may make
    Ops,          \* Ops[f]: the operations f's program may use
    Fuel          \* bound: Fuel[f] is how many of them f runs

Operations == {"sleep", "read", "group", "spawn", "gather", "value",
               "error", "panic", "send", "receive", "close", "select", "try"}

ASSUME GroupAssumption ==
    /\ IsFiniteSet(Groups)
    /\ None \notin Groups
    /\ Ops \in [Fibers -> SUBSET Operations]
    /\ Fuel \in [Fibers -> Nat]

VARIABLES
    group,        \* IyiFiber#group
    joiner,       \* IyiFiber#joiner
    scopes,       \* IyiFiber#defers: its open groups, innermost first
    delivered,    \* IyiFiber#panic_delivered
    caught,       \* history: the panics read through a task's value
    owner,        \* history: the fiber that opened the group
    children,     \* IyiGroup#first_child .., newest first
    live,         \* IyiGroup#live
    failed,       \* IyiGroup#failed
    gjoiner,      \* IyiGroup#joiner
    fuel          \* operations left to the fiber's program

taskVars == <<group, joiner, delivered, caught>>
groupVars == <<owner, children, live, failed, gjoiner>>
progVars == <<scopes, fuel>>
vars == <<schedVars, taskVars, groupVars, progVars>>

\* The scheduler's variables that neither park, wake nor end a fiber.
quietVars == <<current, endVars, sleepVars, ioVars, worldVars>>

Subjects == Fibers \cup Fds \cup Groups \cup {None}

\* What a fiber goes on with is what that continuation is about.
SubjectOK ==
    /\ subject \in [Fibers -> Subjects]
    /\ \A f \in Fibers :
         /\ pc[f] = "read" => subject[f] \in Fds
         /\ pc[f] = "value" => subject[f] \in Fibers
         /\ pc[f] = "gjoin" => subject[f] \in Groups

GroupTypeOK ==
    /\ SubjectOK
    /\ group \in [Fibers -> Groups \cup {None}]
    /\ joiner \in [Fibers -> Fibers \cup {None}]
    /\ scopes \in [Fibers -> Seq(Groups)]
    /\ delivered \in [Fibers -> BOOLEAN]
    /\ caught \subseteq Fibers
    /\ owner \in [Groups -> Fibers \cup {None}]
    /\ children \in [Groups -> Seq(Fibers)]
    /\ live \in [Groups -> Int]
    /\ failed \in [Groups -> BOOLEAN]
    /\ gjoiner \in [Groups -> Fibers \cup {None}]
    /\ fuel \in [Fibers -> Nat]

TypeOK == SchedTypeOK /\ GroupTypeOK

GroupInit ==
    /\ group = [f \in Fibers |-> None]
    /\ joiner = [f \in Fibers |-> None]
    /\ scopes = [f \in Fibers |-> <<>>]
    /\ delivered = [f \in Fibers |-> FALSE]
    /\ caught = {}
    /\ owner = [g \in Groups |-> None]
    /\ children = [g \in Groups |-> <<>>]
    /\ live = [g \in Groups |-> 0]
    /\ failed = [g \in Groups |-> FALSE]
    /\ gjoiner = [g \in Groups |-> None]
    /\ fuel = Fuel

Init == SchedInit /\ GroupInit

-----------------------------------------------------------------------------
(* The program's operations *)

\* f's program runs its next operation, one of those called op.
Starts(f, op) ==
    /\ InUser(f) /\ op \in Ops[f] /\ fuel[f] > 0
    /\ fuel' = [fuel EXCEPT ![f] = @ - 1]

TaskSleeps(f) ==
    /\ Starts(f, "sleep")
    /\ \E ms \in 0..MaxTime : Sleep(f, ms)
    /\ UNCHANGED <<taskVars, groupVars, scopes>>

TaskReads(f) ==
    /\ Starts(f, "read")
    /\ \E fd \in Fds : WaitReadable(f, fd)
    /\ UNCHANGED <<taskVars, groupVars, scopes>>

TaskReadsOn(f) == Read(f) /\ UNCHANGED <<taskVars, groupVars, progVars>>

\* A bug: `raise`, a bound, a nil.
TaskPanics(f) ==
    /\ Starts(f, "panic")
    /\ Raise(f)
    /\ UNCHANGED <<quietVars, parked, state, cancelled, runq, taskVars,
                   groupVars, scopes>>

\* group: a new IyiGroup, its join deferred.
OpenGroup(f) ==
    /\ Starts(f, "group")
    /\ \E g \in Groups :
         /\ owner[g] = None
         /\ owner' = [owner EXCEPT ![g] = f]
         /\ scopes' = [scopes EXCEPT ![f] = <<g>> \o @]
    /\ UNCHANGED <<schedVars, taskVars, children, live, failed, gjoiner>>

\* The groups a block can name: its own open ones, the one it runs in.
Spawnable(f) == ToSet(scopes[f]) \cup ({group[f]} \ {None})

\* IyiGroup#spawn
Spawn(f) ==
    /\ Starts(f, "spawn")
    /\ \E g \in Spawnable(f), c \in Fibers :
         /\ state[c] = "new"
         /\ children' = [children EXCEPT ![g] = <<c>> \o @]
         /\ group' = [group EXCEPT ![c] = g]
         /\ live' = [live EXCEPT ![g] = @ + 1]
         /\ runq' = Append(runq, c)
         /\ state' = Enqueued(state, <<c>>)
    /\ UNCHANGED <<quietVars, parked, pc, subject, cancelled, panicked,
                   joiner, delivered, caught, owner, failed, gjoiner, scopes>>

-----------------------------------------------------------------------------
(* The end of a fiber *)

\* Mutant: cancel flags a task that is already done.
FlaggedEvenDone(g) == {c \in ToSet(children[g]) : ~cancelled[c]}

\* Mutant: a failure stops the tasks of every group.
FlaggedEverywhere(g) ==
    {c \in Fibers : state[c] \notin {"new", "done"} /\ ~cancelled[c]}

\* cancel_children, which stops at the children already done or cancelled:
\* those it flags, and those of them it takes off what they wait for.
Flagged(g) ==
    {c \in ToSet(children[g]) : state[c] # "done" /\ ~cancelled[c]}

\* Mutant: cancel leaves a fiber parked on a channel.
WokenButChan(g) == {c \in Flagged(g) : state[c] \in {"sleeping", "io"}}

Woken(g) == {c \in Flagged(g) : state[c] \in Unparkable}

\* Mutant: the joiner is enqueued unasked.
WaitingUnasked(j) == <<j>>

\* The joiner, if there is one, as what enqueue appends.
Waiting(j) == IF j = None THEN <<>> ELSE <<j>>

\* child_finished(isFailure) on f's own stack, then the rest of
\* run_spawned_fiber: the group's accounting, its policy on the first
\* failure, its joiner when nothing is live, the task's joiner, reschedule.
Complete(f, isFailure) ==
    LET g == group[f]
        fires == isFailure /\ ~failed[g]
        empty == live[g] = 1
        woken == IF fires THEN Woken(g) ELSE {}
        wakes == IF empty THEN Waiting(gjoiner[g]) ELSE <<>>
    IN  /\ live' = [live EXCEPT ![g] = @ - 1]
        /\ failed' = [failed EXCEPT ![g] = @ \/ isFailure]
        /\ cancelled' = [c \in Fibers |->
                           cancelled[c] \/ (fires /\ c \in Flagged(g))]
        /\ \E w \in InOrder(children[g], woken) :
             /\ runq' = runq \o w \o wakes \o Waiting(joiner[f])
             /\ state' = [Enqueued(state, w \o wakes \o Waiting(joiner[f]))
                            EXCEPT ![f] = "done"]
        /\ Forget(woken)
        /\ SleepRemove(woken)
        /\ gjoiner' = IF empty THEN [gjoiner EXCEPT ![g] = None] ELSE gjoiner
        /\ joiner' = [joiner EXCEPT ![f] = None]
        /\ parked' = TRUE
        /\ Continue(f, "dead", None)
        /\ UNCHANGED <<current, endVars, panicked, deadline, worldVars, group,
                       delivered, caught, owner, children, progVars>>

\* The body returns; an error it returns is a failure unless the task had
\* been told to stop.
TaskReturns(f) ==
    /\ InUser(f) /\ f # Main /\ scopes[f] = <<>>
    /\ \E isError \in BOOLEAN :
         /\ isError => "error" \in Ops[f]
         /\ Complete(f, isError /\ ~cancelled[f])

Exit(how) ==
    /\ exited' = how
    /\ UNCHANGED <<current, parked, stalls, state, pc, subject, cancelled,
                   panicked, runq, sleepVars, ioVars, worldVars, taskVars,
                   groupVars, progVars>>

MainReturns == InUser(Main) /\ scopes[Main] = <<>> /\ Exit("returned")

\* panic_current when no defer is left.
Drained(f) == Runs(f) /\ pc[f] = "drain" /\ scopes[f] = <<>>

MainDies == Drained(Main) /\ Exit("panicked")

\* Mutant: a panicking task does not tell its group.
TaskDiesUntold(f) ==
    /\ f # Main /\ Drained(f)
    /\ runq' = runq \o Waiting(joiner[f])
    /\ state' = [Enqueued(state, Waiting(joiner[f])) EXCEPT ![f] = "done"]
    /\ joiner' = [joiner EXCEPT ![f] = None]
    /\ parked' = TRUE
    /\ Continue(f, "dead", None)
    /\ UNCHANGED <<quietVars, cancelled, panicked, group, delivered, caught,
                   groupVars, progVars>>

TaskDies(f) == f # Main /\ Drained(f) /\ Complete(f, ~cancelled[f])

-----------------------------------------------------------------------------
(* Joins *)

\* __iyi_defer_pop_run on a normal exit, or panic_current's loop: the
\* innermost group leaves the registry before its join runs.
PopsGroup(f) ==
    /\ scopes[f] # <<>>
    /\ scopes' = [scopes EXCEPT ![f] = Tail(@)]
    /\ Continue(f, "gjoin", Head(scopes[f]))
    /\ UNCHANGED <<quietVars, parked, state, cancelled, panicked, runq,
                   taskVars, groupVars, fuel>>

\* Mutant: a cancelled task leaves its groups without joining them.
LeaveGroupCancelled(f) ==
    /\ InUser(f)
    /\ \/ ~cancelled[f] /\ PopsGroup(f)
       \/ /\ cancelled[f] /\ scopes[f] # <<>>
          /\ scopes' = [scopes EXCEPT ![f] = Tail(@)]
          /\ UNCHANGED <<schedVars, taskVars, groupVars, fuel>>

LeaveGroup(f) == InUser(f) /\ PopsGroup(f)
DrainGroup(f) == Runs(f) /\ pc[f] = "drain" /\ PopsGroup(f)

\* The typed form joins inside the block, before it reads the values.
Gather(f) ==
    /\ Starts(f, "gather") /\ scopes[f] # <<>>
    /\ Continue(f, "gjoin", Head(scopes[f]))
    /\ UNCHANGED <<quietVars, parked, state, cancelled, panicked, runq,
                   taskVars, groupVars, scopes>>

\* Mutant: a join that yields instead of parking.
JoinSpins(f) ==
    LET g == subject[f] IN
    /\ Runs(f) /\ pc[f] = "gjoin" /\ live[g] > 0
    /\ runq' = Append(runq, f)
    /\ Parks(f, "runnable")
    /\ UNCHANGED <<quietVars, pc, subject, cancelled, panicked, taskVars,
                   groupVars, progVars>>

\* IyiGroup#join, its loop.
JoinParks(f) ==
    LET g == subject[f] IN
    /\ Runs(f) /\ pc[f] = "gjoin" /\ live[g] > 0
    /\ gjoiner' = [gjoiner EXCEPT ![g] = f]
    /\ Parks(f, "joining")
    /\ UNCHANGED <<quietVars, pc, subject, cancelled, panicked, runq,
                   taskVars, owner, children, live, failed, progVars>>

\* Mutant: a cancelled task's panic is not reported.
UnreadUncancelled(g) ==
    {c \in ToSet(children[g]) :
        panicked[c] /\ ~delivered[c] /\ ~cancelled[c]}

Unread(g) == {c \in ToSet(children[g]) : panicked[c] /\ ~delivered[c]}

\* IyiGroup#join, its walk: raise for the first panic nobody read, or, on
\* the owner's own panic path, only mark them all.
JoinReturns(f) ==
    LET g == subject[f] IN
    /\ Runs(f) /\ pc[f] = "gjoin" /\ live[g] <= 0
    /\ \/ /\ Unread(g) = {} /\ UNCHANGED <<delivered, panicked>>
          /\ Continue(f, IF panicked[f] THEN "drain" ELSE "user", None)
       \/ /\ Unread(g) # {} /\ panicked[f] /\ UNCHANGED panicked
          /\ delivered' = [c \in Fibers |-> delivered[c] \/ c \in Unread(g)]
          /\ Continue(f, "drain", None)
       \/ /\ ~panicked[f]
          /\ \E i \in DOMAIN children[g] :
               /\ children[g][i] \in Unread(g)
               /\ \A j \in 1..(i - 1) : children[g][j] \notin Unread(g)
               /\ delivered' = [delivered EXCEPT ![children[g][i]] = TRUE]
          /\ Raise(f)
    /\ UNCHANGED <<quietVars, parked, state, cancelled, runq, group, joiner,
                   caught, groupVars, progVars>>

\* IyiTask#value of any task but one's own.
Value(f) ==
    /\ Starts(f, "value")
    /\ \E t \in Fibers \ {f, Main} :
         state[t] # "new" /\ Continue(f, "value", t)
    /\ UNCHANGED <<quietVars, parked, state, cancelled, panicked, runq,
                   taskVars, groupVars, scopes>>

\* IyiScheduler.join: one joiner at most.
ValueParks(f) ==
    LET t == subject[f] IN
    /\ Runs(f) /\ pc[f] = "value" /\ state[t] # "done"
    /\ \/ /\ joiner[t] = None
          /\ joiner' = [joiner EXCEPT ![t] = f]
          /\ Parks(f, "joining")
          /\ UNCHANGED <<pc, subject, panicked>>
       \/ /\ joiner[t] # None
          /\ Raise(f)
          /\ UNCHANGED <<joiner, state, parked>>
    /\ UNCHANGED <<quietVars, cancelled, runq, group, delivered, caught,
                   groupVars, progVars>>

\* A panic read as a value is a panic the group's join no longer owes.
ValueReturns(f) ==
    LET t == subject[f] IN
    /\ Runs(f) /\ pc[f] = "value" /\ state[t] = "done"
    /\ delivered' = [delivered EXCEPT ![t] = @ \/ panicked[t]]
    /\ caught' = IF panicked[t] THEN caught \cup {t} ELSE caught
    /\ Continue(f, "user", None)
    /\ UNCHANGED <<quietVars, parked, state, cancelled, panicked, runq, group,
                   joiner, groupVars, progVars>>

-----------------------------------------------------------------------------
(* The system *)

\* reschedule, which belongs to no fiber's program.
Reschedules ==
    (Dispatch \/ Poll \/ Stall) /\ UNCHANGED <<taskVars, groupVars, progVars>>

\* What the running fiber does next.
FiberStep(f) ==
    \/ TaskSleeps(f) \/ TaskReads(f) \/ TaskReadsOn(f) \/ TaskPanics(f)
    \/ OpenGroup(f) \/ Spawn(f) \/ LeaveGroup(f) \/ Gather(f)
    \/ JoinParks(f) \/ JoinReturns(f)
    \/ Value(f) \/ ValueParks(f) \/ ValueReturns(f)
    \/ TaskReturns(f) \/ DrainGroup(f) \/ TaskDies(f)

Passes == Tick /\ UNCHANGED <<taskVars, groupVars, progVars>>
Answers(fd) == Arrive(fd) /\ UNCHANGED <<taskVars, groupVars, progVars>>

\* The process is over.
Over == exited # "no" /\ UNCHANGED vars

Runtime == Reschedules \/ (\E f \in Fibers : FiberStep(f))
             \/ MainReturns \/ MainDies

Next == Runtime \/ Passes \/ (\E fd \in Fds : Answers(fd)) \/ Over

Spec == Init /\ [][Next]_vars

\* The processor goes on executing instructions and the clock goes on.
FairSpec == Spec /\ WF_vars(Runtime) /\ WF_vars(Passes)

-----------------------------------------------------------------------------
(* Safety *)

\* A fiber is on the list its state names, on that list once, and on no
\* other: enqueue, park, sleep_insert, io_take and cancel never leave a
\* fiber behind on a list or put it on one twice, the sleep list is sorted,
\* and the epoll set is exactly what the parked fibers wait for.
QueueExact == ~stalled =>
    /\ Listed(runq, "runnable")
    /\ Listed(sleepq, "sleeping")
    /\ SleepSorted
    /\ Registered
    /\ \A f \in Fibers : state[f] = "running" <=> f = current /\ ~parked

\* III.4.2: cancellation reaches a blocked fiber.  No order of failing,
\* sleeping, reading and spawning leaves a cancelled fiber parked on time,
\* on a descriptor or on a channel.
CancelReachesBlocked ==
    \A f \in Fibers : cancelled[f] => state[f] \notin Unparkable

\* Cancellation is the group's policy and nothing else's: a task is told to
\* stop only when a task of its own group has failed.
CancelOnlyByFailure == ~stalled =>
    \A f \in Fibers : cancelled[f] =>
        /\ group[f] # None /\ failed[group[f]]
        /\ \E c \in ToSet(children[group[f]]) : state[c] = "done"

\* IyiGroup#live counts the tasks that have not finished, whichever way they
\* finish, so a join neither hangs on it nor leaves early.
LiveExact == ~stalled =>
    \A g \in Groups :
        live[g] = Cardinality({c \in ToSet(children[g]) : state[c] # "done"})

\* The scope of g has been left: `group` has returned or unwound.
Left(g) ==
    /\ owner[g] # None /\ g \notin ToSet(scopes[owner[g]])
    /\ subject[owner[g]] # g

\* III.4.1: a group's block cannot be left until every task started in it
\* has finished, not by a return, not by a panic, not by a nested group.
ScopeJoined == ~stalled =>
    \A g \in Groups : Left(g) =>
        \A c \in ToSet(children[g]) : state[c] = "done"

\* III.1.4: an unobserved bug is loud.  Once the scope is left, every panic
\* in it was read through its task's value or took the owner down.
PanicsSurface == ~stalled =>
    \A g \in Groups : Left(g) =>
        \A c \in ToSet(children[g]) :
            panicked[c] => c \in caught \/ panicked[owner[g]]

\* State 6 is final: nothing a later wake, join or cancellation does
\* touches a fiber that is done.
DoneIsFinal ==
    [][\A f \in Fibers : state[f] = "done" /\ ~stalled' =>
         /\ state'[f] = "done" /\ cancelled'[f] = cancelled[f]
         /\ panicked'[f] = panicked[f]]_vars

\* Time wakes whom it should: no sleeper before its deadline unless it is
\* cancelled, and every poll that wakes anyone, for an event or for a time,
\* leaves no sleeper behind whose time has come.
SleepersWakeOnTime ==
    [][/\ \A f \in Fibers :
            state[f] = "sleeping" /\ state'[f] # "sleeping" =>
                cancelled'[f] \/ deadline[f] <= now
       /\ parked /\ runq = <<>> /\ runq' # <<>> =>
            \A f \in Fibers : state'[f] = "sleeping" => deadline[f] > now]_vars

\* A fiber that comes back from wait_readable to read(2) finds the
\* descriptor still readable: no other fiber emptied it in between, and the
\* read never blocks the thread.
ReadNeverBlocks ==
    \A f \in Fibers :
        Runs(f) /\ pc[f] = "read" /\ ~cancelled[f]
          => subject[f] \in readable \cup RegularFds

\* Structured programs do not deadlock: with groups, sleeps, reads and
\* failures alone, something can always wake some fiber.
NeverDeadlocked == ~stalled

-----------------------------------------------------------------------------
(* What the documents say and the code does not do *)

\* A deadlocked program exits 1 with the deadlock named.
DeadlockIsDiagnosed == exited # "stack overflow"

-----------------------------------------------------------------------------
(* Liveness *)

\* A program comes to its end, or it waits in a read for a peer that never
\* answers: groups, sleeps, failures and panics alone keep nobody waiting.
Terminates ==
    \/ <>(exited # "no")
    \/ \E f \in Fibers : <>[](f \in ioq /\ waitFd[f] \notin readable)

\* A fiber parked on a descriptor that has become readable is woken.
ReadableWakes ==
    \A f \in Fibers, fd \in Fds :
        (f \in ioq /\ waitFd[f] = fd /\ fd \in readable)
          ~> (f \notin ioq \/ exited # "no")
=============================================================================
