---------------------------- MODULE IyiScheduler ----------------------------
(***************************************************************************)
(* One thread's cooperative fiber scheduler: IyiScheduler and IyiFiber of  *)
(* src/iyi/concurrency.iyi, epoll build.                                   *)
(*                                                                         *)
(* Fibers run one at a time.  The running fiber keeps the processor until  *)
(* a primitive parks it (sets its state, puts it on a list and calls       *)
(* reschedule); reschedule pops the run queue, and only when the queue is  *)
(* empty does it poll, on the stack of the fiber that parked last.  What   *)
(* happens between two parks is therefore atomic with respect to the other *)
(* fibers; a primitive that goes on after a park (read, a join) is two     *)
(* actions with a continuation `pc` between them.                          *)
(*                                                                         *)
(* Only time and the peers of the descriptors move on their own.           *)
(***************************************************************************)
EXTENDS IyiLists

CONSTANTS
    Fibers,       \* every IyiFiber the program may make
    Main,         \* the thread's own fiber, made by IyiFiber.main
    Fds,          \* file descriptors
    RegularFds,   \* those epoll refuses with -EPERM: they never block
    MaxTime,      \* bound: the clock stops here, no deadline is later
    MaxEvents,    \* EVENTS: how many events one epoll_pwait answers
    StackDepth,   \* bound: the deadlock panics one fiber's stack can nest
    None          \* the absent fiber, descriptor or group

ASSUME SchedulerAssumption ==
    /\ IsFiniteSet(Fibers)
    /\ Main \in Fibers
    /\ RegularFds \subseteq Fds
    /\ None \notin Fibers \cup Fds
    /\ MaxTime \in Nat
    /\ MaxEvents \in Nat \ {0}
    /\ StackDepth \in Nat

VARIABLES
    current,      \* IyiSchedulerState#current: whose stack is executing
    parked,       \* that stack is inside the loop of reschedule
    exited,       \* "no", or how the process ended
    stalls,       \* the deadlock panics raised on each fiber's stack
    state,        \* IyiFiber#state, "new" before the fiber is made
    pc,           \* where the fiber goes on when it runs
    subject,      \* the descriptor, task or group that step is about
    cancelled,    \* IyiFiber#cancelled
    panicked,     \* IyiFiber#panicked
    runq,         \* run_head .. run_tail
    sleepq,       \* sleep_head .., by deadline
    deadline,     \* IyiFiber#deadline
    now,          \* __iyi_monotonic_ns
    ioq,          \* the fibers on the io list
    waitFd,       \* IyiFiber#wait_fd
    interest,     \* the descriptors registered with the epoll instance
    readable      \* the descriptors that have something to read

ioVars == <<ioq, waitFd, interest>>
sleepVars == <<sleepq, deadline>>
worldVars == <<now, readable>>
endVars == <<exited, stalls>>
schedVars == <<current, parked, endVars, state, pc, subject, cancelled,
               panicked, runq, sleepVars, ioVars, worldVars>>

States == {"new", "running", "runnable", "sleeping", "io", "chan",
           "joining", "done"}
\* The states of a fiber that waits for something only another fiber or the
\* poller can give; cancel ends the first three.
Unparkable == {"sleeping", "io", "chan"}
Continuations == {"user", "read", "value", "gjoin", "drain", "dead",
                  "send", "receive", "select"}

SchedTypeOK ==
    /\ current \in Fibers
    /\ parked \in BOOLEAN
    /\ exited \in {"no", "returned", "panicked", "dead fiber ran",
                   "stack overflow"}
    /\ stalls \in [Fibers -> 0..StackDepth]
    /\ state \in [Fibers -> States]
    /\ pc \in [Fibers -> Continuations]
    /\ cancelled \in [Fibers -> BOOLEAN]
    /\ panicked \in [Fibers -> BOOLEAN]
    /\ runq \in Seq(Fibers)
    /\ sleepq \in Seq(Fibers)
    /\ deadline \in [Fibers -> 0..MaxTime]
    /\ now \in 0..MaxTime
    /\ ioq \subseteq Fibers
    /\ waitFd \in [Fibers -> Fds \cup {None}]
    /\ interest \subseteq Fds
    /\ readable \subseteq Fds

SchedInit ==
    /\ current = Main
    /\ parked = FALSE
    /\ exited = "no"
    /\ stalls = [f \in Fibers |-> 0]
    /\ state = [f \in Fibers |-> IF f = Main THEN "running" ELSE "new"]
    /\ pc = [f \in Fibers |-> "user"]
    /\ subject = [f \in Fibers |-> None]
    /\ cancelled = [f \in Fibers |-> FALSE]
    /\ panicked = [f \in Fibers |-> FALSE]
    /\ runq = <<>>
    /\ sleepq = <<>>
    /\ deadline = [f \in Fibers |-> 0]
    /\ now = 0
    /\ ioq = {}
    /\ waitFd = [f \in Fibers |-> None]
    /\ interest = {}
    /\ readable \in SUBSET (Fds \ RegularFds)

-----------------------------------------------------------------------------
(* Queues *)

Runs(f) == exited = "no" /\ ~parked /\ current = f
InUser(f) == Runs(f) /\ pc[f] = "user"

\* enqueue: every fiber of the sequence w becomes runnable, in order.
Enqueued(st, w) ==
    [f \in Fibers |-> IF f \in ToSet(w) THEN "runnable" ELSE st[f]]

\* Leave the processor in state st: the caller is then inside reschedule.
Parks(f, st) ==
    /\ state' = [state EXCEPT ![f] = st]
    /\ parked' = TRUE

Continue(f, step, what) ==
    /\ pc' = [pc EXCEPT ![f] = step]
    /\ subject' = [subject EXCEPT ![f] = what]

\* raise: panic_current marks the fiber and starts to drain its defers.
Raise(f) ==
    /\ panicked' = [panicked EXCEPT ![f] = TRUE]
    /\ Continue(f, "drain", None)

\* Mutant: the wake leaves the descriptor registered.
ForgetNoInterest(W) ==
    /\ ioq' = ioq \ W
    /\ waitFd' = [f \in Fibers |-> IF f \in W THEN None ELSE waitFd[f]]
    /\ UNCHANGED interest

\* io_take and io_forget, for every fiber of the set W.
Forget(W) ==
    /\ ioq' = ioq \ W
    /\ waitFd' = [f \in Fibers |-> IF f \in W THEN None ELSE waitFd[f]]
    /\ interest' = interest \ {waitFd[f] : f \in W}

\* Mutant: sleep_insert appends.
SleepInsertLast(f, when) == sleepq' = Append(sleepq, f)

\* sleep_insert: before the first later deadline.
SleepInsert(f, when) ==
    \E i \in 0..Len(sleepq) :
        /\ \A j \in 1..i : deadline[sleepq[j]] <= when
        /\ i < Len(sleepq) => deadline[sleepq[i + 1]] > when
        /\ sleepq' = SubSeq(sleepq, 1, i) \o <<f>>
                       \o SubSeq(sleepq, i + 1, Len(sleepq))

\* sleep_remove, for every fiber of the set W.
SleepRemove(W) == sleepq' \in InOrder(sleepq, ToSet(sleepq) \ W)

-----------------------------------------------------------------------------
(* reschedule *)

\* dequeue, then switch_to.  A fiber whose body is over has no instruction
\* to return to but the exit behind panic_current's reschedule.
Dispatch ==
    /\ exited = "no" /\ parked /\ runq # <<>>
    /\ LET f == Head(runq) IN
         /\ current' = f
         /\ state' = [state EXCEPT ![f] = "running"]
         /\ exited' = IF pc[f] = "dead" THEN "dead fiber ran" ELSE "no"
    /\ runq' = Tail(runq)
    /\ parked' = FALSE
    /\ UNCHANGED <<stalls, pc, subject, cancelled, panicked, sleepVars,
                   ioVars, worldVars>>

\* epoll_pwait answered with the events of the fibers in W: at most
\* MaxEvents of those that are ready, none after a signal (EINTR).
Delivered(W) ==
    LET ready == {f \in ioq : waitFd[f] \in interest \cap readable}
    IN  /\ W \subseteq ready
        /\ \/ W = {}
           \/ W = ready /\ Cardinality(ready) <= MaxEvents
           \/ Cardinality(ready) > MaxEvents /\ Cardinality(W) = MaxEvents

\* The first n sleepers are the ones whose time has come.
Expired(n) ==
    /\ \A i \in 1..n : deadline[sleepq[i]] <= now
    /\ n < Len(sleepq) => deadline[sleepq[n + 1]] > now

\* wait_for_events, when it has news: the io events, then the sleepers.
Poll ==
    /\ exited = "no" /\ parked /\ runq = <<>>
    /\ \E W \in SUBSET ioq, n \in 0..Len(sleepq) :
         /\ Delivered(W) /\ Expired(n)
         /\ W # {} \/ n > 0
         /\ \E w \in SetToSeqs(W) :
              runq' = w \o SubSeq(sleepq, 1, n)
         /\ state' = Enqueued(state, runq')
         /\ Forget(W)
         /\ sleepq' = SubSeq(sleepq, n + 1, Len(sleepq))
    /\ UNCHANGED <<current, parked, endVars, pc, subject, cancelled, panicked,
                   deadline, worldVars>>

NothingAwaited == ioq = {} /\ sleepq = <<>>

\* wait_for_events with nothing to wait for: the deadlock is raised on the
\* stack it runs on, that of the fiber that parked last, whatever that
\* fiber parked for and even if it is done.  Nothing unwinds, so a stack
\* that meets the deadlock again nests deeper, until its guard page.
Stall ==
    /\ exited = "no" /\ parked /\ runq = <<>>
    /\ NothingAwaited
    /\ \/ /\ stalls[current] < StackDepth
          /\ stalls' = [stalls EXCEPT ![current] = @ + 1]
          /\ parked' = FALSE
          /\ Raise(current)
          /\ UNCHANGED exited
       \/ /\ stalls[current] = StackDepth
          /\ exited' = "stack overflow"
          /\ UNCHANGED <<stalls, parked, panicked, pc, subject>>
    /\ UNCHANGED <<current, state, cancelled, runq, sleepVars, ioVars,
                   worldVars>>

\* Some fiber has been told of a deadlock.
stalled == \E f \in Fibers : stalls[f] > 0

-----------------------------------------------------------------------------
(* Blocking *)

\* sleep_current
Sleep(f, ms) ==
    \/ /\ cancelled[f] \/ ms = 0
       /\ UNCHANGED schedVars
    \/ /\ ~cancelled[f] /\ ms > 0 /\ now + ms <= MaxTime
       /\ deadline' = [deadline EXCEPT ![f] = now + ms]
       /\ SleepInsert(f, now + ms)
       /\ Parks(f, "sleeping")
       /\ UNCHANGED <<current, endVars, pc, subject, cancelled, panicked,
                      runq, ioVars, worldVars>>

\* The waiter check and the EEXIST of a second EPOLL_CTL_ADD.
Refused(fd) == fd \in interest \/ \E f \in ioq : waitFd[f] = fd

\* Mutant: every error of EPOLL_CTL_ADD is taken for "readable now".
AtOnceOnError(fd) == fd \in RegularFds \cup interest

\* -EPERM: a read of fd never blocks.
AtOnce(fd) == fd \in RegularFds

\* iyi_read up to its park: wait_readable_posix.
WaitReadable(f, fd) ==
    \/ /\ cancelled[f]
       /\ UNCHANGED schedVars
    \/ /\ ~cancelled[f] /\ Refused(fd)
       /\ Raise(f)
       /\ UNCHANGED <<current, parked, endVars, state, cancelled, runq,
                      sleepVars, ioVars, worldVars>>
    \/ /\ ~cancelled[f] /\ AtOnce(fd)
       /\ Continue(f, "read", fd)
       /\ UNCHANGED <<current, parked, endVars, state, cancelled, panicked,
                      runq, sleepVars, ioVars, worldVars>>
    \/ /\ ~cancelled[f] /\ ~Refused(fd) /\ ~AtOnce(fd)
       /\ waitFd' = [waitFd EXCEPT ![f] = fd]
       /\ ioq' = ioq \cup {f}
       /\ interest' = interest \cup {fd}
       /\ Continue(f, "read", fd)
       /\ Parks(f, "io")
       /\ UNCHANGED <<current, endVars, cancelled, panicked, runq, sleepVars,
                      worldVars>>

\* iyi_read after its park: Cancelled leaves through `!`, otherwise read(2),
\* which would block the thread if there were nothing to read.
Read(f) ==
    /\ Runs(f) /\ pc[f] = "read"
    /\ \/ cancelled[f] /\ UNCHANGED readable
       \/ /\ ~cancelled[f] /\ subject[f] \in readable \cup RegularFds
          /\ readable' \in {readable, readable \ {subject[f]}}
    /\ Continue(f, "user", None)
    /\ UNCHANGED <<current, parked, endVars, state, cancelled, panicked, runq,
                   sleepVars, ioVars, now>>

-----------------------------------------------------------------------------
(* The world *)

Tick ==
    /\ exited = "no" /\ now < MaxTime
    /\ now' = now + 1
    /\ UNCHANGED <<current, parked, endVars, state, pc, subject, cancelled,
                   panicked, runq, sleepVars, ioVars, readable>>

\* A peer writes, closes or connects.
Arrive(fd) ==
    /\ exited = "no" /\ fd \in Fds \ (RegularFds \cup readable)
    /\ readable' = readable \cup {fd}
    /\ UNCHANGED <<current, parked, endVars, state, pc, subject, cancelled,
                   panicked, runq, sleepVars, ioVars, now>>

-----------------------------------------------------------------------------
(* What the lists must agree on with the fibers' states. *)

Listed(q, st) ==
    /\ \A i, j \in DOMAIN q : q[i] = q[j] => i = j
    /\ \A f \in Fibers : state[f] = st <=> f \in ToSet(q)

SleepSorted ==
    \A i, j \in DOMAIN sleepq :
        i < j => deadline[sleepq[i]] <= deadline[sleepq[j]]

Registered ==
    /\ \A f \in Fibers : state[f] = "io" <=> f \in ioq
    /\ \A f, g \in ioq : waitFd[f] = waitFd[g] => f = g
    /\ interest = {waitFd[f] : f \in ioq}
    /\ \A f \in Fibers \ ioq : waitFd[f] = None
=============================================================================
