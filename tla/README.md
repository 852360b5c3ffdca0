# A verification project for iyi

iyi is a language and its compiler: a fork of Crystal's front end with a
runtime and a prelude of its own (`src/iyi`), a module system, a language
server, a build daemon and benches. This project states, as TLA+ modules, what
four parts of it promise; model-checks them with TLC; and proves theorems
about three of them with TLAPS:

* the **concurrency runtime**, `src/iyi/concurrency.iyi`: fibers, groups,
  cancellation, panics, channels, `select`;
* the **language server**, `src/compiler/iyi/lsp/server.cr` and `analysis.cr`,
  with the sessions `bench/lsp_session.py` and `bench/lsp_soak.py` hold with it;
* the **build daemon**, `src/compiler/iyi/command/daemon.cr`;
* the **benches that time builds**, eight programs under `bench/`, whose
  figures and verdicts the documents quote.

Paths are relative to the repository's root. Line numbers without a file are
those of the component's main file.

## 1. Inventory

| Part | State it keeps | Operations | Where it is hard |
|---|---|---|---|
| Fiber scheduler (`IyiFiber`, `IyiScheduler`) | fiber states 0-6, run queue, sleep list, io list, the epoll set | `enqueue`, `reschedule`, `sleep`, `wait_readable`, `iyi_read`, `wait_for_events` | a fiber must be on exactly the list its state names; the poll runs on the stack of whoever parked last; deadlock detection |
| Tasks, groups, cancellation, panics (`IyiTask`, `IyiGroup`, `panic_current`) | `live`, `failed`, `joiner`, children, defers, panic marks | `group`, `spawn`, `join`, `value`, `cancel_children`, the end of a fiber | failure races completion; panics unwind through open scopes; cancellation reaches fibers parked anywhere |
| Channels and `select` (`Channel(T)`, nodes, arms) | buffer, two queues of nodes, park nonces | `send`, `receive`, `close`, `select`, `non_blocking_select` | nodes outlive the park they were made for; a wake races a cancel; the refill from a parked sender |
| Language server (`Server`, `Analysis`) | documents, published verdicts, memo, last good programs, token answers, inbox, cancelled ids | every LSP method, `sweep_cancels`, the burst of `didChange`, pulls, walks, verbs | messages that overtake each other; files written between the steps of a pull; answers from a memo; a fiber parked behind a subprocess |
| Build daemon | analysed preludes, builds in flight, queue of warmings, socket file, identity | bind, accept, refuse, refresh, fork, relay, finish, warm; the client's fallbacks | inherited descriptors; stale analyses and compilers; clients that go away; death in the middle |
| Benches that time builds | source trees, object caches, artifacts, binaries, figures | edit, clear, build, run, compare, report, judge | one sample of the wrong kind is the fastest; failure that costs a sample and not the row; a comparison of stale binaries |
| Threads (`src/iyi/thread.iyi`) | thread lines, the stop page | `start`, `join`, `stop_others`, `resume_others`, the signal handler | signals inside the allocator, threads that start or end during a stop |
| Runtime lock and atomics (`src/iyi/prelude.iyi:66`, `src/iyi/atomic.iyi`) | one word | `lock`, `try_lock`, `unlock` | a spinner that is asked to stop |
| Heap and collector (`src/iyi/prelude.iyi`) | chunks, marks, free lists, remembered set | allocate, mark, sweep | mutators between increments |
| Sockets, files, io; collections, strings, numbers | buffers, arrays, hash tables | the usual | sequential; errno, overflow |
| Module resolver, fetcher, installer (`src/compiler/iyi/mod`) | requirement graph, checksum file | minimal version selection | cycles, version order |
| Compiled modules (`src/compiler/iyi/iyimod.cr`) | artifacts, digests | write, read, reuse | a stale artifact that is reused |
| Compiler, commands, tools | trees, types | phases | sequential, unbounded |
| The inherited Crystal library (`src/fiber`, `src/sync`, `src/channel.cr`, ...) | its own schedulers and locks | | builds the compiler; no iyi program runs on it |

How the parts interact. In the runtime every blocking primitive ends in
`reschedule`, which pops the run queue or polls, and everything that wakes a
fiber ends in `enqueue`; a group is told by its children's ends and reaches
into the scheduler (`cancel`), which reaches fibers that sleep, read or wait
on a channel; channels never tell the scheduler where their nodes are. The
language server is one process between two pipes, whose reader fiber runs only
while the main fiber is parked; the compiler is a function it calls with the
open buffers laid over the disk. The daemon is a server of one fiber, the
children it forks, and clients that are ordinary compiler processes;
`daemon_full_build.py` is such a client's master, and starts and stops the
server. The benches run the compiler over trees they edit themselves.

What makes each modelled part correct:

* scheduler: lists and states agree; sleepers wake on time; a descriptor is
  registered exactly while a fiber waits on it; a deadlock is declared only
  when nothing can wake anyone;
* groups: a scope is not left while a task of it lives; `live` is exact; a
  failure cancels the siblings and nobody else; cancellation reaches every
  blocked fiber; a panic is read or raised, never lost;
* channels: no wake is lost, whichever arm of whichever select it was for; the
  answer of `send` tells the truth about the value; values come out in the
  order they went in, each once;
* language server: it has the texts the client has; verdicts rest on them;
  "unchanged" is true; each request is answered once; memory is bounded;
* daemon: a client gets its own build, from the current compiler and prelude;
  whoever dies, nobody else waits for good;
* benches: a figure did the work its row is named for; agreement and a zero
  exit status were earned.

## 2. Modules

| Module | Models | Extends |
|---|---|---|
| `IyiLists` | what is left of a list: `InOrder(q, S)`, the sequences that list S in the order of q; `Picked(q, I)`, the elements at the positions I | |
| `IyiScheduler` | one thread's scheduler, epoll build | `IyiLists` |
| `IyiGroup` | tasks, groups, cancellation, panics; `Spec`, `FairSpec` | `IyiScheduler` |
| `IyiChannel` | channels and select between those fibers; `ChanSpec` | `IyiGroup` |
| `FifoChannel` | what one channel promises, abstractly: a line, joined at its end and served at its front; `IyiChannel` instantiates it for each | |
| `LspServer` | the server: one action per handler, three for a pull or a walk | `IyiLists` |
| `LspClient` | the other ends of its pipes: scripts, editors; `LspFairSpec` and the properties | `LspServer` |
| `LspSession` | the gate's 49 steps and the soak, as data | `LspClient` |
| `BuildDaemon` | server, children, clients, world; `DaemonFairSpec` | `IyiLists` |
| `BenchLoop` | the commands a bench is made of, and the properties; `BenchFairSpec` | |
| `BenchScripts` | eight benches as sequences of those commands | `BenchLoop` |
| `MCGroup`, `MCChannel`, `MCLsp`, `MCDaemon`, `MCBench` | what TLC runs: programs, sessions, symmetry | |
| `IyiListProofs`, `IyiGroupProofs`, `IyiChannelProofs`, `IyiRendezvousProofs`, `IyiFeedProofs`, `IyiRefinementProofs`, `BuildDaemonProofs`, `LspProofs` | lemmas and theorems | |

### The runtime

*The grain of a step.* Fibers of a thread run one at a time and give the
processor up only inside `reschedule`. What lies between two parks is one
action; a primitive that goes on after its park is two actions joined by a
continuation `pc[f]` (`read`, `value`, `gjoin`, `send`, `receive`, `select`,
`drain`, `dead`). `reschedule` is three actions: `Dispatch` (`dequeue` and
`switch_to`), `Poll` (`wait_for_events` with news) and `Stall` (the deadlock
panic). `parked` says that the current stack is in that loop.

*Lists* are sequences where their order matters (`runq`, `sleepq`, a group's
children, a channel's queues) and sets where it does not (`ioq`; the order in
which epoll reports is the kernel's, so `Poll` takes any).

*Programs.* What a fiber's program does is any sequence of at most `Fuel[f]`
operations out of `Ops[f]`, in properly nested groups; it may return at any
point. A task of a group may also spawn into that group. `defer` is modelled
for the one cleanup the runtime registers itself, a group's join.

*Panics.* `Raise` marks the fiber and sends it to `drain`, where it leaves its
groups innermost first, as `panic_current`'s loop does, and then `TaskDies` or
`MainDies`. A panic raised inside a drain starts the drain again on the defers
that are left. The deadlock panic is raised on the stack that polls, which is
that of the fiber that parked last, even if it is done; `stalls[f]` counts how
often that happened on f's stack, which nests, and at `StackDepth` the guard
page ends the process.

*Time* is `now`, up to `MaxTime`. A timeout that is rounded up is a poll that
may come any time after the deadline.

*Channels.* A node is a record `[fiber, nonce]`, with `v` for a sender; the
box of a sender's node is `v \in emptied` or not. Every value sent is a number
of its own, so that the histories `accepted`, `refused` and `log` can tell what
became of each. A plain `send` is a select of one arm whose continuation
differs. Dropping stale nodes is part of the operation that meets them
(`Pruned`, `Behind`).

Histories (`owner`, `caught`, `minted`, `accepted`, `refused`, `log`) are read
by properties only.

### The language server

*A file* is its path without `.iyi`, a *text* is a name, and `Info` says of a
text what the front end can tell: what it imports, gives and calls, whether it
is sound alone, and what the suggested fix makes of it. A compile (`Compile`)
is the texts its imports reach and whether they hold together. An incremental
change names the text it was made for; applied to another one it leaves
`Garbled`.

*The pipes* are `stdin` and `stdout`; `Reads` is the reader fiber together
with `drain`, possible only while main waits for the inbox or for a verb.
`Named` is `sweep_cancels` with its clearing above the limit; `DidChange`
takes the burst behind it out of the queue. Handlers are one step, as no fiber
runs in between, except where *files* may change under them: a pull first
computes the result ids of all files (`PullBegins`), then judges them one by
one (`PullGoesOn`), and a walk for references, rename or callers reads its
texts first and compiles them after.

*A verb* parks main, and the reader goes on. `check` and `build` are
subprocesses that end. `run` puts the program on the verb's output, and a
program that does not return (`Endless`) keeps it: at thirty seconds the
server sends one SIGTERM and waits again without a bound (2649-2656), for a
process whose output the program still has open. `Hangs` is that state;
`VerbAnswers` is then possible, when somebody puts an end to the program, but
nothing makes it happen.

*The client.* `LspClient` plays a script, a sequence of what to save, what to
write, what to wait for and what must be in the answer; it is the `Client` of
`lsp_session.py`. An editor's script has one step, `Roam`, that does anything
of a menu in any order without waiting. `LspSession` has the gate's steps and
texts, so that `EveryStepHolds` is what `lsp_session.py` asserts, under every
way the server may take its input.

### The build daemon

One action per thing a process does between two system calls that others can
see: `Start`, `Identify`, `Bind`, `Preanalyse`, `Analyse`, `Poll`, `Accept`,
`RequestUnread`, `Refuse`, `Admit`, `Fork`, `Relay`, `EndRound`, `WarmBegins`,
`WarmParses` for the server, `ChildWrites`, `ChildEnds`, `ChildKilled` for a
child, then `Look`, `Connect`, `Send`, `Receive`, `LosesDaemon` for a client.
A round handles what one `poll(2)` answered, in its order, then sends
the status of every finished build and warms one prelude if nothing is in
flight. `holders[c]` is the set of processes that have the server's end of c's
connection open: a client sees the end of its stream when it is empty, which
is how an inherited descriptor matters. The world may edit a prelude, rebuild
the compiler, delete a program and its directory, interrupt a client, crash a
child and kill the server, between any two of these steps.

*An analysis* is two steps, and `draft` is what the first has read. The
fingerprint is taken at the end (`compiler.cr:388-396`, called at 485), so an
analysis is a pair, the version that was read (`text`) and the one whose times
were kept (`mark`), and `Stale` compares the second. An edit in between is in
the fingerprint and not in the analysis.

*A request* is admitted in one step (the identity check at 325, the decision to
refresh), refreshed in another, which can take a second, and served in a third
(`Fork`, 349). `asOf[c]` remembers what compiler and what sources c found when
it sent its request; the properties compare with that, because what is rebuilt
or edited after it may come too late. `Identify` records what lies at the path
a while after `Start` executed it.

*A warming* goes to the client's directory, reads the arguments there and goes
back. `dir` is where the server is, `homes` which directories stand. The step
that finds a file missing ends the process, as `gather_sources` does.

One step: the read of one piece of output. A client whose protocol version
differs is refused like one of a rebuilt compiler.

### The benches

A bench is a sequence of commands (`edit`, `clear`, `build`, `run`, `compare`,
`report`, ...), one definition of `BenchScripts` per function of the Python.
What a build does is external: which units it reads as declarations, which it
makes objects for, which objects it finds. The model keeps, instead of
seconds, the work of each row's fastest sample, and takes less work for
faster. A program is three units: the module that is edited, the others, the
entry file.

A machine is a set of defects, and on one of them whatever is built crashes
before it prints. `incremental.py` reads what a run printed and not how it
ended (165-166), so that its runs, unlike the others', go on blindly
(`RunsBlind`).

## 3. What is checked

| Run | Instance | States | Shows |
|---|---|---|---|
| `group_plain` | main and 3 tasks, 2 groups; main runs 4 operations, a task 2; values, sleeps of 0 or 1 | 1 868 000 | `TypeOK`, `CancelOnlyByFailure`, `LiveExact`, `ScopeJoined`, `PanicsSurface`, `DoneIsFinal` |
| `group_ends` | main and 2 tasks, 2 groups, 2 descriptors; fairness | 102 000 | `NeverDeadlocked`, `Terminates`, `ReadableWakes` |
| `chan_waits` | main and 2 tasks, a rendezvous, 2 descriptors, one regular, one event a poll, sleeps up to 2; main runs 4 operations, a task 2 | 309 000 | `QueueExact`, `ReadNeverBlocks`, `SleepersWakeOnTime`, `ParkedForReason`, `NobodyStarves`, `CancelReachesBlocked` |
| `chan_select` | 2 tasks and main, a rendezvous and a channel of one, six arm lists | 787 000 | `ParkIsFindable`, `NoMissedRendezvous`, `HonestReceipt`, `StaleForGood`, `FirstInFirstOut` |
| `lsp` | the gate, the soak, four editors of three moves each; 17 files, one with a program that does not return; fairness | 72 000 | `ViewsAgree`, `PublishedIsCurrent`, `UnchangedIsTrue`, `FootprintBounded`, `EveryStepHolds`, `VerdictSeesBuffers`, `AnsweredOnce`, `SessionEnds` |
| `daemon` | 2 clients, 2 flag sets, 2 troubles, 2 servers; fairness | 348 000 | `OutputIntact`, `NothingInherited`, `WarmingIsSafe`, `SuccessIsEarned`, `ServedByItsCompiler`, `AdoptsCurrent`, `EveryClientEnds` |
| `bench` | 8 benches on 92 machines, one failure; fairness | 208 000 | `FigureIsItsRow`, `NoFigureFromFailure`, `ZeroIsEarned`, `AgreementIsReal`, `BenchEnds` |

The properties are stated in words next to their definitions. Those that
relate most:

* `ScopeJoined`, `PanicsSurface`, `LiveExact`: an owner may return, be
  cancelled, panic, or be told of a child's panic in a nested join; children
  may spawn siblings while the owner is joining.
* `HonestReceipt`: `send` answers nil exactly for values that are in a buffer
  or were received, whether it was cancelled, closed, or lost another arm.
* `StaleForGood`: a stale node never becomes current again, which is what
  justifies that nobody unlinks nodes.
* `FirstInFirstOut`: each channel, its parked senders and its buffer seen as
  one line, implements `FifoChannel`: the refinement mapping is `Fifo(ch)` in
  `IyiChannel`, and every step of the system must be, for each channel, a step
  of `FifoChannel` or leave what it maps to alone. The abstract channel knows
  who waits with what only as a set of sets (`open`, from `OfferedTogether`): a
  parked select that offers several values sends one and withdraws the others
  in the same step, a cancelled one withdraws all of them, and what the channel
  has answered for is never withdrawn.
* `ViewsAgree`: what is in the pipe and in the inbox, folded over the server's
  documents, gives the client's documents, however bursts are merged; and no
  delta is spliced onto tokens the client had not seen when it asked.
* `VerdictSeesBuffers`, `UnchangedIsTrue`: a verdict, fresh, recalled or
  declared unchanged, against all the texts it was judged by.
* `NothingInherited`: the server's death is visible to every client at once.
* `OutputIntact`: each stream whole, in order, and its own, with the status.
* `ServedByItsCompiler`, `AdoptsCurrent`: a build is served by the compiler
  that lay at the path when its client asked, and adopts no analysis from
  before that, although the check, the refresh and the fork are steps between
  which anything may be rebuilt or edited. Both say no more than the code
  does (section 4): the first takes it that nothing was rebuilt between exec
  and `Identify`, and the second says of the server's own flag set that the
  fingerprint is no older than the request.
* `WarmingIsSafe`: arguments that are read again long after the build, in
  another directory than the server's, by code that ends the process it does
  not like them in, do so only when a file of a build that succeeded was
  deleted since. Staying in its own directory, or warming from a build that
  failed, would end the server.
* `FigureIsItsRow`, `AgreementIsReal`: caches and binaries of earlier commands
  against what the row or the comparison says now. Where `incremental.py` says
  "yes" because three programs crashed alike, `AgreementIsReal` says nothing
  (section 4).
* `SessionEnds`: the process ends, told to or left alone, or it hangs behind a
  program that never returns.

Each property of a passing run has a mutant of the code, defined next to the
definition it changes (`WokenButChan`, `MemoKeyAlone`, `ClosesItsOwn`, ...),
for which TLC finds the property violated under the same configuration.

**`stalled`.** After a deadlock panic was raised on a fiber that is parked or
done, several invariants fail; section 4 is about that. The invariants of
tasks are therefore stated for the executions before any such panic
(`~stalled => ...`), and `NeverDeadlocked` shows that programs of groups,
sleeps, reads, failures and panics alone never meet one: a deadlock needs
`value` or a channel.

**Bounds, runtime.** Three tasks are the smallest number in which a failing
task, a blocked one and a joining one are distinct from each other and from
main; two groups the smallest with nesting; two operations the smallest in
which a fiber parks, is woken, and parks again with a stale node behind it.
In `chan_waits` main sleeps and receives too, so that three can sleep, and two
wait for one.
Two channels are what a select needs. `MaxEvents = 1` with two descriptors
stands for sixteen events with seventeen. `MaxTime = 2` gives deadlines in the
wrong order. `StackDepth = 2` suffices where executions after a deadlock are
not looked at; `finding_deadlock` uses 4. Tasks are interchangeable, so the
runs without liveness use symmetry over them. A select with two send arms on
the same channel is not among the arm lists of the run; the theorems are about
every list.

**Bounds, server.** An editor makes three moves out of seven or less before or
after which it may read or not; three are a change, what depends on it, and
what overtakes both. `Keep = 5` stands for 8, fewer than the files a walk
compiles; `MaxCancelled = 1` for 256, so that two cancels already clear the
set. The root is listed in the order of `Files`.

**Bounds, daemon.** Two clients are a build in flight and one that is
accepted, relayed or forked beside it; `Limit = 2` analyses for 2 keys;
`Broken = {2}`: a source that was edited twice no longer analyses.
Two troubles are, for instance, an edit between a kill and a restart, or two
edits around the end of an analysis.

**Bounds, benches.** `Runs = 3` for 7 with two constants for 6, one fewer, as
in the source; `GateRuns = 4`, larger than `Runs`, which is what its warm-ups
are made for; `Pairs = 2` for an edit of each half; `Polls = 3` for 100; any
two of the thirteen defects in `MCBench!Defects`, and one failure anywhere;
that all programs crash is a defect, so that one failure does not bound it.

**Fairness.** `FairSpec`: the processor goes on executing the thread's
instructions, `reschedule` among them, and the clock goes on; nothing of the
peers of descriptors, hence the second disjunct of `Terminates`, and nothing
about which fiber runs. `LspFairSpec`: the server's process is scheduled, a
verb that nobody's program keeps open ends, the reader fiber goes on while main
waits for a verb, and the client reads and writes on; of a verb that `Hangs`
nothing is assumed. `DaemonFairSpec`: server, each child and each client are
scheduled; nobody has to start a server or to cause trouble. `BenchFairSpec`:
the bench's process is scheduled and what it waits for returns; nothing of the
server it starts. All are weak.

Deadlock is checked in every run. A process that has exited, and a server in
`poll` with no client left to come, are steps that change nothing (`Over`,
`Ended`).

## 4. Where code and documents part

Each of these has a run that TLC finds violated.

* `finding_deadlock`: when the fiber that parked last is one that has finished,
  the deadlock is raised on a finished stack. `panic_current` returns to
  `reschedule`, finds the same empty lists and raises again. The deadlock is
  not named and the process does not exit 1: it nests to the guard page. Each
  round also counts the finished task once more, so a join may let its owner
  out of a scope whose tasks live. `bench/concurrency_exercise.sh:17` promises
  a named deadlock.
* `finding_rendezvous`: a receive from a buffer moves the oldest parked
  sender's value in behind (1550-1556), on a rendezvous too, whose buffer is
  only for values that have a receiver on the way. A receiver parks; a task
  sends, which wakes it, and sends again, which parks; the one receive lets
  both sends answer nil. Line 1457 says "a send completes when a receive takes
  it". (A buffered channel holds one more than its capacity in the same way.)
* `finding_stale`: the daemon drops its analyses when *its own* prelude is
  stale, on the ground that all came from the same sources. Its own is
  Crystal's; a build of an `.iyi` file has `iyi/prelude`. Edit that one, and
  the next build adopts the old analysis. `AdoptsCurrent` is the part that
  holds: flag sets over the same files.
* `finding_stopped`: a client that hangs up before its request has been read
  ends the server, whatever else it is serving. SPEC IV.1d says that opting in
  can cost the speedup only.
* `finding_rewrite`: with 6 constants and 7 runs, the last edit of one row of
  `incremental.py` is the first of the next, so one sample of the
  artifact-less row builds what is there. `FigureIsItsRow` excepts that row
  and go's, whose cache still has the seventh sample's object.

Met while modelling, and without a run:

* "A program that never returns must not take the session with it", says the
  comment on `run_verb` (`server.cr:2625-2627`). It does: the SIGTERM at thirty
  seconds goes to the compiler, the program keeps the pipe open, and the wait
  behind the timeout has none of its own. The main fiber handles nothing from
  then on, not even that the client hung up.
  `<>~running` fails; `SessionEnds` says what holds.
* `compiler.cr:384-387` says that a fingerprint has the time each file "had when
  it was read". The times are taken after the analysis, so an edit during it is
  never seen, and every later build adopts what was read before it.
* `daemon.cr:39-41` checks the executable "so that a rebuilt compiler cannot be
  served from silently". What is rebuilt between the check (325) and the fork
  (349), with an analysis between them, is served by the old one, and what is
  rebuilt between the exec and line 172 is taken for the server's own.
* A child that a signal killed has no exit code: `status.exit_code` raises a
  `RuntimeError` (`process/status.cr:312`), which the `rescue IO::Error` around
  `daemon_finish` does not take, and the server ends with every build it has in
  flight.
* `incremental.py:439` says "yes" when three programs crash: each printed
  nothing, which is the same (165-166, 427), and the bench goes on to exit 0. The
  comment at 423 says "one program, or nothing here means anything".
* SPEC III.4.2 says a group cancels its children when an enclosing group is
  cancelled; a task cancelled while it joins its own group waits for tasks
  nobody told (`concurrency.iyi:957` leaves state 5 alone; SPEC near line 2577
  owns the gap).
* A task that dies of the deadlock panic while it is another task's joiner is
  enqueued when that one ends (`concurrency.iyi:785`); its stack goes on at
  the `__iyi_exit(1)` behind `reschedule`, though line 356 says a done fiber
  is never scheduled again.
* A receiver that was woken and is cancelled before it runs leaves the value
  in the buffer while the next parked receiver stays parked (1645-1649). So
  does an arm of a select that was woken for the value and answers by another
  arm, ready by then too (1687), though the value was to be in the buffer "for
  the one instant the receiver needs to be scheduled" (1577). `NobodyStarves`
  shows that nothing else does it.
* `analysis.cr:58-62` says a memo hit can never differ from a recompile; the
  key has the buffers and not the files on the disk, so a check after a file
  was written answers from before. `VerdictSeesBuffers` and `UnchangedIsTrue`
  say what holds: unsaved buffers are always seen, and a verdict that was
  compiled with its result id is what "unchanged" says.
* A result id names the files its imports reach as far as they are there
  (`result_ids` passes over a path without a buffer and without a file,
  698-714), and none but the open ones without a root. An import that appears
  between the ids and the compile and is gone by the next pull is in the
  verdict and in neither id, so "unchanged" leaves a verdict standing that
  saw it. The proof attempt found this; `UnchangedIsTrue` is about sessions
  with a root and graphs whose files are all there.

## 5. What is proved

**`IyiGroupProofs`**, for every finite set of fibers and groups, every set of
descriptors, every program and every clock bound, from `SchedulerAssumption`
and `GroupAssumption` alone:

* `TypeCorrect`: `Spec => []TypeOK`.
* `CancellationReaches`: `Spec => []CancelReachesBlocked`, III.4.2's "reaches
  a blocked fiber".

`TypeOK` is not inductive. A task that ends subtracts one from `live[group[f]]`
and may wake `joiner[f]` or `gjoiner[g]`: the step keeps its type only if f has
a group, so nothing may run, queue, sleep, read or be joined that was never
made. `Placed` says that: every fiber the lists, the current slot, the children
and the joiner slots name is main or was spawned into a group. `IInv`, the
conjunction, is inductive; `Inductive` proves it with one lemma per action.
`CancelReachesBlocked` then needs nothing beyond `IInv`: the steps that park
check `cancelled` first, and `Complete`, the only step that sets it, takes
every fiber it flags off what it waits for.

On top of `IInv`, from the same two assumptions, for the
executions before a deadlock was told (section 3, `stalled`):

* `QueuesAreExact`: `Spec => []QueueExact`.
* `DoneStaysDone`: `Spec => DoneIsFinal`.

`QueueExact` is not inductive. `Complete` appends three lists to the run queue,
the tasks it wakes, its group's joiner and its own, and a fiber on two of them,
or on the queue already, would be on it twice. `Queued` adds what rules that
out: `joiner[t] = j` and `gjoiner[g] = j` only while j is parked in exactly
that join, and a fiber parks in one join at a time. `Lists(q, S)`, "q holds the
elements of S, each once", is the form in which the lemmas of `IyiListProofs`
say what append, dequeue, insertion, unlinking and the poll do. `DoneStaysDone`
needs the same facts: a fiber that is done is on no list and nobody's joiner,
so nothing can wake it.

and, on top of that:

* `LiveCounts`: `Spec => []LiveExact`.
* `ScopesJoin`: `Spec => []ScopeJoined`, III.4.1.
* `PanicsAreLoud`: `Spec => []PanicsSurface`, III.1.4.
* `CancelledForCause`: `Spec => []CancelOnlyByFailure`.

A scope is left through its join, and the join looks only at `live`. So the
argument (`Scoped`) goes: a fiber is a child of the one group it was spawned
into (`ChildrenOwn`), so that a group's counter changes with its own tasks
alone (`Counted`); a group is on its owner's registry, or joined by it, or gone
(`InsideOwns`, `Gone`); a join that returns finds no task of it undone; and no
task is spawned into a group that is gone, because its owner cannot name it
any more and its tasks, which could, are done (`SpawnableStays`). Panics are
followed from the task to whoever was told: what is marked delivered was read,
or the owner of the group panicked in its turn (`Passed`).

For programs in which nobody reads the `value` of one task (`Valueless`, a
condition on `Ops` that `group_ends` meets):

* `StructuredGoesOn`: `Valueless => (Spec => []NeverDeadlocked)`. The deadlock
  is found when nobody is queued, asleep or waiting for a descriptor; everyone
  who is not done is then parked in a join. A join waits for an unfinished task
  of its own group (`JoinsWait`), and a task comes after the owner of its
  group, so of the joins that are parked one is the last, and its task is not
  parked in any (`SomebodyGoesOn`). `Tree` keeps that order as a height of every
  fiber, lower than its group's owner. A group does not name its future tasks,
  so the heights are found as the program goes: a fiber that has been made
  stands at least as high as there are fibers still to be made, and the next
  one finds room below whoever spawns it (`SpawnGoes`).
* `StructuredIsTimely`: `Valueless => (Spec => []ReadNeverBlocks /\
  SleepersWakeOnTime)`. What a fiber may count on when it comes back to its
  read is not inductive: the event must still be there. `Backed` adds that of
  those about to read one descriptor there is only one, unless it is a regular
  file. A descriptor is registered for one fiber at a time, the poll that
  delivers its event takes it off, and the next poll comes when nobody is
  queued, so when nobody is on the way back to a read (`PollBacked`).
  `PollInTime` needs of `runq` and the sleep list what `QueueExact` says of them.

**`IyiChannelProofs`**, for every finite set of fibers, groups and channels,
every capacity, every list of arms a select is written with and every program,
from the three assumptions of `IyiScheduler`, `IyiGroup` and `IyiChannel`:

* `StaleStaysStale`: `ChanSpec => StaleForGood`, over all of `ChanNext`, the
  steps of scheduler and groups included. A node is stale for good because it
  is never ahead of its fiber's `park_nonce` (`NInv`), that count never falls,
  and a fiber gets into the state "chan" only by counting it up (`Counts`). The
  proof shows of every operation which nodes it may add to a queue (`Fills`):
  only those of the park it makes; `GroupParksNobody` shows that no other step
  parks a fiber on a channel. The count is a natural number here: in the
  program it is 64 bits wide and wraps.

**`BuildDaemonProofs`**, for every set of clients, flag sets, outputs and
bounds, from `DaemonAssumption` alone, over the module's own definitions of
every action:

* `NothingIsInherited`: `DaemonSpec => []NothingInherited`. That a fork leaves
  no descriptor behind is not inductive: one must know that what the server
  holds is the connection it reads and those of the builds in flight, which
  is what `Closes` names, that the listener's are in the backlog, and that no
  child holds anything. `DInv` says so.
* `ServesItsCompiler`: `DaemonSpec => ServedByItsCompiler`. Between a request
  and the fork that answers it the compiler may be rebuilt, and the server be
  another one than the client looked for. `RInv` says of every request that
  waits (`Pending`, `Noted`): it was sent to the server that listens now, which
  had recorded its identity by then, so what the client found lies between the
  identity and what is at the path. Rebuilding only counts up; hence, when the
  check finds the path and the identity equal, what the client found is equal
  too (`AdmittedRight`), and stays so through the refresh, whatever is rebuilt
  during it. That no request outlives its server is the backlog's being empty
  while nobody listens.
* `AdoptsNothingStale`: `DaemonSpec => AdoptsCurrent`. The refresh compares the
  fingerprint of one analysis and drops all. Why that is enough for every flag
  set over the same files is `CacheInv`: what was read is no newer than its
  fingerprint, and that no newer than the files (`Versions`); the server's own
  is there before any other is begun, and every other over its files has read
  them when they were no older than its fingerprint (`OwnIsFirst`), which an
  analysis still under way (`draft`) keeps as well. With `AdmittedRight`, that
  the fingerprint is no older than the request, this bounds what a child
  adopts from below. Nothing bounds what its own has read: that edit is lost.
* `EarnsItsSuccess`: `DaemonSpec => []SuccessIsEarned`. A client believes a
  frame that was sent long before, perhaps by a server that is dead by now, so
  `EInv` says of every frame still on its way that a 0 was earned
  (`HonestFrames`). The second half, that the broken pipe the command takes for
  a success needs a dead server, is that a client which has not sent its
  request keeps a holder (`ClientRight`): refusing and finishing a build let go
  of a connection, but only of one whose request has been read
  (`BuildsAsked`), and a child that ends never held one (`DInv`).
* `WarmsSafely`: `DaemonSpec => []WarmingIsSafe`. What is warmed is taken from
  a queue that outlives the builds, steps after the server went to a directory.
  `WInv` says of the queue that all in it have succeeded, so that a child of
  the server got through the same arguments (`passed` is within `Sound`, and
  that within `WellFormed`); and of the server that while it is inside a
  directory it is that of the first in the queue. A warming that fails has then
  found that one's file gone.
* `OutputStaysIntact`: `DaemonSpec => []OutputIntact`. A piece of output goes
  through a pipe, a read, a frame among those of the other stream, and a
  connection. The pieces of one stream are numbered: `Line` says that the
  client has the first, the pipe the last, and the frames on their way carry
  what is between, each number once and in order, which writing, relaying
  and receiving a piece preserve (`LineWritten`, `LineSent`, `LineTaken`), and
  a frame of the other stream or a status does not disturb (`LinePassed`,
  `LineSkipped`). That a status is believed only when nothing is missing needs
  three more facts of `OInv`. A stream is closed only when its writer has
  ended, or was killed, and it is empty, also when what `poll` answered is
  handled many steps later (`Underway`, `Answered`). A status is the last frame
  of its connection (`StatusLast`). And a client waits its turn once, in the
  backlog or as the one being read, so that no second build writes into its
  line (`InTurn`). That each answer of `poll` is handled once is
  `AnswersRight`: what `Picked` lists of the descriptors, two for each build,
  it lists once (`PickedOnce`).

**`IyiRendezvousProofs`**, from the same three assumptions, the third of which
says that a select has at least one arm, as `parse_select` demands:

* `ChannelTypes`: `ChanSpec => []AllTypeOK`.
* `GroupsHoldWithChannels`, `CancellationReachesChannels`: what was proved of
  `Spec` is proved of `ChanSpec` as well. To scheduler and groups a step on a
  channel either wakes fibers that were parked on one or parks the fiber that
  runs (`GroupView`), and that is all the earlier proofs need to
  know of it.
* `TheParkedHaveReason`, `ParksAreFindable`, `RendezvousHappen`:
  `ChanSpec => []ParkedForReason`, `[]ParkIsFindable`, `[]NoMissedRendezvous`.
  Every step is one of two (`ReleasesOrParks`): it parks nobody and keeps, of
  those who stay parked, every node (`Releases`), or it parks the fiber that
  takes it, which found no arm ready (`AwaitsAll`). The first can only take
  parked fibers away; a receive that leaves a buffer shorter has found no
  sender to refill it from, and a close empties both queues. The second has
  its reason in the guard. `ParkIsFindable` holds even after a deadlock was
  told.
* `ReceiptsAreHonest`: `ChanSpec => []HonestReceipt`. A value is made when an
  operation begins, is on offer while it lasts, and is settled when it ends:
  accepted, or refused, and never both. `Values` says that of all values, that
  no two fibers offer the same, and that what is handed over while it is still
  on offer is what the boxes of `emptied` tell. A receive takes the value of
  another fiber's node, so `NodesOffer` says that a parked fiber still offers
  what its nodes carry; and since it must be another's, `RunInv` says that no
  fiber is in an operation while it is parked, the one exception being the
  fiber the deadlock panic is raised on, which never gets back into one.

* `ReadsDoNotBlock`, `SleepersAreOnTime`: `ChanSpec => [](NeverDeadlocked =>
  ReadNeverBlocks)`, `ChanSpec => ([]NeverDeadlocked => SleepersWakeOnTime)`. A
  step on a channel neither waits for a descriptor nor takes a sleeper off its
  list, so `GroupView` carries `BackInv` and `WokenInTime` of `IyiGroupProofs`
  over (`ViewBacked`, `ViewInTime`). The condition is there because programs of
  channels can deadlock. Should a fiber have been given the deadlock panic
  while it was parked, these two are only model-checked.

**`IyiFeedProofs`**, from the same three assumptions:

* `NobodyIsLeftStarving`: `ChanSpec => []NobodyStarves`. That everything in a
  buffer beside parked receivers has a receiver of its own on the way says
  nothing of why that receiver is not lost, so `FeedInv` names those who come
  (`Fed`: woken out of a receive on this channel, or about to look) and shows
  that they do. A runnable fiber is on the run queue (`Remembered`; what is
  left of `QueueExact` once a deadlock was told), and one parked on a channel
  is in an operation there (`InOperation`), so that only its own step takes it
  off the way. A node that is current belongs to a fiber that has an arm there
  (`NodesAwait`), so a wake goes to somebody who will look at this channel;
  without select it has no other arm to be diverted to (`OneArm`). Then a put
  wakes one more, a take leaves one less, a receiver parks only beside an empty
  buffer, and the refill from a sender that waits changes neither, since
  `NoMissedRendezvous` rules it out beside a parked receiver. The two premises
  of `NobodyStarves` are where it does fail: a select that is woken may take
  another arm, and a cancelled receiver takes its wake with it (section 4).

**`IyiRefinementProofs`**, from the same three assumptions:

* `ChannelsAreFifo`: `ChanSpec => FirstInFirstOut`, the refinement, for every
  channel and every step. What a channel has on offer is its buffer followed by
  the values of the nodes that are not stale, in the order of the queue
  (`OnOffer`), those of one fiber together (`Open`). The proof has four kinds of
  step. Nodes that leave the front of the queue, or go stale in it, withdraw
  offers (`ChannelWithdraws`): what stays is a sublist (`Within`), since nobody
  in the queue parks anew (`QueueShrinks` from `StaleNodes`), and whole sets go,
  since pruning cuts a queue in front of its oldest node that is not stale
  (`PrunedCut`) and the nodes of one park are current together. A put appends
  to the buffer, which is the end of the line only because nobody is left
  parked behind it (`PutFindsNobody`): a sender is parked only beside a full
  buffer, so the put was ready because a receiver waits, and that receiver,
  which it wakes, was then the only sender too (`PutWakesSender`, from
  `ParkedForReason` and `NoMissedRendezvous`). A receive takes the head, what it
  refills the buffer with is the oldest parked sender's, and only that sender
  leaves the line (`ChannelTakesSend`, `OneWoken`). A park adds what it offers
  at the end of the line (`ChannelAwaits`), values that are new (`OffersApart`,
  from the books of `ReceiptInv`), and nobody else's go (`ParkKeeps`).
  `OnceInv`, that no value is on offer twice and no two arms share one, is what
  the invariants before lack.

**`LspProofs`**, for every list of files, every table of what texts import,
give and call, every `Keep` and `MaxCancelled`, and every set of clients, from
`LspAssumption` and `ClientsAssumption`. The second says what a script is: the
frames of a write are notifications or requests as their method is, name known
files and texts, and a `$/cancelRequest` names a request of the same write
(`Client.write_batch`, the only place of `lsp_session.py` that cancels; an
editor of the model cancels any request that is open). The server's part,
`ServerInv`, is inductive (`ServerHolds`): messages are well formed wherever
they are (`Kinds`, `Pipes`), documents, verdicts and memo keep their types
(`Buffers`), typed programs are few and of open documents (`Kept`), verdicts
are current (`Current`) and a job has the files and texts it needs (`JobOK`).

* `FootprintHolds`: `LspSpec => []FootprintBounded`, from `Kept`: a program is
  kept only by a compile of an open document, and a close takes it away.
* `VerdictsCurrent`: `LspSpec => []PublishedIsCurrent`, from `Current`: every
  handler that changes a buffer checks it with the new buffers in the same
  step, and a memo that answers instead is of the same text (`MemoOK`).
* `SeesOneThing`: `LspSpec => []ViewsAgree`, which is `DocumentsAgree` and
  `ColoursAgree`. Documents: what is in the pipe and the inbox, applied in
  order to the server's documents, is what the client has. `After` distributes
  over concatenation, is indifferent to messages that are no changes, and a
  burst applied at once is the burst applied one by one. Tokens: a result id
  stands for one text wherever it is, in the server's memory, in an answer
  under way, or with the client (`Coloured`).
* `RequestsApart`, `EachAnsweredOnce`: `LspSpec => []Asking` and
  `LspSpec => AnsweredOnce`. A request is in one place, the pipe, the inbox,
  the job or the answers, until the client reads its answer (`Apart`); a
  cancel that is in time is in front of what it names wherever the two are
  (`Timely`), since `sweep_cancels` looks through all of the queue.
* `VerdictsSeeBuffers`: `LspSpec => VerdictSeesBuffers`. A verdict is compiled
  from the buffers and recalled only under a key that holds every buffer, so
  that what it says of a document that is open now was its buffer then
  (`MemoSees`), whichever edits came in between; the items of a pull that is
  still going on are no older than the pull, and no message is handled during
  one (`ItemsSee`).
* `UnchangedHolds`: `LspSpec => []UnchangedIsTrue`. Stamps stand for texts: a
  file that was written has another stamp ever after (`StampOK`), so equal
  stamps of a file mean equal texts. An id is the stamps of what the imports
  reach, and what they reach depends on the texts alone: by induction over the
  steps of the walk, two states in which the files of one walk have the same
  texts have the same walk (`SpreadsAlike`). An id that was computed before
  the compile and is the id now too pins down every text in between
  (`Identified`, `HandedOK`).

`IyiListProofs` has the lemmas about `InOrder`, `ToSet`, `SubSeq`, `\o`, `Min`,
`Lists` and `Picked`. The library's induction theorems take an operator and are
out of these provers' reach. What is proved by induction here (`Picked`,
`After`, `Applied`, `Reached`, which are recursive functions of a number) is
proved from a least counterexample: the set of numbers where the claim fails,
were it not empty, would have a smallest element (`Smallest`), and neither 0
nor a successor can be it.

Model-checked only: liveness, which needs fairness and ENABLED; that
`ReadNeverBlocks` and `SleepersWakeOnTime` hold after a deadlock was told as
well; `EveryStepHolds`, which is about the gate's 49 steps and their texts; and
the benches, whose figures are those of eight given scripts.

## 6. What is not modelled

* Runtime: the IOCP and kqueue spellings of the poller; per-thread scheduler
  states and the fiber registry the collector walks; stacks, guard pages and
  the context swap, except that a stack nests; the values tasks answer; defers
  the program writes; descriptors that are closed while somebody waits on them;
  a task that spawns into an enclosing group its closure captured (it spawns
  into the groups it has open and the one it runs in).
* Language server: what typed answers contain, and every range; the caps of
  200 files; the reader's channel of 64, which only makes the reader wait;
  `lib/`, `iyi.mod` and `iyi.sum` in the result ids; formatting. Rename and
  reference ranges that come from the last good program while the lines are
  the current ones are in the hazard list without a property: no document
  says what they should be.
* Build daemon: the options of the verb, the bytes of frames.
* Benches: seconds, the generated programs, environments (so also
  `compiler_env`, and the variable `daemon_full_build.py:106` leaves in the
  plain arm's environment), `link_seconds`' parsing; the other files of
  `bench/`, which print or count and keep no state between steps.
* Everything in the inventory's other rows, for the reasons in `PROJECT.json`:
  threads and stop-the-world with the runtime lock, and the collector, are
  protocols that deserve modules of their own and would come next (an abstract
  specification "while the world is stopped no mutator steps", then "no
  reachable object is freed"); the compiler and its tools are sequential over
  unbounded trees.

## 7. What would come next

The lock, the thread lines and the stop-the-world handshake; the heap.
