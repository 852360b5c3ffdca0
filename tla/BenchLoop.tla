------------------------------ MODULE BenchLoop ------------------------------
(***************************************************************************)
(* What the benches that time builds do: a bench is a sequence of commands *)
(* (BenchScripts) over source trees, object caches, directories of module  *)
(* artifacts and the binaries they leave, on a machine that may lack       *)
(* something, with builds and runs that may fail.  A figure is the fastest *)
(* of a row's samples; the model keeps the work that sample did, which is  *)
(* what decides whether the figure means what its row says.                *)
(***************************************************************************)
EXTENDS Naturals, SequencesExt

CONSTANTS
    None,
    Scripts,     \* a sequence of commands for every bench
    Machines,    \* sets of things that are missing, slow or wrong on a machine
    Liars,       \* the arms whose binaries print something else where "lies" holds
    MaxFails,    \* how many builds and runs fail for no reason of the bench
    Polls        \* how often daemon_full_build.py looks for the socket

ASSUME BenchAssumption == MaxFails \in Nat /\ Polls \in Nat

VARIABLES
    bench, machine, pc,
    tree,        \* what is written: a value for every unit of every project
    cache,       \* objects: [dir, tree, unit, value]
    mods,        \* module artifacts: [dir, unit, value]
    binary,      \* for every arm, what the program it built prints
    printed,     \* what its last run printed, None for nothing
    figures,     \* for every timed row: samples, and the work of the fastest
    failed,      \* rows that measured nothing: a dash
    shown,       \* the figures that have been printed
    agreed,      \* for every comparison asked: "yes", "no", "unknown"
    server,      \* the daemon a bench starts
    polls, fails,
    outcome,     \* "running", or the exit status
    verdict      \* what build_speed.py says of the target

vars == <<bench, machine, pc, tree, cache, mods, binary, printed, figures, failed,
          shown, agreed, server, polls, fails, outcome, verdict>>
world == <<bench, machine>>
files == <<tree, cache, mods, binary, printed>>
tables == <<figures, failed, shown, agreed>>
ending == <<outcome, verdict>>

Gone == None
Here == Scripts[bench][pc]
Key(c) == <<c.row, c.arm>>
Step == pc' = pc + 1

\* A command, on its own or in a row; "given" names the comparison that must
\* not have failed for the command to be carried out.
Do(op) == [op |-> op, row |-> None, given |-> None]
Row(r, commands) == [i \in DOMAIN commands |-> [row |-> r] @@ commands[i]]
Given(g, commands) == [i \in DOMAIN commands |-> [given |-> g] @@ commands[i]]

-----------------------------------------------------------------------------
(* What one build does: external, the compiler and go. *)

Value(c, u) == tree[c.tree][u]

\* The units read as declarations: the artifact stands for the source unless
\* the source has moved on.
Declared(c) == {u \in c.units : \E m \in mods :
                    m.dir = c.use /\ m.unit = u /\ Value(c, u) \in {Gone, m.value}}

Object(c, u) == [dir |-> c.cache, tree |-> c.tree, unit |-> u, value |-> Value(c, u)]
Read(c) == c.units \ Declared(c)
Coded(c) == IF c.codes THEN {u \in Read(c) : Object(c, u) \notin cache} ELSE {}
Buildable(c) == \A u \in Read(c) : Value(c, u) # Gone

\* The compilers keep one object for a unit, the last; go keeps all of them.
Replaced(c, u) == IF c.arm = "go" THEN {}
               ELSE {o \in cache : o.dir = c.cache /\ o.tree = c.tree /\ o.unit = u}
Cached(c) == (cache \ UNION {Replaced(c, u) : u \in Coded(c)})
                 \cup {Object(c, u) : u \in Coded(c)}

\* The program's answer depends on the part that the benches edit.
Answer(c) == LET v == [u \in c.units \ {"main"} |-> Value(c, u)]
             IN  IF c.arm \in Liars /\ "lies" \in machine
                 THEN [u \in DOMAIN v |-> None] ELSE v

Artifacts(c) == {m \in mods : m.dir # c.emit}
                    \cup {[dir |-> c.emit, unit |-> u, value |-> Value(c, u)] :
                             u \in {w \in c.units \ {"main"} : Value(c, w) # Gone}}

-----------------------------------------------------------------------------
(* Samples and rows *)

\* best, min: the fastest of the samples is the figure.
Faster(a, b) == Cardinality(a.coded) + Cardinality(a.read)
                    < Cardinality(b.coded) + Cardinality(b.read)

Fastest(a, b) == IF Faster(b, a) THEN b ELSE a

Timed(c, work) ==
    IF c.row = None \/ ~c.timed THEN UNCHANGED figures
    ELSE LET k == Key(c)
             s == work @@ [n |-> 1, kind |-> c.kind, from |-> c.from, unit |-> c.unit,
                           units |-> c.units, given |-> c.given]
         IN  figures' = (k :> IF k \in DOMAIN figures
                              THEN [Fastest(figures[k], s) EXCEPT !.n = figures[k].n + 1]
                              ELSE s) @@ figures

\* Mutant: the server is left behind.
FinallyForgotten(s) == s

\* finally: terminate and wait.
Finally(s) == IF s = "none" THEN s ELSE "stopped"

Exit(status) == /\ outcome' = status /\ server' = Finally(server)
                /\ UNCHANGED pc

\* What a failure does: leave the bench, leave the row without a figure, or
\* settle a comparison.
Beyond(c) == CHOOSE k \in pc + 1..Len(Scripts[bench]) :
                 /\ Scripts[bench][k].row # c.row
                 /\ \A j \in pc..k - 1 : Scripts[bench][j].row = c.row

\* Mutant: a build that fails costs a sample, not the row.
DashesOnce(c) == Step /\ UNCHANGED failed

Dashes(c) == pc' = Beyond(c) /\ failed' = failed \cup {c.row}

Fails(c) ==
    /\ UNCHANGED <<world, files, figures, shown, polls, verdict>>
    /\ \/ c.onFail = "exit" /\ Exit("one") /\ UNCHANGED <<failed, agreed>>
       \/ c.onFail = "dash" /\ Dashes(c) /\ UNCHANGED <<agreed, server, outcome>>
       \/ c.onFail = "ignore" /\ Step /\ UNCHANGED <<failed, agreed, server, outcome>>
       \/ c.onFail \in {"no", "unknown"} /\ pc' = Beyond(c)
          /\ agreed' = (c.row :> c.onFail) @@ agreed
          /\ UNCHANGED <<failed, server, outcome>>

\* Its tool is not on this machine or a source is gone; or it fails where it
\* might have worked.
Works(c) == c.tool \notin machine /\ Buildable(c)
Missing(c) == ~Works(c) /\ UNCHANGED fails /\ Fails(c)
Unlucky(c) == Works(c) /\ fails < MaxFails /\ fails' = fails + 1 /\ Fails(c)

-----------------------------------------------------------------------------
(* Commands *)

Withheld(g) == g \in DOMAIN agreed /\ agreed[g] = "no"
Doing(op) == outcome = "running" /\ Here.op = op /\ ~Withheld(Here.given)

Skip ==
    /\ outcome = "running" /\ Withheld(Here.given) /\ Step
    /\ UNCHANGED <<world, files, tables, server, polls, fails, ending>>

\* A bench that cannot say anything here says so and stops.
Need ==
    /\ Doing("need")
    /\ IF Here.of \in machine THEN Exit("one") ELSE Step /\ UNCHANGED <<server, outcome>>
    /\ UNCHANGED <<world, files, tables, polls, fails, verdict>>

Edit ==
    /\ Doing("edit")
    /\ tree' = [tree EXCEPT ![Here.tree][Here.unit] = Here.value]
    /\ Step
    /\ UNCHANGED <<world, cache, mods, binary, printed, tables, server, polls, fails,
                   ending>>

\* rmtree of caches and of directories of artifacts.
Clear ==
    /\ Doing("clear")
    /\ cache' = {o \in cache : o.dir \notin Here.dirs}
    /\ mods' = {m \in mods : m.dir \notin Here.dirs}
    /\ Step
    /\ UNCHANGED <<world, tree, binary, printed, tables, server, polls, fails, ending>>

Builds(c) ==
    /\ cache' = Cached(c)
    /\ mods' = IF c.emit = None THEN mods ELSE Artifacts(c)
    /\ binary' = IF c.codes THEN (c.arm :> Answer(c)) @@ binary ELSE binary
    /\ Timed(c, [read |-> Read(c), coded |-> Coded(c)])
    /\ UNCHANGED <<tree, printed>>

Build ==
    /\ Doing("build")
    /\ \/ /\ Works(Here) /\ Builds(Here) /\ Step
          /\ UNCHANGED <<world, failed, shown, agreed, server, polls, fails, ending>>
       \/ Missing(Here) \/ Unlucky(Here)

\* Whatever is built on this machine crashes before it prints anything.
Crashes == "crashes" \in machine

\* incremental.py reads what a run printed and not how it ended.
RunsBlind(c) ==
    /\ c.onFail = "blind"
    /\ IF Crashes THEN UNCHANGED fails ELSE fails < MaxFails /\ fails' = fails + 1
    /\ printed' = (c.arm :> None) @@ printed /\ Step
    /\ UNCHANGED <<world, tree, cache, mods, binary, tables, server, polls, ending>>

Run ==
    /\ Doing("run")
    /\ \/ /\ ~Crashes
          /\ printed' = (Here.arm :> binary[Here.arm]) @@ printed
          /\ Timed(Here, [read |-> {}, coded |-> {}]) /\ Step
          /\ UNCHANGED <<world, tree, cache, mods, binary, failed, shown, agreed,
                         server, polls, fails, ending>>
       \/ Crashes /\ UNCHANGED fails /\ Fails(Here)
       \/ ~Crashes /\ Unlucky(Here)
       \/ RunsBlind(Here)

\* Mutant: arms that ran agree.
SameIfRan(arms) == arms \subseteq DOMAIN printed

\* Whether the arms printed one thing; where they did not, leave, refuse the
\* row, or say so.
Same(arms) == \A a, b \in arms : printed[a] = printed[b]
Compare ==
    /\ Doing("compare")
    /\ agreed' = (Here.row :> IF Same(Here.arms) THEN "yes" ELSE "no") @@ agreed
    /\ IF ~Same(Here.arms) /\ Here.onFail = "exit" THEN Exit("one")
       ELSE Step /\ UNCHANGED <<server, outcome>>
    /\ UNCHANGED <<world, files, figures, failed, shown, polls, fails, verdict>>

Report ==
    /\ Doing("report")
    /\ shown' = {k \in DOMAIN figures :
                    k[1] \notin failed /\ ~Withheld(figures[k].given)}
    /\ Step
    /\ UNCHANGED <<world, files, figures, failed, agreed, server, polls, fails, ending>>

-----------------------------------------------------------------------------
(* The daemon that daemon_full_build.py starts *)

Serve ==
    /\ Doing("serve")
    /\ server' = "starting" /\ Step
    /\ UNCHANGED <<world, files, tables, polls, fails, ending>>

\* The socket is there, perhaps of a server that has died since.
Patient == polls < Polls
Await ==
    /\ Doing("await")
    /\ \/ /\ server \in {"up", "dead"} /\ Step
          /\ UNCHANGED <<polls, server, outcome>>
       \/ /\ server # "up" /\ Patient /\ polls' = Min({polls + 1, Polls})
          /\ UNCHANGED <<pc, server, outcome>>
       \/ server # "up" /\ ~Patient /\ Exit("one") /\ UNCHANGED polls
    /\ UNCHANGED <<world, files, tables, fails, verdict>>

Stop ==
    /\ Doing("stop")
    /\ server' = Finally(server) /\ Step
    /\ UNCHANGED <<world, files, tables, polls, fails, ending>>

\* External: the server binds, or dies.
ServerRuns ==
    /\ \/ server = "starting" /\ "unbound" \notin machine /\ server' = "up"
       \/ server \in {"starting", "up"} /\ "mortal" \in machine /\ server' = "dead"
    /\ UNCHANGED <<world, pc, files, tables, polls, fails, ending>>

-----------------------------------------------------------------------------
(* Endings *)

\* build_speed.py: no figure, nothing to check; a debug compiler or a slow
\* machine decides nothing either way.
Measured == <<"hello front end", "iyi">> \in shown

\* Mutant: a release on a slow machine is judged.
UndecidedIfDebug == "debug" \in machine

Undecided == machine \cap {"debug", "slow"} # {}
Decide ==
    \/ ~Measured /\ outcome' = "one" /\ verdict' = None
    \/ Measured /\ Undecided /\ outcome' = "one" /\ verdict' = "undecided"
    \/ Measured /\ ~Undecided /\ "over" \in machine
       /\ outcome' = "one" /\ verdict' = "not met"
    \/ Measured /\ ~Undecided /\ "over" \notin machine
       /\ outcome' = "zero" /\ verdict' = "met"

\* rebuild_speed.py's band, gc_race.py's --check, gc_default.py's refusals.
Lost(c) == \/ c.by = "band" /\ "over" \in machine
           \/ c.by = "check" /\ "loses" \in machine
           \/ c.by = "answers" /\ \E g \in DOMAIN agreed : agreed[g] = "no"

End ==
    /\ Doing("end")
    /\ \/ Here.by = "target" /\ Decide
       \/ /\ Here.by # "target" /\ UNCHANGED verdict
          /\ outcome' = IF Lost(Here) THEN "one" ELSE "zero"
    /\ UNCHANGED <<world, pc, files, tables, server, polls, fails>>

Over == outcome # "running" /\ UNCHANGED vars

-----------------------------------------------------------------------------

Projects == {"iyi", "crystal", "go", "hello", "webapp", "medium", "pair",
             "from artifact"}

BenchInit ==
    /\ bench \in DOMAIN Scripts /\ machine \in Machines /\ pc = 1
    /\ tree = [p \in Projects |->
                  [u \in {"part", "rest", "main", "other main"} |-> 0]]
    /\ cache = {} /\ mods = {} /\ binary = <<>> /\ printed = <<>>
    /\ figures = <<>> /\ failed = {} /\ shown = {} /\ agreed = <<>>
    /\ server = "none" /\ polls = 0 /\ fails = 0
    /\ outcome = "running" /\ verdict = None

BenchStep == \/ Skip \/ Need \/ Edit \/ Clear \/ Build \/ Run \/ Compare \/ Report
             \/ Serve \/ Await \/ Stop \/ End

BenchNext == BenchStep \/ ServerRuns \/ Over

BenchSpec == BenchInit /\ [][BenchNext]_vars

\* The bench's process is scheduled, and what it waits for comes back: a
\* build or a run ends, one way or the other.
BenchFairSpec == BenchSpec /\ WF_vars(BenchStep)

-----------------------------------------------------------------------------
(* Properties *)

IsFigure(f) == f.n \in 1..Len(Scripts[bench]) /\ f.coded \subseteq f.read
                   /\ f.read \subseteq f.units
BenchTypeOK ==
    /\ pc \in 1..Len(Scripts[bench]) /\ fails \in 0..MaxFails /\ polls \in 0..Polls
    /\ \A k \in DOMAIN figures : IsFigure(figures[k])
    /\ shown \subseteq DOMAIN figures
    /\ \A g \in DOMAIN agreed : agreed[g] \in {"yes", "no", "unknown"}
    /\ server \in {"none", "starting", "up", "dead", "stopped"}
    /\ outcome \in {"running", "zero", "one"}
    /\ verdict \in {None, "met", "not met", "undecided"}

\* The fastest sample of a row did the work the row is named for.  The least
\* work wins, so one sample of the wrong kind is enough to falsify a row: a
\* cold build that found an object, an edit that changed no byte, a build from
\* source that was let off with declarations; while the one cold build among
\* warm ones that a failed warm-up leaves does no harm.
IsItsRow(f) ==
    /\ f.kind = "cold" => f.coded = f.read
    /\ f.kind = "warm" => f.coded = {}
    /\ f.kind = "edit" => f.coded = {f.unit}
    /\ f.from = "source" => f.read = f.units
    /\ f.from = "artifact" => "rest" \notin f.read

\* Two rows of incremental.py are excepted: the artifact-less one, whose first
\* edit rewrites what is there, and go's, which comes back to a constant that
\* its cache has not forgotten.
Excepted == {<<"the same edit, no artifacts", "iyi">>, <<"one module's body", "go">>}
FigureIsItsRow == \A k \in shown \ Excepted : IsItsRow(figures[k])

\* A figure is the best of all the runs its row promises; a row of which one
\* build failed is a dash, and no bench that leaves on failure prints it.
NoFigureFromFailure ==
    /\ BenchTypeOK
    /\ \A k \in shown : LET s == Scripts[bench] IN
         figures[k].n = Cardinality({i \in DOMAIN s :
                            s[i].op \in {"build", "run"} /\ s[i].timed /\ Key(s[i]) = k})

\* Where the arms are said to agree, each one's binary was built from what is
\* written now, was run since, and all of it is one program.  In
\* incremental.py, which does not look how a run ended, that is so when one of
\* the arms printed anything: three that crash agree on nothing.
AgreementIsReal ==
    [][\A g \in DOMAIN agreed' :
         (/\ agreed'[g] = "yes" /\ agreed # agreed' /\ Here.row = g
          /\ bench = "incremental" => \E a \in Here.arms : printed[a] # None)
         => \A a, b \in Here.arms :
                /\ printed[a] # None
                /\ \A u \in DOMAIN printed[a] :
                       printed[a][u] = tree[Here.trees[b]][u]]_vars

\* Status 0: the compilers a bench insists on were release builds, no row it
\* printed compares two programs, and a met target was measured, whole, on a
\* machine that can answer for it.
ZeroIsEarned ==
    outcome = "zero" =>
        /\ "debug" \in machine => bench \in {"rebuild_speed", "artifact_speed",
                                             "gc_race", "gc_default"}
        /\ \A k \in shown : ~Withheld(figures[k].given)
        /\ bench \in {"gc_race", "gc_default"} => \A g \in DOMAIN agreed : agreed[g] = "yes"
        /\ bench = "build_speed" => verdict = "met" /\ Measured /\ "slow" \notin machine

\* Every bench comes to an end, whatever its daemon does, and leaves no
\* daemon behind.
BenchEnds == <>(outcome # "running" /\ server \in {"none", "stopped"})

\* incremental.py: every sample is a real change rather than a rewrite of the
\* same bytes.
EverySampleIsAChange ==
    [][Here.op = "edit" /\ Here.row # None /\ pc' # pc => tree' # tree]_vars
=============================================================================
