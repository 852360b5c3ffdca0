----------------------------- MODULE BenchScripts -----------------------------
(***************************************************************************)
(* The benches as sequences of commands, one definition per function of    *)
(* the Python.  A program is two modules, the one that is edited ("part")  *)
(* and the others ("rest"), and an entry file.                             *)
(***************************************************************************)
EXTENDS BenchLoop

CONSTANTS
    Runs,       \* RUNS, ROUNDS: samples of a row
    GateRuns,   \* GATE_RUNS of build_speed.py, warmed up since it is larger
    Constants,  \* CONSTANTS of incremental.py, as many as Runs but one
    Pairs       \* PAIRS of bind_speed.py and daemon_full_build.py

Program == {"part", "rest", "main"}

Job(arm, units) ==
    [op |-> "build", row |-> None, given |-> None, arm |-> arm, tree |-> arm,
     units |-> units, cache |-> arm, use |-> None, emit |-> None, codes |-> TRUE,
     tool |-> IF arm = "go" THEN "no go" ELSE "no compiler", timed |-> FALSE,
     kind |-> None, from |-> "source", unit |-> None, onFail |-> "exit"]

As(kind, job) == [job EXCEPT !.kind = kind, !.timed = TRUE]
Of(unit, job) == [As("edit", job) EXCEPT !.unit = unit]
OrDash(job) == [job EXCEPT !.onFail = "dash"]
OrNothing(job) == [job EXCEPT !.onFail = "ignore"]
FrontEnd(job) == [job EXCEPT !.codes = FALSE]

Execute(arm) == [Job(arm, {}) EXCEPT !.op = "run"]
Write(project, unit, value) ==
    [tree |-> project, unit |-> unit, value |-> value] @@ Do("edit")
Erase(dirs) == [dirs |-> dirs] @@ Do("clear")
Needs(what) == [of |-> what] @@ Do("need")
Finish(by) == [by |-> by] @@ Do("end")
Compared(row, trees, onFail) ==
    [row |-> row, trees |-> trees, arms |-> DOMAIN trees, onFail |-> onFail]
        @@ Do("compare")

\* best, or a list of samples: n times what is timed, with what comes before.
Times(n, round(_)) == FlattenSeq([i \in 1..n |-> round(i)])

-----------------------------------------------------------------------------
(* incremental.py *)

Languages == <<"iyi", "crystal", "go">>

\* Only iyi has artifacts to write, and to read.
Full(lang) == IF lang = "iyi" THEN [Job(lang, Program) EXCEPT !.emit = "mods"]
              ELSE Job(lang, Program)
Incremental(lang) ==
    IF lang = "iyi" THEN [Full(lang) EXCEPT !.use = "mods", !.from = "artifact"]
    ELSE Full(lang)
ClearCache(lang) == Erase({lang} \cup (IF lang = "iyi" THEN {"mods"} ELSE {}))

\* Mutant: every sample writes the same constant.
CycledNever(i) == Constants[1]

Cycled(i) == Constants[((i - 1) % Len(Constants)) + 1]

Measure(lang) ==
    Row("nothing cached anywhere", <<ClearCache(lang), As("cold", Full(lang))>>)
    \o Row("nothing at all", Times(Runs, LAMBDA i : <<As("warm", Incremental(lang))>>))
    \o Row("one module's body", Times(Runs, LAMBDA i :
           <<Write(lang, "part", Cycled(i)), Of("part", Incremental(lang))>>))
    \o Row("the entry file only", Times(Runs, LAMBDA i :
           <<Write(lang, "main", i), Of("main", Incremental(lang))>>))
    \o IF lang # "iyi" THEN <<>>
       ELSE Row("the same edit, no artifacts", Times(Runs, LAMBDA i :
                <<Write(lang, "part", Cycled(i)), Of("part", Full(lang))>>))

Output(lang) == [Execute(lang) EXCEPT !.onFail = "blind"]

\* Each builds and runs, and they must print one thing.
ThreeOf == [iyi |-> "iyi", crystal |-> "crystal", go |-> "go"]
AgreeBefore ==
    Times(3, LAMBDA i : <<ClearCache(Languages[i]), Full(Languages[i])>>)
    \o Times(3, LAMBDA i : <<Output(Languages[i])>>)
    \o <<Compared("before", ThreeOf, "exit")>>
AgreeAfter ==
    Times(3, LAMBDA i : <<Write(Languages[i], "part", 3), Incremental(Languages[i])>>)
    \o Times(3, LAMBDA i : <<Output(Languages[i])>>)
    \o <<Compared("after", ThreeOf, "tell")>>

StartUp == OrNothing(FrontEnd(Job("iyi", {})))

IncrementalBench ==
    <<Needs("no compiler"), Needs("no go"), Needs("debug")>>
    \o AgreeBefore \o Times(3, LAMBDA i : Measure(Languages[i])) \o AgreeAfter
    \o Times(5, LAMBDA i : <<StartUp>>)
    \o <<Do("report"), Finish("nothing")>>

-----------------------------------------------------------------------------
(* build_speed.py *)

\* time_crystal: a cold row clears its cache before every sample and before
\* the warm-ups of a gate row; a warm one pays for the first build, whether
\* it works or not.
Sample(job, kind, cold) ==
    IF cold THEN <<Erase({job.cache}), As(kind, job)>> ELSE <<As(kind, job)>>
WarmUp(job, cold) ==
    IF cold THEN <<Erase({job.cache}), job>> ELSE <<job>>

TimeCold(row, job, kind, n) ==
    Row(row, (IF n > Runs THEN WarmUp(job, TRUE) \o WarmUp(job, TRUE) ELSE <<>>)
             \o Times(n, LAMBDA i : Sample(job, kind, TRUE)))
TimeWarm(row, job) ==
    Row(row, <<OrNothing(job)>> \o Times(Runs, LAMBDA i : Sample(job, "warm", FALSE)))

Crystal(program, dir) ==
    OrDash([Job("iyi", Program) EXCEPT !.tree = program, !.cache = dir])
GoBuild(program, dir) == [Crystal(program, dir) EXCEPT !.arm = "go", !.tool = "no go"]

\* same_program: without go the two are not run against each other, and
\* nothing else is withheld.
SameProgram ==
    Row("medium", <<[Crystal("medium", "cache_same") EXCEPT !.onFail = "no"],
                    [GoBuild("medium", "gocache_same") EXCEPT !.onFail = "unknown"],
                    [Execute("iyi") EXCEPT !.onFail = "unknown"],
                    [Execute("go") EXCEPT !.onFail = "unknown"],
                    Compared("medium", [iyi |-> "medium", go |-> "medium"], "tell")>>)

Medium == Given("medium",
    TimeCold("medium front end", FrontEnd(Crystal("medium", "cold")), "front", Runs)
    \o TimeCold("medium cold", Crystal("medium", "cold"), "cold", Runs)
    \o TimeWarm("medium warm", Crystal("medium", "warm"))
    \o TimeCold("medium go cold", GoBuild("medium", "gocache_cold"), "cold", Runs)
    \o TimeWarm("medium go warm", GoBuild("medium", "gocache_warm")))

LinkSeconds == LET job == OrNothing(Crystal("hello", "cache_stats"))
               IN  <<job, job>>

\* One C object through cc.
Link == OrDash([Job("cc", {}) EXCEPT !.tool = "no cc"])
TimeLinkFloor ==
    Row("link floor", <<Link, Link>> \o Times(Runs, LAMBDA i : <<As("link", Link)>>))

\* A linker that is not there has no row.
Linked == [Crystal("hello", "warm_lld") EXCEPT !.tool = "no linker"]
Alternatives == TimeWarm("another linker", [Linked EXCEPT !.arm = "lld"])

\* The front end on its own, without LLVM.
FrontBinary == OrDash([FrontEnd(Job("front", {})) EXCEPT !.tool = "no front"])
FrontOnly ==
    Row("front only", <<FrontBinary, FrontBinary>> \o Times(GateRuns, LAMBDA i : <<As("front", FrontBinary)>>))

TimeStartup == Row("startup", Times(GateRuns, LAMBDA i :
                   <<As("front", FrontEnd(Job("iyi", {})))>>))

BuildSpeed ==
    <<Needs("no compiler")>>
    \o TimeCold("hello front end", FrontEnd(Crystal("hello", "cold")), "front", GateRuns)
    \o TimeCold("webapp front end", FrontEnd(Crystal("webapp", "cold")), "front", Runs)
    \o TimeCold("hello cold", Crystal("hello", "cold"), "cold", Runs)
    \o TimeWarm("hello warm", Crystal("hello", "warm"))
    \o TimeCold("go cold", GoBuild("hello", "gocache_cold"), "cold", Runs)
    \o TimeWarm("go warm", GoBuild("hello", "gocache_warm"))
    \o FrontOnly \o SameProgram \o Medium \o LinkSeconds \o TimeLinkFloor
    \o Alternatives \o TimeStartup
    \o <<Do("report"), Finish("target")>>

-----------------------------------------------------------------------------
(* bind_speed.py: one consumer a run, against the shard or its artifact *)

Arms == <<"source", "artifact">>
Consumer(arm) == IF arm = "source" THEN "main" ELSE "other main"
Consume(arm) ==
    [Job(arm, {"rest", Consumer(arm)}) EXCEPT
        !.tree = "pair", !.cache = "cache", !.from = arm,
        !.use = IF arm = "artifact" THEN "mods" ELSE None]

Bind == LET job == [Job("keep", {"rest"}) EXCEPT !.tree = "pair", !.cache = "cache"]
        IN  <<FrontEnd(job), [job EXCEPT !.emit = "mods"]>>

\* Alternating, every build with an empty cache.
MeasurePair(p) == Times(2, LAMBDA i :
    Row("cold", <<Erase({"cache"}), Write("pair", Consumer(Arms[i]), 2 * p - 1),
                  As("cold", Consume(Arms[i]))>>))

BindSpeed ==
    <<Needs("no compiler"), Needs("debug")>> \o Bind
    \o Times(Pairs, LAMBDA p : MeasurePair(p)) \o <<Do("report"), Finish("nothing")>>

-----------------------------------------------------------------------------
(* rebuild_speed.py: both arms in one directory, an edit before each *)

Rebuild(arm) ==
    [Job(arm, Program) EXCEPT !.tree = "pair", !.cache = "default", !.from = arm,
                              !.use = IF arm = "artifact" THEN "mods" ELSE None]
TimedBuild(arm, tick) ==
    Row("rebuild", <<Write("pair", "main", tick), Of("main", Rebuild(arm))>>)
RebuildSpeed ==
    <<[Rebuild("source") EXCEPT !.emit = "mods"]>>
    \o Times(Runs, LAMBDA i : TimedBuild("source", 2 * i - 1) \o TimedBuild("artifact", 2 * i))
    \o <<Do("report"), Finish("band")>>

-----------------------------------------------------------------------------
(* artifact_speed.py *)

From(arm, dir) ==
    OrDash([Job(arm, Program) EXCEPT
                !.tree = IF arm = "source" THEN "pair" ELSE "from artifact",
                !.cache = dir, !.from = arm,
                !.use = IF arm = "artifact" THEN "mods" ELSE None])

\* best: one build first where the row is warm, an empty cache where it is cold.
BestWarm(row, job) ==
    Row(row, <<job>> \o Times(Runs, LAMBDA i : <<As("warm", job)>>))
BestCold(row, job) == TimeCold(row, job, "cold", Runs)

\* The modules' source is deleted from the tree of the artifacts.
DeleteModules == <<Write("from artifact", "part", Gone), Write("from artifact", "rest", Gone)>>

RowName(stage, arm) == stage \o ", from " \o arm
ArtifactSpeed ==
    <<Needs("no compiler"),
      [From("artifact", "cache-emit") EXCEPT !.use = None, !.emit = "mods", !.onFail = "exit"]>>
    \o DeleteModules
    \o Times(2, LAMBDA i :
          BestWarm(RowName("front end", Arms[i]), FrontEnd(From(Arms[i], "front" \o Arms[i]))))
    \o Times(2, LAMBDA i : BestCold(RowName("cold", Arms[i]), From(Arms[i], "cold" \o Arms[i])))
    \o Times(2, LAMBDA i : BestWarm(RowName("warm", Arms[i]), From(Arms[i], "warm" \o Arms[i])))
    \o <<Do("report"), Finish("nothing")>>

-----------------------------------------------------------------------------
(* gc_race.py and gc_default.py: one program, several collectors *)

Collected(arm, program) ==
    [Job(arm, {program}) EXCEPT !.tree = "pair", !.cache = "default"]
MeasureRuns(arm, program) ==
    <<Collected(arm, program)>>
    \o Row(program, Given(program, Times(Runs, LAMBDA i : <<As("run", Execute(arm))>>)))

RaceArms == <<"iyi", "boehm", "go">>
RaceTrees == [iyi |-> "pair", boehm |-> "pair", go |-> "pair"]
Race(program) ==
    Times(3, LAMBDA i : MeasureRuns(RaceArms[i], program))
    \o <<Compared(program, RaceTrees, "exit"), Do("report")>>
GcRace == <<Needs("no compiler"), Needs("no go")>>
              \o Race("part") \o Race("rest") \o <<Finish("check")>>

DefaultArms == <<"bump", "boehm", "iyi">>
DefaultTrees == [bump |-> "pair", boehm |-> "pair", iyi |-> "pair"]
Allocators(program) ==
    Times(3, LAMBDA i : MeasureRuns(DefaultArms[i], program))
    \o <<Compared(program, DefaultTrees, "tell"), Do("report")>>
GcDefault == <<Needs("no compiler")>>
                 \o Allocators("part") \o Allocators("rest") \o <<Finish("answers")>>

-----------------------------------------------------------------------------
(* daemon_full_build.py: an edit before every build, one arm by the daemon *)

Edited(run) == IF run % 2 = 0 THEN "part" ELSE "rest"
EditRun(run) == Write("pair", Edited(run), run)
Compile(arm) ==
    [Job(arm, Program) EXCEPT !.tree = "pair", !.cache = "default"]

PairOf(p) ==
    <<EditRun(2 * p - 1), Of(Edited(2 * p - 1), Compile("normal")),
      EditRun(2 * p), Of(Edited(2 * p), Compile("daemon"))>>

DaemonFullBuild ==
    <<Needs("no compiler"), Needs("debug"), Do("serve"), Do("await"),
      EditRun(0), Compile("normal"), Compile("daemon")>>
    \o Row("full build", Times(Pairs, LAMBDA p : PairOf(p)))
    \o <<Do("stop"), Do("report"), Finish("nothing")>>
=============================================================================
