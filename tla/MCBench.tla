------------------------------ MODULE MCBench ------------------------------
(***************************************************************************)
(* The benches on machines with at most two things wrong with them.        *)
(***************************************************************************)
EXTENDS BenchScripts

Benches == [incremental |-> IncrementalBench, build_speed |-> BuildSpeed,
            bind_speed |-> BindSpeed, rebuild_speed |-> RebuildSpeed,
            artifact_speed |-> ArtifactSpeed, gc_race |-> GcRace,
            gc_default |-> GcDefault, daemon_full_build |-> DaemonFullBuild]

Defects == {"no compiler", "debug", "no go", "no cc", "no linker", "no front",
            "slow", "over", "loses", "lies", "crashes", "unbound",
            "mortal"}
AtMostTwo == UNION {kSubset(n, Defects) : n \in 0..2}

\* CONSTANTS of incremental.py, one fewer than Runs.
TwoConstants == <<3, 4>>

OnlyIncremental == [incremental |-> IncrementalBench]
Sound == {{}}
=============================================================================
