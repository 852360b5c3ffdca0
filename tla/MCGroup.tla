------------------------------ MODULE MCGroup ------------------------------
(***************************************************************************)
(* Programs for IyiGroup: main runs operations of ms, at most m of them,   *)
(* and every task operations of ts, at most t of them.                     *)
(***************************************************************************)
EXTENDS IyiGroup

Programs(ms, ts) == [f \in Fibers |-> IF f = Main THEN ms ELSE ts]

\* Failing tasks, nested groups, sleeps, and values read by anyone: joins
\* that cross, and deadlocks.
PlainOps == Programs({"group", "spawn", "gather", "sleep", "value"},
                     {"spawn", "sleep", "error", "panic", "group", "value"})

\* Values read by anyone: joins that cross, and deadlocks.
ValueOps == Programs({"group", "spawn", "gather", "value"},
                     {"value", "panic", "error", "group", "spawn"})

\* Everything but values, over any descriptors.
EndOps == Programs({"group", "spawn"},
                   {"read", "sleep", "panic", "group", "spawn"})

\* How long the programs are.
Fuel32 == Programs(3, 2)
Fuel42 == Programs(4, 2)

\* The tasks are interchangeable.
Symmetry == Permutations(Fibers \ {Main})
=============================================================================
