----------------------------- MODULE MCChannel -----------------------------
(* Programs for IyiChannel. *)
EXTENDS IyiChannel

Programs(ms, ts) == [f \in Fibers |-> IF f = Main THEN ms ELSE ts]

\* Every task sends, receives, closes, reads and sleeps; one may fail and
\* cancel the other on whichever list it is.
TalkOps == Programs({"group", "spawn", "receive", "sleep"},
                    {"send", "receive", "close", "error", "read", "sleep"})

\* Tasks that do everything a channel offers, and may fail.
SelectOps == Programs({"group", "spawn", "receive"},
                      {"send", "receive", "select", "try", "close", "error"})

\* Two tasks and a rendezvous.
MeetOps == Programs({"group", "spawn"}, {"send", "receive"})

Fuel42 == Programs(4, 2)

CapacityOf(n) == [ch \in Channels |-> n]
Cap0 == CapacityOf(0)

NoArms == {}
Arm(d, c) == [dir |-> d, ch |-> c]
CONSTANTS ch1, ch2
Cap01 == (ch1 :> 0) @@ (ch2 :> 1)

\* Take one and give one, take either, give either; both sides of one
\* channel, either first, and one side of it twice.
Selects == {<<Arm("send", ch1), Arm("recv", ch2)>>,
            <<Arm("recv", ch1), Arm("recv", ch2)>>,
            <<Arm("send", ch2), Arm("send", ch1)>>,
            <<Arm("send", ch1), Arm("recv", ch1)>>,
            <<Arm("recv", ch1), Arm("recv", ch1)>>,
            <<Arm("recv", ch1), Arm("send", ch1)>>}

Symmetry == Permutations(Fibers \ {Main})
=============================================================================
