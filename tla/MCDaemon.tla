------------------------------ MODULE MCDaemon ------------------------------
(***************************************************************************)
(* Clients of the build daemon and the preludes they ask for.              *)
(***************************************************************************)
EXTENDS BuildDaemon

\* Two flag sets over one library, and a second library.
Files == [plain |-> "crystal", flagged |-> "crystal", iyi |-> "iyi"]
Flags == {"plain", "flagged", "iyi"}

\* A program that writes on both streams, then one that is silent under the
\* same flags: the second may adopt what the first one warmed.
FlaggedNeeds == [a |-> "flagged", b |-> "flagged"]
MixedOutput == [a |-> <<"out", "err", "err">>, b |-> <<>>]

\* Two builds of iyi programs, one after the other.
IyiNeeds == [a |-> "iyi", b |-> "iyi"]
ShortOutput == [a |-> <<"out">>, b |-> <<"err">>]
=============================================================================
