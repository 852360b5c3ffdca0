------------------------- MODULE BuildDaemonProofs -------------------------
(***************************************************************************)
(* Theorems about BuildDaemon, for every set of clients and preludes,      *)
(* every bound and whatever the world does.                                *)
(***************************************************************************)
EXTENDS BuildDaemon, IyiListProofs

-----------------------------------------------------------------------------
(***************************************************************************)
(* NothingInherited is not inductive by itself: a dead server leaves no    *)
(* holder only because no child ever was one, and no child ever was one    *)
(* because every connection the server holds is one that Closes names: the *)
(* request's own or that of a build in flight.                             *)
(***************************************************************************)

HeldByServer == \A c \in Clients : holders[c] \subseteq {"listener", "daemon"}

\* What the server holds, a forked child knows to close.
HeldIsKnown ==
    \A c \in Clients :
        "daemon" \in holders[c] =>
            c \in ToSet(builds) \/ (Accepting /\ c = reading)

NobodyHolds == \A c \in Clients : holders[c] = {}

\* Nobody can reach a server in these.
Deaf == {"off", "begun", "recorded", "dead"}

ChildStates == {"none", "runs", "ended", "killed"}

\* What is refreshed and forked for has been asked for.
ForkedIsAsked == daemon \in {"refreshing", "forking"} => reading \in asked

DInv ==
    /\ Listening \/ daemon \in Deaf
    /\ child \in [Clients -> ChildStates]
    /\ asked \subseteq Clients
    /\ builds \in Seq(Clients)
    /\ holders \in [Clients -> SUBSET {"listener", "daemon"}]
    /\ HeldByServer
    /\ HeldIsKnown
    /\ daemon \in Deaf => NobodyHolds
    /\ StillReachable
    /\ ForkedIsAsked

\* What DInv is about.
heldVars == <<daemon, child, asked, builds, holders, reading, path>>

LEMMA DaemonInitially == DaemonInit => DInv
<1> SUFFICES ASSUME DaemonInit PROVE DInv
  OBVIOUS
<1>1. holders = [c \in Clients |-> {}] /\ builds = <<>> /\ asked = {}
      /\ daemon = "off" /\ child \in [Clients -> ChildStates]
  BY DEF DaemonInit, ChildStates
<1> QED
  BY <1>1 DEF DInv, Deaf, HeldByServer, HeldIsKnown, NobodyHolds, StillReachable,
              ForkedIsAsked, Listening

LEMMA DaemonIdles == DInv /\ UNCHANGED heldVars => DInv'
  BY DEF DInv, Deaf, HeldByServer, HeldIsKnown, NobodyHolds, StillReachable,
         ForkedIsAsked, Listening, Accepting, heldVars

\* Everything that DInv is about stays, except what the server does.
LEMMA ServerGoesOn ==
    ASSUME DInv, UNCHANGED <<child, asked, builds, holders, reading, path>>,
           \/ /\ Listening /\ Listening' /\ (Accepting => Accepting')
              /\ daemon' \in {"refreshing", "forking"} =>
                    daemon \in {"refreshing", "forking"} \/ reading \in asked
           \/ daemon \in Deaf /\ daemon' \in Deaf
    PROVE  DInv'
  BY DEF DInv, Deaf, HeldByServer, HeldIsKnown, NobodyHolds, StillReachable,
         ForkedIsAsked, Listening, Accepting

\* Whatever the server dies of, nobody holds its connections afterwards.
LEMMA DyingLetsGo ==
    ASSUME DInv, NEW why, Dies(why), UNCHANGED <<asked, child>>
    PROVE  DInv'
<1>1. holders' = [c \in Clients |-> {}]
  BY DEF Dies, DInv
<1>2. daemon' = "dead" /\ builds' = <<>>
  BY DEF Dies
<1> QED
  BY <1>1, <1>2 DEF DInv, Deaf, HeldByServer, HeldIsKnown, NobodyHolds, StillReachable,
                    ForkedIsAsked, Listening

\* A process lets go of what it holds: that never adds a holder.
LEMMA LettingGo ==
    ASSUME DInv, NEW X, holders' = [c \in Clients |-> holders[c] \ X],
           child' \in [Clients -> ChildStates],
           UNCHANGED <<daemon, asked, builds, reading, path>>
    PROVE  DInv'
<1>1. \A c \in Clients : holders'[c] \subseteq holders[c]
  OBVIOUS
<1>2. holders' \in [Clients -> SUBSET {"listener", "daemon"}]
  BY DEF DInv
<1> QED
  BY <1>1, <1>2 DEF DInv, HeldByServer, HeldIsKnown, NobodyHolds, StillReachable,
                    ForkedIsAsked, Listening, Accepting

LEMMA ForkKeeps == ASSUME DInv, Fork PROVE DInv'
<1>1. daemon = "forking" /\ UNCHANGED asked /\ reading \in Clients
  BY DEF Fork, DInv, ForkedIsAsked
<1>2. /\ builds' = Append(builds, reading)
      /\ child' = [child EXCEPT ![reading] = "runs"]
      /\ holders' = [d \in Clients |->
                        IF "daemon" \in holders[d] /\ d \notin Closes(reading)
                        THEN holders[d] \cup {reading} ELSE holders[d]]
      /\ path' = (path /\ ~Unlinks)
      /\ daemon' = "round"
  BY Zenon DEF Fork
<1>3. \A d \in Clients : "daemon" \in holders[d] => d \in Closes(reading)
  BY DEF DInv, HeldIsKnown, Closes
<1>4. holders' = holders
  BY <1>2, <1>3 DEF DInv
<1>5. path' = path
  BY <1>1, <1>2 DEF DInv, StillReachable, ForkedIsAsked, Listening, Unlinks
<1>6. builds' \in Seq(Clients) /\ ToSet(builds') = ToSet(builds) \cup {reading}
  <2>1. builds \in Seq(Clients) /\ <<reading>> \in Seq(Clients)
    BY <1>1 DEF DInv
  <2>2. builds' = builds \o <<reading>>
    BY <1>2, <2>1
  <2>3. ToSet(<<reading>>) = {reading}
    BY DEF ToSet
  <2>4. ToSet(builds \o <<reading>>) = ToSet(builds) \cup ToSet(<<reading>>)
    BY <2>1, ElementsOfConcat, Zenon
  <2>5. builds \o <<reading>> \in Seq(Clients)
    BY <2>1
  <2> QED
    BY <2>2, <2>3, <2>4, <2>5, Zenon
<1>7. HeldIsKnown'
  BY <1>4, <1>6 DEF DInv, HeldIsKnown
<1>8. HeldByServer'
  BY <1>4 DEF DInv, HeldByServer
<1>9. StillReachable' /\ Listening' /\ daemon' \notin Deaf /\ ForkedIsAsked'
  <2>1. path
    BY <1>1 DEF DInv, StillReachable, Listening
  <2> QED
    BY <1>2, <1>5, <2>1 DEF StillReachable, ForkedIsAsked, Listening, Deaf
<1>10. child' \in [Clients -> ChildStates]
  BY <1>2 DEF DInv, ChildStates
<1> QED
  BY <1>1, <1>4, <1>6, <1>7, <1>8, <1>9, <1>10 DEF DInv

\* The builds in flight are finitely many clients.
LEMMA BuildsAreFinite ==
    ASSUME builds \in Seq(Clients)
    PROVE  IsFiniteSet(ToSet(builds)) /\ ToSet(builds) \subseteq Clients
<1>1. IsFiniteSet(1..Len(builds)) /\ DOMAIN builds = 1..Len(builds)
  BY FS_Interval
<1>2. builds \in Surjection(1..Len(builds), ToSet(builds))
  BY <1>1 DEF Surjection, ToSet
<1> QED
  BY <1>1, <1>2, FS_Surjection, ElementsOf

LEMMA EndRoundKeeps == ASSUME DInv, EndRound PROVE DInv'
<1> DEFINE ended == {c \in ToSet(builds) : Finished(c)}
<1>1. UNCHANGED <<asked, child, path>> /\ daemon = "round"
  BY DEF EndRound, clientVars, childVars
<1>2. CASE \E c \in ToSet(builds) : Raises(c)
  <2>1. Dies("signal")
    BY <1>2, Zenon DEF EndRound
  <2> QED
    BY <1>1, <2>1, DyingLetsGo
<1>3. CASE ~\E c \in ToSet(builds) : Raises(c)
  <2>1. /\ builds' \in InOrder(builds, ToSet(builds) \ ended)
        /\ holders' = [c \in Clients |-> IF c \in ended THEN holders[c] \ {"daemon"}
                                                        ELSE holders[c]]
        /\ daemon' \in {"poll", "warming"}
    BY <1>3, Zenon DEF EndRound
  <2>2. IsFiniteSet(ToSet(builds) \ ended) /\ ToSet(builds) \subseteq Clients
    BY BuildsAreFinite, FS_Subset DEF DInv
  <2>3. builds' \in Seq(Clients) /\ ToSet(builds') = ToSet(builds) \ ended
    <3>1. /\ builds' \in Seq(ToSet(builds) \ ended)
          /\ ToSet(builds') = ToSet(builds) \ ended
      BY <2>1, <2>2, InOrderLists, Zenon
    <3> QED
      BY <3>1, <2>2, SeqMonotonic
  <2>4. \A c \in Clients : /\ holders'[c] \subseteq holders[c]
                           /\ c \in ended => "daemon" \notin holders'[c]
    BY <2>1
  <2>5. holders' \in [Clients -> SUBSET {"listener", "daemon"}]
    BY <2>1 DEF DInv
  <2>6. HeldIsKnown'
    BY <1>1, <2>3, <2>4 DEF DInv, HeldIsKnown, Accepting
  <2>7. HeldByServer'
    BY <2>4, <2>5 DEF DInv, HeldByServer
  <2> HIDE DEF ended
  <2> QED
    BY <1>1, <2>1, <2>3, <2>5, <2>6, <2>7
       DEF DInv, Deaf, NobodyHolds, StillReachable, ForkedIsAsked, Listening
<1> QED
  BY <1>2, <1>3

LEMMA AcceptKeeps == ASSUME DInv, Accept PROVE DInv'
<1>1. /\ UNCHANGED <<asked, child, builds, path>> /\ daemon = "round"
      /\ daemon' = "reading" /\ reading' = Head(backlog)
      /\ holders' = [holders EXCEPT ![Head(backlog)] = {"daemon"}]
  BY DEF Accept, clientVars, childVars
<1>2. HeldIsKnown'
  BY <1>1 DEF DInv, HeldIsKnown, Accepting
<1> QED
  BY <1>1, <1>2 DEF DInv, Deaf, HeldByServer, StillReachable, ForkedIsAsked, Listening

LEMMA RefuseKeeps == ASSUME DInv, Refuse PROVE DInv'
<1>1. /\ UNCHANGED <<asked, child, builds, path>> /\ daemon = "reading"
      /\ daemon' = "round" /\ holders' = [holders EXCEPT ![reading] = {}]
  BY DEF Refuse, childVars
<1>2. HeldIsKnown'
  BY <1>1 DEF DInv, HeldIsKnown
<1> QED
  BY <1>1, <1>2 DEF DInv, Deaf, HeldByServer, StillReachable, ForkedIsAsked, Listening

LEMMA BindKeeps == ASSUME DInv, Bind PROVE DInv'
<1>1. /\ UNCHANGED <<asked, child, builds, holders, reading>> /\ daemon = "recorded"
      /\ daemon' = "bound" /\ path' = TRUE
  BY DEF Bind, clientVars, childVars
<1> QED
  BY <1>1 DEF DInv, Deaf, HeldByServer, HeldIsKnown, NobodyHolds, StillReachable,
              ForkedIsAsked, Listening, Accepting

LEMMA AnalyseKeeps == ASSUME DInv, Analyse PROVE DInv'
<1>1. UNCHANGED <<asked, child, reading, path>> \/ Dies("prelude")
  BY DEF Analyse, clientVars, childVars
<1>2. UNCHANGED <<asked, child>> /\ Analysing
  BY DEF Analyse, clientVars, childVars
<1>3. CASE Dies("prelude")
  BY <1>2, <1>3, DyingLetsGo
<1>4. CASE ~Dies("prelude")
  <2>1. /\ UNCHANGED <<builds, holders, reading, path>>
        /\ daemon' = IF daemon = "refreshing" THEN "forking" ELSE "poll"
    BY <1>4 DEF Analyse
  <2>2. Listening /\ Listening' /\ (Accepting => Accepting')
    BY <1>2, <2>1 DEF Analysing, Listening, Accepting
  <2> QED
    BY <1>2, <2>1, <2>2, ServerGoesOn
<1> QED
  BY <1>3, <1>4

\* What a warming does, the server's own connections apart.
LEMMA WarmKeeps == ASSUME DInv, WarmBegins \/ WarmParses PROVE DInv'
<1>1. UNCHANGED <<asked, child, path>> /\ daemon \in {"warming", "inside"}
  BY DEF WarmBegins, WarmParses, clientVars, childVars
<1>2. CASE Dies("arguments") \/ Dies("file")
  BY <1>1, <1>2, DyingLetsGo
<1>3. CASE ~(Dies("arguments") \/ Dies("file"))
  <2>1. /\ UNCHANGED <<builds, holders, reading>>
        /\ daemon' \in {"inside", "poll", "heating"}
    BY <1>3 DEF WarmBegins, WarmParses
  <2>2. Listening /\ Listening' /\ ~Accepting
    BY <1>1, <2>1 DEF Listening, Accepting
  <2> QED
    BY <1>1, <2>1, <2>2, ServerGoesOn
<1> QED
  BY <1>2, <1>3

LEMMA ServerKeeps == ASSUME DInv, Server PROVE DInv'
<1>1. CASE Identify
  BY <1>1, ServerGoesOn DEF Identify, Deaf, clientVars, childVars
<1>2. CASE Preanalyse \/ Poll \/ Admit
  <2>1. UNCHANGED <<child, asked, builds, holders, reading, path>>
    BY <1>2 DEF Preanalyse, Poll, Admit, clientVars, childVars
  <2>2. Listening /\ Listening' /\ (Accepting => Accepting')
    BY <1>2 DEF Preanalyse, Poll, Admit, Listening, Accepting
  <2>3. daemon' \in {"refreshing", "forking"} => reading \in asked
    BY <1>2 DEF Preanalyse, Poll, Admit
  <2> QED
    BY <2>1, <2>2, <2>3, ServerGoesOn
<1>3. CASE RequestUnread
  BY <1>3, DyingLetsGo DEF RequestUnread, clientVars, childVars
<1>4. CASE Relay
  BY <1>4, DaemonIdles DEF Relay, heldVars, clientVars
<1> QED
  BY <1>1, <1>2, <1>3, <1>4, BindKeeps, AnalyseKeeps, AcceptKeeps, RefuseKeeps,
     ForkKeeps, EndRoundKeeps, WarmKeeps DEF Server

\* A child only ever lets go of a connection.
LEMMA ChildKeeps ==
    ASSUME DInv, NEW c \in Clients, Child(c) \/ ChildKilled(c) PROVE DInv'
<1>1. UNCHANGED <<daemon, asked, builds, reading, path>>
  BY DEF Child, ChildWrites, ChildEnds, ChildKilled, serverVars, clientVars
<1>2. child' \in [Clients -> ChildStates]
  BY DEF Child, ChildWrites, ChildEnds, ChildKilled, DInv, ChildStates
<1>3. CASE UNCHANGED holders
  <2>1. holders' = [d \in Clients |-> holders[d] \ {}]
    BY <1>3 DEF DInv
  <2> QED
    BY <1>1, <1>2, <2>1, LettingGo
<1>4. CASE holders' = [d \in Clients |-> holders[d] \ {c}]
  BY <1>1, <1>2, <1>4, LettingGo, Zenon
<1> QED
  BY <1>3, <1>4 DEF Child, ChildWrites, ChildEnds, ChildKilled

LEMMA ClientKeeps == ASSUME DInv, NEW c \in Clients, Client(c) PROVE DInv'
<1>1. CASE Connect(c)
  <2>1. CASE path /\ Listening
    BY <1>1, <2>1 DEF Connect, DInv, Deaf, HeldByServer, HeldIsKnown, NobodyHolds,
                      StillReachable, ForkedIsAsked, Listening, Accepting, childVars
  <2>2. CASE ~(path /\ Listening)
    BY <1>1, <2>2, DaemonIdles DEF Connect, heldVars, childVars
  <2> QED
    BY <2>1, <2>2
<1>2. CASE Send(c)
  BY <1>2 DEF Send, DInv, Deaf, HeldByServer, HeldIsKnown, NobodyHolds, StillReachable,
              ForkedIsAsked, Listening, Accepting, serverVars, childVars
<1>3. CASE Look(c) \/ Receive(c) \/ LosesDaemon(c)
  BY <1>3, DaemonIdles DEF Look, Receive, LosesDaemon, heldVars, serverVars, childVars
<1> QED
  BY <1>1, <1>2, <1>3 DEF Client

LEMMA DaemonStep == DInv /\ [DaemonNext]_vars => DInv'
<1> SUFFICES ASSUME DInv, [DaemonNext]_vars PROVE DInv'
  OBVIOUS
<1>1. CASE Start
  BY <1>1, ServerGoesOn DEF Start, Deaf, clientVars, childVars
<1>2. CASE Server
  BY <1>2, ServerKeeps
<1>3. CASE Kill
  BY <1>3, DyingLetsGo DEF Kill, clientVars, childVars
<1>4. CASE World
  BY <1>4, DaemonIdles DEF World, heldVars, serverVars, clientVars, childVars
<1>5. CASE Over \/ UNCHANGED vars
  BY <1>5, DaemonIdles DEF Over, vars, heldVars, serverVars, clientVars, childVars
<1>6. ASSUME NEW c \in Clients, Child(c) \/ ChildKilled(c) PROVE DInv'
  BY <1>6, ChildKeeps
<1>7. ASSUME NEW c \in Clients, Client(c) PROVE DInv'
  BY <1>7, ClientKeeps
<1>8. ASSUME NEW c \in Clients, HangUp(c) PROVE DInv'
  BY <1>8, DaemonIdles DEF HangUp, heldVars, serverVars, childVars
<1> QED
  BY <1>1, <1>2, <1>3, <1>4, <1>5, <1>6, <1>7, <1>8 DEF DaemonNext

-----------------------------------------------------------------------------
\* A fork leaves nothing behind, however many builds are in flight and
\* whenever the server dies: no child has a connection of the server open
\* (Command#daemon_serve closes them in the child), so a dead server is seen
\* at once, and the socket file stands as long as the server listens.
THEOREM NothingIsInherited == DaemonSpec => []NothingInherited
<1>1. DInv => NothingInherited
  BY DEF DInv, Deaf, NothingInherited, DeathIsSeen, NobodyHolds
<1> QED
  BY DaemonInitially, DaemonStep, <1>1, PTL DEF DaemonSpec

-----------------------------------------------------------------------------
(***************************************************************************)
(* SuccessIsEarned is not inductive by itself.  A client is served by a    *)
(* frame that was put on its connection long before, so the frames on      *)
(* their way must be honest.  A client takes a broken pipe for a success   *)
(* only if the server lets go of a connection before its request: it does  *)
(* so when it refuses or finishes a build, which has been asked for, and   *)
(* when it dies.                                                           *)
(***************************************************************************)

Places == {"idle", "named", "connected", "waiting"} \cup Ended

\* The frames of one connection: a status that says 0 was earned.
Honest(line, c) ==
    /\ line \in Seq(ToSet(line))
    /\ \A frame \in ToSet(line) : frame.code = 0 => c \in passed

HonestFrames == DOMAIN conn = Clients /\ \A c \in Clients : Honest(conn[c], c)

\* A server has died.
HasDied == starts > 1 \/ daemon = "dead"

Counted == starts \in Nat /\ (daemon # "off" => starts >= 1)

BuildsAsked == ToSet(builds) \subseteq asked

\* Where c is, and what follows for it.
ClientRight(c) ==
    /\ at[c] \in {"idle", "named", "connected"} => c \notin asked
    /\ at[c] = "connected" => holders[c] # {} \/ HasDied
    /\ at[c] = "nothing" => HasDied
    /\ at[c] = "served" => c \in passed

EInv ==
    /\ at \in [Clients -> Places]
    /\ Counted /\ BuildsAsked /\ HonestFrames
    /\ \A c \in Clients : ClientRight(c)

\* What EInv is about, connections and holders apart.
earnVars == <<at, asked, builds>>

\* Servers are only ever started, successes only ever added.
Onward ==
    /\ Counted'
    /\ HasDied => HasDied'
    /\ passed \subseteq passed'

LEMMA Onwards ==
    ASSUME DInv, Counted, UNCHANGED starts, passed \subseteq passed',
           \/ UNCHANGED daemon
           \/ daemon' = "dead" /\ daemon # "off"
           \/ daemon \notin {"off", "dead"} /\ daemon' \notin {"off", "dead"}
    PROVE  Onward
  BY DEF Onward, Counted, HasDied

LEMMA FramesStay ==
    ASSUME EInv, UNCHANGED conn, passed \subseteq passed'
    PROVE  HonestFrames'
  BY DEF EInv, HonestFrames, Honest

\* A frame is sent.
LEMMA OneFrameMore ==
    ASSUME NEW c, NEW line, Honest(line, c), NEW e, e.code = 0 => c \in passed
    PROVE  Honest(Append(line, e), c)
<1>1. line \in Seq(ToSet(line))
  BY DEF Honest
<1>2. /\ Append(line, e) \in Seq(ToSet(Append(line, e)))
      /\ ToSet(Append(line, e)) \subseteq ToSet(line) \cup {e}
  BY <1>1, OneMore
<1> QED
  BY <1>2 DEF Honest

LEMMA FramesSent ==
    ASSUME EInv, UNCHANGED passed, DOMAIN conn' = Clients,
           \A c \in Clients :
              \/ conn'[c] = conn[c]
              \/ \E e : /\ conn'[c] = Append(conn[c], e)
                        /\ e.code = 0 => c \in passed
    PROVE  HonestFrames'
<1>1. ASSUME NEW c \in Clients PROVE Honest(conn'[c], c)
  <2>1. Honest(conn[c], c)
    BY DEF EInv, HonestFrames
  <2>2. CASE conn'[c] = conn[c]
    BY <2>1, <2>2
  <2>3. ASSUME NEW e, conn'[c] = Append(conn[c], e), e.code = 0 => c \in passed
        PROVE  Honest(conn'[c], c)
    <3>1. Honest(Append(conn[c], e), c)
      BY <2>1, <2>3, OneFrameMore
    <3> QED
      BY <2>3, <3>1
  <2> QED
    BY <2>2, <2>3
<1> QED
  BY <1>1 DEF HonestFrames, Honest

\* A step that moves no client and lets go of no connection whose request
\* has not been read, or kills the server.
LEMMA ClientsStay ==
    ASSUME EInv, Onward, UNCHANGED <<at, asked>>,
           HasDied' \/ \A c \in Clients \ asked : holders[c] # {} => holders'[c] # {}
    PROVE  \A c \in Clients : ClientRight(c)'
  BY DEF EInv, Onward, ClientRight

LEMMA Quiet ==
    ASSUME EInv, Onward, UNCHANGED <<conn, holders, earnVars>>
    PROVE  EInv'
<1>1. HonestFrames'
  BY FramesStay DEF Onward
<1>2. \A c \in Clients : ClientRight(c)'
  BY ClientsStay DEF earnVars
<1> QED
  BY <1>1, <1>2 DEF EInv, Onward, BuildsAsked, earnVars

\* The server dies.
LEMMA DeathKeeps ==
    ASSUME DInv, EInv, NEW why, Dies(why), daemon # "off",
           UNCHANGED <<at, asked, passed, starts>>, HonestFrames'
    PROVE  EInv'
<1>1. daemon' = "dead" /\ builds' = <<>>
  BY DEF Dies
<1>2. Onward
  BY <1>1, Onwards DEF EInv
<1>3. \A c \in Clients : ClientRight(c)'
  BY <1>1, <1>2, ClientsStay DEF HasDied
<1>4. BuildsAsked'
  BY <1>1 DEF BuildsAsked, ToSet
<1> QED
  BY <1>2, <1>3, <1>4 DEF EInv, Onward

-----------------------------------------------------------------------------
(* The server's steps *)

LEMMA AcceptEarns == ASSUME DInv, EInv, Accept PROVE EInv'
<1>1. /\ UNCHANGED <<conn, earnVars, passed, starts>>
      /\ daemon = "round" /\ daemon' = "reading"
      /\ holders' = [holders EXCEPT ![Head(backlog)] = {"daemon"}]
  BY DEF Accept, earnVars, clientVars, childVars, countVars
<1>2. Onward
  BY <1>1, Onwards DEF EInv
<1>3. \A c \in Clients : holders[c] # {} => holders'[c] # {}
  BY <1>1 DEF DInv
<1>4. \A c \in Clients : ClientRight(c)'
  BY <1>1, <1>2, <1>3, ClientsStay DEF earnVars
<1>5. HonestFrames'
  BY <1>1, FramesStay
<1> QED
  BY <1>1, <1>2, <1>4, <1>5 DEF EInv, Onward, BuildsAsked, earnVars

LEMMA RefuseEarns == ASSUME DInv, EInv, Refuse PROVE EInv'
<1>1. /\ UNCHANGED <<earnVars, passed, starts>>
      /\ daemon = "reading" /\ daemon' = "round" /\ reading \in asked
      /\ conn' = [conn EXCEPT ![reading] = Append(@, ExitFrame(1))]
      /\ holders' = [holders EXCEPT ![reading] = {}]
  BY DEF Refuse, earnVars, clientVars, childVars, countVars
<1>2. Onward
  BY <1>1, Onwards DEF EInv
<1>3. \A c \in Clients \ asked : holders[c] # {} => holders'[c] # {}
  BY <1>1 DEF DInv
<1>4. \A c \in Clients : ClientRight(c)'
  BY <1>1, <1>2, <1>3, ClientsStay DEF earnVars
<1>5. HonestFrames'
  <2>1. DOMAIN conn' = Clients
    BY <1>1 DEF EInv, HonestFrames
  <2>2. ExitFrame(1).code # 0
    BY DEF ExitFrame
  <2>3. \A c \in Clients :
            conn'[c] = conn[c] \/ conn'[c] = Append(conn[c], ExitFrame(1))
    BY <1>1 DEF EInv, HonestFrames
  <2> QED
    BY <1>1, <2>1, <2>2, <2>3, FramesSent DEF earnVars
<1> QED
  BY <1>1, <1>2, <1>4, <1>5 DEF EInv, Onward, BuildsAsked, earnVars

LEMMA ForkEarns == ASSUME DInv, EInv, Fork PROVE EInv'
<1>1. /\ UNCHANGED <<conn, at, asked, passed, starts>>
      /\ daemon = "forking" /\ reading \in asked
  BY DEF Fork, countVars, DInv, ForkedIsAsked
<1>2. HonestFrames'
  BY <1>1, FramesStay
<1>3. /\ builds' = Append(builds, reading)
      /\ holders' = [d \in Clients |->
                        IF "daemon" \in holders[d] /\ d \notin Closes(reading)
                        THEN holders[d] \cup {reading} ELSE holders[d]]
      /\ daemon' = "round"
  BY Zenon DEF Fork
<1>4. Onward
  BY <1>1, <1>3, Onwards DEF EInv
<1>5. \A c \in Clients : holders[c] # {} => holders'[c] # {}
  BY <1>3
<1>6. \A c \in Clients : ClientRight(c)'
  BY <1>1, <1>4, <1>5, ClientsStay
<1>7. BuildsAsked'
  <2>1. builds \in Seq(ToSet(builds))
    BY OverItself DEF DInv
  <2>2. ToSet(builds') \subseteq ToSet(builds) \cup {reading}
    BY <1>3, <2>1, OneMore
  <2> QED
    BY <1>1, <2>2 DEF EInv, BuildsAsked
<1> QED
  BY <1>1, <1>2, <1>4, <1>6, <1>7 DEF EInv, Onward

LEMMA RelayEarns == ASSUME DInv, EInv, Relay PROVE EInv'
<1>1. UNCHANGED <<holders, earnVars, passed, starts, daemon>>
  BY DEF Relay, earnVars, clientVars, countVars
<1>2. Onward
  BY <1>1, Onwards DEF EInv
<1>3. \A c \in Clients : ClientRight(c)'
  BY <1>1, <1>2, ClientsStay DEF earnVars
<1>4. HonestFrames'
  <2> DEFINE c == Head(todo).of
             frame == DataFrame(Head(todo).kind, Head(unread[c][Head(todo).kind]))
  <2>1. UNCHANGED conn \/ conn' = [conn EXCEPT ![c] = Append(@, frame)]
    BY DEF Relay
  <2>2. frame.code # 0
    BY DaemonAssumption DEF DataFrame
  <2> HIDE DEF frame
  <2>3. /\ DOMAIN conn' = Clients
        /\ \A d \in Clients : conn'[d] = conn[d] \/ conn'[d] = Append(conn[d], frame)
    BY <2>1 DEF EInv, HonestFrames
  <2> QED
    BY <1>1, <2>2, <2>3, FramesSent
<1> QED
  BY <1>1, <1>2, <1>3, <1>4 DEF EInv, Onward, BuildsAsked, earnVars

LEMMA EndRoundEarns == ASSUME DInv, EInv, EndRound PROVE EInv'
<1> DEFINE ended == {c \in ToSet(builds) : Finished(c)}
<1>1. /\ UNCHANGED <<at, asked, passed, starts>> /\ daemon = "round"
      /\ conn' = [c \in Clients |->
                    IF c \in Told /\ at[c] # "gone"
                    THEN Append(conn[c], ExitFrame(StatusOf(c))) ELSE conn[c]]
  BY DEF EndRound, clientVars, childVars, countVars
<1>2. HonestFrames'
  <2>1. \A c \in Clients : ExitFrame(StatusOf(c)).code = 0 => c \in passed
    BY DEF ExitFrame, StatusOf
  <2>2. \A c \in Clients : \/ conn'[c] = conn[c]
                           \/ conn'[c] = Append(conn[c], ExitFrame(StatusOf(c)))
    BY <1>1
  <2>3. DOMAIN conn' = Clients
    BY <1>1
  <2> HIDE DEF ended
  <2> QED
    BY <1>1, <2>1, <2>2, <2>3, FramesSent
<1>3. CASE \E c \in ToSet(builds) : Raises(c)
  <2>1. Dies("signal")
    BY <1>3, Zenon DEF EndRound
  <2> QED
    BY <1>1, <1>2, <2>1, DeathKeeps
<1>4. CASE ~\E c \in ToSet(builds) : Raises(c)
  <2>1. /\ builds' \in InOrder(builds, ToSet(builds) \ ended)
        /\ holders' = [c \in Clients |-> IF c \in ended THEN holders[c] \ {"daemon"}
                                                        ELSE holders[c]]
        /\ daemon' \in {"poll", "warming"}
    BY <1>4, Zenon DEF EndRound
  <2>2. Onward
    BY <1>1, <2>1, Onwards DEF EInv
  <2>3. \A c \in Clients \ asked : holders'[c] = holders[c]
    BY <2>1 DEF EInv, BuildsAsked
  <2>4. \A c \in Clients : ClientRight(c)'
    BY <1>1, <2>2, <2>3, ClientsStay
  <2>5. BuildsAsked'
    <3>1. ToSet(builds') \subseteq ToSet(builds)
      BY <2>1, InOrderWithin
    <3> QED
      BY <1>1, <3>1 DEF EInv, BuildsAsked
  <2> QED
    BY <1>1, <1>2, <2>2, <2>4, <2>5 DEF EInv, Onward
<1> QED
  BY <1>3, <1>4

LEMMA ServerEarns == ASSUME DInv, EInv, Server PROVE EInv'
<1>1. CASE Identify \/ Bind \/ Preanalyse \/ Poll \/ Admit
  <2>1. /\ UNCHANGED <<conn, holders, earnVars, passed, starts>>
        /\ daemon \notin {"off", "dead"} /\ daemon' \notin {"off", "dead"}
    BY <1>1 DEF Identify, Bind, Preanalyse, Poll, Admit, earnVars, clientVars,
                childVars, countVars
  <2> QED
    BY <2>1, Onwards, Quiet DEF EInv
<1>2. CASE Analyse \/ RequestUnread \/ WarmBegins \/ WarmParses
  <2>1. /\ UNCHANGED <<conn, at, asked, passed, starts>>
        /\ daemon \notin {"off", "dead"}
    BY <1>2 DEF Analyse, RequestUnread, WarmBegins, WarmParses, Analysing, clientVars,
                childVars, countVars
  <2>2. CASE \E why : Dies(why)
    BY <2>1, <2>2, FramesStay, DeathKeeps
  <2>3. CASE ~\E why : Dies(why)
    <3>1. UNCHANGED <<holders, builds>> /\ daemon' \notin {"off", "dead"}
      BY <1>2, <2>3 DEF Analyse, RequestUnread, WarmBegins, WarmParses
    <3> QED
      BY <2>1, <3>1, Onwards, Quiet DEF EInv, earnVars
  <2> QED
    BY <2>2, <2>3
<1> QED
  BY <1>1, <1>2, AcceptEarns, RefuseEarns, ForkEarns, RelayEarns, EndRoundEarns
  DEF Server

-----------------------------------------------------------------------------
(* The steps of the others *)

LEMMA StartEarns == ASSUME DInv, EInv, Start PROVE EInv'
<1>1. /\ UNCHANGED <<conn, holders, earnVars, passed>>
      /\ daemon \in {"off", "dead"} /\ daemon' = "begun" /\ starts' = starts + 1
  BY DEF Start, earnVars, clientVars, childVars
<1>2. Onward
  BY <1>1 DEF EInv, Onward, Counted, HasDied
<1> QED
  BY <1>1, <1>2, Quiet

\* A child holds no connection, and none is called what the server's ends are.
LEMMA ChildEarns ==
    ASSUME DInv, EInv, NEW c \in Clients, Child(c) \/ ChildKilled(c) PROVE EInv'
<1>1. /\ UNCHANGED <<conn, earnVars, daemon, starts>> /\ passed \subseteq passed'
  BY DEF Child, ChildWrites, ChildEnds, ChildKilled, Trouble, earnVars, serverVars,
         clientVars, countVars
<1>2. UNCHANGED holders
  <2>1. \A d \in Clients : holders[d] \ {c} = holders[d]
    BY DaemonAssumption DEF DInv
  <2>2. UNCHANGED holders \/ holders' = [d \in Clients |-> holders[d] \ {c}]
    BY DEF Child, ChildWrites, ChildEnds, ChildKilled
  <2> QED
    BY <2>1, <2>2 DEF DInv
<1>3. Onward
  BY <1>1, Onwards DEF EInv
<1> QED
  BY <1>1, <1>2, <1>3, Quiet

\* One client moves, and what follows for it where it comes to.
LEMMA ClientMoves ==
    ASSUME DInv, EInv, NEW c \in Clients, NEW place \in Places,
           at' = [at EXCEPT ![c] = place],
           UNCHANGED <<builds, passed, starts, daemon>>,
           HonestFrames',
           asked \subseteq asked' /\ asked' \subseteq asked \cup {c},
           \A d \in Clients \ {c} : holders'[d] = holders[d],
           ClientRight(c)'
    PROVE  EInv'
<1>1. Onward
  BY Onwards DEF EInv
<1>2. ASSUME NEW d \in Clients PROVE ClientRight(d)'
  <2>1. CASE d = c
    BY <2>1
  <2>2. CASE d # c
    BY <1>1, <2>2 DEF EInv, ClientRight, Onward
  <2> QED
    BY <2>1, <2>2
<1>3. at' \in [Clients -> Places]
  BY DEF EInv
<1> QED
  BY <1>1, <1>2, <1>3 DEF EInv, Onward, BuildsAsked

LEMMA LookEarns == ASSUME DInv, EInv, NEW c \in Clients, Look(c) PROVE EInv'
<1>1. /\ at[c] = "idle"
      /\ UNCHANGED <<conn, holders, asked, builds, passed, starts, daemon>>
  BY DEF Look, serverVars, childVars, countVars
<1>2. PICK place \in {"named", "built"} : at' = [at EXCEPT ![c] = place]
  BY DEF Look, Becomes
<1>3. ClientRight(c)'
  BY <1>1, <1>2 DEF EInv, ClientRight
<1> QED
  BY <1>1, <1>2, <1>3, FramesStay, ClientMoves DEF Places, Ended

LEMMA ConnectEarns == ASSUME DInv, EInv, NEW c \in Clients, Connect(c) PROVE EInv'
<1>1. at[c] = "named" /\ UNCHANGED <<conn, asked, builds, passed, starts, daemon>>
  BY DEF Connect, childVars, countVars
<1>2. \/ /\ at' = [at EXCEPT ![c] = "connected"]
         /\ holders' = [holders EXCEPT ![c] = {"listener"}]
      \/ /\ at' \in {[at EXCEPT ![c] = "unreachable"], [at EXCEPT ![c] = "built"]}
         /\ UNCHANGED holders
  BY DEF Connect, Becomes
<1>3. PICK place \in {"connected", "unreachable", "built"} :
        at' = [at EXCEPT ![c] = place]
  BY <1>2
<1>4. ClientRight(c)' /\ \A d \in Clients \ {c} : holders'[d] = holders[d]
  BY <1>1, <1>2 DEF DInv, EInv, ClientRight
<1> QED
  BY <1>1, <1>3, <1>4, FramesStay, ClientMoves DEF Places, Ended

LEMMA SendEarns == ASSUME DInv, EInv, NEW c \in Clients, Send(c) PROVE EInv'
<1>1. /\ at[c] = "connected"
      /\ UNCHANGED <<conn, holders, builds, passed, starts, daemon>>
  BY DEF Send, serverVars, childVars, countVars
<1>2. \/ holders[c] = {} /\ at' = [at EXCEPT ![c] = "nothing"] /\ UNCHANGED asked
      \/ at' = [at EXCEPT ![c] = "waiting"] /\ asked' = asked \cup {c}
  BY DEF Send, Becomes
<1>3. PICK place \in {"nothing", "waiting"} : at' = [at EXCEPT ![c] = place]
  BY <1>2
<1>4. ClientRight(c)'
  BY <1>1, <1>2 DEF EInv, ClientRight, HasDied
<1> QED
  BY <1>1, <1>2, <1>3, <1>4, FramesStay, ClientMoves DEF Places, Ended

LEMMA ReceiveEarns == ASSUME DInv, EInv, NEW c \in Clients, Receive(c) PROVE EInv'
<1> DEFINE frame == Head(conn[c])
<1>1. /\ at[c] = "waiting" /\ conn[c] # <<>>
      /\ conn' = [conn EXCEPT ![c] = Tail(@)]
      /\ UNCHANGED <<holders, asked, builds, passed, starts, daemon>>
  BY DEF Receive, serverVars, childVars, countVars
<1>2. \/ at' = [at EXCEPT ![c] = "served"] /\ frame.code = 0
      \/ at' = [at EXCEPT ![c] = "failed"]
      \/ at' = [at EXCEPT ![c] = "waiting"]
  BY <1>1 DEF Receive, Becomes, EInv
<1>3. Honest(conn[c], c) /\ conn[c] \in Seq(ToSet(conn[c]))
  BY DEF EInv, HonestFrames, Honest
<1>4. /\ frame \in ToSet(conn[c])
      /\ Tail(conn[c]) \in Seq(ToSet(Tail(conn[c])))
      /\ ToSet(Tail(conn[c])) \subseteq ToSet(conn[c])
  BY <1>1, <1>3, OneLess
<1>5. HonestFrames'
  BY <1>1, <1>4 DEF EInv, HonestFrames, Honest
<1>6. frame.code = 0 => c \in passed
  BY <1>3, <1>4 DEF Honest
<1>7. ClientRight(c)'
  BY <1>1, <1>2, <1>6 DEF EInv, ClientRight
<1> HIDE DEF frame
<1>8. PICK place \in {"served", "failed", "waiting"} : at' = [at EXCEPT ![c] = place]
  BY <1>2
<1> QED
  BY <1>1, <1>5, <1>7, <1>8, ClientMoves DEF Places, Ended

LEMMA LeavesEarns ==
    ASSUME DInv, EInv, NEW c \in Clients, LosesDaemon(c) \/ HangUp(c)
    PROVE  EInv'
<1>1. UNCHANGED <<holders, asked, builds, passed, starts, daemon>>
  BY DEF LosesDaemon, HangUp, Trouble, serverVars, childVars, countVars
<1>2. /\ UNCHANGED conn \/ conn' = [conn EXCEPT ![c] = <<>>]
      /\ \E place \in {"aborted", "gone"} : at' = [at EXCEPT ![c] = place]
  BY DEF LosesDaemon, HangUp, Becomes
<1>3. HonestFrames'
  <2>1. ToSet(<<>>) = {} /\ <<>> \in Seq(ToSet(<<>>))
    BY DEF ToSet
  <2> QED
    BY <1>1, <1>2, <2>1 DEF EInv, HonestFrames, Honest
<1>4. ClientRight(c)'
  BY <1>1, <1>2 DEF EInv, ClientRight
<1> QED
  BY <1>1, <1>2, <1>3, <1>4, ClientMoves DEF Places, Ended

LEMMA EarnStep == ASSUME DInv, EInv, [DaemonNext]_vars PROVE EInv'
<1>1. CASE World \/ Over \/ UNCHANGED vars
  <2>1. UNCHANGED <<conn, holders, earnVars, passed, starts, daemon>>
    BY <1>1 DEF World, Edit, Rebuild, Vanish, Trouble, Over, vars, earnVars,
                serverVars, clientVars, childVars, countVars
  <2> QED
    BY <2>1, Onwards, Quiet DEF EInv
<1>2. CASE Kill
  <2>1. /\ UNCHANGED <<conn, at, asked, passed, starts>> /\ daemon # "off"
        /\ Dies("killed")
    BY <1>2 DEF Kill, Trouble, clientVars, childVars
  <2> QED
    BY <2>1, FramesStay, DeathKeeps
<1>3. ASSUME NEW c \in Clients, Client(c) PROVE EInv'
  BY <1>3, LookEarns, ConnectEarns, SendEarns, ReceiveEarns, LeavesEarns DEF Client
<1>4. ASSUME NEW c \in Clients, HangUp(c) PROVE EInv'
  BY <1>4, LeavesEarns
<1>5. ASSUME NEW c \in Clients, Child(c) \/ ChildKilled(c) PROVE EInv'
  BY <1>5, ChildEarns
<1> QED
  BY <1>1, <1>2, <1>3, <1>4, <1>5, StartEarns, ServerEarns DEF DaemonNext

LEMMA EarnInitially == DaemonInit => EInv
<1> SUFFICES ASSUME DaemonInit PROVE EInv
  OBVIOUS
<1>1. ToSet(<<>>) = {} /\ <<>> \in Seq(ToSet(<<>>))
  BY DEF ToSet
<1>2. HonestFrames
  BY <1>1 DEF DaemonInit, HonestFrames, Honest
<1>3. BuildsAsked
  BY <1>1 DEF DaemonInit, BuildsAsked
<1> QED
  BY <1>2, <1>3 DEF DaemonInit, EInv, Counted, ClientRight, Places

\* A client that says its build succeeded is right: a status of 0 is that of
\* its own child (Command#daemon_finish), and the broken pipe that the command
\* takes for a success is met only where a server has died.
THEOREM EarnsItsSuccess == DaemonSpec => []SuccessIsEarned
<1>1. DaemonInit => DInv /\ EInv
  BY DaemonInitially, EarnInitially
<1>2. DInv /\ EInv /\ [DaemonNext]_vars => (DInv /\ EInv)'
  BY DaemonStep, EarnStep
<1>3. EInv => SuccessIsEarned
  BY DEF EInv, ClientRight, HasDied, SuccessIsEarned
<1> QED
  BY <1>1, <1>2, <1>3, PTL DEF DaemonSpec

-----------------------------------------------------------------------------
(***************************************************************************)
(* A warming reads the arguments of a build long after its client and its  *)
(* child have gone.  What makes that safe is three things the server keeps *)
(* between steps: what waits to be warmed has succeeded, so the option     *)
(* parser took it; something waits whenever the server warms; and the      *)
(* server is inside the directory of the first that waits, so that only    *)
(* what was deleted can be missing there.                                  *)
(***************************************************************************)

Warming == daemon \in {"warming", "inside", "heating"}

WInv ==
    /\ passed \subseteq Sound
    /\ warm \in Seq(passed)
    /\ Warming => warm # <<>>
    /\ daemon = "inside" => dir = Head(warm)
    /\ WarmingIsSafe

LEMMA WarmIdles ==
    ASSUME WInv, UNCHANGED <<there, passed, warm, death, dir>>,
           UNCHANGED daemon \/ ~Warming'
    PROVE  WInv'
  BY DEF WInv, WarmingIsSafe, Warming

\* A server that dies of anything but what it was asked to warm.
LEMMA DyingOtherwise ==
    ASSUME WInv, NEW why, why \notin {"file", "arguments"}, Dies(why),
           UNCHANGED <<there, passed>>
    PROVE  WInv'
  BY DEF WInv, WarmingIsSafe, Warming, Dies

\* The queue of warmings gets shorter.
LEMMA QueueShorter ==
    ASSUME WInv, warm' = Tail(warm), warm # <<>>, UNCHANGED <<there, passed, death>>,
           ~Warming'
    PROVE  WInv'
<1>1. Tail(warm) \in Seq(passed)
  BY DEF WInv
<1> QED
  BY <1>1 DEF WInv, WarmingIsSafe, Warming

LEMMA EndRoundWarms == ASSUME DInv, WInv, EndRound PROVE WInv'
<1> DEFINE ended == {c \in ToSet(builds) : Finished(c)}
           earned == {c \in ended : Warmable(c)}
<1>1. UNCHANGED <<there, passed>>
  BY DEF EndRound, worldVars, childVars
<1>2. CASE \E c \in ToSet(builds) : Raises(c)
  <2>1. Dies("signal")
    BY <1>2, Zenon DEF EndRound
  <2> QED
    BY <1>1, <2>1, DyingOtherwise
<1>3. CASE ~\E c \in ToSet(builds) : Raises(c)
  <2>1. PICK left \in InOrder(builds, ToSet(builds) \ ended),
             good \in InOrder(builds, earned) :
          /\ warm' = warm \o good
          /\ daemon' = IF left = <<>> /\ warm' # <<>> THEN "warming" ELSE "poll"
          /\ UNCHANGED death
    BY <1>3, Zenon DEF EndRound
  <2>2. IsFiniteSet(earned) /\ earned \subseteq passed
    <3>1. IsFiniteSet(ToSet(builds)) /\ earned \subseteq ToSet(builds)
      BY BuildsAreFinite DEF DInv
    <3>2. IsFiniteSet(earned)
      BY <3>1, FS_Subset
    <3>3. earned \subseteq passed
      BY DEF Warmable
    <3> QED
      BY <3>2, <3>3
  <2> HIDE DEF earned
  <2>3. good \in Seq(passed)
    <3>1. good \in Seq(earned)
      BY <2>1, <2>2, InOrderLists, Zenon
    <3> QED
      BY <2>2, <3>1, OverMore
  <2>4. warm' \in Seq(passed)
    BY <2>1, <2>3, ConcatProperties DEF WInv
  <2> QED
    BY <1>1, <2>1, <2>4 DEF WInv, WarmingIsSafe, Warming
<1> QED
  BY <1>2, <1>3

\* The server goes where the client was, or drops the warming.
LEMMA WarmBeginsRight == ASSUME WInv, WarmBegins PROVE WInv'
<1>1. UNCHANGED <<there, passed, death>> /\ warm # <<>>
  BY DEF WarmBegins, WInv, Warming, worldVars, childVars
<1>2. CASE daemon' = "inside" /\ dir' = Directory(Head(warm)) /\ UNCHANGED warm
  BY <1>1, <1>2 DEF WInv, WarmingIsSafe, Warming, Directory
<1>3. CASE daemon' = "poll" /\ warm' = Tail(warm)
  BY <1>1, <1>3, QueueShorter DEF Warming
<1> QED
  BY <1>2, <1>3 DEF WarmBegins

\* The option parser took these arguments in the child, and the directory is
\* the one the child read them in.
LEMMA WarmParsesRight == ASSUME WInv, WarmParses PROVE WInv'
<1> DEFINE c == Head(warm)
<1>1. UNCHANGED <<there, passed>> /\ warm # <<>> /\ daemon = "inside"
  BY DEF WarmParses, WInv, Warming, worldVars, childVars
<1>2. c \in passed /\ c \in WellFormed /\ dir = c
  BY <1>1, DaemonAssumption DEF WInv
<1>3. CASE Dies("file") /\ ~WarmFinds(c)
  <2>1. c \notin there
    BY <1>2, <1>3 DEF WarmFinds
  <2> QED
    BY <1>1, <1>2, <1>3, <2>1 DEF WInv, WarmingIsSafe, Warming, Dies
<1>4. CASE daemon' = "poll" /\ warm' = Tail(warm) /\ UNCHANGED death
  BY <1>1, <1>4, QueueShorter DEF Warming
<1>5. CASE daemon' = "heating" /\ UNCHANGED <<warm, death>>
  BY <1>1, <1>5 DEF WInv, WarmingIsSafe, Warming
<1> QED
  BY <1>2, <1>3, <1>4, <1>5 DEF WarmParses

LEMMA AnalyseWarms == ASSUME WInv, Analyse PROVE WInv'
<1>1. UNCHANGED <<there, passed>>
  BY DEF Analyse, worldVars, childVars
<1>2. CASE Dies("prelude")
  BY <1>1, <1>2, DyingOtherwise
<1>3. CASE ~Dies("prelude")
  <2>1. /\ ~Warming'
        /\ warm' = IF daemon = "heating" THEN Tail(warm) ELSE warm
        /\ UNCHANGED death
    BY <1>3 DEF Analyse, Warming
  <2>2. CASE daemon = "heating"
    BY <1>1, <2>1, <2>2, QueueShorter DEF WInv, Warming
  <2>3. CASE daemon # "heating"
    BY <1>1, <2>1, <2>3 DEF WInv, WarmingIsSafe, Warming
  <2> QED
    BY <2>2, <2>3
<1> QED
  BY <1>2, <1>3

LEMMA ServerWarms == ASSUME DInv, WInv, Server PROVE WInv'
<1>1. CASE \/ Identify \/ Bind \/ Preanalyse \/ Poll \/ Accept \/ Refuse \/ Admit
           \/ Fork \/ Relay
  <2>1. UNCHANGED <<there, passed, warm, death, dir>>
    BY <1>1 DEF Identify, Bind, Preanalyse, Poll, Accept, Refuse, Admit, Fork, Relay,
                worldVars, memory, childVars
  <2>2. UNCHANGED daemon \/ ~Warming'
    BY <1>1 DEF Identify, Bind, Preanalyse, Poll, Accept, Refuse, Admit, Fork, Relay,
                Warming
  <2> QED
    BY <2>1, <2>2, WarmIdles
<1>2. CASE RequestUnread
  BY <1>2, DyingOtherwise DEF RequestUnread, worldVars, childVars
<1> QED
  BY <1>1, <1>2, AnalyseWarms, EndRoundWarms, WarmBeginsRight, WarmParsesRight
  DEF Server

\* A build succeeds, which makes more to warm from and never less.
LEMMA ChildWarms ==
    ASSUME WInv, NEW c \in Clients, Child(c) \/ ChildKilled(c) PROVE WInv'
<1>1. UNCHANGED <<there, warm, death, dir, daemon>>
  BY DEF Child, ChildWrites, ChildEnds, ChildKilled, worldVars, serverVars, memory
<1>2. passed \subseteq passed' /\ passed' \subseteq Sound
  BY DEF Child, ChildWrites, ChildEnds, ChildKilled, WInv
<1>3. warm \in Seq(passed')
  BY <1>2, OverMore DEF WInv
<1> QED
  BY <1>1, <1>2, <1>3 DEF WInv, WarmingIsSafe, Warming

LEMMA WarmStep == ASSUME DInv, WInv, [DaemonNext]_vars PROVE WInv'
<1>1. CASE Start
  BY <1>1 DEF Start, WInv, WarmingIsSafe, Warming, worldVars, memory, childVars
<1>2. CASE Server
  BY <1>2, ServerWarms
<1>3. CASE Kill
  BY <1>3, DyingOtherwise DEF Kill, worldVars, childVars
<1>4. CASE World
  <2>1. UNCHANGED <<warm, death, passed, daemon, dir>>
    BY <1>4 DEF World, serverVars, memory, childVars
  <2>2. there' \subseteq there
    BY <1>4 DEF World, Edit, Rebuild, Vanish
  <2> QED
    BY <2>1, <2>2 DEF WInv, WarmingIsSafe, Warming
<1>5. CASE Over \/ UNCHANGED vars
  BY <1>5, WarmIdles DEF Over, vars, worldVars, serverVars, memory, childVars
<1>6. ASSUME NEW c \in Clients, Child(c) \/ ChildKilled(c) PROVE WInv'
  BY <1>6, ChildWarms
<1>7. ASSUME NEW c \in Clients, Client(c) \/ HangUp(c) PROVE WInv'
  <2>1. UNCHANGED <<there, passed, warm, death, dir, daemon>>
    BY <1>7 DEF Client, Look, Connect, Send, Receive, LosesDaemon, HangUp, worldVars,
                serverVars, memory, childVars
  <2> QED
    BY <2>1, WarmIdles
<1> QED
  BY <1>1, <1>2, <1>3, <1>4, <1>5, <1>6, <1>7 DEF DaemonNext

LEMMA WarmInitially == DaemonInit => WInv
  BY DEF DaemonInit, WInv, WarmingIsSafe, Warming

\* However many builds finish while others are in flight, whatever is deleted
\* meanwhile and however long the queue of warmings has grown, the arguments a
\* warming reads are ones the option parser took before, and a file is missing
\* only when it was deleted after its build (Command#daemon_warm and
\* #daemon_warm_in_place).
THEOREM WarmsSafely == DaemonSpec => []WarmingIsSafe
<1>1. DaemonInit => DInv /\ WInv
  BY DaemonInitially, WarmInitially
<1>2. DInv /\ WInv /\ [DaemonNext]_vars => (DInv /\ WInv)'
  BY DaemonStep, WarmStep
<1>3. WInv => WarmingIsSafe
  BY DEF WInv
<1> QED
  BY <1>1, <1>2, <1>3, PTL DEF DaemonSpec

-----------------------------------------------------------------------------
(***************************************************************************)
(* What the cache holds.  An analysis has read its sources before it took  *)
(* their fingerprint, and versions only grow.  The server's own prelude is *)
(* analysed before any other, again after a refresh, which forgets them    *)
(* all: so whatever else is cached over the same files has read them when  *)
(* the server's own already had its fingerprint.                           *)
(***************************************************************************)

Analyses == [text : Nat, mark : Nat]

\* Nothing is analysed yet, and what is analysed is not being added to.
Unread == {"off", "begun", "recorded", "bound", "dead"}
Ready == {"poll", "round", "reading", "forking", "warming", "inside"}

Versions ==
    /\ source \in [Sources -> Nat]
    /\ IF Analysing THEN draft \in Nat /\ draft <= Written(Draws) ELSE draft = None
    /\ analysed \in [Keys -> {None} \cup Analyses]
    /\ \A k \in Keys : analysed[k] # None =>
          /\ analysed[k] \in Analyses
          /\ analysed[k].text <= analysed[k].mark /\ analysed[k].mark <= Written(k)

SameFiles == {k \in Keys : SourcesOf[k] = SourcesOf[DefaultKey]}

OwnIsFirst ==
    /\ daemon \in Unread \cup {"analysing", "refreshing"} =>
          \A k \in Keys : analysed[k] = None
    /\ daemon \in Ready \cup {"heating"} => analysed[DefaultKey] # None
    /\ \A k \in SameFiles \ {DefaultKey} :
          analysed[k] # None => analysed[DefaultKey].mark <= analysed[k].text
    /\ daemon = "heating" =>
          /\ analysed[Draws] = None
          /\ Draws \in SameFiles => analysed[DefaultKey].mark <= draft

CacheInv == Versions /\ OwnIsFirst

LEMMA KeysHaveFiles ==
    /\ DefaultKey \in Keys /\ None \notin Nat
    /\ \A k \in Keys : SourcesOf[k] \in Sources
    /\ \A c \in Clients : Needs[c] \in Keys
  BY DaemonAssumption DEF Sources

LEMMA CacheInitially == DaemonInit => CacheInv
  BY KeysHaveFiles
     DEF DaemonInit, CacheInv, Versions, OwnIsFirst, SameFiles, Written, Analysing,
         Unread, Ready

\* Whatever leaves the cache and the sources alone.
LEMMA CacheIdles ==
    ASSUME CacheInv, UNCHANGED <<source, analysed, draft>>,
           \/ UNCHANGED <<daemon, warm>>
           \/ daemon \in Ready /\ daemon' \in Ready
           \/ daemon \in Unread /\ daemon' \in Unread
    PROVE  CacheInv'
  BY DEF CacheInv, Versions, OwnIsFirst, SameFiles, Written, Draws, Analysing, Unread,
         Ready

LEMMA DyingForgets ==
    ASSUME CacheInv, NEW why, Dies(why), UNCHANGED source
    PROVE  CacheInv'
  BY DEF Dies, CacheInv, Versions, OwnIsFirst, SameFiles, Written, Draws, Analysing,
         Unread, Ready

\* The server begins to read its own prelude, with nothing analysed.
LEMMA OwnIsBegun ==
    ASSUME CacheInv, UNCHANGED source, \A k \in Keys : analysed'[k] = None,
           DOMAIN analysed' = Keys, analysed' = [k \in Keys |-> analysed'[k]],
           draft' = Written(DefaultKey), daemon' \in {"analysing", "refreshing"}
    PROVE  CacheInv'
<1>1. draft' \in Nat /\ Draws' = DefaultKey /\ Written(DefaultKey)' = draft'
  BY KeysHaveFiles DEF CacheInv, Versions, Written, Draws
<1>2. Analysing' /\ daemon' \notin Ready \cup {"heating"}
  BY DEF Analysing, Ready
<1>3. Versions'
  BY <1>1, <1>2 DEF CacheInv, Versions
<1>4. OwnIsFirst'
  BY <1>2 DEF OwnIsFirst, SameFiles
<1> QED
  BY <1>3, <1>4 DEF CacheInv

\* What an analysis comes to.
LEMMA WhatIsDrawn ==
    ASSUME CacheInv, Analysing, Draws \in Keys
    PROVE  /\ Drawn \in Analyses
           /\ Drawn.text = draft /\ Drawn.mark = Written(Draws)
           /\ Drawn.text <= Drawn.mark
<1>1. Written(Draws) \in Nat /\ draft \in Nat /\ draft <= Written(Draws)
  BY KeysHaveFiles DEF CacheInv, Versions, Written
<1> QED
  BY <1>1 DEF Drawn, Analyses

LEMMA AnalyseCaches == ASSUME WInv, CacheInv, Analyse PROVE CacheInv'
<1>1. UNCHANGED source /\ Analysing
  BY DEF Analyse, worldVars
<1>2. Draws \in Keys
  <2>1. CASE daemon = "heating"
    <3>1. Head(warm) \in Clients
      BY <2>1, DaemonAssumption DEF WInv, Warming
    <3> QED
      BY <2>1, <3>1, KeysHaveFiles DEF Draws
  <2>2. CASE daemon # "heating"
    BY <2>2, KeysHaveFiles DEF Draws
  <2> QED
    BY <2>1, <2>2
<1>3. CASE Dies("prelude")
  BY <1>1, <1>3, DyingForgets
<1>4. CASE ~Dies("prelude")
  <2>1. /\ daemon' \in Ready
        /\ \/ UNCHANGED analysed /\ daemon = "heating"
           \/ analysed' = [analysed EXCEPT ![Draws] = Drawn]
        /\ draft' = None
    BY <1>4 DEF Analyse, Ready
  <2>2. ~Analysing' /\ daemon' \notin Unread \cup {"analysing", "refreshing", "heating"}
    BY <2>1 DEF Analysing, Ready, Unread
  <2>3. CASE UNCHANGED analysed /\ daemon = "heating"
    BY <1>1, <2>1, <2>2, <2>3
       DEF CacheInv, Versions, OwnIsFirst, SameFiles, Written
  <2>4. CASE analysed' = [analysed EXCEPT ![Draws] = Drawn]
    <3>1. PICK d, e : d = Draws /\ e = Drawn
      OBVIOUS
    <3>2. /\ d \in Keys /\ e \in Analyses /\ e.text = draft /\ e.mark = Written(d)
          /\ e.text <= e.mark
      BY <1>1, <1>2, <3>1, WhatIsDrawn
    <3>3. /\ analysed'[d] = e /\ analysed' \in [Keys -> {None} \cup Analyses]
          /\ \A k \in Keys : k # d => analysed'[k] = analysed[k]
          /\ \A k \in Keys : Written(k)' = Written(k)
      BY <1>1, <2>4, <3>1, <3>2 DEF CacheInv, Versions, Written
    <3>4. Versions'
      <4>1. e.mark <= Written(d)
        BY <3>2, KeysHaveFiles DEF CacheInv, Versions, Written
      <4> QED
        BY <1>1, <2>1, <2>2, <3>2, <3>3, <4>1 DEF CacheInv, Versions
    <3>5. analysed'[DefaultKey] # None
      <4>1. e # None
        BY <3>2, DaemonAssumption DEF Analyses
      <4>2. d = DefaultKey \/ daemon = "heating"
        BY <3>1 DEF Draws
      <4> QED
        BY <3>3, <4>1, <4>2, KeysHaveFiles DEF CacheInv, OwnIsFirst
    <3>6. ASSUME NEW k \in SameFiles \ {DefaultKey}, analysed'[k] # None
          PROVE  analysed'[DefaultKey].mark <= analysed'[k].text
      <4>1. CASE daemon = "heating"
        <5>1. d # DefaultKey
          BY <3>1, <4>1 DEF CacheInv, OwnIsFirst
        <5>2. analysed'[DefaultKey] = analysed[DefaultKey]
          BY <3>3, <5>1, KeysHaveFiles
        <5>3. CASE k = d
          BY <3>1, <3>2, <3>3, <4>1, <5>2, <5>3 DEF CacheInv, OwnIsFirst
        <5>4. CASE k # d
          BY <3>3, <3>6, <5>2, <5>4 DEF CacheInv, OwnIsFirst, SameFiles
        <5> QED
          BY <5>3, <5>4
      <4>2. CASE daemon # "heating"
        <5>1. d = DefaultKey /\ analysed[k] = None
          BY <1>1, <3>1, <4>2 DEF Draws, Analysing, CacheInv, OwnIsFirst, SameFiles
        <5> QED
          BY <3>3, <3>6, <5>1 DEF SameFiles
      <4> QED
        BY <4>1, <4>2
    <3>7. OwnIsFirst'
      BY <2>2, <3>5, <3>6 DEF OwnIsFirst, SameFiles
    <3> QED
      BY <3>4, <3>7 DEF CacheInv
  <2> QED
    BY <2>1, <2>3, <2>4
<1> QED
  BY <1>3, <1>4

\* A warming begins to read a prelude that is not there: whatever is cached over
\* its files is of this version or an earlier one.
LEMMA WarmParsesCaches == ASSUME WInv, CacheInv, WarmParses PROVE CacheInv'
<1> DEFINE c == Head(warm)
<1>1. UNCHANGED <<source>> /\ daemon = "inside"
  BY DEF WarmParses, worldVars
<1>2. CASE \E why : Dies(why)
  BY <1>1, <1>2, DyingForgets
<1>3. CASE daemon' = "poll" /\ UNCHANGED <<analysed, draft>>
  BY <1>1, <1>3, CacheIdles DEF Ready
<1>4. CASE /\ daemon' = "heating" /\ draft' = Written(Needs[c]) /\ analysed[Needs[c]] = None
           /\ UNCHANGED <<warm, analysed>>
  <2>1. Needs[c] \in Keys
    <3>1. c \in Clients
      BY <1>1, DaemonAssumption DEF WInv, Warming
    <3> QED
      BY <3>1, KeysHaveFiles
  <2>2. PICK d : d = Needs[c]
    OBVIOUS
  <2>3. Draws' = d /\ draft' = Written(d) /\ d \in Keys /\ analysed[d] = None
    BY <1>4, <2>1, <2>2 DEF Draws
  <2>4. Analysing' /\ daemon' \notin Unread \cup Ready \cup {"analysing", "refreshing"}
    BY <1>4 DEF Analysing, Unread, Ready
  <2>5. Written(d)' = Written(d) /\ Written(d) \in Nat
    BY <1>1, <2>3, KeysHaveFiles DEF CacheInv, Versions, Written
  <2>6. \A k \in Keys : Written(k)' = Written(k)
    BY <1>1 DEF Written
  <2>7. Versions'
    BY <1>1, <1>4, <2>3, <2>4, <2>5, <2>6 DEF CacheInv, Versions
  <2>8. analysed[DefaultKey] # None
    BY <1>1 DEF CacheInv, OwnIsFirst, Ready
  <2>9. d \in SameFiles => analysed[DefaultKey].mark <= draft'
    BY <2>3, <2>8, KeysHaveFiles DEF CacheInv, Versions, SameFiles, Written
  <2>10. OwnIsFirst'
    BY <1>4, <2>3, <2>4, <2>8, <2>9 DEF CacheInv, OwnIsFirst, SameFiles
  <2> QED
    BY <2>7, <2>10 DEF CacheInv
<1> QED
  BY <1>2, <1>3, <1>4 DEF WarmParses

LEMMA ServerCaches == ASSUME WInv, CacheInv, Server PROVE CacheInv'
<1>1. CASE Identify \/ Bind
  BY <1>1, CacheIdles DEF Identify, Bind, worldVars, memory, Unread
<1>2. CASE \/ Poll \/ Accept \/ Refuse \/ Fork \/ Relay \/ WarmBegins
  <2>1. UNCHANGED <<source, analysed, draft>>
    BY <1>2 DEF Poll, Accept, Refuse, Fork, Relay, WarmBegins, worldVars, memory
  <2>2. daemon \in Ready /\ daemon' \in Ready
    BY <1>2 DEF Poll, Accept, Refuse, Fork, Relay, WarmBegins, Ready
  <2> QED
    BY <2>1, <2>2, CacheIdles
<1>3. CASE Preanalyse
  <2>1. /\ UNCHANGED <<source, analysed>> /\ daemon = "bound" /\ daemon' = "analysing"
        /\ draft' = Written(DefaultKey)
    BY <1>3 DEF Preanalyse, worldVars
  <2>2. \A k \in Keys : analysed[k] = None
    BY <2>1 DEF CacheInv, OwnIsFirst, Unread
  <2> QED
    BY <2>1, <2>2, OwnIsBegun DEF CacheInv, Versions
<1>4. CASE Admit
  <2>1. CASE UNCHANGED <<analysed, draft>> /\ daemon' = "forking"
    BY <1>4, <2>1, CacheIdles DEF Admit, worldVars, Ready
  <2>2. CASE daemon' = "refreshing" /\ analysed' = Cleared /\ draft' = Written(DefaultKey)
    BY <1>4, <2>2, OwnIsBegun DEF Admit, Cleared, worldVars
  <2> QED
    BY <1>4, <2>1, <2>2 DEF Admit
<1>5. CASE RequestUnread
  BY <1>5, DyingForgets DEF RequestUnread, worldVars
<1>6. CASE EndRound
  <2>1. UNCHANGED source /\ daemon = "round"
    BY <1>6 DEF EndRound, worldVars
  <2>2. CASE \E why : Dies(why)
    BY <2>1, <2>2, DyingForgets
  <2>3. CASE ~\E why : Dies(why)
    <3>1. UNCHANGED <<analysed, draft>> /\ daemon' \in {"poll", "warming"}
      BY <1>6, <2>3, Zenon DEF EndRound, memory
    <3> QED
      BY <2>1, <3>1, CacheIdles DEF Ready
  <2> QED
    BY <2>2, <2>3
<1> QED
  BY <1>1, <1>2, <1>3, <1>4, <1>5, <1>6, AnalyseCaches, WarmParsesCaches DEF Server

\* An edit makes versions larger, and nothing cached.
LEMMA EditCaches ==
    ASSUME WInv, CacheInv, NEW s \in Sources, source' = [source EXCEPT ![s] = @ + 1],
           UNCHANGED <<analysed, draft, daemon, warm>>
    PROVE  CacheInv'
<1>1. source' \in [Sources -> Nat] /\ \A r \in Sources : source[r] <= source'[r]
  BY DEF CacheInv, Versions
<1>2. \A k \in Keys : /\ Written(k) \in Nat /\ Written(k)' \in Nat
                      /\ Written(k) <= Written(k)'
  BY <1>1, KeysHaveFiles DEF Written, CacheInv, Versions
<1>3. Draws' = Draws /\ (Analysing' <=> Analysing)
  BY DEF Draws, Analysing
<1>4. Analysing => Draws \in Keys
  <2>1. CASE daemon = "heating"
    <3>1. Head(warm) \in Clients
      BY <2>1, DaemonAssumption DEF WInv, Warming
    <3> QED
      BY <2>1, <3>1, KeysHaveFiles DEF Draws
  <2>2. CASE daemon # "heating"
    BY <2>2, KeysHaveFiles DEF Draws
  <2> QED
    BY <2>1, <2>2
<1>5. Analysing => draft' \in Nat /\ draft' <= Written(Draws)'
  BY <1>2, <1>3, <1>4 DEF CacheInv, Versions
<1>6. ASSUME NEW k \in Keys, analysed[k] # None
      PROVE  /\ analysed[k] \in Analyses /\ analysed[k].text <= analysed[k].mark
             /\ analysed[k].mark <= Written(k)'
  <2>1. PICK e \in Analyses : e = analysed[k]
    BY <1>6 DEF CacheInv, Versions
  <2>2. e.text <= e.mark /\ e.mark <= Written(k) /\ e.mark \in Nat
    BY <1>6, <2>1 DEF CacheInv, Versions, Analyses
  <2> QED
    BY <1>2, <2>1, <2>2
<1>7. Versions'
  BY <1>1, <1>3, <1>5, <1>6 DEF CacheInv, Versions
<1>8. OwnIsFirst'
  BY <1>3 DEF CacheInv, OwnIsFirst, SameFiles
<1> QED
  BY <1>7, <1>8 DEF CacheInv

LEMMA CacheStep == ASSUME WInv, CacheInv, [DaemonNext]_vars PROVE CacheInv'
<1>1. CASE Start
  BY <1>1, CacheIdles DEF Start, worldVars, memory, Unread
<1>2. CASE Server
  BY <1>2, ServerCaches
<1>3. CASE Kill
  BY <1>3, DyingForgets DEF Kill, worldVars
<1>4. CASE World
  <2>1. ASSUME NEW s \in Sources, Edit(s) PROVE CacheInv'
    BY <1>4, <2>1, EditCaches DEF World, Edit, serverVars, memory
  <2>2. ASSUME Rebuild \/ \E c \in Clients : Vanish(c) PROVE CacheInv'
    BY <1>4, <2>2, CacheIdles DEF World, Rebuild, Vanish, serverVars, memory
  <2> QED
    BY <1>4, <2>1, <2>2 DEF World
<1>5. CASE Over \/ UNCHANGED vars
  BY <1>5, CacheIdles DEF Over, vars, worldVars, serverVars, memory
<1>6. ASSUME NEW c \in Clients, Child(c) \/ ChildKilled(c) \/ Client(c) \/ HangUp(c)
      PROVE  CacheInv'
  <2>1. UNCHANGED <<source, analysed, draft, daemon, warm>>
    BY <1>6 DEF Child, ChildWrites, ChildEnds, ChildKilled, Client, Look, Connect, Send,
                Receive, LosesDaemon, HangUp, worldVars, serverVars, memory
  <2> QED
    BY <2>1, CacheIdles
<1> QED
  BY <1>1, <1>2, <1>3, <1>4, <1>5, <1>6 DEF DaemonNext

-----------------------------------------------------------------------------
(***************************************************************************)
(* OutputIntact is about the end of a long way: a piece is written into a  *)
(* pipe, read out of it, framed, sent between the frames of the other      *)
(* stream and received.  The pieces of one stream are numbered: the client *)
(* has the first, the pipe the last, and the frames on their way carry     *)
(* what is between, each number once and in order.                         *)
(***************************************************************************)

\* g begins S.
Begun(g, S) == Len(g) <= Len(S) /\ \A i \in 1..Len(g) : g[i] = S[i]

\* Of the stream S of kind k, g has been received and u not yet been read; h numbers
\* the frames of q, which carry the rest.
Line(q, k, S, g, u, h) ==
    /\ Len(g) <= Len(S) - Len(u)
    /\ \A i \in 1..Len(g) : g[i] = S[i]
    /\ \A i \in 1..Len(u) : u[i] = S[Len(S) - Len(u) + i]
    /\ h \in [DOMAIN q -> Int]
    /\ \A i \in DOMAIN q :
         q[i].kind = k => /\ Len(g) < h[i] /\ h[i] <= Len(S) - Len(u)
                          /\ q[i].body = S[h[i]]
    /\ \A i, j \in DOMAIN q :
         i < j /\ q[i].kind = k /\ q[j].kind = k => h[i] < h[j]
    /\ \A n \in Nat :
         Len(g) < n /\ n <= Len(S) - Len(u) =>
            \E i \in DOMAIN q : q[i].kind = k /\ h[i] = n

LEMMA LineStarts == ASSUME NEW k PROVE Line(<<>>, k, <<>>, <<>>, <<>>, <<>>)
BY DEF Line

LEMMA LineBegun ==
    ASSUME NEW P, NEW S \in Seq(P), NEW g \in Seq(P), NEW u \in Seq(P),
           NEW q, NEW k, NEW h, Line(q, k, S, g, u, h)
    PROVE  Begun(g, S)
BY DEF Line, Begun

\* With nothing in the pipe and no frame on its way everything has been received.
LEMMA LineEnds ==
    ASSUME NEW P, NEW S \in Seq(P), NEW g \in Seq(P), NEW k, NEW h,
           Line(<<>>, k, S, g, <<>>, h)
    PROVE  g = S
<1>1. Len(g) \in Nat /\ Len(S) \in Nat /\ Len(g) <= Len(S)
  BY DEF Line
<1>2. ~(Len(g) < Len(S))
  BY <1>1 DEF Line
<1> QED
  BY <1>1, <1>2 DEF Line

\* A piece is written.
LEMMA LineWritten ==
    ASSUME NEW P, NEW S \in Seq(P), NEW g \in Seq(P), NEW u \in Seq(P),
           NEW q, NEW k, NEW h, Line(q, k, S, g, u, h), NEW x \in P
    PROVE  Line(q, k, Append(S, x), g, Append(u, x), h)
<1> DEFINE T == Append(S, x)
           v == Append(u, x)
<1>1. /\ Len(T) = Len(S) + 1 /\ \A i \in 1..Len(S) : T[i] = S[i]
      /\ T[Len(S) + 1] = x
  OBVIOUS
<1>2. /\ Len(v) = Len(u) + 1 /\ \A i \in 1..Len(u) : v[i] = u[i]
      /\ v[Len(u) + 1] = x
  OBVIOUS
<1>3. Len(S) \in Nat /\ Len(g) \in Nat /\ Len(u) \in Nat
  OBVIOUS
<1> HIDE DEF T, v
<1>4. Len(T) - Len(v) = Len(S) - Len(u)
  BY <1>1, <1>2, <1>3
<1>5. ASSUME NEW i \in 1..Len(v) PROVE v[i] = T[Len(T) - Len(v) + i]
  <2>1. CASE i \in 1..Len(u)
    <3>1. v[i] = S[Len(S) - Len(u) + i]
      BY <1>2, <2>1 DEF Line
    <3>2. Len(S) - Len(u) + i \in 1..Len(S)
      BY <1>3, <2>1 DEF Line
    <3> QED
      BY <1>1, <1>4, <3>1, <3>2
  <2>2. CASE i = Len(u) + 1
    <3>1. Len(T) - Len(v) + i = Len(S) + 1
      BY <1>1, <1>2, <1>3, <2>2
    <3> QED
      BY <1>1, <1>2, <2>2, <3>1
  <2> QED
    BY <1>2, <1>3, <2>1, <2>2
<1>6. \A i \in 1..Len(g) : g[i] = T[i]
  BY <1>1, <1>3 DEF Line
<1>7. \A i \in DOMAIN q : q[i].kind = k => q[i].body = T[h[i]]
  BY <1>1, <1>3 DEF Line
<1>8. Line(q, k, T, g, v, h)
  BY <1>4, <1>5, <1>6, <1>7 DEF Line
<1> QED
  BY <1>8 DEF T, v

\* A frame of the other stream, or a status, is sent.
LEMMA LinePassed ==
    ASSUME NEW F, NEW q \in Seq(F), NEW e \in F, NEW S, NEW g, NEW u, NEW k, NEW h,
           Line(q, k, S, g, u, h), e.kind # k
    PROVE  \E l : Line(Append(q, e), k, S, g, u, l)
<1> DEFINE r == Append(q, e)
           l == [i \in 1..Len(q) + 1 |-> IF i = Len(q) + 1 THEN 0 ELSE h[i]]
<1>1. /\ DOMAIN q = 1..Len(q) /\ DOMAIN r = 1..Len(q) + 1 /\ Len(q) \in Nat
      /\ r[Len(q) + 1] = e /\ \A i \in 1..Len(q) : r[i] = q[i]
  OBVIOUS
<1>2. l \in [1..Len(q) + 1 -> Int] /\ \A i \in 1..Len(q) : l[i] = h[i]
  BY DEF Line
<1> HIDE DEF r, l
<1>3. \A i \in DOMAIN r : r[i].kind = k => i \in DOMAIN q /\ r[i] = q[i] /\ l[i] = h[i]
  BY <1>1, <1>2
<1>4. \A i \in DOMAIN q : i \in DOMAIN r /\ r[i] = q[i] /\ l[i] = h[i]
  BY <1>1, <1>2
<1>5. l \in [DOMAIN r -> Int]
  BY <1>1, <1>2
<1>6. Line(r, k, S, g, u, l)
  BY <1>3, <1>4, <1>5 DEF Line
<1> QED
  BY <1>6 DEF r

\* A piece is read and sent.
LEMMA LineSent ==
    ASSUME NEW F, NEW q \in Seq(F), NEW e \in F,
           NEW P, NEW S \in Seq(P), NEW g \in Seq(P), NEW u \in Seq(P), NEW k, NEW h,
           Line(q, k, S, g, u, h), u # <<>>, e.kind = k, e.body = Head(u)
    PROVE  \E l : Line(Append(q, e), k, S, g, Tail(u), l)
<1> DEFINE r == Append(q, e)
           v == Tail(u)
           m == Len(S) - Len(u) + 1
           l == [i \in 1..Len(q) + 1 |-> IF i = Len(q) + 1 THEN m ELSE h[i]]
<1>1. /\ DOMAIN q = 1..Len(q) /\ DOMAIN r = 1..Len(q) + 1 /\ Len(q) \in Nat
      /\ r[Len(q) + 1] = e /\ \A i \in 1..Len(q) : r[i] = q[i]
  OBVIOUS
<1>2. /\ Len(v) = Len(u) - 1 /\ \A i \in 1..Len(v) : v[i] = u[i + 1]
      /\ Len(u) \in Nat \ {0} /\ Head(u) = u[1]
  OBVIOUS
<1>3. Len(S) \in Nat /\ Len(g) \in Nat /\ Len(g) < m /\ m \in Nat
  BY <1>2 DEF Line
<1>4. /\ l \in [1..Len(q) + 1 -> Int] /\ \A i \in 1..Len(q) : l[i] = h[i]
      /\ l[Len(q) + 1] = m
  BY <1>1, <1>3 DEF Line
<1>5. Len(S) - Len(v) = m
  BY <1>2, <1>3
<1>6. e.body = S[m]
  BY <1>2, <1>3 DEF Line
<1>7. \A n \in Nat : n <= m => n = m \/ n <= Len(S) - Len(u)
  BY <1>2, <1>3
<1>8. \A n \in Int : n <= Len(S) - Len(u) => n < m
  BY <1>2, <1>3
<1> HIDE DEF r, l, v, m
<1>9. \A i \in DOMAIN q : i \in DOMAIN r /\ r[i] = q[i] /\ l[i] = h[i]
  BY <1>1, <1>4
<1>10. \A i \in DOMAIN r : \/ i \in DOMAIN q /\ r[i] = q[i] /\ l[i] = h[i]
                           \/ i = Len(q) + 1 /\ r[i] = e /\ l[i] = m
  BY <1>1, <1>4
<1>11. \A i \in DOMAIN r :
          r[i].kind = k => Len(g) < l[i] /\ l[i] <= m /\ r[i].body = S[l[i]]
  <2>1. ASSUME NEW i \in DOMAIN q, q[i].kind = k
        PROVE  Len(g) < h[i] /\ h[i] <= m /\ q[i].body = S[h[i]]
    <3>1. /\ Len(g) < h[i] /\ h[i] <= Len(S) - Len(u) /\ q[i].body = S[h[i]]
          /\ h[i] \in Int
      BY <2>1 DEF Line
    <3>2. h[i] < m
      BY <1>8, <3>1
    <3> QED
      BY <1>3, <3>1, <3>2
  <2> QED
    BY <1>3, <1>6, <1>10, <2>1
<1>12. \A i, j \in DOMAIN r :
          i < j /\ r[i].kind = k /\ r[j].kind = k => l[i] < l[j]
  <2> SUFFICES ASSUME NEW i \in DOMAIN r, NEW j \in DOMAIN r, i < j,
                      r[i].kind = k, r[j].kind = k
               PROVE  l[i] < l[j]
    OBVIOUS
  <2>1. i \in DOMAIN q /\ r[i] = q[i] /\ l[i] = h[i]
    BY <1>1, <1>4
  <2>2. l[i] < m
    BY <1>8, <2>1 DEF Line
  <2> QED
    BY <1>10, <2>1, <2>2 DEF Line
<1>13. \A n \in Nat : Len(g) < n /\ n <= m => \E i \in DOMAIN r : r[i].kind = k /\ l[i] = n
  <2> SUFFICES ASSUME NEW n \in Nat, Len(g) < n, n <= m
               PROVE  \E i \in DOMAIN r : r[i].kind = k /\ l[i] = n
    OBVIOUS
  <2>1. CASE n = m
    <3>1. Len(q) + 1 \in DOMAIN r /\ r[Len(q) + 1].kind = k
      BY <1>1
    <3> QED
      BY <1>4, <2>1, <3>1
  <2>2. CASE n # m
    <3>1. PICK i \in DOMAIN q : q[i].kind = k /\ h[i] = n
      BY <1>7, <2>2 DEF Line
    <3> QED
      BY <1>9, <3>1
  <2> QED
    BY <2>1, <2>2
<1>14. /\ \A i \in 1..Len(v) : v[i] = S[m + i]
       /\ l \in [DOMAIN r -> Int]
  <2>1. ASSUME NEW i \in 1..Len(v) PROVE v[i] = S[m + i]
    <3>1. i + 1 \in 1..Len(u) /\ v[i] = u[i + 1]
      BY <1>2
    <3>2. Len(S) - Len(u) + (i + 1) = m + i
      BY <1>2, <1>3 DEF m
    <3> QED
      BY <3>1, <3>2 DEF Line
  <2> QED
    BY <1>1, <1>4, <2>1
<1>15. \A i \in 1..Len(g) : g[i] = S[i]
  BY DEF Line
<1>16. Len(g) <= m
  BY <1>3
<1>17. Line(r, k, S, g, v, l)
  BY <1>5, <1>11, <1>12, <1>13, <1>14, <1>15, <1>16, Zenon DEF Line
<1> QED
  BY <1>17 DEF r, v

\* A frame that is not of this stream is received.
LEMMA LineSkipped ==
    ASSUME NEW F, NEW q \in Seq(F), q # <<>>, NEW S, NEW g, NEW u, NEW k, NEW h,
           Line(q, k, S, g, u, h), Head(q).kind # k
    PROVE  \E l : Line(Tail(q), k, S, g, u, l)
<1> DEFINE r == Tail(q)
           l == [i \in 1..Len(q) - 1 |-> h[i + 1]]
<1>1. /\ DOMAIN q = 1..Len(q) /\ DOMAIN r = 1..Len(q) - 1 /\ Len(q) \in Nat \ {0}
      /\ Head(q) = q[1] /\ \A i \in 1..Len(q) - 1 : r[i] = q[i + 1]
  OBVIOUS
<1>2. l \in [1..Len(q) - 1 -> Int] /\ \A i \in 1..Len(q) - 1 : l[i] = h[i + 1]
  BY <1>1 DEF Line
<1> HIDE DEF r, l
<1>3. \A i \in DOMAIN r : i + 1 \in DOMAIN q /\ r[i] = q[i + 1] /\ l[i] = h[i + 1]
  BY <1>1, <1>2
<1>4. \A i \in DOMAIN q : q[i].kind = k =>
         i - 1 \in DOMAIN r /\ r[i - 1] = q[i] /\ l[i - 1] = h[i]
  BY <1>1, <1>2
<1>5. \A i, j \in DOMAIN r : i < j => i + 1 < j + 1
  BY <1>1
<1>6. l \in [DOMAIN r -> Int]
  BY <1>1, <1>2
<1>7. \A i, j \in DOMAIN r :
          i < j /\ r[i].kind = k /\ r[j].kind = k => l[i] < l[j]
  BY <1>3, <1>5 DEF Line
<1>8. \A i \in DOMAIN r :
         r[i].kind = k => /\ Len(g) < l[i] /\ l[i] <= Len(S) - Len(u)
                          /\ r[i].body = S[l[i]]
  BY <1>3 DEF Line
<1>9. \A n \in Nat :
         Len(g) < n /\ n <= Len(S) - Len(u) =>
            \E i \in DOMAIN r : r[i].kind = k /\ l[i] = n
  <2> SUFFICES ASSUME NEW n \in Nat, Len(g) < n, n <= Len(S) - Len(u)
               PROVE  \E i \in DOMAIN r : r[i].kind = k /\ l[i] = n
    OBVIOUS
  <2>1. PICK i \in DOMAIN q : q[i].kind = k /\ h[i] = n
    BY DEF Line
  <2> QED
    BY <1>4, <2>1
<1>10. Line(r, k, S, g, u, l)
  BY <1>6, <1>7, <1>8, <1>9 DEF Line
<1> QED
  BY <1>10 DEF r

\* A piece is received: it is the next one.
LEMMA LineTaken ==
    ASSUME NEW F, NEW q \in Seq(F), q # <<>>,
           NEW P, NEW S \in Seq(P), NEW g \in Seq(P), NEW u \in Seq(P), NEW k, NEW h,
           Line(q, k, S, g, u, h), Head(q).kind = k
    PROVE  /\ Head(q).body \in P
           /\ \E l : Line(Tail(q), k, S, Append(g, Head(q).body), u, l)
<1> DEFINE r == Tail(q)
           x == Head(q).body
           w == Append(g, x)
           l == [i \in 1..Len(q) - 1 |-> h[i + 1]]
<1>1. /\ DOMAIN q = 1..Len(q) /\ DOMAIN r = 1..Len(q) - 1 /\ Len(q) \in Nat \ {0}
      /\ Head(q) = q[1] /\ \A i \in 1..Len(q) - 1 : r[i] = q[i + 1]
  OBVIOUS
<1>2. l \in [1..Len(q) - 1 -> Int] /\ \A i \in 1..Len(q) - 1 : l[i] = h[i + 1]
  BY <1>1 DEF Line
<1>3. Len(S) \in Nat /\ Len(g) \in Nat /\ Len(u) \in Nat
  OBVIOUS
<1>4. /\ 1 \in DOMAIN q /\ q[1].kind = k /\ Len(g) < h[1] /\ h[1] <= Len(S) - Len(u)
      /\ x = S[h[1]] /\ h[1] \in Int
  BY <1>1 DEF Line
<1>5. h[1] = Len(g) + 1
  <2>1. Len(g) + 1 \in Nat /\ Len(g) < Len(g) + 1 /\ Len(g) + 1 <= Len(S) - Len(u)
    BY <1>3, <1>4
  <2>2. PICK i \in DOMAIN q : q[i].kind = k /\ h[i] = Len(g) + 1
    BY <2>1 DEF Line
  <2>3. CASE i # 1
    <3>1. h[1] < h[i]
      <4>1. 1 < i
        BY <1>1, <2>3
      <4> QED
        BY <1>4, <2>2, <4>1 DEF Line
    <3> QED
      BY <1>3, <1>4, <2>2, <3>1
  <2> QED
    BY <2>2, <2>3
<1>6. x \in P
  BY <1>3, <1>4, <1>5
<1>7. /\ w \in Seq(P) /\ Len(w) = Len(g) + 1 /\ w[Len(g) + 1] = x
      /\ \A i \in 1..Len(g) : w[i] = g[i]
  BY <1>6
<1> HIDE DEF r, l, w, x
<1>8. \A i \in DOMAIN r : i + 1 \in DOMAIN q /\ r[i] = q[i + 1] /\ l[i] = h[i + 1]
  BY <1>1, <1>2
<1>9. \A i \in DOMAIN q :
         i # 1 => i - 1 \in DOMAIN r /\ r[i - 1] = q[i] /\ l[i - 1] = h[i]
  BY <1>1, <1>2
<1>10. \A i \in DOMAIN r : r[i].kind = k => /\ Len(w) < l[i] /\ l[i] <= Len(S) - Len(u)
                                            /\ r[i].body = S[l[i]]
  <2> SUFFICES ASSUME NEW i \in DOMAIN r, r[i].kind = k
               PROVE  /\ Len(w) < l[i] /\ l[i] <= Len(S) - Len(u)
                      /\ r[i].body = S[l[i]]
    OBVIOUS
  <2>1. i + 1 \in DOMAIN q /\ r[i] = q[i + 1] /\ l[i] = h[i + 1] /\ 1 < i + 1
    BY <1>1, <1>8
  <2>2. h[1] < h[i + 1]
    BY <1>4, <2>1 DEF Line
  <2> QED
    BY <1>5, <1>7, <2>1, <2>2 DEF Line
<1>11. \A i, j \in DOMAIN r :
          i < j /\ r[i].kind = k /\ r[j].kind = k => l[i] < l[j]
  <2>1. \A i, j \in DOMAIN r : i < j => i + 1 < j + 1
    BY <1>1
  <2> QED
    BY <1>8, <2>1 DEF Line
<1>12. \A n \in Nat : Len(w) < n /\ n <= Len(S) - Len(u) =>
          \E i \in DOMAIN r : r[i].kind = k /\ l[i] = n
  <2> SUFFICES ASSUME NEW n \in Nat, Len(w) < n, n <= Len(S) - Len(u)
               PROVE  \E i \in DOMAIN r : r[i].kind = k /\ l[i] = n
    OBVIOUS
  <2>1. Len(g) < n
    BY <1>3, <1>7
  <2>2. PICK i \in DOMAIN q : q[i].kind = k /\ h[i] = n
    BY <2>1 DEF Line
  <2>3. i # 1
    BY <1>3, <1>5, <1>7, <2>2
  <2> QED
    BY <1>9, <2>2, <2>3
<1>13. \A i \in 1..Len(w) : w[i] = S[i]
  <2>1. \A i \in 1..Len(w) : i \in 1..Len(g) \/ i = Len(g) + 1
    BY <1>3, <1>7
  <2> QED
    BY <1>4, <1>5, <1>7, <2>1 DEF Line
<1>14. Len(w) <= Len(S) - Len(u) /\ l \in [DOMAIN r -> Int]
  BY <1>1, <1>2, <1>3, <1>4, <1>5, <1>7
<1>15. Line(r, k, S, w, u, l)
  BY <1>10, <1>11, <1>12, <1>13, <1>14 DEF Line
<1> QED
  BY <1>6, <1>15 DEF r, w, x

-----------------------------------------------------------------------------
(* The streams of a build *)

Pieces(c) == ToSet(AllOutput(c))
Chunks == [of : Clients, n : Nat]

LEMMA OutputOf ==
    ASSUME NEW c \in Clients
    PROVE  /\ Output[c] \in Seq(Kinds)
           /\ AllOutput(c) \in Seq(Pieces(c)) /\ Len(AllOutput(c)) = Len(Output[c])
           /\ \A n \in 1..Len(Output[c]) :
                 /\ Chunk(c, n) \in Pieces(c) /\ AllOutput(c)[n] = Chunk(c, n)
                 /\ Output[c][n] \in Kinds
           /\ Pieces(c) \subseteq Chunks
<1>1. Output[c] \in Seq(Kinds)
  BY DaemonAssumption
<1>2. DOMAIN Output[c] = 1..Len(Output[c]) /\ Len(Output[c]) \in Nat
  BY <1>1
<1>3. \A n \in 1..Len(Output[c]) : Chunk(c, n) \in Chunks
  BY <1>2 DEF Chunk, Chunks
<1>4. AllOutput(c) \in [1..Len(Output[c]) -> Chunks]
  BY <1>2, <1>3 DEF AllOutput
<1>5. AllOutput(c) \in Seq(Chunks) /\ Len(AllOutput(c)) = Len(Output[c])
  BY <1>2, <1>4
<1>6. AllOutput(c) \in Seq(Pieces(c)) /\ Pieces(c) \subseteq Chunks
  BY <1>5, OverItself, ElementsOf DEF Pieces
<1>7. \A n \in 1..Len(Output[c]) : AllOutput(c)[n] = Chunk(c, n)
  BY <1>2 DEF AllOutput
<1>8. \A n \in 1..Len(Output[c]) : Chunk(c, n) \in Pieces(c)
  BY <1>2, <1>7 DEF Pieces, ToSet, AllOutput
<1> QED
  BY <1>1, <1>5, <1>6, <1>7, <1>8

LEMMA StreamStarts == ASSUME NEW c \in Clients, NEW k PROVE Stream(c, k, 0) = <<>>
<1>1. SubSeq(AllOutput(c), 1, 0) = <<>>
  BY OutputOf
<1>2. Picked(<<>>, {i \in 1..0 : Output[c][i] = k}) = <<>>
  <2>1. DOMAIN <<>> \subseteq {i \in 1..0 : Output[c][i] = k}
    OBVIOUS
  <2> QED
    BY <2>1, Zenon DEF Picked
<1> QED
  BY <1>1, <1>2 DEF Stream

LEMMA StreamOf ==
    ASSUME NEW c \in Clients, NEW k, NEW n \in Nat, n <= Len(Output[c])
    PROVE  Stream(c, k, n) \in Seq(Pieces(c))
<1>1. SubSeq(AllOutput(c), 1, n) \in Seq(Pieces(c))
  BY OutputOf, PartOf
<1> QED
  BY <1>1, PickedPlaces DEF Stream

\* Another piece continues the stream it is on and leaves the other alone.
LEMMA StreamMore ==
    ASSUME NEW c \in Clients, NEW k, NEW n \in Nat, n < Len(Output[c])
    PROVE  Stream(c, k, n + 1) =
             IF Output[c][n + 1] = k THEN Append(Stream(c, k, n), Chunk(c, n + 1))
                                     ELSE Stream(c, k, n)
<1> DEFINE q == SubSeq(AllOutput(c), 1, n)
           e == Chunk(c, n + 1)
           I == {i \in 1..n : Output[c][i] = k}
           J == {i \in 1..n + 1 : Output[c][i] = k}
<1>1. AllOutput(c) \in Seq(Pieces(c)) /\ Len(AllOutput(c)) = Len(Output[c])
  BY OutputOf
<1>2. n + 1 \in 1..Len(Output[c])
  BY OutputOf
<1>3. e \in Pieces(c) /\ AllOutput(c)[n + 1] = e
  BY <1>2, OutputOf
<1>4. q \in Seq(Pieces(c)) /\ Len(q) = n
  BY <1>1, <1>2
<1>5. SubSeq(AllOutput(c), 1, n + 1) = Append(q, e)
  BY <1>1, <1>2, <1>3
<1>6. /\ \A i \in 1..Len(q) : i \in I <=> i \in J
      /\ n + 1 \in J <=> Output[c][n + 1] = k
  BY <1>4
<1> HIDE DEF q, e, I, J
<1>7. Picked(Append(q, e), J) =
         IF Len(q) + 1 \in J THEN Append(Picked(q, I), e) ELSE Picked(q, I)
  BY <1>3, <1>4, <1>6, PickedMore
<1>8. Stream(c, k, n) = Picked(q, I) /\ Stream(c, k, n + 1) = Picked(Append(q, e), J)
  BY <1>5 DEF Stream, q, I, J
<1> QED
  BY <1>4, <1>6, <1>7, <1>8 DEF e

-----------------------------------------------------------------------------
(***************************************************************************)
(* Around that: a client waits its turn once, so that it is given one      *)
(* child; a stream is closed only when its writer is gone and it has been  *)
(* emptied; and a status is the last frame of its connection, sent when    *)
(* nothing more can come.                                                  *)
(***************************************************************************)

Frames == [kind : Kinds \cup {"exit"}, body : Chunks \cup {None}, code : {None, 0, 1}]
PollAnswers == [of : Clients \cup {None}, kind : Kinds \cup {"accept"}]

Shapes ==
    /\ conn \in [Clients -> Seq(Frames)]
    /\ got \in [Clients -> [Kinds -> Seq(Chunks)]]
    /\ unread \in [Clients -> [Kinds -> Seq(Chunks)]]
    /\ wrote \in [Clients -> Nat]
    /\ open \in [Clients -> SUBSET Kinds]
    /\ backlog \in Seq(Clients) /\ todo \in Seq(PollAnswers)
    /\ reading \in Clients \cup {None}
    /\ reading # None <=> Accepting
    /\ IsInjective(backlog) /\ IsInjective(builds)

\* Nobody has built for c and nothing has been sent to it.
Before(c) == /\ child[c] = "none" /\ conn[c] = <<>>
             /\ at[c] \notin {"served", "failed"}

InTurn(c) ==
    /\ at[c] \in {"idle", "named"} =>
          Before(c) /\ c \notin ToSet(backlog) /\ c # reading
    /\ c \in ToSet(backlog) => Before(c) /\ c # reading
    /\ c = reading => Before(c)

NoStatus(line) == \A i \in DOMAIN line : line[i].kind # "exit"

Underway(c) ==
    /\ open[c] # {} => c \in ToSet(builds)
    /\ c \in ToSet(builds) =>
         /\ child[c] # "none" /\ at[c] \notin {"served", "failed"} /\ NoStatus(conn[c])
         /\ child[c] = "ended" => wrote[c] = Len(Output[c])
         /\ \A k \in Kinds \ open[c] :
               child[c] \in {"ended", "killed"} /\ unread[c][k] = <<>>

\* The build of c is over and all it wrote has been read.
Emptied(c) == /\ child[c] = "ended" /\ wrote[c] = Len(Output[c])
              /\ \A k \in Kinds : unread[c][k] = <<>>

StatusLast(c) ==
    /\ \A i \in DOMAIN conn[c] :
         conn[c][i].kind = "exit" =>
           /\ i = Len(conn[c])
           /\ child[c] # "none" => Emptied(c) /\ (conn[c][i].code = 0 <=> c \in passed)
    /\ at[c] \in {"served", "failed"} =>
         /\ conn[c] = <<>>
         /\ child[c] # "none" => Emptied(c) /\ (at[c] = "served" <=> c \in passed)

\* What has been received is the beginning of the stream; what has not is on its way,
\* unless the client hung up.
Flows(c) ==
    /\ wrote[c] <= Len(Output[c])
    /\ \A k \in Kinds :
         /\ ToSet(unread[c][k]) \subseteq Pieces(c)
         /\ IF at[c] = "gone"
            THEN Begun(got[c][k], Stream(c, k, wrote[c]))
            ELSE \E h : Line(conn[c], k, Stream(c, k, wrote[c]), got[c][k],
                             unread[c][k], h)

Right(c) == InTurn(c) /\ Underway(c) /\ StatusLast(c) /\ Flows(c)

\* What the round still has to do can be done.
Answered ==
    /\ \A i \in DOMAIN todo :
         IF todo[i].of = None THEN i = 1 /\ backlog # <<>>
         ELSE /\ todo[i].kind \in open[todo[i].of]
              /\ Readable(todo[i].of, todo[i].kind)
    /\ IsInjective(todo)

Bounded ==
    /\ starts <= MaxStarts /\ troubles \in Nat /\ troubles <= MaxTroubles
    /\ \A s \in Sources : source[s] <= troubles

OInv == Shapes /\ (\A c \in Clients : Right(c)) /\ Answered /\ Bounded

-----------------------------------------------------------------------------
(* What each part needs to stay *)

LEMMA TurnStays ==
    ASSUME NEW c \in Clients, InTurn(c),
           UNCHANGED <<child[c], conn[c], at[c]>>,
           c \in ToSet(backlog') => c \in ToSet(backlog),
           c = reading' => c = reading
    PROVE  InTurn(c)'
BY DEF InTurn, Before

LEMMA TurnOver ==
    ASSUME NEW c \in Clients, at'[c] \notin {"idle", "named"},
           c \notin ToSet(backlog'), c # reading'
    PROVE  InTurn(c)'
BY DEF InTurn

\* Who has a child does not wait for one.
LEMMA ServedNotInTurn ==
    ASSUME NEW c \in Clients, InTurn(c), child[c] # "none" \/ conn[c] # <<>>
    PROVE  at[c] \notin {"idle", "named"} /\ c \notin ToSet(backlog) /\ c # reading
BY DEF InTurn, Before

LEMMA UnderwayStays ==
    ASSUME NEW c \in Clients, Underway(c),
           UNCHANGED <<child[c], conn[c], at[c], wrote[c], unread[c], open[c]>>,
           c \in ToSet(builds') <=> c \in ToSet(builds)
    PROVE  Underway(c)'
BY DEF Underway

LEMMA UnderwayOver ==
    ASSUME NEW c \in Clients, c \notin ToSet(builds'), open'[c] = {}
    PROVE  Underway(c)'
BY DEF Underway

LEMMA LastStays ==
    ASSUME NEW c \in Clients, StatusLast(c),
           UNCHANGED <<child[c], conn[c], at[c], wrote[c], unread[c]>>,
           c \in passed' <=> c \in passed
    PROVE  StatusLast(c)'
BY DEF StatusLast, Emptied

LEMMA FlowStays ==
    ASSUME NEW c \in Clients, Flows(c),
           UNCHANGED <<conn[c], got[c], wrote[c], unread[c]>>,
           at'[c] = "gone" <=> at[c] = "gone"
    PROVE  Flows(c)'
BY DEF Flows

\* Nothing has happened to c.
Untouched(c) ==
    /\ UNCHANGED <<child[c], conn[c], at[c], got[c], wrote[c], unread[c], open[c]>>
    /\ c \in ToSet(builds') <=> c \in ToSet(builds)
    /\ c \in passed' <=> c \in passed
    /\ c \in ToSet(backlog') => c \in ToSet(backlog)
    /\ c = reading' => c = reading

LEMMA RightStays ==
    ASSUME NEW c \in Clients, Right(c), Untouched(c)
    PROVE  Right(c)'
<1>1. InTurn(c)'
  BY TurnStays DEF Right, Untouched
<1>2. Underway(c)'
  BY UnderwayStays DEF Right, Untouched
<1>3. StatusLast(c)'
  BY LastStays DEF Right, Untouched
<1>4. Flows(c)'
  BY FlowStays DEF Right, Untouched
<1> QED
  BY <1>1, <1>2, <1>3, <1>4 DEF Right

LEMMA AnsweredStays ==
    ASSUME Shapes, Answered, UNCHANGED todo, backlog # <<>> => backlog' # <<>>,
           \A c \in Clients : \A k \in open[c] :
              Readable(c, k) => k \in open'[c] /\ Readable(c, k)'
    PROVE  Answered'
<1>1. \A i \in DOMAIN todo : todo[i].of # None => todo[i].of \in Clients
  <2>1. todo \in Seq(PollAnswers)
    BY DEF Shapes
  <2>2. \A i \in DOMAIN todo : todo[i] \in PollAnswers
    BY <2>1
  <2> QED
    BY <2>2 DEF PollAnswers
<1> QED
  BY <1>1 DEF Answered

-----------------------------------------------------------------------------
(* The bounds *)

LEMMA BoundedStep ==
    ASSUME CacheInv, Counted, Bounded, [DaemonNext]_vars PROVE Bounded'
<1>1. starts \in Nat /\ troubles \in Nat /\ MaxStarts \in Nat /\ MaxTroubles \in Nat
      /\ source \in [Sources -> Nat]
  BY DaemonAssumption DEF Counted, Bounded, CacheInv, Versions
<1>2. ASSUME UNCHANGED <<source, starts>>,
             UNCHANGED troubles \/ \E what : Trouble(what)
      PROVE  Bounded'
  BY <1>1, <1>2 DEF Bounded, Trouble
<1>3. CASE Start
  BY <1>1, <1>3 DEF Start, Bounded, worldVars
<1>4. CASE Server
  BY <1>2, <1>4 DEF Server, Identify, Bind, Preanalyse, Analyse, Poll, Accept,
                    RequestUnread, Refuse, Admit, Fork, Relay, EndRound, WarmBegins,
                    WarmParses, worldVars, countVars
<1>5. CASE Kill
  BY <1>2, <1>5 DEF Kill, worldVars, Trouble
<1>6. CASE World
  <2>1. ASSUME NEW s \in Sources, Edit(s) PROVE Bounded'
    BY <1>1, <2>1 DEF Edit, Trouble, Bounded
  <2>2. CASE Rebuild \/ \E c \in Clients : Vanish(c)
    BY <1>2, <2>2 DEF Rebuild, Vanish, Trouble
  <2> QED
    BY <1>6, <2>1, <2>2 DEF World
<1>7. CASE Over \/ UNCHANGED vars
  BY <1>2, <1>7 DEF Over, vars, worldVars, countVars
<1>8. ASSUME NEW c \in Clients, Child(c) \/ Client(c) PROVE Bounded'
  BY <1>2, <1>8 DEF Child, ChildWrites, ChildEnds, Client, Look, Connect, Send, Receive,
                    LosesDaemon, worldVars, countVars
<1>9. ASSUME NEW c \in Clients, HangUp(c) \/ ChildKilled(c) PROVE Bounded'
  BY <1>2, <1>9 DEF HangUp, ChildKilled, Trouble, worldVars
<1> QED
  BY <1>3, <1>4, <1>5, <1>6, <1>7, <1>8, <1>9 DEF DaemonNext

-----------------------------------------------------------------------------
(* The server's steps *)

OKeeps == Shapes' /\ (\A c \in Clients : Right(c)') /\ Answered'

outputVars == <<child, conn, at, got, wrote, unread, passed>>

\* A step that changes nothing of all this.
LEMMA OutputIdles ==
    ASSUME OInv, UNCHANGED <<outputVars, open, builds, backlog, todo, reading>>,
           Accepting' <=> Accepting
    PROVE  OKeeps
<1>1. Shapes'
  BY DEF OInv, Shapes, outputVars
<1>2. ASSUME NEW c \in Clients PROVE Right(c)'
  BY RightStays DEF OInv, Untouched, outputVars
<1>3. Answered'
  BY AnsweredStays DEF OInv, Readable, outputVars
<1> QED
  BY <1>1, <1>2, <1>3 DEF OKeeps

LEMMA DyingKeepsOutput ==
    ASSUME OInv, NEW why, Dies(why), UNCHANGED outputVars
    PROVE  OKeeps
<1>1. /\ backlog' = <<>> /\ builds' = <<>> /\ todo' = <<>> /\ reading' = None
      /\ open' = [c \in Clients |-> {}] /\ ~Accepting'
  BY DEF Dies, Accepting
<1>2. ToSet(<<>>) = {}
  BY DEF ToSet
<1>3. Shapes'
  BY <1>1 DEF OInv, Shapes, outputVars, IsInjective
<1>4. ASSUME NEW c \in Clients PROVE Right(c)'
  <2>1. c # reading'
    BY <1>1, DaemonAssumption
  <2>2. InTurn(c)'
    BY <1>1, <1>2, <2>1, TurnStays DEF OInv, Right, outputVars
  <2>3. Underway(c)'
    BY <1>1, <1>2, UnderwayOver
  <2>4. StatusLast(c)' /\ Flows(c)'
    BY LastStays, FlowStays DEF OInv, Right, outputVars
  <2> QED
    BY <2>2, <2>3, <2>4 DEF Right
<1>5. Answered'
  BY <1>1 DEF Answered, IsInjective
<1> QED
  BY <1>3, <1>4, <1>5 DEF OKeeps

\* What poll(2) says, taken apart.
LEMMA StreamsOf ==
    ASSUME Shapes, builds \in Seq(Clients)
    PROVE  /\ Streams \in Seq(PollAnswers)
           /\ \A i \in DOMAIN Streams : Streams[i].of \in Clients /\ Streams[i].kind \in Kinds
           /\ \A i, j \in DOMAIN Streams : Streams[i] = Streams[j] => i = j
<1>1. Len(builds) \in Nat /\ DOMAIN Streams = 1..2 * Len(builds)
  BY DEF Streams
<1>2. \A i \in 1..2 * Len(builds) : (i + 1) \div 2 \in 1..Len(builds)
  BY <1>1
<1>3. \A i \in DOMAIN Streams :
        /\ Streams[i].of = builds[(i + 1) \div 2]
        /\ Streams[i].kind = IF i % 2 = 1 THEN "out" ELSE "err"
        /\ Streams[i] \in PollAnswers
        /\ Streams[i].of \in Clients /\ Streams[i].kind \in Kinds
  BY <1>1, <1>2 DEF Streams, PollAnswers, Kinds
<1>4. Streams \in Seq(PollAnswers)
  <2>1. Streams \in [1..2 * Len(builds) -> PollAnswers]
    BY <1>1, <1>3 DEF Streams
  <2> QED
    BY <1>1, <2>1
<1>5. ASSUME NEW i \in DOMAIN Streams, NEW j \in DOMAIN Streams, Streams[i] = Streams[j]
      PROVE  i = j
  <2>1. builds[(i + 1) \div 2] = builds[(j + 1) \div 2] /\ (i % 2 = 1 <=> j % 2 = 1)
    BY <1>3, <1>5
  <2>2. (i + 1) \div 2 = (j + 1) \div 2
    <3>1. IsInjective(builds) /\ DOMAIN builds = 1..Len(builds)
      BY DEF Shapes
    <3>2. (i + 1) \div 2 \in DOMAIN builds /\ (j + 1) \div 2 \in DOMAIN builds
      BY <1>1, <1>2, <3>1
    <3> QED
      BY <2>1, <3>1, <3>2 DEF IsInjective
  <2> QED
    BY <1>1, <2>1, <2>2
<1> QED
  BY <1>3, <1>4, <1>5

LEMMA AnswersRight ==
    ASSUME Shapes, builds \in Seq(Clients)
    PROVE  /\ Answers \in Seq(PollAnswers) /\ IsInjective(Answers)
           /\ \A i \in DOMAIN Answers :
                IF Answers[i].of = None THEN i = 1 /\ backlog # <<>>
                ELSE /\ Answers[i].kind \in open[Answers[i].of]
                     /\ Readable(Answers[i].of, Answers[i].kind)
<1> DEFINE I == {i \in DOMAIN Streams : Watched(Streams[i].of, Streams[i].kind)}
           B == Picked(Streams, I)
           a == [of |-> None, kind |-> "accept"]
<1>1. /\ Streams \in Seq(PollAnswers)
      /\ \A i \in DOMAIN Streams : Streams[i].of \in Clients /\ Streams[i].kind \in Kinds
      /\ \A i, j \in DOMAIN Streams : Streams[i] = Streams[j] => i = j
  BY StreamsOf
<1>2. Answers = (IF backlog # <<>> THEN <<a>> ELSE <<>>) \o B
  BY DEF Answers
<1>3. \A i \in I : i \in DOMAIN Streams /\ Watched(Streams[i].of, Streams[i].kind)
  OBVIOUS
<1>4. a \in PollAnswers
  BY DEF PollAnswers
<1> HIDE DEF I
<1>5. PICK g : DrawnFrom(B, Streams, I, g)
  BY <1>1, PickedPlaces, Zenon
<1>6. B \in Seq(PollAnswers)
  BY <1>1, PickedPlaces, Zenon
<1>7. \A i, j \in DOMAIN B : B[i] = B[j] => i = j
  BY <1>1, PickedOnce, Zenon
<1>8. ASSUME NEW i \in DOMAIN B
      PROVE  /\ B[i].of \in Clients
             /\ B[i].kind \in open[B[i].of] /\ Readable(B[i].of, B[i].kind)
  <2>1. g[i] \in I /\ g[i] \in DOMAIN Streams /\ B[i] = Streams[g[i]]
    BY <1>5 DEF DrawnFrom
  <2>2. Watched(B[i].of, B[i].kind)
    BY <1>3, <2>1
  <2> QED
    BY <1>1, <2>1, <2>2 DEF Watched
<1> HIDE DEF B, a
<1>9. None \notin Clients /\ a.of = None
  BY DaemonAssumption DEF a
<1>10. CASE backlog = <<>>
  <2>1. Answers = B
    BY <1>2, <1>6, <1>10
  <2> QED
    BY <1>6, <1>7, <1>8, <1>9, <2>1 DEF IsInjective
<1>11. CASE backlog # <<>>
  <2>1. Answers = <<a>> \o B
    BY <1>2, <1>11
  <2>2. /\ Answers \in Seq(PollAnswers) /\ DOMAIN Answers = 1..Len(B) + 1
        /\ Answers[1] = a /\ DOMAIN B = 1..Len(B) /\ Len(B) \in Nat
        /\ \A i \in 2..Len(B) + 1 : i - 1 \in DOMAIN B /\ Answers[i] = B[i - 1]
    BY <1>4, <1>6, <2>1
  <2>3. \A i \in DOMAIN Answers : i = 1 \/ i \in 2..Len(B) + 1
    BY <2>2
  <2>4. \A i \in 2..Len(B) + 1 : Answers[i].of \in Clients /\ Answers[i] # a
    BY <1>8, <1>9, <2>2
  <2>5. ASSUME NEW i \in DOMAIN Answers, NEW j \in DOMAIN Answers, Answers[i] = Answers[j]
        PROVE  i = j
    <3>1. CASE i = 1 \/ j = 1
      BY <2>2, <2>3, <2>4, <2>5, <3>1
    <3>2. CASE i \in 2..Len(B) + 1 /\ j \in 2..Len(B) + 1
      <4>1. i - 1 = j - 1
        BY <1>7, <2>2, <2>5, <3>2
      <4> QED
        BY <2>2, <4>1
    <3> QED
      BY <2>3, <3>1, <3>2
  <2>6. ASSUME NEW i \in DOMAIN Answers
        PROVE  IF Answers[i].of = None THEN i = 1 /\ backlog # <<>>
               ELSE /\ Answers[i].kind \in open[Answers[i].of]
                    /\ Readable(Answers[i].of, Answers[i].kind)
    <3>1. CASE i = 1
      BY <1>9, <1>11, <2>2, <3>1
    <3>2. CASE i \in 2..Len(B) + 1
      BY <1>8, <1>9, <2>2, <2>4, <3>2
    <3> QED
      BY <2>3, <3>1, <3>2
  <2> QED
    BY <2>2, <2>5, <2>6 DEF IsInjective
<1> QED
  BY <1>10, <1>11

LEMMA PollKeepsOutput == ASSUME OInv, builds \in Seq(Clients), Poll PROVE OKeeps
<1>1. /\ UNCHANGED <<outputVars, open, builds, backlog, reading>>
      /\ ~Accepting /\ ~Accepting' /\ todo' = Answers
  BY DEF Poll, Accepting, outputVars, clientVars, childVars
<1>2. /\ Answers \in Seq(PollAnswers) /\ IsInjective(Answers)
      /\ \A i \in DOMAIN Answers :
           IF Answers[i].of = None THEN i = 1 /\ backlog # <<>>
           ELSE /\ Answers[i].kind \in open[Answers[i].of]
                /\ Readable(Answers[i].of, Answers[i].kind)
  BY AnswersRight DEF OInv
<1>3. Shapes'
  BY <1>1, <1>2 DEF OInv, Shapes, outputVars
<1>4. ASSUME NEW c \in Clients PROVE Right(c)'
  BY <1>1, RightStays DEF OInv, Untouched, outputVars
<1>5. \A c, k : Readable(c, k)' <=> Readable(c, k)
  BY <1>1 DEF Readable, outputVars
<1>6. Answered'
  BY <1>1, <1>2, <1>5, Zenon DEF Answered
<1> QED
  BY <1>3, <1>4, <1>6 DEF OKeeps

LEMMA AcceptKeepsOutput == ASSUME OInv, Accept PROVE OKeeps
<1> DEFINE c == Head(backlog)
<1>1. /\ UNCHANGED <<outputVars, open, builds>> /\ ~Accepting /\ Accepting'
      /\ reading' = c /\ backlog' = Tail(backlog) /\ todo' = Tail(todo)
      /\ todo # <<>> /\ Head(todo).of = None
  BY DEF Accept, Accepting, outputVars, clientVars, childVars
<1>2. backlog \in Seq(Clients) /\ todo \in Seq(PollAnswers) /\ reading = None
  BY <1>1 DEF OInv, Shapes
<1>3. backlog # <<>>
  <2>1. 1 \in DOMAIN todo /\ todo[1] = Head(todo)
    BY <1>1, <1>2
  <2> QED
    BY <1>1, <2>1 DEF OInv, Answered
<1>4. /\ Len(backlog) \in Nat \ {0} /\ DOMAIN backlog = 1..Len(backlog)
      /\ c = backlog[1] /\ backlog' \in Seq(Clients)
      /\ DOMAIN backlog' = 1..Len(backlog) - 1
      /\ \A i \in 1..Len(backlog) - 1 : backlog'[i] = backlog[i + 1]
  BY <1>1, <1>2, <1>3
<1> HIDE DEF c
<1>5. c \in Clients /\ c # None /\ c \in ToSet(backlog)
  <2>1. 1 \in DOMAIN backlog
    BY <1>4
  <2>2. c \in Clients
    BY <1>2, <1>4, <2>1
  <2>3. c \in ToSet(backlog)
    BY <1>4, <2>1, Zenon DEF ToSet
  <2> QED
    BY <2>2, <2>3, DaemonAssumption
<1>6. IsInjective(backlog)
  BY DEF OInv, Shapes
<1>7. c \notin ToSet(backlog') /\ ToSet(backlog') \subseteq ToSet(backlog)
  <2>1. ASSUME NEW e \in ToSet(backlog') PROVE e \in ToSet(backlog) /\ e # c
    <3>1. PICK i \in DOMAIN backlog' : e = backlog'[i]
      BY <2>1 DEF ToSet
    <3>2. i + 1 \in DOMAIN backlog /\ 1 \in DOMAIN backlog /\ i + 1 # 1
          /\ e = backlog[i + 1]
      BY <1>4, <3>1
    <3>3. e # backlog[1]
      BY <1>6, <3>2 DEF IsInjective
    <3> QED
      BY <1>4, <3>2, <3>3 DEF ToSet
  <2> QED
    BY <2>1
<1>8. IsInjective(backlog')
  BY <1>4, <1>6 DEF IsInjective
<1>9. Shapes'
  BY <1>1, <1>2, <1>4, <1>5, <1>8 DEF OInv, Shapes, outputVars
<1>10. ASSUME NEW d \in Clients PROVE Right(d)'
  <2>1. Right(d) /\ (d = c => Before(d) /\ at[d] \notin {"idle", "named"})
    BY <1>5 DEF OInv, Right, InTurn
  <2>2. InTurn(d)'
    BY <1>1, <1>7, <2>1 DEF Right, InTurn, Before, outputVars
  <2>3. Underway(d)' /\ StatusLast(d)' /\ Flows(d)'
    BY <1>1, <2>1, UnderwayStays, LastStays, FlowStays DEF Right, outputVars
  <2> QED
    BY <2>2, <2>3 DEF Right
<1>11. Answered'
  <2>1. /\ DOMAIN todo = 1..Len(todo) /\ Len(todo) \in Nat \ {0}
        /\ DOMAIN todo' = 1..Len(todo) - 1
        /\ \A i \in 1..Len(todo) - 1 : todo'[i] = todo[i + 1]
    BY <1>1, <1>2
  <2>2. \A i \in DOMAIN todo' : i + 1 \in DOMAIN todo /\ i + 1 # 1 /\ todo'[i] = todo[i + 1]
    BY <2>1
  <2>3. \A d, k : Readable(d, k)' <=> Readable(d, k)
    BY <1>1 DEF Readable, outputVars
  <2>4. IsInjective(todo')
    BY <2>1, <2>2 DEF OInv, Answered, IsInjective
  <2>5. UNCHANGED open
    BY <1>1
  <2>6. \A i \in DOMAIN todo' : /\ todo'[i].of # None
                                /\ todo'[i].kind \in open[todo'[i].of]
                                /\ Readable(todo'[i].of, todo'[i].kind)
    BY <2>2 DEF OInv, Answered
  <2> QED
    BY <2>3, <2>4, <2>5, <2>6 DEF Answered
<1> QED
  BY <1>9, <1>10, <1>11 DEF OKeeps

\* One frame more for c, which is not of the streams.
LEMMA StatusSent ==
    ASSUME Shapes, NEW c \in Clients, Flows(c), NEW code \in {0, 1},
           at[c] # "gone", conn'[c] = Append(conn[c], ExitFrame(code)),
           UNCHANGED <<at[c], got[c], wrote[c], unread[c]>>
    PROVE  Flows(c)'
<1>1. ExitFrame(code) \in Frames
  BY DEF ExitFrame, Frames
<1>2. \A k \in Kinds : ExitFrame(code).kind # k
  BY DEF ExitFrame, Kinds
<1>3. conn[c] \in Seq(Frames)
  BY DEF Shapes
<1>4. ASSUME NEW k \in Kinds
      PROVE  \E h : Line(conn'[c], k, Stream(c, k, wrote[c]), got[c][k], unread[c][k], h)
  <2>1. PICK h : Line(conn[c], k, Stream(c, k, wrote[c]), got[c][k], unread[c][k], h)
    BY DEF Flows
  <2>2. \E h2 : Line(Append(conn[c], ExitFrame(code)), k, Stream(c, k, wrote[c]),
                     got[c][k], unread[c][k], h2)
    BY <1>1, <1>2, <1>3, <2>1, LinePassed, Zenon
  <2> QED
    BY <2>2
<1> QED
  BY <1>4 DEF Flows

LEMMA AskedIsWaiting ==
    ASSUME EInv, NEW c \in Clients, c \in asked
    PROVE  at[c] \notin {"idle", "named"}
BY DEF EInv, ClientRight

LEMMA RefuseKeepsOutput == ASSUME OInv, EInv, Refuse PROVE OKeeps
<1>1. PICK c : c = reading
  OBVIOUS
<1>2. /\ UNCHANGED <<child, at, got, wrote, unread, passed, open, builds, backlog, todo>>
      /\ Accepting /\ ~Accepting' /\ reading' = None
      /\ c \in asked /\ at[c] # "gone"
      /\ conn' = [conn EXCEPT ![c] = Append(@, ExitFrame(1))]
  BY <1>1 DEF Refuse, Accepting, childVars
<1>3. Shapes
  BY DEF OInv
<1>4. c \in Clients /\ c # None
  BY <1>1, <1>2, <1>3 DEF Shapes
<1>5. Right(c) /\ Before(c)
  BY <1>1, <1>4 DEF OInv, Right, InTurn
<1>6. conn[c] = <<>> /\ conn'[c] = Append(conn[c], ExitFrame(1))
      /\ \A d \in Clients : d # c => conn'[d] = conn[d]
  BY <1>2, <1>3, <1>4, <1>5 DEF Shapes, Before
<1>7. Len(conn'[c]) = 1 /\ conn'[c][1] = ExitFrame(1) /\ DOMAIN conn'[c] = {1}
  BY <1>6
<1>8. ExitFrame(1) \in Frames
  BY DEF ExitFrame, Frames
<1>9. Shapes'
  <2>1. conn' \in [Clients -> Seq(Frames)]
    BY <1>2, <1>3, <1>4, <1>8 DEF Shapes
  <2> QED
    BY <1>2, <1>3, <2>1 DEF Shapes
<1>10. ASSUME NEW d \in Clients, d # c PROVE Right(d)'
  <2>1. d # reading'
    BY <1>2, DaemonAssumption
  <2>2. Right(d)
    BY DEF OInv
  <2>3. Untouched(d)
    BY <1>2, <1>6, <1>10, <2>1 DEF Untouched
  <2> QED
    BY <2>2, <2>3, RightStays
<1>11. Right(c)'
  <2>1. InTurn(c)'
    <3>1. at[c] \notin {"idle", "named"}
      BY <1>2, <1>4, AskedIsWaiting
    <3>2. c \notin ToSet(backlog)
      BY <1>1, <1>5 DEF Right, InTurn
    <3> QED
      BY <1>2, <1>4, <3>1, <3>2, TurnOver
  <2>2. Underway(c)'
    <3>1. c \notin ToSet(builds) /\ open[c] = {}
      BY <1>5 DEF Right, Underway, Before
    <3> QED
      BY <1>2, <1>4, <3>1, UnderwayOver
  <2>3. StatusLast(c)'
    <3>1. child'[c] = "none" /\ at'[c] \notin {"served", "failed"}
      BY <1>2, <1>5 DEF Before
    <3> QED
      BY <1>7, <3>1 DEF StatusLast
  <2>4. Flows(c)'
    BY <1>2, <1>3, <1>4, <1>5, <1>6, StatusSent DEF Right
  <2> QED
    BY <2>1, <2>2, <2>3, <2>4 DEF Right
<1>12. Answered'
  BY <1>2, <1>3, AnsweredStays DEF OInv, Readable
<1>13. \A d \in Clients : Right(d)'
  BY <1>10, <1>11
<1> QED
  BY <1>9, <1>12, <1>13 DEF OKeeps

LEMMA ForkKeepsOutput == ASSUME DInv, EInv, OInv, Fork PROVE OKeeps
<1>a. UNCHANGED <<conn, at, asked, got, wrote, unread, passed>>
      /\ daemon = "forking" /\ Accepting /\ reading \in asked
  BY DEF Fork, Accepting, DInv, ForkedIsAsked
<1>1. PICK c : c = reading
  OBVIOUS
<1>2. /\ child' = [child EXCEPT ![c] = "runs"]
      /\ builds' = Append(builds, c) /\ open' = [open EXCEPT ![c] = Kinds]
      /\ ~Accepting' /\ reading' = None /\ UNCHANGED <<backlog, todo>>
  <2>1. daemon' = "round" /\ reading' = None /\ UNCHANGED <<backlog, todo>>
    BY DEF Fork
  <2> QED
    BY <1>1, <2>1, Zenon DEF Fork, Accepting
<1>3. Shapes /\ builds \in Seq(Clients)
  BY DEF OInv, DInv
<1>4. c \in Clients /\ c # None
  BY <1>a, <1>1, <1>3 DEF Shapes
<1>5. Right(c) /\ Before(c)
  BY <1>1, <1>4 DEF OInv, Right, InTurn
<1>6. c \notin ToSet(builds)
  BY <1>5 DEF Right, Underway, Before
<1>7. /\ Len(builds') = Len(builds) + 1 /\ Len(builds) \in Nat
      /\ DOMAIN builds = 1..Len(builds) /\ DOMAIN builds' = 1..Len(builds) + 1
      /\ builds'[Len(builds) + 1] = c /\ \A i \in 1..Len(builds) : builds'[i] = builds[i]
      /\ builds' \in Seq(Clients)
  BY <1>2, <1>3, <1>4
<1>8. IsInjective(builds')
  <2>1. \A i \in DOMAIN builds : builds[i] # c
    BY <1>6, Zenon DEF ToSet
  <2>2. \A i \in DOMAIN builds' : i \in DOMAIN builds \/ i = Len(builds) + 1
    BY <1>7
  <2> QED
    BY <1>3, <1>7, <2>1, <2>2 DEF Shapes, IsInjective
<1>9. \A d \in Clients : d # c => (d \in ToSet(builds') <=> d \in ToSet(builds))
  <2>1. ASSUME NEW d, d \in ToSet(builds) PROVE d \in ToSet(builds')
    <3>1. PICK i \in 1..Len(builds) : d = builds[i]
      BY <1>7, <2>1 DEF ToSet
    <3>2. i \in DOMAIN builds' /\ d = builds'[i]
      BY <1>7, <3>1
    <3> QED
      BY <3>2, Zenon DEF ToSet
  <2>2. ASSUME NEW d, d \in ToSet(builds'), d # c PROVE d \in ToSet(builds)
    <3>1. PICK i \in 1..Len(builds) + 1 : d = builds'[i]
      BY <1>7, <2>2 DEF ToSet
    <3>2. i \in DOMAIN builds /\ d = builds[i]
      BY <1>7, <2>2, <3>1
    <3> QED
      BY <3>2, Zenon DEF ToSet
  <2> QED
    BY <2>1, <2>2
<1>10. /\ \A d \in Clients : d # c => open'[d] = open[d]
       /\ open'[c] = Kinds /\ open' \in [Clients -> SUBSET Kinds]
  BY <1>2, <1>3, <1>4 DEF Shapes
<1>11. Shapes'
  BY <1>a, <1>2, <1>3, <1>7, <1>8, <1>10 DEF Shapes
<1>12. ASSUME NEW d \in Clients, d # c PROVE Right(d)'
  <2>1. child'[d] = child[d]
    BY <1>2, <1>12
  <2>2. d # reading'
    BY <1>2, DaemonAssumption
  <2> QED
    BY <1>a, <1>2, <1>9, <1>10, <1>12, <2>1, <2>2, RightStays DEF OInv, Untouched
<1>13. DOMAIN child = Clients
  BY DEF DInv
<1>14. Right(c)'
  <2>1. child'[c] \notin {"none", "ended", "killed"}
    <3>1. child'[c] = "runs"
      BY <1>2, <1>4, <1>13
    <3> QED
      BY <3>1
  <2>2. InTurn(c)'
    <3>1. at[c] \notin {"idle", "named"}
      BY <1>a, <1>1, <1>4, AskedIsWaiting
    <3>2. c \notin ToSet(backlog)
      BY <1>1, <1>5 DEF Right, InTurn
    <3> QED
      BY <1>a, <1>2, <1>4, <3>1, <3>2, TurnOver
  <2>3. Underway(c)'
    <3>1. c \in ToSet(builds')
      <4>1. Len(builds) + 1 \in DOMAIN builds'
        BY <1>7
      <4> QED
        BY <1>7, <4>1, Zenon DEF ToSet
    <3>2. NoStatus(<<>>)
      BY DEF NoStatus
    <3>3. NoStatus(conn'[c]) /\ at'[c] \notin {"served", "failed"}
      BY <1>a, <1>5, <3>2 DEF Before
    <3> QED
      BY <1>10, <2>1, <3>1, <3>3 DEF Underway
  <2>4. StatusLast(c)'
    <3>1. conn'[c] = <<>> /\ at'[c] \notin {"served", "failed"}
      BY <1>a, <1>5 DEF Before
    <3> QED
      BY <3>1 DEF StatusLast
  <2>5. Flows(c)'
    BY <1>a, <1>4, <1>5, FlowStays DEF Right
  <2> QED
    BY <2>2, <2>3, <2>4, <2>5 DEF Right
<1>15. Answered'
  <2>1. ASSUME NEW d \in Clients, NEW k \in open[d], Readable(d, k)
        PROVE  k \in open'[d] /\ Readable(d, k)'
    <3>1. d # c
      BY <1>5, <1>6, <2>1 DEF Right, Underway
    <3>2. child'[d] = child[d]
      BY <1>2, <3>1
    <3> QED
      BY <1>a, <1>10, <2>1, <3>1, <3>2 DEF Readable
  <2> QED
    BY <1>2, <1>3, <2>1, AnsweredStays DEF OInv
<1>16. \A d \in Clients : Right(d)'
  BY <1>12, <1>14
<1> QED
  BY <1>11, <1>15, <1>16 DEF OKeeps

\* What is left of a round.
LEMMA RoundGoesOn ==
    ASSUME Shapes, Answered, todo # <<>>, Head(todo).of # None,
           todo' = Tail(todo), UNCHANGED <<backlog, child>>,
           \A c \in Clients, k \in Kinds :
              (c # Head(todo).of \/ k # Head(todo).kind)
                => /\ unread'[c][k] = unread[c][k]
                   /\ k \in open[c] => k \in open'[c]
    PROVE  Answered' /\ todo' \in Seq(PollAnswers)
<1>1. todo \in Seq(PollAnswers) /\ open \in [Clients -> SUBSET Kinds]
  BY DEF Shapes
<1>2. /\ DOMAIN todo = 1..Len(todo) /\ Len(todo) \in Nat \ {0}
      /\ Head(todo) = todo[1] /\ 1 \in DOMAIN todo
      /\ DOMAIN todo' = 1..Len(todo) - 1 /\ todo' \in Seq(PollAnswers)
      /\ \A i \in 1..Len(todo) - 1 : todo'[i] = todo[i + 1]
  BY <1>1
<1>3. \A i \in DOMAIN todo' : i + 1 \in DOMAIN todo /\ i + 1 # 1 /\ todo'[i] = todo[i + 1]
  BY <1>2
<1>4. \A i \in DOMAIN todo : todo[i] \in PollAnswers
  BY <1>1
<1>5. IsInjective(todo')
  BY <1>2, <1>3 DEF Answered, IsInjective
<1>6. ASSUME NEW i \in DOMAIN todo'
      PROVE  (/\ todo[i].of # None /\ todo[i].kind \in open[todo[i].of]
              /\ Readable(todo[i].of, todo[i].kind))'
  <2>1. PICK e \in PollAnswers : e = todo[i + 1]
    BY <1>3, <1>4
  <2>2. e # Head(todo)
    BY <1>2, <1>3, <2>1 DEF Answered, IsInjective
  <2>3. e.of # None
    BY <1>3, <2>1 DEF Answered
  <2>4. e.kind \in open[e.of] /\ Readable(e.of, e.kind) /\ e.of \in Clients
    BY <1>3, <2>1, <2>3 DEF Answered, PollAnswers
  <2>5. e.kind \in Kinds
    BY <1>1, <2>4
  <2>6. e.of # Head(todo).of \/ e.kind # Head(todo).kind
    BY <1>2, <1>4, <2>2 DEF PollAnswers
  <2>7. unread'[e.of][e.kind] = unread[e.of][e.kind] /\ e.kind \in open'[e.of]
    BY <2>4, <2>5, <2>6
  <2>8. Readable(e.of, e.kind)'
    BY <2>4, <2>7 DEF Readable
  <2>9. todo'[i] = e
    BY <1>3, <2>1
  <2> QED
    BY <2>3, <2>7, <2>8, <2>9
<1> QED
  BY <1>2, <1>5, <1>6 DEF Answered

\* A piece goes from the pipe onto the connection.
LEMMA PieceRelayed ==
    ASSUME Shapes, NEW c \in Clients, Flows(c), NEW k \in Kinds, unread[c][k] # <<>>,
           unread'[c] = [unread[c] EXCEPT ![k] = Tail(unread[c][k])],
           conn'[c] = IF at[c] = "gone" THEN conn[c]
                      ELSE Append(conn[c], DataFrame(k, Head(unread[c][k]))),
           UNCHANGED <<at[c], got[c], wrote[c]>>
    PROVE  Flows(c)' /\ DataFrame(k, Head(unread[c][k])) \in Frames
<1>1. PICK e : e = DataFrame(k, Head(unread[c][k]))
  OBVIOUS
<1>2. /\ unread[c] \in [Kinds -> Seq(Chunks)] /\ conn[c] \in Seq(Frames)
      /\ got[c] \in [Kinds -> Seq(Chunks)] /\ wrote[c] \in Nat
  BY DEF Shapes
<1>3. Head(unread[c][k]) \in Chunks
  BY <1>2
<1>4. e \in Frames /\ e.kind = k /\ e.body = Head(unread[c][k])
  BY <1>1, <1>3 DEF DataFrame, Frames
<1>5. /\ unread'[c][k] = Tail(unread[c][k])
      /\ \A j \in Kinds : j # k => unread'[c][j] = unread[c][j]
  BY <1>2
<1>6. ASSUME NEW j \in Kinds PROVE ToSet(unread'[c][j]) \subseteq Pieces(c)
  <2>1. CASE j = k
    <3>1. unread[c][k] \in Seq(ToSet(unread[c][k]))
      BY <1>2, OverItself
    <3>2. ToSet(Tail(unread[c][k])) \subseteq ToSet(unread[c][k])
      BY <3>1, OneLess
    <3>3. ToSet(unread[c][k]) \subseteq Pieces(c)
      BY DEF Flows
    <3> QED
      BY <1>5, <2>1, <3>2, <3>3
  <2>2. CASE j # k
    BY <1>5, <2>2 DEF Flows
  <2> QED
    BY <2>1, <2>2
<1>7. CASE at[c] = "gone"
  <2>1. Flows(c)'
    BY <1>6, <1>7 DEF Flows
  <2> QED
    BY <1>1, <1>4, <2>1
<1>8. CASE at[c] # "gone"
  <2>1. ASSUME NEW j \in Kinds
        PROVE  \E h : Line(conn'[c], j, Stream(c, j, wrote[c]), got[c][j],
                           unread'[c][j], h)
    <3>1. PICK h : Line(conn[c], j, Stream(c, j, wrote[c]), got[c][j], unread[c][j], h)
      BY <1>8 DEF Flows
    <3>2. Stream(c, j, wrote[c]) \in Seq(Chunks)
      <4>1. Stream(c, j, wrote[c]) \in Seq(Pieces(c))
        BY <1>2, StreamOf DEF Flows
      <4> QED
        BY <4>1, OutputOf, OverMore
    <3>3. got[c][j] \in Seq(Chunks) /\ unread[c][j] \in Seq(Chunks)
      BY <1>2
    <3>4. conn'[c] = Append(conn[c], e)
      BY <1>1, <1>8
    <3>5. CASE j = k
      <4>1. \E l : Line(Append(conn[c], e), k, Stream(c, k, wrote[c]), got[c][k],
                        Tail(unread[c][k]), l)
        BY <1>2, <1>4, <3>1, <3>2, <3>3, <3>5, LineSent
      <4> QED
        BY <1>5, <3>4, <3>5, <4>1
    <3>6. CASE j # k
      <4>1. \E l : Line(Append(conn[c], e), j, Stream(c, j, wrote[c]), got[c][j],
                        unread[c][j], l)
        BY <1>2, <1>4, <3>1, <3>6, LinePassed, Zenon
      <4> QED
        BY <1>5, <3>4, <3>6, <4>1
    <3> QED
      BY <3>5, <3>6
  <2>2. Flows(c)'
    BY <1>6, <1>8, <2>1 DEF Flows
  <2> QED
    BY <1>1, <1>4, <2>2
<1> QED
  BY <1>7, <1>8

LEMMA RelayKeepsOutput == ASSUME OInv, Relay PROVE OKeeps
<1>1. PICK c, k : c = Head(todo).of /\ k = Head(todo).kind
  OBVIOUS
<1>2. /\ todo # <<>> /\ c # None /\ todo' = Tail(todo)
      /\ UNCHANGED <<child, at, got, wrote, passed, builds, backlog, reading, daemon>>
      /\ Accepting' <=> Accepting
  BY <1>1 DEF Relay, Accepting, clientVars
<1>3. Shapes
  BY DEF OInv
<1>4. c \in Clients /\ k \in Kinds /\ k \in open[c] /\ Readable(c, k)
  <2>1. todo \in Seq(PollAnswers) /\ open \in [Clients -> SUBSET Kinds]
    BY <1>3 DEF Shapes
  <2>2. 1 \in DOMAIN todo /\ todo[1] = Head(todo) /\ todo[1] \in PollAnswers
    BY <1>2, <2>1
  <2>3. c \in Clients
    BY <1>1, <1>2, <2>2 DEF PollAnswers
  <2>4. k \in open[c] /\ Readable(c, k)
    BY <1>1, <1>2, <2>2 DEF OInv, Answered
  <2> QED
    BY <2>1, <2>3, <2>4
<1>5. /\ unread \in [Clients -> [Kinds -> Seq(Chunks)]]
      /\ open \in [Clients -> SUBSET Kinds] /\ conn \in [Clients -> Seq(Frames)]
  BY <1>3 DEF Shapes
<1>6. Right(c)
  BY <1>4 DEF OInv
<1>7. c \in ToSet(builds) /\ child[c] # "none" /\ at[c] \notin {"served", "failed"}
      /\ NoStatus(conn[c])
  BY <1>4, <1>6 DEF Right, Underway
<1>8. InTurn(c)'
  <2>1. at[c] \notin {"idle", "named"} /\ c \notin ToSet(backlog) /\ c # reading
    BY <1>4, <1>6, <1>7, ServedNotInTurn DEF Right
  <2> QED
    BY <1>2, <1>4, <2>1, TurnOver
<1>9. CASE unread[c][k] = <<>>
  <2>1. open' = [open EXCEPT ![c] = @ \ {k}] /\ UNCHANGED <<unread, conn>>
    BY <1>1, <1>9 DEF Relay
  <2>2. /\ open'[c] = open[c] \ {k} /\ \A d \in Clients : d # c => open'[d] = open[d]
        /\ open' \in [Clients -> SUBSET Kinds]
    BY <1>4, <1>5, <2>1
  <2>3. child[c] \in {"ended", "killed"}
    BY <1>4, <1>9 DEF Readable
  <2>4. Answered' /\ todo' \in Seq(PollAnswers)
    BY <1>1, <1>2, <1>3, <2>1, <2>2, RoundGoesOn DEF OInv
  <2>5. Shapes'
    BY <1>2, <1>3, <2>1, <2>2, <2>4 DEF Shapes
  <2>6. ASSUME NEW d \in Clients, d # c PROVE Right(d)'
    BY <1>2, <2>1, <2>2, <2>6, RightStays DEF OInv, Untouched
  <2>7. Right(c)'
    <3>1. Underway(c)'
      <4>1. \A j \in Kinds \ open'[c] :
               child[c] \in {"ended", "killed"} /\ unread[c][j] = <<>>
        BY <1>6, <1>7, <1>9, <2>2, <2>3 DEF Right, Underway
      <4> QED
        BY <1>2, <1>6, <1>7, <2>1, <2>2, <4>1 DEF Right, Underway
    <3>2. StatusLast(c)' /\ Flows(c)'
      BY <1>2, <1>4, <1>6, <2>1, LastStays, FlowStays DEF Right
    <3> QED
      BY <1>8, <3>1, <3>2 DEF Right
  <2> QED
    BY <2>4, <2>5, <2>6, <2>7 DEF OKeeps
<1>10. CASE unread[c][k] # <<>>
  <2>1. PICK e : e = DataFrame(k, Head(unread[c][k]))
    OBVIOUS
  <2>2. /\ unread' = [unread EXCEPT ![c][k] = Tail(unread[c][k])]
        /\ conn' = IF at[c] = "gone" THEN conn
                   ELSE [conn EXCEPT ![c] = Append(@, e)]
        /\ UNCHANGED open
    BY <1>1, <1>10, <2>1 DEF Relay
  <2>3. /\ unread'[c] = [unread[c] EXCEPT ![k] = Tail(unread[c][k])]
        /\ \A d \in Clients : d # c => unread'[d] = unread[d] /\ conn'[d] = conn[d]
        /\ conn'[c] = IF at[c] = "gone" THEN conn[c] ELSE Append(conn[c], e)
    BY <1>4, <1>5, <2>2
  <2>4. Flows(c)' /\ e \in Frames
    BY <1>2, <1>3, <1>4, <1>6, <1>10, <2>1, <2>3, PieceRelayed DEF Right
  <2>5. /\ unread'[c][k] = Tail(unread[c][k])
        /\ \A j \in Kinds : j # k => unread'[c][j] = unread[c][j]
    BY <1>4, <1>5, <2>3
  <2>6. unread' \in [Clients -> [Kinds -> Seq(Chunks)]] /\ conn' \in [Clients -> Seq(Frames)]
    <3>1. unread[c][k] \in Seq(Chunks) /\ Tail(unread[c][k]) \in Seq(Chunks)
      BY <1>4, <1>5, <1>10
    <3>2. [unread[c] EXCEPT ![k] = Tail(unread[c][k])] \in [Kinds -> Seq(Chunks)]
      BY <1>4, <1>5, <3>1
    <3>3. Append(conn[c], e) \in Seq(Frames)
      BY <1>4, <1>5, <2>4
    <3>4. unread' \in [Clients -> [Kinds -> Seq(Chunks)]]
      BY <1>4, <1>5, <2>2, <3>2
    <3>5. conn' \in [Clients -> Seq(Frames)]
      BY <1>4, <1>5, <2>2, <3>3
    <3> QED
      BY <3>4, <3>5
  <2>7. Answered' /\ todo' \in Seq(PollAnswers)
    <3>1. \A d \in Clients, j \in Kinds :
             (d # Head(todo).of \/ j # Head(todo).kind)
                => /\ unread'[d][j] = unread[d][j]
                   /\ j \in open[d] => j \in open'[d]
      BY <1>1, <2>2, <2>3, <2>5
    <3> QED
      BY <1>1, <1>2, <1>3, <3>1, RoundGoesOn DEF OInv
  <2>8. Shapes'
    BY <1>2, <1>3, <2>2, <2>6, <2>7 DEF Shapes
  <2>9. ASSUME NEW d \in Clients, d # c PROVE Right(d)'
    BY <1>2, <2>2, <2>3, <2>9, RightStays DEF OInv, Untouched
  <2>10. Right(c)'
    <3>1. NoStatus(conn'[c])
      <4>1. e.kind # "exit"
        BY <1>4, <2>1 DEF DataFrame, Kinds
      <4>2. conn[c] \in Seq(Frames)
        BY <1>4, <1>5
      <4>3. CASE at[c] = "gone"
        BY <1>7, <2>3, <4>3
      <4>4. CASE at[c] # "gone"
        <5>1. conn'[c] = Append(conn[c], e)
          BY <2>3, <4>4
        <5> QED
          BY <1>7, <4>1, <4>2, <5>1 DEF NoStatus
      <4> QED
        BY <4>3, <4>4
    <3>2. Underway(c)'
      <4>1. \A j \in Kinds \ open[c] :
               child[c] \in {"ended", "killed"} /\ unread'[c][j] = <<>>
        BY <1>4, <1>6, <1>7, <2>5 DEF Right, Underway
      <4> QED
        BY <1>2, <1>6, <1>7, <2>2, <3>1, <4>1 DEF Right, Underway
    <3>3. StatusLast(c)'
      BY <1>2, <1>7, <3>1 DEF StatusLast, NoStatus
    <3> QED
      BY <1>8, <2>4, <3>2, <3>3 DEF Right
  <2> QED
    BY <2>7, <2>8, <2>9, <2>10 DEF OKeeps
<1> QED
  BY <1>9, <1>10

\* What is listed in order is listed once.
LEMMA InOrderOnce ==
    ASSUME NEW S, IsFiniteSet(S), NEW q, NEW w \in InOrder(q, S)
    PROVE  IsInjective(w)
<1>1. w \in SetToSeqs(S)
  BY DEF InOrder
<1> QED
  BY <1>1, ListsSet DEF Lists, IsInjective

\* The status of a build whose streams have both ended goes out after all its output;
\* that of a killed child goes to nobody.
LEMMA StatusClosesLine ==
    ASSUME Shapes, NEW c \in Clients, Right(c), c \in ToSet(builds), Finished(c),
           ~Raises(c),
           conn'[c] = IF at[c] # "gone" THEN Append(conn[c], ExitFrame(StatusOf(c)))
                      ELSE conn[c],
           UNCHANGED <<child, at, got, wrote, unread, passed>>
    PROVE  StatusLast(c)' /\ Flows(c)'
<1>1. /\ child[c] # "none" /\ at[c] \notin {"served", "failed"} /\ NoStatus(conn[c])
      /\ at[c] # "gone" => Emptied(c)
  <2>1. "out" \in Kinds \ open[c] /\ \A k \in Kinds : k \in Kinds \ open[c]
    BY DEF Finished, Kinds
  <2>2. at[c] # "gone" => child[c] # "killed"
    BY DEF Raises
  <2> QED
    BY <2>1, <2>2 DEF Right, Underway, Emptied
<1>2. conn[c] \in Seq(Frames)
  BY DEF Shapes
<1>3. (at[c] # "gone" => Emptied(c)') /\ at'[c] \notin {"served", "failed"}
  BY <1>1 DEF Emptied
<1>4. CASE at[c] = "gone"
  <2>1. StatusLast(c)'
    BY <1>1, <1>3, <1>4 DEF StatusLast, NoStatus
  <2>2. Flows(c)'
    BY <1>4, FlowStays DEF Right
  <2> QED
    BY <2>1, <2>2
<1>5. CASE at[c] # "gone"
  <2>1. PICK code \in {0, 1} : code = StatusOf(c)
    BY DEF StatusOf
  <2>2. PICK e : e = ExitFrame(code)
    OBVIOUS
  <2>3. e.code = code /\ e.kind = "exit" /\ (code = 0 <=> c \in passed)
    BY <2>1, <2>2 DEF ExitFrame, StatusOf
  <2>4. /\ conn'[c] = Append(conn[c], e) /\ Len(conn'[c]) = Len(conn[c]) + 1
        /\ DOMAIN conn'[c] = 1..Len(conn[c]) + 1 /\ DOMAIN conn[c] = 1..Len(conn[c])
        /\ Len(conn[c]) \in Nat
        /\ conn'[c][Len(conn[c]) + 1] = e
        /\ \A i \in 1..Len(conn[c]) : conn'[c][i] = conn[c][i]
    BY <1>2, <1>5, <2>1, <2>2
  <2>5. ASSUME NEW i \in DOMAIN conn'[c], conn'[c][i].kind = "exit"
        PROVE  i = Len(conn'[c]) /\ conn'[c][i] = e
    <3>1. i \in DOMAIN conn[c] \/ i = Len(conn[c]) + 1
      BY <2>4
    <3> QED
      BY <1>1, <2>4, <2>5, <3>1 DEF NoStatus
  <2>6. StatusLast(c)'
    BY <1>3, <1>5, <2>3, <2>5 DEF StatusLast
  <2>7. Flows(c)'
    BY <1>5, <2>2, <2>4, StatusSent DEF Right
  <2> QED
    BY <2>6, <2>7
<1> QED
  BY <1>4, <1>5

\* Who is told a status has a build that is over and a child that left one.
LEMMA ToldIsOver ==
    ASSUME builds \in Seq(Clients), NEW c \in Told
    PROVE  c \in ToSet(builds) /\ Finished(c) /\ ~Raises(c)
<1>1. PICK i \in DOMAIN builds :
        /\ c = builds[i] /\ Finished(builds[i])
        /\ \A h \in 1..i : ~Raises(builds[h])
  BY DEF Told
<1>2. i \in 1..i
  OBVIOUS
<1>3. ~Raises(c)
  BY <1>1, <1>2
<1> QED
  BY <1>1, <1>3 DEF ToSet

LEMMA EndRoundKeepsOutput == ASSUME DInv, OInv, EndRound PROVE OKeeps
<1>1. PICK ended : ended = {c \in ToSet(builds) : Finished(c)}
  OBVIOUS
<1>2. /\ UNCHANGED <<child, at, got, wrote, unread, passed>> /\ ~Accepting
      /\ todo = <<>>
      /\ conn' = [c \in Clients |->
                    IF c \in Told /\ at[c] # "gone"
                    THEN Append(conn[c], ExitFrame(StatusOf(c))) ELSE conn[c]]
  BY <1>1 DEF EndRound, Accepting, clientVars, childVars
<1>3. \/ Dies("signal")
      \/ /\ builds' \in InOrder(builds, ToSet(builds) \ ended)
         /\ open' = [c \in Clients |-> IF c \in ended THEN {} ELSE open[c]]
         /\ daemon' \in {"poll", "warming"} /\ UNCHANGED <<backlog, reading, todo>>
  BY <1>1, Zenon DEF EndRound
<1>4. Shapes /\ builds \in Seq(Clients)
  BY DEF OInv, DInv
<1>5. reading = None
  BY <1>2, <1>4 DEF Shapes
<1>6. ToSet(<<>>) = {}
  BY DEF ToSet
<1>7. /\ todo' = <<>> /\ reading' = None /\ ~Accepting'
      /\ backlog' \in {backlog, <<>>}
      /\ builds' \in Seq(Clients) /\ IsInjective(builds')
      /\ open' \in [Clients -> SUBSET Kinds]
      /\ \A c \in Clients : c \in ended => c \notin ToSet(builds') /\ open'[c] = {}
      /\ \A c \in Clients \ ended :
            \/ c \notin ToSet(builds') /\ open'[c] = {}
            \/ open'[c] = open[c] /\ (c \in ToSet(builds') <=> c \in ToSet(builds))
  <2>1. CASE Dies("signal")
    BY <1>2, <1>6, <2>1 DEF Dies, IsInjective, Accepting
  <2>2. CASE ~Dies("signal")
    <3>1. /\ builds' \in InOrder(builds, ToSet(builds) \ ended)
          /\ open' = [c \in Clients |-> IF c \in ended THEN {} ELSE open[c]]
          /\ daemon' \in {"poll", "warming"} /\ UNCHANGED <<backlog, reading, todo>>
      BY <1>3, <2>2
    <3>2. IsFiniteSet(ToSet(builds) \ ended) /\ ToSet(builds) \subseteq Clients
      BY <1>4, BuildsAreFinite, FS_Subset
    <3>3. /\ builds' \in Seq(ToSet(builds) \ ended)
          /\ ToSet(builds') = ToSet(builds) \ ended
      BY <3>1, <3>2, InOrderLists, Zenon
    <3>4. builds' \in Seq(Clients)
      BY <3>2, <3>3, OverMore
    <3>5. IsInjective(builds')
      BY <3>1, <3>2, InOrderOnce
    <3>6. open' \in [Clients -> SUBSET Kinds]
      BY <1>4, <3>1 DEF Shapes
    <3>7. \A c \in Clients : open'[c] = IF c \in ended THEN {} ELSE open[c]
      BY <3>1
    <3>8. todo' = <<>> /\ reading' = None /\ ~Accepting' /\ backlog' = backlog
      BY <1>2, <1>5, <3>1 DEF Accepting
    <3> QED
      BY <3>3, <3>4, <3>5, <3>6, <3>7, <3>8
  <2> QED
    BY <2>1, <2>2
<1>8. conn' \in [Clients -> Seq(Frames)]
  <2>1. ASSUME NEW c \in Clients
        PROVE  (IF c \in Told /\ at[c] # "gone"
                THEN Append(conn[c], ExitFrame(StatusOf(c))) ELSE conn[c]) \in Seq(Frames)
    <3>1. conn[c] \in Seq(Frames)
      BY <1>4 DEF Shapes
    <3>2. ExitFrame(StatusOf(c)) \in Frames
      BY DEF ExitFrame, StatusOf, Frames
    <3> QED
      BY <3>1, <3>2
  <2> QED
    BY <1>2, <2>1
<1>9. Shapes'
  <2>1. backlog' \in Seq(Clients) /\ IsInjective(backlog')
    <3>1. backlog \in Seq(Clients) /\ IsInjective(backlog)
      BY <1>4 DEF Shapes
    <3>2. <<>> \in Seq(Clients) /\ IsInjective(<<>>)
      BY DEF IsInjective
    <3>3. backlog' = backlog \/ backlog' = <<>>
      BY <1>7
    <3> QED
      BY <3>1, <3>2, <3>3
  <2> QED
    BY <1>2, <1>4, <1>7, <1>8, <2>1 DEF Shapes
<1>10. ASSUME NEW c \in Clients PROVE Right(c)'
  <2>1. Right(c)
    BY DEF OInv
  <2>2. c # reading' /\ (c \in ToSet(backlog') => c \in ToSet(backlog))
    BY <1>6, <1>7, DaemonAssumption
  <2>3. CASE c \in Told
    <3>1. c \in ToSet(builds) /\ Finished(c) /\ ~Raises(c) /\ c \in ended
      BY <1>1, <1>4, <2>3, ToldIsOver
    <3>2. child[c] # "none"
      BY <2>1, <3>1 DEF Right, Underway
    <3>3. at[c] \notin {"idle", "named"} /\ c \notin ToSet(backlog)
      BY <2>1, <3>2, ServedNotInTurn DEF Right
    <3>4. InTurn(c)'
      BY <1>2, <2>2, <3>3, TurnOver
    <3>5. Underway(c)'
      BY <1>7, <3>1, UnderwayOver
    <3>6. conn'[c] = IF at[c] # "gone" THEN Append(conn[c], ExitFrame(StatusOf(c)))
                     ELSE conn[c]
      BY <1>2, <2>3
    <3>7. StatusLast(c)' /\ Flows(c)'
      BY <1>2, <1>4, <2>1, <3>1, <3>6, StatusClosesLine
    <3> QED
      BY <3>4, <3>5, <3>7 DEF Right
  <2>4. CASE c \notin Told
    <3>1. conn'[c] = conn[c]
      BY <1>2, <2>4
    <3>2. InTurn(c)'
      BY <1>2, <2>1, <2>2, <3>1, TurnStays DEF Right
    <3>3. Underway(c)'
      <4>1. CASE c \notin ToSet(builds') /\ open'[c] = {}
        BY <4>1, UnderwayOver
      <4>2. CASE open'[c] = open[c] /\ (c \in ToSet(builds') <=> c \in ToSet(builds))
        BY <1>2, <2>1, <3>1, <4>2, UnderwayStays DEF Right
      <4> QED
        BY <1>7, <4>1, <4>2
    <3>4. StatusLast(c)' /\ Flows(c)'
      BY <1>2, <2>1, <3>1, LastStays, FlowStays DEF Right
    <3> QED
      BY <3>2, <3>3, <3>4 DEF Right
  <2> QED
    BY <2>3, <2>4
<1>11. Answered'
  BY <1>7 DEF Answered, IsInjective
<1> QED
  BY <1>9, <1>10, <1>11 DEF OKeeps

LEMMA AnalyseKeepsOutput == ASSUME OInv, Analyse PROVE OKeeps
<1>1. UNCHANGED outputVars /\ Analysing
  BY DEF Analyse, outputVars, clientVars, childVars
<1>2. CASE Dies("prelude")
  BY <1>1, <1>2, DyingKeepsOutput
<1>3. CASE ~Dies("prelude")
  <2>1. /\ UNCHANGED <<open, builds, backlog, todo, reading>>
        /\ daemon' = IF daemon = "refreshing" THEN "forking" ELSE "poll"
    BY <1>3 DEF Analyse
  <2>2. Accepting' <=> Accepting
    BY <1>1, <2>1 DEF Accepting, Analysing
  <2> QED
    BY <1>1, <2>1, <2>2, OutputIdles
<1> QED
  BY <1>2, <1>3

LEMMA WarmKeepsOutput == ASSUME OInv, WarmBegins \/ WarmParses PROVE OKeeps
<1>1. UNCHANGED outputVars /\ ~Accepting
  BY DEF WarmBegins, WarmParses, Accepting, outputVars, clientVars, childVars
<1>2. CASE \E why : Dies(why)
  BY <1>1, <1>2, DyingKeepsOutput
<1>3. CASE ~\E why : Dies(why)
  <2>1. UNCHANGED <<open, builds, backlog, todo, reading>> /\ ~Accepting'
    BY <1>3 DEF WarmBegins, WarmParses, Accepting
  <2> QED
    BY <1>1, <2>1, OutputIdles
<1> QED
  BY <1>2, <1>3

LEMMA ServerKeepsOutput == ASSUME DInv, EInv, OInv, Server PROVE OKeeps
<1>1. CASE Identify \/ Bind \/ Preanalyse \/ Admit
  <2>1. UNCHANGED <<outputVars, open, builds, backlog, todo, reading>>
    BY <1>1 DEF Identify, Bind, Preanalyse, Admit, outputVars, clientVars, childVars
  <2>2. Accepting' <=> Accepting
    BY <1>1 DEF Identify, Bind, Preanalyse, Admit, Accepting
  <2> QED
    BY <2>1, <2>2, OutputIdles
<1>2. CASE RequestUnread
  BY <1>2, DyingKeepsOutput DEF RequestUnread, outputVars, clientVars, childVars
<1>3. CASE Poll
  BY <1>3, PollKeepsOutput DEF DInv
<1> QED
  BY <1>1, <1>2, <1>3, AnalyseKeepsOutput, WarmKeepsOutput, AcceptKeepsOutput,
     RefuseKeepsOutput, ForkKeepsOutput, RelayKeepsOutput, EndRoundKeepsOutput
  DEF Server

-----------------------------------------------------------------------------
(* The steps of the others *)

\* A step that changes one client, and nothing of the round but what it can read.
LEMMA OneClient ==
    ASSUME OInv, NEW c \in Clients, Shapes', Right(c)',
           UNCHANGED <<open, builds, todo, reading>>,
           \A d \in Clients \ {c} :
              /\ UNCHANGED <<child[d], conn[d], at[d], got[d], wrote[d], unread[d]>>
              /\ d \in passed' <=> d \in passed
              /\ d \in ToSet(backlog') => d \in ToSet(backlog),
           backlog # <<>> => backlog' # <<>>,
           \A k \in Kinds : Readable(c, k) => Readable(c, k)'
    PROVE  OKeeps
<1>1. ASSUME NEW d \in Clients, d # c PROVE Right(d)'
  BY <1>1, RightStays DEF OInv, Untouched
<1>2. ASSUME NEW d \in Clients, NEW k \in open[d], Readable(d, k)
      PROVE  k \in open'[d] /\ Readable(d, k)'
  <2>1. k \in Kinds
    BY DEF OInv, Shapes
  <2>2. CASE d = c
    BY <1>2, <2>1, <2>2
  <2>3. CASE d # c
    BY <1>2, <2>3 DEF Readable
  <2> QED
    BY <2>2, <2>3
<1>3. Answered'
  BY <1>2, AnsweredStays DEF OInv
<1> QED
  BY <1>1, <1>3 DEF OKeeps

\* The build of c writes x on its stream k.
Writes(c, k, x) ==
    /\ k = Output[c][wrote[c] + 1] /\ x = Chunk(c, wrote[c] + 1)
    /\ wrote[c] < Len(Output[c]) /\ wrote'[c] = wrote[c] + 1
    /\ unread'[c] = [unread[c] EXCEPT ![k] = Append(unread[c][k], x)]
    /\ UNCHANGED <<at[c], conn[c], got[c]>>

\* A piece is written into its pipe.
LEMMA PieceWritten ==
    ASSUME Shapes, NEW c \in Clients, Flows(c), NEW k, NEW x, Writes(c, k, x)
    PROVE  /\ Flows(c)'
           /\ unread'[c] \in [Kinds -> Seq(Chunks)]
           /\ \A j \in Kinds : unread[c][j] # <<>> => unread'[c][j] # <<>>
<1> USE DEF Writes
<1>1. PICK n \in Nat : n = wrote[c]
  BY DEF Shapes
<1>2. k = Output[c][n + 1] /\ x = Chunk(c, n + 1)
  BY <1>1
<1>3. /\ unread[c] \in [Kinds -> Seq(Chunks)] /\ got[c] \in [Kinds -> Seq(Chunks)]
  BY DEF Shapes
<1>4. n + 1 \in 1..Len(Output[c])
  BY <1>1, OutputOf
<1>5. k \in Kinds /\ x \in Pieces(c) /\ x \in Chunks
  BY <1>2, <1>4, OutputOf
<1>6. wrote'[c] = n + 1
  BY <1>1
<1>7. /\ unread'[c][k] = Append(unread[c][k], x)
      /\ \A j \in Kinds : j # k => unread'[c][j] = unread[c][j]
      /\ unread'[c] \in [Kinds -> Seq(Chunks)]
  <2>1. unread[c][k] \in Seq(Chunks)
    BY <1>3, <1>5
  <2>2. Append(unread[c][k], x) \in Seq(Chunks)
    BY <1>5, <2>1
  <2> QED
    BY <1>3, <1>5, <2>2
<1>8. \A j \in Kinds : Stream(c, j, n + 1) =
         IF j = k THEN Append(Stream(c, j, n), x) ELSE Stream(c, j, n)
  BY <1>1, <1>2, StreamMore
<1>9. \A j \in Kinds : Stream(c, j, n) \in Seq(Chunks)
  <2>1. \A j \in Kinds : Stream(c, j, n) \in Seq(Pieces(c))
    BY <1>1, StreamOf DEF Flows
  <2> QED
    BY <2>1, OutputOf, OverMore
<1>10. ASSUME NEW j \in Kinds
       PROVE  /\ ToSet(unread'[c][j]) \subseteq Pieces(c)
              /\ IF at[c] = "gone" THEN Begun(got[c][j], Stream(c, j, n + 1))
                 ELSE \E h : Line(conn[c], j, Stream(c, j, n + 1), got[c][j],
                                  unread'[c][j], h)
  <2>1. /\ ToSet(unread[c][j]) \subseteq Pieces(c)
        /\ IF at[c] = "gone" THEN Begun(got[c][j], Stream(c, j, n))
           ELSE \E h : Line(conn[c], j, Stream(c, j, n), got[c][j], unread[c][j], h)
    BY <1>1 DEF Flows
  <2>2. CASE j # k
    BY <1>7, <1>8, <2>1, <2>2
  <2>3. CASE j = k
    <3>1. PICK S \in Seq(Chunks) : S = Stream(c, j, n)
      BY <1>9
    <3>2. Stream(c, j, n + 1) = Append(S, x)
      BY <1>8, <2>3, <3>1
    <3>3. got[c][j] \in Seq(Chunks) /\ unread[c][j] \in Seq(Chunks)
      BY <1>3
    <3>4. ToSet(unread'[c][j]) \subseteq Pieces(c)
      <4>1. unread[c][j] \in Seq(ToSet(unread[c][j]))
        BY <3>3, OverItself
      <4>2. ToSet(Append(unread[c][j], x)) \subseteq ToSet(unread[c][j]) \cup {x}
        BY <4>1, OneMore
      <4> QED
        BY <1>5, <1>7, <2>1, <2>3, <4>2
    <3>5. Begun(got[c][j], S) => Begun(got[c][j], Append(S, x))
      BY <1>5, <3>3 DEF Begun
    <3>6. ASSUME NEW h, Line(conn[c], j, S, got[c][j], unread[c][j], h)
          PROVE  Line(conn[c], j, Append(S, x), got[c][j], Append(unread[c][j], x), h)
      BY <1>5, <3>3, <3>6, LineWritten
    <3>7. unread'[c][j] = Append(unread[c][j], x)
      BY <1>7, <2>3
    <3>8. CASE at[c] = "gone"
      <4>1. Begun(got[c][j], S)
        BY <2>1, <3>1, <3>8
      <4> QED
        BY <3>2, <3>4, <3>5, <3>8, <4>1
    <3>9. CASE at[c] # "gone"
      <4>1. PICK h : Line(conn[c], j, S, got[c][j], unread[c][j], h)
        BY <2>1, <3>1, <3>9
      <4>2. Line(conn[c], j, Append(S, x), got[c][j], Append(unread[c][j], x), h)
        BY <3>6, <4>1
      <4>3. Line(conn[c], j, Stream(c, j, n + 1), got[c][j], unread'[c][j], h)
        BY <3>2, <3>7, <4>2
      <4> QED
        BY <3>4, <3>9, <4>3, Zenon
    <3> QED
      BY <3>8, <3>9
  <2> QED
    BY <2>2, <2>3
<1>11. Flows(c)'
  <2>1. wrote'[c] <= Len(Output[c])
    BY <1>4, <1>6
  <2> QED
    BY <1>6, <1>10, <2>1 DEF Flows
<1>12. \A j \in Kinds : unread[c][j] # <<>> => unread'[c][j] # <<>>
  <2>1. unread[c][k] \in Seq(Chunks)
    BY <1>3, <1>5
  <2>2. \A u \in Seq(Chunks) : Append(u, x) # <<>>
    OBVIOUS
  <2> QED
    BY <1>7, <2>1, <2>2
<1> QED
  BY <1>7, <1>11, <1>12

LEMMA ChildKeepsOutput ==
    ASSUME DInv, OInv, NEW c \in Clients, Child(c) \/ ChildKilled(c) PROVE OKeeps
<1>1. /\ UNCHANGED <<conn, at, got, open, builds, backlog, todo, reading, daemon>>
      /\ child[c] = "runs"
  BY DEF Child, ChildWrites, ChildEnds, ChildKilled, serverVars, clientVars
<1>2. Shapes /\ Right(c) /\ child \in [Clients -> ChildStates]
  BY DEF OInv, DInv
<1>3. /\ at[c] \notin {"idle", "named"} /\ c \notin ToSet(backlog) /\ c # reading
      /\ at[c] \notin {"served", "failed"} /\ NoStatus(conn[c])
      /\ c \in ToSet(builds) => \A k \in Kinds : k \in open[c]
  <2>1. ~Emptied(c)
    BY <1>1 DEF Emptied
  <2>2. at[c] \notin {"served", "failed"} /\ NoStatus(conn[c])
    BY <1>1, <1>2, <2>1 DEF Right, StatusLast, NoStatus
  <2>3. c \in ToSet(builds) => \A k \in Kinds : k \in open[c]
    BY <1>1, <1>2 DEF Right, Underway
  <2> QED
    BY <1>1, <1>2, <2>2, <2>3, ServedNotInTurn DEF Right
<1>4. InTurn(c)'
  BY <1>1, <1>3, TurnOver
<1>5. StatusLast(c)'
  BY <1>1, <1>3 DEF StatusLast, NoStatus
<1>6. CASE ChildWrites(c) /\ open[c] # {}
  <2>1. /\ wrote[c] < Len(Output[c]) /\ wrote' = [wrote EXCEPT ![c] = @ + 1]
        /\ unread' = [unread EXCEPT ![c][Output[c][wrote'[c]]] =
                        Append(@, Chunk(c, wrote'[c]))]
        /\ UNCHANGED <<child, passed>>
    BY <1>6 DEF ChildWrites
  <2>2. PICK k, x : k = Output[c][wrote[c] + 1] /\ x = Chunk(c, wrote[c] + 1)
    OBVIOUS
  <2>3. /\ wrote'[c] = wrote[c] + 1 /\ wrote' \in [Clients -> Nat]
        /\ \A d \in Clients \ {c} : wrote'[d] = wrote[d]
    BY <1>2, <2>1 DEF Shapes
  <2>4. unread' = [unread EXCEPT ![c][k] = Append(unread[c][k], x)]
    BY <2>1, <2>2, <2>3
  <2>5. unread \in [Clients -> [Kinds -> Seq(Chunks)]]
    BY <1>2 DEF Shapes
  <2>6. /\ unread'[c] = [unread[c] EXCEPT ![k] = Append(unread[c][k], x)]
        /\ \A d \in Clients \ {c} : unread'[d] = unread[d]
    BY <2>4, <2>5
  <2>7. /\ Flows(c)'
        /\ unread'[c] \in [Kinds -> Seq(Chunks)]
        /\ \A j \in Kinds : unread[c][j] # <<>> => unread'[c][j] # <<>>
    <3>1. Writes(c, k, x)
      BY <1>1, <2>1, <2>2, <2>3, <2>6 DEF Writes
    <3>2. Flows(c)
      BY <1>2 DEF Right
    <3> QED
      BY <1>2, <3>1, <3>2, PieceWritten, Zenon
  <2>8. unread' \in [Clients -> [Kinds -> Seq(Chunks)]]
    BY <2>4, <2>5, <2>6, <2>7
  <2>9. Shapes'
    BY <1>1, <1>2, <2>1, <2>3, <2>8 DEF Shapes, Accepting
  <2>10. Underway(c)'
    <3>1. open[c] # {} => c \in ToSet(builds)
      BY <1>2 DEF Right, Underway
    <3>2. \A j \in Kinds \ open[c] : FALSE
      BY <1>3, <1>6, <3>1
    <3> QED
      BY <1>1, <1>3, <2>1, <3>1, <3>2 DEF Underway
  <2>11. Right(c)'
    BY <1>4, <1>5, <2>7, <2>10 DEF Right
  <2>12. \A j \in Kinds : Readable(c, j) => Readable(c, j)'
    BY <2>1, <2>7 DEF Readable
  <2> QED
    BY <1>1, <2>1, <2>3, <2>6, <2>9, <2>11, <2>12, OneClient
<1>7. CASE ~(ChildWrites(c) /\ open[c] # {})
  <2>0. PICK how \in {"ended", "killed"} :
          /\ child' = [child EXCEPT ![c] = how] /\ UNCHANGED <<unread, wrote>>
          /\ passed' \in {passed, passed \cup {c}}
          /\ how = "ended" => open[c] = {} \/ wrote[c] = Len(Output[c])
    BY <1>7 DEF Child, ChildWrites, ChildEnds, ChildKilled
  <2>2. child'[c] = how /\ \A d \in Clients \ {c} : child'[d] = child[d]
    BY <1>2, <2>0
  <2>3. Shapes'
    BY <1>1, <1>2, <2>0 DEF Shapes, Accepting
  <2>4. Underway(c)'
    <3>1. open[c] # {} => c \in ToSet(builds)
      BY <1>2 DEF Right, Underway
    <3>2. CASE c \notin ToSet(builds)
      BY <1>1, <3>1, <3>2 DEF Underway
    <3>3. CASE c \in ToSet(builds)
      <4>1. "out" \in open[c] /\ \A k \in Kinds \ open[c] : FALSE
        BY <1>3, <3>3 DEF Kinds
      <4>2. how = "ended" => wrote[c] = Len(Output[c])
        BY <2>0, <4>1
      <4> QED
        BY <1>1, <1>3, <2>0, <2>2, <3>3, <4>1, <4>2 DEF Underway
    <3> QED
      BY <3>2, <3>3
  <2>5. Flows(c)'
    BY <1>1, <1>2, <2>0, FlowStays DEF Right
  <2>6. Right(c)'
    BY <1>4, <1>5, <2>4, <2>5 DEF Right
  <2>7. \A k \in Kinds : Readable(c, k) => Readable(c, k)'
    BY <2>2 DEF Readable
  <2>8. \A d \in Clients \ {c} : d \in passed' <=> d \in passed
    BY <2>0
  <2> QED
    BY <1>1, <2>0, <2>2, <2>3, <2>6, <2>7, <2>8, OneClient
<1> QED
  BY <1>6, <1>7

\* A client that has not been answered goes on, with what it has.
LEMMA TurnMoves ==
    ASSUME NEW c \in Clients, InTurn(c), UNCHANGED <<child[c], backlog, reading>>,
           at'[c] \notin {"idle", "named", "served", "failed"},
           conn'[c] = conn[c] \/ conn'[c] = <<>>
    PROVE  InTurn(c)'
BY DEF InTurn, Before

LEMMA MovesOn ==
    ASSUME NEW c \in Clients, Right(c),
           at[c] # "gone", at'[c] \notin {"served", "failed", "gone"},
           UNCHANGED <<child[c], conn[c], got[c], wrote[c], unread[c], open[c],
                       builds, passed>>
    PROVE  Underway(c)' /\ StatusLast(c)' /\ Flows(c)'
<1>1. Underway(c)'
  BY DEF Right, Underway
<1>2. StatusLast(c)'
  BY DEF Right, StatusLast, Emptied
<1>3. Flows(c)'
  BY FlowStays DEF Right
<1> QED
  BY <1>1, <1>2, <1>3

\* What a step of c alone leaves of the others.
LEMMA OthersLeft ==
    ASSUME EInv, OInv, NEW c \in Clients, NEW place, Becomes(c, place)
    PROVE  at'[c] = place /\ \A d \in Clients \ {c} : at'[d] = at[d]
BY DEF EInv, Becomes

LEMMA LookKeepsOutput == ASSUME EInv, OInv, NEW c \in Clients, Look(c) PROVE OKeeps
<1>1. /\ UNCHANGED <<conn, got, child, wrote, unread, passed, open, builds, backlog, todo,
                     reading, daemon>>
      /\ at[c] = "idle"
  BY DEF Look, serverVars, childVars
<1>2. at'[c] \in {"named", "built"} /\ \A d \in Clients \ {c} : at'[d] = at[d]
  BY OthersLeft DEF Look
<1>3. Shapes /\ Right(c)
  BY DEF OInv
<1>4. Shapes'
  BY <1>1, <1>3 DEF Shapes, Accepting
<1>5. InTurn(c)'
  BY <1>1, <1>2, <1>3 DEF Right, InTurn, Before
<1>6. Right(c)'
  BY <1>1, <1>2, <1>3, <1>5, MovesOn DEF Right
<1>7. \A k \in Kinds : Readable(c, k) => Readable(c, k)'
  BY <1>1 DEF Readable
<1> QED
  BY <1>1, <1>2, <1>4, <1>6, <1>7, OneClient

LEMMA ConnectKeepsOutput == ASSUME EInv, OInv, NEW c \in Clients, Connect(c) PROVE OKeeps
<1>1. /\ UNCHANGED <<conn, got, child, wrote, unread, passed, open, builds, todo,
                     reading, daemon>>
      /\ at[c] = "named" /\ (backlog' = backlog \/ backlog' = Append(backlog, c))
  BY DEF Connect, childVars
<1>2. /\ at'[c] \in {"connected", "unreachable", "built"}
      /\ \A d \in Clients \ {c} : at'[d] = at[d]
  BY OthersLeft DEF Connect
<1>3. Shapes /\ Right(c)
  BY DEF OInv
<1>4. Before(c) /\ c \notin ToSet(backlog) /\ c # reading
  BY <1>1, <1>3 DEF Right, InTurn
<1>5. /\ backlog' \in Seq(Clients) /\ IsInjective(backlog')
      /\ ToSet(backlog') \subseteq ToSet(backlog) \cup {c}
      /\ backlog # <<>> => backlog' # <<>>
  <2>1. backlog \in Seq(Clients) /\ IsInjective(backlog)
    BY <1>3 DEF Shapes
  <2>2. CASE backlog' = backlog
    BY <2>1, <2>2
  <2>3. CASE backlog' = Append(backlog, c)
    <3>1. /\ Len(backlog) \in Nat /\ DOMAIN backlog = 1..Len(backlog)
          /\ DOMAIN backlog' = 1..Len(backlog) + 1 /\ backlog' \in Seq(Clients)
          /\ backlog'[Len(backlog) + 1] = c
          /\ \A i \in 1..Len(backlog) : backlog'[i] = backlog[i]
      BY <2>1, <2>3
    <3>2. \A i \in 1..Len(backlog) : backlog[i] # c
      BY <1>4, <3>1 DEF ToSet
    <3>3. IsInjective(backlog')
      BY <2>1, <3>1, <3>2 DEF IsInjective
    <3>4. ToSet(backlog') \subseteq ToSet(backlog) \cup {c}
      BY <3>1 DEF ToSet
    <3>5. backlog' # <<>>
      BY <3>1
    <3> QED
      BY <3>1, <3>3, <3>4, <3>5
  <2> QED
    BY <1>1, <2>2, <2>3
<1>6. Shapes'
  BY <1>1, <1>3, <1>5 DEF Shapes, Accepting
<1>7. InTurn(c)'
  BY <1>1, <1>2, <1>4 DEF InTurn, Before
<1>8. Right(c)'
  BY <1>1, <1>2, <1>3, <1>7, MovesOn DEF Right
<1>9. \A k \in Kinds : Readable(c, k) => Readable(c, k)'
  BY <1>1 DEF Readable
<1> QED
  BY <1>1, <1>2, <1>5, <1>6, <1>8, <1>9, OneClient

LEMMA LeavesKeepsOutput ==
    ASSUME EInv, OInv, NEW c \in Clients, Send(c) \/ LosesDaemon(c) PROVE OKeeps
<1>1. /\ UNCHANGED <<conn, got, child, wrote, unread, passed, open, builds, backlog, todo,
                     reading, daemon>>
      /\ at[c] \in {"connected", "waiting"}
  BY DEF Send, LosesDaemon, serverVars, childVars
<1>2. /\ at'[c] \in {"nothing", "waiting", "aborted"}
      /\ \A d \in Clients \ {c} : at'[d] = at[d]
  BY OthersLeft DEF Send, LosesDaemon
<1>3. Shapes /\ Right(c)
  BY DEF OInv
<1>4. Shapes'
  BY <1>1, <1>3 DEF Shapes, Accepting
<1>5. InTurn(c)'
  BY <1>1, <1>2, <1>3, TurnMoves DEF Right
<1>6. Right(c)'
  BY <1>1, <1>2, <1>3, <1>5, MovesOn DEF Right
<1>7. \A k \in Kinds : Readable(c, k) => Readable(c, k)'
  BY <1>1 DEF Readable
<1> QED
  BY <1>1, <1>2, <1>4, <1>6, <1>7, OneClient

LEMMA HangUpKeepsOutput == ASSUME EInv, OInv, NEW c \in Clients, HangUp(c) PROVE OKeeps
<1>1. /\ UNCHANGED <<got, child, wrote, unread, passed, open, builds, backlog, todo,
                     reading, daemon>>
      /\ at[c] \in {"connected", "waiting"} /\ conn' = [conn EXCEPT ![c] = <<>>]
  BY DEF HangUp, serverVars, childVars
<1>2. at'[c] = "gone" /\ \A d \in Clients \ {c} : at'[d] = at[d]
  BY OthersLeft DEF HangUp
<1>3. Shapes /\ Right(c) /\ conn \in [Clients -> Seq(Frames)]
  BY DEF OInv, Shapes
<1>4. /\ conn'[c] = <<>> /\ \A d \in Clients \ {c} : conn'[d] = conn[d]
      /\ conn' \in [Clients -> Seq(Frames)]
  BY <1>1, <1>3
<1>5. Shapes'
  BY <1>1, <1>3, <1>4 DEF Shapes, Accepting
<1>6. InTurn(c)'
  BY <1>1, <1>2, <1>3, <1>4, TurnMoves DEF Right
<1>7. Underway(c)' /\ StatusLast(c)'
  BY <1>1, <1>2, <1>3, <1>4 DEF Right, Underway, StatusLast, NoStatus
<1>8. Flows(c)'
  <2>1. wrote[c] \in Nat /\ wrote[c] <= Len(Output[c])
    BY <1>3 DEF Right, Flows, Shapes
  <2>2. ASSUME NEW k \in Kinds
        PROVE  Begun(got[c][k], Stream(c, k, wrote[c])) /\ ToSet(unread[c][k]) \subseteq Pieces(c)
    <3>1. got[c][k] \in Seq(Chunks) /\ unread[c][k] \in Seq(Chunks)
      BY <1>3 DEF Shapes
    <3>2. Stream(c, k, wrote[c]) \in Seq(Chunks)
      BY <2>1, StreamOf, OutputOf, OverMore
    <3>3. PICK h : Line(conn[c], k, Stream(c, k, wrote[c]), got[c][k], unread[c][k], h)
      BY <1>1, <1>3 DEF Right, Flows
    <3>4. Begun(got[c][k], Stream(c, k, wrote[c]))
      BY <3>1, <3>2, <3>3, LineBegun, Zenon
    <3> QED
      BY <1>3, <3>4 DEF Right, Flows
  <2> QED
    BY <1>1, <1>2, <2>1, <2>2 DEF Flows
<1>9. Right(c)'
  BY <1>6, <1>7, <1>8 DEF Right
<1>10. \A k \in Kinds : Readable(c, k) => Readable(c, k)'
  BY <1>1 DEF Readable
<1> QED
  BY <1>1, <1>2, <1>4, <1>5, <1>9, <1>10, OneClient

\* c takes the frame f.
Reads(c, f) ==
    /\ conn[c] # <<>> /\ f = Head(conn[c]) /\ conn'[c] = Tail(conn[c])
    /\ at[c] # "gone" /\ at'[c] # "gone" /\ UNCHANGED <<wrote[c], unread[c]>>
    /\ got'[c] = IF f.kind \in Kinds
                 THEN [got[c] EXCEPT ![f.kind] = Append(got[c][f.kind], f.body)]
                 ELSE got[c]

LEMMA FrameRead ==
    ASSUME Shapes, NEW c \in Clients, Flows(c), NEW f, Reads(c, f)
    PROVE  Flows(c)' /\ got'[c] \in [Kinds -> Seq(Chunks)]
<1>1. PICK q \in Seq(Frames) : q = conn[c]
  BY DEF Shapes
<1>2. PICK g \in [Kinds -> Seq(Chunks)] : g = got[c]
  BY DEF Shapes
<1>3. PICK u \in [Kinds -> Seq(Chunks)] : u = unread[c]
  BY DEF Shapes
<1>4. PICK n \in Nat : n = wrote[c]
  BY DEF Shapes
<1>5. n <= Len(Output[c])
  BY <1>4 DEF Flows
<1>6. \A k \in Kinds : Stream(c, k, n) \in Seq(Chunks)
  BY <1>5, StreamOf, OutputOf, OverMore
<1>7. /\ q # <<>> /\ f = Head(q) /\ conn'[c] = Tail(q) /\ wrote'[c] = n /\ unread'[c] = u
      /\ at'[c] # "gone"
      /\ got'[c] = IF f.kind \in Kinds
                   THEN [g EXCEPT ![f.kind] = Append(g[f.kind], f.body)] ELSE g
  BY <1>1, <1>2, <1>3, <1>4 DEF Reads
<1>8. \A k \in Kinds : /\ ToSet(u[k]) \subseteq Pieces(c)
                       /\ \E h : Line(q, k, Stream(c, k, n), g[k], u[k], h)
  BY <1>1, <1>2, <1>3, <1>4 DEF Flows, Reads
<1>9. ASSUME f.kind \in Kinds PROVE f.body \in Chunks
  <2>1. PICK k \in Kinds : k = f.kind
    BY <1>9
  <2>2. PICK h : Line(q, k, Stream(c, k, n), g[k], u[k], h)
    BY <1>8
  <2>3. Stream(c, k, n) \in Seq(Chunks) /\ g[k] \in Seq(Chunks) /\ u[k] \in Seq(Chunks)
    BY <1>6
  <2>4. Head(q).kind = k
    BY <1>7, <2>1
  <2>5. Head(q).body \in Chunks
    BY <1>7, <2>2, <2>3, <2>4, LineTaken, Zenon
  <2> QED
    BY <1>7, <2>5
<1>10. /\ got'[c] \in [Kinds -> Seq(Chunks)]
       /\ \A k \in Kinds : got'[c][k] = IF k = f.kind THEN Append(g[k], f.body) ELSE g[k]
  <2>1. CASE f.kind \in Kinds
    <3>1. Append(g[f.kind], f.body) \in Seq(Chunks)
      BY <1>9, <2>1
    <3> QED
      BY <1>7, <2>1, <3>1
  <2>2. CASE f.kind \notin Kinds
    BY <1>7, <2>2
  <2> QED
    BY <2>1, <2>2
<1>11. ASSUME NEW k \in Kinds
       PROVE  \E h : Line(Tail(q), k, Stream(c, k, n), got'[c][k], u[k], h)
  <2>1. PICK h : Line(q, k, Stream(c, k, n), g[k], u[k], h)
    BY <1>8
  <2>2. Stream(c, k, n) \in Seq(Chunks) /\ g[k] \in Seq(Chunks) /\ u[k] \in Seq(Chunks)
    BY <1>6
  <2>3. CASE k = f.kind
    <3>1. Head(q).kind = k
      BY <1>7, <2>3
    <3>2. \E l : Line(Tail(q), k, Stream(c, k, n), Append(g[k], Head(q).body), u[k], l)
      BY <1>7, <2>1, <2>2, <3>1, LineTaken, Zenon
    <3> QED
      BY <1>7, <1>10, <2>3, <3>2
  <2>4. CASE k # f.kind
    <3>1. Head(q).kind # k
      BY <1>7, <2>4
    <3>2. \E l : Line(Tail(q), k, Stream(c, k, n), g[k], u[k], l)
      BY <1>7, <2>1, <3>1, LineSkipped, Zenon
    <3> QED
      BY <1>10, <2>4, <3>2
  <2> QED
    BY <2>3, <2>4
<1>12. Flows(c)'
  BY <1>4, <1>5, <1>7, <1>8, <1>11 DEF Flows
<1> QED
  BY <1>10, <1>12

LEMMA ReceiveKeepsOutput == ASSUME EInv, OInv, NEW c \in Clients, Receive(c) PROVE OKeeps
<1>1. PICK f : f = Head(conn[c])
  OBVIOUS
<1>2. /\ UNCHANGED <<child, wrote, unread, passed, open, builds, backlog, todo,
                     reading, daemon>>
      /\ at[c] = "waiting" /\ conn[c] # <<>>
      /\ conn' = [conn EXCEPT ![c] = Tail(conn[c])]
      /\ IF f.kind = "exit"
         THEN Becomes(c, IF f.code = 0 THEN "served" ELSE "failed") /\ UNCHANGED got
         ELSE got' = [got EXCEPT ![c][f.kind] = Append(got[c][f.kind], f.body)]
              /\ UNCHANGED at
  BY <1>1 DEF Receive, serverVars, childVars
<1>3. Shapes /\ Right(c) /\ conn \in [Clients -> Seq(Frames)]
      /\ got \in [Clients -> [Kinds -> Seq(Chunks)]]
  BY DEF OInv, Shapes
<1>4. /\ at'[c] = IF f.kind = "exit" THEN IF f.code = 0 THEN "served" ELSE "failed"
                  ELSE "waiting"
      /\ \A d \in Clients \ {c} : at'[d] = at[d]
  BY <1>2, OthersLeft
<1>5. PICK q \in Seq(Frames) : q = conn[c]
  BY <1>3
<1>6. /\ Len(q) \in Nat \ {0} /\ DOMAIN q = 1..Len(q) /\ f = q[1]
      /\ Tail(q) \in Seq(Frames) /\ Len(Tail(q)) = Len(q) - 1
      /\ DOMAIN Tail(q) = 1..Len(q) - 1 /\ \A i \in 1..Len(q) - 1 : Tail(q)[i] = q[i + 1]
  BY <1>1, <1>2, <1>5
<1>7. f.kind \in Kinds <=> f.kind # "exit"
  <2>1. f \in Frames
    BY <1>5, <1>6
  <2> QED
    BY <2>1 DEF Frames, Kinds
<1>8. /\ conn'[c] = Tail(q) /\ \A d \in Clients \ {c} : conn'[d] = conn[d]
      /\ conn' \in [Clients -> Seq(Frames)]
  BY <1>2, <1>3, <1>5, <1>6
<1>9. /\ got'[c] = IF f.kind \in Kinds
                   THEN [got[c] EXCEPT ![f.kind] = Append(got[c][f.kind], f.body)]
                   ELSE got[c]
      /\ \A d \in Clients \ {c} : got'[d] = got[d]
      /\ got' = [got EXCEPT ![c] = got'[c]]
  BY <1>2, <1>3, <1>7
<1>10. Reads(c, f)
  BY <1>1, <1>2, <1>4, <1>5, <1>8, <1>9 DEF Reads
<1>11. Flows(c)' /\ got'[c] \in [Kinds -> Seq(Chunks)]
  BY <1>3, <1>10, FrameRead, Zenon DEF Right
<1>12. Shapes'
  <2>1. got' \in [Clients -> [Kinds -> Seq(Chunks)]]
    BY <1>3, <1>9, <1>11
  <2> QED
    BY <1>2, <1>3, <1>8, <2>1 DEF Shapes, Accepting
<1>13. InTurn(c)'
  <2>1. at[c] \notin {"idle", "named"} /\ c \notin ToSet(backlog) /\ c # reading
    BY <1>2, <1>3, ServedNotInTurn DEF Right
  <2> QED
    BY <1>2, <1>4, <2>1, TurnOver
<1>14. \A i \in DOMAIN q :
          q[i].kind = "exit" =>
            /\ i = Len(q)
            /\ child[c] # "none" => Emptied(c) /\ (q[i].code = 0 <=> c \in passed)
  BY <1>3, <1>5 DEF Right, StatusLast
<1>15. Emptied(c) => Emptied(c)'
  BY <1>2 DEF Emptied
<1>16. Underway(c)' /\ StatusLast(c)'
  <2>1. CASE f.kind = "exit"
    <3>1. Len(q) = 1 /\ Tail(q) = <<>>
      BY <1>6, <1>14, <2>1
    <3>2. child[c] # "none" => Emptied(c) /\ (f.code = 0 <=> c \in passed)
      BY <1>6, <1>14, <2>1
    <3>3. c \notin ToSet(builds)
      <4>1. 1 \in DOMAIN q /\ q[1].kind = "exit"
        BY <1>6, <2>1
      <4>2. ~NoStatus(conn[c])
        BY <1>5, <4>1 DEF NoStatus
      <4> QED
        BY <1>3, <4>2 DEF Right, Underway
    <3>4. Underway(c)'
      BY <1>2, <1>3, <3>3 DEF Right, Underway
    <3>5. /\ conn'[c] = <<>> /\ UNCHANGED <<child, passed>>
          /\ at'[c] = "served" <=> f.code = 0
      BY <1>2, <1>4, <1>8, <2>1, <3>1
    <3>6. child'[c] # "none" => Emptied(c)' /\ (at'[c] = "served" <=> c \in passed')
      BY <1>15, <3>2, <3>5
    <3>7. \A i \in DOMAIN conn'[c] : FALSE
      BY <3>5
    <3>8. StatusLast(c)'
      BY <3>5, <3>6, <3>7 DEF StatusLast
    <3> QED
      BY <3>4, <3>8
  <2>2. CASE f.kind # "exit"
    <3>1. at'[c] = "waiting"
      BY <1>4, <2>2
    <3>2. \A i \in DOMAIN Tail(q) : i + 1 \in DOMAIN q /\ Tail(q)[i] = q[i + 1]
      BY <1>6
    <3>3. NoStatus(q) => NoStatus(Tail(q))
      BY <3>2 DEF NoStatus
    <3>4. Underway(c)'
      BY <1>2, <1>3, <1>5, <1>8, <3>1, <3>3 DEF Right, Underway
    <3>5. ASSUME NEW i \in DOMAIN Tail(q), Tail(q)[i].kind = "exit"
          PROVE  /\ i = Len(Tail(q))
                 /\ child[c] # "none"
                      => Emptied(c) /\ (Tail(q)[i].code = 0 <=> c \in passed)
      <4>1. i + 1 = Len(q)
        BY <1>14, <3>2, <3>5
      <4>2. i = Len(Tail(q))
        BY <1>6, <4>1
      <4> QED
        BY <1>14, <3>2, <3>5, <4>2
    <3>6. StatusLast(c)'
      BY <1>2, <1>8, <1>15, <3>1, <3>5 DEF StatusLast
    <3> QED
      BY <3>4, <3>6
  <2> QED
    BY <2>1, <2>2
<1>17. Right(c)'
  BY <1>11, <1>13, <1>16 DEF Right
<1>18. \A k \in Kinds : Readable(c, k) => Readable(c, k)'
  BY <1>2 DEF Readable
<1> QED
  BY <1>2, <1>4, <1>8, <1>9, <1>12, <1>17, <1>18, OneClient

LEMMA OutputStep ==
    ASSUME DInv, CacheInv, EInv, OInv, [DaemonNext]_vars PROVE OInv'
<1>1. Bounded'
  BY BoundedStep DEF EInv, OInv
<1> SUFFICES OKeeps
  BY <1>1 DEF OInv, OKeeps
<1>2. CASE Start
  BY <1>2, OutputIdles DEF Start, Accepting, outputVars, clientVars, childVars
<1>3. CASE World \/ Over \/ UNCHANGED vars
  <2>1. UNCHANGED <<outputVars, open, builds, backlog, todo, reading, daemon>>
    BY <1>3 DEF World, Over, vars, outputVars, serverVars, clientVars, childVars
  <2>2. Accepting' <=> Accepting
    BY <2>1 DEF Accepting
  <2> QED
    BY <2>1, <2>2, OutputIdles
<1>4. CASE Kill
  BY <1>4, DyingKeepsOutput DEF Kill, outputVars, clientVars, childVars
<1>5. ASSUME NEW c \in Clients, Child(c) \/ ChildKilled(c) \/ Client(c) \/ HangUp(c)
      PROVE  OKeeps
  BY <1>5, ChildKeepsOutput, LookKeepsOutput, ConnectKeepsOutput, LeavesKeepsOutput,
     ReceiveKeepsOutput, HangUpKeepsOutput DEF Client
<1>6. CASE Server
  BY <1>6, ServerKeepsOutput
<1> QED
  BY <1>2, <1>3, <1>4, <1>5, <1>6 DEF DaemonNext

LEMMA OutputInitially == DaemonInit => OInv
<1> SUFFICES ASSUME DaemonInit PROVE OInv
  OBVIOUS
<1>1. ToSet(<<>>) = {}
  BY DEF ToSet
<1>2. Silence \in [Kinds -> Seq(Chunks)] /\ \A k \in Kinds : Silence[k] = <<>>
  BY DEF Silence
<1>3. Shapes
  <2>1. /\ got \in [Clients -> [Kinds -> Seq(Chunks)]]
        /\ unread \in [Clients -> [Kinds -> Seq(Chunks)]]
    BY <1>2 DEF DaemonInit
  <2>2. conn \in [Clients -> Seq(Frames)] /\ wrote \in [Clients -> Nat]
        /\ open \in [Clients -> SUBSET Kinds]
    BY DEF DaemonInit
  <2>3. backlog \in Seq(Clients) /\ todo \in Seq(PollAnswers)
        /\ IsInjective(backlog) /\ IsInjective(builds)
    BY DEF DaemonInit, IsInjective
  <2>4. reading = None /\ daemon = "off"
    BY DEF DaemonInit
  <2> QED
    BY <2>1, <2>2, <2>3, <2>4 DEF Shapes, Accepting
<1>4. ASSUME NEW c \in Clients PROVE Right(c)
  <2>1. /\ at[c] = "idle" /\ child[c] = "none" /\ conn[c] = <<>> /\ wrote[c] = 0
        /\ got[c] = Silence /\ unread[c] = Silence /\ open[c] = {}
        /\ backlog = <<>> /\ reading = None /\ builds = <<>>
    BY DEF DaemonInit
  <2>2. InTurn(c)
    BY <1>1, <2>1, DaemonAssumption DEF InTurn, Before
  <2>3. Underway(c)
    BY <1>1, <2>1 DEF Underway
  <2>4. StatusLast(c)
    BY <2>1 DEF StatusLast
  <2>5. Flows(c)
    <3>1. ASSUME NEW k \in Kinds
          PROVE  /\ ToSet(unread[c][k]) \subseteq Pieces(c)
                 /\ \E h : Line(conn[c], k, Stream(c, k, wrote[c]), got[c][k],
                                unread[c][k], h)
      <4>1. Stream(c, k, wrote[c]) = <<>> /\ got[c][k] = <<>> /\ unread[c][k] = <<>>
        BY <1>2, <2>1, StreamStarts
      <4>2. Line(conn[c], k, Stream(c, k, wrote[c]), got[c][k], unread[c][k], <<>>)
        BY <2>1, <4>1, LineStarts
      <4> QED
        BY <1>1, <4>1, <4>2
    <3>2. wrote[c] <= Len(Output[c])
      BY <2>1, OutputOf
    <3> QED
      BY <2>1, <3>1, <3>2 DEF Flows
  <2> QED
    BY <2>2, <2>3, <2>4, <2>5 DEF Right
<1>5. Answered
  BY DEF DaemonInit, Answered, IsInjective
<1>6. Bounded
  BY DaemonAssumption DEF DaemonInit, Bounded
<1> QED
  BY <1>3, <1>4, <1>5, <1>6 DEF OInv

\* A client that has been answered has everything, whatever the relay did.
LEMMA AnsweredHasAll ==
    ASSUME Shapes, NEW c \in Clients, Right(c), child[c] # "none",
           at[c] \in {"served", "failed"}, NEW k \in Kinds
    PROVE  /\ got[c][k] = Stream(c, k, Len(Output[c]))
           /\ at[c] = "served" <=> c \in passed
<1>1. conn[c] = <<>> /\ Emptied(c) /\ (at[c] = "served" <=> c \in passed)
  BY DEF Right, StatusLast
<1>2. PICK n \in Nat : n = wrote[c]
  BY DEF Shapes
<1>3. n <= Len(Output[c])
  BY <1>2 DEF Right, Flows
<1>4. unread[c][k] = <<>> /\ n = Len(Output[c])
  BY <1>1, <1>2 DEF Emptied
<1>5. Stream(c, k, n) \in Seq(Chunks) /\ got[c][k] \in Seq(Chunks)
  BY <1>3, StreamOf, OutputOf, OverMore DEF Shapes
<1>6. PICK h : Line(<<>>, k, Stream(c, k, n), got[c][k], <<>>, h)
  BY <1>1, <1>2, <1>4 DEF Right, Flows
<1>7. got[c][k] = Stream(c, k, n)
  BY <1>5, <1>6, LineEnds, Zenon
<1> QED
  BY <1>1, <1>4, <1>7

LEMMA BegunIsPrefix ==
    ASSUME NEW P, NEW S \in Seq(P), NEW g \in Seq(P), Begun(g, S)
    PROVE  IsPrefix(g, S)
<1>1. Len(g) \in Nat /\ Len(S) \in Nat /\ Len(g) <= Len(S)
  BY DEF Begun
<1>2. /\ SubSeq(g, 1, Len(g)) \in Seq(P) /\ SubSeq(S, 1, Len(g)) \in Seq(P)
      /\ Len(SubSeq(g, 1, Len(g))) = Len(g) /\ Len(SubSeq(S, 1, Len(g))) = Len(g)
      /\ \A i \in 1..Len(g) : SubSeq(g, 1, Len(g))[i] = g[i]
      /\ \A i \in 1..Len(g) : SubSeq(S, 1, Len(g))[i] = S[i]
  BY <1>1
<1>3. SubSeq(g, 1, Len(g)) = SubSeq(S, 1, Len(g))
  BY <1>1, <1>2 DEF Begun
<1> QED
  BY <1>1, <1>3 DEF IsPrefix

LEMMA OutputHolds ==
    ASSUME DInv, CacheInv, EInv, OInv PROVE OutputIntact
<1>1. Shapes /\ Answered /\ Bounded /\ \A c \in Clients : Right(c)
  BY DEF OInv
<1>2. DaemonTypeOK
  <2>1. analysed \in [Keys -> {None} \cup [text : 0..MaxTroubles, mark : 0..MaxTroubles]]
    <3>1. /\ analysed \in [Keys -> {None} \cup Analyses]
          /\ source \in [Sources -> Nat]
      BY DEF CacheInv, Versions
    <3>2. ASSUME NEW k \in Keys, analysed[k] # None
          PROVE  analysed[k] \in [text : 0..MaxTroubles, mark : 0..MaxTroubles]
      <4>1. PICK e \in Analyses : e = analysed[k]
        BY <3>1, <3>2
      <4>2. e.text <= e.mark /\ e.mark <= Written(k)
        BY <3>2, <4>1 DEF CacheInv, Versions
      <4>3. Written(k) \in Nat /\ Written(k) <= troubles
        BY <1>1, <3>1, KeysHaveFiles DEF Written, Bounded
      <4>4. troubles \in Nat /\ troubles <= MaxTroubles /\ MaxTroubles \in Nat
        BY <1>1, DaemonAssumption DEF Bounded
      <4>5. e.text \in 0..MaxTroubles /\ e.mark \in 0..MaxTroubles
        BY <4>2, <4>3, <4>4 DEF Analyses
      <4> QED
        BY <4>1, <4>5 DEF Analyses
    <3> QED
      BY <3>1, <3>2
  <2>2. at \in [Clients -> {"idle", "named", "connected", "waiting"} \cup Ended]
    BY DEF EInv, Places
  <2>3. child \in [Clients -> {"none", "runs", "ended", "killed"}]
    BY DEF DInv, ChildStates
  <2>4. \A c \in Clients, k \in Kinds : ToSet(unread[c][k]) \subseteq ToSet(AllOutput(c))
    BY <1>1 DEF Right, Flows, Pieces
  <2>5. \A c \in ToSet(builds) : child[c] # "none"
    <3>1. ToSet(builds) \subseteq Clients
      BY ElementsOf DEF DInv
    <3> QED
      BY <1>1, <3>1 DEF Right, Underway
  <2>6. \A c \in Clients : open[c] # {} => c \in ToSet(builds)
    BY <1>1 DEF Right, Underway
  <2>7. \A i \in DOMAIN todo : todo[i].of # None => todo[i].kind \in open[todo[i].of]
    BY <1>1 DEF Answered
  <2>8. /\ open \in [Clients -> SUBSET Kinds] /\ (reading # None <=> Accepting)
        /\ IsInjective(builds) /\ IsInjective(backlog)
        /\ starts <= MaxStarts /\ troubles <= MaxTroubles
    BY <1>1 DEF Shapes, Bounded
  <2>9. Listening \/ daemon \in {"off", "begun", "recorded", "dead"}
    BY DEF DInv, Deaf
  <2>10. draft # None <=> Analysing
    BY KeysHaveFiles DEF CacheInv, Versions
  <2> QED
    BY <2>1, <2>2, <2>3, <2>4, <2>5, <2>6, <2>7, <2>8, <2>9, <2>10 DEF DaemonTypeOK
<1>3. ASSUME NEW c \in Clients, NEW k \in Kinds
      PROVE  IsPrefix(got[c][k], Stream(c, k, wrote[c]))
  <2>1. PICK n \in Nat : n = wrote[c]
    BY <1>1 DEF Shapes
  <2>2. n <= Len(Output[c])
    BY <1>1, <2>1 DEF Right, Flows
  <2>3. /\ Stream(c, k, n) \in Seq(Chunks) /\ got[c][k] \in Seq(Chunks)
        /\ unread[c][k] \in Seq(Chunks)
    BY <1>1, <2>2, StreamOf, OutputOf, OverMore DEF Shapes
  <2>4. CASE at[c] = "gone"
    <3>1. Begun(got[c][k], Stream(c, k, n))
      BY <1>1, <2>1, <2>4 DEF Right, Flows
    <3> QED
      BY <2>1, <2>3, <3>1, BegunIsPrefix
  <2>5. CASE at[c] # "gone"
    <3>1. PICK h : Line(conn[c], k, Stream(c, k, n), got[c][k], unread[c][k], h)
      BY <1>1, <2>1, <2>5 DEF Right, Flows
    <3>2. Begun(got[c][k], Stream(c, k, n))
      BY <2>3, <3>1, LineBegun, Zenon
    <3> QED
      BY <2>1, <2>3, <3>2, BegunIsPrefix
  <2> QED
    BY <2>4, <2>5
<1>4. ASSUME NEW c \in Clients, NEW k \in Kinds,
             child[c] # "none", at[c] \in {"served", "failed"}
      PROVE  /\ got[c][k] = Stream(c, k, Len(Output[c]))
             /\ at[c] = "served" <=> c \in passed
  BY <1>1, <1>4, AnsweredHasAll
<1> QED
  BY <1>2, <1>3, <1>4 DEF OutputIntact

\* However the relay of other builds interleaves, whoever hangs up and whatever dies
\* or is killed, what a client has been handed of a stream is what its own build wrote
\* on it, in order; and the client that got a status from a build has all of both
\* streams and the status of its own child (Command#daemon_relay, #daemon_finish).
THEOREM OutputStaysIntact == DaemonSpec => []OutputIntact
<1> DEFINE Inv == DInv /\ WInv /\ CacheInv /\ EInv /\ OInv
<1>1. DaemonInit => Inv
  BY DaemonInitially, WarmInitially, CacheInitially, EarnInitially, OutputInitially
<1>2. Inv /\ [DaemonNext]_vars => Inv'
  BY DaemonStep, WarmStep, CacheStep, EarnStep, OutputStep
<1>3. Inv => OutputIntact
  BY OutputHolds
<1> QED
  BY <1>1, <1>2, <1>3, PTL DEF DaemonSpec

-----------------------------------------------------------------------------
(***************************************************************************)
(* What a request finds.  Between the request and the fork the compiler    *)
(* may be rebuilt and the sources edited, and the server checks, analyses  *)
(* for a while and forks in steps of their own.  A request that waits was  *)
(* sent to the server that listens, after it had recorded its identity:    *)
(* so an identity that still lies at the path is the one the request       *)
(* found, and the fingerprint the refresh compares, or takes, is no        *)
(* earlier than the request.                                               *)
(***************************************************************************)

\* The request of c has been sent and not answered.
Pending(c) == c \in asked /\ (c \in ToSet(backlog) \/ c = reading)

\* What it found lies between the recorded identity and what is there now.
Noted(c) ==
    /\ asOf[c].compiler \in Nat
    /\ identity <= asOf[c].compiler /\ asOf[c].compiler <= compiler
    /\ \A s \in Sources : asOf[c].source[s] \in Nat /\ asOf[c].source[s] <= source[s]

\* The request that was admitted.
AdmittedRight ==
    /\ daemon \in {"refreshing", "forking"} => identity = asOf[reading].compiler
    /\ daemon = "forking" => Asked(reading, DefaultKey) <= analysed[DefaultKey].mark

RInv ==
    /\ compiler \in Nat /\ identity \in Nat /\ identity <= compiler
    /\ daemon \in Deaf => backlog = <<>>
    /\ DOMAIN asOf = Clients /\ DOMAIN adopted = Clients
    /\ \A c \in Clients : Pending(c) => Noted(c)
    /\ AdmittedRight

LEMMA RequestsInitially == DaemonInit => RInv
<1> SUFFICES ASSUME DaemonInit PROVE RInv
  OBVIOUS
<1>1. /\ compiler = 0 /\ identity = 0 /\ backlog = <<>> /\ asked = {} /\ daemon = "off"
      /\ DOMAIN asOf = Clients /\ DOMAIN adopted = Clients
  BY DEF DaemonInit
<1> QED
  BY <1>1 DEF RInv, Pending, AdmittedRight

\* The compiler and the sources only grow.
Later == /\ compiler' \in Nat /\ compiler <= compiler'
         /\ \A s \in Sources : source'[s] \in Nat /\ source[s] <= source'[s]

LEMMA NotedStays ==
    ASSUME RInv, CacheInv, Later, UNCHANGED identity, NEW c \in Clients, Noted(c),
           asOf'[c] = asOf[c]
    PROVE  Noted(c)'
<1>1. \A s \in Sources : source[s] \in Nat
  BY DEF CacheInv, Versions
<1>2. /\ asOf[c].compiler \in Nat /\ identity <= asOf[c].compiler
      /\ asOf[c].compiler <= compiler'
  BY DEF RInv, Noted, Later
<1>3. \A s \in Sources : asOf[c].source[s] \in Nat /\ asOf[c].source[s] <= source'[s]
  BY <1>1 DEF Noted, Later
<1> QED
  BY <1>2, <1>3 DEF Noted

\* No request comes in, none is admitted.
LEMMA RequestsIdle ==
    ASSUME RInv, CacheInv, Later, UNCHANGED <<identity, asOf, adopted>>,
           \A c \in Clients : Pending(c)' => Pending(c),
           daemon' \in Deaf => backlog' = <<>>,
           \/ daemon' \notin {"refreshing", "forking"}
           \/ UNCHANGED <<daemon, reading, analysed>>
    PROVE  RInv'
<1>1. /\ compiler' \in Nat /\ identity' \in Nat /\ identity' <= compiler'
      /\ DOMAIN asOf' = Clients /\ DOMAIN adopted' = Clients
  BY DEF RInv, Later
<1>2. ASSUME NEW c \in Clients, Pending(c)' PROVE Noted(c)'
  BY <1>2, NotedStays DEF RInv
<1>3. AdmittedRight'
  BY DEF RInv, AdmittedRight, Asked
<1> QED
  BY <1>1, <1>2, <1>3 DEF RInv

LEMMA NothingLater ==
    ASSUME RInv, CacheInv, UNCHANGED <<compiler, source>> PROVE Later
  BY DEF RInv, CacheInv, Versions, Later

\* With the server goes whatever it was asked.
LEMMA DyingForgetsRequests ==
    ASSUME RInv, CacheInv, NEW why, Dies(why),
           UNCHANGED <<compiler, source, identity, asOf, adopted>>
    PROVE  RInv'
<1>1. daemon' = "dead" /\ backlog' = <<>> /\ reading' = None
  BY DEF Dies
<1>2. \A c \in Clients : ~Pending(c)'
  <2>1. ToSet(<<>>) = {}
    BY DEF ToSet
  <2> QED
    BY <1>1, <2>1, DaemonAssumption DEF Pending
<1> QED
  BY <1>1, <1>2, NothingLater, RequestsIdle

\* The requests stay where they are.
LEMMA RequestsStay ==
    ASSUME RInv, CacheInv, Later, UNCHANGED <<identity, asOf, adopted, asked, backlog, reading>>,
           daemon' \in Deaf => daemon \in Deaf,
           \/ daemon' \notin {"refreshing", "forking"}
           \/ UNCHANGED <<daemon, analysed>>
    PROVE  RInv'
<1>1. \A c \in Clients : Pending(c)' => Pending(c)
  BY DEF Pending
<1>2. daemon' \in Deaf => backlog' = <<>>
  BY DEF RInv
<1> QED
  BY <1>1, <1>2, RequestsIdle

\* The request that is being read waits for its answer.
LEMMA ReadIsPending ==
    ASSUME OInv, RInv, Accepting, reading \in asked
    PROVE  reading \in Clients /\ Noted(reading)
<1>1. reading \in Clients
  BY DEF OInv, Shapes
<1> QED
  BY <1>1 DEF RInv, Pending

LEMMA IdentifyNotes == ASSUME OInv, RInv, Identify PROVE RInv'
<1>1. ~Accepting /\ backlog = <<>>
  BY DEF Identify, RInv, Deaf, Accepting
<1>2. ASSUME NEW c \in Clients PROVE ~Pending(c)'
  <2>1. reading = None /\ UNCHANGED <<backlog, reading>>
    BY <1>1 DEF Identify, OInv, Shapes
  <2>2. ToSet(<<>>) = {}
    BY DEF ToSet
  <2> QED
    BY <1>1, <2>1, <2>2, DaemonAssumption DEF Pending
<1>3. /\ UNCHANGED <<compiler, backlog, asOf, adopted>> /\ identity' = compiler
      /\ daemon' = "recorded"
  BY DEF Identify, worldVars, clientVars, childVars
<1> QED
  BY <1>1, <1>2, <1>3 DEF RInv, AdmittedRight

LEMMA AcceptNotes == ASSUME CacheInv, OInv, RInv, Accept PROVE RInv'
<1>1. /\ reading' = Head(backlog) /\ backlog' = Tail(backlog) /\ daemon' = "reading"
      /\ UNCHANGED <<compiler, source, identity, asked, asOf, adopted>>
  BY DEF Accept, worldVars, clientVars, childVars
<1>2. backlog \in Seq(Clients) /\ backlog # <<>>
  <2>1. 1 \in DOMAIN todo /\ todo[1].of = None
    BY DEF Accept, OInv, Shapes
  <2> QED
    BY <2>1 DEF OInv, Shapes, Answered
<1>3. Head(backlog) \in ToSet(backlog) /\ ToSet(Tail(backlog)) \subseteq ToSet(backlog)
  BY <1>2 DEF ToSet
<1>4. \A c \in Clients : Pending(c)' => Pending(c)
  BY <1>1, <1>3 DEF Pending
<1> QED
  BY <1>1, <1>4, NothingLater, RequestsIdle DEF Deaf

\* The request is answered: by a refusal or by a child.
LEMMA AnsweringNotes ==
    ASSUME CacheInv, OInv, RInv, reading \in Clients, reading' = None,
           asOf' = [asOf EXCEPT ![reading] = None], daemon' = "round",
           DOMAIN adopted' = Clients,
           UNCHANGED <<compiler, source, identity, asked, backlog>>
    PROVE  RInv'
<1>1. ASSUME NEW c \in Clients, Pending(c)' PROVE Noted(c)'
  <2>1. c \in asked /\ c \in ToSet(backlog)
    BY <1>1, DaemonAssumption DEF Pending
  <2>2. Pending(c) /\ c # reading
    BY <2>1 DEF Pending, OInv, Right, InTurn
  <2>3. asOf'[c] = asOf[c]
    BY <2>2 DEF RInv
  <2> QED
    BY <2>2, <2>3, NothingLater, NotedStays DEF RInv
<1>2. AdmittedRight' /\ daemon' \notin Deaf /\ DOMAIN asOf' = Clients
  BY DEF AdmittedRight, Deaf, RInv
<1> QED
  BY <1>1, <1>2 DEF RInv

LEMMA RefuseNotes == ASSUME CacheInv, OInv, RInv, Refuse PROVE RInv'
<1>1. reading \in Clients
  BY DEF Refuse, OInv, Shapes, Accepting
<1>2. /\ reading' = None /\ daemon' = "round" /\ asOf' = [asOf EXCEPT ![reading] = None]
      /\ UNCHANGED <<compiler, source, identity, asked, backlog, adopted>>
  BY DEF Refuse, worldVars, childVars
<1> QED
  BY <1>1, <1>2, AnsweringNotes DEF RInv

LEMMA ForkNotes == ASSUME CacheInv, OInv, RInv, Fork PROVE RInv'
<1>1. reading \in Clients
  BY DEF Fork, OInv, Shapes, Accepting
<1>2. /\ reading' = None /\ daemon' = "round" /\ asOf' = [asOf EXCEPT ![reading] = None]
      /\ adopted' = [adopted EXCEPT ![reading] = analysed[Needs[reading]]]
      /\ UNCHANGED <<compiler, source, identity, asked, backlog>>
  BY DEF Fork, worldVars
<1> QED
  BY <1>1, <1>2, AnsweringNotes DEF RInv

LEMMA AdmitNotes == ASSUME CacheInv, OInv, RInv, Admit PROVE RInv'
<1>1. /\ reading \in asked /\ compiler = identity /\ Accepting /\ daemon' \notin Deaf
      /\ UNCHANGED <<compiler, source, identity, asked, asOf, adopted, backlog, reading>>
  BY DEF Admit, Rebuilt, Accepting, Deaf, worldVars, clientVars, childVars
<1>2. reading \in Clients /\ Noted(reading)
  BY <1>1, ReadIsPending
<1>3. asOf[reading].compiler = identity
  <2>1. identity \in Nat
    BY DEF RInv
  <2> QED
    BY <1>1, <1>2, <2>1 DEF Noted
<1>4. daemon' = "forking" => Asked(reading, DefaultKey) <= analysed'[DefaultKey].mark
  <2>1. ASSUME daemon' = "forking"
        PROVE  analysed' = analysed /\ analysed[DefaultKey].mark = Written(DefaultKey)
    BY <2>1 DEF Admit, Stale
  <2> QED
    BY <1>2, <2>1, KeysHaveFiles DEF Noted, Asked, Written
<1>5. AdmittedRight'
  BY <1>1, <1>3, <1>4 DEF AdmittedRight, Asked
<1>6. \A c \in Clients : Pending(c)' => Noted(c)'
  BY <1>1, NothingLater, NotedStays DEF Pending, RInv
<1> QED
  BY <1>1, <1>5, <1>6 DEF RInv

LEMMA AnalyseNotes == ASSUME DInv, CacheInv, OInv, RInv, Analyse PROVE RInv'
<1>1. UNCHANGED <<compiler, source, identity, asked, asOf, adopted>>
  BY DEF Analyse, worldVars, clientVars, childVars
<1>2. CASE Dies("prelude")
  BY <1>1, <1>2, DyingForgetsRequests
<1>3. CASE ~Dies("prelude")
  <2>1. /\ daemon' \in {"poll", "forking"} /\ UNCHANGED <<backlog, reading>>
        /\ daemon' = "forking" =>
             /\ daemon = "refreshing"
             /\ analysed' = [analysed EXCEPT ![DefaultKey] = Drawn]
    BY <1>3 DEF Analyse, Draws
  <2>2. CASE daemon' = "poll"
    BY <1>1, <2>1, <2>2, NothingLater, RequestsStay DEF Deaf
  <2>3. CASE daemon' = "forking"
    <3>1. /\ daemon = "refreshing" /\ analysed'[DefaultKey].mark = Written(DefaultKey)
          /\ identity = asOf[reading].compiler /\ reading \in asked /\ Accepting
      BY <2>1, <2>3, KeysHaveFiles
         DEF CacheInv, Versions, Drawn, Draws, RInv, AdmittedRight, DInv, ForkedIsAsked,
             Accepting
    <3>2. Noted(reading)
      BY <3>1, ReadIsPending
    <3>3. Asked(reading, DefaultKey) <= analysed'[DefaultKey].mark
      BY <3>1, <3>2, KeysHaveFiles DEF Noted, Asked, Written
    <3>4. AdmittedRight'
      BY <1>1, <2>1, <3>1, <3>3 DEF AdmittedRight, Asked
    <3>5. \A c \in Clients : Pending(c)' => Noted(c)'
      BY <1>1, <2>1, NothingLater, NotedStays DEF Pending, RInv
    <3> QED
      BY <1>1, <2>1, <2>3, <3>4, <3>5 DEF RInv, Deaf
  <2> QED
    BY <2>1, <2>2, <2>3
<1> QED
  BY <1>2, <1>3

LEMMA ServerNotes == ASSUME DInv, CacheInv, OInv, RInv, Server PROVE RInv'
<1>1. CASE Bind \/ Preanalyse \/ Poll \/ Relay \/ WarmBegins
  <2>1. /\ UNCHANGED <<compiler, source, identity, asked, asOf, adopted, backlog, reading>>
        /\ daemon' \notin Deaf \cup {"refreshing", "forking"}
    BY <1>1 DEF Bind, Preanalyse, Poll, Relay, WarmBegins, Deaf, worldVars, clientVars,
                childVars
  <2> QED
    BY <2>1, NothingLater, RequestsStay
<1>2. CASE RequestUnread
  BY <1>2, DyingForgetsRequests DEF RequestUnread, worldVars, clientVars, childVars
<1>3. CASE EndRound \/ WarmParses
  <2>1. UNCHANGED <<compiler, source, identity, asked, asOf, adopted>>
    BY <1>3 DEF EndRound, WarmParses, worldVars, clientVars, childVars
  <2>2. ASSUME NEW why, Dies(why) PROVE RInv'
    BY <2>1, <2>2, DyingForgetsRequests
  <2>3. CASE \A why \in {"signal", "arguments", "file"} : ~Dies(why)
    <3>1. /\ UNCHANGED <<backlog, reading>>
          /\ daemon' \in {"warming", "poll", "heating"}
      BY <1>3, <2>3 DEF EndRound, WarmParses
    <3> QED
      BY <2>1, <3>1, NothingLater, RequestsStay DEF Deaf
  <2> QED
    BY <2>2, <2>3
<1> QED
  BY <1>1, <1>2, <1>3, IdentifyNotes, AcceptNotes, RefuseNotes, ForkNotes, AdmitNotes,
     AnalyseNotes DEF Server

LEMMA ConnectNotes ==
    ASSUME CacheInv, EInv, OInv, RInv, NEW c \in Clients, Connect(c) PROVE RInv'
<1>1. /\ UNCHANGED <<compiler, source, identity, asked, asOf, adopted, reading, daemon,
                     analysed>>
      /\ c \notin asked
      /\ UNCHANGED backlog \/ (Listening /\ backlog' = Append(backlog, c))
  BY DEF Connect, EInv, ClientRight, worldVars, memory, childVars
<1>2. ToSet(backlog') \subseteq ToSet(backlog) \cup {c}
  <2>1. backlog \in Seq(Clients)
    BY DEF OInv, Shapes
  <2>2. ToSet(Append(backlog, c)) \subseteq ToSet(backlog) \cup {c}
    BY <2>1 DEF ToSet
  <2> QED
    BY <1>1, <2>2
<1>3. \A d \in Clients : Pending(d)' => Pending(d)
  BY <1>1, <1>2 DEF Pending
<1>4. daemon' \in Deaf => backlog' = <<>>
  BY <1>1 DEF RInv, Deaf, Listening
<1> QED
  BY <1>1, <1>3, <1>4, NothingLater, RequestsIdle

LEMMA SendNotes ==
    ASSUME DInv, CacheInv, EInv, RInv, NEW c \in Clients, Send(c) PROVE RInv'
<1>1. /\ UNCHANGED <<compiler, source, identity, adopted, backlog, reading, daemon,
                     analysed>>
      /\ c \notin asked
  BY DEF Send, EInv, ClientRight, worldVars, serverVars, memory, childVars
<1>2. CASE UNCHANGED <<asked, asOf>>
  BY <1>1, <1>2, NothingLater, RequestsStay
<1>3. CASE /\ asked' = asked \cup {c}
           /\ asOf' = [asOf EXCEPT ![c] = [compiler |-> compiler, source |-> source]]
  <2>1. ASSUME NEW d \in Clients, Pending(d)' PROVE Noted(d)'
    <3>1. CASE d = c
      <4>1. asOf'[c] = [compiler |-> compiler, source |-> source]
        BY <1>3 DEF RInv
      <4> QED
        BY <1>1, <3>1, <4>1 DEF Noted, RInv, CacheInv, Versions
    <3>2. CASE d # c
      <4>1. Pending(d) /\ asOf'[d] = asOf[d]
        BY <1>1, <1>3, <2>1, <3>2 DEF Pending, RInv
      <4> QED
        BY <1>1, <4>1, NothingLater, NotedStays DEF RInv
    <3> QED
      BY <3>1, <3>2
  <2>2. daemon \in {"refreshing", "forking"} => asOf'[reading] = asOf[reading]
    BY <1>1, <1>3 DEF DInv, ForkedIsAsked, RInv
  <2>3. AdmittedRight'
    BY <1>1, <2>2 DEF RInv, AdmittedRight, Asked
  <2> QED
    BY <1>1, <1>3, <2>1, <2>3 DEF RInv
<1> QED
  BY <1>2, <1>3 DEF Send

LEMMA RequestStep ==
    ASSUME DInv, CacheInv, EInv, OInv, RInv, [DaemonNext]_vars PROVE RInv'
<1>1. CASE Start \/ Over \/ UNCHANGED vars
  <2>1. /\ UNCHANGED <<compiler, source, identity, asked, asOf, adopted, backlog, reading>>
        /\ daemon' \in Deaf => daemon \in Deaf
        /\ daemon' = "begun" \/ UNCHANGED <<daemon, analysed>>
    BY <1>1 DEF Start, Over, vars, worldVars, serverVars, memory, clientVars, childVars,
                Deaf
  <2> QED
    BY <2>1, NothingLater, RequestsStay
<1>2. CASE Kill
  BY <1>2, DyingForgetsRequests DEF Kill, worldVars, clientVars, childVars
<1>3. CASE World
  <2>1. UNCHANGED <<identity, asked, asOf, adopted, backlog, reading, daemon, analysed>>
    BY <1>3 DEF World, serverVars, memory, clientVars, childVars
  <2>2. Later
    <3>1. source \in [Sources -> Nat] /\ compiler \in Nat
      BY DEF CacheInv, Versions, RInv
    <3>2. ASSUME NEW s \in Sources, Edit(s) PROVE Later
      BY <3>1, <3>2 DEF Edit, Later
    <3>3. ASSUME Rebuild \/ \E c \in Clients : Vanish(c) PROVE Later
      BY <3>1, <3>3 DEF Rebuild, Vanish, Later
    <3> QED
      BY <1>3, <3>2, <3>3 DEF World
  <2> QED
    BY <2>1, <2>2, RequestsStay
<1>4. CASE Server
  BY <1>4, ServerNotes
<1>5. ASSUME NEW c \in Clients,
             Child(c) \/ ChildKilled(c) \/ Look(c) \/ Receive(c) \/ LosesDaemon(c)
             \/ HangUp(c)
      PROVE  RInv'
  <2>1. UNCHANGED <<compiler, source, identity, asked, asOf, adopted, backlog, reading,
                    daemon, analysed>>
    BY <1>5 DEF Child, ChildWrites, ChildEnds, ChildKilled, Look, Receive, LosesDaemon,
                HangUp, worldVars, serverVars, memory, clientVars, childVars
  <2> QED
    BY <2>1, NothingLater, RequestsStay
<1> QED
  BY <1>1, <1>2, <1>3, <1>4, <1>5, ConnectNotes, SendNotes DEF DaemonNext, Client

-----------------------------------------------------------------------------
(* What a fork starts *)

LEMMA OnlyForkStarts ==
    ASSUME DInv, DaemonNext, ~Fork, NEW c \in Clients PROVE ~Starts(c)
<1>1. ASSUME NEW d \in Clients, NEW s, child' = [child EXCEPT ![d] = s], s # "runs"
      PROVE  ~Starts(c)
  BY <1>1 DEF Starts, DInv
<1>2. CASE UNCHANGED child
  BY <1>2 DEF Starts
<1>3. CASE Server
  <2>1. UNCHANGED child
    BY <1>3 DEF Server, Identify, Bind, Preanalyse, Analyse, Poll, Accept,
                RequestUnread, Refuse, Admit, Relay, EndRound, WarmBegins, WarmParses,
                childVars
  <2> QED
    BY <1>2, <2>1
<1>4. CASE Start \/ Kill \/ World \/ Over
  <2>1. UNCHANGED child
    BY <1>4 DEF Start, Kill, World, Over, vars, childVars
  <2> QED
    BY <1>2, <2>1
<1>5. ASSUME NEW d \in Clients, Client(d) \/ HangUp(d) PROVE ~Starts(c)
  <2>1. UNCHANGED child
    BY <1>5 DEF Client, Look, Connect, Send, Receive, LosesDaemon, HangUp, childVars
  <2> QED
    BY <1>2, <2>1
<1>6. ASSUME NEW d \in Clients, Child(d) \/ ChildKilled(d) PROVE ~Starts(c)
  <2>1. \/ UNCHANGED child
        \/ child' = [child EXCEPT ![d] = "ended"]
        \/ child' = [child EXCEPT ![d] = "killed"]
    BY <1>6 DEF Child, ChildWrites, ChildEnds, ChildKilled
  <2> QED
    BY <1>1, <1>2, <2>1
<1> QED
  BY <1>3, <1>4, <1>5, <1>6 DEF DaemonNext

\* A fork starts the build whose request was admitted.
LEMMA ForkStarts ==
    ASSUME DInv, OInv, RInv, Fork, NEW c \in Clients, Starts(c)
    PROVE  c = reading /\ adopted'[c] = analysed[Needs[c]]
<1>1. c = reading
  BY DEF Fork, Starts, DInv
<1> QED
  BY <1>1 DEF Fork, RInv

ServedRight == \A c \in Clients : Starts(c) /\ identity = image => image = asOf[c].compiler

LEMMA ForkServes ==
    ASSUME DInv, OInv, RInv, [DaemonNext]_vars PROVE [ServedRight]_vars
<1>1. CASE UNCHANGED vars
  BY <1>1
<1>2. CASE DaemonNext /\ ~Fork
  BY <1>2, OnlyForkStarts DEF ServedRight
<1>3. CASE Fork
  <2>1. identity = asOf[reading].compiler
    BY <1>3 DEF Fork, RInv, AdmittedRight
  <2> QED
    BY <1>3, <2>1, ForkStarts DEF ServedRight
<1> QED
  BY <1>1, <1>2, <1>3

\* However the compiler is rebuilt, at the start of a server, while a request waits or
\* is read, and between the check and the fork, with an analysis in between: the
\* process a build is forked from is the compiler that lay at the path when its client
\* sent the request, provided that it was when the server recorded it
\* (Command#daemon_accept, #daemon_identity).
THEOREM ServesItsCompiler == DaemonSpec => ServedByItsCompiler
<1> DEFINE Inv == DInv /\ WInv /\ CacheInv /\ EInv /\ OInv /\ RInv
<1>1. DaemonInit => Inv
  BY DaemonInitially, WarmInitially, CacheInitially, EarnInitially, OutputInitially,
     RequestsInitially
<1>2. Inv /\ [DaemonNext]_vars => Inv' /\ [ServedRight]_vars
  BY DaemonStep, WarmStep, CacheStep, EarnStep, OutputStep, RequestStep, ForkServes
<1>3. [ServedRight]_vars
        => [\A c \in Clients : Starts(c) /\ identity = image
              => image = asOf[c].compiler]_vars
  BY DEF ServedRight
<1> HIDE DEF Inv
<1> QED
  BY <1>1, <1>2, <1>3, PTL DEF DaemonSpec, ServedByItsCompiler

AdoptedRight ==
    \A c \in Clients :
         Starts(c) /\ SourcesOf[Needs[c]] = SourcesOf[DefaultKey] /\ adopted'[c] # None
         => /\ Asked(c, Needs[c]) <= adopted'[c].mark
            /\ Needs[c] # DefaultKey => Asked(c, Needs[c]) <= adopted'[c].text

LEMMA ForkAdopts ==
    ASSUME DInv, CacheInv, OInv, RInv, [DaemonNext]_vars PROVE [AdoptedRight]_vars
<1>1. CASE UNCHANGED vars
  BY <1>1
<1>2. CASE DaemonNext /\ ~Fork
  BY <1>2, OnlyForkStarts DEF AdoptedRight
<1>3. CASE Fork
  <2>1. ASSUME NEW c \in Clients, Starts(c), adopted'[c] # None,
               SourcesOf[Needs[c]] = SourcesOf[DefaultKey]
        PROVE  /\ Asked(c, Needs[c]) <= adopted'[c].mark
               /\ Needs[c] # DefaultKey => Asked(c, Needs[c]) <= adopted'[c].text
    <3>1. c = reading /\ adopted'[c] = analysed[Needs[c]] /\ Needs[c] \in SameFiles
      BY <1>3, <2>1, ForkStarts, KeysHaveFiles DEF SameFiles
    <3>2. Noted(c)
      BY <1>3, <3>1, ReadIsPending DEF Fork, Accepting, DInv, ForkedIsAsked
    <3>3. Asked(c, DefaultKey) \in Nat /\ Asked(c, Needs[c]) = Asked(c, DefaultKey)
      BY <2>1, <3>2, KeysHaveFiles DEF Noted, Asked
    <3>4. Asked(c, DefaultKey) <= analysed[DefaultKey].mark
      BY <1>3, <3>1 DEF Fork, RInv, AdmittedRight
    <3>5. /\ analysed[Needs[c]].text \in Nat /\ analysed[Needs[c]].mark \in Nat
          /\ analysed[Needs[c]].text <= analysed[Needs[c]].mark
      BY <2>1, <3>1 DEF CacheInv, Versions, SameFiles, Analyses
    <3>6. CASE Needs[c] = DefaultKey
      BY <3>1, <3>4, <3>6
    <3>7. CASE Needs[c] # DefaultKey
      <4>1. analysed[DefaultKey].mark <= analysed[Needs[c]].text
        BY <2>1, <3>1, <3>7 DEF CacheInv, OwnIsFirst
      <4>2. analysed[DefaultKey].mark \in Nat
        BY <1>3, KeysHaveFiles
           DEF Fork, CacheInv, Versions, OwnIsFirst, Ready, Analyses
      <4> QED
        BY <3>1, <3>3, <3>4, <3>5, <4>1, <4>2
    <3> QED
      BY <3>6, <3>7
  <2> QED
    BY <2>1 DEF AdoptedRight
<1> QED
  BY <1>1, <1>2, <1>3

\* However edits, analyses, warmings, builds and restarts interleave, a build over the
\* files of the server's own prelude adopts an analysis whose fingerprint is no earlier
\* than its request, and, of every flag set but the server's own, one that read the
\* files no earlier (Preanalysed#stale? and the block of Command#daemon_start).  That
\* an edit during the analysis of its own prelude is in the fingerprint and not in the
\* analysis is why no more is said of that one.
THEOREM AdoptsNothingStale == DaemonSpec => AdoptsCurrent
<1> DEFINE Inv == DInv /\ WInv /\ CacheInv /\ EInv /\ OInv /\ RInv
<1>1. DaemonInit => Inv
  BY DaemonInitially, WarmInitially, CacheInitially, EarnInitially, OutputInitially,
     RequestsInitially
<1>2. Inv /\ [DaemonNext]_vars => Inv' /\ [AdoptedRight]_vars
  BY DaemonStep, WarmStep, CacheStep, EarnStep, OutputStep, RequestStep, ForkAdopts
<1>3. [AdoptedRight]_vars
        => [\A c \in Clients :
              Starts(c) /\ SourcesOf[Needs[c]] = SourcesOf[DefaultKey] /\ adopted'[c] # None
              => /\ Asked(c, Needs[c]) <= adopted'[c].mark
                 /\ Needs[c] # DefaultKey => Asked(c, Needs[c]) <= adopted'[c].text]_vars
  BY DEF AdoptedRight
<1> HIDE DEF Inv
<1> QED
  BY <1>1, <1>2, <1>3, PTL DEF DaemonSpec, AdoptsCurrent
=============================================================================
