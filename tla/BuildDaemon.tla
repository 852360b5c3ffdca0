---------------------------- MODULE BuildDaemon ----------------------------
(***************************************************************************)
(* The build daemon: a server that holds analysed preludes and forks one   *)
(* child per build, its clients, and the children.  A connection is        *)
(* followed by its holders, the processes that have the daemon's end of it *)
(* open, because a client learns that the daemon died only when the last   *)
(* of them is gone.  An analysis is two steps: the sources are read, and   *)
(* when they have been analysed their fingerprint is taken.                *)
(***************************************************************************)
EXTENDS IyiLists

CONSTANTS
    None,        \* no prelude adopted, no client being read
    Clients,     \* every client makes one build
    Explicit,    \* those that typed `daemon build`, the rest set the variable
    Keys,        \* the flag sets an analysis is cached under
    DefaultKey,  \* what the daemon analyses when it starts
    SourcesOf,   \* [Keys -> the files the key's prelude is made of]
    Needs,       \* [Clients -> Keys]
    Output,      \* [Clients -> what the build writes, stream by stream]
    Sound,       \* the clients whose program compiles
    WellFormed,  \* the clients whose arguments the option parser takes
    Limit,       \* IYI_DAEMON_PRELUDES
    Broken,      \* the versions of a source that do not analyse
    MayHappen,   \* edit, rebuild, vanish, hang up, crash, kill: what the world does
    MaxTroubles, \* bound: how many of these
    MaxStarts    \* bound: how many servers, one after the other

\* The two streams of a build.
Kinds == {"out", "err"}

ASSUME DaemonAssumption ==
    /\ Explicit \subseteq Clients
    /\ Sound \subseteq WellFormed /\ WellFormed \subseteq Clients
    /\ DefaultKey \in Keys /\ Needs \in [Clients -> Keys] /\ Limit \in Nat
    /\ Output \in [Clients -> Seq(Kinds)]
    /\ None \notin Nat \cup Clients \cup [text : Nat, mark : Nat]
    /\ {"listener", "daemon"} \cap Clients = {}
    /\ MaxTroubles \in Nat /\ MaxStarts \in Nat

VARIABLES
    compiler,  \* which compiler lies at the executable's path
    source,    \* [sources -> version]
    there,     \* the clients whose source file is still where they built
    homes,     \* the clients whose directory is
    daemon,    \* what the server does, see Listening
    death,     \* what it died of
    image,     \* the compiler the server is
    identity,  \* daemon_identity, as recorded
    path,      \* the socket file exists
    analysed,  \* Compiler.preanalysed: [Keys -> analysis or None]
    draft,     \* the version an unfinished analysis has read
    dir,       \* the server's directory: its own (None), or a client's
    backlog,   \* connections not accepted yet
    reading,   \* the client whose request is being read
    builds,    \* the builds in flight, in order
    warm,      \* the builds to warm from
    todo,      \* what the last poll answered and the loop has not handled
    open,      \* [Clients -> the streams the server still reads]
    holders,   \* [Clients -> who has the connection open on the server's side]
    conn,      \* [Clients -> frames on their way]
    at,        \* [Clients -> where the client is]
    asked,     \* the clients that have sent their request
    asOf,      \* history: the compiler and the sources when they did, until
               \* the server has answered with a child or a refusal
    got,       \* [Clients -> the output it was handed, by stream]
    child,     \* [Clients -> none, runs, ended, killed]
    adopted,   \* [Clients -> the analysis its child started from, or None]
    unread,    \* [Clients -> what the child wrote and nobody read, by stream]
    wrote,     \* [Clients -> how much the child has written]
    passed,    \* the clients whose build succeeded
    starts, troubles   \* counts

worldVars  == <<compiler, source, there, homes>>
memory     == <<analysed, draft, dir>>
serverVars == <<daemon, death, image, identity, path, memory, backlog,
                reading, builds, warm, todo, open>>
clientVars == <<at, asked, asOf, got>>
childVars  == <<child, adopted, unread, wrote, passed>>
countVars  == <<starts, troubles>>
vars == <<worldVars, serverVars, holders, conn, clientVars, childVars, countVars>>

Sources == {SourcesOf[k] : k \in Keys}
Chunk(c, n) == [of |-> c, n |-> n]
AllOutput(c) == [n \in DOMAIN Output[c] |-> Chunk(c, n)]

\* The first n pieces that the build of c writes, as far as they are on stream k.
Stream(c, k, n) == Picked(SubSeq(AllOutput(c), 1, n), {i \in 1..n : Output[c][i] = k})
Silence == [k \in Kinds |-> <<>>]

DataFrame(k, chunk) == [kind |-> k, body |-> chunk, code |-> None]
ExitFrame(code) == [kind |-> "exit", body |-> None, code |-> code]

\* The socket takes connections: while the server analyses its own prelude,
\* polls, handles a round, reads a request, refreshes, forks, and warms.
Listening == daemon \in {"bound", "analysing", "poll", "round", "reading",
                         "refreshing", "forking", "warming", "inside", "heating"}
Accepting == daemon \in {"reading", "refreshing", "forking"}
Analysing == daemon \in {"analysing", "refreshing", "heating"}
Ended == {"built", "served", "failed", "unreachable", "aborted", "nothing", "gone"}

DaemonTypeOK ==
    /\ Listening \/ daemon \in {"off", "begun", "recorded", "dead"}
    /\ analysed \in [Keys -> {None} \cup [text : 0..MaxTroubles, mark : 0..MaxTroubles]]
    /\ draft # None <=> Analysing
    /\ at \in [Clients -> {"idle", "named", "connected", "waiting"} \cup Ended]
    /\ child \in [Clients -> {"none", "runs", "ended", "killed"}]
    /\ open \in [Clients -> SUBSET Kinds]
    /\ \A c \in Clients, k \in Kinds : ToSet(unread[c][k]) \subseteq ToSet(AllOutput(c))
    /\ reading # None <=> Accepting
    /\ IsInjective(builds) /\ IsInjective(backlog)
    /\ \A c \in ToSet(builds) : child[c] # "none"
    /\ \A c \in Clients : open[c] # {} => c \in ToSet(builds)
    /\ \A i \in DOMAIN todo : todo[i].of # None => todo[i].kind \in open[todo[i].of]
    /\ starts <= MaxStarts /\ troubles <= MaxTroubles

DaemonInit ==
    /\ compiler = 0 /\ source = [s \in Sources |-> 0]
    /\ there = Clients /\ homes = Clients
    /\ daemon = "off" /\ death = "none" /\ image = 0 /\ identity = 0
    /\ path = FALSE /\ analysed = [k \in Keys |-> None] /\ draft = None /\ dir = None
    /\ backlog = <<>> /\ reading = None /\ builds = <<>> /\ warm = <<>> /\ todo = <<>>
    /\ open = [c \in Clients |-> {}] /\ holders = [c \in Clients |-> {}]
    /\ conn = [c \in Clients |-> <<>>] /\ at = [c \in Clients |-> "idle"]
    /\ asked = {} /\ asOf = [c \in Clients |-> None] /\ got = [c \in Clients |-> Silence]
    /\ child = [c \in Clients |-> "none"] /\ adopted = [c \in Clients |-> None]
    /\ unread = [c \in Clients |-> Silence] /\ wrote = [c \in Clients |-> 0]
    /\ passed = {} /\ starts = 0 /\ troubles = 0

-----------------------------------------------------------------------------
(* The server *)

\* The process ends: every descriptor of its own closes, the socket file and
\* the children stay.
Dies(why) ==
    /\ daemon' = "dead" /\ death' = why
    /\ backlog' = <<>> /\ reading' = None /\ builds' = <<>> /\ warm' = <<>>
    /\ todo' = <<>> /\ analysed' = [k \in Keys |-> None] /\ draft' = None /\ dir' = None
    /\ open' = [c \in Clients |-> {}]
    /\ holders' = [c \in Clients |-> holders[c] \ {"listener", "daemon"}]

\* The compiler at the path becomes the server.
Start ==
    /\ daemon \in {"off", "dead"} /\ starts < MaxStarts
    /\ starts' = starts + 1
    /\ daemon' = "begun" /\ death' = "none" /\ image' = compiler
    /\ UNCHANGED <<worldVars, identity, path, memory, backlog, reading, builds, warm,
                   todo, open, holders, conn, clientVars, childVars, troubles>>

\* daemon_identity: what lies at the path by now, before the socket exists.
Identify ==
    /\ daemon = "begun"
    /\ daemon' = "recorded" /\ identity' = compiler
    /\ UNCHANGED <<worldVars, death, image, path, memory, backlog, reading, builds,
                   warm, todo, open, holders, conn, clientVars, childVars, countVars>>

Bind ==
    /\ daemon = "recorded"
    /\ daemon' = "bound" /\ path' = TRUE
    /\ UNCHANGED <<worldVars, death, image, identity, memory, backlog, reading,
                   builds, warm, todo, open, holders, conn, clientVars, childVars,
                   countVars>>

\* What the sources of a prelude say now, and their modification time.
Written(k) == source[SourcesOf[k]]

\* preanalyse_prelude begins: the sources are read.
Preanalyse ==
    /\ daemon = "bound"
    /\ daemon' = "analysing" /\ draft' = Written(DefaultKey)
    /\ UNCHANGED <<worldVars, death, image, identity, path, analysed, dir, backlog,
                   reading, builds, warm, todo, open, holders, conn, clientVars,
                   childVars, countVars>>

\* The key of the analysis that is being made.
Draws == IF daemon = "heating" THEN Needs[Head(warm)] ELSE DefaultKey

\* Preanalysed.new: the analysis of what was read, with the fingerprint of
\* what is there by then.
Drawn == [text |-> draft, mark |-> Written(Draws)]

\* preanalyse_prelude ends.  What a warming raises is rescued, and it goes
\* back to the server's directory.
Analyse ==
    /\ Analysing
    /\ IF draft \in Broken /\ daemon # "heating"
       THEN Dies("prelude")
       ELSE /\ analysed' = IF draft \in Broken THEN analysed
                           ELSE [analysed EXCEPT ![Draws] = Drawn]
            /\ daemon' = IF daemon = "refreshing" THEN "forking" ELSE "poll"
            /\ warm' = IF daemon = "heating" THEN Tail(warm) ELSE warm
            /\ draft' = None /\ dir' = None
            /\ UNCHANGED <<death, backlog, reading, builds, todo, open, holders>>
    /\ UNCHANGED <<worldVars, image, identity, path, conn, clientVars, childVars,
                   countVars>>

\* Mutant: a writer that is gone is not an answer.
ReadableUntilEmpty(c, k) == unread[c][k] # <<>>

\* A stream of a build has bytes, or its writer is gone.
Readable(c, k) == unread[c][k] # <<>> \/ child[c] \in {"ended", "killed"}

\* A closed stream is not asked about.
Watched(c, k) == k \in open[c] /\ Readable(c, k)

\* Two descriptors for each build, in order.
Streams ==
    [i \in 1..(2 * Len(builds)) |->
       [of |-> builds[(i + 1) \div 2], kind |-> IF i % 2 = 1 THEN "out" ELSE "err"]]

\* poll(2): everything that is ready, the listener first.
Answers ==
    (IF backlog # <<>> THEN <<[of |-> None, kind |-> "accept"]>> ELSE <<>>)
    \o Picked(Streams, {i \in DOMAIN Streams : Watched(Streams[i].of, Streams[i].kind)})

Poll ==
    /\ daemon = "poll" /\ Answers # <<>>
    /\ daemon' = "round" /\ todo' = Answers
    /\ UNCHANGED <<worldVars, death, image, identity, path, memory, backlog,
                   reading, builds, warm, open, holders, conn, clientVars,
                   childVars, countVars>>

\* daemon_accept takes a connection; nothing else happens until its request
\* has been read.
Accept ==
    /\ daemon = "round" /\ todo # <<>> /\ Head(todo).of = None
    /\ daemon' = "reading" /\ reading' = Head(backlog) /\ backlog' = Tail(backlog)
    /\ todo' = Tail(todo)
    /\ holders' = [holders EXCEPT ![Head(backlog)] = {"daemon"}]
    /\ UNCHANGED <<worldVars, death, image, identity, path, memory, builds, warm, open,
                   conn, clientVars, childVars, countVars>>

\* Mutant: the identity is a version string that a rebuild keeps.
RebuiltByDescription == FALSE

\* The executable is not the one recorded.
Rebuilt == compiler # identity

\* The client sent less than a request, or hung up before it was refused:
\* the exception ends the server.
RequestUnread ==
    /\ daemon = "reading" /\ at[reading] = "gone"
    /\ reading \notin asked \/ Rebuilt
    /\ Dies("hangup")
    /\ UNCHANGED <<worldVars, image, identity, path, conn, clientVars, childVars,
                   countVars>>

Refuse ==
    /\ daemon = "reading" /\ reading \in asked /\ at[reading] # "gone" /\ Rebuilt
    /\ conn' = [conn EXCEPT ![reading] = Append(@, ExitFrame(1))]
    /\ holders' = [holders EXCEPT ![reading] = {}]
    /\ daemon' = "round" /\ reading' = None /\ asOf' = [asOf EXCEPT ![reading] = None]
    /\ UNCHANGED <<worldVars, death, image, identity, path, memory, backlog, builds,
                   warm, todo, open, at, asked, got, childVars, countVars>>

\* preanalysed.stale?, of the server's own prelude.
Stale == analysed[DefaultKey].mark # Written(DefaultKey)

\* Mutant: the refresh analyses again and forgets nothing.
ClearedNot == analysed

\* preanalysed.clear
Cleared == [k \in Keys |-> None]

\* The check is passed, then the refresh: when its own prelude has changed on
\* disk the server forgets every analysis and makes that one again.
Admit ==
    /\ daemon = "reading" /\ reading \in asked /\ ~Rebuilt
    /\ \/ /\ ~Stale /\ daemon' = "forking" /\ UNCHANGED <<analysed, draft>>
       \/ /\ Stale /\ daemon' = "refreshing"
          /\ analysed' = Cleared /\ draft' = Written(DefaultKey)
    /\ UNCHANGED <<worldVars, death, image, identity, path, dir, backlog, reading,
                   builds, warm, todo, open, holders, conn, clientVars, childVars,
                   countVars>>

\* Mutant: a child closes its own connection alone.
ClosesItsOwn(c) == {c}

\* What a forked child closes of what it inherited: its own connection and
\* those of the builds in flight.  `delete: false` leaves the socket file.
Closes(c) == {c} \cup ToSet(builds)
Unlinks == FALSE

Fork ==
    /\ daemon = "forking"
    /\ LET c == reading IN
       /\ child' = [child EXCEPT ![c] = "runs"]
       /\ adopted' = [adopted EXCEPT ![c] = analysed[Needs[c]]]
       /\ builds' = Append(builds, c) /\ open' = [open EXCEPT ![c] = Kinds]
       /\ holders' = [d \in Clients |->
                         IF "daemon" \in holders[d] /\ d \notin Closes(c)
                         THEN holders[d] \cup {c} ELSE holders[d]]
    /\ path' = (path /\ ~Unlinks)
    /\ daemon' = "round" /\ reading' = None /\ asOf' = [asOf EXCEPT ![reading] = None]
    /\ UNCHANGED <<worldVars, death, image, identity, memory, backlog, warm, todo,
                   conn, at, asked, got, unread, wrote, passed, countVars>>

\* One ready stream: what one read takes becomes a frame, or it is at its
\* end.  A client that hung up costs nothing but the frame.
Relay ==
    /\ daemon = "round" /\ todo # <<>> /\ Head(todo).of # None
    /\ LET c == Head(todo).of  k == Head(todo).kind  bytes == unread[c][k] IN
       IF bytes = <<>>
       THEN /\ open' = [open EXCEPT ![c] = @ \ {k}] /\ UNCHANGED <<unread, conn>>
       ELSE /\ unread' = [unread EXCEPT ![c][k] = Tail(bytes)]
            /\ conn' = IF at[c] = "gone" THEN conn
                       ELSE [conn EXCEPT ![c] = Append(@, DataFrame(k, Head(bytes)))]
            /\ UNCHANGED open
    /\ todo' = Tail(todo)
    /\ UNCHANGED <<worldVars, daemon, death, image, identity, path, memory, backlog,
                   reading, builds, warm, holders, clientVars, child, adopted, wrote,
                   passed, countVars>>

\* Mutant: one stream that ends finishes the build.
FinishedHalf(c) == open[c] # Kinds

\* Both streams of the build have ended.
Finished(c) == open[c] = {}

\* Mutant: the status is sent without waiting for the child.
StatusUnwaited(c) == 0

\* The status its child is waited for.
StatusOf(c) == IF c \in passed THEN 0 ELSE 1

\* exit_code raises for a child that was killed, unless the client is gone and
\* the byte before it was refused.
Raises(c) == Finished(c) /\ child[c] = "killed" /\ at[c] # "gone"

\* The builds that daemon_finish gets through, in their order.
Told == {builds[i] : i \in {j \in DOMAIN builds :
                              Finished(builds[j]) /\ \A h \in 1..j : ~Raises(builds[h])}}

\* A finished build to warm from.
Warmable(c) == c \in passed

\* The end of a round: daemon_finish for every finished build.
EndRound ==
    /\ daemon = "round" /\ todo = <<>>
    /\ LET ended == {c \in ToSet(builds) : Finished(c)} IN
       /\ conn' = [c \in Clients |->
                      IF c \in Told /\ at[c] # "gone"
                      THEN Append(conn[c], ExitFrame(StatusOf(c)))
                      ELSE conn[c]]
       /\ IF \E c \in ToSet(builds) : Raises(c)
          THEN Dies("signal")
          ELSE \E left \in InOrder(builds, ToSet(builds) \ ended),
                  good \in InOrder(builds, {c \in ended : Warmable(c)}) :
               /\ builds' = left /\ warm' = warm \o good
               /\ daemon' = IF left = <<>> /\ warm' # <<>> THEN "warming" ELSE "poll"
               /\ holders' = [c \in Clients |->
                                 IF c \in ended THEN holders[c] \ {"daemon"}
                                 ELSE holders[c]]
               /\ open' = [c \in Clients |-> IF c \in ended THEN {} ELSE open[c]]
               /\ UNCHANGED <<death, memory, backlog, reading, todo>>
    /\ UNCHANGED <<worldVars, image, identity, path, clientVars, childVars, countVars>>

\* Mutant: the server stays where it is.
DirectoryKept(c) == dir

\* Where the server goes to read a client's arguments again.
Directory(c) == c

ReadsArguments == Cardinality({k \in Keys : analysed[k] # None}) < Limit

\* daemon_warm: one prelude, when nothing is in flight and there is room, and
\* the client's directory still stands.
WarmBegins ==
    /\ daemon = "warming"
    /\ \/ /\ ReadsArguments /\ Head(warm) \in homes
          /\ daemon' = "inside" /\ dir' = Directory(Head(warm)) /\ UNCHANGED warm
       \/ /\ ~ReadsArguments \/ Head(warm) \notin homes
          /\ daemon' = "poll" /\ warm' = Tail(warm) /\ UNCHANGED dir
    /\ UNCHANGED <<worldVars, death, image, identity, path, analysed, draft, backlog,
                   reading, builds, todo, open, holders, conn, clientVars, childVars,
                   countVars>>

\* gather_sources: the file a client named, from the server's directory.
WarmFinds(c) == dir = c /\ c \in there

\* daemon_warm_in_place: the option parser and gather_sources end the process
\* they do not like the arguments in; a prelude not yet there is read.
WarmParses ==
    /\ daemon = "inside"
    /\ LET c == Head(warm) IN
       \/ c \notin WellFormed /\ Dies("arguments")
       \/ c \in WellFormed /\ ~WarmFinds(c) /\ Dies("file")
       \/ /\ c \in WellFormed /\ WarmFinds(c)
          /\ \/ /\ analysed[Needs[c]] # None /\ daemon' = "poll"
                /\ warm' = Tail(warm) /\ dir' = None /\ UNCHANGED draft
             \/ /\ analysed[Needs[c]] = None /\ daemon' = "heating"
                /\ draft' = Written(Needs[c]) /\ UNCHANGED <<warm, dir>>
          /\ UNCHANGED <<death, analysed, backlog, reading, builds, todo, open, holders>>
    /\ UNCHANGED <<worldVars, image, identity, path, conn, clientVars, childVars,
                   countVars>>

-----------------------------------------------------------------------------
(* A child *)

\* What the world does, counted.
Trouble(what) == /\ what \in MayHappen /\ troubles < MaxTroubles
                 /\ troubles' = troubles + 1 /\ UNCHANGED starts

\* It writes the next piece of its output, or dies of a pipe nobody reads.
ChildWrites(c) ==
    /\ child[c] = "runs" /\ wrote[c] < Len(Output[c])
    /\ IF open[c] = {}
       THEN /\ child' = [child EXCEPT ![c] = "ended"]
            /\ holders' = [d \in Clients |-> holders[d] \ {c}]
            /\ UNCHANGED <<unread, wrote>>
       ELSE /\ wrote' = [wrote EXCEPT ![c] = @ + 1]
            /\ unread' = [unread EXCEPT ![c][Output[c][wrote'[c]]] =
                            Append(@, Chunk(c, wrote'[c]))]
            /\ UNCHANGED <<child, holders>>
    /\ UNCHANGED <<worldVars, serverVars, conn, clientVars, adopted, passed, countVars>>

\* It ends: successfully when the program is sound and the prelude it adopted,
\* or analysed itself, is.
ChildEnds(c) ==
    /\ child[c] = "runs" /\ wrote[c] = Len(Output[c])
    /\ child' = [child EXCEPT ![c] = "ended"]
    /\ passed' = IF c \in Sound /\ (adopted[c] # None \/ Written(Needs[c]) \notin Broken)
                 THEN passed \cup {c} ELSE passed
    /\ holders' = [d \in Clients |-> holders[d] \ {c}]
    /\ UNCHANGED <<worldVars, serverVars, conn, clientVars, adopted, unread, wrote,
                   countVars>>

\* The compiler crashes in it, or somebody kills it.
ChildKilled(c) ==
    /\ child[c] = "runs" /\ Trouble("crash")
    /\ child' = [child EXCEPT ![c] = "killed"]
    /\ holders' = [d \in Clients |-> holders[d] \ {c}]
    /\ UNCHANGED <<worldVars, serverVars, conn, clientVars, adopted, unread, wrote,
                   passed>>

-----------------------------------------------------------------------------
(* A client *)

Becomes(c, place) == at' = [at EXCEPT ![c] = place]

\* daemon_socket_from_env: no file, no daemon.
Look(c) ==
    /\ at[c] = "idle"
    /\ Becomes(c, IF path \/ c \in Explicit THEN "named" ELSE "built")
    /\ UNCHANGED <<worldVars, serverVars, holders, conn, asked, asOf, got, childVars,
                   countVars>>

\* UNIXSocket.new: the kernel queues it while the server listens.
Connect(c) ==
    /\ at[c] = "named"
    /\ IF path /\ Listening
       THEN /\ Becomes(c, "connected") /\ backlog' = Append(backlog, c)
            /\ holders' = [holders EXCEPT ![c] = {"listener"}]
       ELSE /\ Becomes(c, IF c \in Explicit THEN "unreachable" ELSE "built")
            /\ UNCHANGED <<backlog, holders>>
    /\ UNCHANGED <<worldVars, daemon, death, image, identity, path, memory, reading,
                   builds, warm, todo, open, conn, asked, asOf, got, childVars,
                   countVars>>

\* The request is written.  Nobody there is EPIPE, which the command takes
\* for a reader that has had enough: it exits 0.
Send(c) ==
    /\ at[c] = "connected"
    /\ IF holders[c] = {}
       THEN Becomes(c, "nothing") /\ UNCHANGED <<asked, asOf>>
       ELSE /\ Becomes(c, "waiting") /\ asked' = asked \cup {c}
            /\ asOf' = [asOf EXCEPT ![c] = [compiler |-> compiler, source |-> source]]
    /\ UNCHANGED <<worldVars, serverVars, holders, conn, got, childVars, countVars>>

\* A frame: output, or the exit status.
Receive(c) ==
    /\ at[c] = "waiting" /\ conn[c] # <<>>
    /\ LET frame == Head(conn[c]) IN
       IF frame.kind = "exit"
       THEN Becomes(c, IF frame.code = 0 THEN "served" ELSE "failed") /\ UNCHANGED got
       ELSE got' = [got EXCEPT ![c][frame.kind] = Append(@, frame.body)]
            /\ UNCHANGED at
    /\ conn' = [conn EXCEPT ![c] = Tail(@)]
    /\ UNCHANGED <<worldVars, serverVars, holders, asked, asOf, childVars, countVars>>

\* The end of the stream without an exit frame.
LosesDaemon(c) ==
    /\ at[c] = "waiting" /\ conn[c] = <<>> /\ holders[c] = {}
    /\ Becomes(c, "aborted")
    /\ UNCHANGED <<worldVars, serverVars, holders, conn, asked, asOf, got, childVars,
                   countVars>>

-----------------------------------------------------------------------------
(* The world *)

\* Somebody interrupts a client.
HangUp(c) ==
    /\ at[c] \in {"connected", "waiting"} /\ Trouble("hang up")
    /\ Becomes(c, "gone") /\ conn' = [conn EXCEPT ![c] = <<>>]
    /\ UNCHANGED <<worldVars, serverVars, holders, asked, asOf, got, childVars>>

\* Somebody stops the daemon.
Kill ==
    /\ daemon \notin {"off", "dead"} /\ Trouble("kill")
    /\ Dies("killed")
    /\ UNCHANGED <<worldVars, image, identity, path, conn, clientVars, childVars>>

\* Somebody edits a prelude, rebuilds the compiler, deletes a program.
Edit(s) == /\ Trouble("edit") /\ source' = [source EXCEPT ![s] = @ + 1]
           /\ UNCHANGED <<compiler, there, homes>>
Rebuild == Trouble("rebuild") /\ compiler' = compiler + 1
           /\ UNCHANGED <<source, there, homes>>
\* It may take the directory along.
Vanish(c) == /\ child[c] = "ended" /\ c \in homes /\ Trouble("vanish")
             /\ there' = there \ {c} /\ homes' \in {homes, homes \ {c}}
             /\ UNCHANGED <<source, compiler>>
World == /\ (\E s \in Sources : Edit(s)) \/ Rebuild \/ (\E c \in Clients : Vanish(c))
         /\ UNCHANGED <<serverVars, holders, conn, clientVars, childVars>>

-----------------------------------------------------------------------------
Server == \/ Identify \/ Bind \/ Preanalyse \/ Analyse
          \/ Poll \/ Accept \/ RequestUnread \/ Refuse \/ Admit \/ Fork \/ Relay
          \/ EndRound \/ WarmBegins \/ WarmParses
Child(c) == ChildWrites(c) \/ ChildEnds(c)
Client(c) == Look(c) \/ Connect(c) \/ Send(c) \/ Receive(c) \/ LosesDaemon(c)

\* Every build is over, or the server blocks in poll.
Over == /\ \/ \A c \in Clients : at[c] \in Ended
           \/ daemon = "poll" /\ Answers = <<>>
        /\ UNCHANGED vars

DaemonNext == \/ Start \/ Server \/ Kill \/ World \/ Over
              \/ \E c \in Clients : Child(c) \/ ChildKilled(c) \/ Client(c) \/ HangUp(c)

DaemonSpec == DaemonInit /\ [][DaemonNext]_vars

\* The processes are scheduled; nobody has to start, edit or interrupt
\* anything.
DaemonFairSpec ==
    /\ DaemonSpec /\ WF_vars(Server)
    /\ \A c \in Clients : WF_vars(Child(c)) /\ WF_vars(Client(c))

-----------------------------------------------------------------------------
(* Safety *)

\* Four concurrent builds, every client its own: what a client has been
\* handed of a stream is what its own build wrote on it, in order, and a
\* client that got a status from a build has all of the output and the
\* build's status, however the relay of other builds interleaves.
OutputIntact ==
    /\ DaemonTypeOK
    /\ \A c \in Clients, k \in Kinds :
         /\ IsPrefix(got[c][k], Stream(c, k, wrote[c]))
         /\ child[c] # "none" /\ at[c] \in {"served", "failed"} =>
                /\ got[c][k] = Stream(c, k, Len(Output[c]))
                /\ at[c] = "served" <=> c \in passed

\* The death of the server is visible at once: nobody who outlives it has a
\* connection open on its side, so no client waits on a build's lifetime.
DeathIsSeen ==
    daemon = "dead" => \A c \in Clients : holders[c] = {}

\* While the server listens, the address the clients look for stands.
StillReachable == Listening => path

\* A fork leaves nothing behind: no child keeps a connection of the server
\* open, and none takes the address away.
NothingInherited == DeathIsSeen /\ StillReachable

\* What a client typed never takes the server down: the arguments that a
\* warming reads again, long after the build, in the client's directory, are
\* those of a child that got through with them, so that only a file that was
\* deleted since can be missing.
WarmingIsSafe ==
    /\ death # "arguments"
    /\ death = "file" => \E c \in passed : c \notin there

\* A build that says it succeeded did: the client's own program was compiled,
\* by the server's child or by the client itself, unless the server died
\* between the connection and the request.
SuccessIsEarned ==
    \A c \in Clients : /\ at[c] = "served" => c \in passed
                       /\ at[c] = "nothing" => starts > 1 \/ daemon = "dead"

-----------------------------------------------------------------------------
(* Action properties *)

Starts(c) == child[c] = "none" /\ child'[c] = "runs"

\* A rebuild is noticed: a build is served by the compiler that lay at the path
\* when its client sent the request, provided the server recorded the one it
\* is (nothing was rebuilt between Start and Identify).  A rebuild that comes
\* between the check and the fork is later than the request.
ServedByItsCompiler ==
    [][\A c \in Clients : Starts(c) /\ identity = image
         => image = asOf[c].compiler]_vars

\* The sources of k when c sent its request.
Asked(c, k) == asOf[c].source[SourcesOf[k]]

\* An edit is noticed: of the flag sets over the files of the server's own
\* prelude, a build adopts no analysis of a version before its request.  For
\* the server's own flag set that is said of the fingerprint alone: an edit
\* while it was being analysed is in the fingerprint and not in the analysis.
AdoptsCurrent ==
    [][\A c \in Clients :
         Starts(c) /\ SourcesOf[Needs[c]] = SourcesOf[DefaultKey] /\ adopted'[c] # None
         => /\ Asked(c, Needs[c]) <= adopted'[c].mark
            /\ Needs[c] # DefaultKey => Asked(c, Needs[c]) <= adopted'[c].text]_vars

\* What the comment says of every prelude in the cache.
AllStaleTogether ==
    [][\A c \in Clients : Starts(c) /\ adopted'[c] # None
         => Asked(c, Needs[c]) <= adopted'[c].mark]_vars

-----------------------------------------------------------------------------
(* What the documents say and the code does not do; liveness *)

\* IV.1d: opting in to a daemon must never be able to stop a build.
OptInNeverStops ==
    \A c \in Clients \ Explicit : at[c] \notin {"aborted", "nothing"}

\* Whatever dies, is killed, is edited or hangs up, every client that does
\* not hang up comes to an end of its own.
EveryClientEnds == \A c \in Clients : <>(at[c] \in Ended)
=============================================================================
