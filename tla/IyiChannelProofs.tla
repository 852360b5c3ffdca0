-------------------------- MODULE IyiChannelProofs --------------------------
(***************************************************************************)
(* A theorem about IyiChannel, for every set of fibers, groups and         *)
(* channels, every capacity, every list of arms and every program.         *)
(***************************************************************************)
EXTENDS IyiChannel, IyiListProofs

-----------------------------------------------------------------------------
(***************************************************************************)
(* StaleForGood is an action property of what the queues hold: a node is   *)
(* stale because its fiber is not parked on a channel, or because it has   *)
(* counted its parks on.  It stays so if no node is ahead of its fiber's   *)
(* count, if that count never falls, and if a fiber gets into "chan" only  *)
(* by counting it up.                                                      *)
(***************************************************************************)

\* A queue per channel.
Queues(q) ==
    /\ DOMAIN q = Channels
    /\ \A ch \in Channels : q[ch] \in Seq(ToSet(q[ch]))

\* The nodes in them.
NodesOf(q) == UNION {ToSet(q[ch]) : ch \in Channels}

\* A node of a park its fiber has made.
Dated(n) == n.fiber \in Fibers /\ n.nonce \in Nat /\ n.nonce <= nonce[n.fiber]

ArmsEnd == DOMAIN arms = Fibers /\ \A f \in Fibers : IsFiniteSet(DOMAIN arms[f])

NInv ==
    /\ state \in [Fibers -> States]
    /\ nonce \in [Fibers -> Nat]
    /\ ArmsEnd
    /\ Queues(recvq) /\ Queues(sendq)
    /\ \A n \in NodesOf(recvq) \cup NodesOf(sendq) : Dated(n)

\* No fiber comes to be parked on a channel.
NobodyParks ==
    /\ state' \in [Fibers -> States]
    /\ \A f \in Fibers : state'[f] = "chan" => state[f] = "chan"

\* Counts do not fall, and a fiber that comes to be parked on a channel has
\* counted.
Counts ==
    /\ state' \in [Fibers -> States]
    /\ nonce' \in [Fibers -> Nat]
    /\ \A f \in Fibers :
         /\ nonce'[f] >= nonce[f]
         /\ state'[f] = "chan" /\ nonce'[f] = nonce[f] => state[f] = "chan"

\* Every node was there or is of a park that is counted now.
Fills(q, r) ==
    /\ Queues(r)
    /\ \A n \in NodesOf(r) :
         n \in NodesOf(q) \/ (n.fiber \in Fibers /\ n.nonce = nonce'[n.fiber])

Moves == Counts /\ ArmsEnd' /\ Fills(recvq, recvq') /\ Fills(sendq, sendq')

-----------------------------------------------------------------------------
(* Queues *)

LEMMA WaitsAreNodes ==
    ASSUME NEW q, q \in Seq(ToSet(q)), Waits(q) # {}
    PROVE  Min(Waits(q)) \in 1..Len(q)
<1>1. Waits(q) \subseteq 1..Len(q)
  BY DEF Waits
<1>2. Waits(q) \in SUBSET Nat
  BY <1>1
<1> QED
  BY <1>1, <1>2, Smallest

\* What a wake leaves of a queue, and what a look at it does.
LEMMA BehindIsEnd ==
    ASSUME NEW q, q \in Seq(ToSet(q))
    PROVE  /\ Behind(q) \in Seq(ToSet(Behind(q)))
           /\ ToSet(Behind(q)) \subseteq ToSet(q)
<1>1. CASE Waits(q) = {}
  BY <1>1 DEF Behind, ToSet
<1>2. CASE Waits(q) # {}
  <2>1. Min(Waits(q)) + 1 \in 1..Len(q) + 1
    BY <1>2, WaitsAreNodes
  <2> QED
    BY <1>2, <2>1, EndOf DEF Behind
<1> QED
  BY <1>1, <1>2

\* No node comes into a queue.
Drops(q, r) ==
    /\ Queues(r)
    /\ \A ch \in Channels : ToSet(r[ch]) \subseteq ToSet(q[ch])

LEMMA PrunedDrops ==
    ASSUME NEW q, Queues(q), NEW dir, NEW tried
    PROVE  Drops(q, Pruned(q, dir, tried))
<1> DEFINE r == Pruned(q, dir, tried)
<1>1. DOMAIN r = Channels
  BY DEF Pruned
<1>2. ASSUME NEW ch \in Channels
      PROVE  r[ch] \in Seq(ToSet(r[ch])) /\ ToSet(r[ch]) \subseteq ToSet(q[ch])
  <2>1. q[ch] \in Seq(ToSet(q[ch]))
    BY DEF Queues
  <2>2. \/ r[ch] = q[ch]
        \/ r[ch] = <<>>
        \/ /\ Waits(q[ch]) # {}
           /\ r[ch] = SubSeq(q[ch], Min(Waits(q[ch])), Len(q[ch]))
    BY DEF Pruned
  <2>3. CASE r[ch] = q[ch]
    BY <2>1, <2>3
  <2>4. CASE r[ch] = <<>>
    BY <2>4 DEF ToSet
  <2>5. CASE /\ Waits(q[ch]) # {}
             /\ r[ch] = SubSeq(q[ch], Min(Waits(q[ch])), Len(q[ch]))
    <3>1. Min(Waits(q[ch])) \in 1..Len(q[ch]) + 1
      BY <2>1, <2>5, WaitsAreNodes
    <3> QED
      BY <2>1, <2>5, <3>1, EndOf
  <2> QED
    BY <2>2, <2>3, <2>4, <2>5
<1> QED
  BY <1>1, <1>2 DEF Drops, Queues

LEMMA BehindDrops ==
    ASSUME NEW q, NEW r, Drops(q, r), NEW ch
    PROVE  Drops(q, [r EXCEPT ![ch] = Behind(@)])
<1> DEFINE s == [r EXCEPT ![ch] = Behind(@)]
<1>1. DOMAIN s = Channels
  BY DEF Drops, Queues
<1>2. ASSUME NEW d \in Channels
      PROVE  s[d] \in Seq(ToSet(s[d])) /\ ToSet(s[d]) \subseteq ToSet(q[d])
  <2>1. r[d] \in Seq(ToSet(r[d])) /\ ToSet(r[d]) \subseteq ToSet(q[d])
    BY DEF Drops, Queues
  <2>2. s[d] = r[d] \/ s[d] = Behind(r[d])
    BY DEF Drops, Queues
  <2> QED
    BY <2>1, <2>2, BehindIsEnd
<1> QED
  BY <1>1, <1>2 DEF Drops, Queues

LEMMA DropsFills ==
    ASSUME NEW q, NEW r, Drops(q, r)
    PROVE  Fills(q, r)
  BY DEF Drops, Fills, NodesOf

-----------------------------------------------------------------------------
(* Fibers *)

LEMMA EnqueuedParksNobody ==
    ASSUME NInv, NEW w, state' = Enqueued(state, w)
    PROVE  NobodyParks
  BY DEF NInv, NobodyParks, Enqueued, States

LEMMA ParksElsewhere ==
    ASSUME NInv, NEW f, NEW st \in States \ {"chan"}, Parks(f, st)
    PROVE  NobodyParks
  BY DEF NInv, NobodyParks, Parks

LEMMA IdleParksNobody ==
    ASSUME NInv, UNCHANGED state
    PROVE  NobodyParks
  BY DEF NInv, NobodyParks

LEMMA CompleteParksNobody ==
    ASSUME NInv, NEW f, NEW isFailure, Complete(f, isFailure)
    PROVE  NobodyParks
<1>1. PICK w : state' = [Enqueued(state, w) EXCEPT ![f] = "done"]
  BY DEF Complete
<1> QED
  BY <1>1 DEF NInv, NobodyParks, Enqueued, States

LEMMA ReschedulesParksNobody ==
    ASSUME NInv, Reschedules
    PROVE  NobodyParks
<1>1. CASE Dispatch
  BY <1>1 DEF Dispatch, NInv, NobodyParks, States
<1>2. CASE Poll
  BY <1>2, EnqueuedParksNobody DEF Poll
<1>3. CASE Stall
  BY <1>3, IdleParksNobody DEF Stall
<1> QED
  BY <1>1, <1>2, <1>3 DEF Reschedules

LEMMA FiberStepParksNobody ==
    ASSUME NInv, NEW f, FiberStep(f)
    PROVE  NobodyParks
<1>1. CASE TaskSleeps(f)
  <2>1. UNCHANGED state \/ Parks(f, "sleeping")
    BY <1>1 DEF TaskSleeps, Sleep, schedVars
  <2> QED
    BY <2>1, IdleParksNobody, ParksElsewhere DEF States
<1>2. CASE TaskReads(f)
  <2>1. UNCHANGED state \/ Parks(f, "io")
    BY <1>2 DEF TaskReads, WaitReadable, schedVars
  <2> QED
    BY <2>1, IdleParksNobody, ParksElsewhere DEF States
<1>3. CASE TaskReadsOn(f) \/ TaskPanics(f) \/ Gather(f)
  BY <1>3, IdleParksNobody DEF TaskReadsOn, Read, TaskPanics, Gather
<1>4. CASE OpenGroup(f) \/ LeaveGroup(f) \/ DrainGroup(f)
  BY <1>4, IdleParksNobody
  DEF OpenGroup, LeaveGroup, DrainGroup, PopsGroup, schedVars
<1>5. CASE Spawn(f)
  BY <1>5, EnqueuedParksNobody DEF Spawn
<1>6. CASE JoinParks(f)
  BY <1>6, ParksElsewhere DEF JoinParks, States
<1>7. CASE JoinReturns(f) \/ Value(f) \/ ValueReturns(f)
  BY <1>7, IdleParksNobody DEF JoinReturns, Value, ValueReturns
<1>8. CASE ValueParks(f)
  <2>1. UNCHANGED state \/ Parks(f, "joining")
    BY <1>8 DEF ValueParks
  <2> QED
    BY <2>1, IdleParksNobody, ParksElsewhere DEF States
<1>9. CASE TaskReturns(f)
  BY <1>9, CompleteParksNobody DEF TaskReturns
<1>10. CASE TaskDies(f)
  BY <1>10, CompleteParksNobody DEF TaskDies
<1> QED
  BY <1>1, <1>2, <1>3, <1>4, <1>5, <1>6, <1>7, <1>8, <1>9, <1>10
  DEF FiberStep

\* No step of IyiGroup parks a fiber on a channel.
LEMMA GroupParksNobody ==
    ASSUME NInv, Next
    PROVE  NobodyParks
<1>1. CASE Reschedules
  BY <1>1, ReschedulesParksNobody
<1>2. CASE \E f \in Fibers : FiberStep(f)
  BY <1>2, FiberStepParksNobody
<1>3. CASE MainReturns \/ MainDies
  BY <1>3, IdleParksNobody DEF MainReturns, MainDies, Exit
<1>4. CASE Passes \/ \E fd \in Fds : Answers(fd)
  BY <1>4, IdleParksNobody DEF Passes, Tick, Answers, Arrive
<1>5. CASE Over
  BY <1>5, IdleParksNobody DEF Over, vars, schedVars
<1> QED
  BY <1>1, <1>2, <1>3, <1>4, <1>5 DEF Next, Runtime

-----------------------------------------------------------------------------
(* Operations *)

\* A step that wakes, unlinks and ends operations.
LEMMA WakesMove ==
    ASSUME NInv, NobodyParks, UNCHANGED nonce, ArmsEnd',
           Drops(recvq, recvq'), Drops(sendq, sendq')
    PROVE  Moves
<1>1. Counts
  BY DEF NInv, NobodyParks, Counts
<1> QED
  BY <1>1, DropsFills DEF Moves

LEMMA SameDrops ==
    ASSUME NEW q, Queues(q)
    PROVE  Drops(q, q)
  BY DEF Drops, Queues

LEMMA EndsArms ==
    ASSUME NInv, NEW f, Ends(f)
    PROVE  ArmsEnd' /\ UNCHANGED nonce
<1>1. IsFiniteSet(DOMAIN <<>>)
  BY FS_EmptySet
<1>2. arms' = [arms EXCEPT ![f] = <<>>] /\ UNCHANGED nonce
  BY DEF Ends
<1>3. DOMAIN arms = Fibers /\ \A g \in Fibers : IsFiniteSet(DOMAIN arms[g])
  BY DEF NInv, ArmsEnd
<1>4. DOMAIN arms' = Fibers
  BY <1>2, <1>3
<1>5. \A g \in Fibers : arms'[g] = arms[g] \/ arms'[g] = <<>>
  BY <1>2, <1>3
<1> QED
  BY <1>1, <1>2, <1>3, <1>4, <1>5 DEF ArmsEnd

LEMMA PutNowWakes ==
    ASSUME NInv, NEW as, NEW i, PutNow(as, i)
    PROVE  /\ NobodyParks
           /\ Drops(recvq, recvq') /\ Drops(sendq, sendq')
<1> DEFINE ch == as[i].ch
           rq == Pruned(recvq, "send", Before(as, i))
<1>1. NobodyParks
  BY EnqueuedParksNobody DEF PutNow
<1>2. Drops(recvq, rq)
  BY PrunedDrops DEF NInv
<1>3. Drops(recvq, [rq EXCEPT ![ch] = Behind(@)])
  BY <1>2, BehindDrops
<1>4. recvq' = rq \/ recvq' = [rq EXCEPT ![ch] = Behind(@)]
  BY DEF PutNow
<1>5. sendq' = Pruned(sendq, "recv", Before(as, i))
  BY DEF PutNow
<1>6. Drops(sendq, sendq')
  BY <1>5, PrunedDrops DEF NInv
<1> QED
  BY <1>1, <1>2, <1>3, <1>4, <1>6

LEMMA TakeNowWakes ==
    ASSUME NInv, NEW as, NEW i, TakeNow(as, i)
    PROVE  /\ NobodyParks
           /\ Drops(recvq, recvq') /\ Drops(sendq, sendq')
<1> DEFINE ch == as[i].ch
           sq == Pruned(sendq, "recv", Before(as, i))
<1>1. NobodyParks
  BY EnqueuedParksNobody DEF TakeNow
<1>2. Drops(sendq, sq)
  BY PrunedDrops DEF NInv
<1>3. Drops(sendq, [sq EXCEPT ![ch] = Behind(@)])
  BY <1>2, BehindDrops
<1>4. sendq' = sq \/ sendq' = [sq EXCEPT ![ch] = Behind(@)]
  BY DEF TakeNow
<1>5. recvq' = Pruned(recvq, "send", Before(as, i))
  BY DEF TakeNow
<1>6. Drops(recvq, recvq')
  BY <1>5, PrunedDrops DEF NInv
<1> QED
  BY <1>1, <1>2, <1>3, <1>4, <1>6

LEMMA WinsMoves ==
    ASSUME NInv, NEW f, NEW as, NEW i, Wins(as, i), Ends(f)
    PROVE  Moves
  BY PutNowWakes, TakeNowWakes, EndsArms, WakesMove DEF Wins

\* A step that ends an operation and leaves state and queues alone.
LEMMA QuietEndMoves ==
    ASSUME NInv, NEW f, Ends(f), UNCHANGED <<state, recvq, sendq>>
    PROVE  Moves
<1>1. Drops(recvq, recvq') /\ Drops(sendq, sendq')
  BY SameDrops DEF NInv
<1> QED
  BY <1>1, IdleParksNobody, EndsArms, WakesMove

LEMMA EndsRefusedMoves ==
    ASSUME NInv, NEW f, NEW as, EndsRefused(f, as)
    PROVE  Moves
  BY QuietEndMoves DEF EndsRefused, queueVars

LEMMA BoxEmptiedMoves ==
    ASSUME NInv, NEW f, BoxEmptied(f)
    PROVE  Moves
  BY QuietEndMoves DEF BoxEmptied, queueVars

\* A list of nodes of this very park of f, put behind what is left of each
\* queue.
Fresh(f, t) == \A n \in ToSet(t) : n.fiber = f /\ n.nonce = nonce'[f]

LEMMA FreshNodes ==
    ASSUME NEW f, NEW N \in Nat, NEW S, NEW t \in [1..N -> S],
           \A k \in 1..N : t[k].fiber = f /\ t[k].nonce = nonce'[f]
    PROVE  t \in Seq(ToSet(t)) /\ Fresh(f, t)
<1>1. t \in Seq(S) /\ DOMAIN t = 1..N
  OBVIOUS
<1>2. t \in Seq(ToSet(t))
  BY <1>1, OverItself, Zenon
<1>3. \A n \in ToSet(t) : \E k \in 1..N : n = t[k]
  BY <1>1, Zenon DEF ToSet
<1> QED
  BY <1>2, <1>3, Zenon DEF Fresh

\* r is the queues p with such a list t[ch] behind each.
Lengthened(f, p, t, r) ==
    /\ DOMAIN r = Channels
    /\ \A ch \in Channels : /\ t[ch] \in Seq(ToSet(t[ch]))
                            /\ Fresh(f, t[ch])
                            /\ r[ch] = p[ch] \o t[ch]

LEMMA FreshFills ==
    ASSUME NEW f \in Fibers, NEW q, NEW p, Drops(q, p), NEW r, NEW t,
           Lengthened(f, p, t, r)
    PROVE  Fills(q, r)
<1>1. ASSUME NEW ch \in Channels
      PROVE  /\ r[ch] \in Seq(ToSet(r[ch]))
             /\ ToSet(r[ch]) = ToSet(p[ch]) \cup ToSet(t[ch])
  <2> DEFINE S == ToSet(p[ch]) \cup ToSet(t[ch])
  <2>1. p[ch] \in Seq(ToSet(p[ch]))
    BY DEF Drops, Queues
  <2>2. p[ch] \in Seq(S) /\ t[ch] \in Seq(S)
    BY <2>1, OverMore DEF Lengthened
  <2>3. p[ch] \o t[ch] \in Seq(S) /\ ToSet(p[ch] \o t[ch]) = S
    BY <2>2, ElementsOfConcat, ConcatProperties
  <2> QED
    BY <2>3, OverItself DEF Lengthened
<1>2. Queues(r)
  BY <1>1 DEF Queues, Lengthened
<1>3. ASSUME NEW n \in NodesOf(r)
      PROVE  \/ n \in NodesOf(q)
             \/ n.fiber \in Fibers /\ n.nonce = nonce'[n.fiber]
  <2>1. PICK ch \in Channels : n \in ToSet(r[ch])
    BY <1>3 DEF NodesOf
  <2>2. CASE n \in ToSet(p[ch])
    BY <2>2 DEF Drops, NodesOf
  <2>3. CASE n \in ToSet(t[ch])
    BY <2>3 DEF Fresh, Lengthened
  <2> QED
    BY <1>1, <2>1, <2>2, <2>3
<1> QED
  BY <1>2, <1>3 DEF Fills

LEMMA ParkCounts ==
    ASSUME NInv, NEW f \in Fibers, Park(f)
    PROVE  Counts
  BY DEF NInv, Counts, Park, Parks, States

LEMMA ParkArmsMoves ==
    ASSUME NInv, NEW f \in Fibers, NEW as, IsFiniteSet(DOMAIN as),
           ParkArms(f, as), arms' = [arms EXCEPT ![f] = as]
    PROVE  Moves
<1>1. Counts
  BY ParkCounts DEF ParkArms
<1>2. ArmsEnd'
  BY DEF NInv, ArmsEnd
<1>3. \A dir, ch : Cardinality(On(as, dir, ch)) \in Nat
  <2>1. \A dir, ch : On(as, dir, ch) \subseteq DOMAIN as
    BY DEF On
  <2> QED
    BY <2>1, FS_Subset, FS_CardinalityType
<1>4. Fills(recvq, recvq')
  <2> DEFINE p == Pruned(recvq, "send", as)
             t == [ch \in Channels |->
                     [k \in 1..Cardinality(On(as, "recv", ch)) |->
                        [fiber |-> f, nonce |-> nonce'[f]]]]
  <2>1. Drops(recvq, p)
    BY PrunedDrops DEF NInv
  <2>2. /\ DOMAIN recvq' = Channels
        /\ \A ch \in Channels : recvq'[ch] = p[ch] \o t[ch]
    BY DEF ParkArms
  <2>3. ASSUME NEW ch \in Channels
        PROVE  t[ch] \in Seq(ToSet(t[ch])) /\ Fresh(f, t[ch])
    <3> DEFINE N == Cardinality(On(as, "recv", ch))
               node == [fiber |-> f, nonce |-> nonce'[f]]
    <3>1. N \in Nat
      BY <1>3
    <3>2. t[ch] = [k \in 1..N |-> node]
      OBVIOUS
    <3>3. t[ch] \in [1..N -> {node}]
      BY <3>2, Zenon
    <3>4. \A k \in 1..N : t[ch][k] = node
      BY <3>2, Zenon
    <3>5. node.fiber = f /\ node.nonce = nonce'[f]
      OBVIOUS
    <3> HIDE DEF N, node, t
    <3> QED
      BY <3>1, <3>3, <3>4, <3>5, FreshNodes
  <2> HIDE DEF p, t
  <2>4. Lengthened(f, p, t, recvq')
    BY <2>2, <2>3 DEF Lengthened
  <2> QED
    BY <2>1, <2>4, FreshFills
<1>5. Fills(sendq, sendq')
  <2> DEFINE p == Pruned(sendq, "recv", as)
             t == [ch \in Channels |->
                     [k \in 1..Cardinality(On(as, "send", ch)) |->
                        [fiber |-> f, nonce |-> nonce'[f],
                         v |-> as[Nth(On(as, "send", ch), k)].v]]]
  <2>1. Drops(sendq, p)
    BY PrunedDrops DEF NInv
  <2>2. /\ DOMAIN sendq' = Channels
        /\ \A ch \in Channels : sendq'[ch] = p[ch] \o t[ch]
    BY DEF ParkArms
  <2>3. ASSUME NEW ch \in Channels
        PROVE  t[ch] \in Seq(ToSet(t[ch])) /\ Fresh(f, t[ch])
    <3> DEFINE N == Cardinality(On(as, "send", ch))
               node(k) == [fiber |-> f, nonce |-> nonce'[f],
                           v |-> as[Nth(On(as, "send", ch), k)].v]
    <3>1. N \in Nat
      BY <1>3
    <3>2. t[ch] = [k \in 1..N |-> node(k)]
      OBVIOUS
    <3>3. \A k : node(k).fiber = f /\ node(k).nonce = nonce'[f]
      OBVIOUS
    <3> HIDE DEF N, node, t
    <3> DEFINE S == {node(k) : k \in 1..N}
    <3>4. t[ch] \in [1..N -> S]
      BY <3>2
    <3> HIDE DEF S
    <3>5. \A k \in 1..N : t[ch][k] = node(k)
      BY <3>2, Zenon
    <3>6. \A k \in 1..N : t[ch][k].fiber = f /\ t[ch][k].nonce = nonce'[f]
      BY <3>3, <3>5, Zenon
    <3> QED
      BY <3>1, <3>4, <3>6, FreshNodes, Zenon
  <2> HIDE DEF p, t
  <2>4. Lengthened(f, p, t, sendq')
    BY <2>2, <2>3 DEF Lengthened
  <2> QED
    BY <2>1, <2>4, FreshFills
<1> QED
  BY <1>1, <1>2, <1>4, <1>5 DEF Moves

LEMMA RoundMoves ==
    ASSUME NInv, NEW f \in Fibers, NEW as, IsFiniteSet(DOMAIN as), NEW step,
           Round(f, as, step)
    PROVE  Moves
<1>1. CASE (\E i \in DOMAIN as : Wins(as, i)) /\ Ends(f)
  BY <1>1, WinsMoves
<1>2. CASE ParkArms(f, as) /\ arms' = [arms EXCEPT ![f] = as]
  BY <1>2, ParkArmsMoves
<1> QED
  BY <1>1, <1>2 DEF Round

LEMMA BeginsMoves ==
    ASSUME NInv, NEW f \in Fibers, NEW step, NEW l, IsFiniteSet(DOMAIN l),
           Begins(f, step, l)
    PROVE  Moves
<1> DEFINE as == [i \in DOMAIN l |->
                    [dir |-> l[i].dir, ch |-> l[i].ch,
                     v |-> IF l[i].dir = "send" THEN minted + i ELSE 0]]
<1>1. IsFiniteSet(DOMAIN as)
  OBVIOUS
<1>2. EndsRefused(f, as) \/ Round(f, as, step)
  BY DEF Begins
<1> HIDE DEF as
<1> QED
  BY <1>1, <1>2, EndsRefusedMoves, RoundMoves

LEMMA TrySelectMoves ==
    ASSUME NInv, NEW f, TrySelect(f)
    PROVE  Moves
<1>1. PICK l \in ArmLists :
         LET as == [i \in DOMAIN l |->
                      [dir |-> l[i].dir, ch |-> l[i].ch, v |-> minted + i]]
         IN  \/ EndsRefused(f, as)
             \/ (\E i \in DOMAIN as : Wins(as, i)) /\ Ends(f)
             \/ /\ Ends(f) /\ UNCHANGED state
                /\ recvq' = Pruned(recvq, "send", as)
                /\ sendq' = Pruned(sendq, "recv", as)
  BY DEF TrySelect
<1> DEFINE as == [i \in DOMAIN l |->
                    [dir |-> l[i].dir, ch |-> l[i].ch, v |-> minted + i]]
<1>2. CASE EndsRefused(f, as)
  BY <1>2, EndsRefusedMoves
<1>3. CASE (\E i \in DOMAIN as : Wins(as, i)) /\ Ends(f)
  BY <1>3, WinsMoves
<1>4. CASE /\ Ends(f) /\ UNCHANGED state
           /\ recvq' = Pruned(recvq, "send", as)
           /\ sendq' = Pruned(sendq, "recv", as)
  <2>1. Drops(recvq, recvq') /\ Drops(sendq, sendq')
    BY <1>4, PrunedDrops DEF NInv
  <2> QED
    BY <1>4, <2>1, IdleParksNobody, EndsArms, WakesMove
<1> HIDE DEF as
<1> QED
  BY <1>1, <1>2, <1>3, <1>4 DEF as

LEMMA CloseMoves ==
    ASSUME NInv, NEW f, Close(f)
    PROVE  Moves
<1>1. PICK ch \in Channels :
        /\ \E w : state' = Enqueued(state, w)
        /\ recvq' = [recvq EXCEPT ![ch] = <<>>]
        /\ sendq' = [sendq EXCEPT ![ch] = <<>>]
  BY DEF Close
<1>2. UNCHANGED <<arms, nonce>>
  BY DEF Close
<1>3. NobodyParks
  BY <1>1, EnqueuedParksNobody
<1>4. ArmsEnd'
  BY <1>2 DEF NInv, ArmsEnd
<1>5. ASSUME NEW q, Queues(q) PROVE Drops(q, [q EXCEPT ![ch] = <<>>])
  <2> DEFINE r == [q EXCEPT ![ch] = <<>>]
  <2>1. DOMAIN r = Channels
    BY <1>5 DEF Queues
  <2>2. \A d \in Channels : r[d] = q[d] \/ r[d] = <<>>
    BY <1>5 DEF Queues
  <2>3. ToSet(<<>>) = {} /\ <<>> \in Seq(ToSet(<<>>))
    BY DEF ToSet
  <2>4. \A d \in Channels :
          r[d] \in Seq(ToSet(r[d])) /\ ToSet(r[d]) \subseteq ToSet(q[d])
    BY <1>5, <2>2, <2>3 DEF Queues
  <2> QED
    BY <2>1, <2>4 DEF Drops, Queues
<1>6. Drops(recvq, recvq') /\ Drops(sendq, sendq')
  BY <1>1, <1>5 DEF NInv
<1> QED
  BY <1>2, <1>3, <1>4, <1>6, WakesMove

LEMMA StepMoves ==
    ASSUME NInv, NEW f \in Fibers, ChanStep(f)
    PROVE  Moves
<1>1. CASE Send(f) \/ Receive(f)
  <2>1. PICK dir, ch, step : Begins(f, step, <<[dir |-> dir, ch |-> ch]>>)
    BY <1>1, Zenon DEF Send, Receive
  <2> DEFINE l == <<[dir |-> dir, ch |-> ch]>>
  <2>2. DOMAIN l = {1}
    OBVIOUS
  <2>3. IsFiniteSet(DOMAIN l)
    BY <2>2, FS_Singleton, Zenon
  <2> HIDE DEF l
  <2> QED
    BY <2>1, <2>3, BeginsMoves DEF l
<1>2. CASE Select(f)
  <2>1. PICK l \in ArmLists : Begins(f, "select", l)
    BY <1>2 DEF Select
  <2>2. l \in Seq([dir : {"send", "recv"}, ch : Channels])
    BY ChannelAssumption
  <2>3. DOMAIN l = 1..Len(l) /\ Len(l) \in Nat
    BY <2>2
  <2>4. IsFiniteSet(1..Len(l))
    BY <2>3, FS_Interval
  <2>5. IsFiniteSet(DOMAIN l)
    BY <2>3, <2>4, Zenon
  <2> QED
    BY <2>1, <2>5, BeginsMoves
<1>3. CASE TrySelect(f)
  BY <1>3, TrySelectMoves
<1>4. CASE Close(f)
  BY <1>4, CloseMoves
<1>5. CASE SendResumes(f) \/ ReceiveResumes(f) \/ SelectResumes(f)
  <2>1. \/ BoxEmptied(f)
        \/ EndsRefused(f, arms[f])
        \/ \E step : Round(f, arms[f], step)
    BY <1>5, Zenon DEF SendResumes, ReceiveResumes, SelectResumes
  <2>2. IsFiniteSet(DOMAIN arms[f])
    BY DEF NInv, ArmsEnd
  <2> QED
    BY <2>1, <2>2, BoxEmptiedMoves, EndsRefusedMoves, RoundMoves
<1> QED
  BY <1>1, <1>2, <1>3, <1>4, <1>5 DEF ChanStep

\* Every step of the system, and every stutter, moves on.
LEMMA EveryStepMoves ==
    ASSUME NInv, [ChanNext]_allVars
    PROVE  Moves
<1>1. ASSUME NobodyParks, UNCHANGED <<nonce, arms, recvq, sendq>>
      PROVE  Moves
  <2>1. Drops(recvq, recvq') /\ Drops(sendq, sendq')
    BY <1>1, SameDrops DEF NInv
  <2>2. ArmsEnd'
    BY <1>1 DEF NInv, ArmsEnd
  <2> QED
    BY <1>1, <2>1, <2>2, WakesMove
<1>2. CASE Next /\ UNCHANGED chanVars
  BY <1>1, <1>2, GroupParksNobody DEF chanVars, queueVars
<1>3. CASE \E f \in Fibers : ChanStep(f)
  BY <1>3, StepMoves
<1>4. CASE UNCHANGED allVars
  BY <1>1, <1>4, IdleParksNobody
  DEF allVars, vars, schedVars, chanVars, queueVars
<1> QED
  BY <1>2, <1>3, <1>4 DEF ChanNext

-----------------------------------------------------------------------------
(* The theorem *)

LEMMA NInvInit == ChanInits => NInv
<1> SUFFICES ASSUME ChanInits PROVE NInv
  OBVIOUS
<1>1. state \in [Fibers -> States]
  BY DEF ChanInits, Init, SchedInit, States
<1>2. nonce \in [Fibers -> Nat]
  BY DEF ChanInits, ChanInit
<1>3. ArmsEnd
  <2>1. IsFiniteSet(DOMAIN <<>>)
    BY FS_EmptySet
  <2> QED
    BY <2>1 DEF ChanInits, ChanInit, ArmsEnd
<1>4. ToSet(<<>>) = {} /\ <<>> \in Seq(ToSet(<<>>))
  BY DEF ToSet
<1>5. Queues(recvq) /\ Queues(sendq)
  BY <1>4 DEF ChanInits, ChanInit, Queues
<1>6. NodesOf(recvq) = {} /\ NodesOf(sendq) = {}
  BY <1>4 DEF ChanInits, ChanInit, NodesOf
<1> QED
  BY <1>1, <1>2, <1>3, <1>5, <1>6 DEF NInv

LEMMA NInvStep ==
    ASSUME NInv, Moves
    PROVE  NInv'
<1>1. ASSUME NEW q, NEW r, \A n \in NodesOf(q) : Dated(n), Fills(q, r)
      PROVE  \A n \in NodesOf(r) : Dated(n)'
  BY <1>1 DEF Moves, Counts, NInv, Fills, Dated
<1>2. \A n \in NodesOf(recvq)' : Dated(n)'
  BY <1>1 DEF NInv, Moves, NodesOf
<1>3. \A n \in NodesOf(sendq)' : Dated(n)'
  BY <1>1 DEF NInv, Moves, NodesOf
<1>4. Queues(recvq)' /\ Queues(sendq)'
  BY DEF Moves, Fills, Queues
<1> QED
  BY <1>2, <1>3, <1>4 DEF NInv, Moves, Counts

\* A dated node that is stale before such a step is stale after it.
LEMMA StaleStep ==
    ASSUME NInv, Moves, NEW n, Dated(n), ~Current(n)
    PROVE  ~Current(n)'
  BY DEF NInv, Moves, Counts, Dated, Current

\* No node of a queue that was stale, its fiber gone from the park it was
\* made for, is ever taken for a later park of that fiber: whatever the
\* program sends, receives, selects, closes and cancels, in any order.
THEOREM StaleStaysStale == ChanSpec => StaleForGood
<1>1. ChanInits => NInv
  BY NInvInit
<1>2. NInv /\ [ChanNext]_allVars => NInv'
  BY EveryStepMoves, NInvStep
<1>3. NInv /\ [ChanNext]_allVars =>
        [\A ch \in Channels :
           \A n \in ToSet(recvq[ch]) \cup ToSet(sendq[ch]) :
             ~Current(n) => ~Current(n)']_allVars
  <2> SUFFICES ASSUME NInv, [ChanNext]_allVars,
                      NEW ch \in Channels,
                      NEW n \in ToSet(recvq[ch]) \cup ToSet(sendq[ch]),
                      ~Current(n)
               PROVE  ~Current(n)'
    OBVIOUS
  <2>1. Dated(n)
    BY DEF NInv, NodesOf
  <2> QED
    BY <2>1, EveryStepMoves, StaleStep
<1> QED
  BY <1>1, <1>2, <1>3, PTL DEF ChanSpec, StaleForGood
=============================================================================
