----------------------------- MODULE IyiChannel -----------------------------
(***************************************************************************)
(* Channel(T), IyiWaiter, IyiSendNode and select of                        *)
(* src/iyi/concurrency.iyi, between the fibers of IyiGroup.                *)
(*                                                                         *)
(* A plain send or receive is one arm; a select is a list of arms tried in *)
(* order.  An operation that finds no arm ready parks once, in state       *)
(* "chan", with one node per arm stamped with the park's nonce; a node     *)
(* whose fiber has left that park is stale, and is skipped when met.       *)
(* Every value sent is a number of its own.                                *)
(***************************************************************************)
EXTENDS IyiGroup

CONSTANTS
    Channels,
    Capacity,     \* Capacity[ch]: Channel#capacity
    ArmLists      \* the lists of arms, [dir, ch], a select is written with

ASSUME ChannelAssumption ==
    /\ IsFiniteSet(Channels)
    /\ Capacity \in [Channels -> Nat]
    /\ ArmLists \subseteq Seq([dir : {"send", "recv"}, ch : Channels])
    /\ <<>> \notin ArmLists   \* parse_select refuses a select without a when

VARIABLES
    items,        \* Channel#items
    closed,       \* Channel#closed
    recvq,        \* recv_head .. recv_tail
    sendq,        \* send_head .. send_tail
    emptied,      \* the values whose box a receive emptied
    nonce,        \* IyiFiber#park_nonce
    arms,         \* the arms of the operation each fiber is inside
    minted,       \* history: how many values the program has made
    accepted,     \* history: the values whose send answered nil
    refused,      \* history: those that never will: closed, cancelled, lost
    log           \* history: the values received from each channel

queueVars == <<items, closed, recvq, sendq, emptied>>
historyVars == <<minted, accepted, refused, log>>
chanVars == <<queueVars, nonce, arms, historyVars>>
allVars == <<vars, chanVars>>

\* What no channel operation touches.
farVars == <<quietVars, cancelled, panicked, taskVars, groupVars, scopes>>

Arms == [dir : {"send", "recv"}, ch : Channels, v : Nat]

ChanTypeOK ==
    /\ items \in [Channels -> Seq(Nat)]
    /\ closed \in [Channels -> BOOLEAN]
    /\ recvq \in [Channels -> Seq([fiber : Fibers, nonce : Nat])]
    /\ sendq \in [Channels -> Seq([fiber : Fibers, nonce : Nat, v : Nat])]
    /\ emptied \subseteq 1..minted
    /\ nonce \in [Fibers -> Nat]
    /\ arms \in [Fibers -> Seq(Arms)]
    /\ minted \in Nat
    /\ accepted \subseteq 1..minted
    /\ refused \subseteq 1..minted
    /\ log \in [Channels -> Seq(Nat)]

ChanInit ==
    /\ items = [ch \in Channels |-> <<>>]
    /\ closed = [ch \in Channels |-> FALSE]
    /\ recvq = [ch \in Channels |-> <<>>]
    /\ sendq = [ch \in Channels |-> <<>>]
    /\ emptied = {}
    /\ nonce = [f \in Fibers |-> 0]
    /\ arms = [f \in Fibers |-> <<>>]
    /\ minted = 0
    /\ accepted = {} /\ refused = {}
    /\ log = [ch \in Channels |-> <<>>]

-----------------------------------------------------------------------------
(* Nodes *)

\* IyiWaiter#current?, IyiSendNode#current?
Current(n) == state[n.fiber] = "chan" /\ nonce[n.fiber] = n.nonce

Waits(q) == {i \in DOMAIN q : Current(q[i])}

\* Mutant: the newest node is met first.
OldestIsNewest(q) == q[Max(Waits(q))]

\* wake_receiver and take_sender drop the stale nodes in front of the oldest
\* current one, and that one; with none left, the whole queue.
Oldest(q) == q[Min(Waits(q))]

\* Mutant: a wake drops every node of the queue.
BehindNobody(q) == <<>>

Behind(q) == IF Waits(q) = {} THEN <<>>
             ELSE SubSeq(q, Min(Waits(q)) + 1, Len(q))
OldestFiber(q) == IF Waits(q) = {} THEN <<>> ELSE <<Oldest(q).fiber>>

\* Mutant: receive_ready? does not look for parked senders.
ReadyButSenders(arm) ==
    LET ch == arm.ch IN
    \/ closed[ch]
    \/ arm.dir = "send" /\ ( \/ Len(items[ch]) < Capacity[ch]
                             \/ Waits(recvq[ch]) # {} )
    \/ arm.dir = "recv" /\ items[ch] # <<>>

\* Mutant: receive_ready? does not look in the buffer.
ReadyButItems(arm) ==
    LET ch == arm.ch IN
    \/ closed[ch]
    \/ arm.dir = "send" /\ ( \/ Len(items[ch]) < Capacity[ch]
                             \/ Waits(recvq[ch]) # {} )
    \/ arm.dir = "recv" /\ Waits(sendq[ch]) # {}

\* receive_ready?, send_ready?
Ready(arm) ==
    LET ch == arm.ch IN
    \/ closed[ch]
    \/ arm.dir = "send" /\ ( \/ Len(items[ch]) < Capacity[ch]
                             \/ Waits(recvq[ch]) # {} )
    \/ arm.dir = "recv" /\ (items[ch] # <<>> \/ Waits(sendq[ch]) # {})

\* What receiver_waiting? and sender_waiting?, asked by the arms tried, leave
\* of a queue: they drop the stale nodes in front of a current one.
Pruned(q, dir, tried) ==
    [ch \in Channels |->
        IF \E i \in DOMAIN tried : tried[i].dir = dir /\ tried[i].ch = ch
        THEN IF Waits(q[ch]) = {} THEN <<>>
             ELSE SubSeq(q[ch], Min(Waits(q[ch])), Len(q[ch]))
        ELSE q[ch]]

Before(as, i) == SubSeq(as, 1, i - 1)
Offers(as) == {as[i].v : i \in {j \in DOMAIN as : as[j].dir = "send"}}

-----------------------------------------------------------------------------
(* put_now, take_now *)

\* f's operation as ends with arm i.  The values of its other send arms were
\* never sent.
PutNow(as, i) ==
    LET ch == as[i].ch
        rq == Pruned(recvq, "send", Before(as, i))
        woken == IF closed[ch] THEN <<>> ELSE OldestFiber(rq[ch])
        lost == Offers(as) \ {as[i].v}
    IN  /\ as[i].dir = "send"
        /\ \/ /\ closed[ch]
              /\ recvq' = rq
              /\ refused' = refused \cup Offers(as)
              /\ UNCHANGED <<items, accepted>>
           \/ /\ ~closed[ch]
              /\ recvq' = [rq EXCEPT ![ch] = Behind(@)]
              /\ items' = [items EXCEPT ![ch] = Append(@, as[i].v)]
              /\ accepted' = accepted \cup {as[i].v}
              /\ refused' = refused \cup lost
        /\ runq' = runq \o woken
        /\ state' = Enqueued(state, woken)
        /\ sendq' = Pruned(sendq, "recv", Before(as, i))
        /\ UNCHANGED <<closed, emptied, log>>

TakeNow(as, i) ==
    LET ch == as[i].ch
        sq == Pruned(sendq, "recv", Before(as, i))
        q == sq[ch]
        takes == Waits(q) # {} /\ (items[ch] # <<>> \/ ~closed[ch])
        woken == IF takes THEN OldestFiber(q) ELSE <<>>
        line == IF takes THEN Append(items[ch], Oldest(q).v) ELSE items[ch]
    IN  /\ as[i].dir = "recv"
        /\ \/ /\ line # <<>>
              /\ sendq' = [sq EXCEPT ![ch] = Behind(@)]
              /\ items' = [items EXCEPT ![ch] = Tail(line)]
              /\ log' = [log EXCEPT ![ch] = Append(@, Head(line))]
              /\ emptied' = IF takes THEN emptied \cup {Oldest(q).v}
                            ELSE emptied
           \/ /\ line = <<>>
              /\ sendq' = sq
              /\ UNCHANGED <<items, log, emptied>>
        /\ runq' = runq \o woken
        /\ state' = Enqueued(state, woken)
        /\ recvq' = Pruned(recvq, "send", Before(as, i))
        /\ refused' = refused \cup Offers(as)
        /\ UNCHANGED <<closed, accepted>>

-----------------------------------------------------------------------------
(* The operations *)

\* The first arm that is ready answers.
Wins(as, i) ==
    /\ Ready(as[i])
    /\ \A j \in 1..(i - 1) : ~Ready(as[j])
    /\ PutNow(as, i) \/ TakeNow(as, i)

Unready(as) == \A i \in DOMAIN as : ~Ready(as[i])

\* The arms of as on one side of one channel, and the k-th of them.
On(as, dir, ch) == {i \in DOMAIN as : as[i].dir = dir /\ as[i].ch = ch}
Nth(mine, k) == CHOOSE i \in mine : Cardinality({j \in mine : j <= i}) = k

\* Mutant: a park that does not count its nonce up.
ParkSameNonce(f) == Parks(f, "chan") /\ UNCHANGED nonce

\* park
Park(f) == Parks(f, "chan") /\ nonce' = [nonce EXCEPT ![f] = @ + 1]

\* One node per arm at the tail of its channel's queue, all of this park.
ParkArms(f, as) ==
    /\ Park(f)
    /\ recvq' = [ch \in Channels |->
         Pruned(recvq, "send", as)[ch] \o
           [k \in 1..Cardinality(On(as, "recv", ch)) |->
              [fiber |-> f, nonce |-> nonce'[f]]]]
    /\ sendq' = [ch \in Channels |->
         LET mine == On(as, "send", ch)
         IN  Pruned(sendq, "recv", as)[ch] \o
               [k \in 1..Cardinality(mine) |->
                  [fiber |-> f, nonce |-> nonce'[f],
                   v |-> as[Nth(mine, k)].v]]]

\* The operation is over, on the fiber's own stack.
Ends(f) ==
    /\ Continue(f, "user", None)
    /\ arms' = [arms EXCEPT ![f] = <<>>]
    /\ UNCHANGED <<parked, nonce>>

\* It ends without having touched a channel; what it would have sent is
\* refused.
EndsRefused(f, as) ==
    /\ Ends(f)
    /\ refused' = refused \cup Offers(as)
    /\ UNCHANGED <<state, runq, queueVars, accepted, log>>

\* A round: an arm answers, or the fiber parks on all of them and goes on at
\* step.
Round(f, as, step) ==
    \/ /\ \E i \in DOMAIN as : Wins(as, i)
       /\ Ends(f)
    \/ /\ Unready(as)
       /\ ParkArms(f, as)
       /\ Continue(f, step, None)
       /\ arms' = [arms EXCEPT ![f] = as]
       /\ UNCHANGED <<runq, items, closed, emptied, accepted, refused, log>>

\* The first round of an operation with the arms l.
Begins(f, step, l) ==
    LET as == [i \in DOMAIN l |->
                 [dir |-> l[i].dir, ch |-> l[i].ch,
                  v |-> IF l[i].dir = "send" THEN minted + i ELSE 0]]
    IN  /\ minted' = minted + (IF Offers(as) = {} THEN 0 ELSE Len(l))
        /\ \/ cancelled[f] /\ EndsRefused(f, as)
           \/ ~cancelled[f] /\ Round(f, as, step)
        /\ UNCHANGED farVars

Send(f) ==
    /\ Starts(f, "send")
    /\ \E ch \in Channels : Begins(f, "send", <<[dir |-> "send", ch |-> ch]>>)

Receive(f) ==
    /\ Starts(f, "receive")
    /\ \E ch \in Channels :
         Begins(f, "receive", <<[dir |-> "recv", ch |-> ch]>>)

Select(f) ==
    /\ Starts(f, "select")
    /\ \E l \in ArmLists : Begins(f, "select", l)

\* non_blocking_select: with no arm ready, the else branch.
TrySelect(f) ==
    /\ Starts(f, "try")
    /\ \E l \in ArmLists :
         LET as == [i \in DOMAIN l |->
                      [dir |-> l[i].dir, ch |-> l[i].ch, v |-> minted + i]]
         IN  /\ minted' = minted + Len(l)
             /\ \/ cancelled[f] /\ EndsRefused(f, as)
                \/ /\ ~cancelled[f]
                   /\ \E i \in DOMAIN as : Wins(as, i)
                   /\ Ends(f)
                \/ /\ ~cancelled[f] /\ Unready(as)
                   /\ recvq' = Pruned(recvq, "send", as)
                   /\ sendq' = Pruned(sendq, "recv", as)
                   /\ refused' = refused \cup Offers(as)
                   /\ Ends(f)
                   /\ UNCHANGED <<state, runq, items, closed, emptied,
                                  accepted, log>>
    /\ UNCHANGED farVars

\* A sender learns from its box what became of the value: the plain send,
\* and the arm of a select that won while it was parked.
BoxEmptied(f) ==
    /\ Offers(arms[f]) \cap emptied # {}
    /\ accepted' = accepted \cup (Offers(arms[f]) \cap emptied)
    /\ refused' = refused \cup (Offers(arms[f]) \ emptied)
    /\ Ends(f)
    /\ UNCHANGED <<state, runq, queueVars, log>>

\* send after its park: delivered, Cancelled or ChannelClosed.
SendResumes(f) ==
    /\ Runs(f) /\ pc[f] = "send"
    /\ \/ BoxEmptied(f)
       \/ Offers(arms[f]) \cap emptied = {} /\ EndsRefused(f, arms[f])
    /\ UNCHANGED <<farVars, fuel, minted>>

\* receive after its park: from the top of its loop.
ReceiveResumes(f) ==
    /\ Runs(f) /\ pc[f] = "receive"
    /\ \/ cancelled[f] /\ EndsRefused(f, arms[f])
       \/ ~cancelled[f] /\ Round(f, arms[f], "receive")
    /\ UNCHANGED <<farVars, fuel, minted>>

\* Mutant: a select that was woken does not ask its send arms first.
SelectResumesBlind(f) ==
    /\ Runs(f) /\ pc[f] = "select"
    /\ \/ cancelled[f] /\ EndsRefused(f, arms[f])
       \/ ~cancelled[f] /\ Round(f, arms[f], "select")
    /\ UNCHANGED <<farVars, fuel, minted>>

\* select after its park: a send arm that won, else another round.
SelectResumes(f) ==
    /\ Runs(f) /\ pc[f] = "select"
    /\ \/ BoxEmptied(f)
       \/ /\ Offers(arms[f]) \cap emptied = {}
          /\ \/ cancelled[f] /\ EndsRefused(f, arms[f])
             \/ ~cancelled[f] /\ Round(f, arms[f], "select")
    /\ UNCHANGED <<farVars, fuel, minted>>

\* The fibers parked on a queue, and the order of their first nodes in it.
Parked(q) == {q[i].fiber : i \in Waits(q)}
Line(q) ==
    [i \in DOMAIN q |->
        IF /\ i \in Waits(q)
           /\ \A j \in Waits(q) : j < i => q[j].fiber # q[i].fiber
        THEN q[i].fiber ELSE None]

\* Mutant: close wakes the receivers only.
CloseForReceivers(f) ==
    /\ Starts(f, "close")
    /\ \E ch \in Channels :
         \E r \in InOrder(Line(recvq[ch]), Parked(recvq[ch])) :
           /\ runq' = runq \o r
           /\ state' = Enqueued(state, r)
           /\ closed' = [closed EXCEPT ![ch] = TRUE]
           /\ recvq' = [recvq EXCEPT ![ch] = <<>>]
    /\ UNCHANGED <<farVars, pc, subject, parked, items, sendq, emptied, nonce,
                   arms, historyVars>>

\* close: everyone parked is woken, the receivers first.
Close(f) ==
    /\ Starts(f, "close")
    /\ \E ch \in Channels :
         LET rs == Parked(recvq[ch])
             ss == Parked(sendq[ch]) \ rs
         IN  \E r \in InOrder(Line(recvq[ch]), rs),
                s \in InOrder(Line(sendq[ch]), ss) :
               /\ runq' = runq \o r \o s
               /\ state' = Enqueued(state, r \o s)
               /\ closed' = [closed EXCEPT ![ch] = TRUE]
               /\ recvq' = [recvq EXCEPT ![ch] = <<>>]
               /\ sendq' = [sendq EXCEPT ![ch] = <<>>]
    /\ UNCHANGED <<farVars, pc, subject, parked, items, emptied, nonce, arms,
                   historyVars>>

-----------------------------------------------------------------------------
(* The system *)

ChanStep(f) ==
    \/ Send(f) \/ Receive(f) \/ Select(f) \/ TrySelect(f) \/ Close(f)
    \/ SendResumes(f) \/ ReceiveResumes(f) \/ SelectResumes(f)

ChanInits == Init /\ ChanInit
ChanNext == (Next /\ UNCHANGED chanVars) \/ (\E f \in Fibers : ChanStep(f))
ChanSpec == ChanInits /\ [][ChanNext]_allVars

-----------------------------------------------------------------------------
(* Safety *)

\* Every variable of the channels, too, keeps its type.
AllTypeOK == TypeOK /\ ChanTypeOK

\* A fiber parked in "chan" can be found: some queue holds a node of this
\* very park.  Otherwise no send, receive or close would ever wake it.
ParkIsFindable ==
    \A f \in Fibers : state[f] = "chan" =>
        \E ch \in Channels :
            f \in Parked(recvq[ch]) \cup Parked(sendq[ch])

\* A receiver and a sender of one channel are never both left parked: a
\* rendezvous that can happen has happened.
NoMissedRendezvous ==
    \A ch \in Channels :
        \A r \in Parked(recvq[ch]), s \in Parked(sendq[ch]) : r = s

\* The answers of send are honest.  One that answered nil has its value in
\* the buffer or received; one that answered anything else (closed,
\* cancelled, another arm of the select) has its value nowhere.
HonestReceipt ==
    LET held == UNION {ToSet(items[ch]) : ch \in Channels}
        got == UNION {ToSet(log[ch]) : ch \in Channels}
    IN  /\ refused \cap (accepted \cup held \cup got) = {}
        /\ accepted \subseteq held \cup got

\* Whoever is parked has a reason to be: close reached every parked fiber and
\* nobody parks on that channel again, and a sender is parked only while the
\* buffer is full, however receives, refills and cancellations empty it.
ParkedForReason ==
    /\ AllTypeOK
    /\ \A ch \in Channels :
         /\ closed[ch] => Parked(recvq[ch]) \cup Parked(sendq[ch]) = {}
         /\ Parked(sendq[ch]) # {} => Len(items[ch]) >= Capacity[ch]

\* A node that has gone stale stays stale: no later park of its fiber can
\* be mistaken for the one it was made for.
StaleForGood ==
    [][\A ch \in Channels :
         \A n \in ToSet(recvq[ch]) \cup ToSet(sendq[ch]) :
           ~Current(n) => ~Current(n)']_allVars

\* The receivers on their way to take from ch: woken, not yet run.
Coming(ch) ==
    {f \in Fibers : /\ On(arms[f], "recv", ch) # {}
                    /\ state[f] \in {"runnable", "running"}}

\* While receivers are parked, everything in the buffer has a receiver on
\* its way.
WaitersAreFed ==
    \A ch \in Channels : Parked(recvq[ch]) # {} =>
        Len(items[ch]) <= Cardinality(Coming(ch))

\* In a program without select, until somebody is cancelled, no wake is lost:
\* whatever sends, receives, refills and closes do, no value waits in a buffer
\* beside a receiver that nobody is going to wake for it. (A select that was
\* woken for a value may answer by another arm, and a cancelled receiver leaves
\* without one: either way nobody else is woken for what stays.)
NobodyStarves ==
    ArmLists = {} /\ (\A f \in Fibers : ~cancelled[f]) => WaitersAreFed

-----------------------------------------------------------------------------
(* What the comments say and the code does not do *)

\* A send on a rendezvous completes when a receive takes it: the value of a
\* send that answered nil was received, or its receiver is on the way.
SendMeetsReceive ==
    \A ch \in Channels : Capacity[ch] = 0 =>
        (ToSet(items[ch]) \cap accepted # {} => Coming(ch) # {})

-----------------------------------------------------------------------------
(* Refinement *)

\* The values of the nodes on a queue that are not stale, in their order.
ParkedSends(q) == [k \in 1..Cardinality(Waits(q)) |-> q[Nth(Waits(q), k)].v]

\* What a channel has on offer: its buffer, then its parked senders.
OnOffer(ch) == items[ch] \o ParkedSends(sendq[ch])

\* What the fibers that are waited for at the places W of a queue offer, a set
\* for each fiber.
OfferedTogether(q, W) ==
    {{q[i].v : i \in {j \in W : q[j].fiber = q[k].fiber}} : k \in W}
Open(ch) == OfferedTogether(sendq[ch], Waits(sendq[ch]))

Fifo(ch) == INSTANCE FifoChannel WITH
    Values <- Nat, line <- OnOffer(ch), open <- Open(ch),
    out <- log[ch], shut <- closed[ch]

\* Every channel is a first-in first-out line: no interleaving of sends,
\* receives, selects, cancellations and closes reorders, duplicates or loses a
\* value, and none is lost that the channel has taken into its buffer. A
\* rendezvous is one, with its parked senders and their wakes, and so is a
\* buffered channel, where a value overtakes none on its way from a parked
\* sender through the buffer. Of the values a parked select offers one is sent
\* at most, and the others are withdrawn in the same step.
FirstInFirstOut ==
    /\ \A ch \in Channels : Fifo(ch)!Init
    /\ [][\A ch \in Channels : [Fifo(ch)!Next]_(Fifo(ch)!vars)]_allVars
=============================================================================
