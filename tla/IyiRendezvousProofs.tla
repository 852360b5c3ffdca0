------------------------- MODULE IyiRendezvousProofs -------------------------
(***************************************************************************)
(* What channels promise the fibers that meet on them, for every set of    *)
(* fibers, groups and channels, every capacity, every list of arms and     *)
(* every program.                                                          *)
(***************************************************************************)
EXTENDS IyiChannelProofs, IyiGroupProofs

-----------------------------------------------------------------------------
(* Queues of nodes *)

\* What a list holds, and what holds a list's elements.
LEMMA Element ==
    ASSUME NEW T, NEW q \in Seq(T), NEW i \in DOMAIN q
    PROVE  q[i] \in T /\ i \in Nat
  OBVIOUS

\* A list that holds something has a first element.
LEMMA First ==
    ASSUME NEW T, NEW q \in Seq(T), q # <<>>
    PROVE  1 \in DOMAIN q
  OBVIOUS

\* A function from 1..n is a list of n elements.
LEMMA IsList ==
    ASSUME NEW T, NEW n \in Nat, NEW q \in [1..n -> T]
    PROVE  q \in Seq(T) /\ Len(q) = n
  OBVIOUS

\* What the operators on queues return are queues of the same nodes.
LEMMA BehindType ==
    ASSUME NEW T, NEW q \in Seq(T)
    PROVE  Behind(q) \in Seq(T)
<1>1. CASE Waits(q) = {}
  BY <1>1 DEF Behind
<1>2. CASE Waits(q) # {}
  <2>1. q \in Seq(ToSet(q))
    BY OverItself
  <2>2. Min(Waits(q)) + 1 \in Nat \ {0} /\ Len(q) \in 0..Len(q)
    BY <1>2, <2>1, WaitsAreNodes
  <2> QED
    BY <1>2, <2>2, PartOf DEF Behind
<1> QED
  BY <1>1, <1>2

\* Looking at the queues leaves queues of the same nodes.
LEMMA PrunedType ==
    ASSUME NEW T, NEW q \in [Channels -> Seq(T)], NEW dir, NEW tried
    PROVE  Pruned(q, dir, tried) \in [Channels -> Seq(T)]
<1> DEFINE r == Pruned(q, dir, tried)
<1>1. r = [ch \in Channels |-> r[ch]]
  BY DEF Pruned
<1>2. \A ch \in Channels :
        \/ r[ch] = q[ch]
        \/ r[ch] = <<>>
        \/ /\ Waits(q[ch]) # {}
           /\ r[ch] = SubSeq(q[ch], Min(Waits(q[ch])), Len(q[ch]))
  BY DEF Pruned
<1> HIDE DEF r
<1>3. ASSUME NEW ch \in Channels, Waits(q[ch]) # {}
      PROVE  SubSeq(q[ch], Min(Waits(q[ch])), Len(q[ch])) \in Seq(T)
  <2>1. q[ch] \in Seq(T)
    OBVIOUS
  <2>2. q[ch] \in Seq(ToSet(q[ch]))
    BY <2>1, OverItself
  <2>3. Min(Waits(q[ch])) \in Nat \ {0} /\ Len(q[ch]) \in 0..Len(q[ch])
    BY <1>3, <2>1, <2>2, WaitsAreNodes
  <2> QED
    BY <2>1, <2>3, PartOf
<1>4. ASSUME NEW ch \in Channels PROVE r[ch] \in Seq(T)
  <2>1. q[ch] \in Seq(T) /\ <<>> \in Seq(T)
    OBVIOUS
  <2> QED
    BY <1>2, <1>3, <2>1, Zenon
<1>5. [ch \in Channels |-> r[ch]] \in [Channels -> Seq(T)]
  BY <1>4
<1> QED
  BY <1>1, <1>5 DEF r

\* The node a wake takes is one of the queue's, its fiber parked on it.
LEMMA OldestType ==
    ASSUME NEW T, NEW q \in Seq(T), Waits(q) # {}
    PROVE  Oldest(q) \in ToSet(q) /\ Oldest(q) \in T /\ Current(Oldest(q))
<1>1. Waits(q) \in SUBSET Nat
  BY DEF Waits
<1>2. Min(Waits(q)) \in Waits(q)
  BY <1>1, Smallest
<1>3. Min(Waits(q)) \in DOMAIN q /\ Current(q[Min(Waits(q))])
  BY <1>2 DEF Waits
<1>4. q[Min(Waits(q))] \in ToSet(q) /\ q[Min(Waits(q))] \in T
  BY <1>3 DEF ToSet
<1> QED
  BY <1>3, <1>4 DEF Oldest

\* The k-th of the arms on one side of a channel is one of them.
LEMMA NthIsOne ==
    ASSUME NEW N \in Nat, NEW mine \in SUBSET (1..N),
           NEW k \in 1..Cardinality(mine)
    PROVE  /\ Nth(mine, k) \in mine
           /\ Cardinality({j \in mine : j <= Nth(mine, k)}) = k
<1> DEFINE Upto(i) == {j \in mine : j <= i}
           R == {i \in 1..N : Cardinality(Upto(i)) >= k}
<1>1. \A i, j : j \in Upto(i) <=> j \in mine /\ j <= i
  OBVIOUS
<1>2. R \in SUBSET Nat
        /\ \A i : i \in R <=> i \in 1..N /\ Cardinality(Upto(i)) >= k
  OBVIOUS
<1>3. Nth(mine, k) = CHOOSE i \in mine : Cardinality(Upto(i)) = k
  BY DEF Nth
<1> HIDE DEF Upto, R
<1>4. IsFiniteSet(mine)
  <2>1. IsFiniteSet(1..N)
    BY FS_Interval
  <2> QED
    BY <2>1, FS_Subset
<1>5. \A i : IsFiniteSet(Upto(i)) /\ Cardinality(Upto(i)) \in Nat
  <2>1. \A i : Upto(i) \subseteq mine
    BY <1>1
  <2> QED
    BY <1>4, <2>1, FS_Subset, FS_CardinalityType
<1>6. Cardinality(mine) \in Nat /\ k \in Nat /\ k >= 1 /\ k <= Cardinality(mine)
  <2>1. Cardinality(mine) \in Nat
    BY <1>4, FS_CardinalityType
  <2> QED
    BY <2>1
<1>7. Upto(N) = mine
  <2>1. \A j \in mine : j <= N
    OBVIOUS
  <2> QED
    BY <1>1, <2>1, Zenon
<1>8. Upto(0) = {} /\ Cardinality(Upto(0)) = 0
  <2>1. \A j \in mine : ~(j <= 0)
    OBVIOUS
  <2>2. Upto(0) = {}
    BY <1>1, <2>1, Zenon
  <2> QED
    BY <2>2, FS_EmptySet
<1>9. N \in R
  <2>1. N # 0
    BY <1>6, <1>7, <1>8
  <2>2. N \in 1..N /\ Cardinality(Upto(N)) >= k
    BY <1>6, <1>7, <2>1
  <2> QED
    BY <1>2, <2>2
<1>10. PICK m \in R : \A i \in R : m <= i
  BY <1>2, <1>9, Smallest
<1>11. m \in 1..N /\ Cardinality(Upto(m)) >= k
  BY <1>2, <1>10
<1>12. Cardinality(Upto(m - 1)) < k
  <2>1. CASE m = 1
    BY <1>6, <1>8, <2>1
  <2>2. CASE m # 1
    <3>1. m - 1 \in 1..N /\ m - 1 \notin R
      BY <1>10, <1>11, <2>2
    <3>2. ~(Cardinality(Upto(m - 1)) >= k)
      BY <1>2, <3>1
    <3> QED
      BY <1>5, <1>6, <3>2
  <2> QED
    BY <2>1, <2>2
<1>13. m \in mine
  <2> SUFFICES ASSUME m \notin mine PROVE FALSE
    OBVIOUS
  <2>1. \A j \in mine : j <= m <=> j <= m - 1
    BY <1>11
  <2>2. Upto(m) = Upto(m - 1)
    BY <1>1, <2>1
  <2> QED
    BY <1>5, <1>6, <1>11, <1>12, <2>2
<1>14. Cardinality(Upto(m)) = Cardinality(Upto(m - 1)) + 1
  <2>1. \A j \in mine : j <= m <=> j <= m - 1 \/ j = m
    BY <1>11
  <2>2. \A j : j \in Upto(m) <=> j \in Upto(m - 1) \cup {m}
    BY <1>1, <1>13, <2>1
  <2>3. Upto(m) = Upto(m - 1) \cup {m}
    BY <2>2, Zenon
  <2>4. m \notin Upto(m - 1)
    BY <1>1, <1>11
  <2> QED
    BY <1>5, <2>3, <2>4, FS_AddElement
<1>15. Cardinality(Upto(m)) = k
  BY <1>5, <1>6, <1>11, <1>12, <1>14
<1>16. \E i \in mine : Cardinality(Upto(i)) = k
  BY <1>13, <1>15
<1>17. Nth(mine, k) \in mine /\ Cardinality(Upto(Nth(mine, k))) = k
  BY <1>3, <1>16, Zenon
<1> QED
  BY <1>17 DEF Upto

-----------------------------------------------------------------------------
(***************************************************************************)
(* What a step of a fiber on the channels is.  Every operation is about a  *)
(* list of arms: new ones, whose values nobody has yet, or those f parked  *)
(* with, when nobody has emptied one of its boxes.  It ends without having *)
(* touched a channel, or one arm answers, or it finds none ready and goes  *)
(* on with the select's else, or it parks.                                 *)
(***************************************************************************)

Resumptions == {"send", "receive", "select"}

RecvNodes == [fiber : Fibers, nonce : Nat]
SendNodes(M) == [fiber : Fibers, nonce : Nat, v : M]

\* What the channels' variables are, the values among those made so far.
CInv ==
    /\ ChanTypeOK
    /\ sendq \in [Channels -> Seq(SendNodes(1..minted))]
    /\ \A f \in Fibers : Offers(arms[f]) \subseteq 1..minted
    /\ \A f \in Fibers : pc[f] \in Resumptions => arms[f] # <<>>
    /\ \A f \in Fibers : pc[f] = "receive" => Offers(arms[f]) = {}

\* No two arms offer the same value.
Distinct(as) ==
    \A i, j \in DOMAIN as :
        as[i].dir = "send" /\ as[j].dir = "send" /\ as[i].v = as[j].v => i = j

Mine(f, as) ==
    /\ as \in Seq(Arms) /\ as # <<>>
    /\ \/ as = arms[f] /\ UNCHANGED minted /\ Offers(as) \cap emptied = {}
       \/ Offers(as) \subseteq (minted + 1)..minted' /\ Distinct(as)

\* non_blocking_select's else.
Declines(f, as) ==
    /\ Unready(as)
    /\ recvq' = Pruned(recvq, "send", as)
    /\ sendq' = Pruned(sendq, "recv", as)
    /\ refused' = refused \cup Offers(as)
    /\ Ends(f)
    /\ UNCHANGED <<state, runq, items, closed, emptied, accepted, log>>

AwaitsAll(f, as) ==
    /\ ~cancelled[f]
    /\ Unready(as)
    /\ ParkArms(f, as)
    /\ \E step \in Resumptions :
         Continue(f, step, None) /\ (step = "receive" => Offers(as) = {})
    /\ arms' = [arms EXCEPT ![f] = as]
    /\ UNCHANGED <<runq, items, closed, emptied, accepted, refused, log>>

Acts(f, as) ==
    \/ EndsRefused(f, as)
    \/ (\E i \in DOMAIN as : Wins(as, i)) /\ Ends(f)
    \/ Declines(f, as)
    \/ AwaitsAll(f, as)

Operates(f) ==
    \/ \E as : Mine(f, as) /\ Acts(f, as)
    \/ BoxEmptied(f) /\ UNCHANGED minted
    \/ Close(f)

\* What all of them have in common.
OnStack(f) ==
    /\ Runs(f) /\ pc[f] \in {"user"} \cup Resumptions
    /\ UNCHANGED farVars
    /\ fuel' \in [Fibers -> Nat]
    /\ minted' \in Nat /\ minted' >= minted

\* A new operation's arms: one value each, none of them made before.
LEMMA NewArms ==
    ASSUME CInv, NEW f,
           NEW l \in Seq([dir : {"send", "recv"}, ch : Channels]), l # <<>>,
           NEW as, DOMAIN as = DOMAIN l, as = [i \in DOMAIN l |-> as[i]],
           \A i \in DOMAIN l :
              /\ as[i].dir = l[i].dir /\ as[i] \in Arms
              /\ as[i].dir = "send" => as[i].v = minted + i,
           minted' = minted + Len(l) \/ (UNCHANGED minted /\ Offers(as) = {})
    PROVE  Mine(f, as) /\ minted' \in Nat /\ minted' >= minted
<1>1. minted \in Nat
  BY DEF CInv, ChanTypeOK
<1>2. Len(l) \in Nat \ {0} /\ DOMAIN l = 1..Len(l)
  OBVIOUS
<1>3. as \in Seq(Arms) /\ as # <<>>
  <2>1. as \in [1..Len(l) -> Arms]
    BY <1>2
  <2>2. as \in Seq(Arms) /\ Len(as) = Len(l)
    BY <1>2, <2>1, IsList
  <2> QED
    BY <1>2, <2>2
<1>6. Distinct(as)
  <2>1. \A i, j \in DOMAIN l : minted + i = minted + j => i = j
    BY <1>1, <1>2
  <2>2. ASSUME NEW i \in DOMAIN as, NEW j \in DOMAIN as, as[i].dir = "send",
               as[j].dir = "send", as[i].v = as[j].v
        PROVE  i = j
    <3>1. i \in DOMAIN l /\ j \in DOMAIN l
      BY <2>2
    <3>2. as[i].v = minted + i /\ as[j].v = minted + j
      BY <2>2, <3>1
    <3> QED
      BY <2>1, <2>2, <3>1, <3>2
  <2> QED
    BY <2>2, Zenon DEF Distinct
<1>4. CASE minted' = minted + Len(l)
  <2>1. \A v \in Offers(as) : v \in (minted + 1)..(minted + Len(l))
    <3> SUFFICES ASSUME NEW i \in DOMAIN as, as[i].dir = "send"
                 PROVE  as[i].v \in (minted + 1)..(minted + Len(l))
      BY DEF Offers
    <3>1. i \in 1..Len(l) /\ as[i].v = minted + i
      BY <1>2, Zenon
    <3>2. \A n \in 1..Len(l) :
            minted + n \in (minted + 1)..(minted + Len(l))
      BY <1>1, <1>2
    <3> QED
      BY <3>1, <3>2, Zenon
  <2>2. Offers(as) \subseteq (minted + 1)..minted'
    BY <1>4, <2>1
  <2>3. minted' \in Nat /\ minted' >= minted
    BY <1>1, <1>2, <1>4
  <2> QED
    BY <1>3, <1>6, <2>2, <2>3 DEF Mine
<1>5. CASE UNCHANGED minted /\ Offers(as) = {}
  <2>1. minted' \in Nat /\ minted' >= minted
    BY <1>1, <1>5
  <2> QED
    BY <1>3, <1>5, <1>6, <2>1 DEF Mine
<1> QED
  BY <1>4, <1>5

\* A new operation is one of them.
LEMMA BeginsOperates ==
    ASSUME CInv, NEW f \in Fibers, NEW step \in Resumptions,
           NEW l \in Seq([dir : {"send", "recv"}, ch : Channels]), l # <<>>,
           step = "receive" => \A i \in DOMAIN l : l[i].dir = "recv",
           Begins(f, step, l)
    PROVE  Operates(f) /\ minted' \in Nat /\ minted' >= minted
<1> DEFINE as == [i \in DOMAIN l |->
                    [dir |-> l[i].dir, ch |-> l[i].ch,
                     v |-> IF l[i].dir = "send" THEN minted + i ELSE 0]]
<1>1. minted \in Nat /\ Len(l) \in Nat /\ DOMAIN l = 1..Len(l)
  BY DEF CInv, ChanTypeOK
<1>2. /\ DOMAIN as = DOMAIN l /\ as = [i \in DOMAIN l |-> as[i]]
      /\ \A i \in DOMAIN l : /\ as[i].dir = l[i].dir
                             /\ as[i].dir = "send" => as[i].v = minted + i
  OBVIOUS
<1>3. ASSUME NEW i \in DOMAIN l PROVE as[i] \in Arms
  <2>1. l[i] \in [dir : {"send", "recv"}, ch : Channels] /\ i \in Nat
    BY Element
  <2>2. minted + i \in Nat /\ 0 \in Nat
    BY <1>1, <2>1
  <2>3. l[i].dir \in {"send", "recv"} /\ l[i].ch \in Channels
    BY <2>1
  <2>4. \A dir \in {"send", "recv"}, ch \in Channels, v \in Nat :
          [dir |-> dir, ch |-> ch, v |-> v] \in Arms
    BY DEF Arms
  <2>5. (IF l[i].dir = "send" THEN minted + i ELSE 0) \in Nat
    BY <2>2
  <2> QED
    BY <2>3, <2>4, <2>5
<1>4. /\ minted' = minted + (IF Offers(as) = {} THEN 0 ELSE Len(l))
      /\ \/ cancelled[f] /\ EndsRefused(f, as)
         \/ ~cancelled[f] /\ Round(f, as, step)
  BY DEF Begins
<1> HIDE DEF as
<1>5. Mine(f, as) /\ minted' \in Nat /\ minted' >= minted
  <2>1. minted' = minted + Len(l) \/ (UNCHANGED minted /\ Offers(as) = {})
    <3>1. CASE Offers(as) = {}
      <4>1. minted' = minted + 0
        BY <1>4, <3>1
      <4> QED
        BY <1>1, <3>1, <4>1
    <3>2. CASE Offers(as) # {}
      BY <1>4, <3>2
    <3> QED
      BY <3>1, <3>2
  <2> QED
    BY <1>2, <1>3, <2>1, NewArms
<1>6. step = "receive" => Offers(as) = {}
  BY <1>2 DEF Offers
<1>7. EndsRefused(f, as) \/ (~cancelled[f] /\ Round(f, as, step))
  BY <1>4
<1>8. Acts(f, as)
  BY <1>6, <1>7 DEF Round, Acts, AwaitsAll
<1> QED
  BY <1>5, <1>8 DEF Operates

\* A non-blocking select, too, acts on arms made for it.
LEMMA TriesOperates ==
    ASSUME CInv, NEW f \in Fibers, TrySelect(f)
    PROVE  Operates(f) /\ minted' \in Nat /\ minted' >= minted
<1>1. PICK l \in ArmLists :
         LET as == [i \in DOMAIN l |->
                      [dir |-> l[i].dir, ch |-> l[i].ch, v |-> minted + i]]
         IN  /\ minted' = minted + Len(l)
             /\ \/ EndsRefused(f, as)
                \/ (\E i \in DOMAIN as : Wins(as, i)) /\ Ends(f)
                \/ Declines(f, as)
  BY DEF TrySelect, Declines
<1> DEFINE as == [i \in DOMAIN l |->
                    [dir |-> l[i].dir, ch |-> l[i].ch, v |-> minted + i]]
<1>2. l \in Seq([dir : {"send", "recv"}, ch : Channels]) /\ l # <<>>
  BY ChannelAssumption
<1>3. minted \in Nat /\ Len(l) \in Nat /\ DOMAIN l = 1..Len(l)
  BY <1>2 DEF CInv, ChanTypeOK
<1>4. /\ DOMAIN as = DOMAIN l /\ as = [i \in DOMAIN l |-> as[i]]
      /\ \A i \in DOMAIN l : as[i].dir = l[i].dir /\ as[i].v = minted + i
  OBVIOUS
<1>5. ASSUME NEW i \in DOMAIN l PROVE as[i] \in Arms
  <2>1. l[i] \in [dir : {"send", "recv"}, ch : Channels] /\ i \in Nat
    BY <1>2, Element
  <2>2. minted + i \in Nat
    BY <1>3, <2>1
  <2>3. l[i].dir \in {"send", "recv"} /\ l[i].ch \in Channels
    BY <2>1
  <2>4. \A dir \in {"send", "recv"}, ch \in Channels, v \in Nat :
          [dir |-> dir, ch |-> ch, v |-> v] \in Arms
    BY DEF Arms
  <2> QED
    BY <2>2, <2>3, <2>4
<1>6. minted' = minted + Len(l) /\ Acts(f, as)
  BY <1>1 DEF Acts
<1> HIDE DEF as
<1>7. Mine(f, as) /\ minted' \in Nat /\ minted' >= minted
  <2>1. \A i \in DOMAIN l :
          /\ as[i].dir = l[i].dir /\ as[i] \in Arms
          /\ as[i].dir = "send" => as[i].v = minted + i
    BY <1>4, <1>5, Zenon
  <2> QED
    BY <1>2, <1>4, <1>6, <2>1, NewArms
<1> QED
  BY <1>6, <1>7 DEF Operates

\* A fiber that goes on after a park acts on the arms it parked on.
LEMMA ResumesOperates ==
    ASSUME CInv, NEW f \in Fibers,
           SendResumes(f) \/ ReceiveResumes(f) \/ SelectResumes(f)
    PROVE  Operates(f)
<1>1. UNCHANGED minted /\ pc[f] \in Resumptions
  BY DEF SendResumes, ReceiveResumes, SelectResumes, Resumptions
<1>2. CASE BoxEmptied(f)
  BY <1>1, <1>2 DEF Operates
<1>3. CASE ~BoxEmptied(f)
  <2>1. Offers(arms[f]) \cap emptied = {}
    BY <1>3 DEF SendResumes, ReceiveResumes, SelectResumes, CInv
  <2>2. Mine(f, arms[f])
    BY <1>1, <2>1 DEF Mine, CInv, ChanTypeOK
  <2>3. \/ EndsRefused(f, arms[f])
        \/ /\ ~cancelled[f]
           /\ \E step \in Resumptions :
                /\ Round(f, arms[f], step)
                /\ step = "receive" => Offers(arms[f]) = {}
    BY <1>3 DEF SendResumes, ReceiveResumes, SelectResumes, Resumptions, CInv
  <2>4. Acts(f, arms[f])
    BY <2>3 DEF Acts, Round, AwaitsAll
  <2> QED
    BY <2>2, <2>4 DEF Operates
<1> QED
  BY <1>2, <1>3

\* Every step of a fiber on the channels.
LEMMA StepOperates ==
    ASSUME IInv, CInv, NEW f \in Fibers, ChanStep(f)
    PROVE  Operates(f) /\ OnStack(f)
<1>1. minted \in Nat /\ fuel \in [Fibers -> Nat]
  BY DEF CInv, ChanTypeOK, IInv, TypeOK, GroupTypeOK
<1>2. UNCHANGED farVars
  BY DEF ChanStep, Send, Receive, Select, TrySelect, Close, SendResumes,
         ReceiveResumes, SelectResumes, Begins
<1>3. Runs(f) /\ pc[f] \in {"user"} \cup Resumptions
  BY DEF ChanStep, Send, Receive, Select, TrySelect, Close, SendResumes,
         ReceiveResumes, SelectResumes, Starts, InUser, Resumptions
<1>4. fuel' \in [Fibers -> Nat]
  <2>1. (\E op : Starts(f, op)) \/ UNCHANGED fuel
    BY DEF ChanStep, Send, Receive, Select, TrySelect, Close, SendResumes,
           ReceiveResumes, SelectResumes
  <2> QED
    BY <1>1, <2>1, StartsType
<1>5. ASSUME NEW dir \in {"send", "recv"}, NEW ch \in Channels
      PROVE  LET l == <<[dir |-> dir, ch |-> ch]>>
             IN  /\ l \in Seq([dir : {"send", "recv"}, ch : Channels])
                 /\ l # <<>> /\ \A i \in DOMAIN l : l[i].dir = dir
  OBVIOUS
<1>6. CASE Send(f)
  <2>1. PICK ch \in Channels : Begins(f, "send", <<[dir |-> "send", ch |-> ch]>>)
    BY <1>6 DEF Send
  <2> DEFINE l == <<[dir |-> "send", ch |-> ch]>>
  <2>2. l \in Seq([dir : {"send", "recv"}, ch : Channels]) /\ l # <<>>
    BY <1>5
  <2> HIDE DEF l
  <2>3. Begins(f, "send", l)
    BY <2>1 DEF l
  <2> QED
    BY <1>2, <1>3, <1>4, <2>2, <2>3, BeginsOperates DEF OnStack, Resumptions
<1>7. CASE Receive(f)
  <2>1. PICK ch \in Channels :
          Begins(f, "receive", <<[dir |-> "recv", ch |-> ch]>>)
    BY <1>7 DEF Receive
  <2> DEFINE l == <<[dir |-> "recv", ch |-> ch]>>
  <2>2. l \in Seq([dir : {"send", "recv"}, ch : Channels]) /\ l # <<>>
          /\ \A i \in DOMAIN l : l[i].dir = "recv"
    BY <1>5
  <2> HIDE DEF l
  <2>3. Begins(f, "receive", l)
    BY <2>1 DEF l
  <2> QED
    BY <1>2, <1>3, <1>4, <2>2, <2>3, BeginsOperates DEF OnStack, Resumptions
<1>8. CASE Select(f)
  <2>1. PICK l \in ArmLists : Begins(f, "select", l)
    BY <1>8 DEF Select
  <2>2. l \in Seq([dir : {"send", "recv"}, ch : Channels]) /\ l # <<>>
    BY ChannelAssumption
  <2> QED
    BY <1>2, <1>3, <1>4, <2>1, <2>2, BeginsOperates DEF OnStack, Resumptions
<1>9. CASE TrySelect(f)
  BY <1>2, <1>3, <1>4, <1>9, TriesOperates DEF OnStack
<1>10. CASE SendResumes(f) \/ ReceiveResumes(f) \/ SelectResumes(f)
  <2>1. UNCHANGED minted
    BY <1>10 DEF SendResumes, ReceiveResumes, SelectResumes
  <2> QED
    BY <1>1, <1>2, <1>3, <1>4, <1>10, <2>1, ResumesOperates DEF OnStack
<1>11. CASE Close(f)
  <2>1. UNCHANGED minted
    BY <1>11 DEF Close, historyVars
  <2> QED
    BY <1>1, <1>2, <1>3, <1>4, <1>11, <2>1 DEF OnStack, Operates
<1> QED
  BY <1>6, <1>7, <1>8, <1>9, <1>10, <1>11 DEF ChanStep

-----------------------------------------------------------------------------
(***************************************************************************)
(* What such a step is to the scheduler and to the groups: it wakes fibers *)
(* that were parked on channels, or it parks the running one, which was    *)
(* not told to stop.                                                       *)
(***************************************************************************)

\* Whoever is parked on a channel was spawned.
ChanMade == InState("chan") \subseteq Made

WakesParked ==
    /\ \E W \in SUBSET InState("chan") : \E w :
         Lists(w, W) /\ runq' = runq \o w /\ state' = Enqueued(state, w)
    /\ UNCHANGED parked

ParksOnArms(f) == ~cancelled[f] /\ Parks(f, "chan") /\ UNCHANGED runq

GoesOn(f) ==
    \/ UNCHANGED <<pc, subject>>
    \/ \E step \in {"user"} \cup Resumptions : Continue(f, step, None)

\* The nodes of a queue are of fibers.
LEMMA NodeTypes ==
    ASSUME CInv
    PROVE  /\ recvq \in [Channels -> Seq([fiber : Fibers, nonce : Nat])]
           /\ sendq \in [Channels ->
                           Seq([fiber : Fibers, nonce : Nat, v : Nat])]
  BY DEF CInv, ChanTypeOK

\* A wake wakes one fiber that is parked on a channel, or nobody.
LEMMA OldestLists ==
    ASSUME NEW T, NEW q \in Seq(T), \A n \in T : n.fiber \in Fibers
    PROVE  \E W \in SUBSET InState("chan") : Lists(OldestFiber(q), W)
<1>1. CASE Waits(q) = {}
  BY <1>1, ListsNone DEF OldestFiber
<1>2. CASE Waits(q) # {}
  <2>1. Oldest(q) \in T /\ Current(Oldest(q))
    BY <1>2, OldestType
  <2>2. Oldest(q).fiber \in InState("chan")
    BY <2>1 DEF Current, InState
  <2> QED
    BY <1>2, <2>2, ListsOne DEF OldestFiber
<1> QED
  BY <1>1, <1>2

\* Waking nobody is waking.
LEMMA WakesNobody ==
    ASSUME IInv, UNCHANGED <<state, runq, parked>>
    PROVE  WakesParked
<1>1. runq \in Seq(Fibers) /\ state \in [Fibers -> States]
  BY DEF IInv, TypeOK, SchedTypeOK
<1>2. runq \o <<>> = runq
  BY <1>1
<1>3. ToSet(<<>>) = {}
  BY ListsNone DEF Lists
<1>4. Enqueued(state, <<>>) = state
  BY <1>1, <1>3 DEF Enqueued
<1>5. Lists(<<>>, {}) /\ {} \in SUBSET InState("chan")
  BY ListsNone
<1> QED
  BY <1>2, <1>4, <1>5 DEF WakesParked

\* To wake one fiber or none is to wake parked fibers.
LEMMA WakesOne ==
    ASSUME IInv, NEW w, w = <<>> \/ \E W \in SUBSET InState("chan") : Lists(w, W),
           runq' = runq \o w, state' = Enqueued(state, w), UNCHANGED parked
    PROVE  WakesParked
  BY ListsNone DEF WakesParked

\* An arm that answers wakes at most one parked fiber.
LEMMA WinsWakes ==
    ASSUME IInv, CInv, NEW as \in Seq(Arms), NEW i \in DOMAIN as, Wins(as, i),
           UNCHANGED parked
    PROVE  WakesParked
<1>1. as[i].ch \in Channels
  <2>1. as[i] \in Arms
    BY Element
  <2> QED
    BY <2>1 DEF Arms
<1>2. CASE PutNow(as, i)
  <2> DEFINE T == [fiber : Fibers, nonce : Nat]
             p == Pruned(recvq, "send", Before(as, i))
             q == p[as[i].ch]
  <2>1. q \in Seq(T)
    <3>1. recvq \in [Channels -> Seq(T)]
      BY NodeTypes
    <3> HIDE DEF T
    <3>2. p \in [Channels -> Seq(T)]
      BY <3>1, PrunedType
    <3> QED
      BY <1>1, <3>2
  <2>2. PICK w \in {<<>>, OldestFiber(q)} :
          runq' = runq \o w /\ state' = Enqueued(state, w)
    BY <1>2 DEF PutNow
  <2>3. \A n \in T : n.fiber \in Fibers
    OBVIOUS
  <2> HIDE DEF T, p, q
  <2>4. \E W \in SUBSET InState("chan") : Lists(OldestFiber(q), W)
    BY <2>1, <2>3, OldestLists
  <2> QED
    BY <2>2, <2>4, WakesOne
<1>3. CASE TakeNow(as, i)
  <2> DEFINE T == [fiber : Fibers, nonce : Nat, v : Nat]
             p == Pruned(sendq, "recv", Before(as, i))
             q == p[as[i].ch]
  <2>1. q \in Seq(T)
    <3>1. sendq \in [Channels -> Seq(T)]
      BY NodeTypes
    <3> HIDE DEF T
    <3>2. p \in [Channels -> Seq(T)]
      BY <3>1, PrunedType
    <3> QED
      BY <1>1, <3>2
  <2>2. PICK w \in {<<>>, OldestFiber(q)} :
          runq' = runq \o w /\ state' = Enqueued(state, w)
    BY <1>3 DEF TakeNow
  <2>3. \A n \in T : n.fiber \in Fibers
    OBVIOUS
  <2> HIDE DEF T, p, q
  <2>4. \E W \in SUBSET InState("chan") : Lists(OldestFiber(q), W)
    BY <2>1, <2>3, OldestLists
  <2> QED
    BY <2>2, <2>4, WakesOne
<1> QED
  BY <1>2, <1>3 DEF Wins

\* Whoever is parked on a queue is parked on a channel.
LEMMA ParkedType ==
    ASSUME NEW T, NEW q \in Seq(T), \A n \in T : n.fiber \in Fibers
    PROVE  Parked(q) \subseteq InState("chan")
  BY DEF Parked, Waits, Current, InState

\* A close wakes those parked on the channel, and nobody else.
LEMMA CloseWakes ==
    ASSUME IInv, CInv, NEW f, Close(f)
    PROVE  WakesParked
<1>1. PICK ch \in Channels :
        LET rs == Parked(recvq[ch])
            ss == Parked(sendq[ch]) \ rs
        IN  \E r \in InOrder(Line(recvq[ch]), rs),
               s \in InOrder(Line(sendq[ch]), ss) :
              runq' = runq \o r \o s /\ state' = Enqueued(state, r \o s)
  BY DEF Close
<1> DEFINE rs == Parked(recvq[ch])
           ss == Parked(sendq[ch]) \ rs
<1>2. PICK r \in InOrder(Line(recvq[ch]), rs),
           s \in InOrder(Line(sendq[ch]), ss) :
              runq' = runq \o r \o s /\ state' = Enqueued(state, r \o s)
  BY <1>1
<1>3. rs \subseteq InState("chan") /\ ss \subseteq InState("chan")
  <2>1. \A n \in [fiber : Fibers, nonce : Nat] : n.fiber \in Fibers
    OBVIOUS
  <2>2. \A n \in [fiber : Fibers, nonce : Nat, v : Nat] : n.fiber \in Fibers
    OBVIOUS
  <2>3. recvq[ch] \in Seq([fiber : Fibers, nonce : Nat])
    BY NodeTypes
  <2>4. sendq[ch] \in Seq([fiber : Fibers, nonce : Nat, v : Nat])
    BY NodeTypes
  <2> QED
    BY <2>1, <2>2, <2>3, <2>4, ParkedType
<1> HIDE DEF rs, ss
<1>4. InState("chan") \subseteq Fibers
  BY DEF InState
<1>5. IsFiniteSet(rs) /\ IsFiniteSet(ss)
  BY <1>3, <1>4, FS_Subset, SchedulerAssumption
<1>6. r \in SetToSeqs(rs) /\ s \in SetToSeqs(ss)
  BY DEF InOrder
<1>7. Lists(r, rs) /\ Lists(s, ss)
  BY <1>5, <1>6, ListsSet
<1>8. rs \cap ss = {}
  BY DEF ss
<1>9. Lists(r \o s, rs \cup ss)
  BY <1>7, <1>8, ListsJoined
<1>10. runq \o r \o s = runq \o (r \o s)
  <2>1. runq \in Seq(Fibers)
    BY DEF IInv, TypeOK, SchedTypeOK
  <2>2. r \in Seq(Fibers) /\ s \in Seq(Fibers)
    BY <1>3, <1>4, <1>7, SeqMonotonic DEF Lists
  <2> QED
    BY <2>1, <2>2, ConcatAssociative
<1>11. UNCHANGED parked /\ rs \cup ss \in SUBSET InState("chan")
  BY <1>3 DEF Close
<1> HIDE DEF Lists
<1> QED
  BY <1>2, <1>9, <1>10, <1>11 DEF WakesParked

\* Every operation wakes parked fibers or parks the one that runs.
LEMMA OperatesWakes ==
    ASSUME IInv, CInv, NEW f \in Fibers, Operates(f)
    PROVE  (WakesParked \/ ParksOnArms(f)) /\ GoesOn(f)
<1>1. CASE Close(f)
  BY <1>1, CloseWakes DEF Close, GoesOn
<1>2. ASSUME Ends(f) PROVE GoesOn(f) /\ UNCHANGED parked
  BY <1>2 DEF Ends, GoesOn
<1>3. CASE BoxEmptied(f)
  BY <1>2, <1>3, WakesNobody DEF BoxEmptied
<1>4. ASSUME NEW as, Mine(f, as), Acts(f, as)
      PROVE  (WakesParked \/ ParksOnArms(f)) /\ GoesOn(f)
  <2>1. CASE EndsRefused(f, as)
    BY <1>2, <2>1, WakesNobody DEF EndsRefused
  <2>2. CASE (\E i \in DOMAIN as : Wins(as, i)) /\ Ends(f)
    <3>1. as \in Seq(Arms)
      BY <1>4 DEF Mine
    <3> QED
      BY <1>2, <2>2, <3>1, WinsWakes
  <2>3. CASE Declines(f, as)
    BY <1>2, <2>3, WakesNobody DEF Declines
  <2>4. CASE AwaitsAll(f, as)
    BY <2>4 DEF AwaitsAll, ParkArms, Park, ParksOnArms, GoesOn
  <2> QED
    BY <1>4, <2>1, <2>2, <2>3, <2>4 DEF Acts
<1> QED
  BY <1>1, <1>3, <1>4 DEF Operates

\* What the step is to the variables of the scheduler and of the groups.
GroupView(f) ==
    /\ OnStack(f)
    /\ WakesParked \/ ParksOnArms(f)
    /\ GoesOn(f)

\* The variables that no operation on a channel touches, one by one.
LEMMA FarVars ==
    ASSUME UNCHANGED farVars
    PROVE  /\ UNCHANGED <<current, exited, stalls, cancelled, panicked, sleepq,
                          deadline, ioq, waitFd, interest, now, readable>>
           /\ UNCHANGED <<group, joiner, delivered, caught, owner, children,
                          live, failed, gjoiner, scopes>>
  BY DEF farVars, quietVars, endVars, sleepVars, ioVars, worldVars, taskVars,
         groupVars

\* Whoever is put on the run queue is runnable, nobody else changes.
LEMMA WokenStates ==
    ASSUME IInv, NEW W \in SUBSET Fibers, NEW w, Lists(w, W),
           state' = Enqueued(state, w)
    PROVE  \A h \in Fibers :
             state'[h] = IF h \in W THEN "runnable" ELSE state[h]
  BY DEF Enqueued, Lists, IInv, TypeOK, SchedTypeOK

\* Where a fiber goes on keeps its type.
LEMMA GoesOnType ==
    ASSUME IInv, NEW f \in Fibers, GoesOn(f)
    PROVE  pc' \in [Fibers -> Continuations] /\ SubjectOK'
<1>1. CASE UNCHANGED <<pc, subject>>
  BY <1>1 DEF IInv, TypeOK, SchedTypeOK, GroupTypeOK, SubjectOK
<1>2. ASSUME NEW step \in {"user"} \cup Resumptions, Continue(f, step, None)
      PROVE  pc' \in [Fibers -> Continuations] /\ SubjectOK'
  <2>1. step \in Continuations /\ None \in Subjects
          /\ step \notin {"read", "value", "gjoin"}
    BY DEF Resumptions, Continuations, Subjects
  <2> QED
    BY <1>2, <2>1, ContinueType
<1> QED
  BY <1>1, <1>2 DEF GoesOn

\* An operation keeps the types of the scheduler and of the groups.
LEMMA ViewType ==
    ASSUME IInv, ChanMade, NEW f \in Fibers, GroupView(f)
    PROVE  IInv' /\ ChanMade'
<1>1. pc' \in [Fibers -> Continuations] /\ SubjectOK'
  BY GoesOnType DEF GroupView
<1>2. /\ UNCHANGED <<current, exited, stalls, cancelled, panicked, sleepq,
                     deadline, ioq, waitFd, interest, now, readable>>
      /\ UNCHANGED <<group, joiner, delivered, caught, owner, children,
                     live, failed, gjoiner, scopes>>
      /\ fuel' \in [Fibers -> Nat]
  BY FarVars DEF GroupView, OnStack
<1>3. Made' = Made
  BY <1>2, MadeSame
<1>4. runq \in Seq(Made) /\ parked \in BOOLEAN /\ state \in [Fibers -> States]
  BY DEF IInv, Placed, TypeOK, SchedTypeOK
<1>5. f \in Made
  BY DEF GroupView, OnStack, Runs, IInv, Placed
<1>6. /\ runq' \in Seq(Made) /\ parked' \in BOOLEAN
      /\ state' \in [Fibers -> States] /\ ChanMade'
  <2>1. CASE WakesParked
    <3>1. PICK W \in SUBSET InState("chan") : \E w :
            Lists(w, W) /\ runq' = runq \o w /\ state' = Enqueued(state, w)
      BY <2>1 DEF WakesParked
    <3>2. PICK w :
            Lists(w, W) /\ runq' = runq \o w /\ state' = Enqueued(state, w)
      BY <3>1
    <3>3. W \subseteq Made
      BY DEF ChanMade
    <3>4. w \in Seq(Made)
      BY <3>2, <3>3, SeqMonotonic DEF Lists
    <3>5. runq' \in Seq(Made)
      BY <1>4, <3>2, <3>4, ConcatProperties
    <3>6. state' \in [Fibers -> States] /\ parked' = parked
      BY <1>4, <2>1, <3>2, EnqueuedType DEF WakesParked
    <3>7. InState("chan")' \subseteq InState("chan")
      BY <3>2 DEF InState, Enqueued
    <3> QED
      BY <1>3, <1>4, <3>5, <3>6, <3>7 DEF ChanMade
  <2>2. CASE ParksOnArms(f)
    <3>1. UNCHANGED runq /\ Parks(f, "chan")
      BY <2>2 DEF ParksOnArms
    <3>2. state' \in [Fibers -> States] /\ parked' \in BOOLEAN
      BY <3>1, ParksType, Names
    <3>3. InState("chan")' \subseteq InState("chan") \cup {f}
      BY <1>4, <3>1 DEF InState, Parks
    <3> QED
      BY <1>3, <1>4, <1>5, <3>1, <3>2, <3>3 DEF ChanMade
  <2> QED
    BY <2>1, <2>2 DEF GroupView
<1>7. Placed'
  BY <1>2, <1>3, <1>6 DEF IInv, Placed
<1>8. runq' \in Seq(Fibers)
  BY <1>6, MadeLists
<1> QED
  BY <1>1, <1>2, <1>6, <1>7, <1>8
     DEF IInv, TypeOK, SchedTypeOK, GroupTypeOK, SubjectOK

\* It parks nobody that was told to stop.
LEMMA ViewReaches ==
    ASSUME IInv, CancelReachesBlocked, NEW f \in Fibers, GroupView(f)
    PROVE  CancelReachesBlocked'
<1>1. UNCHANGED cancelled
  BY FarVars DEF GroupView, OnStack
<1>2. CASE WakesParked
  <2>1. \A h \in Fibers : state'[h] \in {state[h], "runnable"}
    BY <1>2 DEF WakesParked, Enqueued
  <2> QED
    BY <1>1, <2>1, StaysReachable DEF Unparkable
<1>3. CASE ParksOnArms(f)
  <2>1. \A h \in Fibers : state'[h] = state[h] \/ ~cancelled[h]
    BY <1>3 DEF ParksOnArms, Parks, IInv, TypeOK, SchedTypeOK
  <2> QED
    BY <1>1, <2>1, StaysReachable
<1> QED
  BY <1>2, <1>3 DEF GroupView

\* It leaves the lists exact.
LEMMA ViewQueued ==
    ASSUME IInv, Queued, NEW f \in Fibers, GroupView(f)
    PROVE  Queued'
<1>1. /\ UNCHANGED <<current, exited, stalls, cancelled, panicked, sleepq,
                     deadline, ioq, waitFd, interest, now, readable>>
      /\ UNCHANGED <<group, joiner, delivered, caught, owner, children,
                     live, failed, gjoiner, scopes>>
  BY FarVars DEF GroupView, OnStack
<1>2. state[f] = "running" /\ f = current /\ ~parked
  BY DEF GroupView, OnStack, Runs, Queued, Running
<1>3. state \in [Fibers -> States] /\ pc \in [Fibers -> Continuations]
        /\ subject \in [Fibers -> Subjects]
  BY DEF IInv, TypeOK, SchedTypeOK, GroupTypeOK, SubjectOK
<1>4. \A h \in Fibers \ {f} : pc'[h] = pc[h] /\ subject'[h] = subject[h]
  BY <1>3 DEF GroupView, GoesOn, Continue
<1>5. /\ Lists(runq, InState("runnable"))'
      /\ \A h \in Fibers : \A st \in {"sleeping", "io"} :
           state'[h] = st <=> state[h] = st
      /\ \A h \in Fibers : state[h] = "joining" => state'[h] = "joining"
      /\ \A h \in Fibers : state'[h] = "running" <=> h = f /\ ~parked'
  <2>1. CASE WakesParked
    <3>1. PICK W \in SUBSET InState("chan") : \E w :
            Lists(w, W) /\ runq' = runq \o w /\ state' = Enqueued(state, w)
      BY <2>1 DEF WakesParked
    <3>2. PICK w :
            Lists(w, W) /\ runq' = runq \o w /\ state' = Enqueued(state, w)
      BY <3>1
    <3>3. W \in SUBSET Fibers /\ \A h \in W : state[h] = "chan"
      BY DEF InState
    <3>4. \A h \in Fibers :
             state'[h] = IF h \in W THEN "runnable" ELSE state[h]
      BY <3>2, <3>3, WokenStates
    <3>5. W \cap InState("runnable") = {}
      BY <3>3 DEF InState
    <3>6. \A h \in Fibers : state'[h] = "runnable"
                              <=> state[h] = "runnable" \/ h \in W
      BY <3>4
    <3>7. Lists(runq, InState("runnable"))'
      BY <3>2, <3>3, <3>5, <3>6, EnqueuesListed DEF Queued
    <3>8. parked' = parked
      BY <2>1 DEF WakesParked
    <3> QED
      BY <1>2, <3>3, <3>4, <3>7, <3>8 DEF Queued, Running
  <2>2. CASE ParksOnArms(f)
    <3>1. parked' = TRUE /\ runq' = runq
            /\ \A h \in Fibers :
                 state'[h] = IF h = f THEN "chan" ELSE state[h]
      BY <1>3, <2>2 DEF ParksOnArms, Parks
    <3>2. InState("runnable")' = InState("runnable")
      BY <1>2, <3>1 DEF InState
    <3> QED
      BY <1>2, <3>1, <3>2 DEF Queued, Running
  <2> QED
    BY <2>1, <2>2 DEF GroupView
<1>6. Lists(sleepq, InState("sleeping"))'
  <2>1. InState("sleeping")' = InState("sleeping")
    BY <1>5 DEF InState
  <2> QED
    BY <1>1, <2>1 DEF Queued
<1>7. SleepSorted' /\ Registered' /\ WaitsOnFd'
  BY <1>1, <1>5 DEF Queued, SleepSorted, Registered, WaitsOnFd
<1>8. Running'
  BY <1>1, <1>2, <1>5 DEF Running
<1>9. JoinersPark' /\ GroupJoinersPark'
  BY <1>1, <1>2, <1>4, <1>5 DEF Queued, JoinersPark, GroupJoinersPark
<1> QED
  BY <1>5, <1>6, <1>7, <1>8, <1>9 DEF Queued

\* It ends no task, opens and leaves no group and reads no value.
LEMMA ViewScoped ==
    ASSUME IInv, Queued, Scoped, NEW f \in Fibers, GroupView(f)
    PROVE  Scoped'
<1>1. /\ UNCHANGED <<current, exited, stalls, cancelled, panicked, sleepq,
                     deadline, ioq, waitFd, interest, now, readable>>
      /\ UNCHANGED <<group, joiner, delivered, caught, owner, children,
                     live, failed, gjoiner, scopes>>
  BY FarVars DEF GroupView, OnStack
<1>2. state[f] = "running" /\ pc[f] # "gjoin"
  BY DEF GroupView, OnStack, Runs, Queued, Running, Resumptions
<1>3. \A h \in Fibers : /\ state'[h] = "done" <=> state[h] = "done"
                        /\ state'[h] = "new" => state[h] = "new"
  <2>1. CASE WakesParked
    <3>1. PICK W \in SUBSET InState("chan") : \E w :
            Lists(w, W) /\ runq' = runq \o w /\ state' = Enqueued(state, w)
      BY <2>1 DEF WakesParked
    <3>2. PICK w :
            Lists(w, W) /\ runq' = runq \o w /\ state' = Enqueued(state, w)
      BY <3>1
    <3>3. W \in SUBSET Fibers /\ \A h \in W : state[h] = "chan"
      BY DEF InState
    <3>4. \A h \in Fibers :
             state'[h] = IF h \in W THEN "runnable" ELSE state[h]
      BY <3>2, <3>3, WokenStates
    <3> QED
      BY <3>3, <3>4
  <2>2. CASE ParksOnArms(f)
    BY <1>2, <2>2 DEF ParksOnArms, Parks, IInv, TypeOK, SchedTypeOK
  <2> QED
    BY <2>1, <2>2 DEF GroupView
<1>4. \A h \in Fibers, g \in Groups : Inside(h, g)' <=> Inside(h, g)
  <2>1. \/ UNCHANGED <<pc, subject>>
        \/ \E step, what : step # "gjoin" /\ Continue(f, step, what)
    BY DEF GroupView, GoesOn, Resumptions
  <2> QED
    BY <1>1, <1>2, <2>1, InsideSame
<1>5. Calm
  BY <1>1, <1>3, <1>4 DEF Calm
<1> QED
  BY <1>5, CalmScoped

-----------------------------------------------------------------------------
(* Type correctness of the channels *)

\* The values made so far include what f offers.
LEMMA MineOffers ==
    ASSUME CInv, NEW f \in Fibers, NEW as, Mine(f, as), minted' \in Nat,
           minted' >= minted
    PROVE  Offers(as) \subseteq 1..minted' /\ 1..minted \subseteq 1..minted'
<1>1. minted \in Nat
  BY DEF CInv, ChanTypeOK
<1>2. 1..minted \subseteq 1..minted' /\ (minted + 1)..minted' \subseteq 1..minted'
  BY <1>1
<1>3. \/ as = arms[f]
      \/ Offers(as) \subseteq (minted + 1)..minted'
  BY DEF Mine
<1> QED
  BY <1>2, <1>3, Zenon DEF CInv

\* The channels' variables in the types of CInv, the values among M.
ChanTypes(M) ==
    /\ items \in [Channels -> Seq(Nat)]
    /\ closed \in [Channels -> BOOLEAN]
    /\ recvq \in [Channels -> Seq(RecvNodes)]
    /\ sendq \in [Channels -> Seq(SendNodes(M))]
    /\ emptied \subseteq M
    /\ accepted \subseteq M
    /\ refused \subseteq M
    /\ log \in [Channels -> Seq(Nat)]

\* What CInv says of the types, the values among M.
LEMMA TypesOf ==
    ASSUME CInv, NEW M, 1..minted \subseteq M
    PROVE  ChanTypes(M)
<1>1. SendNodes(1..minted) \subseteq SendNodes(M)
  BY DEF SendNodes
<1>2. Seq(SendNodes(1..minted)) \subseteq Seq(SendNodes(M))
  BY <1>1, SeqMonotonic
<1>3. sendq \in [Channels -> Seq(SendNodes(M))]
  BY <1>2 DEF CInv
<1> QED
  BY <1>3 DEF CInv, ChanTypeOK, ChanTypes, RecvNodes

\* The value of a send arm is on offer.
LEMMA OfferOf ==
    ASSUME NEW as \in Seq(Arms), NEW i \in DOMAIN as, as[i].dir = "send"
    PROVE  as[i].v \in Offers(as) /\ as[i].v \in Nat
<1>1. as[i] \in Arms
  BY Element
<1> QED
  BY <1>1 DEF Arms, Offers

\* An arm is of a channel.
LEMMA ChannelOf ==
    ASSUME NEW as \in Seq(Arms), NEW i \in DOMAIN as
    PROVE  as[i].ch \in Channels
<1>1. as[i] \in Arms
  BY Element
<1> QED
  BY <1>1 DEF Arms

\* A send that is answered keeps the types.
LEMMA PutNowType ==
    ASSUME NEW M, ChanTypes(M), NEW as \in Seq(Arms), NEW i \in DOMAIN as,
           Offers(as) \subseteq M, PutNow(as, i)
    PROVE  ChanTypes(M)'
<1> DEFINE ch == as[i].ch
           rq == Pruned(recvq, "send", Before(as, i))
<1>1. ch \in Channels
  BY ChannelOf
<1>2. as[i].v \in Offers(as) /\ as[i].v \in Nat
  BY OfferOf DEF PutNow
<1>3. /\ rq \in [Channels -> Seq(RecvNodes)]
      /\ sendq' \in [Channels -> Seq(SendNodes(M))]
  <2>1. sendq' = Pruned(sendq, "recv", Before(as, i))
    BY DEF PutNow
  <2> QED
    BY <2>1, PrunedType DEF ChanTypes
<1>4. UNCHANGED <<closed, emptied, log>>
  BY DEF PutNow
<1>5. CASE /\ recvq' = rq
           /\ refused' = refused \cup Offers(as)
           /\ UNCHANGED <<items, accepted>>
  <2> HIDE DEF ch, rq
  <2> QED
    BY <1>3, <1>4, <1>5 DEF ChanTypes
<1>6. CASE /\ recvq' = [rq EXCEPT ![ch] = Behind(@)]
           /\ items' = [items EXCEPT ![ch] = Append(@, as[i].v)]
           /\ accepted' = accepted \cup {as[i].v}
           /\ refused' = refused \cup (Offers(as) \ {as[i].v})
  <2> HIDE DEF ch, rq
  <2>1. Behind(rq[ch]) \in Seq(RecvNodes)
    BY <1>1, <1>3, BehindType
  <2>2. recvq' \in [Channels -> Seq(RecvNodes)]
    BY <1>1, <1>3, <1>6, <2>1
  <2>3. items' \in [Channels -> Seq(Nat)]
    <3>1. items[ch] \in Seq(Nat) /\ items \in [Channels -> Seq(Nat)]
      BY <1>1 DEF ChanTypes
    <3>2. Append(items[ch], as[i].v) \in Seq(Nat)
      BY <1>2, <3>1, AppendProperties
    <3> QED
      BY <1>1, <1>6, <3>1, <3>2
  <2> QED
    BY <1>2, <1>3, <1>4, <1>6, <2>2, <2>3 DEF ChanTypes
<1> QED
  BY <1>5, <1>6 DEF PutNow

\* The value of a parked sender's node.
LEMMA OldestValue ==
    ASSUME NEW M \in SUBSET Nat, NEW q \in Seq(SendNodes(M)), Waits(q) # {}
    PROVE  Oldest(q).v \in M /\ Oldest(q).v \in Nat
<1>1. Oldest(q) \in SendNodes(M)
  BY OldestType
<1> QED
  BY <1>1 DEF SendNodes

\* A receive that is answered keeps the types.
LEMMA TakeNowType ==
    ASSUME NEW M \in SUBSET Nat, ChanTypes(M), NEW as \in Seq(Arms),
           NEW i \in DOMAIN as, Offers(as) \subseteq M, TakeNow(as, i)
    PROVE  ChanTypes(M)'
<1> DEFINE ch == as[i].ch
           sq == Pruned(sendq, "recv", Before(as, i))
           takes == Waits(sq[ch]) # {} /\ (items[ch] # <<>> \/ ~closed[ch])
           line == IF takes THEN Append(items[ch], Oldest(sq[ch]).v)
                   ELSE items[ch]
<1>1. ch \in Channels
  BY ChannelOf
<1>2. /\ sq \in [Channels -> Seq(SendNodes(M))]
      /\ recvq' \in [Channels -> Seq(RecvNodes)]
  <2>1. recvq' = Pruned(recvq, "send", Before(as, i))
    BY DEF TakeNow
  <2> QED
    BY <2>1, PrunedType DEF ChanTypes
<1>3. takes => Oldest(sq[ch]).v \in M /\ Oldest(sq[ch]).v \in Nat
  <2>1. sq[ch] \in Seq(SendNodes(M))
    BY <1>1, <1>2
  <2> HIDE DEF ch, sq
  <2> QED
    BY <2>1, OldestValue
<1>4. UNCHANGED <<closed, accepted>> /\ refused' = refused \cup Offers(as)
  BY DEF TakeNow
<1>5. \/ /\ line # <<>>
         /\ sendq' = [sq EXCEPT ![ch] = Behind(@)]
         /\ items' = [items EXCEPT ![ch] = Tail(line)]
         /\ log' = [log EXCEPT ![ch] = Append(@, Head(line))]
         /\ emptied' = IF takes THEN emptied \cup {Oldest(sq[ch]).v}
                       ELSE emptied
      \/ /\ sendq' = sq
         /\ UNCHANGED <<items, log, emptied>>
  BY DEF TakeNow
<1>6. items[ch] \in Seq(Nat) /\ log[ch] \in Seq(Nat)
  BY <1>1 DEF ChanTypes
<1>7. line \in Seq(Nat)
  BY <1>3, <1>6, AppendProperties
<1> HIDE DEF ch, sq, takes, line
<1>8. CASE /\ line # <<>>
           /\ sendq' = [sq EXCEPT ![ch] = Behind(@)]
           /\ items' = [items EXCEPT ![ch] = Tail(line)]
           /\ log' = [log EXCEPT ![ch] = Append(@, Head(line))]
           /\ emptied' = IF takes THEN emptied \cup {Oldest(sq[ch]).v}
                         ELSE emptied
  <2>1. Head(line) \in Nat /\ Tail(line) \in Seq(Nat)
    BY <1>7, <1>8, HeadTailProperties
  <2>2. Append(log[ch], Head(line)) \in Seq(Nat)
    BY <1>6, <2>1, AppendProperties
  <2>3. Behind(sq[ch]) \in Seq(SendNodes(M))
    BY <1>1, <1>2, BehindType
  <2>4. sendq' \in [Channels -> Seq(SendNodes(M))]
    BY <1>1, <1>2, <1>8, <2>3
  <2>5. items' \in [Channels -> Seq(Nat)] /\ log' \in [Channels -> Seq(Nat)]
    BY <1>1, <1>8, <2>1, <2>2 DEF ChanTypes
  <2>6. emptied' \subseteq M
    BY <1>3, <1>8 DEF ChanTypes
  <2> QED
    BY <1>2, <1>4, <2>4, <2>5, <2>6 DEF ChanTypes
<1>9. CASE sendq' = sq /\ UNCHANGED <<items, log, emptied>>
  BY <1>2, <1>4, <1>9 DEF ChanTypes
<1> QED
  BY <1>5, <1>8, <1>9

\* An arm that answers keeps the types.
LEMMA WinsType ==
    ASSUME NEW M \in SUBSET Nat, ChanTypes(M), NEW as \in Seq(Arms),
           NEW i \in DOMAIN as, Offers(as) \subseteq M, Wins(as, i)
    PROVE  ChanTypes(M)'
  BY PutNowType, TakeNowType DEF Wins

\* What a park puts at the tail of each queue.
RecvTail(f, as, ch) ==
    [k \in 1..Cardinality(On(as, "recv", ch)) |->
       [fiber |-> f, nonce |-> nonce'[f]]]
SendTail(f, as, ch) ==
    [k \in 1..Cardinality(On(as, "send", ch)) |->
       [fiber |-> f, nonce |-> nonce'[f],
        v |-> as[Nth(On(as, "send", ch), k)].v]]

\* The arms of one side on one channel are finitely many.
LEMMA OnOnes ==
    ASSUME NEW as \in Seq(Arms), NEW dir, NEW ch
    PROVE  /\ On(as, dir, ch) \in SUBSET (1..Len(as)) /\ Len(as) \in Nat
           /\ IsFiniteSet(On(as, dir, ch))
           /\ Cardinality(On(as, dir, ch)) \in Nat
           /\ Cardinality(On(as, dir, ch)) = 0 <=> On(as, dir, ch) = {}
<1>1. On(as, dir, ch) \in SUBSET (1..Len(as)) /\ Len(as) \in Nat
  <2>1. DOMAIN as = 1..Len(as) /\ Len(as) \in Nat
    BY LenProperties
  <2>2. On(as, dir, ch) \subseteq DOMAIN as
    BY DEF On
  <2> QED
    BY <2>1, <2>2, Zenon
<1>2. IsFiniteSet(1..Len(as))
  <2>1. 1 \in Int /\ Len(as) \in Int
    BY <1>1
  <2> QED
    BY <2>1, FS_Interval, Zenon
<1>3. IsFiniteSet(On(as, dir, ch))
  BY <1>1, <1>2, FS_Subset
<1> QED
  BY <1>1, <1>3, FS_CardinalityType, FS_EmptySet

\* The nodes a park puts behind a queue of receivers.
LEMMA RecvTailIs ==
    ASSUME NEW as \in Seq(Arms), NEW f \in Fibers, nonce'[f] \in Nat, NEW ch
    PROVE  /\ RecvTail(f, as, ch) \in Seq(RecvNodes)
           /\ \A n \in ToSet(RecvTail(f, as, ch)) :
                /\ n.fiber = f /\ n.nonce = nonce'[f]
                /\ On(as, "recv", ch) # {}
           /\ On(as, "recv", ch) # {} => \E n : n \in ToSet(RecvTail(f, as, ch))
<1> DEFINE N == Cardinality(On(as, "recv", ch))
           node == [fiber |-> f, nonce |-> nonce'[f]]
           t == RecvTail(f, as, ch)
<1>1. N \in Nat /\ (N = 0 <=> On(as, "recv", ch) = {})
  BY OnOnes
<1>2. t = [k \in 1..N |-> node]
  BY DEF RecvTail
<1>3. node \in RecvNodes /\ node.fiber = f /\ node.nonce = nonce'[f]
  BY DEF RecvNodes
<1> HIDE DEF N, node, t
<1>4. t \in [1..N -> RecvNodes] /\ DOMAIN t = 1..N /\ \A k \in 1..N : t[k] = node
  BY <1>2, <1>3
<1>5. t \in Seq(RecvNodes) /\ Len(t) = N
  BY <1>1, <1>4, IsList
<1>6. \A n \in ToSet(t) : n = node /\ \E k \in 1..N : n = t[k]
  BY <1>4, Zenon DEF ToSet
<1>7. \A n \in ToSet(t) : n = node /\ N # 0
  BY <1>1, <1>6
<1>8. N # 0 => t[1] \in ToSet(t)
  <2>1. N # 0 => 1 \in DOMAIN t
    BY <1>1, <1>4
  <2> QED
    BY <2>1 DEF ToSet
<1> QED
  BY <1>1, <1>3, <1>5, <1>7, <1>8 DEF t

\* The nodes a park puts behind a queue of senders, with their values.
LEMMA SendTailIs ==
    ASSUME NEW as \in Seq(Arms), NEW f \in Fibers, nonce'[f] \in Nat, NEW ch
    PROVE  /\ SendTail(f, as, ch) \in Seq(SendNodes(Offers(as)))
           /\ \A n \in ToSet(SendTail(f, as, ch)) :
                /\ n.fiber = f /\ n.nonce = nonce'[f]
                /\ n.v \in Offers(as) /\ On(as, "send", ch) # {}
           /\ On(as, "send", ch) # {} => \E n : n \in ToSet(SendTail(f, as, ch))
<1> DEFINE mine == On(as, "send", ch)
           N == Cardinality(mine)
           node(k) == [fiber |-> f, nonce |-> nonce'[f],
                       v |-> as[Nth(mine, k)].v]
           t == SendTail(f, as, ch)
           T == SendNodes(Offers(as))
<1>1. N \in Nat /\ (N = 0 <=> mine = {}) /\ mine \in SUBSET (1..Len(as))
        /\ Len(as) \in Nat
  BY OnOnes
<1>2. t = [k \in 1..N |-> node(k)]
  BY DEF SendTail
<1>3. ASSUME NEW k \in 1..N PROVE as[Nth(mine, k)].v \in Offers(as)
  <2>1. Nth(mine, k) \in mine
    <3> HIDE DEF mine
    <3> QED
      BY <1>1, NthIsOne
  <2>2. Nth(mine, k) \in DOMAIN as /\ as[Nth(mine, k)].dir = "send"
    BY <2>1 DEF On
  <2> QED
    BY <2>2 DEF Offers
<1>4. \A k \in 1..N : /\ node(k) \in T
                      /\ node(k).fiber = f /\ node(k).nonce = nonce'[f]
                      /\ node(k).v \in Offers(as)
  BY <1>3 DEF SendNodes
<1> HIDE DEF N, node, t, mine, T
<1>5. t \in [1..N -> T] /\ DOMAIN t = 1..N /\ \A k \in 1..N : t[k] = node(k)
  BY <1>2, <1>4
<1>6. t \in Seq(T) /\ Len(t) = N
  BY <1>1, <1>5, IsList
<1>7. \A n \in ToSet(t) : \E k \in 1..N : n = node(k)
  BY <1>5, Zenon DEF ToSet
<1>9. N # 0 => t[1] \in ToSet(t)
  <2>1. N # 0 => 1 \in DOMAIN t
    BY <1>1, <1>5
  <2> QED
    BY <2>1 DEF ToSet
<1>10. ASSUME NEW n \in ToSet(t)
       PROVE  /\ n.fiber = f /\ n.nonce = nonce'[f] /\ n.v \in Offers(as)
              /\ mine # {}
  <2>1. PICK k \in 1..N : n = node(k)
    BY <1>7
  <2>2. N # 0
    BY <1>1, <2>1
  <2> QED
    BY <1>1, <1>4, <2>1, <2>2
<1>12. mine # {} => \E n : n \in ToSet(t)
  BY <1>1, <1>9, Zenon
<1> QED
  BY <1>6, <1>10, <1>12, Zenon DEF t, T, mine

\* A park puts them behind what looking at the queues left.
LEMMA ParkArmsQueues ==
    ASSUME NEW f, NEW as, ParkArms(f, as)
    PROVE  /\ DOMAIN recvq' = Channels /\ DOMAIN sendq' = Channels
           /\ \A ch \in Channels :
                /\ recvq'[ch] =
                     Pruned(recvq, "send", as)[ch] \o RecvTail(f, as, ch)
                /\ sendq'[ch] =
                     Pruned(sendq, "recv", as)[ch] \o SendTail(f, as, ch)
<1>1. recvq' = [ch \in Channels |->
                  Pruned(recvq, "send", as)[ch] \o RecvTail(f, as, ch)]
  BY DEF ParkArms, RecvTail
<1>2. sendq' = [ch \in Channels |->
                  Pruned(sendq, "recv", as)[ch] \o SendTail(f, as, ch)]
  BY DEF ParkArms, SendTail
<1> QED
  BY <1>1, <1>2

\* The park's count is a number, and higher than the last.
LEMMA ParkNonce ==
    ASSUME CInv, NEW f \in Fibers, Park(f)
    PROVE  nonce' \in [Fibers -> Nat] /\ nonce'[f] = nonce[f] + 1
  BY DEF CInv, ChanTypeOK, Park

\* A park keeps the types.
LEMMA ParkArmsType ==
    ASSUME CInv, NEW M, ChanTypes(M), NEW f \in Fibers, NEW as \in Seq(Arms),
           Offers(as) \subseteq M, ParkArms(f, as),
           UNCHANGED <<items, closed, emptied, accepted, refused, log>>
    PROVE  ChanTypes(M)' /\ nonce' \in [Fibers -> Nat]
<1>1. nonce' \in [Fibers -> Nat]
  BY ParkNonce DEF ParkArms
<1>2. /\ Pruned(recvq, "send", as) \in [Channels -> Seq(RecvNodes)]
      /\ Pruned(sendq, "recv", as) \in [Channels -> Seq(SendNodes(M))]
  BY PrunedType DEF ChanTypes
<1>3. Seq(SendNodes(Offers(as))) \subseteq Seq(SendNodes(M))
  <2>1. SendNodes(Offers(as)) \subseteq SendNodes(M)
    BY DEF SendNodes
  <2> QED
    BY <2>1, SeqMonotonic
<1>4. ASSUME NEW ch \in Channels
      PROVE  recvq'[ch] \in Seq(RecvNodes) /\ sendq'[ch] \in Seq(SendNodes(M))
  <2>1. RecvTail(f, as, ch) \in Seq(RecvNodes)
    BY <1>1, RecvTailIs
  <2>2. SendTail(f, as, ch) \in Seq(SendNodes(M))
    BY <1>1, <1>3, SendTailIs
  <2>3. /\ Pruned(recvq, "send", as)[ch] \in Seq(RecvNodes)
        /\ Pruned(sendq, "recv", as)[ch] \in Seq(SendNodes(M))
    BY <1>2
  <2>4. /\ recvq'[ch] = Pruned(recvq, "send", as)[ch] \o RecvTail(f, as, ch)
        /\ sendq'[ch] = Pruned(sendq, "recv", as)[ch] \o SendTail(f, as, ch)
    BY ParkArmsQueues
  <2> QED
    BY <2>1, <2>2, <2>3, <2>4, ConcatProperties
<1>5. recvq' = [ch \in Channels |-> recvq'[ch]]
        /\ sendq' = [ch \in Channels |-> sendq'[ch]]
  <2>1. recvq' = [ch \in Channels |->
                    Pruned(recvq, "send", as)[ch] \o RecvTail(f, as, ch)]
    BY DEF ParkArms, RecvTail
  <2>2. sendq' = [ch \in Channels |->
                    Pruned(sendq, "recv", as)[ch] \o SendTail(f, as, ch)]
    BY DEF ParkArms, SendTail
  <2> QED
    BY <2>1, <2>2
<1>6. recvq' \in [Channels -> Seq(RecvNodes)]
        /\ sendq' \in [Channels -> Seq(SendNodes(M))]
  BY <1>4, <1>5
<1> QED
  BY <1>1, <1>6 DEF ChanTypes

\* What remains of CInv when the channels' variables have their types.
LEMMA CInvNext ==
    ASSUME NEW M, M = 1..minted', minted' \in Nat, ChanTypes(M)',
           nonce' \in [Fibers -> Nat], arms' \in [Fibers -> Seq(Arms)],
           \A f \in Fibers : /\ Offers(arms'[f]) \subseteq M
                             /\ pc'[f] \in Resumptions => arms'[f] # <<>>
                             /\ pc'[f] = "receive" => Offers(arms'[f]) = {}
    PROVE  CInv'
<1>1. M \subseteq Nat
  OBVIOUS
<1>2. SendNodes(M) \subseteq [fiber : Fibers, nonce : Nat, v : Nat]
  BY <1>1 DEF SendNodes
<1>3. Seq(SendNodes(M)) \subseteq Seq([fiber : Fibers, nonce : Nat, v : Nat])
  BY <1>2, SeqMonotonic
<1>4. /\ items' \in [Channels -> Seq(Nat)]
      /\ closed' \in [Channels -> BOOLEAN]
      /\ recvq' \in [Channels -> Seq(RecvNodes)]
      /\ sendq' \in [Channels -> Seq(SendNodes(M))]
      /\ emptied' \subseteq M
      /\ accepted' \subseteq M
      /\ refused' \subseteq M
      /\ log' \in [Channels -> Seq(Nat)]
  BY DEF ChanTypes
<1>5. sendq' \in [Channels -> Seq([fiber : Fibers, nonce : Nat, v : Nat])]
  <2> HIDE DEF SendNodes
  <2> QED
    BY <1>3, <1>4
<1>6. ChanTypeOK'
  BY <1>4, <1>5 DEF ChanTypeOK, RecvNodes
<1> QED
  BY <1>4, <1>6 DEF CInv

\* Every operation keeps the types of the channels' variables.
LEMMA OperatesTypes ==
    ASSUME IInv, CInv, NEW f \in Fibers, Operates(f), OnStack(f)
    PROVE  CInv'
<1>1. minted \in Nat /\ minted' \in Nat /\ minted' >= minted
  BY DEF CInv, ChanTypeOK, OnStack
<1>2. PICK M \in SUBSET Nat : M = 1..minted' /\ 1..minted \subseteq M
  BY <1>1
<1>4. ChanTypes(M)
  BY <1>2, TypesOf
<1>5. /\ nonce \in [Fibers -> Nat] /\ arms \in [Fibers -> Seq(Arms)]
      /\ pc \in [Fibers -> Continuations]
      /\ \A h \in Fibers : /\ Offers(arms[h]) \subseteq M
                           /\ pc[h] \in Resumptions => arms[h] # <<>>
                           /\ pc[h] = "receive" => Offers(arms[h]) = {}
  BY <1>2 DEF CInv, ChanTypeOK, IInv, TypeOK, SchedTypeOK
<1>6. ASSUME Ends(f), ChanTypes(M)' PROVE CInv'
  <2>1. Offers(<<>>) = {} /\ <<>> \in Seq(Arms)
    BY DEF Offers
  <2>2. /\ \A h \in Fibers : pc'[h] = IF h = f THEN "user" ELSE pc[h]
        /\ \A h \in Fibers : arms'[h] = IF h = f THEN <<>> ELSE arms[h]
        /\ arms' \in [Fibers -> Seq(Arms)] /\ UNCHANGED nonce
    BY <1>5, <1>6, <2>1 DEF Ends, Continue
  <2>3. \A h \in Fibers : /\ Offers(arms'[h]) \subseteq M
                          /\ pc'[h] \in Resumptions => arms'[h] # <<>>
                          /\ pc'[h] = "receive" => Offers(arms'[h]) = {}
    BY <1>5, <2>1, <2>2 DEF Resumptions
  <2> QED
    BY <1>1, <1>2, <1>5, <1>6, <2>2, <2>3, CInvNext
<1>7. CASE Close(f)
  <2>1. /\ UNCHANGED <<items, emptied, nonce, arms, minted, accepted, refused,
                       log, pc>>
        /\ \E ch \in Channels :
             /\ closed' = [closed EXCEPT ![ch] = TRUE]
             /\ recvq' = [recvq EXCEPT ![ch] = <<>>]
             /\ sendq' = [sendq EXCEPT ![ch] = <<>>]
    BY <1>7 DEF Close, historyVars
  <2>2. /\ recvq' \in [Channels -> Seq(RecvNodes)]
        /\ sendq' \in [Channels -> Seq(SendNodes(M))]
        /\ closed' \in [Channels -> BOOLEAN]
    BY <1>4, <2>1 DEF ChanTypes
  <2>3. ChanTypes(M)'
    BY <1>4, <2>1, <2>2 DEF ChanTypes
  <2> QED
    BY <1>1, <1>2, <1>5, <2>1, <2>3, CInvNext
<1>8. CASE BoxEmptied(f) /\ UNCHANGED minted
  <2>1. Offers(arms[f]) \subseteq M
    BY <1>5
  <2>2. ChanTypes(M)'
    BY <1>4, <1>8, <2>1 DEF BoxEmptied, queueVars, ChanTypes
  <2> QED
    BY <1>6, <1>8, <2>2 DEF BoxEmptied
<1>9. ASSUME NEW as, Mine(f, as), Acts(f, as) PROVE CInv'
  <2>1. as \in Seq(Arms) /\ as # <<>> /\ Offers(as) \subseteq M
    BY <1>1, <1>2, <1>9, MineOffers DEF Mine
  <2>2. CASE EndsRefused(f, as)
    <3>1. ChanTypes(M)'
      BY <1>4, <2>1, <2>2 DEF EndsRefused, queueVars, ChanTypes
    <3> QED
      BY <1>6, <2>2, <3>1 DEF EndsRefused
  <2>3. CASE (\E i \in DOMAIN as : Wins(as, i)) /\ Ends(f)
    <3>1. ChanTypes(M)'
      BY <1>2, <1>4, <2>1, <2>3, WinsType
    <3> QED
      BY <1>6, <2>3, <3>1
  <2>4. CASE Declines(f, as)
    <3>1. /\ recvq' \in [Channels -> Seq(RecvNodes)]
          /\ sendq' \in [Channels -> Seq(SendNodes(M))]
      BY <1>4, <2>4, PrunedType DEF Declines, ChanTypes
    <3>2. ChanTypes(M)'
      BY <1>4, <2>1, <2>4, <3>1 DEF Declines, ChanTypes
    <3> QED
      BY <1>6, <2>4, <3>2 DEF Declines
  <2>5. CASE AwaitsAll(f, as)
    <3>1. ChanTypes(M)' /\ nonce' \in [Fibers -> Nat]
      BY <1>4, <2>1, <2>5, ParkArmsType DEF AwaitsAll
    <3>2. PICK step \in Resumptions :
            Continue(f, step, None) /\ (step = "receive" => Offers(as) = {})
      BY <2>5 DEF AwaitsAll
    <3>3. /\ \A h \in Fibers : pc'[h] = IF h = f THEN step ELSE pc[h]
          /\ \A h \in Fibers : arms'[h] = IF h = f THEN as ELSE arms[h]
          /\ arms' \in [Fibers -> Seq(Arms)]
      BY <1>5, <2>1, <2>5, <3>2 DEF AwaitsAll, Continue
    <3>4. \A h \in Fibers : /\ Offers(arms'[h]) \subseteq M
                            /\ pc'[h] \in Resumptions => arms'[h] # <<>>
                            /\ pc'[h] = "receive" => Offers(arms'[h]) = {}
      BY <1>5, <2>1, <3>2, <3>3
    <3> QED
      BY <1>1, <1>2, <3>1, <3>3, <3>4, CInvNext
  <2> QED
    BY <1>9, <2>2, <2>3, <2>4, <2>5 DEF Acts
<1> QED
  BY <1>7, <1>8, <1>9 DEF Operates

-----------------------------------------------------------------------------
(* Fibers, groups and channels together *)

\* The invariant of a program that uses all three: the channels' variables
\* keep their types beside everything that holds of groups alone.
ChanInv ==
    /\ IInv /\ ChanMade /\ QInv /\ SInv
    /\ CancelReachesBlocked
    /\ NInv /\ CInv

\* No step of IyiGroup takes a fiber into an operation on a channel.
LEMMA NextPc ==
    ASSUME IInv, Next, NEW h \in Fibers, pc'[h] \in Resumptions
    PROVE  pc'[h] = pc[h]
<1>1. pc \in [Fibers -> Continuations]
  BY DEF IInv, TypeOK, SchedTypeOK
<1>2. ASSUME NEW f, NEW step, NEW what, step \notin Resumptions,
             Continue(f, step, what)
      PROVE  pc'[h] = pc[h]
  BY <1>1, <1>2 DEF Continue
<1>3. ASSUME NEW f, Raise(f) PROVE pc'[h] = pc[h]
  BY <1>2, <1>3 DEF Raise, Resumptions
<1>4. ASSUME NEW f, FiberStep(f) PROVE pc'[h] = pc[h]
  <2>1. CASE TaskReturns(f) \/ TaskDies(f)
    BY <1>2, <2>1 DEF TaskReturns, TaskDies, Complete, Resumptions
  <2>2. CASE TaskSleeps(f) \/ TaskReads(f)
    BY <1>2, <1>3, <2>2
       DEF TaskSleeps, Sleep, TaskReads, WaitReadable, schedVars, Resumptions
  <2>3. CASE TaskReadsOn(f) \/ TaskPanics(f) \/ OpenGroup(f) \/ Spawn(f)
    BY <1>2, <1>3, <2>3
       DEF TaskReadsOn, Read, TaskPanics, OpenGroup, Spawn, schedVars,
           Resumptions
  <2>4. CASE LeaveGroup(f) \/ DrainGroup(f) \/ Gather(f) \/ JoinParks(f)
    BY <1>2, <2>4
       DEF LeaveGroup, DrainGroup, PopsGroup, Gather, JoinParks, Resumptions
  <2>5. CASE JoinReturns(f)
    BY <1>2, <1>3, <2>5 DEF JoinReturns, Resumptions
  <2>6. CASE Value(f) \/ ValueParks(f) \/ ValueReturns(f)
    BY <1>2, <1>3, <2>6 DEF Value, ValueParks, ValueReturns, Resumptions
  <2> QED
    BY <1>4, <2>1, <2>2, <2>3, <2>4, <2>5, <2>6 DEF FiberStep
<1>5. CASE Dispatch \/ Poll \/ Stall
  BY <1>3, <1>5 DEF Dispatch, Poll, Stall
<1>6. CASE \/ Passes \/ MainReturns \/ MainDies \/ Over
           \/ \E fd \in Fds : Answers(fd)
  BY <1>6 DEF Passes, Tick, MainReturns, MainDies, Exit, Over, Answers,
              Arrive, vars, schedVars
<1> QED
  BY <1>4, <1>5, <1>6 DEF Next, Runtime, Reschedules

\* What has been made stays made.
LEMMA MadeGrows ==
    ASSUME IInv, Next
    PROVE  Made \subseteq Made'
<1>1. CASE UNCHANGED group
  BY <1>1, MadeSame
<1>2. ASSUME NEW f \in Fibers, Spawn(f) PROVE Made \subseteq Made'
  <2>1. PICK g \in Spawnable(f), c \in Fibers :
          group' = [group EXCEPT ![c] = g]
    BY <1>2 DEF Spawn
  <2>2. g \in Groups
    <3>1. scopes[f] \in Seq(Groups) /\ group[f] \in Groups \cup {None}
      BY DEF IInv, TypeOK, GroupTypeOK
    <3>2. ToSet(scopes[f]) \subseteq Groups
      BY <3>1, ElementsOf
    <3> QED
      BY <3>1, <3>2 DEF Spawnable
  <2>3. \A h \in Fibers : group'[h] = g \/ group'[h] = group[h]
    BY <2>1 DEF IInv, TypeOK, GroupTypeOK
  <2> QED
    BY <2>2, <2>3 DEF Made
<1>3. ASSUME NEW f \in Fibers, FiberStep(f), ~Spawn(f) PROVE UNCHANGED group
  BY <1>3 DEF FiberStep, TaskReturns, TaskDies, Complete, TaskSleeps, TaskReads,
              TaskReadsOn, TaskPanics, OpenGroup, LeaveGroup, DrainGroup,
              PopsGroup, Gather, JoinParks, JoinReturns, Value, ValueParks,
              ValueReturns, taskVars
<1>4. CASE ~\E f \in Fibers : FiberStep(f)
  BY <1>1, <1>4 DEF Next, Runtime, Reschedules, MainReturns, MainDies, Exit,
                    Passes, Answers, Over, vars, taskVars
<1> QED
  BY <1>1, <1>2, <1>3, <1>4

\* The invariant holds at the start.
LEMMA ChanInvInit == ChanInits => ChanInv
<1> SUFFICES ASSUME ChanInits PROVE ChanInv
  OBVIOUS
<1>1. Init /\ ChanInit
  BY DEF ChanInits
<1>2. IInv /\ QInv /\ SInv /\ NInv
  BY <1>1, InitType, InitQueued, InitScoped, NInvInit DEF QInv, SInv
<1>3. CancelReachesBlocked /\ ChanMade
  BY <1>1 DEF Init, SchedInit, CancelReachesBlocked, ChanMade, InState
<1>4. ChanTypeOK
  BY <1>1 DEF ChanInit, ChanTypeOK
<1>5. Offers(<<>>) = {}
  BY DEF Offers
<1>6. CInv
  BY <1>1, <1>4, <1>5 DEF ChanInit, Init, SchedInit, CInv, Resumptions
<1> QED
  BY <1>2, <1>3, <1>6 DEF ChanInv

\* Every step of IyiGroup leaves the channels alone.
LEMMA GroupKeeps ==
    ASSUME ChanInv, Next, UNCHANGED chanVars
    PROVE  CInv' /\ ChanMade'
<1>1. UNCHANGED <<items, closed, recvq, sendq, emptied, nonce, arms, minted,
                  accepted, refused, log>>
  BY DEF chanVars, queueVars, historyVars
<1>2. ChanTypeOK'
  BY <1>1 DEF ChanInv, CInv, ChanTypeOK
<1>3. \A h \in Fibers : pc'[h] \in Resumptions => pc'[h] = pc[h]
  BY NextPc DEF ChanInv
<1>4. CInv'
  BY <1>1, <1>2, <1>3 DEF ChanInv, CInv, Resumptions
<1>5. ChanMade'
  <2>1. InState("chan")' \subseteq InState("chan")
    BY GroupParksNobody DEF ChanInv, NobodyParks, InState
  <2> QED
    BY <2>1, MadeGrows DEF ChanInv, ChanMade
<1> QED
  BY <1>4, <1>5

\* Every step of a fiber on the channels is, to the group, one of those that
\* wake or park.
LEMMA StepViews ==
    ASSUME ChanInv, NEW f \in Fibers, ChanStep(f)
    PROVE  Operates(f) /\ OnStack(f) /\ GroupView(f)
  BY StepOperates, OperatesWakes DEF ChanInv, GroupView

\* An operation keeps every part of the invariant.
LEMMA StepKeeps ==
    ASSUME ChanInv, NEW f \in Fibers, ChanStep(f)
    PROVE  IInv' /\ ChanMade' /\ QInv' /\ SInv' /\ CancelReachesBlocked' /\ CInv'
<1>1. Operates(f) /\ OnStack(f) /\ GroupView(f)
  BY StepViews
<1>2. IInv' /\ ChanMade' /\ CancelReachesBlocked'
  BY <1>1, ViewType, ViewReaches DEF ChanInv
<1>3. CInv'
  BY <1>1, OperatesTypes DEF ChanInv
<1>4. stalled' <=> stalled
  BY <1>1, FarVars DEF OnStack, stalled
<1>5. QInv' /\ SInv'
  BY <1>1, <1>4, ViewQueued, ViewScoped DEF ChanInv, QInv, SInv
<1> QED
  BY <1>2, <1>3, <1>5

\* Every step keeps the invariant.
LEMMA ChanInvStep ==
    ASSUME ChanInv, [ChanNext]_allVars
    PROVE  ChanInv'
<1>1. NInv'
  BY EveryStepMoves, NInvStep DEF ChanInv
<1>2. CASE Next /\ UNCHANGED chanVars
  BY <1>1, <1>2, NextType, NextQueued, NextScoped, NextReaches, GroupKeeps
     DEF ChanInv
<1>3. CASE \E f \in Fibers : ChanStep(f)
  BY <1>1, <1>3, StepKeeps DEF ChanInv
<1>4. CASE UNCHANGED allVars
  <2>1. UNCHANGED vars /\ UNCHANGED chanVars
    BY <1>4 DEF allVars
  <2>2. IInv' /\ QInv' /\ SInv' /\ CancelReachesBlocked'
    BY <2>1, NextType, NextQueued, NextScoped, NextReaches DEF ChanInv
  <2>3. UNCHANGED <<group, state, pc>>
    BY <2>1 DEF vars, schedVars, taskVars
  <2>4. ChanMade'
    BY <2>3 DEF ChanInv, ChanMade, Made, InState
  <2>5. CInv'
    BY <2>1, <2>3 DEF ChanInv, CInv, ChanTypeOK, chanVars, queueVars,
                      historyVars
  <2> QED
    BY <1>1, <2>2, <2>4, <2>5 DEF ChanInv
<1> QED
  BY <1>2, <1>3, <1>4 DEF ChanNext

\* The invariant holds in every reachable state.
LEMMA InductiveChannels == ChanSpec => []ChanInv
  BY ChanInvInit, ChanInvStep, PTL DEF ChanSpec

\* Whatever a program of any fibers sends, receives, selects, tries, closes,
\* spawns and fails at, the variables of the scheduler, of the groups and of
\* the channels keep their types, and no value is anybody's that was not
\* made.
THEOREM ChannelTypes == ChanSpec => []AllTypeOK
<1>1. ChanInv => AllTypeOK
  BY DEF ChanInv, IInv, CInv, AllTypeOK
<1> QED
  BY <1>1, InductiveChannels, PTL

\* III.4.2 for programs that block on channels too: no order of sends,
\* receives, selects, closes and failures leaves a fiber parked that was
\* told to stop.
THEOREM CancellationReachesChannels == ChanSpec => []CancelReachesBlocked
<1>1. ChanInv => CancelReachesBlocked
  BY DEF ChanInv
<1> QED
  BY <1>1, InductiveChannels, PTL

\* Channels leave the scheduler's lists and the groups as they promise to
\* be: what was proved of programs of tasks alone holds of programs whose
\* tasks park on channels and are woken by others' sends, receives and
\* closes.
THEOREM GroupsHoldWithChannels ==
    ChanSpec => [](QueueExact /\ LiveExact /\ ScopeJoined /\ PanicsSurface
                     /\ CancelOnlyByFailure)
<1>1. ChanInv => QueueExact
  BY QueuedIsExact DEF ChanInv
<1>2. SInv => LiveExact /\ CancelOnlyByFailure
  BY DEF SInv, Scoped, Counted, Undone, Blamed, LiveExact, CancelOnlyByFailure
<1>3. SInv => ScopeJoined /\ PanicsSurface
  BY LeftIsGone DEF SInv, Scoped, GoneDone, GoneLoud, Undone, ScopeJoined,
                    PanicsSurface
<1>4. ChanInv => SInv
  BY DEF ChanInv
<1> QED
  BY <1>1, <1>2, <1>3, <1>4, InductiveChannels, PTL

-----------------------------------------------------------------------------
(***************************************************************************)
(* Who is left parked.  A step that does not park takes nodes off the      *)
(* queues: the stale ones it meets and that of the fiber it wakes, so that *)
(* whoever stays parked keeps its nodes.  Closing empties both queues, and *)
(* a receive that leaves the buffer shorter found nobody to refill it.     *)
(***************************************************************************)

\* The node of whoever stays parked stays.
Kept(q, r) ==
    \A ch \in Channels : \A n \in ToSet(q[ch]) :
        Current(n) /\ Current(n)' => n \in ToSet(r[ch])

\* A step, of whatever part of the program, that parks nobody on a channel.
Releases ==
    /\ NobodyParks /\ UNCHANGED nonce
    /\ Drops(recvq, recvq') /\ Drops(sendq, sendq')
    /\ Kept(recvq, recvq') /\ Kept(sendq, sendq')
    /\ \A ch \in Channels :
         /\ closed'[ch] =>
              closed[ch] \/ (recvq'[ch] = <<>> /\ sendq'[ch] = <<>>)
         /\ Len(items'[ch]) >= Len(items[ch]) \/ sendq'[ch] = <<>>

\* The end of a list.
LEMMA InEnd ==
    ASSUME NEW T, NEW q \in Seq(T), NEW m \in Nat \ {0}, NEW i \in m..Len(q)
    PROVE  q[i] \in ToSet(SubSeq(q, m, Len(q)))
<1>1. Len(q) \in Nat /\ i \in Int /\ m <= i /\ i <= Len(q)
  OBVIOUS
<1> DEFINE r == SubSeq(q, m, Len(q))
           k == i - m + 1
<1>2. k \in 1..(Len(q) - m + 1)
  BY <1>1
<1>3. r = [j \in 1..(Len(q) - m + 1) |-> q[m + j - 1]]
  BY <1>1, SubSeqProperties
<1>4. m + k - 1 = i
  BY <1>1
<1> HIDE DEF r, k
<1>5. k \in DOMAIN r /\ r[k] = q[i]
  BY <1>2, <1>3, <1>4
<1> QED
  BY <1>5 DEF ToSet, r

\* Neither looking at a queue nor waking its oldest node cuts off another
\* current node.
LEMMA EndsKeep ==
    ASSUME NEW T, NEW q \in Seq(T), NEW n \in ToSet(q), Current(n)
    PROVE  /\ Waits(q) # {}
           /\ n \in ToSet(SubSeq(q, Min(Waits(q)), Len(q)))
           /\ n = Oldest(q) \/ n \in ToSet(Behind(q))
<1>1. PICK i \in DOMAIN q : n = q[i]
  BY DEF ToSet
<1>2. i \in Waits(q)
  BY <1>1 DEF Waits
<1>3. Waits(q) \in SUBSET Nat /\ Waits(q) # {}
  BY <1>2 DEF Waits
<1>4. Min(Waits(q)) \in Waits(q) /\ Min(Waits(q)) <= i
  BY <1>2, <1>3, Smallest
<1>5. Min(Waits(q)) \in Nat \ {0} /\ i \in Min(Waits(q))..Len(q)
  BY <1>4 DEF Waits
<1>6. n \in ToSet(SubSeq(q, Min(Waits(q)), Len(q)))
  BY <1>1, <1>5, InEnd
<1>7. CASE i = Min(Waits(q))
  BY <1>1, <1>3, <1>6, <1>7 DEF Oldest
<1>8. CASE i # Min(Waits(q))
  <2>1. Min(Waits(q)) + 1 \in Nat \ {0} /\ i \in (Min(Waits(q)) + 1)..Len(q)
    BY <1>5, <1>8
  <2>2. n \in ToSet(SubSeq(q, Min(Waits(q)) + 1, Len(q)))
    BY <1>1, <2>1, InEnd
  <2> QED
    BY <1>3, <1>6, <2>2 DEF Behind
<1> QED
  BY <1>7, <1>8

\* Looking at the queues loses no current node.
LEMMA PrunedKeeps ==
    ASSUME NEW T, NEW q \in [Channels -> Seq(T)], NEW dir, NEW tried,
           NEW ch \in Channels, NEW n \in ToSet(q[ch]), Current(n)
    PROVE  n \in ToSet(Pruned(q, dir, tried)[ch])
<1>1. q[ch] \in Seq(T)
  OBVIOUS
<1>2. Waits(q[ch]) # {}
        /\ n \in ToSet(SubSeq(q[ch], Min(Waits(q[ch])), Len(q[ch])))
  BY <1>1, EndsKeep
<1>3. \/ Pruned(q, dir, tried)[ch] = q[ch]
      \/ Pruned(q, dir, tried)[ch] =
           SubSeq(q[ch], Min(Waits(q[ch])), Len(q[ch]))
  BY <1>2 DEF Pruned
<1> QED
  BY <1>2, <1>3

\* Nor one that is still current after the step.
LEMMA PrunedKept ==
    ASSUME NEW T, NEW q \in [Channels -> Seq(T)], NEW dir, NEW tried
    PROVE  Kept(q, Pruned(q, dir, tried))
  BY PrunedKeeps DEF Kept

\* A queue may lose its oldest node when that node's fiber is woken.
LEMMA BehindKept ==
    ASSUME NEW T, NEW q \in [Channels -> Seq(T)], NEW dir, NEW tried,
           NEW ch \in Channels, NEW m,
           LET p == Pruned(q, dir, tried)[ch]
           IN  Waits(p) # {} => m = Oldest(p) /\ ~Current(m)'
    PROVE  Kept(q, [Pruned(q, dir, tried) EXCEPT ![ch] = Behind(@)])
<1> DEFINE p == Pruned(q, dir, tried)
           r == [p EXCEPT ![ch] = Behind(@)]
<1>1. p \in [Channels -> Seq(T)]
  BY PrunedType
<1>2. Waits(p[ch]) # {} => m = Oldest(p[ch]) /\ ~Current(m)'
  OBVIOUS
<1>3. ASSUME NEW d \in Channels, NEW n \in ToSet(q[d]), Current(n), Current(n)'
      PROVE  n \in ToSet(r[d])
  <2>1. n \in ToSet(p[d])
    BY <1>3, PrunedKeeps
  <2> HIDE DEF p
  <2>2. p[ch] \in Seq(T)
    BY <1>1
  <2>3. CASE d # ch
    BY <1>1, <2>1, <2>3
  <2>4. CASE d = ch
    <3>1. Waits(p[ch]) # {} /\ (n = Oldest(p[ch]) \/ n \in ToSet(Behind(p[ch])))
      BY <1>3, <2>1, <2>2, <2>4, EndsKeep
    <3>2. n \in ToSet(Behind(p[ch]))
      BY <1>2, <1>3, <3>1
    <3> QED
      BY <1>1, <2>4, <3>2
  <2> QED
    BY <2>3, <2>4
<1> HIDE DEF p, r
<1>4. Kept(q, r)
  BY <1>3 DEF Kept
<1> QED
  BY <1>4 DEF p, r

\* A fiber that is woken is parked no more.
LEMMA WokenIsOff ==
    ASSUME NEW n, n.fiber \in Fibers, state' = Enqueued(state, <<n.fiber>>)
    PROVE  ~Current(n)'
<1>1. n.fiber \in ToSet(<<n.fiber>>)
  BY ListsOne DEF Lists
<1>2. state'[n.fiber] = "runnable"
  BY <1>1 DEF Enqueued
<1> QED
  BY <1>2 DEF Current

\* A send that is answered loses the node of nobody still parked.
LEMMA PutNowReleases ==
    ASSUME IInv, NInv, CInv, NEW as \in Seq(Arms), NEW i \in DOMAIN as,
           PutNow(as, i), UNCHANGED nonce
    PROVE  Releases
<1> DEFINE ch == as[i].ch
           rq == Pruned(recvq, "send", Before(as, i))
<1>1. ch \in Channels
  BY ChannelOf
<1>2. NobodyParks /\ Drops(recvq, recvq') /\ Drops(sendq, sendq')
  BY PutNowWakes
<1>3. UNCHANGED closed /\ sendq' = Pruned(sendq, "recv", Before(as, i))
  BY DEF PutNow
<1>4. Kept(sendq, sendq')
  BY <1>3, NodeTypes, PrunedKept
<1>5. recvq \in [Channels -> Seq(RecvNodes)]
  BY NodeTypes DEF RecvNodes
<1>6. rq \in [Channels -> Seq(RecvNodes)]
  BY <1>5, PrunedType
<1>7. Kept(recvq, recvq')
  <2>1. CASE recvq' = rq
    BY <1>5, <2>1, PrunedKept
  <2>2. CASE ~closed[ch] /\ recvq' = [rq EXCEPT ![ch] = Behind(@)]
    <3> PICK m : m = Oldest(rq[ch])
      OBVIOUS
    <3>1. ASSUME Waits(rq[ch]) # {} PROVE ~Current(m)'
      <4>1. state' = Enqueued(state, <<m.fiber>>)
        BY <2>2, <3>1 DEF PutNow, OldestFiber
      <4>2. rq[ch] \in Seq(RecvNodes)
        BY <1>1, <1>6
      <4>3. m \in RecvNodes
        <5> HIDE DEF ch, rq
        <5> QED
          BY <3>1, <4>2, OldestType
      <4>4. m.fiber \in Fibers
        BY <4>3 DEF RecvNodes
      <4> QED
        BY <4>1, <4>4, WokenIsOff
    <3>2. Kept(recvq, [rq EXCEPT ![ch] = Behind(@)])
      BY <1>1, <1>5, <3>1, BehindKept
    <3> QED
      BY <2>2, <3>2
  <2> QED
    BY <2>1, <2>2 DEF PutNow
<1>8. ASSUME NEW d \in Channels PROVE Len(items'[d]) >= Len(items[d])
  <2>1. items \in [Channels -> Seq(Nat)] /\ items[d] \in Seq(Nat)
    BY DEF CInv, ChanTypeOK
  <2>2. \/ items'[d] = items[d]
        \/ items'[d] = Append(items[d], as[i].v)
    BY <1>1, <2>1 DEF PutNow
  <2>3. Len(items[d]) \in Nat
    BY <2>1
  <2>4. as[i].v \in Nat
    <3>1. as[i] \in Arms
      BY Element
    <3> QED
      BY <3>1 DEF Arms
  <2>5. Len(Append(items[d], as[i].v)) = Len(items[d]) + 1
    BY <2>1, <2>4, AppendProperties
  <2>6. CASE items'[d] = items[d]
    BY <2>3, <2>6
  <2>7. CASE items'[d] = Append(items[d], as[i].v)
    BY <2>3, <2>5, <2>7
  <2> QED
    BY <2>2, <2>6, <2>7
<1> QED
  BY <1>2, <1>3, <1>4, <1>7, <1>8 DEF Releases

\* Nor does a receive, and a buffer it leaves shorter has no sender.
LEMMA TakeNowReleases ==
    ASSUME IInv, NInv, CInv, NEW as \in Seq(Arms), NEW i \in DOMAIN as,
           TakeNow(as, i), UNCHANGED nonce
    PROVE  Releases
<1> DEFINE ch == as[i].ch
           sq == Pruned(sendq, "recv", Before(as, i))
           takes == Waits(sq[ch]) # {} /\ (items[ch] # <<>> \/ ~closed[ch])
           line == IF takes THEN Append(items[ch], Oldest(sq[ch]).v)
                   ELSE items[ch]
           woken == IF takes THEN OldestFiber(sq[ch]) ELSE <<>>
<1>1. ch \in Channels
  BY ChannelOf
<1>2. NobodyParks /\ Drops(recvq, recvq') /\ Drops(sendq, sendq')
  BY TakeNowWakes
<1>3. UNCHANGED closed /\ recvq' = Pruned(recvq, "send", Before(as, i))
  BY DEF TakeNow
<1>4. Kept(recvq, recvq')
  BY <1>3, NodeTypes, PrunedKept
<1>5. sendq \in [Channels -> Seq(SendNodes(Nat))]
  BY NodeTypes DEF SendNodes
<1>6. sq \in [Channels -> Seq(SendNodes(Nat))]
  BY <1>5, PrunedType
<1>7. sq[ch] \in Seq(SendNodes(Nat))
  BY <1>1, <1>6
<1>8. items \in [Channels -> Seq(Nat)] /\ items[ch] \in Seq(Nat)
  BY <1>1 DEF CInv, ChanTypeOK
<1>9. CASE line = <<>>
  <2>1. sendq' = sq /\ UNCHANGED items
    BY <1>9 DEF TakeNow
  <2>2. Kept(sendq, sendq')
    BY <1>5, <2>1, PrunedKept
  <2>3. \A d \in Channels : Len(items[d]) \in Nat
    BY <1>8
  <2>4. \A d \in Channels : Len(items'[d]) >= Len(items[d])
    BY <2>1, <2>3
  <2> QED
    BY <1>2, <1>3, <1>4, <2>2, <2>4 DEF Releases
<1>10. CASE line # <<>>
  <2>1. /\ sendq' = [sq EXCEPT ![ch] = Behind(@)]
        /\ items' = [items EXCEPT ![ch] = Tail(line)]
        /\ state' = Enqueued(state, woken)
    BY <1>10 DEF TakeNow
  <2>2. takes \/ Waits(sq[ch]) = {}
    BY <1>10
  <2> PICK m : m = Oldest(sq[ch])
    OBVIOUS
  <2>3. ASSUME Waits(sq[ch]) # {} PROVE ~Current(m)'
    <3>1. state' = Enqueued(state, <<m.fiber>>)
      BY <2>1, <2>2, <2>3 DEF OldestFiber
    <3>2. m \in SendNodes(Nat)
      <4> HIDE DEF ch, sq
      <4> QED
        BY <1>7, <2>3, OldestType
    <3>3. m.fiber \in Fibers
      BY <3>2 DEF SendNodes
    <3> QED
      BY <3>1, <3>3, WokenIsOff
  <2>4. Kept(sendq, sendq')
    <3>1. Kept(sendq, [sq EXCEPT ![ch] = Behind(@)])
      BY <1>1, <1>5, <2>3, BehindKept
    <3> QED
      BY <2>1, <3>1
  <2>5. takes => Len(Tail(line)) = Len(items[ch])
    <3>1. takes => line = Append(items[ch], m.v)
      OBVIOUS
    <3>2. takes => m.v \in Nat
      <4> HIDE DEF ch, sq
      <4> QED
        BY <1>7, OldestValue
    <3> HIDE DEF line, ch, sq, takes
    <3>3. ASSUME takes PROVE Len(Tail(line)) = Len(items[ch])
      <4>0. items[ch] \in Seq(Nat) /\ m.v \in Nat
        BY <1>8, <3>2, <3>3
      <4> PICK q \in Seq(Nat), v \in Nat : q = items[ch] /\ v = m.v
        BY <4>0
      <4>3. line = Append(q, v)
        BY <3>1, <3>3
      <4>4. Append(q, v) \in Seq(Nat) /\ Len(Append(q, v)) = Len(q) + 1
        BY AppendProperties
      <4>1. line \in Seq(Nat) /\ Len(line) = Len(items[ch]) + 1
        BY <4>3, <4>4
      <4>2. Len(Tail(line)) = Len(line) - 1
        BY <1>10, <4>1
      <4> QED
        BY <1>8, <4>1, <4>2
    <3> QED
      BY <3>3
  <2>6. Waits(sq[ch]) = {} => sendq'[ch] = <<>>
    BY <1>1, <1>6, <2>1 DEF Behind
  <2> HIDE DEF ch, sq, takes, line, woken
  <2>7. ASSUME NEW d \in Channels
        PROVE  Len(items'[d]) >= Len(items[d]) \/ sendq'[d] = <<>>
    <3>1. Len(items[d]) \in Nat
      BY <1>8
    <3>2. CASE d # ch
      BY <1>8, <2>1, <3>1, <3>2
    <3>3. CASE d = ch
      <4>1. items'[d] = Tail(line)
        BY <1>1, <1>8, <2>1, <3>3
      <4> QED
        BY <2>2, <2>5, <2>6, <3>1, <3>3, <4>1
    <3> QED
      BY <3>2, <3>3
  <2> QED
    BY <1>2, <1>3, <1>4, <2>4, <2>7 DEF Releases
<1> QED
  BY <1>9, <1>10

\* A queue emptied at a close.
LEMMA UnlinkedDrops ==
    ASSUME NEW q, Queues(q), NEW ch
    PROVE  Drops(q, [q EXCEPT ![ch] = <<>>])
<1> DEFINE r == [q EXCEPT ![ch] = <<>>]
<1>1. DOMAIN r = Channels
  BY DEF Queues
<1>2. \A d \in Channels : r[d] = q[d] \/ r[d] = <<>>
  BY DEF Queues
<1>3. ToSet(<<>>) = {} /\ <<>> \in Seq(ToSet(<<>>))
  BY DEF ToSet
<1>4. \A d \in Channels :
        r[d] \in Seq(ToSet(r[d])) /\ ToSet(r[d]) \subseteq ToSet(q[d])
  BY <1>2, <1>3 DEF Queues
<1> QED
  BY <1>1, <1>4 DEF Drops, Queues

\* A step that leaves the channels alone.
LEMMA IdleReleases ==
    ASSUME NInv, CInv, NobodyParks,
           UNCHANGED <<items, closed, recvq, sendq, nonce>>
    PROVE  Releases
<1>1. Drops(recvq, recvq') /\ Drops(sendq, sendq')
  BY SameDrops DEF NInv
<1>2. Kept(recvq, recvq') /\ Kept(sendq, sendq')
  BY DEF Kept
<1>3. \A ch \in Channels : Len(items[ch]) \in Nat
  BY DEF CInv, ChanTypeOK
<1>4. \A ch \in Channels : Len(items'[ch]) >= Len(items[ch])
  BY <1>3
<1> QED
  BY <1>1, <1>2, <1>4 DEF Releases

\* Nor does a non-blocking select that answers nothing.
LEMMA DeclinesReleases ==
    ASSUME NInv, CInv, NEW f, NEW as, Declines(f, as)
    PROVE  Releases
<1>1. /\ recvq' = Pruned(recvq, "send", as)
      /\ sendq' = Pruned(sendq, "recv", as)
      /\ UNCHANGED <<state, items, closed, nonce>>
  BY DEF Declines, Ends
<1>2. Drops(recvq, recvq') /\ Drops(sendq, sendq')
  BY <1>1, PrunedDrops DEF NInv
<1>3. Kept(recvq, recvq') /\ Kept(sendq, sendq')
  BY <1>1, NodeTypes, PrunedKept
<1>4. \A ch \in Channels : Len(items[ch]) \in Nat
  BY DEF CInv, ChanTypeOK
<1>5. \A ch \in Channels : Len(items'[ch]) >= Len(items[ch])
  BY <1>1, <1>4
<1>6. NobodyParks
  BY <1>1, IdleParksNobody
<1> QED
  BY <1>1, <1>2, <1>3, <1>5, <1>6 DEF Releases

\* Nor does a close, which wakes all of the queues it empties.
LEMMA CloseReleases ==
    ASSUME IInv, NInv, CInv, NEW f, Close(f)
    PROVE  Releases
<1> PICK ch \in Channels :
      LET rs == Parked(recvq[ch])
          ss == Parked(sendq[ch]) \ rs
      IN  \E r \in InOrder(Line(recvq[ch]), rs),
             s \in InOrder(Line(sendq[ch]), ss) :
            /\ state' = Enqueued(state, r \o s)
            /\ closed' = [closed EXCEPT ![ch] = TRUE]
            /\ recvq' = [recvq EXCEPT ![ch] = <<>>]
            /\ sendq' = [sendq EXCEPT ![ch] = <<>>]
  BY DEF Close
<1> DEFINE rs == Parked(recvq[ch])
           ss == Parked(sendq[ch]) \ rs
<1>1. PICK r \in InOrder(Line(recvq[ch]), rs),
           s \in InOrder(Line(sendq[ch]), ss) :
             state' = Enqueued(state, r \o s)
  OBVIOUS
<1>2. /\ closed' = [closed EXCEPT ![ch] = TRUE]
      /\ recvq' = [recvq EXCEPT ![ch] = <<>>]
      /\ sendq' = [sendq EXCEPT ![ch] = <<>>]
  OBVIOUS
<1>3. UNCHANGED <<items, nonce>>
  BY DEF Close
<1>4. Moves
  BY CloseMoves
<1>5. recvq \in [Channels -> Seq([fiber : Fibers, nonce : Nat])]
  BY NodeTypes
<1>6. sendq \in [Channels -> Seq([fiber : Fibers, nonce : Nat, v : Nat])]
  BY NodeTypes
<1>7. rs \subseteq Fibers /\ ss \subseteq Fibers
  <2>1. \A n \in [fiber : Fibers, nonce : Nat] : n.fiber \in Fibers
    OBVIOUS
  <2>2. \A n \in [fiber : Fibers, nonce : Nat, v : Nat] : n.fiber \in Fibers
    OBVIOUS
  <2>3. rs \subseteq InState("chan")
    <3>1. recvq[ch] \in Seq([fiber : Fibers, nonce : Nat])
      BY <1>5
    <3> QED
      BY <2>1, <3>1, ParkedType
  <2>4. ss \subseteq InState("chan")
    <3>1. sendq[ch] \in Seq([fiber : Fibers, nonce : Nat, v : Nat])
      BY <1>6
    <3> QED
      BY <2>2, <3>1, ParkedType
  <2> QED
    BY <2>3, <2>4 DEF InState
<1>8. \A g \in rs \cup ss : state'[g] = "runnable"
  <2> HIDE DEF rs, ss
  <2>1. IsFiniteSet(rs) /\ IsFiniteSet(ss)
    BY <1>7, FS_Subset, SchedulerAssumption
  <2>2. r \in Seq(rs) /\ s \in Seq(ss) /\ ToSet(r) = rs /\ ToSet(s) = ss
    BY <1>1, <2>1, InOrderLists
  <2>3. r \in Seq(Fibers) /\ s \in Seq(Fibers)
    BY <1>7, <2>2, OverMore
  <2>4. ToSet(r \o s) = ToSet(r) \cup ToSet(s)
    BY <2>3, ElementsOfConcat
  <2>5. ToSet(r \o s) = rs \cup ss
    BY <2>2, <2>4
  <2> QED
    BY <1>1, <1>7, <2>5 DEF Enqueued
<1>9. \A n \in ToSet(recvq[ch]) : Current(n) => n.fiber \in rs
  BY DEF Parked, Waits, ToSet
<1>10. \A n \in ToSet(sendq[ch]) : Current(n) => n.fiber \in rs \cup ss
  BY DEF Parked, Waits, ToSet
<1>11. \A n : Current(n)' => state'[n.fiber] = "chan"
  BY DEF Current
<1> HIDE DEF rs, ss
<1>12. Kept(recvq, recvq')
  BY <1>2, <1>5, <1>8, <1>9, <1>11 DEF Kept
<1>13. Kept(sendq, sendq')
  BY <1>2, <1>6, <1>8, <1>10, <1>11 DEF Kept
<1>14. \A d \in Channels :
         closed'[d] => closed[d] \/ (recvq'[d] = <<>> /\ sendq'[d] = <<>>)
  BY <1>2, <1>5, <1>6 DEF CInv, ChanTypeOK
<1>15. \A d \in Channels : Len(items'[d]) >= Len(items[d])
  <2>1. \A d \in Channels : Len(items[d]) \in Nat
    BY DEF CInv, ChanTypeOK
  <2> QED
    BY <1>3, <2>1
<1>16. Drops(recvq, recvq') /\ Drops(sendq, sendq') /\ NobodyParks
  <2>1. Drops(recvq, recvq')
    BY <1>2, UnlinkedDrops DEF NInv
  <2>2. Drops(sendq, sendq')
    BY <1>2, UnlinkedDrops DEF NInv
  <2> QED
    BY <1>1, <2>1, <2>2, EnqueuedParksNobody
<1> QED
  BY <1>3, <1>12, <1>13, <1>14, <1>15, <1>16 DEF Releases

\* Every step either parks nobody on a channel or parks the fiber that takes
\* it, and that one only with no arm ready.
LEMMA ReleasesOrParks ==
    ASSUME ChanInv, [ChanNext]_allVars
    PROVE  \/ Releases
           \/ \E f \in Fibers : \E as :
                OnStack(f) /\ Mine(f, as) /\ AwaitsAll(f, as)
<1>1. CASE Next /\ UNCHANGED chanVars
  BY <1>1, GroupParksNobody, IdleReleases DEF ChanInv, chanVars, queueVars
<1>2. CASE UNCHANGED allVars
  BY <1>2, IdleParksNobody, IdleReleases
     DEF ChanInv, allVars, vars, schedVars, chanVars, queueVars
<1>3. ASSUME NEW f \in Fibers, ChanStep(f)
      PROVE  \/ Releases
             \/ \E as : OnStack(f) /\ Mine(f, as) /\ AwaitsAll(f, as)
  <2>1. Operates(f) /\ OnStack(f)
    BY <1>3, StepViews
  <2>2. CASE BoxEmptied(f)
    BY <2>2, IdleParksNobody, IdleReleases
       DEF ChanInv, BoxEmptied, Ends, queueVars
  <2>3. CASE Close(f)
    BY <2>3, CloseReleases DEF ChanInv
  <2>4. ASSUME NEW as, Mine(f, as), Acts(f, as), ~AwaitsAll(f, as)
        PROVE  Releases
    <3>1. CASE EndsRefused(f, as)
      BY <3>1, IdleParksNobody, IdleReleases
         DEF ChanInv, EndsRefused, Ends, queueVars
    <3>2. CASE (\E i \in DOMAIN as : Wins(as, i)) /\ Ends(f)
      BY <2>4, <3>2, PutNowReleases, TakeNowReleases
         DEF ChanInv, Wins, Ends, Mine
    <3>3. CASE Declines(f, as)
      BY <3>3, DeclinesReleases DEF ChanInv
    <3> QED
      BY <2>4, <3>1, <3>2, <3>3 DEF Acts
  <2> QED
    BY <2>1, <2>2, <2>3, <2>4 DEF Operates
<1> QED
  BY <1>1, <1>2, <1>3 DEF ChanNext

\* Looking at a queue adds nothing to it.
LEMMA PrunedWithin ==
    ASSUME NEW T, NEW q \in [Channels -> Seq(T)], NEW dir, NEW tried,
           NEW ch \in Channels, NEW n \in ToSet(Pruned(q, dir, tried)[ch])
    PROVE  n \in ToSet(q[ch])
<1>1. \A c \in Channels : q[c] \in Seq(ToSet(q[c]))
  <2> TAKE c \in Channels
  <2>1. q[c] \in Seq(T)
    OBVIOUS
  <2> QED
    BY <2>1, OverItself
<1>2. Queues(q)
  BY <1>1 DEF Queues
<1> QED
  BY <1>2, PrunedDrops DEF Drops

-----------------------------------------------------------------------------
(* What the parked wait for *)

\* Whoever is parked on a queue has a node of its park in it, before and
\* after a step.
LEMMA ParkedAre ==
    ASSUME NEW ch, NEW h
    PROVE  /\ h \in Parked(recvq[ch]) <=>
                \E n \in ToSet(recvq[ch]) : Current(n) /\ n.fiber = h
           /\ h \in Parked(sendq[ch]) <=>
                \E n \in ToSet(sendq[ch]) : Current(n) /\ n.fiber = h
  BY DEF Parked, Waits, ToSet

\* The same after a step.
LEMMA ParkedWillBe ==
    ASSUME NEW ch, NEW h
    PROVE  /\ h \in Parked(recvq[ch])' <=>
                \E n \in ToSet(recvq'[ch]) : Current(n)' /\ n.fiber = h
           /\ h \in Parked(sendq[ch])' <=>
                \E n \in ToSet(sendq'[ch]) : Current(n)' /\ n.fiber = h
  BY DEF Parked, Waits, ToSet

\* A node that is current after a step was so before it.
LEMMA StaleNodes ==
    ASSUME NInv, Moves, NEW ch \in Channels,
           NEW n \in ToSet(recvq[ch]) \cup ToSet(sendq[ch])
    PROVE  Current(n)' => Current(n)
<1>1. Dated(n)
  BY DEF NInv, NodesOf
<1> QED
  BY <1>1, StaleStep

\* Whose node stays, and stays current, stays parked.
LEMMA StillParked ==
    ASSUME NEW ch, NEW h, h \in Parked(recvq[ch]) \/ h \in Parked(sendq[ch]),
           \A n \in ToSet(recvq[ch]) :
             Current(n) /\ n.fiber = h => Current(n)' /\ n \in ToSet(recvq'[ch]),
           \A n \in ToSet(sendq[ch]) :
             Current(n) /\ n.fiber = h => Current(n)' /\ n \in ToSet(sendq'[ch])
    PROVE  h \in Parked(recvq[ch])' \/ h \in Parked(sendq[ch])'
<1>1. CASE h \in Parked(recvq[ch])
  <2>1. PICK n \in ToSet(recvq[ch]) : Current(n) /\ n.fiber = h
    BY <1>1, ParkedAre
  <2> QED
    BY <2>1, ParkedWillBe
<1>2. CASE h \in Parked(sendq[ch])
  <2>1. PICK n \in ToSet(sendq[ch]) : Current(n) /\ n.fiber = h
    BY <1>2, ParkedAre
  <2> QED
    BY <2>1, ParkedWillBe
<1> QED
  BY <1>1, <1>2

\* A step that parks nobody adds nobody to those parked on a queue.
LEMMA ReleasesParked ==
    ASSUME NInv, Moves, Releases, NEW ch \in Channels
    PROVE  /\ Parked(recvq[ch])' \subseteq Parked(recvq[ch])
           /\ Parked(sendq[ch])' \subseteq Parked(sendq[ch])
<1>1. \A n \in ToSet(recvq[ch]) \cup ToSet(sendq[ch]) : Current(n)' => Current(n)
  BY StaleNodes
<1>2. /\ ToSet(recvq'[ch]) \subseteq ToSet(recvq[ch])
      /\ ToSet(sendq'[ch]) \subseteq ToSet(sendq[ch])
  BY DEF Releases, Drops
<1>3. ASSUME NEW h \in Parked(recvq[ch])' PROVE h \in Parked(recvq[ch])
  <2>1. PICK n \in ToSet(recvq'[ch]) : Current(n)' /\ n.fiber = h
    BY <1>3, ParkedWillBe
  <2> QED
    BY <1>1, <1>2, <2>1, ParkedAre
<1>4. ASSUME NEW h \in Parked(sendq[ch])' PROVE h \in Parked(sendq[ch])
  <2>1. PICK n \in ToSet(sendq'[ch]) : Current(n)' /\ n.fiber = h
    BY <1>4, ParkedWillBe
  <2> QED
    BY <1>1, <1>2, <2>1, ParkedAre
<1> QED
  BY <1>3, <1>4

\* A park puts nodes of this very park behind the queues of its arms, and
\* leaves everybody else's where they are.
Adds(f, mine, q, r) ==
    /\ \A n \in ToSet(r) :
         \/ n \in ToSet(q)
         \/ n.fiber = f /\ n.nonce = nonce'[f] /\ mine # {}
    /\ \A n \in ToSet(q) : Current(n) => n \in ToSet(r)
    /\ mine # {} => \E n \in ToSet(r) : n.fiber = f /\ n.nonce = nonce'[f]

\* Both queues of a channel, when a fiber parks on its arms.
LEMMA ParkAdds ==
    ASSUME CInv, NEW f \in Fibers, NEW as \in Seq(Arms), ParkArms(f, as),
           NEW ch \in Channels
    PROVE  /\ Adds(f, On(as, "recv", ch), recvq[ch], recvq'[ch])
           /\ Adds(f, On(as, "send", ch), sendq[ch], sendq'[ch])
           /\ \A n \in ToSet(sendq'[ch]) :
                n \in ToSet(sendq[ch]) \/ n.v \in Offers(as)
<1>1. nonce'[f] \in Nat
  BY ParkNonce DEF ParkArms
<1>2. /\ recvq \in [Channels -> Seq(RecvNodes)]
      /\ sendq \in [Channels -> Seq(SendNodes(Nat))]
  BY NodeTypes DEF RecvNodes, SendNodes
<1> DEFINE rq == Pruned(recvq, "send", as)
           sq == Pruned(sendq, "recv", as)
           rt == RecvTail(f, as, ch)
           st == SendTail(f, as, ch)
<1>3. rq \in [Channels -> Seq(RecvNodes)] /\ sq \in [Channels -> Seq(SendNodes(Nat))]
  BY <1>2, PrunedType
<1>4. rt \in Seq(RecvNodes) /\ st \in Seq(SendNodes(Offers(as)))
  BY <1>1, RecvTailIs, SendTailIs
<1>5. recvq'[ch] = rq[ch] \o rt /\ sendq'[ch] = sq[ch] \o st
  BY ParkArmsQueues
<1>6. /\ \A n \in ToSet(rq[ch]) : n \in ToSet(recvq[ch])
      /\ \A n \in ToSet(sq[ch]) : n \in ToSet(sendq[ch])
  BY <1>2, PrunedWithin
<1>7. /\ \A n \in ToSet(recvq[ch]) : Current(n) => n \in ToSet(rq[ch])
      /\ \A n \in ToSet(sendq[ch]) : Current(n) => n \in ToSet(sq[ch])
  BY <1>2, PrunedKeeps
<1>8. /\ \A n \in ToSet(rt) :
           n.fiber = f /\ n.nonce = nonce'[f] /\ On(as, "recv", ch) # {}
      /\ On(as, "recv", ch) # {} => \E n : n \in ToSet(rt)
  BY <1>1, RecvTailIs
<1>9. /\ \A n \in ToSet(st) :
           /\ n.fiber = f /\ n.nonce = nonce'[f]
           /\ n.v \in Offers(as) /\ On(as, "send", ch) # {}
      /\ On(as, "send", ch) # {} => \E n : n \in ToSet(st)
  BY <1>1, SendTailIs
<1> HIDE DEF rq, sq, rt, st
<1>11. ToSet(recvq'[ch]) = ToSet(rq[ch]) \cup ToSet(rt)
  <2>1. rq[ch] \in Seq(RecvNodes)
    BY <1>3
  <2> QED
    BY <1>4, <1>5, <2>1, ElementsOfConcat
<1>12. ToSet(sendq'[ch]) = ToSet(sq[ch]) \cup ToSet(st)
  <2>1. sq[ch] \in Seq(SendNodes(Nat) \cup SendNodes(Offers(as)))
    BY <1>3, OverMore
  <2>2. st \in Seq(SendNodes(Nat) \cup SendNodes(Offers(as)))
    BY <1>4, OverMore
  <2> QED
    BY <1>5, <2>1, <2>2, ElementsOfConcat
<1> QED
  BY <1>6, <1>7, <1>8, <1>9, <1>11, <1>12, Zenon DEF Adds

\* A park adds to a queue's parked the one that parks, on the queues of its
\* arms.
LEMMA ParkParked ==
    ASSUME NInv, CInv, Moves, NEW f \in Fibers, NEW as \in Seq(Arms),
           ParkArms(f, as), NEW ch \in Channels
    PROVE  /\ \A h \in Parked(recvq[ch])' :
                h \in Parked(recvq[ch]) \/ (h = f /\ On(as, "recv", ch) # {})
           /\ \A h \in Parked(sendq[ch])' :
                h \in Parked(sendq[ch]) \/ (h = f /\ On(as, "send", ch) # {})
<1>1. \A n \in ToSet(recvq[ch]) \cup ToSet(sendq[ch]) : Current(n)' => Current(n)
  BY StaleNodes
<1>2. \A n \in ToSet(recvq'[ch]) :
        n \in ToSet(recvq[ch]) \/ (n.fiber = f /\ On(as, "recv", ch) # {})
  <2>1. Adds(f, On(as, "recv", ch), recvq[ch], recvq'[ch])
    BY ParkAdds
  <2> QED
    BY <2>1 DEF Adds
<1>5. \A n \in ToSet(sendq'[ch]) :
        n \in ToSet(sendq[ch]) \/ (n.fiber = f /\ On(as, "send", ch) # {})
  <2>1. Adds(f, On(as, "send", ch), sendq[ch], sendq'[ch])
    BY ParkAdds
  <2> QED
    BY <2>1 DEF Adds
<1>3. ASSUME NEW h \in Parked(recvq[ch])'
      PROVE  h \in Parked(recvq[ch]) \/ (h = f /\ On(as, "recv", ch) # {})
  <2>1. PICK n \in ToSet(recvq'[ch]) : Current(n)' /\ n.fiber = h
    BY <1>3, ParkedWillBe
  <2> QED
    BY <1>1, <1>2, <2>1, ParkedAre
<1>4. ASSUME NEW h \in Parked(sendq[ch])'
      PROVE  h \in Parked(sendq[ch]) \/ (h = f /\ On(as, "send", ch) # {})
  <2>1. PICK n \in ToSet(sendq'[ch]) : Current(n)' /\ n.fiber = h
    BY <1>4, ParkedWillBe
  <2> QED
    BY <1>1, <1>5, <2>1, ParkedAre
<1> QED
  BY <1>3, <1>4

\* What a fiber that parks has seen of each channel it has an arm on.
LEMMA UnreadyIs ==
    ASSUME CInv, NEW as, Unready(as), NEW ch \in Channels
    PROVE  /\ On(as, "recv", ch) # {} =>
                ~closed[ch] /\ Waits(sendq[ch]) = {}
           /\ On(as, "send", ch) # {} =>
                /\ ~closed[ch] /\ Waits(recvq[ch]) = {}
                /\ Len(items[ch]) >= Capacity[ch]
<1>1. ASSUME NEW i \in On(as, "recv", ch)
      PROVE  ~closed[ch] /\ Waits(sendq[ch]) = {}
  BY DEF On, Unready, Ready
<1>2. Len(items[ch]) \in Nat /\ Capacity[ch] \in Nat
  BY ChannelAssumption DEF CInv, ChanTypeOK
<1>3. ASSUME NEW i \in On(as, "send", ch)
      PROVE  /\ ~closed[ch] /\ Waits(recvq[ch]) = {}
             /\ Len(items[ch]) >= Capacity[ch]
  <2>1. ~closed[ch] /\ Waits(recvq[ch]) = {} /\ ~(Len(items[ch]) < Capacity[ch])
    BY DEF On, Unready, Ready
  <2> QED
    BY <1>2, <2>1
<1> QED
  BY <1>1, <1>3

\* What holds of those who are parked.
WaitInv ==
    /\ \A ch \in Channels :
         /\ closed[ch] => Parked(recvq[ch]) = {} /\ Parked(sendq[ch]) = {}
         /\ Parked(sendq[ch]) # {} => Len(items[ch]) >= Capacity[ch]
    /\ NoMissedRendezvous
    /\ ParkIsFindable

\* A step that parks nobody leaves the parked with their reasons.
LEMMA ReleasesKeepsWaits ==
    ASSUME NInv, CInv, CInv', Moves, Releases, WaitInv
    PROVE  WaitInv'
<1>1. \A ch \in Channels : /\ Parked(recvq[ch])' \subseteq Parked(recvq[ch])
                           /\ Parked(sendq[ch])' \subseteq Parked(sendq[ch])
  BY ReleasesParked
<1>2. ASSUME NEW ch \in Channels, closed'[ch]
      PROVE  Parked(recvq[ch])' = {} /\ Parked(sendq[ch])' = {}
  <2>1. CASE closed[ch]
    BY <1>1, <2>1 DEF WaitInv
  <2>2. CASE recvq'[ch] = <<>> /\ sendq'[ch] = <<>>
    BY <2>2 DEF Parked, Waits
  <2> QED
    BY <1>2, <2>1, <2>2 DEF Releases
<1>3. ASSUME NEW ch \in Channels, Parked(sendq[ch])' # {}
      PROVE  Len(items'[ch]) >= Capacity[ch]
  <2>1. Len(items[ch]) >= Capacity[ch]
    BY <1>1, <1>3 DEF WaitInv
  <2>2. sendq'[ch] # <<>>
    BY <1>3 DEF Parked, Waits
  <2>3. Len(items'[ch]) >= Len(items[ch])
    BY <2>2 DEF Releases
  <2>4. Len(items[ch]) \in Nat /\ Len(items'[ch]) \in Nat /\ Capacity[ch] \in Nat
    BY ChannelAssumption DEF CInv, ChanTypeOK
  <2> QED
    BY <2>1, <2>3, <2>4
<1>4. NoMissedRendezvous'
  BY <1>1 DEF WaitInv, NoMissedRendezvous
<1>5. ParkIsFindable'
  <2> SUFFICES ASSUME NEW h \in Fibers, state'[h] = "chan"
               PROVE  \E ch \in Channels :
                        h \in Parked(recvq[ch])' \/ h \in Parked(sendq[ch])'
    BY DEF ParkIsFindable
  <2>1. state[h] = "chan" /\ UNCHANGED nonce
    BY DEF Releases, NobodyParks
  <2>2. PICK ch \in Channels :
          h \in Parked(recvq[ch]) \/ h \in Parked(sendq[ch])
    BY <2>1 DEF WaitInv, ParkIsFindable
  <2>3. \A n : Current(n) /\ n.fiber = h => Current(n)'
    BY <2>1 DEF Current
  <2>4. /\ \A n \in ToSet(recvq[ch]) :
             Current(n) /\ Current(n)' => n \in ToSet(recvq'[ch])
        /\ \A n \in ToSet(sendq[ch]) :
             Current(n) /\ Current(n)' => n \in ToSet(sendq'[ch])
    BY DEF Releases, Kept
  <2>5. h \in Parked(recvq[ch])' \/ h \in Parked(sendq[ch])'
    BY <2>2, <2>3, <2>4, StillParked
  <2> QED
    BY <2>5
<1> QED
  BY <1>2, <1>3, <1>4, <1>5 DEF WaitInv

\* A fiber that parks had no arm ready, which is its reason.
LEMMA ParkKeepsWaits ==
    ASSUME NInv, CInv, Moves, WaitInv, NEW f \in Fibers, NEW as,
           Mine(f, as), AwaitsAll(f, as)
    PROVE  WaitInv'
<1>1. /\ as \in Seq(Arms) /\ as # <<>> /\ Unready(as) /\ ParkArms(f, as)
      /\ UNCHANGED <<items, closed>>
  BY DEF Mine, AwaitsAll
<1>2. \A ch \in Channels :
        /\ \A h \in Parked(recvq[ch])' :
             h \in Parked(recvq[ch]) \/ (h = f /\ On(as, "recv", ch) # {})
        /\ \A h \in Parked(sendq[ch])' :
             h \in Parked(sendq[ch]) \/ (h = f /\ On(as, "send", ch) # {})
  BY <1>1, ParkParked
<1>3. \A ch \in Channels :
        /\ On(as, "recv", ch) # {} => ~closed[ch] /\ Parked(sendq[ch]) = {}
        /\ On(as, "send", ch) # {} => /\ ~closed[ch] /\ Parked(recvq[ch]) = {}
                                      /\ Len(items[ch]) >= Capacity[ch]
  BY <1>1, UnreadyIs DEF Parked
<1>4. ASSUME NEW ch \in Channels
      PROVE  /\ closed'[ch] => Parked(recvq[ch])' = {} /\ Parked(sendq[ch])' = {}
             /\ Parked(sendq[ch])' # {} => Len(items'[ch]) >= Capacity[ch]
  BY <1>1, <1>2, <1>3 DEF WaitInv
<1>5. NoMissedRendezvous'
  BY <1>2, <1>3 DEF WaitInv, NoMissedRendezvous
<1>6. ParkIsFindable'
  <2> SUFFICES ASSUME NEW h \in Fibers, state'[h] = "chan"
               PROVE  \E ch \in Channels :
                        h \in Parked(recvq[ch])' \/ h \in Parked(sendq[ch])'
    BY DEF ParkIsFindable
  <2>1. /\ state' = [state EXCEPT ![f] = "chan"]
        /\ nonce' = [nonce EXCEPT ![f] = @ + 1]
    BY <1>1 DEF ParkArms, Park, Parks
  <2>2. CASE h # f
    <3>1. state[h] = "chan" /\ nonce'[h] = nonce[h]
      BY <2>1, <2>2 DEF NInv
    <3>2. PICK ch \in Channels :
            h \in Parked(recvq[ch]) \/ h \in Parked(sendq[ch])
      BY <3>1 DEF WaitInv, ParkIsFindable
    <3>3. \A n : Current(n) /\ n.fiber = h => Current(n)'
      BY <3>1 DEF Current
    <3>4. /\ \A n \in ToSet(recvq[ch]) : Current(n) => n \in ToSet(recvq'[ch])
          /\ \A n \in ToSet(sendq[ch]) : Current(n) => n \in ToSet(sendq'[ch])
      BY <1>1, ParkAdds DEF Adds
    <3> QED
      BY <3>2, <3>3, <3>4, StillParked
  <2>3. CASE h = f
    <3>1. 1 \in DOMAIN as
      BY <1>1, First
    <3>2. as[1] \in Arms
      BY <1>1, <3>1, Element
    <3>3. as[1].ch \in Channels /\ as[1].dir \in {"send", "recv"}
      BY <3>2 DEF Arms
    <3>4. 1 \in On(as, as[1].dir, as[1].ch)
      BY <3>1 DEF On
    <3> PICK ch \in Channels : On(as, "recv", ch) # {} \/ On(as, "send", ch) # {}
      BY <3>3, <3>4
    <3>5. \/ \E n \in ToSet(recvq'[ch]) : n.fiber = f /\ n.nonce = nonce'[f]
          \/ \E n \in ToSet(sendq'[ch]) : n.fiber = f /\ n.nonce = nonce'[f]
      BY <1>1, ParkAdds DEF Adds
    <3>6. \A n : n.fiber = f /\ n.nonce = nonce'[f] => Current(n)'
      BY <2>1 DEF Current, NInv
    <3> QED
      BY <2>3, <3>5, <3>6, ParkedWillBe
  <2> QED
    BY <2>2, <2>3
<1> QED
  BY <1>4, <1>5, <1>6 DEF WaitInv

\* The parked have their reasons in every reachable state.
LEMMA InductiveWaits == ChanSpec => [](ChanInv /\ WaitInv)
<1>1. ChanInits => WaitInv
  BY DEF ChanInits, ChanInit, Init, SchedInit, WaitInv, NoMissedRendezvous,
         ParkIsFindable, Parked, Waits
<1>2. ChanInv /\ WaitInv /\ [ChanNext]_allVars => WaitInv'
  <2> SUFFICES ASSUME ChanInv, WaitInv, [ChanNext]_allVars PROVE WaitInv'
    OBVIOUS
  <2>1. NInv /\ CInv /\ CInv' /\ Moves
    BY ChanInvStep, EveryStepMoves DEF ChanInv
  <2> QED
    BY <2>1, ReleasesOrParks, ReleasesKeepsWaits, ParkKeepsWaits
<1> QED
  BY <1>1, <1>2, ChanInvInit, ChanInvStep, PTL DEF ChanSpec

\* Whoever is parked on a channel has a reason to be: it is open, and a
\* sender's buffer is full, whatever was sent, received, selected, closed
\* and cancelled since it parked.
THEOREM TheParkedHaveReason == ChanSpec => []ParkedForReason
<1>1. ChanInv /\ WaitInv => ParkedForReason
  BY DEF ChanInv, IInv, CInv, AllTypeOK, WaitInv, ParkedForReason
<1> QED
  BY <1>1, InductiveWaits, PTL

\* No rendezvous is missed: a receiver and a sender are never left parked on
\* one channel, each waiting for the other.
THEOREM RendezvousHappen == ChanSpec => []NoMissedRendezvous
<1>1. WaitInv => NoMissedRendezvous
  BY DEF WaitInv
<1> QED
  BY <1>1, InductiveWaits, PTL

\* No park is lost: whoever is parked on a channel has a node of that park
\* in a queue, where a send, a receive or a close will meet it.
THEOREM ParksAreFindable == ChanSpec => []ParkIsFindable
<1>1. WaitInv => ParkIsFindable
  BY DEF WaitInv
<1> QED
  BY <1>1, InductiveWaits, PTL

-----------------------------------------------------------------------------
(***************************************************************************)
(* A fiber in the middle of an operation is parked nowhere: the nodes its  *)
(* last park left behind are stale.  The one exception to "who runs is     *)
(* running" is the deadlock panic, which is raised on the stack of a fiber *)
(* that is still parked; that fiber never gets back into an operation.     *)
(***************************************************************************)

Unwinding == {"drain", "gjoin", "dead"}

\* Whoever panicked only unwinds.
Leaving == \A f \in Fibers : panicked[f] => pc[f] \in Unwinding

OffChan == ~parked /\ ~panicked[current] => state[current] # "chan"

RunInv == Leaving /\ OffChan

\* A step of f that goes on somewhere without panicking.
LEMMA ContinueLeaves ==
    ASSUME IInv, Leaving, NEW f \in Fibers, NEW step, NEW what,
           Continue(f, step, what), UNCHANGED panicked,
           pc[f] \notin Unwinding \/ step \in Unwinding
    PROVE  Leaving'
<1>1. \A h \in Fibers : pc'[h] = IF h = f THEN step ELSE pc[h]
  BY DEF Continue, IInv, TypeOK, SchedTypeOK
<1> QED
  BY <1>1 DEF Leaving

\* A panic begins an unwinding.
LEMMA RaiseLeaves ==
    ASSUME IInv, Leaving, NEW f \in Fibers, Raise(f)
    PROVE  Leaving' /\ \A h \in Fibers : panicked[h] => panicked'[h]
<1>1. \A h \in Fibers : /\ pc'[h] = IF h = f THEN "drain" ELSE pc[h]
                        /\ panicked'[h] = IF h = f THEN TRUE ELSE panicked[h]
  BY DEF Raise, Continue, IInv, TypeOK, SchedTypeOK
<1> QED
  BY <1>1 DEF Leaving, Unwinding

\* A step in which nobody goes on.
LEMMA IdleLeaves ==
    ASSUME Leaving, UNCHANGED <<pc, panicked>>
    PROVE  Leaving'
  BY DEF Leaving

\* Every step of a fiber outside the channels.
LEMMA FiberLeaves ==
    ASSUME IInv, Leaving, NEW f \in Fibers, FiberStep(f)
    PROVE  Leaving' /\ \A h \in Fibers : panicked[h] => panicked'[h]
<1>1. CASE TaskReturns(f) \/ TaskDies(f)
  <2>1. Continue(f, "dead", None) /\ UNCHANGED panicked
    BY <1>1 DEF TaskReturns, TaskDies, Complete
  <2> QED
    BY <2>1, ContinueLeaves DEF Unwinding
<1>2. CASE TaskSleeps(f) \/ OpenGroup(f) \/ Spawn(f) \/ JoinParks(f)
  <2>1. UNCHANGED <<pc, panicked>>
    BY <1>2 DEF TaskSleeps, Sleep, OpenGroup, Spawn, JoinParks, schedVars
  <2> QED
    BY <2>1, IdleLeaves
<1>3. CASE TaskReads(f)
  <2>1. PICK fd \in Fds : WaitReadable(f, fd)
    BY <1>3 DEF TaskReads
  <2>2. pc[f] \notin Unwinding
    BY <1>3 DEF TaskReads, Starts, InUser, Unwinding
  <2>3. \/ UNCHANGED <<pc, panicked>>
        \/ Raise(f)
        \/ Continue(f, "read", fd) /\ UNCHANGED panicked
    BY <2>1 DEF WaitReadable, schedVars
  <2> QED
    BY <2>2, <2>3, IdleLeaves, RaiseLeaves, ContinueLeaves
<1>4. CASE TaskReadsOn(f) \/ Value(f) \/ ValueReturns(f)
  <2>1. pc[f] \notin Unwinding /\ UNCHANGED panicked
    BY <1>4 DEF TaskReadsOn, Read, Value, ValueReturns, Starts, InUser,
                Unwinding
  <2>2. \E step, what : Continue(f, step, what)
    BY <1>4 DEF TaskReadsOn, Read, Value, ValueReturns
  <2> QED
    BY <2>1, <2>2, ContinueLeaves
<1>5. CASE TaskPanics(f)
  BY <1>5, RaiseLeaves DEF TaskPanics
<1>6. CASE LeaveGroup(f) \/ DrainGroup(f) \/ Gather(f)
  <2>1. Continue(f, "gjoin", Head(scopes[f])) /\ UNCHANGED panicked
    BY <1>6 DEF LeaveGroup, DrainGroup, PopsGroup, Gather
  <2> QED
    BY <2>1, ContinueLeaves DEF Unwinding
<1>7. CASE JoinReturns(f)
  <2>1. CASE Raise(f)
    BY <2>1, RaiseLeaves
  <2>2. CASE panicked[f] /\ Continue(f, "drain", None) /\ UNCHANGED panicked
    BY <2>2, ContinueLeaves DEF Unwinding
  <2>3. CASE ~panicked[f] /\ Continue(f, "user", None) /\ UNCHANGED panicked
    <3>1. \A h \in Fibers : pc'[h] = IF h = f THEN "user" ELSE pc[h]
      BY <2>3 DEF Continue, IInv, TypeOK, SchedTypeOK
    <3> QED
      BY <2>3, <3>1 DEF Leaving
  <2> QED
    BY <1>7, <2>1, <2>2, <2>3 DEF JoinReturns
<1>8. CASE ValueParks(f)
  <2>1. Raise(f) \/ UNCHANGED <<pc, panicked>>
    BY <1>8 DEF ValueParks
  <2> QED
    BY <2>1, RaiseLeaves, IdleLeaves
<1> QED
  BY <1>1, <1>2, <1>3, <1>4, <1>5, <1>6, <1>7, <1>8 DEF FiberStep

\* A step that parks nobody on a channel, and in which no other fiber gets
\* on the stack.
LEMMA StaysOff ==
    ASSUME IInv, NobodyParks, OffChan, UNCHANGED current,
           \A h \in Fibers : panicked[h] => panicked'[h],
           ~parked' => ~parked
    PROVE  OffChan'
<1>1. current \in Fibers
  BY DEF IInv, TypeOK, SchedTypeOK
<1> QED
  BY <1>1 DEF OffChan, NobodyParks

\* Every step of the scheduler and of the groups.
LEMMA NextRuns ==
    ASSUME IInv, NInv, RunInv, Next
    PROVE  RunInv'
<1>1. NobodyParks
  BY GroupParksNobody
<1>2. ASSUME NEW f \in Fibers, FiberStep(f) PROVE RunInv'
  <2>1. Leaving' /\ \A h \in Fibers : panicked[h] => panicked'[h]
    BY <1>2, FiberLeaves DEF RunInv
  <2>2. UNCHANGED current
    BY <1>2 DEF FiberStep, TaskReturns, TaskDies, Complete, TaskSleeps, Sleep,
                TaskReads, WaitReadable, TaskReadsOn, Read, TaskPanics,
                OpenGroup, Spawn, LeaveGroup, DrainGroup, PopsGroup, Gather,
                JoinParks, JoinReturns, Value, ValueParks, ValueReturns,
                schedVars, quietVars
  <2>3. ~parked
    BY <1>2 DEF FiberStep, TaskReturns, TaskDies, TaskSleeps, TaskReads,
                TaskReadsOn, Read, TaskPanics, OpenGroup, Spawn, LeaveGroup,
                DrainGroup, Drained, Gather, JoinParks, JoinReturns, Value,
                ValueParks, ValueReturns, Starts, InUser, Runs
  <2> QED
    BY <1>1, <2>1, <2>2, <2>3, StaysOff DEF RunInv
<1>3. CASE Dispatch
  <2>1. UNCHANGED <<pc, panicked>>
    BY <1>3 DEF Dispatch
  <2>2. runq \in Seq(Fibers) /\ runq # <<>> /\ state \in [Fibers -> States]
    BY <1>3 DEF Dispatch, IInv, TypeOK, SchedTypeOK
  <2>3. Head(runq) \in Fibers
    BY <2>2
  <2>4. state'[current'] = "running"
    BY <1>3, <2>2, <2>3 DEF Dispatch
  <2> QED
    BY <2>1, <2>4, IdleLeaves DEF RunInv, OffChan
<1>4. CASE Stall
  <2>1. current \in Fibers
    BY DEF IInv, TypeOK, SchedTypeOK
  <2>2. CASE Raise(current)
    <3>1. panicked'[current] /\ UNCHANGED current
      BY <1>4, <2>1, <2>2 DEF Stall, Raise, IInv, TypeOK, SchedTypeOK
    <3> QED
      BY <2>1, <2>2, <3>1, RaiseLeaves DEF RunInv, OffChan
  <2>3. CASE UNCHANGED <<parked, panicked, pc>>
    BY <1>1, <1>4, <2>3, IdleLeaves, StaysOff DEF Stall, RunInv
  <2> QED
    BY <1>4, <2>2, <2>3 DEF Stall
<1>5. CASE \/ Poll \/ Passes \/ MainReturns \/ MainDies \/ Over
           \/ \E fd \in Fds : Answers(fd)
  <2>1. UNCHANGED <<current, parked, pc, panicked>>
    BY <1>5 DEF Poll, Passes, Tick, MainReturns, MainDies, Exit, Over, Answers,
                Arrive, vars, schedVars
  <2> QED
    BY <1>1, <2>1, IdleLeaves, StaysOff DEF RunInv
<1> QED
  BY <1>2, <1>3, <1>4, <1>5 DEF Next, Runtime, Reschedules

\* An operation leaves its fiber as it must be, running or parked.
LEMMA ViewRuns ==
    ASSUME IInv, NInv, RunInv, NEW f \in Fibers, GroupView(f)
    PROVE  RunInv' /\ state[f] # "chan"
<1>1. Runs(f) /\ pc[f] \notin Unwinding
  BY DEF GroupView, OnStack, Resumptions, Unwinding
<1>2. UNCHANGED <<current, panicked>>
  BY FarVars DEF GroupView, OnStack
<1>3. ~panicked[f] /\ current = f /\ ~parked
  BY <1>1 DEF RunInv, Leaving, Runs
<1>4. state[f] # "chan"
  BY <1>3 DEF RunInv, OffChan
<1>5. Leaving'
  <2>1. UNCHANGED pc \/ \E step, what : Continue(f, step, what)
    BY DEF GroupView, GoesOn
  <2> QED
    BY <1>1, <1>2, <2>1, IdleLeaves, ContinueLeaves DEF RunInv
<1>6. OffChan'
  <2>1. CASE WakesParked
    BY <1>2, <2>1, EnqueuedParksNobody, StaysOff DEF WakesParked, RunInv
  <2>2. CASE ParksOnArms(f)
    BY <2>2 DEF ParksOnArms, Parks, OffChan
  <2> QED
    BY <2>1, <2>2 DEF GroupView
<1> QED
  BY <1>4, <1>5, <1>6 DEF RunInv

-----------------------------------------------------------------------------
(***************************************************************************)
(* HonestReceipt counts what became of every value.  A value is made when  *)
(* an operation begins, and is on offer while the operation lasts; no two  *)
(* fibers offer the same one.  An operation that ends accepts some of what *)
(* it offered and refuses the rest, and may take what another fiber, still *)
(* parked, has on offer: the box it empties is how that fiber learns.      *)
(***************************************************************************)

\* The values in the buffers, and those received.
Held == UNION {ToSet(items[ch]) : ch \in Channels}
Received == UNION {ToSet(log[ch]) : ch \in Channels}
Handed == Held \cup Received

Values ==
    /\ Handed \subseteq 1..minted
    /\ \A f \in Fibers : Offers(arms[f]) \cap (refused \cup accepted) = {}
    /\ \A f \in Fibers : \A g \in Fibers \ {f} :
         Offers(arms[f]) \cap Offers(arms[g]) = {}
    /\ emptied \subseteq Handed
    /\ \A f \in Fibers : Offers(arms[f]) \cap Handed \subseteq emptied
    /\ refused \cap (accepted \cup Handed) = {}
    /\ accepted \subseteq Handed

\* What a parked fiber's nodes carry is what it offers.
NodesOffer ==
    \A ch \in Channels : \A n \in ToSet(sendq[ch]) :
        Current(n) => n.v \in Offers(arms[n.fiber])

ReceiptInv == Values /\ NodesOffer

\* Nothing has come of what as offers, and nobody else offers it.
Clear(f, as) ==
    /\ Offers(as) \cap (refused \cup accepted) = {}
    /\ \A g \in Fibers \ {f} : Offers(as) \cap Offers(arms[g]) = {}

\* f's operation ends: A of its offers are accepted, the others refused, and
\* D is taken from others.
Settles(f, as, A, D) ==
    /\ arms' = [arms EXCEPT ![f] = <<>>]
    /\ A \subseteq Offers(as) /\ Offers(as) \cap Handed \subseteq A
    /\ D = {} \/ \E g \in Fibers \ {f} : D \subseteq Offers(arms[g])
    /\ refused' = refused \cup (Offers(as) \ A)
    /\ accepted' = accepted \cup A
    /\ emptied' = emptied \cup D
    /\ Handed' = Handed \cup A \cup D

\* Nothing has come of what an operation offers when it acts on it.
LEMMA MineClear ==
    ASSUME CInv, Values, NEW f \in Fibers, NEW as, Mine(f, as),
           minted' \in Nat
    PROVE  Clear(f, as) /\ Offers(as) \cap Handed = {}
<1>1. CASE as = arms[f] /\ Offers(as) \cap emptied = {}
  BY <1>1 DEF Values, Clear
<1>2. CASE Offers(as) \subseteq (minted + 1)..minted'
  <2>1. minted \in Nat
    BY DEF CInv, ChanTypeOK
  <2>4. (minted + 1)..minted' \cap 1..minted = {}
    BY <2>1
  <2>2. Offers(as) \cap 1..minted = {}
    BY <1>2, <2>4, Zenon
  <2>3. /\ refused \subseteq 1..minted /\ accepted \subseteq 1..minted
        /\ Handed \subseteq 1..minted
        /\ \A g \in Fibers : Offers(arms[g]) \subseteq 1..minted
    BY DEF CInv, ChanTypeOK, Values
  <2> QED
    BY <2>2, <2>3 DEF Clear
<1> QED
  BY <1>1, <1>2 DEF Mine

\* An operation that is over keeps the books.
LEMMA SettlesKeeps ==
    ASSUME CInv, Values, NEW f \in Fibers, NEW as, Clear(f, as), NEW A, NEW D,
           Settles(f, as, A, D), Offers(as) \subseteq 1..minted',
           1..minted \subseteq 1..minted'
    PROVE  Values'
<1>1. Offers(<<>>) = {}
  BY DEF Offers
<1>2. DOMAIN arms = Fibers
  BY DEF CInv, ChanTypeOK
<1>3. \A g \in Fibers :
        Offers(arms'[g]) = IF g = f THEN {} ELSE Offers(arms[g])
  BY <1>1, <1>2 DEF Settles
<1>4. D \subseteq 1..minted /\ D \cap (refused \cup accepted) = {}
        /\ D \cap Offers(as) = {}
  BY DEF Settles, Clear, CInv, Values
<1>5. Handed' \subseteq 1..minted'
  BY <1>4 DEF Settles, Values
<1>6. ASSUME NEW g \in Fibers, NEW v \in Offers(arms'[g])
      PROVE  v \notin refused' \cup accepted'
  <2>1. g # f /\ v \in Offers(arms[g])
    BY <1>3
  <2>2. v \notin Offers(as)
    BY <2>1 DEF Clear
  <2>3. v \notin refused \cup accepted
    BY <2>1 DEF Values
  <2> QED
    BY <2>2, <2>3 DEF Settles
<1>7. \A g \in Fibers : \A h \in Fibers \ {g} :
        Offers(arms'[g]) \cap Offers(arms'[h]) = {}
  BY <1>3 DEF Values
<1>8. emptied' \subseteq Handed' /\ accepted' \subseteq Handed'
  BY DEF Settles, Values
<1>9. ASSUME NEW g \in Fibers, NEW v \in Offers(arms'[g]), v \in Handed'
      PROVE  v \in emptied'
  <2>1. g # f /\ v \in Offers(arms[g])
    BY <1>3, <1>9
  <2>2. v \notin Offers(as)
    BY <2>1 DEF Clear
  <2>3. v \in Handed \/ v \in D
    BY <1>9, <2>2 DEF Settles
  <2>4. v \in Handed => v \in emptied
    BY <2>1 DEF Values
  <2> QED
    BY <2>3, <2>4 DEF Settles
<1>10. refused' \cap (accepted' \cup Handed') = {}
  BY <1>4 DEF Settles, Clear, Values
<1> QED
  BY <1>5, <1>6, <1>7, <1>8, <1>9, <1>10 DEF Values

\* An operation that touches no channel's values and refuses all it offered.
LEMMA RefusedSettles ==
    ASSUME NEW f, NEW as, Offers(as) \cap Handed = {}, Ends(f),
           refused' = refused \cup Offers(as),
           UNCHANGED <<items, log, emptied, accepted>>
    PROVE  Settles(f, as, {}, {})
<1>1. Handed' = Handed
  BY DEF Handed, Held, Received
<1> QED
  BY <1>1 DEF Settles, Ends

\* A sender that finds its box emptied.
LEMMA BoxSettles ==
    ASSUME Values, NEW f \in Fibers, BoxEmptied(f)
    PROVE  Settles(f, arms[f], Offers(arms[f]) \cap emptied, {})
<1>1. Handed' = Handed
  BY DEF BoxEmptied, queueVars, Handed, Held, Received
<1> QED
  BY <1>1 DEF Settles, BoxEmptied, Ends, queueVars, Values

\* What a list holds when one element is put behind it or taken off it.
LEMMA OneBehind ==
    ASSUME NEW T, NEW q \in Seq(T), NEW e \in T
    PROVE  Append(q, e) \in Seq(T) /\ ToSet(Append(q, e)) = ToSet(q) \cup {e}
<1>1. <<e>> \in Seq(T) /\ ToSet(<<e>>) = {e}
  BY ListsOne DEF Lists
<1>2. Append(q, e) = q \o <<e>>
  BY AppendIsConcat
<1>3. ToSet(q \o <<e>>) = ToSet(q) \cup ToSet(<<e>>)
  BY <1>1, ElementsOfConcat
<1> QED
  BY <1>1, <1>2, <1>3, AppendProperties

\* A list holds its head and what its tail holds.
LEMMA OneOff ==
    ASSUME NEW T, NEW q \in Seq(T), q # <<>>
    PROVE  ToSet(q) = ToSet(Tail(q)) \cup {Head(q)}
<1>1. /\ DOMAIN q = 1..Len(q) /\ Len(q) \in Nat \ {0} /\ Head(q) = q[1]
      /\ DOMAIN Tail(q) = 1..(Len(q) - 1)
      /\ \A i \in 1..(Len(q) - 1) : Tail(q)[i] = q[i + 1]
  OBVIOUS
<1>2. ASSUME NEW i \in DOMAIN q PROVE q[i] \in ToSet(Tail(q)) \cup {Head(q)}
  <2>1. CASE i = 1
    BY <1>1, <2>1
  <2>2. CASE i # 1
    <3>1. i - 1 \in DOMAIN Tail(q) /\ i - 1 \in 1..(Len(q) - 1)
      BY <1>1, <2>2
    <3>2. (i - 1) + 1 = i
      BY <1>1
    <3> QED
      BY <1>1, <3>1, <3>2 DEF ToSet
  <2> QED
    BY <2>1, <2>2
<1>3. ASSUME NEW i \in DOMAIN Tail(q) PROVE Tail(q)[i] \in ToSet(q)
  <2>1. i + 1 \in DOMAIN q
    BY <1>1
  <2> QED
    BY <1>1, <2>1 DEF ToSet
<1>4. Head(q) \in ToSet(q)
  BY <1>1 DEF ToSet
<1>5. \A e \in ToSet(q) : e \in ToSet(Tail(q)) \cup {Head(q)}
  BY <1>2 DEF ToSet
<1>6. \A e \in ToSet(Tail(q)) : e \in ToSet(q)
  BY <1>3 DEF ToSet
<1> QED
  BY <1>4, <1>5, <1>6

\* What the lists of all channels hold together.
LEMMA AllOf ==
    ASSUME NEW q, NEW x
    PROVE  x \in UNION {ToSet(q[ch]) : ch \in Channels} <=>
             \E ch \in Channels : x \in ToSet(q[ch])
  OBVIOUS

\* What was handed over, channel by channel, before and after a step.
LEMMA HandedIs ==
    ASSUME NEW x
    PROVE  x \in Handed <=>
             \E ch \in Channels : x \in ToSet(items[ch]) \/ x \in ToSet(log[ch])
<1>1. /\ x \in Held <=> \E ch \in Channels : x \in ToSet(items[ch])
      /\ x \in Received <=> \E ch \in Channels : x \in ToSet(log[ch])
  BY AllOf DEF Held, Received
<1>2. x \in Handed <=> x \in Held \/ x \in Received
  BY DEF Handed
<1> QED
  BY <1>1, <1>2, Zenon

\* The same after a step.
LEMMA HandedWillBe ==
    ASSUME NEW x
    PROVE  x \in Handed' <=>
             \E ch \in Channels : x \in ToSet(items'[ch]) \/ x \in ToSet(log'[ch])
<1>1. /\ x \in Held' <=> \E ch \in Channels : x \in ToSet(items'[ch])
      /\ x \in Received' <=> \E ch \in Channels : x \in ToSet(log'[ch])
  BY AllOf DEF Held, Received
<1>2. x \in Handed' <=> x \in Held' \/ x \in Received'
  BY DEF Handed
<1> QED
  BY <1>1, <1>2, Zenon

\* A value put in a buffer.
LEMMA HandedMore ==
    ASSUME CInv, NEW ch \in Channels, NEW v \in Nat, UNCHANGED log,
           items' = [items EXCEPT ![ch] = Append(@, v)]
    PROVE  Handed' = Handed \cup {v}
<1>1. items \in [Channels -> Seq(Nat)] /\ items[ch] \in Seq(Nat)
  BY DEF CInv, ChanTypeOK
<1>2. ToSet(Append(items[ch], v)) = ToSet(items[ch]) \cup {v}
  BY <1>1, OneBehind
<1>3. \A d \in Channels : ToSet(items'[d]) =
        IF d = ch THEN ToSet(items[d]) \cup {v} ELSE ToSet(items[d])
  BY <1>1, <1>2
<1>4. ASSUME NEW x PROVE x \in Handed' <=> x \in Handed \/ x = v
  <2>1. x \in Handed' <=> \E d \in Channels :
          \/ x \in IF d = ch THEN ToSet(items[d]) \cup {v} ELSE ToSet(items[d])
          \/ x \in ToSet(log[d])
    BY <1>3, HandedWillBe
  <2>2. x \in Handed <=>
          \E d \in Channels : x \in ToSet(items[d]) \/ x \in ToSet(log[d])
    BY HandedIs
  <2> QED
    BY <2>1, <2>2
<1> QED
  BY <1>4

\* A value taken from the head of a buffer, to which a parked sender's may
\* first have been added.
LEMMA HandedOn ==
    ASSUME CInv, NEW ch \in Channels, NEW line \in Seq(Nat), line # <<>>,
           NEW D, ToSet(line) = ToSet(items[ch]) \cup D,
           items' = [items EXCEPT ![ch] = Tail(line)],
           log' = [log EXCEPT ![ch] = Append(@, Head(line))]
    PROVE  Handed' = Handed \cup D
<1>1. /\ items \in [Channels -> Seq(Nat)]
      /\ log \in [Channels -> Seq(Nat)] /\ log[ch] \in Seq(Nat)
  BY DEF CInv, ChanTypeOK
<1>2. Head(line) \in Nat
  BY HeadTailProperties
<1>3. ToSet(Append(log[ch], Head(line))) = ToSet(log[ch]) \cup {Head(line)}
  BY <1>1, <1>2, OneBehind
<1>4. ToSet(Tail(line)) \cup {Head(line)} = ToSet(items[ch]) \cup D
  BY OneOff
<1>5. \A d \in Channels :
        /\ ToSet(items'[d]) =
             IF d = ch THEN ToSet(Tail(line)) ELSE ToSet(items[d])
        /\ ToSet(log'[d]) =
             IF d = ch THEN ToSet(log[ch]) \cup {Head(line)} ELSE ToSet(log[d])
  BY <1>1, <1>3
<1>6. \A x : x \in Handed <=>
        \E d \in Channels : x \in ToSet(items[d]) \/ x \in ToSet(log[d])
  BY HandedIs
<1>7. \A x : x \in Handed' <=>
        \E d \in Channels : x \in ToSet(items'[d]) \/ x \in ToSet(log'[d])
  BY HandedWillBe
<1>8. ASSUME NEW x \in Handed' PROVE x \in Handed \cup D
  <2>1. PICK d \in Channels : x \in ToSet(items'[d]) \/ x \in ToSet(log'[d])
    BY <1>7, <1>8
  <2>2. CASE d = ch
    <3>1. \/ x \in ToSet(items[ch]) \cup D
          \/ x \in ToSet(log[ch])
      BY <1>4, <1>5, <2>1, <2>2
    <3> QED
      BY <1>6, <3>1
  <2>3. CASE d # ch
    BY <1>5, <1>6, <2>1, <2>3
  <2> QED
    BY <2>2, <2>3
<1>9. ASSUME NEW x \in Handed \cup D PROVE x \in Handed'
  <2>1. CASE x \in ToSet(items[ch]) \cup D \/ x \in ToSet(log[ch])
    <3>1. x \in ToSet(Tail(line)) \/ x \in ToSet(log[ch]) \cup {Head(line)}
      BY <1>4, <2>1
    <3> QED
      BY <1>5, <1>7, <3>1
  <2>2. CASE \E d \in Channels \ {ch} :
               x \in ToSet(items[d]) \/ x \in ToSet(log[d])
    BY <1>5, <1>7, <2>2
  <2> QED
    BY <1>6, <1>9, <2>1, <2>2
<1> QED
  BY <1>8, <1>9

\* A send that is answered accepts its value or refuses all.
LEMMA PutNowSettles ==
    ASSUME CInv, NEW f \in Fibers, NEW as \in Seq(Arms), NEW i \in DOMAIN as,
           PutNow(as, i), Ends(f), Offers(as) \cap Handed = {}
    PROVE  \E A : Settles(f, as, A, {})
<1>1. as[i].ch \in Channels /\ as[i].v \in Offers(as) /\ as[i].v \in Nat
  BY ChannelOf, OfferOf DEF PutNow
<1>2. UNCHANGED <<log, emptied>>
  BY DEF PutNow
<1>3. CASE /\ refused' = refused \cup Offers(as)
           /\ UNCHANGED <<items, accepted>>
  BY <1>2, <1>3, RefusedSettles
<1>4. CASE /\ items' = [items EXCEPT ![as[i].ch] = Append(@, as[i].v)]
           /\ accepted' = accepted \cup {as[i].v}
           /\ refused' = refused \cup (Offers(as) \ {as[i].v})
  <2>1. Handed' = Handed \cup {as[i].v}
    BY <1>1, <1>2, <1>4, HandedMore
  <2>2. Settles(f, as, {as[i].v}, {})
    BY <1>1, <1>2, <1>4, <2>1 DEF Settles, Ends
  <2> QED
    BY <2>2
<1> QED
  BY <1>3, <1>4 DEF PutNow

\* A receive that is answered refuses all, and may take a sender's value.
LEMMA TakeNowSettles ==
    ASSUME CInv, NodesOffer, NEW f \in Fibers, state[f] # "chan",
           NEW as \in Seq(Arms), NEW i \in DOMAIN as,
           TakeNow(as, i), Ends(f), Offers(as) \cap Handed = {}
    PROVE  \E D : Settles(f, as, {}, D)
<1> DEFINE ch == as[i].ch
           sq == Pruned(sendq, "recv", Before(as, i))
           takes == Waits(sq[ch]) # {} /\ (items[ch] # <<>> \/ ~closed[ch])
           line == IF takes THEN Append(items[ch], Oldest(sq[ch]).v)
                   ELSE items[ch]
<1>1. ch \in Channels
  BY ChannelOf
<1>2. refused' = refused \cup Offers(as) /\ UNCHANGED accepted
  BY DEF TakeNow
<1>3. sendq \in [Channels -> Seq(SendNodes(Nat))]
  BY NodeTypes DEF SendNodes
<1>4. sq \in [Channels -> Seq(SendNodes(Nat))] /\ sq[ch] \in Seq(SendNodes(Nat))
  <2>1. sq \in [Channels -> Seq(SendNodes(Nat))]
    BY <1>3, PrunedType
  <2> HIDE DEF sq, ch
  <2> QED
    BY <1>1, <2>1
<1>5. items[ch] \in Seq(Nat)
  BY <1>1 DEF CInv, ChanTypeOK
<1>6. ASSUME takes
      PROVE  /\ Oldest(sq[ch]).v \in Nat
             /\ \E g \in Fibers \ {f} : Oldest(sq[ch]).v \in Offers(arms[g])
  <2> PICK n : n = Oldest(sq[ch])
    OBVIOUS
  <2> HIDE DEF sq, ch
  <2>1. n \in ToSet(sq[ch]) /\ n \in SendNodes(Nat) /\ Current(n)
    BY <1>4, <1>6, OldestType
  <2>2. n \in ToSet(sendq[ch])
    BY <1>1, <1>3, <2>1, PrunedWithin DEF sq
  <2>3. n.v \in Offers(arms[n.fiber])
    BY <1>1, <2>1, <2>2 DEF NodesOffer
  <2>4. n.fiber \in Fibers /\ n.v \in Nat
    BY <2>1 DEF SendNodes
  <2>5. n.fiber # f
    BY <2>1 DEF Current
  <2> QED
    BY <2>3, <2>4, <2>5
<1>7. CASE line = <<>>
  <2>1. UNCHANGED <<items, log, emptied>>
    BY <1>7 DEF TakeNow
  <2> QED
    BY <1>2, <2>1, RefusedSettles
<1>8. CASE line # <<>>
  <2> DEFINE D == IF takes THEN {Oldest(sq[ch]).v} ELSE {}
  <2>1. /\ items' = [items EXCEPT ![ch] = Tail(line)]
        /\ log' = [log EXCEPT ![ch] = Append(@, Head(line))]
        /\ emptied' = emptied \cup D
    BY <1>8 DEF TakeNow
  <2>2. D = {} \/ \E g \in Fibers \ {f} : D \subseteq Offers(arms[g])
    BY <1>6
  <2>3. line \in Seq(Nat) /\ ToSet(line) = ToSet(items[ch]) \cup D
    <3>1. CASE takes
      <4>1. line = Append(items[ch], Oldest(sq[ch]).v)
              /\ D = {Oldest(sq[ch]).v}
        BY <3>1
      <4> HIDE DEF line, D, sq, ch
      <4> QED
        BY <1>5, <1>6, <3>1, <4>1, OneBehind
    <3>2. CASE ~takes
      BY <1>5, <3>2
    <3> QED
      BY <3>1, <3>2
  <2> HIDE DEF line, D, sq, ch, takes
  <2>4. Handed' = Handed \cup D
    BY <1>1, <1>8, <2>1, <2>3, HandedOn
  <2>5. Settles(f, as, {}, D)
    BY <1>2, <2>1, <2>2, <2>4 DEF Settles, Ends
  <2> QED
    BY <2>5
<1> QED
  BY <1>7, <1>8

-----------------------------------------------------------------------------
(* The receipts of every step *)

\* A node is some fiber's.
LEMMA NodeOf ==
    ASSUME CInv, NEW ch \in Channels, NEW n \in ToSet(sendq[ch])
    PROVE  n.fiber \in Fibers
<1>1. sendq[ch] \in Seq(SendNodes(Nat))
  BY NodeTypes DEF SendNodes
<1>2. n \in SendNodes(Nat)
  BY <1>1, Element DEF ToSet
<1> QED
  BY <1>2 DEF SendNodes

\* Whoever is parked still offers what its nodes carry after a step that
\* parks nobody.
LEMMA NodesOfferOn ==
    ASSUME NInv, CInv, Moves, NodesOffer, Drops(sendq, sendq'),
           \A h \in InState("chan") : arms'[h] = arms[h]
    PROVE  NodesOffer'
<1> SUFFICES ASSUME NEW ch \in Channels, NEW n \in ToSet(sendq'[ch]),
                    Current(n)'
             PROVE  n.v \in Offers(arms'[n.fiber])
  BY DEF NodesOffer
<1>1. n \in ToSet(sendq[ch])
  BY DEF Drops
<1>2. Current(n)
  BY <1>1, StaleNodes
<1>3. n.fiber \in Fibers
  BY <1>1, NodeOf
<1>4. arms'[n.fiber] = arms[n.fiber]
  BY <1>2, <1>3 DEF Current, InState
<1> QED
  BY <1>1, <1>2, <1>4 DEF NodesOffer

\* Only a park leaves the fiber parked.
LEMMA EndsReleases ==
    ASSUME ChanInv, NEW f \in Fibers, ChanStep(f), ~parked'
    PROVE  Releases
<1>1. ~\E g \in Fibers : \E as : AwaitsAll(g, as)
  BY DEF AwaitsAll, ParkArms, Park, Parks
<1>2. [ChanNext]_allVars
  BY DEF ChanNext
<1> QED
  BY <1>1, <1>2, ReleasesOrParks

\* An operation that is over.
LEMMA EndKeepsReceipts ==
    ASSUME ChanInv, RunInv, ReceiptInv, NEW f \in Fibers, ChanStep(f), Ends(f)
    PROVE  NodesOffer'
<1>1. Operates(f) /\ OnStack(f) /\ GroupView(f)
  BY StepViews
<1>2. ~parked'
  BY <1>1 DEF Ends, OnStack, Runs
<1>3. Releases
  BY <1>2, EndsReleases
<1>4. state[f] # "chan"
  BY <1>1, ViewRuns DEF ChanInv
<1>5. \A h \in InState("chan") : arms'[h] = arms[h]
  BY <1>4 DEF Ends, InState, ChanInv, CInv, ChanTypeOK
<1>6. Moves
  BY EveryStepMoves DEF ChanInv, ChanNext
<1> QED
  BY <1>3, <1>5, <1>6, NodesOfferOn DEF ChanInv, ReceiptInv, Releases

\* What the arms of an operation that is over have come to.
LEMMA EndSettles ==
    ASSUME ChanInv, RunInv, ReceiptInv, NEW f \in Fibers, ChanStep(f),
           NEW as, Mine(f, as), Acts(f, as), ~AwaitsAll(f, as)
    PROVE  Ends(f) /\ \E A, D : Settles(f, as, A, D)
<1>1. Operates(f) /\ OnStack(f) /\ GroupView(f)
  BY StepViews
<1>2. state[f] # "chan"
  BY <1>1, ViewRuns DEF ChanInv
<1>3. Offers(as) \cap Handed = {}
  BY <1>1, MineClear DEF ChanInv, ReceiptInv, OnStack
<1>4. CASE EndsRefused(f, as)
  BY <1>3, <1>4, RefusedSettles DEF EndsRefused, queueVars
<1>5. CASE Declines(f, as)
  BY <1>3, <1>5, RefusedSettles DEF Declines
<1>6. CASE (\E i \in DOMAIN as : Wins(as, i)) /\ Ends(f)
  <2>1. PICK i \in DOMAIN as : PutNow(as, i) \/ TakeNow(as, i)
    BY <1>6 DEF Wins
  <2>2. as \in Seq(Arms)
    BY DEF Mine
  <2>3. CASE PutNow(as, i)
    BY <1>3, <1>6, <2>2, <2>3, PutNowSettles DEF ChanInv
  <2>4. CASE TakeNow(as, i)
    BY <1>2, <1>3, <1>6, <2>2, <2>4, TakeNowSettles DEF ChanInv, ReceiptInv
  <2> QED
    BY <1>6, <2>1, <2>3, <2>4
<1> QED
  BY <1>4, <1>5, <1>6 DEF Acts

\* A park puts what the fiber offers on the queues of its arms.
LEMMA ParkOffers ==
    ASSUME ChanInv, RunInv, ReceiptInv, NEW f \in Fibers, ChanStep(f),
           NEW as, Mine(f, as), AwaitsAll(f, as)
    PROVE  ReceiptInv'
<1>1. Operates(f) /\ OnStack(f) /\ GroupView(f)
  BY StepViews
<1>2. state[f] # "chan"
  BY <1>1, ViewRuns DEF ChanInv
<1>3. Clear(f, as) /\ Offers(as) \cap Handed = {}
  BY <1>1, MineClear DEF ChanInv, ReceiptInv, OnStack
<1>4. \A g \in Fibers : arms'[g] = IF g = f THEN as ELSE arms[g]
  BY DEF AwaitsAll, ChanInv, CInv, ChanTypeOK
<1>5. UNCHANGED <<items, emptied, accepted, refused, log>>
  BY DEF AwaitsAll
<1>6. Handed' = Handed
  BY <1>5 DEF Handed, Held, Received
<1>7. 1..minted \subseteq 1..minted'
  BY <1>1, MineOffers DEF ChanInv, OnStack
<1>8. Values'
  BY <1>3, <1>4, <1>5, <1>6, <1>7 DEF ReceiptInv, Values, Clear
<1>9. Moves
  BY EveryStepMoves DEF ChanInv, ChanNext
<1>10. ASSUME NEW ch \in Channels, NEW n \in ToSet(sendq'[ch]), Current(n)'
       PROVE  n.v \in Offers(arms'[n.fiber])
  <2>1. /\ Adds(f, On(as, "send", ch), sendq[ch], sendq'[ch])
        /\ n \in ToSet(sendq[ch]) \/ n.v \in Offers(as)
    BY <1>10, ParkAdds DEF ChanInv, AwaitsAll, Mine
  <2>2. CASE n \in ToSet(sendq[ch])
    <3>1. Current(n)
      BY <1>9, <1>10, <2>2, StaleNodes DEF ChanInv
    <3>2. n.fiber \in Fibers
      BY <2>2, NodeOf DEF ChanInv
    <3>3. arms'[n.fiber] = arms[n.fiber]
      BY <1>2, <1>4, <3>1, <3>2 DEF Current
    <3> QED
      BY <2>2, <3>1, <3>3 DEF ReceiptInv, NodesOffer
  <2>3. CASE n \notin ToSet(sendq[ch])
    BY <1>4, <2>1, <2>3 DEF Adds
  <2> QED
    BY <2>2, <2>3
<1> QED
  BY <1>8, <1>10 DEF ReceiptInv, NodesOffer

\* A close leaves what anybody offers on offer.
LEMMA CloseKeepsReceipts ==
    ASSUME ChanInv, RunInv, ReceiptInv, NEW f \in Fibers, ChanStep(f), Close(f)
    PROVE  ReceiptInv'
<1>1. UNCHANGED <<items, emptied, accepted, refused, log, arms, minted>>
  BY DEF Close, historyVars
<1>2. Handed' = Handed
  BY <1>1 DEF Handed, Held, Received
<1>3. Values'
  BY <1>1, <1>2 DEF ReceiptInv, Values
<1>4. Moves
  BY EveryStepMoves DEF ChanInv, ChanNext
<1>6. Releases
  BY CloseReleases DEF ChanInv
<1>7. NodesOffer'
  BY <1>1, <1>4, <1>6, NodesOfferOn DEF ChanInv, ReceiptInv, Releases
<1> QED
  BY <1>3, <1>7 DEF ReceiptInv

\* Every operation keeps the books.
LEMMA StepKeepsReceipts ==
    ASSUME ChanInv, RunInv, ReceiptInv, NEW f \in Fibers, ChanStep(f)
    PROVE  ReceiptInv'
<1>1. Operates(f) /\ OnStack(f)
  BY StepViews
<1>2. CInv /\ Values
  BY DEF ChanInv, ReceiptInv
<1>3. CASE BoxEmptied(f) /\ UNCHANGED minted
  <2>1. Settles(f, arms[f], Offers(arms[f]) \cap emptied, {})
    BY <1>2, <1>3, BoxSettles
  <2>2. Clear(f, arms[f])
    BY <1>2 DEF Values, Clear
  <2>3. Offers(arms[f]) \subseteq 1..minted'
    BY <1>2, <1>3 DEF CInv
  <2>4. 1..minted \subseteq 1..minted'
    BY <1>3
  <2>5. Values'
    BY <1>2, <2>1, <2>2, <2>3, <2>4, SettlesKeeps
  <2>6. NodesOffer'
    BY <1>3, EndKeepsReceipts DEF BoxEmptied
  <2> QED
    BY <2>5, <2>6 DEF ReceiptInv
<1>4. CASE Close(f)
  BY <1>4, CloseKeepsReceipts
<1>5. ASSUME NEW as, Mine(f, as), Acts(f, as), ~AwaitsAll(f, as)
      PROVE  ReceiptInv'
  <2>1. Ends(f) /\ \E A, D : Settles(f, as, A, D)
    BY <1>5, EndSettles
  <2>2. PICK A, D : Settles(f, as, A, D)
    BY <2>1
  <2>3. Clear(f, as)
    BY <1>1, <1>2, <1>5, MineClear DEF OnStack
  <2>4. Offers(as) \subseteq 1..minted' /\ 1..minted \subseteq 1..minted'
    BY <1>1, <1>2, <1>5, MineOffers DEF OnStack
  <2>5. Values'
    BY <1>2, <2>2, <2>3, <2>4, SettlesKeeps
  <2>6. NodesOffer'
    BY <2>1, EndKeepsReceipts
  <2> QED
    BY <2>5, <2>6 DEF ReceiptInv
<1>6. ASSUME NEW as, Mine(f, as), AwaitsAll(f, as) PROVE ReceiptInv'
  BY <1>6, ParkOffers
<1> QED
  BY <1>1, <1>3, <1>4, <1>5, <1>6 DEF Operates

\* A step that leaves the channels' variables alone.
LEMMA IdleKeepsReceipts ==
    ASSUME ChanInv, ReceiptInv, [ChanNext]_allVars, UNCHANGED chanVars
    PROVE  ReceiptInv'
<1>1. UNCHANGED <<items, sendq, emptied, accepted, refused, log, arms, minted>>
  BY DEF chanVars, queueVars, historyVars
<1>2. Handed' = Handed
  BY <1>1 DEF Handed, Held, Received
<1>3. Values'
  BY <1>1, <1>2 DEF ReceiptInv, Values
<1>4. Moves
  BY EveryStepMoves DEF ChanInv
<1>6. Drops(sendq, sendq')
  BY <1>1, SameDrops DEF ChanInv, NInv
<1>7. NodesOffer'
  BY <1>1, <1>4, <1>6, NodesOfferOn DEF ChanInv, ReceiptInv
<1> QED
  BY <1>3, <1>7 DEF ReceiptInv

\* The books are kept in every reachable state.
LEMMA InductiveReceipts == ChanSpec => [](ChanInv /\ RunInv /\ ReceiptInv)
<1>1. ChanInits => RunInv /\ ReceiptInv
  <2> SUFFICES ASSUME ChanInits PROVE RunInv /\ ReceiptInv
    OBVIOUS
  <2>1. /\ current = Main /\ panicked = [f \in Fibers |-> FALSE]
        /\ state = [f \in Fibers |-> IF f = Main THEN "running" ELSE "new"]
    BY DEF ChanInits, Init, SchedInit
  <2>7. Leaving /\ OffChan
    BY <2>1, SchedulerAssumption DEF Leaving, OffChan
  <2>2. Offers(<<>>) = {} /\ ToSet(<<>>) = {}
    BY DEF Offers, ToSet
  <2>3. /\ \A ch \in Channels : items[ch] = <<>> /\ log[ch] = <<>>
        /\ \A ch \in Channels : sendq[ch] = <<>>
        /\ \A f \in Fibers : arms[f] = <<>>
        /\ emptied = {} /\ accepted = {} /\ refused = {}
    BY DEF ChanInits, ChanInit
  <2>4. \A x : x \notin Handed
    BY <2>2, <2>3, HandedIs
  <2>5. Values
    BY <2>2, <2>3, <2>4 DEF Values
  <2>6. NodesOffer
    BY <2>2, <2>3 DEF NodesOffer
  <2> QED
    BY <2>5, <2>6, <2>7 DEF RunInv, ReceiptInv
<1>2. ASSUME ChanInv, RunInv, ReceiptInv, [ChanNext]_allVars
      PROVE  RunInv' /\ ReceiptInv'
  <2>1. CASE Next /\ UNCHANGED chanVars
    BY <1>2, <2>1, NextRuns, IdleKeepsReceipts DEF ChanInv
  <2>2. ASSUME NEW f \in Fibers, ChanStep(f) PROVE RunInv' /\ ReceiptInv'
    BY <1>2, <2>2, StepViews, ViewRuns, StepKeepsReceipts DEF ChanInv
  <2>3. CASE UNCHANGED allVars
    <3>1. UNCHANGED <<parked, current, panicked, pc, state>>
      BY <2>3 DEF allVars, vars, schedVars, taskVars
    <3>2. RunInv'
      BY <1>2, <3>1 DEF RunInv, Leaving, OffChan
    <3> QED
      BY <1>2, <2>3, <3>2, IdleKeepsReceipts DEF allVars
  <2> QED
    BY <1>2, <2>1, <2>2, <2>3 DEF ChanNext
<1> QED
  BY <1>1, <1>2, ChanInvInit, ChanInvStep, PTL DEF ChanSpec

\* The answers of send are honest, however the operation ended: a value
\* that was accepted is in a buffer or was received, and one that was refused
\* is, and was, neither.
THEOREM ReceiptsAreHonest == ChanSpec => []HonestReceipt
<1>1. ReceiptInv => HonestReceipt
  BY DEF ReceiptInv, Values, Handed, Held, Received, HonestReceipt
<1> QED
  BY <1>1, InductiveReceipts, PTL

-----------------------------------------------------------------------------
(***************************************************************************)
(* Channels wake whom they parked and nobody else, and touch neither the   *)
(* descriptors nor the sleep list: readers and sleepers are what they were *)
(* without channels.                                                       *)
(***************************************************************************)

\* An operation wakes and parks on channels only.
LEMMA ViewStates ==
    ASSUME IInv, Queued, NEW f \in Fibers, GroupView(f)
    PROVE  \A h \in Fibers \ {f} :
             \/ state'[h] = state[h]
             \/ state[h] = "chan" /\ state'[h] = "runnable"
<1>1. CASE WakesParked
  <2>1. PICK W \in SUBSET InState("chan") :
          \E w : Lists(w, W) /\ state' = Enqueued(state, w)
    BY <1>1 DEF WakesParked
  <2>2. PICK w : Lists(w, W) /\ state' = Enqueued(state, w)
    BY <2>1
  <2>3. W \in SUBSET Fibers /\ \A h \in W : state[h] = "chan"
    BY DEF InState
  <2>4. \A h \in Fibers : state'[h] = IF h \in W THEN "runnable" ELSE state[h]
    BY <2>2, <2>3, WokenStates
  <2> QED
    BY <2>3, <2>4
<1>2. CASE ParksOnArms(f)
  BY <1>2 DEF ParksOnArms, Parks, IInv, TypeOK, SchedTypeOK
<1> QED
  BY <1>1, <1>2 DEF GroupView

\* It sends nobody to read(2).
LEMMA ViewBacked ==
    ASSUME IInv, Queued, Backed, NEW f \in Fibers, GroupView(f)
    PROVE  Backed'
<1>1. UNCHANGED <<cancelled, ioq, waitFd, readable>>
  BY FarVars DEF GroupView, OnStack
<1>2. f \notin ioq /\ pc[f] # "read"
  BY DEF GroupView, OnStack, Runs, Queued, Running, Registered, Resumptions
<1>3. \A h \in Fibers : IF h = f THEN pc'[h] # "read"
                        ELSE pc'[h] = pc[h] /\ subject'[h] = subject[h]
  BY <1>2 DEF GroupView, GoesOn, Continue, Resumptions, IInv, TypeOK,
              SchedTypeOK, GroupTypeOK, SubjectOK
<1>4. \A h \in Fibers \ {f} : state'[h] \in {state[h], "runnable"}
  BY ViewStates
<1> QED
  BY <1>1, <1>2, <1>3, <1>4, StillBacked

\* It wakes no sleeper.
LEMMA ViewInTime ==
    ASSUME IInv, Queued, NEW f \in Fibers, GroupView(f)
    PROVE  WokenInTime
<1>1. state[f] = "running" /\ ~parked
  BY DEF GroupView, OnStack, Runs, Queued, Running
<1> QED
  BY <1>1, ViewStates DEF WokenInTime

\* The invariant holds in every reachable state.
LEMMA InductiveReads == ChanSpec => [](ChanInv /\ BackInv)
<1>1. ChanInits => BackInv
  BY InitBacked DEF ChanInits, BackInv
<1>2. ASSUME ChanInv, BackInv, [ChanNext]_allVars PROVE BackInv'
  <2>1. IInv /\ QInv
    BY <1>2 DEF ChanInv
  <2>2. CASE Next \/ UNCHANGED vars
    BY <1>2, <2>1, <2>2, NextBacked
  <2>3. CASE \E f \in Fibers : ChanStep(f)
    <3>1. PICK f \in Fibers : GroupView(f)
      BY <1>2, <2>3, StepViews
    <3>2. stalled' <=> stalled
      BY <3>1, FarVars DEF GroupView, OnStack, stalled
    <3> QED
      BY <1>2, <2>1, <3>1, <3>2, ViewBacked DEF QInv, BackInv
  <2> QED
    BY <1>2, <2>2, <2>3 DEF ChanNext, allVars
<1> QED
  BY <1>1, <1>2, InductiveChannels, PTL DEF ChanSpec

\* However many fibers read, wait for one another's descriptors and are told
\* to stop, on however small an epoll answer: until a deadlock is told, a
\* fiber that gets to read(2) finds something to read.
THEOREM ReadsDoNotBlock == ChanSpec => [](NeverDeadlocked => ReadNeverBlocks)
<1>1. ChanInv /\ BackInv => (NeverDeadlocked => ReadNeverBlocks)
  BY BackedReads DEF ChanInv, QInv, BackInv, NeverDeadlocked
<1> QED
  BY <1>1, InductiveReads, PTL

\* In a run in which no deadlock is told, nobody sleeps past its deadline
\* through a poll, and nobody wakes before it that was not told to stop.
THEOREM SleepersAreOnTime ==
    ChanSpec => ([]NeverDeadlocked => SleepersWakeOnTime)
<1>1. ASSUME ChanInv, [ChanNext]_allVars, NeverDeadlocked'
      PROVE  WokenInTime
  <2>1. IInv /\ QInv /\ ~stalled'
    BY <1>1 DEF ChanInv, NeverDeadlocked
  <2>2. CASE Next \/ UNCHANGED vars
    BY <2>1, <2>2, NextInTime
  <2>3. CASE \E f \in Fibers : ChanStep(f)
    <3>1. PICK f \in Fibers : GroupView(f)
      BY <1>1, <2>3, StepViews
    <3>2. stalled' <=> stalled
      BY <3>1, FarVars DEF GroupView, OnStack, stalled
    <3> QED
      BY <2>1, <3>1, <3>2, ViewInTime DEF QInv
  <2> QED
    BY <1>1, <2>2, <2>3 DEF ChanNext, allVars
<1>2. ChanInv /\ [ChanNext]_allVars /\ NeverDeadlocked'
        => [/\ \A f \in Fibers :
                 state[f] = "sleeping" /\ state'[f] # "sleeping" =>
                     cancelled'[f] \/ deadline[f] <= now
            /\ parked /\ runq = <<>> /\ runq' # <<>> =>
                 \A f \in Fibers :
                    state'[f] = "sleeping" => deadline[f] > now]_vars
  BY <1>1 DEF WokenInTime
<1> QED
  BY <1>2, InductiveChannels, PTL DEF ChanSpec, SleepersWakeOnTime
=============================================================================
