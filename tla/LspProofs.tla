----------------------------- MODULE LspProofs -----------------------------
(***************************************************************************)
(* What holds of the language server and its client for every set of       *)
(* files, texts and clients.                                               *)
(***************************************************************************)
EXTENDS LspClient, IyiListProofs

MaybeTexts == Texts \cup {None}
Sheets == [Docs -> MaybeTexts]
Verdicts == UNION {VerdictsOver(D) : D \in SUBSET Docs}

-----------------------------------------------------------------------------
(* Compiles *)

\* The imports of a text are known files.
LEMMA ImportsKnown ==
    ASSUME NEW t \in MaybeTexts
    PROVE  ImportsOf(t) \subseteq Docs
BY LspAssumption DEF ImportsOf, MaybeTexts

\* What is reached from d by the texts T, after so many steps of imports.
Spreads(F, d, T) ==
    /\ F \in [0..Len(Files) -> SUBSET Docs] /\ F[0] = {d}
    /\ \A n \in 1..Len(Files) : F[n] = UNION {{x} \cup ImportsOf(T[x]) : x \in F[n - 1]}
    /\ d \in F[Len(Files)]

LEMMA SpreadOf ==
    ASSUME NEW T \in Sheets, NEW d \in Docs
    PROVE  \E F : Spreads(F, d, T)
<1> DEFINE U == {W \in SUBSET Docs : d \in W}
           Wider(W) == UNION {{x} \cup ImportsOf(T[x]) : x \in W}
           step == [p \in (1..Len(Files)) \X U |-> Wider(p[2])]
<1>1. PICK N \in Nat : N = Len(Files)
  BY LspAssumption
<1>2. ASSUME NEW W \in U PROVE Wider(W) \in U
  <2>1. \A x \in W : T[x] \in MaybeTexts
    BY DEF Sheets
  <2>2. \A x \in W : ImportsOf(T[x]) \subseteq Docs
    BY <2>1, ImportsKnown, Zenon
  <2> QED
    BY <2>2
<1>3. {d} \in U
  OBVIOUS
<1> HIDE DEF Wider, U
<1>4. \A n \in 1..N, W \in U : step[<<n, W>>] = Wider(W)
  BY <1>1
<1>5. \A n \in 1..N, W \in U : step[<<n, W>>] \in U
  <2> HIDE DEF step
  <2> QED
    BY <1>2, <1>4, Zenon
<1> HIDE DEF step
<1>6. Unrolled(N, U, {d}, step)
  <2>1. N \in Nat
    OBVIOUS
  <2> QED
    BY <1>3, <1>5, <2>1, Unrolls, Zenon
<1>7. PICK F \in [0..N -> U] :
        F[0] = {d} /\ \A i \in 1..N : F[i] = step[<<i, F[i - 1]>>]
  BY <1>6 DEF Unrolled
<1>8. \A n \in 1..N : n - 1 \in 0..N
  OBVIOUS
<1>9. \A n \in 1..N : F[n] = Wider(F[n - 1])
  <2>1. \A n \in 1..N : F[n - 1] \in U
    BY <1>8
  <2> QED
    BY <1>4, <1>7, <2>1, Zenon
<1>10. F \in [0..N -> SUBSET Docs] /\ d \in F[N]
  <2>1. N \in 0..N
    OBVIOUS
  <2> QED
    BY <1>7, <2>1 DEF U
<1>11. \A n \in 1..N : F[n] = UNION {{x} \cup ImportsOf(T[x]) : x \in F[n - 1]}
  BY <1>9 DEF Wider
<1>12. Spreads(F, d, T)
  BY <1>1, <1>7, <1>10, <1>11 DEF Spreads
<1> QED
  BY <1>12

\* What one set of texts reaches, another reaches that has the same for all that
\* both reach.
LEMMA SpreadsAlike ==
    ASSUME NEW d, NEW T, NEW S, NEW F, NEW G, Spreads(F, d, T), Spreads(G, d, S),
           \A x \in F[Len(Files)] \cap G[Len(Files)] : T[x] = S[x]
    PROVE  F[Len(Files)] = G[Len(Files)]
<1>1. PICK N \in Nat : N = Len(Files)
  BY LspAssumption
<1>2. ASSUME NEW E, NEW V, Spreads(E, d, V)
      PROVE  \A n \in 0..N : E[n] \subseteq E[N]
  <2>1. \A n \in 1..N : E[n - 1] \subseteq E[n]
    BY <1>1, <1>2 DEF Spreads
  <2>2. ASSUME NEW n \in 0..N, ~(E[n] \subseteq E[N])
        PROVE  FALSE
    <3> DEFINE Bad == {k \in 0..N : ~(E[N - k] \subseteq E[N])}
    <3>1. N - n \in 0..N /\ N - (N - n) = n
      OBVIOUS
    <3>2. N - n \in Bad
      BY <2>2, <3>1
    <3> DEFINE k == Min(Bad)
    <3>3. k \in Bad /\ \A j \in Bad : k <= j
      <4>1. Bad \subseteq 0..N
        BY Zenon
      <4>2. Bad # {}
        BY <3>2, Zenon
      <4> HIDE DEF Bad
      <4>3. Bad \in SUBSET Nat
        BY <4>1
      <4> QED
        BY <4>2, <4>3, Smallest
    <3> HIDE DEF k
    <3>4. k \in 1..N /\ k - 1 \in 0..N /\ k - 1 \notin Bad
      <4>1. k # 0
        BY <3>3
      <4> QED
        BY <3>3, <4>1
    <3>5. E[N - (k - 1)] \subseteq E[N]
      BY <3>4
    <3>6. PICK j \in 1..N : j = N - (k - 1) /\ j - 1 = N - k
      BY <3>4
    <3>7. E[j - 1] \subseteq E[j]
      BY <2>1
    <3> QED
      BY <3>3, <3>5, <3>6, <3>7
  <2> QED
    BY <2>2
<1>3. F[0] = G[0]
  BY DEF Spreads
<1>4. ASSUME NEW i \in 1..N, F[i - 1] = G[i - 1] PROVE F[i] = G[i]
  <2>1. i - 1 \in 0..N
    OBVIOUS
  <2>2. \A x \in F[i - 1] : T[x] = S[x]
    BY <1>1, <1>2, <1>4, <2>1
  <2>3. /\ F[i] = UNION {{x} \cup ImportsOf(T[x]) : x \in F[i - 1]}
        /\ G[i] = UNION {{x} \cup ImportsOf(S[x]) : x \in G[i - 1]}
    BY <1>1 DEF Spreads
  <2> QED
    BY <1>4, <2>2, <2>3
<1>5. F[N] = G[N]
  BY <1>3, <1>4, UnrollsOnce
<1> QED
  BY <1>1, <1>5

\* The files that are reached in the model are those of the spread.
LEMMA ReachedBy ==
    ASSUME NEW F, NEW K, NEW d, NEW T, Spreads(F, d, T), K[0] = {d},
           \A n \in 1..Len(Files) :
             K[n - 1] \subseteq Docs =>
               K[n] = UNION {{x} \cup ImportsOf(T[x]) : x \in K[n - 1]}
    PROVE  K[Len(Files)] = F[Len(Files)]
<1>1. PICK N \in Nat : N = Len(Files)
  BY LspAssumption
<1>2. ASSUME NEW i \in 1..N, K[i - 1] = F[i - 1] PROVE K[i] = F[i]
  <2>1. i - 1 \in 0..N
    OBVIOUS
  <2>2. F[i - 1] \subseteq Docs
    BY <1>1, <2>1 DEF Spreads
  <2> QED
    BY <1>1, <1>2, <2>2 DEF Spreads
<1>3. K[0] = F[0]
  BY DEF Spreads
<1>4. K[N] = F[N]
  BY <1>2, <1>3, UnrollsOnce
<1> QED
  BY <1>1, <1>4

\* A compile sees what is reached by the buffers over the disk.
LEMMA ViewSpread ==
    ASSUME NEW docs, NEW d \in Docs, NEW t,
           NEW T, \A x \in Docs : T[x] = IF x = d THEN t ELSE TextOf(docs, x),
           NEW F, Spreads(F, d, T)
    PROVE  View(docs, d, t) = [x \in F[Len(Files)] |-> T[x]]
<1> DEFINE See(x) == IF x = d THEN t ELSE TextOf(docs, x)
           Wider(W) == UNION {{x} \cup ImportsOf(See(x)) : x \in W}
           Is(E) == E = [n \in 0..Len(Files) |-> IF n = 0 THEN {d} ELSE Wider(E[n - 1])]
           K == CHOOSE E : Is(E)
<1>1. PICK N \in Nat : N = Len(Files)
  BY LspAssumption
<1>2. \A x \in Docs : T[x] = See(x)
  BY Zenon
<1>3. ASSUME NEW W, W \subseteq Docs
      PROVE  Wider(W) = UNION {{x} \cup ImportsOf(T[x]) : x \in W}
  BY <1>2, <1>3
<1> HIDE DEF See, Wider
<1>4. \A n \in 1..N : n \in 0..N /\ n # 0 /\ n - 1 \in 0..N
  OBVIOUS
<1>5. \A n \in 1..N : F[n] = Wider(F[n - 1])
  <2>1. \A n \in 1..N : F[n - 1] \subseteq Docs
    BY <1>1, <1>4 DEF Spreads
  <2> QED
    BY <1>1, <1>3, <2>1 DEF Spreads
<1>6. \A n \in 0..N : n = 0 \/ n \in 1..N
  OBVIOUS
<1>7. Is(F)
  <2> DEFINE E(n) == IF n = 0 THEN {d} ELSE Wider(F[n - 1])
  <2>1. \A n \in 0..N : F[n] = E(n)
    BY <1>4, <1>5, <1>6, Zenon DEF Spreads
  <2> HIDE DEF E
  <2>2. F = [n \in 0..N |-> E(n)]
    BY <1>1, <2>1 DEF Spreads
  <2> QED
    BY <1>1, <2>2, Zenon DEF E
<1>8. Is(K)
  BY <1>7, Zenon
<1>9. View(docs, d, t) = [x \in K[Len(Files)] |-> See(x)]
  BY Zenon DEF View, Reached, Wider, See
<1> HIDE DEF K
<1>10. /\ K[0] = {d}
       /\ \A n \in 1..N : K[n] = Wider(K[n - 1])
  <2>1. 0 \in 0..N
    OBVIOUS
  <2> QED
    BY <1>1, <1>4, <1>8, <2>1, Zenon
<1> HIDE DEF Is
<1>11. \A n \in 1..Len(Files) : K[n - 1] \subseteq Docs =>
         K[n] = UNION {{x} \cup ImportsOf(T[x]) : x \in K[n - 1]}
  BY <1>1, <1>3, <1>10
<1>12. K[Len(Files)] = F[Len(Files)] /\ F[Len(Files)] \subseteq Docs
  <2>1. Len(Files) \in 0..Len(Files)
    BY <1>1
  <2>2. F[Len(Files)] \subseteq Docs
    BY <2>1 DEF Spreads
  <2>3. K[0] = {d}
    BY <1>10
  <2>4. K[Len(Files)] = F[Len(Files)]
    BY <1>11, <2>3, ReachedBy
  <2> QED
    BY <2>2, <2>4
<1> QED
  BY <1>2, <1>9, <1>12

\* An id is of the files that are reached and there.
LEMMA ResultIdSpread ==
    ASSUME NEW d \in Docs, NEW T, \A x \in Docs : T[x] = Listed(x),
           NEW F, Spreads(F, d, T)
    PROVE  /\ F[Len(Files)] \subseteq Docs
           /\ ResultId(d) = {Stamp(x) : x \in {y \in F[Len(Files)] : T[y] # None}}
<1> DEFINE See(x) == Listed(x)
           Wider(W) == UNION {{x} \cup ImportsOf(See(x)) : x \in W}
           Is(E) == E = [n \in 0..Len(Files) |-> IF n = 0 THEN {d} ELSE Wider(E[n - 1])]
           K == CHOOSE E : Is(E)
<1>1. PICK N \in Nat : N = Len(Files)
  BY LspAssumption
<1>2. \A x \in Docs : T[x] = See(x)
  BY Zenon
<1>3. ASSUME NEW W, W \subseteq Docs
      PROVE  Wider(W) = UNION {{x} \cup ImportsOf(T[x]) : x \in W}
  BY <1>2, <1>3
<1> HIDE DEF See, Wider
<1>4. \A n \in 1..N : n \in 0..N /\ n # 0 /\ n - 1 \in 0..N
  OBVIOUS
<1>5. \A n \in 1..N : F[n] = Wider(F[n - 1])
  <2>1. \A n \in 1..N : F[n - 1] \subseteq Docs
    BY <1>1, <1>4 DEF Spreads
  <2> QED
    BY <1>1, <1>3, <2>1 DEF Spreads
<1>6. \A n \in 0..N : n = 0 \/ n \in 1..N
  OBVIOUS
<1>7. Is(F)
  <2> DEFINE E(n) == IF n = 0 THEN {d} ELSE Wider(F[n - 1])
  <2>1. \A n \in 0..N : F[n] = E(n)
    BY <1>4, <1>5, <1>6, Zenon DEF Spreads
  <2> HIDE DEF E
  <2>2. F = [n \in 0..N |-> E(n)]
    BY <1>1, <2>1 DEF Spreads
  <2> QED
    BY <1>1, <2>2, Zenon DEF E
<1>8. Is(K)
  BY <1>7, Zenon
<1>9. Reached(Listed, d) = K[Len(Files)]
  BY Zenon DEF Reached, Wider, See
<1> HIDE DEF K
<1>10. /\ K[0] = {d}
       /\ \A n \in 1..N : K[n] = Wider(K[n - 1])
  <2>1. 0 \in 0..N
    OBVIOUS
  <2> QED
    BY <1>1, <1>4, <1>8, <2>1, Zenon
<1> HIDE DEF Is
<1>11. \A n \in 1..Len(Files) : K[n - 1] \subseteq Docs =>
         K[n] = UNION {{x} \cup ImportsOf(T[x]) : x \in K[n - 1]}
  BY <1>1, <1>3, <1>10
<1>12. K[Len(Files)] = F[Len(Files)] /\ F[Len(Files)] \subseteq Docs
  <2>1. Len(Files) \in 0..Len(Files)
    BY <1>1
  <2>2. F[Len(Files)] \subseteq Docs
    BY <2>1 DEF Spreads
  <2>3. K[0] = {d}
    BY <1>10
  <2>4. K[Len(Files)] = F[Len(Files)]
    BY <1>11, <2>3, ReachedBy
  <2> QED
    BY <2>2, <2>4
<1>13. \A x \in F[Len(Files)] : Listed(x) = T[x]
  BY <1>2, <1>12 DEF See
<1> QED
  BY <1>9, <1>12, <1>13 DEF ResultId

\* What a compile sees: a set of files, its own among them, by their buffers or
\* by the disk.
LEMMA ViewOf ==
    ASSUME NEW docs \in Sheets, disk \in Sheets, NEW d \in Docs,
           NEW t \in MaybeTexts
    PROVE  \E R \in SUBSET Docs :
             /\ d \in R
             /\ View(docs, d, t) =
                  [x \in R |-> IF x = d THEN t ELSE TextOf(docs, x)]
<1> DEFINE T == [x \in Docs |-> IF x = d THEN t ELSE TextOf(docs, x)]
<1>1. T \in Sheets
  BY DEF TextOf, Sheets
<1>2. PICK F : Spreads(F, d, T)
  BY <1>1, SpreadOf
<1>3. View(docs, d, t) = [x \in F[Len(Files)] |-> T[x]]
  <2>1. \A x \in Docs : T[x] = IF x = d THEN t ELSE TextOf(docs, x)
    OBVIOUS
  <2> HIDE DEF T
  <2> QED
    BY <1>2, <2>1, ViewSpread
<1>4. F[Len(Files)] \in SUBSET Docs /\ d \in F[Len(Files)]
  <2>1. Len(Files) \in 0..Len(Files)
    BY LspAssumption
  <2> QED
    BY <1>2, <2>1 DEF Spreads
<1> QED
  BY <1>3, <1>4

\* The next file of a set is one of them.
LEMMA FirstOf ==
    ASSUME NEW S \in SUBSET Docs, S # {}
    PROVE  First(S) \in S
<1> DEFINE W == {i \in DOMAIN Files : Files[i] \in S}
<1>1. W \in SUBSET Nat
  BY LspAssumption
<1>2. W # {}
  BY DEF Docs, ToSet
<1>3. Min(W) \in W
  BY <1>1, <1>2, Smallest
<1> QED
  BY <1>3 DEF First

\* A compile is about the file and the text it was asked for.
LEMMA CompileOf ==
    ASSUME NEW docs \in Sheets, disk \in Sheets, NEW d \in Docs,
           NEW t \in MaybeTexts
    PROVE  LET c == Compile(docs, d, t)
           IN  /\ c \in Verdicts /\ c.doc = d /\ c.view[d] = t
               /\ c.view = View(docs, d, t)
<1> DEFINE view == View(docs, d, t)
           c == [doc |-> d, view |-> view, holds |-> Compiles(d, view)]
<1>1. Compile(docs, d, t) = c
  BY DEF Compile
<1>2. PICK R \in SUBSET Docs :
        /\ d \in R
        /\ view = [x \in R |-> IF x = d THEN t ELSE TextOf(docs, x)]
  BY ViewOf
<1>3. \A x \in R : (IF x = d THEN t ELSE TextOf(docs, x)) \in MaybeTexts
  BY LspAssumption DEF TextOf, Sheets, MaybeTexts
<1> HIDE DEF view
<1>4. view \in [R -> MaybeTexts] /\ view[d] = t
  BY <1>2, <1>3
<1>5. Compiles(d, view) \in BOOLEAN
  BY DEF Compiles
<1>6. c \in VerdictsOver(R)
  BY <1>4, <1>5 DEF VerdictsOver, MaybeTexts
<1>8. c \in Verdicts
  BY <1>2, <1>6 DEF Verdicts
<1>7. c.doc = d /\ c.view = view /\ c.view[d] = t
  BY <1>4
<1> HIDE DEF c
<1> QED
  BY <1>1, <1>7, <1>8 DEF view

\* No verdict is None.
LEMMA VerdictThere ==
    \A r \in Verdicts : r # None
BY LspAssumption DEF Verdicts

\* What is remembered is about the file and the text of its key.
MemoOK(memo) ==
    memo.key # None =>
        /\ memo.result \in Verdicts /\ memo.result.doc = memo.key.doc
        /\ memo.result.view[memo.key.doc] = memo.key.text

LEMMA CheckOf ==
    ASSUME NEW docs \in Sheets, disk \in Sheets, NEW d \in Docs,
           NEW t \in MaybeTexts, MemoOK(analysis.memo)
    PROVE  LET c == Check(docs, d, t)
           IN  c \in Verdicts /\ c.doc = d /\ c.view[d] = t
<1>1. CASE Remembers(docs, d, t)
  <2>1. /\ analysis.memo.key # None
        /\ analysis.memo.key.doc = d /\ analysis.memo.key.text = t
    BY <1>1 DEF Remembers, MemoKey
  <2>2. Check(docs, d, t) = analysis.memo.result
    BY <1>1 DEF Check
  <2> QED
    BY <2>1, <2>2 DEF MemoOK
<1>2. CASE ~Remembers(docs, d, t)
  <2>1. Check(docs, d, t) = Compile(docs, d, t)
    BY <1>2 DEF Check
  <2> QED
    BY <2>1, CompileOf
<1> QED
  BY <1>1, <1>2

-----------------------------------------------------------------------------
(* Queues *)

Sent(m, n) ==
    /\ m.id \in 0..n
    /\ m.op \in Notices => m.id = 0
    /\ m.op \in {"tokens", "tokensDelta"} => m.id # 0
    /\ m.op \in OnDocs => m.doc \in Docs
    /\ m.op = "initialize" => m.arg \in BOOLEAN
    /\ m.op = "didOpen" => m.arg \in Texts
    /\ m.op = "didChange" => m.arg \in [of : MaybeTexts, text : Texts]
    /\ IsCancel(m) => m.arg \in 1..n

Queue(q, n) ==
    /\ q \in Seq(ToSet(q))
    /\ \A m \in ToSet(q) : Sent(m, n)

\* A part of a queue is a queue.
LEMMA QueuePart ==
    ASSUME NEW n, NEW q, Queue(q, n), NEW p, p \in Seq(ToSet(p)),
           ToSet(p) \subseteq ToSet(q)
    PROVE  Queue(p, n)
BY DEF Queue

LEMMA QueueJoin ==
    ASSUME NEW n, NEW q, Queue(q, n), NEW p, Queue(p, n)
    PROVE  Queue(q \o p, n)
<1> DEFINE S == ToSet(q) \cup ToSet(p)
<1>1. q \in Seq(S) /\ p \in Seq(S)
  BY OverMore DEF Queue
<1>2. ToSet(q \o p) = S
  BY <1>1, ElementsOfConcat
<1>3. q \o p \in Seq(S)
  BY <1>1
<1>4. q \o p \in Seq(ToSet(q \o p))
  BY <1>2, <1>3
<1> QED
  BY <1>2, <1>4 DEF Queue

LEMMA QueuePicked ==
    ASSUME NEW n, NEW q, Queue(q, n), NEW I
    PROVE  /\ Queue(Picked(q, I), n)
           /\ ToSet(Picked(q, I)) = {q[i] : i \in I \cap DOMAIN q}
           /\ ToSet(Picked(q, I)) \subseteq ToSet(q)
<1>1. q \in Seq(ToSet(q))
  BY DEF Queue
<1>2. /\ Picked(q, I) \in Seq(ToSet(Picked(q, I)))
      /\ ToSet(Picked(q, I)) = {q[i] : i \in I \cap DOMAIN q}
  BY <1>1, PickedOf, Zenon
<1>3. \A i \in DOMAIN q : q[i] \in ToSet(q)
  BY DEF ToSet
<1>4. ToSet(Picked(q, I)) \subseteq ToSet(q)
  BY <1>2, <1>3
<1> QED
  BY <1>2, <1>4, QueuePart

LEMMA QueueGrows ==
    ASSUME NEW n \in Nat, NEW k \in Nat, n <= k, NEW q, Queue(q, n)
    PROVE  Queue(q, k)
<1>1. \A m : Sent(m, n) => Sent(m, k)
  BY DEF Sent
<1> QED
  BY <1>1 DEF Queue

LEMMA QueueHead ==
    ASSUME NEW n, NEW q, Queue(q, n), q # <<>>
    PROVE  /\ Head(q) \in ToSet(q) /\ Sent(Head(q), n)
           /\ Queue(Tail(q), n)
<1>1. q \in Seq(ToSet(q))
  BY DEF Queue
<1>2. /\ Head(q) \in ToSet(q)
      /\ Tail(q) \in Seq(ToSet(Tail(q)))
      /\ ToSet(Tail(q)) \subseteq ToSet(q)
  BY <1>1, OneLess
<1> QED
  BY <1>2, QueuePart DEF Queue

LEMMA SweptOf ==
    ASSUME NEW n, Queue(inbox, n)
    PROVE  /\ Queue(Swept, n) /\ ToSet(Swept) \subseteq ToSet(inbox)
           /\ \A m \in ToSet(Swept) : ~IsCancel(m)
<1>1. /\ Queue(Swept, n)
      /\ ToSet(Swept) = {inbox[i] : i \in {j \in DOMAIN inbox : ~IsCancel(inbox[j])} \cap DOMAIN inbox}
      /\ ToSet(Swept) \subseteq ToSet(inbox)
  BY QueuePicked, Zenon DEF Swept
<1> QED
  BY <1>1

LEMMA CancelsOf ==
    ASSUME NEW n, NEW q, Queue(q, n)
    PROVE  CancelsIn(q) \subseteq 1..n
<1>1. \A i \in DOMAIN q : q[i] \in ToSet(q)
  BY DEF ToSet
<1> QED
  BY <1>1 DEF CancelsIn, Queue, Sent

LEMMA NamedOf ==
    ASSUME NEW n \in Nat, Queue(inbox, n), cancelled \subseteq 1..n
    PROVE  /\ Named \subseteq cancelled \cup CancelsIn(inbox)
           /\ Named \subseteq 1..n /\ Cardinality(Named) <= MaxCancelled
<1> DEFINE all == cancelled \cup CancelsIn(inbox)
<1>1. all \subseteq 1..n
  BY CancelsOf
<1>2. IsFiniteSet(all)
  <2>1. IsFiniteSet(1..n)
    BY FS_Interval
  <2> QED
    BY <1>1, <2>1, FS_Subset
<1>3. Cardinality(all) \in Nat /\ Cardinality({}) = 0
  BY <1>2, FS_CardinalityType, FS_EmptySet
<1>4. Named = IF Cardinality(all) > MaxCancelled THEN {} ELSE all
  BY DEF Named
<1> HIDE DEF all
<1>5. CASE Cardinality(all) > MaxCancelled
  BY <1>3, <1>4, <1>5, LspAssumption
<1>6. CASE ~(Cardinality(all) > MaxCancelled)
  BY <1>1, <1>3, <1>4, <1>6, LspAssumption DEF all
<1> QED
  BY <1>5, <1>6

-----------------------------------------------------------------------------
(* What a client writes *)

\* How many of the first frames ask.
LEMMA AskedOf ==
    ASSUME NEW frames, NEW n \in Nat, NEW i \in 0..n
    PROVE  /\ Asked(frames, i) \in Nat /\ Asked(frames, i) <= Asked(frames, n)
           /\ \A k \in 1..i : frames[k].asks =>
                1 <= Asked(frames, k) /\ Asked(frames, k) <= Asked(frames, n)
           /\ \A k \in (i + 1)..n : frames[k].asks =>
                Asked(frames, i) < Asked(frames, k)
<1> DEFINE A(k) == {j \in 1..k : frames[j].asks}
<1>1. \A k \in 0..n : IsFiniteSet(A(k)) /\ Cardinality(A(k)) \in Nat
  <2>1. \A k \in 0..n : IsFiniteSet(1..k) /\ A(k) \subseteq 1..k
    BY FS_Interval
  <2> HIDE DEF A
  <2> QED
    BY <2>1, FS_Subset, FS_CardinalityType
<1>2. \A k, l \in 0..n : k <= l => Cardinality(A(k)) <= Cardinality(A(l))
  <2>1. \A k, l \in 0..n : k <= l => A(k) \subseteq A(l)
    OBVIOUS
  <2> HIDE DEF A
  <2> QED
    BY <1>1, <2>1, FS_Subset
<1>3. \A k, l \in 0..n : k < l /\ frames[l].asks =>
        Cardinality(A(k)) < Cardinality(A(l))
  <2> SUFFICES ASSUME NEW k \in 0..n, NEW l \in 0..n, k < l, frames[l].asks
               PROVE  Cardinality(A(k)) < Cardinality(A(l))
    OBVIOUS
  <2>1. A(k) \subseteq A(l) /\ l \in A(l) /\ l \notin A(k)
    OBVIOUS
  <2> HIDE DEF A
  <2>2. /\ Cardinality(A(k)) <= Cardinality(A(l))
        /\ Cardinality(A(k)) = Cardinality(A(l)) => A(k) = A(l)
    BY <1>1, <2>1, FS_Subset
  <2> QED
    BY <1>1, <2>1, <2>2
<1>4. A(0) = {} /\ Cardinality(A(0)) = 0
  BY FS_EmptySet
<1>5. \A k : Asked(frames, k) = Cardinality(A(k))
  BY DEF Asked
<1> HIDE DEF A
<1>6. ASSUME NEW k \in 1..i, frames[k].asks
      PROVE  1 <= Asked(frames, k) /\ Asked(frames, k) <= Asked(frames, n)
  <2>1. k \in 0..n /\ 0 < k /\ 0 \in 0..n /\ n \in 0..n
    OBVIOUS
  <2>2. Cardinality(A(0)) < Cardinality(A(k)) /\ Cardinality(A(k)) <= Cardinality(A(n))
    BY <1>2, <1>3, <1>6, <2>1
  <2> QED
    BY <1>1, <1>4, <1>5, <2>1, <2>2
<1>7. ASSUME NEW k \in (i + 1)..n, frames[k].asks
      PROVE  Asked(frames, i) < Asked(frames, k)
  BY <1>3, <1>5, <1>7
<1> QED
  BY <1>1, <1>2, <1>5, <1>6, <1>7

\* The frames of one write.
Batch(frames, n) ==
    /\ n \in Nat /\ Len(frames) = n /\ DOMAIN frames = 1..n
    /\ \A j \in 1..n : WellFormed(frames[j])
    /\ \A j \in 1..n : frames[j].op = "$/cancelRequest" =>
         nextId + frames[j].arg \in 1..nextId + Asked(frames, n)

LEMMA MessagesOf ==
    ASSUME NEW n, NEW frames, Batch(frames, n), nextId \in Nat, sheet \in Sheets
    PROVE  /\ Queue(Messages(frames), nextId + Asked(frames, n))
           /\ DOMAIN Messages(frames) = 1..n
           /\ nextId + Asked(frames, n) \in Nat
           /\ nextId <= nextId + Asked(frames, n)
<1> DEFINE q == Messages(frames)
           k == nextId + Asked(frames, n)
<1>1. n \in Nat /\ DOMAIN frames = 1..n
  BY DEF Batch
<1>2. Asked(frames, n) \in Nat
  <2>1. n \in 0..n
    BY <1>1
  <2> QED
    BY <1>1, <2>1, AskedOf
<1>3. DOMAIN q = 1..n
  BY <1>1 DEF Messages
<1>4. ASSUME NEW i \in 1..n PROVE Sent(q[i], k)
  <2> DEFINE f == frames[i]
  <2>1. q[i] = [op |-> f.op, doc |-> f.doc, arg |-> Wire(f),
                id |-> IF f.asks THEN nextId + Asked(frames, i) ELSE 0]
    BY <1>1 DEF Messages
  <2>2. WellFormed(f)
    BY DEF Batch
  <2> HIDE DEF q
  <2>3. q[i].id \in 0..k
    <3>1. CASE f.asks
      <4>1. n \in 0..n
        BY <1>1
      <4>2. 1 <= Asked(frames, i) /\ Asked(frames, i) <= Asked(frames, n)
        BY <1>1, <3>1, <4>1, AskedOf
      <4>3. i \in 0..n
        BY <1>1
      <4>4. Asked(frames, i) \in Nat
        BY <1>1, <4>3, AskedOf
      <4> QED
        BY <1>2, <2>1, <3>1, <4>2, <4>4
    <3>2. CASE ~f.asks
      BY <1>2, <2>1, <3>2
    <3> QED
      BY <3>1, <3>2
  <2>4. q[i].op \in Notices => q[i].id = 0
    BY <2>1, <2>2 DEF WellFormed
  <2>10. q[i].op \in {"tokens", "tokensDelta"} => q[i].id # 0
    <3> SUFFICES ASSUME f.asks PROVE q[i].id # 0
      BY <2>1, <2>2 DEF WellFormed
    <3>1. n \in 0..n /\ i \in 0..n
      BY <1>1
    <3>2. 1 <= Asked(frames, i)
      BY <1>1, <3>1, AskedOf
    <3>3. Asked(frames, i) \in Nat
      BY <1>1, <3>1, AskedOf
    <3> QED
      BY <2>1, <3>2, <3>3
  <2>5. q[i].op \in OnDocs => q[i].doc \in Docs
    BY <2>1, <2>2 DEF WellFormed
  <2>6. q[i].op = "initialize" => q[i].arg \in BOOLEAN
    BY <2>1, <2>2 DEF WellFormed, Wire
  <2>7. q[i].op = "didOpen" => q[i].arg \in Texts
    BY <2>1, <2>2 DEF WellFormed, Wire
  <2>8. q[i].op = "didChange" => q[i].arg \in [of : MaybeTexts, text : Texts]
    <3> SUFFICES ASSUME f.op = "didChange"
                 PROVE  Wire(f) \in [of : MaybeTexts, text : Texts]
      BY <2>1
    <3>1. f.doc \in Docs /\ f.arg \in [of : {None, "sheet"}, text : Texts]
      BY <2>2 DEF WellFormed, OnDocs
    <3>2. Wire(f) = IF f.arg.of = None THEN f.arg
                    ELSE [f.arg EXCEPT !.of = sheet[f.doc]]
      BY DEF Wire
    <3>3. sheet[f.doc] \in MaybeTexts
      BY <3>1 DEF Sheets
    <3> QED
      BY <3>1, <3>2, <3>3 DEF MaybeTexts
  <2>9. IsCancel(q[i]) => q[i].arg \in 1..k
    <3>1. f.op = "$/cancelRequest" => Wire(f) = nextId + f.arg
      BY DEF Wire
    <3> QED
      BY <2>1, <3>1 DEF Batch, IsCancel
  <2> QED
    BY <2>3, <2>4, <2>5, <2>6, <2>7, <2>8, <2>9, <2>10 DEF Sent
<1>5. q \in Seq(ToSet(q))
  <2>1. q = [i \in 1..n |-> q[i]] /\ \A i \in 1..n : q[i] \in ToSet(q)
    BY <1>1, <1>3 DEF Messages, ToSet
  <2> HIDE DEF q
  <2>2. \A i \in 1..n : q[i] \in ToSet(q)
    BY <2>1
  <2> QED
    BY <1>1, <1>3, <2>1, <2>2
<1>6. \A m \in ToSet(q) : Sent(m, k)
  <2> HIDE DEF q, k
  <2> QED
    BY <1>3, <1>4 DEF ToSet
<1> QED
  BY <1>2, <1>3, <1>5, <1>6 DEF Queue

-----------------------------------------------------------------------------
(* Changes *)

\* A change leaves a text.
LEMMA ApplyOf ==
    ASSUME NEW t \in Texts, NEW c, c.text \in Texts
    PROVE  Apply(t, c) \in Texts
BY LspAssumption DEF Apply

\* Changes are applied one at a time, the first to the text there is.
LEMMA AppliedUnrolls ==
    ASSUME NEW t \in Texts, NEW edits, Len(edits) \in Nat,
           \A i \in 1..Len(edits) : edits[i].arg.text \in Texts
    PROVE  \E F \in [0..Len(edits) -> Texts] :
             /\ Applied(t, edits) = F[Len(edits)] /\ F[0] = t
             /\ \A i \in 1..Len(edits) : F[i] = Apply(F[i - 1], edits[i].arg)
<1>14. PICK N \in Nat : N = Len(edits)
  OBVIOUS
<1> DEFINE step == [p \in (1..N) \X Texts |-> Apply(p[2], edits[p[1]].arg)]
           Is(F) == F = [n \in 0..Len(edits) |->
                           IF n = 0 THEN t ELSE Apply(F[n - 1], edits[n].arg)]
           K == CHOOSE F : Is(F)
<1>1. \A n \in 1..N, u \in Texts : step[<<n, u>>] = Apply(u, edits[n].arg)
  OBVIOUS
<1>2. \A n \in 1..N, u \in Texts : step[<<n, u>>] \in Texts
  BY <1>1, <1>14, ApplyOf
<1> HIDE DEF step
<1>3. Unrolled(N, Texts, t, step)
  <2>1. N \in Nat /\ t \in Texts
    OBVIOUS
  <2> QED
    BY <1>2, <2>1, Unrolls, Zenon
<1>4. PICK F \in [0..N -> Texts] :
        F[0] = t /\ \A i \in 1..N : F[i] = step[<<i, F[i - 1]>>]
  BY <1>3 DEF Unrolled
<1>5. \A n \in 1..N : n \in 0..N /\ n # 0 /\ n - 1 \in 0..N
  OBVIOUS
<1>6. \A n \in 1..N : F[n] = Apply(F[n - 1], edits[n].arg)
  <2>1. \A n \in 1..N : F[n - 1] \in Texts
    BY <1>5
  <2> QED
    BY <1>1, <1>4, <2>1, Zenon
<1>7. \A n \in 0..N : n = 0 \/ n \in 1..N
  OBVIOUS
<1>8. Is(F)
  <2> DEFINE E(n) == IF n = 0 THEN t ELSE Apply(F[n - 1], edits[n].arg)
  <2>1. \A n \in 0..N : F[n] = E(n)
    BY <1>4, <1>5, <1>6, <1>7, Zenon
  <2> HIDE DEF E
  <2>2. F = [n \in 0..N |-> E(n)]
    BY <2>1
  <2> QED
    BY <1>14, <2>2, Zenon DEF E
<1>9. Is(K)
  BY <1>8, Zenon
<1>10. Applied(t, edits) = K[Len(edits)]
  BY Zenon DEF Applied
<1> HIDE DEF K
<1>11. /\ K[0] = t
       /\ \A n \in 1..N : K[n] = Apply(K[n - 1], edits[n].arg)
  <2>1. 0 \in 0..N
    OBVIOUS
  <2> QED
    BY <1>5, <1>9, <1>14, <2>1, Zenon
<1>12. \A i \in 1..N : K[i - 1] = F[i - 1] => K[i] = F[i]
  BY <1>6, <1>11, Zenon
<1> HIDE DEF Is
<1>13. K[N] = F[N]
  <2>2. K[0] = F[0]
    BY <1>4, <1>11
  <2> QED
    BY <1>12, <2>2, UnrollsOnce
<1> QED
  BY <1>4, <1>6, <1>10, <1>13, <1>14, Zenon

\* A burst is changes of d, as many as there are in front.
LEMMA BurstOf ==
    ASSUME NEW d, NEW q, q \in Seq(ToSet(q))
    PROVE  /\ Burst(d, q) \in 0..Len(q)
           /\ \A i \in 1..Burst(d, q) : IsChangeOf(d, q[i])
<1> DEFINE other == {i \in DOMAIN q : ~IsChangeOf(d, q[i])}
<1>1. other \in SUBSET Nat /\ DOMAIN q = 1..Len(q) /\ Len(q) \in Nat
  OBVIOUS
<1>2. CASE other = {}
  <2>1. Burst(d, q) = Len(q)
    BY <1>2 DEF Burst
  <2> QED
    BY <1>1, <1>2, <2>1
<1>3. CASE other # {}
  <2>1. Min(other) \in other /\ \A y \in other : Min(other) <= y
    BY <1>1, <1>3, Smallest
  <2>2. Burst(d, q) = Min(other) - 1
    BY <1>3 DEF Burst
  <2> DEFINE b == Min(other)
  <2>7. b \in other /\ \A y \in other : b <= y
    BY <2>1
  <2> HIDE DEF b
  <2>3. b \in 1..Len(q) /\ \A i \in 1..Len(q) : i < b => i \notin other
    <3> HIDE DEF other
    <3>1. b \in 1..Len(q)
      BY <2>7 DEF other
    <3> QED
      BY <1>1, <2>7, <3>1
  <2>4. \A i \in 1..(b - 1) : i \in 1..Len(q) /\ i < b
    BY <1>1, <2>3
  <2>5. \A i \in 1..(b - 1) : IsChangeOf(d, q[i])
    BY <1>1, <2>3, <2>4
  <2>6. b - 1 \in 0..Len(q)
    BY <1>1, <2>3
  <2> QED
    BY <2>2, <2>5, <2>6, Zenon DEF b
<1> QED
  BY <1>2, <1>3

-----------------------------------------------------------------------------
(* The invariant *)

Kinds ==
    /\ disk \in Sheets /\ sheet \in Sheets /\ moved \in [Docs -> Nat]
    /\ running \in BOOLEAN /\ root \in BOOLEAN /\ snippets \in BOOLEAN
    /\ hungUp \in BOOLEAN /\ failed \in BOOLEAN
    /\ who \in DOMAIN Clients

Pipes ==
    /\ nextId \in Nat /\ Queue(stdin, nextId) /\ Queue(inbox, nextId)
    /\ cancelled \subseteq 1..nextId /\ Cardinality(cancelled) <= MaxCancelled
    /\ pending \subseteq 1..nextId

Buffers ==
    /\ documents \in Sheets
    /\ published \in [Docs -> Verdicts \cup {None}]
    /\ \A d \in Docs : published[d] # None => published[d].doc = d
    /\ analysis.open \subseteq Docs /\ \A d \in analysis.open : documents[d] # None
    /\ MemoOK(analysis.memo)

\* The typed programs that are held.
Kept ==
    /\ analysis.lastGood \in Seq(ToSet(analysis.lastGood))
    /\ Len(analysis.lastGood) <= Keep
    /\ \A r \in ToSet(analysis.lastGood) : r.doc \in analysis.open /\ r.holds

\* What is published of an open document is of its text, whatever is under way.
Current ==
    \A d \in Docs : documents[d] # None =>
        published[d] # None /\ published[d].view[d] = documents[d]

JobOK ==
    \/ job = Idle
    \/ /\ DOMAIN job = {"do", "id", "doc", "text", "runs"} /\ job.do = "verb"
       /\ job.id \in 0..nextId /\ job.doc \in Docs /\ job.text \in MaybeTexts
    \/ /\ DOMAIN job = {"do", "id", "previous", "ids", "todo", "items"}
       /\ job.do \in {"pull", "workspace"} /\ job.id \in 0..nextId
       /\ job.todo \in SUBSET Docs
    \/ /\ DOMAIN job = {"do", "id", "name", "from", "sites", "texts", "todo"}
       /\ job.do \in Walks /\ job.id \in 0..nextId
       /\ job.from \in Docs /\ DOMAIN job.texts \subseteq Docs
       /\ job.todo \subseteq DOMAIN job.texts
       /\ \A d \in DOMAIN job.texts : job.texts[d] \in MaybeTexts

ServerInv == Kinds /\ Pipes /\ Buffers /\ Kept /\ JobOK /\ Current

\* A check of d's text t, with the buffers docs.
CheckStep(docs, opened, d, t) ==
    /\ documents' = docs
    /\ analysis' = Remembering(docs, opened, d, t, Check(docs, d, t))
    /\ \A x \in opened : docs[x] # None
    /\ analysis.open \subseteq opened
    /\ \A x \in Docs \ {d} : docs[x] = documents[x]
    /\ \/ published' = published /\ docs = documents
       \/ /\ published' = [published EXCEPT ![d] = Check(docs, d, t)]
          /\ t = TextOf(docs, d)

CloseStep(d) ==
    /\ documents' = [documents EXCEPT ![d] = None]
    /\ published' = [published EXCEPT ![d] = None]
    /\ analysis' = Forgetting(d)

DocStep ==
    \/ UNCHANGED docVars
    \/ \E docs \in Sheets, opened \in SUBSET Docs, d \in Docs, t \in MaybeTexts :
         CheckStep(docs, opened, d, t)
    \/ \E d \in Docs : CloseStep(d)

-----------------------------------------------------------------------------
(* What a handler takes from the queue, and what it leaves *)

LEMMA ShiftOf ==
    ASSUME Pipes, Swept # <<>>
    PROVE  /\ Sent(Head(Swept), nextId) /\ ~IsCancel(Head(Swept))
           /\ Queue(Swept, nextId)
           /\ Head(Swept) \in ToSet(inbox)
<1>1. /\ Queue(Swept, nextId) /\ ToSet(Swept) \subseteq ToSet(inbox)
      /\ \A m \in ToSet(Swept) : ~IsCancel(m)
  BY SweptOf, Zenon DEF Pipes
<1>2. Head(Swept) \in ToSet(Swept) /\ Sent(Head(Swept), nextId)
  BY <1>1, QueueHead, Zenon
<1> QED
  BY <1>1, <1>2

\* What a handler of a change m makes of the queue: edits are m and the b
\* changes behind it, and before is the text the first of them finds.
BurstAs(m, b, edits, before) ==
    /\ b \in Nat /\ before \in Texts
    /\ before = IF documents[m.doc] = None THEN Garbled ELSE documents[m.doc]
    /\ b + 1 \in 1..Len(Swept) /\ b + 2 \in 2..Len(Swept) + 1
    /\ inbox' = SubSeq(Swept, b + 2, Len(Swept))
    /\ edits = SubSeq(Swept, 1, b + 1) /\ Len(edits) = b + 1
    /\ \A i \in 1..(b + 1) : /\ edits[i] \in ToSet(Swept)
                             /\ IsChangeOf(m.doc, edits[i])
                             /\ edits[i].arg.text \in Texts
    /\ Publishes([documents EXCEPT ![m.doc] = Applied(before, edits)],
                 analysis.open, m.doc)

LEMMA BurstTaken ==
    ASSUME NEW m, DidChange(m), Pipes, documents \in Sheets
    PROVE  /\ m.doc \in Docs /\ m = Head(Swept) /\ Swept # <<>>
           /\ \E b, edits, before : BurstAs(m, b, edits, before)
<1> DEFINE d == m.doc
           burst == Burst(d, Tail(Swept))
           edits == SubSeq(Swept, 1, burst + 1)
           before == IF documents[d] = None THEN Garbled ELSE documents[d]
           t == Applied(before, edits)
<1>1. /\ m.op = "didChange" /\ Swept # <<>> /\ m = Head(Swept)
      /\ inbox' = SubSeq(Swept, burst + 2, Len(Swept))
      /\ Publishes([documents EXCEPT ![d] = t], analysis.open, d)
  BY DEF DidChange
<1>2. Sent(m, nextId) /\ Queue(Swept, nextId)
  BY <1>1, ShiftOf
<1>3. d \in Docs
  BY <1>1, <1>2 DEF Sent, OnDocs
<1>4. before \in Texts
  BY <1>3, LspAssumption DEF Sheets, MaybeTexts
<1>5. Swept \in Seq(ToSet(Swept)) /\ Tail(Swept) \in Seq(ToSet(Tail(Swept)))
  BY <1>1, <1>2, OneLess DEF Queue
<1>6. PICK b \in 0..Len(Tail(Swept)) :
        burst = b /\ \A i \in 1..b : IsChangeOf(d, Tail(Swept)[i])
  BY <1>5, BurstOf
<1>7. PICK L \in Nat : Len(Swept) = L
  BY <1>5
<1>8. Len(Tail(Swept)) = L - 1 /\ L # 0
      /\ \A i \in 1..(L - 1) : Tail(Swept)[i] = Swept[i + 1]
  <2> HIDE DEF burst, edits, before, t
  <2> QED
    BY <1>1, <1>5, <1>7
<1> HIDE DEF burst, before, t
<1>9. b \in Nat /\ b \in 0..(L - 1) /\ b + 1 \in 1..L /\ b + 2 \in 2..(L + 1)
  BY <1>6, <1>8
<1>10. \A i \in 1..(b + 1) : IsChangeOf(d, Swept[i])
  <2>1. Swept[1] = m
    BY <1>1, <1>5
  <2>2. ASSUME NEW i \in 1..(b + 1) PROVE IsChangeOf(d, Swept[i])
    <3>1. CASE i = 1
      BY <1>1, <2>1, <3>1 DEF IsChangeOf
    <3>2. CASE i # 1
      <4>1. i - 1 \in 1..b /\ i - 1 \in 1..(L - 1) /\ (i - 1) + 1 = i
        BY <1>9, <3>2
      <4> QED
        BY <1>6, <1>8, <4>1
    <3> QED
      BY <3>1, <3>2
  <2> QED
    BY <2>2
<1>11. \A i \in 1..(b + 1) : Swept[i] \in ToSet(Swept)
  <2>1. \A i \in 1..(b + 1) : i \in DOMAIN Swept
    BY <1>5, <1>7, <1>9
  <2> QED
    BY <2>1, Zenon DEF ToSet
<1>12. /\ edits = SubSeq(Swept, 1, b + 1) /\ Len(edits) = b + 1
       /\ \A i \in 1..(b + 1) : edits[i] = Swept[i]
  <2>1. edits = SubSeq(Swept, 1, b + 1)
    BY <1>6, Zenon
  <2> HIDE DEF edits
  <2> QED
    BY <1>5, <1>7, <1>9, <2>1
<1> HIDE DEF edits
<1>13. \A i \in 1..(b + 1) : edits[i].arg.text \in Texts
  BY <1>2, <1>10, <1>11, <1>12 DEF Queue, Sent, IsChangeOf
<1>14. inbox' = SubSeq(Swept, b + 2, Len(Swept))
  BY <1>1, <1>6, Zenon
<1>15. b + 1 \in 1..Len(Swept) /\ b + 2 \in 2..Len(Swept) + 1
  BY <1>7, <1>9
<1>16. /\ before = IF documents[m.doc] = None THEN Garbled ELSE documents[m.doc]
       /\ Publishes([documents EXCEPT ![m.doc] = Applied(before, edits)],
                    analysis.open, m.doc)
  BY <1>1 DEF before, t
<1>17. /\ \A i \in 1..(b + 1) : edits[i] \in ToSet(Swept)
       /\ \A i \in 1..(b + 1) : IsChangeOf(m.doc, edits[i])
  BY <1>10, <1>11, <1>12
<1> HIDE DEF d
<1>18. /\ b \in Nat /\ b + 1 \in 1..Len(Swept) /\ b + 2 \in 2..Len(Swept) + 1
       /\ inbox' = SubSeq(Swept, b + 2, Len(Swept))
       /\ edits = SubSeq(Swept, 1, b + 1) /\ Len(edits) = b + 1
       /\ \A i \in 1..(b + 1) : /\ edits[i] \in ToSet(Swept)
                                /\ IsChangeOf(m.doc, edits[i])
                                /\ edits[i].arg.text \in Texts
  BY <1>9, <1>12, <1>13, <1>14, <1>15, <1>17
<1>19. BurstAs(m, b, edits, before)
  BY <1>4, <1>16, <1>18 DEF BurstAs
<1> QED
  BY <1>1, <1>3, <1>19, Zenon DEF d

\* The texts of a burst come to one.
LEMMA DidChangeOf ==
    ASSUME NEW m, DidChange(m), Pipes, documents \in Sheets
    PROVE  /\ m.doc \in Docs /\ m = Head(Swept) /\ Swept # <<>>
           /\ \E k \in 2..Len(Swept) + 1 :
                inbox' = SubSeq(Swept, k, Len(Swept))
           /\ \E t \in Texts :
                /\ t # None
                /\ Publishes([documents EXCEPT ![m.doc] = t], analysis.open, m.doc)
<1>0. PICK b, edits, before : BurstAs(m, b, edits, before)
  BY BurstTaken
<1>1. /\ b \in Nat /\ before \in Texts
      /\ b + 2 \in 2..Len(Swept) + 1
      /\ inbox' = SubSeq(Swept, b + 2, Len(Swept))
      /\ Len(edits) = b + 1
      /\ \A i \in 1..(b + 1) : edits[i].arg.text \in Texts
      /\ Publishes([documents EXCEPT ![m.doc] = Applied(before, edits)],
                   analysis.open, m.doc)
  BY <1>0 DEF BurstAs
<1>2. Len(edits) \in Nat /\ \A i \in 1..Len(edits) : edits[i].arg.text \in Texts
  BY <1>1
<1>3. PICK F \in [0..Len(edits) -> Texts] : Applied(before, edits) = F[Len(edits)]
  <2>1. before \in Texts /\ Len(edits) \in Nat
    BY <1>1, <1>2
  <2>2. \A i \in 1..Len(edits) : edits[i].arg.text \in Texts
    BY <1>2
  <2> QED
    BY <2>1, <2>2, AppliedUnrolls
<1>4. Applied(before, edits) \in Texts
  BY <1>2, <1>3
<1>5. Applied(before, edits) # None
  BY <1>4, LspAssumption
<1> QED
  BY <1>1, <1>4, <1>5, BurstTaken, Zenon

\* What every handler does beside what it is for: it takes the head of the
\* queue, and a burst with it, and answers at most the request it took.
Takings(m) ==
    /\ AtLoop /\ Swept # <<>> /\ m = Head(Swept)
    /\ cancelled' = Named
    /\ \E k \in 2..Len(Swept) + 1 : inbox' = SubSeq(Swept, k, Len(Swept))
    /\ pending' \subseteq pending
    /\ UNCHANGED <<worldVars, stdin, hungUp>>

LEMMA ShiftTakes ==
    ASSUME NEW m, Shifts(m), Pipes, pending' \subseteq pending,
           UNCHANGED <<worldVars, stdin, hungUp>>
    PROVE  Takings(m)
<1>1. Swept # <<>> /\ Swept \in Seq(ToSet(Swept))
  BY ShiftOf DEF Shifts, Queue
<1>2. 2 \in 2..Len(Swept) + 1
  <2>1. Len(Swept) \in Nat /\ Len(Swept) # 0
    BY <1>1
  <2> QED
    BY <2>1
<1>3. Tail(Swept) = SubSeq(Swept, 2, Len(Swept))
  BY <1>1
<1> QED
  BY <1>2, <1>3 DEF Takings, Shifts

LEMMA HandlersTake ==
    ASSUME NEW m, Handles(m), Pipes, documents \in Sheets
    PROVE  Takings(m)
<1> USE DEF calmVars, askVars, pipeVars
<1>1. CASE Plain(m)
  <2>1. Shifts(m) /\ UNCHANGED <<worldVars, stdin, hungUp>>
    BY <1>1 DEF Plain
  <2>2. pending' \subseteq pending
    BY <1>1 DEF Plain, Silent, Say, Checks, Publishes
  <2> QED
    BY <2>1, <2>2, ShiftTakes
<1>2. CASE ExitNotice(m)
  <2>1. Shifts(m) /\ UNCHANGED <<worldVars, stdin, hungUp>>
    BY <1>2 DEF ExitNotice
  <2>2. pending' \subseteq pending
    BY <1>2 DEF ExitNotice, Silent, Say, Checks, Publishes
  <2> QED
    BY <2>1, <2>2, ShiftTakes
<1>3. CASE Raises(m)
  <2>1. Shifts(m) /\ UNCHANGED <<worldVars, stdin, hungUp>>
    BY <1>3 DEF Raises
  <2>2. pending' \subseteq pending
    BY <1>3 DEF Raises, Silent, Say, Checks, Publishes
  <2> QED
    BY <2>1, <2>2, ShiftTakes
<1>4. CASE DidOpen(m)
  <2>1. Shifts(m) /\ UNCHANGED <<worldVars, stdin, hungUp>>
    BY <1>4 DEF DidOpen
  <2>2. pending' \subseteq pending
    BY <1>4 DEF DidOpen, Silent, Say, Checks, Publishes
  <2> QED
    BY <2>1, <2>2, ShiftTakes
<1>5. CASE DidSave(m)
  <2>1. Shifts(m) /\ UNCHANGED <<worldVars, stdin, hungUp>>
    BY <1>5 DEF DidSave
  <2>2. pending' \subseteq pending
    BY <1>5 DEF DidSave, Silent, Say, Checks, Publishes
  <2> QED
    BY <2>1, <2>2, ShiftTakes
<1>6. CASE DidClose(m)
  <2>1. Shifts(m) /\ UNCHANGED <<worldVars, stdin, hungUp>>
    BY <1>6 DEF DidClose
  <2>2. pending' \subseteq pending
    BY <1>6 DEF DidClose, Silent, Say, Checks, Publishes
  <2> QED
    BY <2>1, <2>2, ShiftTakes
<1>7. CASE AsksType(m)
  <2>1. Shifts(m) /\ UNCHANGED <<worldVars, stdin, hungUp>>
    BY <1>7 DEF AsksType
  <2>2. pending' \subseteq pending
    BY <1>7 DEF AsksType, Silent, Say, Checks, Publishes
  <2> QED
    BY <2>1, <2>2, ShiftTakes
<1>8. CASE Completes(m)
  <2>1. Shifts(m) /\ UNCHANGED <<worldVars, stdin, hungUp>>
    BY <1>8 DEF Completes
  <2>2. pending' \subseteq pending
    BY <1>8 DEF Completes, Silent, Say, Checks, Publishes
  <2> QED
    BY <2>1, <2>2, ShiftTakes
<1>9. CASE AsksText(m)
  <2>1. Shifts(m) /\ UNCHANGED <<worldVars, stdin, hungUp>>
    BY <1>9 DEF AsksText
  <2>2. pending' \subseteq pending
    BY <1>9 DEF AsksText, Silent, Say, Checks, Publishes
  <2> QED
    BY <2>1, <2>2, ShiftTakes
<1>10. CASE FindsSymbol(m)
  <2>1. Shifts(m) /\ UNCHANGED <<worldVars, stdin, hungUp>>
    BY <1>10 DEF FindsSymbol
  <2>2. pending' \subseteq pending
    BY <1>10 DEF FindsSymbol, Silent, Say, Checks, Publishes
  <2> QED
    BY <2>1, <2>2, ShiftTakes
<1>11. CASE WillRename(m)
  <2>1. Shifts(m) /\ UNCHANGED <<worldVars, stdin, hungUp>>
    BY <1>11 DEF WillRename
  <2>2. pending' \subseteq pending
    BY <1>11 DEF WillRename, Silent, Say, Checks, Publishes
  <2> QED
    BY <2>1, <2>2, ShiftTakes
<1>12. CASE ActsOnCode(m)
  <2>1. Shifts(m) /\ UNCHANGED <<worldVars, stdin, hungUp>>
    BY <1>12 DEF ActsOnCode
  <2>2. pending' \subseteq pending
    BY <1>12 DEF ActsOnCode, Silent, Say, Checks, Publishes
  <2> QED
    BY <2>1, <2>2, ShiftTakes
<1>13. CASE ColorsAll(m)
  <2>1. Shifts(m) /\ UNCHANGED <<worldVars, stdin, hungUp>>
    BY <1>13 DEF ColorsAll
  <2>2. pending' \subseteq pending
    BY <1>13 DEF ColorsAll, Silent, Say, Checks, Publishes
  <2> QED
    BY <2>1, <2>2, ShiftTakes
<1>14. CASE ColorsDelta(m)
  <2>1. Shifts(m) /\ UNCHANGED <<worldVars, stdin, hungUp>>
    BY <1>14 DEF ColorsDelta
  <2>2. pending' \subseteq pending
    BY <1>14 DEF ColorsDelta, Silent, Say, Checks, Publishes
  <2> QED
    BY <2>1, <2>2, ShiftTakes
<1>15. CASE PullBegins(m)
  <2>1. Shifts(m) /\ UNCHANGED <<worldVars, stdin, hungUp>>
    BY <1>15 DEF PullBegins
  <2>2. pending' \subseteq pending
    BY <1>15 DEF PullBegins, Silent, Say, Checks, Publishes
  <2> QED
    BY <2>1, <2>2, ShiftTakes
<1>16. CASE WalkBegins(m)
  <2>1. Shifts(m) /\ UNCHANGED <<worldVars, stdin, hungUp>>
    BY <1>16 DEF WalkBegins
  <2>2. pending' \subseteq pending
    BY <1>16 DEF WalkBegins, Silent, Say, Checks, Publishes
  <2> QED
    BY <2>1, <2>2, ShiftTakes
<1>17. CASE VerbBegins(m)
  <2>1. Shifts(m) /\ UNCHANGED <<worldVars, stdin, hungUp>>
    BY <1>17 DEF VerbBegins
  <2>2. pending' \subseteq pending
    BY <1>17 DEF VerbBegins, Silent, Say, Checks, Publishes
  <2> QED
    BY <2>1, <2>2, ShiftTakes
<1>18. CASE DidChange(m)
  <2>1. pending' \subseteq pending /\ cancelled' = Named /\ AtLoop
        /\ UNCHANGED <<worldVars, stdin, hungUp>>
    BY <1>18 DEF DidChange, Say, Checks, Publishes
  <2> QED
    BY <1>18, <2>1, DidChangeOf DEF Takings
<1> QED
  BY <1>1, <1>2, <1>3, <1>4, <1>5, <1>6, <1>7, <1>8, <1>9, <1>10, <1>11, <1>12, <1>13, <1>14, <1>15, <1>16, <1>17, <1>18 DEF Handles

-----------------------------------------------------------------------------
(* What a step does to the buffers and to what was compiled *)

LEMMA PublishesStep ==
    ASSUME NEW docs, NEW opened, NEW d, Publishes(docs, opened, d),
           analysis.open \subseteq opened, \A x \in opened : docs[x] # None,
           \A x \in Docs \ {d} : docs[x] = documents[x]
    PROVE  CheckStep(docs, opened, d, TextOf(docs, d))
<1> DEFINE t == TextOf(docs, d)
<1>1. /\ documents' = docs
      /\ analysis' = Remembering(docs, opened, d, t, Check(docs, d, t))
      /\ published' = [published EXCEPT ![d] = Check(docs, d, t)]
  BY DEF Publishes, Checks
<1> QED
  BY <1>1 DEF CheckStep

\* The text of a file is a text, or there is none.
LEMMA TextOfOf ==
    ASSUME NEW docs \in Sheets, disk \in Sheets, NEW d \in Docs
    PROVE  TextOf(docs, d) \in MaybeTexts /\ (docs[d] # None => TextOf(docs, d) = docs[d])
BY DEF TextOf, Sheets

\* A buffer that gets a text.
LEMMA OneBuffer ==
    ASSUME documents \in Sheets, NEW d \in Docs, NEW t \in Texts,
           \A x \in analysis.open : documents[x] # None, analysis.open \subseteq Docs
    PROVE  LET docs == [documents EXCEPT ![d] = t]
           IN  /\ docs \in Sheets /\ docs[d] = t
               /\ \A x \in analysis.open \cup {d} : docs[x] # None
               /\ \A x \in Docs \ {d} : docs[x] = documents[x]
BY LspAssumption DEF Sheets, MaybeTexts

LEMMA HandlersCheck ==
    ASSUME NEW m, Handles(m), Kinds, Pipes, Buffers
    PROVE  DocStep
<1>1. Takings(m) /\ Sent(m, nextId)
  BY HandlersTake, ShiftOf DEF Buffers, Takings
<1>2. disk \in Sheets /\ documents \in Sheets /\ analysis.open \subseteq Docs
      /\ \A x \in analysis.open : documents[x] # None
  BY DEF Kinds, Buffers
<1>3. CASE DidOpen(m)
  <2> DEFINE docs == [documents EXCEPT ![m.doc] = m.arg]
             opened == analysis.open \cup {m.doc}
  <2>1. m.doc \in Docs /\ m.arg \in Texts
    BY <1>1, <1>3 DEF DidOpen, Sent, OnDocs
  <2>2. /\ docs \in Sheets /\ \A x \in opened : docs[x] # None
        /\ \A x \in Docs \ {m.doc} : docs[x] = documents[x]
    BY <1>2, <2>1, OneBuffer
  <2>3. Publishes(docs, opened, m.doc)
    BY <1>3 DEF DidOpen
  <2>4. opened \in SUBSET Docs /\ analysis.open \subseteq opened
    BY <1>2, <2>1
  <2>5. TextOf(docs, m.doc) \in MaybeTexts
    BY <1>2, <2>1, <2>2, TextOfOf
  <2> HIDE DEF docs, opened
  <2>6. CheckStep(docs, opened, m.doc, TextOf(docs, m.doc))
    BY <2>2, <2>3, <2>4, PublishesStep
  <2> QED
    BY <2>1, <2>2, <2>4, <2>5, <2>6 DEF DocStep
<1>4. CASE DidChange(m)
  <2>1. PICK t \in Texts :
          Publishes([documents EXCEPT ![m.doc] = t], analysis.open, m.doc)
    BY <1>2, <1>4, DidChangeOf
  <2>2. m.doc \in Docs
    BY <1>2, <1>4, DidChangeOf
  <2> DEFINE docs == [documents EXCEPT ![m.doc] = t]
  <2>3. /\ docs \in Sheets /\ \A x \in analysis.open : docs[x] # None
        /\ \A x \in Docs \ {m.doc} : docs[x] = documents[x]
    BY <1>2, <2>2, OneBuffer
  <2>4. Publishes(docs, analysis.open, m.doc)
    BY <2>1
  <2> HIDE DEF docs
  <2>5. TextOf(docs, m.doc) \in MaybeTexts
    BY <1>2, <2>2, <2>3, TextOfOf
  <2>6. CheckStep(docs, analysis.open, m.doc, TextOf(docs, m.doc))
    BY <2>3, <2>4, PublishesStep
  <2> QED
    BY <1>2, <2>2, <2>3, <2>5, <2>6 DEF DocStep
<1>5. CASE DidSave(m)
  <2>1. m.doc \in Docs /\ Publishes(documents, analysis.open, m.doc)
    BY <1>1, <1>5 DEF DidSave, Sent, OnDocs, ReadsText
  <2>2. TextOf(documents, m.doc) \in MaybeTexts
    BY <1>2, <2>1, TextOfOf
  <2>3. CheckStep(documents, analysis.open, m.doc, TextOf(documents, m.doc))
    BY <1>2, <2>1, PublishesStep
  <2> QED
    BY <1>2, <2>1, <2>2, <2>3 DEF DocStep
<1>6. CASE DidClose(m)
  <2>1. m.doc \in Docs /\ CloseStep(m.doc)
    BY <1>1, <1>6 DEF DidClose, CloseStep, Sent, OnDocs
  <2> QED
    BY <2>1 DEF DocStep
<1>7. CASE AsksType(m) \/ Completes(m)
  <2>1. m.doc \in Docs
    BY <1>1, <1>7 DEF AsksType, Completes, Sent, OnDocs, ReadsText
  <2> DEFINE t == TextOf(documents, m.doc)
  <2>2. t \in MaybeTexts
    BY <1>2, <2>1, TextOfOf
  <2>3. /\ analysis' = Remembering(documents, analysis.open, m.doc, t, Check(documents, m.doc, t))
        /\ documents' = documents /\ published' = published
    BY <1>7 DEF AsksType, Completes, Checks
  <2> HIDE DEF t
  <2>4. CheckStep(documents, analysis.open, m.doc, t)
    BY <1>2, <2>3 DEF CheckStep
  <2> QED
    BY <1>2, <2>1, <2>2, <2>4 DEF DocStep
<1>8. CASE ~(DidOpen(m) \/ DidChange(m) \/ DidSave(m) \/ DidClose(m)
             \/ AsksType(m) \/ Completes(m))
  <2>1. UNCHANGED docVars
    BY <1>8 DEF Handles, Plain, ExitNotice, Raises, AsksText, FindsSymbol,
                WillRename, ActsOnCode, ColorsAll, ColorsDelta, PullBegins,
                WalkBegins, VerbBegins
  <2> QED
    BY <2>1 DEF DocStep
<1> QED
  BY <1>3, <1>4, <1>5, <1>6, <1>7, <1>8

LEMMA ServerChecks ==
    ASSUME ServerNext, Kinds, Pipes, Buffers, JobOK
    PROVE  DocStep
<1>1. disk \in Sheets /\ documents \in Sheets /\ analysis.open \subseteq Docs
      /\ \A x \in analysis.open : documents[x] # None
  BY DEF Kinds, Buffers
<1>2. CASE \E m \in {Head(Swept)} : Handles(m)
  BY <1>2, HandlersCheck
<1>3. CASE PullGoesOn
  <2> DEFINE d == First(job.todo)
             t == TextOf(documents, d)
  <2>1. job.do \in {"pull", "workspace"} /\ job.todo # {}
        /\ documents' = documents
    BY <1>3 DEF PullGoesOn
  <2>2. job.todo \in SUBSET Docs
    BY <2>1 DEF JobOK, Walks, Idle
  <2>3. d \in Docs
    BY <2>1, <2>2, FirstOf
  <2>4. \/ UNCHANGED docVars
        \/ /\ analysis' = Remembering(documents, analysis.open, d, t, Check(documents, d, t))
           /\ published' = [published EXCEPT ![d] = Check(documents, d, t)]
    <3>1. UNCHANGED <<analysis, published>>
          \/ Judges(d, job.ids[d], job.previous[d])
      BY <1>3 DEF PullGoesOn
    <3> HIDE DEF d
    <3> QED
      BY <2>1, <3>1 DEF Judges, Checks, docVars
  <2> HIDE DEF d
  <2>5. t \in MaybeTexts
    BY <1>1, <2>3, TextOfOf
  <2>6. UNCHANGED docVars \/ CheckStep(documents, analysis.open, d, t)
    BY <1>1, <2>1, <2>4 DEF CheckStep
  <2> QED
    BY <1>1, <2>3, <2>5, <2>6 DEF DocStep
<1>4. CASE WalkGoesOn
  <2> DEFINE d == IF job.from \in job.todo THEN job.from ELSE First(job.todo)
             t == job.texts[d]
  <2>1. /\ job.do \in Walks /\ job.todo # {}
        /\ documents' = documents /\ published' = published
        /\ analysis' = Remembering(documents, analysis.open, d, t, Check(documents, d, t))
    BY <1>4 DEF WalkGoesOn, Checks
  <2>2. /\ DOMAIN job.texts \subseteq Docs /\ job.todo \subseteq DOMAIN job.texts
        /\ \A x \in DOMAIN job.texts : job.texts[x] \in MaybeTexts
    BY <2>1 DEF JobOK, Walks, Idle
  <2>3. First(job.todo) \in job.todo
    BY <2>1, <2>2, FirstOf
  <2>4. d \in Docs /\ t \in MaybeTexts
    BY <2>2, <2>3
  <2> HIDE DEF d, t
  <2>5. CheckStep(documents, analysis.open, d, t)
    BY <1>1, <2>1 DEF CheckStep
  <2> QED
    BY <1>1, <2>4, <2>5 DEF DocStep
<1>5. CASE Reads \/ DropsCancels \/ RespondsCancelled \/ EndsAtEof
           \/ PullAnswers \/ WalkAnswers \/ VerbAnswers
  BY <1>5 DEF DocStep, Reads, DropsCancels, RespondsCancelled, EndsAtEof,
              PullAnswers, WalkAnswers, VerbAnswers
<1> QED
  BY <1>2, <1>3, <1>4, <1>5 DEF ServerNext

\* The typed programs of the other documents.
LEMMA OthersOf ==
    ASSUME NEW d, Kept
    PROVE  /\ Others(d) \in Seq(ToSet(Others(d)))
           /\ ToSet(Others(d)) \subseteq ToSet(analysis.lastGood)
           /\ \A r \in ToSet(Others(d)) : r.doc # d
           /\ Len(Others(d)) <= Len(analysis.lastGood)
<1> DEFINE q == analysis.lastGood
           I == {i \in DOMAIN q : q[i].doc # d}
<1>1. q \in Seq(ToSet(q))
  BY DEF Kept
<1>2. Others(d) = Picked(q, I)
  BY DEF Others
<1> HIDE DEF q, I
<1>3. /\ Picked(q, I) \in Seq(ToSet(Picked(q, I)))
      /\ ToSet(Picked(q, I)) = {q[i] : i \in I \cap DOMAIN q}
      /\ Len(Picked(q, I)) <= Len(q)
  BY <1>1, PickedOf
<1>4. ToSet(Picked(q, I)) \subseteq ToSet(q)
  BY <1>3 DEF ToSet
<1>5. \A r \in ToSet(Picked(q, I)) : r.doc # d
  BY <1>3 DEF I
<1> QED
  BY <1>2, <1>3, <1>4, <1>5, Zenon DEF q

\* One more typed program, and the oldest of too many gone.
LEMMA KeptGrows ==
    ASSUME NEW d, Kept, NEW r, NEW opened, d \in opened,
           analysis.open \subseteq opened, r.doc = d, r.holds
    PROVE  LET kept == Append(Others(d), r)
               q == IF Len(kept) > Keep THEN Tail(kept) ELSE kept
           IN  /\ q \in Seq(ToSet(q)) /\ Len(q) <= Keep
               /\ \A x \in ToSet(q) : x.doc \in opened /\ x.holds
<1> DEFINE kept == Append(Others(d), r)
<1>1. /\ Others(d) \in Seq(ToSet(Others(d)))
      /\ ToSet(Others(d)) \subseteq ToSet(analysis.lastGood)
      /\ Len(Others(d)) <= Len(analysis.lastGood)
  BY OthersOf
<1>2. /\ Len(analysis.lastGood) <= Keep /\ Len(analysis.lastGood) \in Nat
      /\ \A x \in ToSet(analysis.lastGood) : x.doc \in opened /\ x.holds
  BY DEF Kept
<1>3. kept \in Seq(ToSet(kept)) /\ ToSet(kept) \subseteq ToSet(Others(d)) \cup {r}
  BY <1>1, OneMore
<1>4. Len(kept) = Len(Others(d)) + 1 /\ Len(Others(d)) \in Nat /\ kept # <<>>
  BY <1>1
<1> HIDE DEF kept
<1>5. \A x \in ToSet(kept) : x.doc \in opened /\ x.holds
  BY <1>1, <1>2, <1>3
<1>6. /\ Tail(kept) \in Seq(ToSet(Tail(kept)))
      /\ ToSet(Tail(kept)) \subseteq ToSet(kept)
  BY <1>3, <1>4, OneLess
<1>7. Len(Tail(kept)) = Len(Others(d))
  BY <1>3, <1>4
<1>8. CASE Len(kept) > Keep
  <2>1. Len(Tail(kept)) <= Keep
    BY <1>1, <1>2, <1>4, <1>7, LspAssumption
  <2> QED
    BY <1>5, <1>6, <1>8, <2>1 DEF kept
<1>9. CASE ~(Len(kept) > Keep)
  <2>1. Len(kept) <= Keep
    BY <1>4, <1>9, LspAssumption
  <2> QED
    BY <1>3, <1>5, <1>9, <2>1 DEF kept
<1> QED
  BY <1>8, <1>9

LEMMA CheckKeeps ==
    ASSUME disk \in Sheets, Buffers, Kept, Current,
           NEW docs \in Sheets, NEW opened \in SUBSET Docs, NEW d \in Docs,
           NEW t \in MaybeTexts, CheckStep(docs, opened, d, t)
    PROVE  Buffers' /\ Kept' /\ Current'
<1> DEFINE r == Check(docs, d, t)
<1>1. r \in Verdicts /\ r.doc = d /\ r.view[d] = t /\ r # None
  BY CheckOf, VerdictThere DEF Buffers
<1> HIDE DEF r
<1>2. /\ documents' = docs
      /\ analysis' = Remembering(docs, opened, d, t, r)
      /\ \A x \in opened : docs[x] # None
      /\ analysis.open \subseteq opened
      /\ \A x \in Docs \ {d} : docs[x] = documents[x]
      /\ \/ published' = published /\ docs = documents
         \/ published' = [published EXCEPT ![d] = r] /\ t = TextOf(docs, d)
  BY DEF CheckStep, r
<1>3. analysis'.open = opened
      /\ analysis'.memo = [key |-> MemoKey(docs, d, t), result |-> r]
      /\ \/ analysis'.lastGood = analysis.lastGood
         \/ /\ r.holds /\ d \in opened
            /\ LET kept == Append(Others(d), r)
               IN  analysis'.lastGood = IF Len(kept) > Keep THEN Tail(kept) ELSE kept
  BY <1>2 DEF Remembering
<1>4. Kept'
  <2>1. CASE analysis'.lastGood = analysis.lastGood
    BY <1>2, <1>3, <2>1 DEF Kept
  <2>2. CASE /\ r.holds /\ d \in opened
             /\ LET kept == Append(Others(d), r)
                IN  analysis'.lastGood = IF Len(kept) > Keep THEN Tail(kept) ELSE kept
    <3>1. LET kept == Append(Others(d), r)
              q == IF Len(kept) > Keep THEN Tail(kept) ELSE kept
          IN  /\ q \in Seq(ToSet(q)) /\ Len(q) <= Keep
              /\ \A x \in ToSet(q) : x.doc \in opened /\ x.holds
      BY <1>1, <1>2, <2>2, KeptGrows
    <3> QED
      BY <1>3, <2>2, <3>1 DEF Kept
  <2> QED
    BY <1>3, <2>1, <2>2
<1>5. MemoOK(analysis'.memo)
  BY <1>1, <1>3 DEF MemoOK, MemoKey
<1>6. /\ published' \in [Docs -> Verdicts \cup {None}]
      /\ \A x \in Docs : published'[x] # None => published'[x].doc = x
      /\ \A x \in Docs \ {d} : published'[x] = published[x]
  BY <1>1, <1>2 DEF Buffers
<1>7. Buffers'
  BY <1>2, <1>3, <1>5, <1>6 DEF Buffers
<1>8. Current'
  <2> SUFFICES ASSUME NEW x \in Docs, docs[x] # None
               PROVE  published'[x] # None /\ published'[x].view[x] = docs[x]
    BY <1>2 DEF Current
  <2>1. CASE published' = published /\ docs = documents
    BY <2>1 DEF Current
  <2>2. CASE published' = [published EXCEPT ![d] = r] /\ t = TextOf(docs, d)
    <3>1. CASE x = d
      <4>1. published'[x] = r
        BY <2>2, <3>1 DEF Buffers
      <4>2. t = docs[x]
        BY <2>2, <3>1 DEF TextOf
      <4> QED
        BY <1>1, <3>1, <4>1, <4>2
    <3>2. CASE x # d
      BY <1>2, <1>6, <3>2 DEF Current
    <3> QED
      BY <3>1, <3>2
  <2> QED
    BY <1>2, <2>1, <2>2
<1> QED
  BY <1>4, <1>7, <1>8

LEMMA CloseKeeps ==
    ASSUME Buffers, Kept, Current, NEW d \in Docs, CloseStep(d)
    PROVE  Buffers' /\ Kept' /\ Current'
<1>1. /\ documents' = [documents EXCEPT ![d] = None]
      /\ published' = [published EXCEPT ![d] = None]
      /\ analysis'.open = analysis.open \ {d}
      /\ analysis'.lastGood = Others(d)
      /\ analysis'.memo \in {NoMemo, analysis.memo}
  BY DEF CloseStep, Forgetting
<1>2. /\ documents' \in Sheets
      /\ \A x \in Docs \ {d} : documents'[x] = documents[x]
      /\ documents'[d] = None /\ published'[d] = None
      /\ published' \in [Docs -> Verdicts \cup {None}]
      /\ \A x \in Docs \ {d} : published'[x] = published[x]
  BY <1>1 DEF Buffers, Sheets, MaybeTexts
<1>3. MemoOK(analysis'.memo)
  BY <1>1 DEF Buffers, MemoOK, NoMemo
<1>4. Buffers'
  BY <1>1, <1>2, <1>3 DEF Buffers
<1>5. Kept'
  <2>1. /\ Others(d) \in Seq(ToSet(Others(d)))
        /\ ToSet(Others(d)) \subseteq ToSet(analysis.lastGood)
        /\ \A r \in ToSet(Others(d)) : r.doc # d
        /\ Len(Others(d)) <= Len(analysis.lastGood)
    BY OthersOf
  <2>2. Len(Others(d)) <= Keep
    BY <2>1, LspAssumption DEF Kept
  <2> HIDE DEF Others
  <2> QED
    BY <1>1, <2>1, <2>2 DEF Kept
<1>6. Current'
  BY <1>2 DEF Current
<1> QED
  BY <1>4, <1>5, <1>6

LEMMA DocStepKeeps ==
    ASSUME disk \in Sheets, Buffers, Kept, Current, DocStep
    PROVE  Buffers' /\ Kept' /\ Current'
<1>1. CASE UNCHANGED docVars
  BY <1>1 DEF docVars, Buffers, Kept, Current
<1> QED
  BY <1>1, CheckKeeps, CloseKeeps DEF DocStep

-----------------------------------------------------------------------------
(* The queues through a step *)

LEMMA QueueRest ==
    ASSUME NEW n, NEW q, Queue(q, n), NEW k \in 1..Len(q) + 1
    PROVE  /\ Queue(SubSeq(q, k, Len(q)), n)
           /\ ToSet(SubSeq(q, k, Len(q))) \subseteq ToSet(q)
<1>1. q \in Seq(ToSet(q))
  BY DEF Queue
<1>2. /\ SubSeq(q, k, Len(q)) \in Seq(ToSet(SubSeq(q, k, Len(q))))
      /\ ToSet(SubSeq(q, k, Len(q))) \subseteq ToSet(q)
  BY <1>1, EndOf
<1> QED
  BY <1>2, QueuePart

LEMMA QueueNone ==
    ASSUME NEW n
    PROVE  Queue(<<>>, n)
BY DEF Queue, ToSet

LEMMA TakingsKeep ==
    ASSUME Pipes, NEW m, Takings(m), UNCHANGED clientVars
    PROVE  Pipes'
<1>1. Queue(Swept, nextId)
  BY SweptOf DEF Pipes
<1>2. PICK k \in 2..Len(Swept) + 1 : inbox' = SubSeq(Swept, k, Len(Swept))
  BY DEF Takings
<1>3. Queue(inbox', nextId)
  <2>1. k \in 1..Len(Swept) + 1
    BY <1>1 DEF Queue
  <2> QED
    BY <1>1, <1>2, <2>1, QueueRest
<1>4. Named \subseteq 1..nextId /\ Cardinality(Named) <= MaxCancelled
  BY NamedOf DEF Pipes
<1> QED
  BY <1>3, <1>4 DEF Takings, Pipes, clientVars

LEMMA CardinalityLess ==
    ASSUME NEW n \in Nat, NEW S \in SUBSET (1..n), Cardinality(S) <= MaxCancelled, NEW x
    PROVE  S \ {x} \in SUBSET (1..n) /\ Cardinality(S \ {x}) <= MaxCancelled
<1>1. IsFiniteSet(S)
  <2>1. IsFiniteSet(1..n) /\ S \subseteq 1..n
    BY FS_Interval
  <2> QED
    BY <2>1, FS_Subset
<1>2. /\ Cardinality(S \ {x}) <= Cardinality(S)
      /\ Cardinality(S) \in Nat /\ Cardinality(S \ {x}) \in Nat
  <2>1. S \ {x} \subseteq S /\ IsFiniteSet(S \ {x})
    BY <1>1, FS_Subset
  <2> QED
    BY <1>1, <2>1, FS_Subset, FS_CardinalityType
<1>3. MaxCancelled \in Nat
  BY LspAssumption
<1>4. S \ {x} \in SUBSET (1..n)
  OBVIOUS
<1>5. \A a, b, c \in Nat : a <= b /\ b <= c => a <= c
  OBVIOUS
<1> QED
  BY <1>2, <1>3, <1>4, <1>5, Zenon

LEMMA ServerPipes ==
    ASSUME ServerNext, UNCHANGED clientVars, Kinds, Pipes, Buffers
    PROVE  Pipes' /\ UNCHANGED worldVars
<1>1. nextId' = nextId
  BY DEF clientVars
<1>2. CASE \E m \in {Head(Swept)} : Handles(m)
  BY <1>2, HandlersTake, TakingsKeep DEF Takings, Buffers
<1>3. CASE Reads
  <2>1. /\ stdin' = <<>> /\ cancelled' = cancelled /\ pending' = pending
        /\ UNCHANGED worldVars
        /\ inbox' = inbox \o Picked(stdin, {i \in DOMAIN stdin : stdin[i].op # "junk"})
    BY <1>3 DEF Reads
  <2>2. Queue(Picked(stdin, {i \in DOMAIN stdin : stdin[i].op # "junk"}), nextId)
    BY QueuePicked DEF Pipes
  <2>3. Queue(inbox', nextId)
    BY <2>1, <2>2, QueueJoin DEF Pipes
  <2> QED
    BY <1>1, <2>1, <2>3, QueueNone DEF Pipes
<1>4. CASE DropsCancels
  <2>1. /\ stdin' = stdin /\ inbox' = <<>> /\ cancelled' = Named /\ pending' = pending
        /\ UNCHANGED worldVars
    BY <1>4 DEF DropsCancels, askVars, pipeVars
  <2>2. Named \subseteq 1..nextId /\ Cardinality(Named) <= MaxCancelled
    BY NamedOf DEF Pipes
  <2> QED
    BY <1>1, <2>1, <2>2, QueueNone DEF Pipes
<1>5. CASE RespondsCancelled
  <2>1. /\ stdin' = stdin /\ Swept # <<>> /\ inbox' = Tail(Swept)
        /\ cancelled' = Named \ {Head(Swept).id} /\ pending' \subseteq pending
        /\ UNCHANGED worldVars
    BY <1>5 DEF RespondsCancelled, Say, pipeVars
  <2>2. Named \subseteq 1..nextId /\ Cardinality(Named) <= MaxCancelled
    BY NamedOf DEF Pipes
  <2>3. cancelled' \subseteq 1..nextId /\ Cardinality(cancelled') <= MaxCancelled
    BY <2>1, <2>2, CardinalityLess DEF Pipes
  <2>4. Queue(inbox', nextId)
    BY <2>1, SweptOf, QueueHead DEF Pipes
  <2> QED
    BY <1>1, <2>1, <2>3, <2>4 DEF Pipes
<1>6. CASE EndsAtEof \/ PullGoesOn \/ WalkGoesOn \/ PullAnswers \/ WalkAnswers \/ VerbAnswers
  <2>1. /\ stdin' = stdin /\ inbox' = inbox /\ cancelled' = cancelled
        /\ pending' \subseteq pending /\ UNCHANGED worldVars
    BY <1>6 DEF EndsAtEof, PullGoesOn, WalkGoesOn, PullAnswers, WalkAnswers,
                VerbAnswers, Say, pipeVars, askVars
  <2> QED
    BY <1>1, <2>1 DEF Pipes
<1> QED
  BY <1>2, <1>3, <1>4, <1>5, <1>6 DEF ServerNext

\* The ids of messages are ids of theirs.
LEMMA IdsOf ==
    ASSUME NEW n, NEW q, Queue(q, n)
    PROVE  Ids(q) \subseteq 1..n
<1>1. \A i \in DOMAIN q : q[i] \in ToSet(q)
  BY DEF ToSet
<1>2. \A i \in DOMAIN q : q[i].id \in 0..n
  BY <1>1 DEF Queue, Sent
<1> QED
  BY <1>2 DEF Ids

LEMMA WritesKeep ==
    ASSUME Pipes, sheet \in Sheets, NEW n, NEW frames, Batch(frames, n),
           Writes(frames), UNCHANGED <<inbox, cancelled>>
    PROVE  Pipes'
<1> DEFINE q == Messages(frames)
           k == nextId + Asked(frames, n)
<1>1. Queue(q, k) /\ k \in Nat /\ nextId <= k
  BY MessagesOf DEF Pipes
<1>2. /\ stdin' = stdin \o q /\ nextId' = k
      /\ pending' = pending \cup Ids(q)
  BY DEF Writes, Batch
<1> HIDE DEF q, k
<1>3. nextId \in Nat /\ Queue(stdin, k) /\ Queue(inbox, k)
  BY <1>1, QueueGrows DEF Pipes
<1>4. Queue(stdin', k)
  BY <1>1, <1>2, <1>3, QueueJoin
<1>5. Ids(q) \subseteq 1..k
  BY <1>1, IdsOf
<1>6. 1..nextId \subseteq 1..k
  BY <1>1, <1>3
<1> QED
  BY <1>1, <1>2, <1>3, <1>4, <1>5, <1>6 DEF Pipes

\* Whatever a client writes is a batch.
LEMMA StepBatch ==
    ASSUME Kinds, nextId \in Nat, at \in DOMAIN Self.steps
    PROVE  Batch(Self.steps[at].frames, Len(Self.steps[at].frames))
<1> DEFINE frames == Self.steps[at].frames
           n == Len(frames)
<1>1. /\ n \in Nat /\ DOMAIN frames = 1..n
      /\ \A j \in 1..n : WellFormed(frames[j])
      /\ \A j \in 1..n : frames[j].op = "$/cancelRequest" =>
           frames[j].arg \in 1..Asked(frames, n)
  BY ClientsAssumption DEF ClientsAssumption, Kinds, Self
<1>2. Asked(frames, n) \in Nat
  <2>1. n \in 0..n
    BY <1>1
  <2> QED
    BY <1>1, <2>1, AskedOf
<1> HIDE DEF frames, n
<1>3. \A x \in 1..Asked(frames, n) : nextId + x \in 1..nextId + Asked(frames, n)
  BY <1>2
<1> QED
  BY <1>1, <1>3 DEF Batch, frames, n

LEMMA OneFrame ==
    ASSUME nextId \in Nat, NEW f, WellFormed(f),
           f.op = "$/cancelRequest" => nextId + f.arg \in 1..nextId
    PROVE  Batch(<<f>>, 1)
<1>1. Asked(<<f>>, 1) \in Nat
  BY AskedOf
<1>2. Len(<<f>>) = 1 /\ DOMAIN <<f>> = 1..1 /\ <<f>>[1] = f
  OBVIOUS
<1>3. 1..nextId \subseteq 1..nextId + Asked(<<f>>, 1)
  BY <1>1
<1> QED
  BY <1>2, <1>3 DEF Batch

LEMMA MenuFrames ==
    ASSUME Kinds, NEW f \in Self.menu
    PROVE  \/ f.op = "cancel"
           \/ f.op = "save" /\ f.doc \in Docs /\ f.arg \in MaybeTexts
           \/ f.op \notin {"save", "$/cancelRequest"} /\ WellFormed(f)
BY ClientsAssumption DEF ClientsAssumption, Kinds, Self, MaybeTexts

\* Every write of a client, and the steps that write nothing.
\* A client writes a batch, or takes a message, or does neither.
ClientWriting ==
    /\ UNCHANGED <<stdout, colors>>
    /\ \E n : \E frames : Batch(frames, n) /\ Writes(frames)
ClientTaking ==
    /\ UNCHANGED <<stdin, nextId, pending, sheet, timely, cancels>>
    /\ Takes(Head(stdout))

LEMMA ClientDoes ==
    ASSUME ClientNext, Kinds, nextId \in Nat
    PROVE  /\ UNCHANGED <<inbox, cancelled, docVars, job, tokens, handed, running>>
           /\ \/ ClientWriting \/ ClientTaking
              \/ UNCHANGED <<stdin, stdout, nextId, pending, sheet, timely, cancels,
                             colors, named>>
<1>1. CASE StepBegins
  <2>1. at \in DOMAIN Self.steps /\ Writes(Self.steps[at].frames)
        /\ UNCHANGED <<inbox, cancelled, docVars, job, tokens, handed, running,
                       stdout, colors>>
    BY <1>1 DEF StepBegins, Playing, serverSame, sessionVars
  <2> QED
    BY <2>1, StepBatch DEF ClientWriting
<1>2. CASE EditorWrites
  <2>1. PICK f \in Self.menu : f.op \notin {"save", "cancel"} /\ Writes(<<f>>)
    BY <1>2 DEF EditorWrites
  <2>2. f.op # "$/cancelRequest" /\ WellFormed(f)
    BY <2>1, MenuFrames
  <2>3. Batch(<<f>>, 1)
    BY <2>2, OneFrame
  <2>4. UNCHANGED <<inbox, cancelled, docVars, job, tokens, handed, running,
                   stdout, colors>>
    BY <1>2 DEF EditorWrites, serverSame, sessionVars
  <2> QED
    BY <2>1, <2>3, <2>4 DEF ClientWriting
<1>3. CASE EditorCancels
  <2>1. PICK back \in {0, 1} \cap 0..(nextId - 1) :
          Writes(<<Notice("$/cancelRequest", None, -back)>>)
    BY <1>3 DEF EditorCancels
  <2> DEFINE f == Notice("$/cancelRequest", None, -back)
  <2>2. f.op = "$/cancelRequest" /\ f.arg = -back /\ ~f.asks
    BY DEF Notice, Frame
  <2>3. WellFormed(f)
    BY DEF WellFormed, Notice, Frame, Notices, OnDocs, ReadsText
  <2>4. nextId + f.arg \in 1..nextId
    BY <2>2
  <2> HIDE DEF f
  <2>5. Batch(<<f>>, 1)
    BY <2>2, <2>3, <2>4, OneFrame
  <2>6. UNCHANGED <<inbox, cancelled, docVars, job, tokens, handed, running,
                   stdout, colors>>
    BY <1>3 DEF EditorCancels, serverSame, sessionVars
  <2> QED
    BY <2>1, <2>5, <2>6 DEF f, ClientWriting
<1>4. CASE StepReads \/ EditorReads
  BY <1>4 DEF StepReads, EditorReads, serverSame, sessionVars, ClientTaking
<1>5. CASE HangsUp \/ EditorSaves \/ EditorLeaves
  BY <1>5 DEF HangsUp, EditorSaves, EditorLeaves, serverSame, sessionVars, clientVars
<1> QED
  BY <1>1, <1>2, <1>3, <1>4, <1>5 DEF ClientNext

LEMMA ClientWrites ==
    ASSUME ClientNext, Kinds, nextId \in Nat
    PROVE  /\ UNCHANGED <<inbox, cancelled, docVars, job, tokens, handed, running>>
           /\ \/ UNCHANGED <<stdin, nextId, pending, sheet>>
              \/ \E n : \E frames : Batch(frames, n) /\ Writes(frames)
BY ClientDoes DEF ClientWriting, ClientTaking

LEMMA ClientPipes ==
    ASSUME ClientNext, Kinds, Pipes
    PROVE  Pipes'
<1>1. /\ UNCHANGED <<inbox, cancelled>>
      /\ \/ UNCHANGED <<stdin, nextId, pending>>
         \/ \E n : \E frames : Batch(frames, n) /\ Writes(frames)
  BY ClientWrites DEF Pipes
<1>2. CASE UNCHANGED <<stdin, nextId, pending>>
  BY <1>1, <1>2 DEF Pipes
<1>3. CASE \E n : \E frames : Batch(frames, n) /\ Writes(frames)
  BY <1>1, <1>3, WritesKeep DEF Kinds
<1> QED
  BY <1>1, <1>2, <1>3

-----------------------------------------------------------------------------
(* What a queue does to a text *)

LEMMA EditedOf ==
    ASSUME NEW d \in Docs, NEW t \in MaybeTexts, NEW m, NEW n, Sent(m, n)
    PROVE  Edited(d, t, m) \in MaybeTexts
<1>1. (IF t = None THEN Garbled ELSE t) \in Texts
  BY LspAssumption DEF MaybeTexts
<1>2. m.op = "didChange" => m.arg.text \in Texts
  BY DEF Sent
<1>3. m.op = "didChange" => Apply(IF t = None THEN Garbled ELSE t, m.arg) \in Texts
  BY <1>1, <1>2, ApplyOf
<1>4. m.op = "didOpen" => m.arg \in Texts
  BY DEF Sent
<1>5. \/ Edited(d, t, m) = t \/ Edited(d, t, m) = None
      \/ m.op = "didOpen" /\ Edited(d, t, m) = m.arg
      \/ m.op = "didChange" /\ Edited(d, t, m) = Apply(IF t = None THEN Garbled ELSE t, m.arg)
  BY DEF Edited
<1> QED
  BY <1>3, <1>4, <1>5 DEF MaybeTexts

\* A queue is gone through a message at a time.
LEMMA AfterUnrolls ==
    ASSUME NEW d \in Docs, NEW t \in MaybeTexts, NEW n, NEW q, Queue(q, n)
    PROVE  \E F \in [0..Len(q) -> MaybeTexts] :
             /\ After(d, t, q) = F[Len(q)] /\ F[0] = t
             /\ \A i \in 1..Len(q) : F[i] = Edited(d, F[i - 1], q[i])
<1>1. PICK N \in Nat : N = Len(q)
  BY DEF Queue
<1>2. \A i \in 1..N : Sent(q[i], n)
  <2>1. q \in Seq(ToSet(q)) /\ \A m \in ToSet(q) : Sent(m, n)
    BY DEF Queue
  <2>2. \A i \in 1..N : q[i] \in ToSet(q)
    BY <1>1, <2>1
  <2> QED
    BY <2>1, <2>2
<1> DEFINE step == [p \in (1..N) \X MaybeTexts |-> Edited(d, p[2], q[p[1]])]
           Is(F) == F = [i \in 0..Len(q) |->
                           IF i = 0 THEN t ELSE Edited(d, F[i - 1], q[i])]
           K == CHOOSE F : Is(F)
<1>3. \A i \in 1..N, u \in MaybeTexts : step[<<i, u>>] = Edited(d, u, q[i])
  OBVIOUS
<1>4. \A i \in 1..N, u \in MaybeTexts : step[<<i, u>>] \in MaybeTexts
  BY <1>2, <1>3, EditedOf
<1> HIDE DEF step
<1>5. Unrolled(N, MaybeTexts, t, step)
  <2>1. N \in Nat /\ t \in MaybeTexts
    OBVIOUS
  <2> QED
    BY <1>4, <2>1, Unrolls, Zenon
<1>6. PICK F \in [0..N -> MaybeTexts] :
        F[0] = t /\ \A i \in 1..N : F[i] = step[<<i, F[i - 1]>>]
  BY <1>5 DEF Unrolled
<1>7. \A i \in 1..N : i \in 0..N /\ i # 0 /\ i - 1 \in 0..N
  OBVIOUS
<1>8. \A i \in 1..N : F[i] = Edited(d, F[i - 1], q[i])
  <2>1. \A i \in 1..N : F[i - 1] \in MaybeTexts
    BY <1>7
  <2> QED
    BY <1>3, <1>6, <2>1, Zenon
<1>9. \A i \in 0..N : i = 0 \/ i \in 1..N
  OBVIOUS
<1>10. Is(F)
  <2> DEFINE E(i) == IF i = 0 THEN t ELSE Edited(d, F[i - 1], q[i])
  <2>1. \A i \in 0..N : F[i] = E(i)
    BY <1>6, <1>7, <1>8, <1>9, Zenon
  <2> HIDE DEF E
  <2>2. F = [i \in 0..N |-> E(i)]
    BY <2>1
  <2> QED
    BY <1>1, <2>2, Zenon DEF E
<1>11. Is(K)
  BY <1>10, Zenon
<1>12. After(d, t, q) = K[Len(q)]
  BY Zenon DEF After
<1> HIDE DEF K
<1>13. /\ K[0] = t
       /\ \A i \in 1..N : K[i] = Edited(d, K[i - 1], q[i])
  <2>1. 0 \in 0..N
    OBVIOUS
  <2> QED
    BY <1>1, <1>7, <1>11, <2>1, Zenon
<1>14. \A i \in 1..N : K[i - 1] = F[i - 1] => K[i] = F[i]
  BY <1>8, <1>13, Zenon
<1> HIDE DEF Is
<1>15. K[N] = F[N]
  <2>1. N \in Nat
    OBVIOUS
  <2>2. K[0] = F[0]
    BY <1>6, <1>13
  <2> QED
    BY <1>14, <2>1, <2>2, UnrollsOnce, Zenon
<1> QED
  BY <1>1, <1>6, <1>8, <1>12, <1>15, Zenon

\* Whatever goes on like it comes out like it.
LEMMA AfterIs ==
    ASSUME NEW d \in Docs, NEW t \in MaybeTexts, NEW n, NEW q, Queue(q, n),
           NEW G, G[0] = t,
           \A i \in 1..Len(q) : G[i] = Edited(d, G[i - 1], q[i])
    PROVE  After(d, t, q) = G[Len(q)] /\ G[Len(q)] \in MaybeTexts
<1>1. PICK F \in [0..Len(q) -> MaybeTexts] :
        /\ After(d, t, q) = F[Len(q)] /\ F[0] = t
        /\ \A i \in 1..Len(q) : F[i] = Edited(d, F[i - 1], q[i])
  BY AfterUnrolls
<1>2. Len(q) \in Nat
  BY DEF Queue
<1>3. \A i \in 1..Len(q) : F[i - 1] = G[i - 1] => F[i] = G[i]
  BY <1>1, Zenon
<1>4. F[0] = G[0]
  BY <1>1
<1>5. F[Len(q)] = G[Len(q)]
  BY <1>2, <1>3, <1>4, UnrollsOnce
<1>6. F[Len(q)] \in MaybeTexts
  BY <1>1, <1>2
<1> QED
  BY <1>1, <1>5, <1>6

LEMMA AfterOf ==
    ASSUME NEW d \in Docs, NEW t \in MaybeTexts, NEW n, NEW q, Queue(q, n)
    PROVE  After(d, t, q) \in MaybeTexts
<1>1. PICK F \in [0..Len(q) -> MaybeTexts] : After(d, t, q) = F[Len(q)]
  BY AfterUnrolls
<1>2. Len(q) \in 0..Len(q)
  BY DEF Queue
<1> QED
  BY <1>1, <1>2

\* One queue behind another.
LEMMA AfterJoin ==
    ASSUME NEW d \in Docs, NEW t \in MaybeTexts, NEW n,
           NEW q, Queue(q, n), NEW p, Queue(p, n)
    PROVE  After(d, t, q \o p) = After(d, After(d, t, q), p)
<1>1. PICK N \in Nat, M \in Nat : Len(q) = N /\ Len(p) = M
  BY DEF Queue
<1>2. Queue(q \o p, n)
  BY QueueJoin
<1>3. /\ Len(q \o p) = N + M
      /\ \A i \in 1..N : (q \o p)[i] = q[i]
      /\ \A i \in 1..M : (q \o p)[N + i] = p[i]
  <2> DEFINE S == ToSet(q) \cup ToSet(p)
  <2>1. q \in Seq(S) /\ p \in Seq(S)
    BY OverMore DEF Queue
  <2> HIDE DEF S
  <2>2. /\ Len(q \o p) = Len(q) + Len(p)
        /\ \A i \in 1..Len(q) : (q \o p)[i] = q[i]
        /\ \A i \in 1..Len(p) : (q \o p)[Len(q) + i] = p[i]
    BY <2>1, Joined
  <2> QED
    BY <1>1, <2>2
<1>4. PICK F \in [0..(N + M) -> MaybeTexts] :
        /\ After(d, t, q \o p) = F[N + M] /\ F[0] = t
        /\ \A i \in 1..(N + M) : F[i] = Edited(d, F[i - 1], (q \o p)[i])
  <2> DEFINE r == q \o p
  <2>4. Queue(r, n)
    BY <1>2
  <2>1. Len(r) = N + M
    BY <1>3
  <2> HIDE DEF r
  <2>2. PICK F \in [0..Len(r) -> MaybeTexts] :
          /\ After(d, t, r) = F[Len(r)] /\ F[0] = t
          /\ \A i \in 1..Len(r) : F[i] = Edited(d, F[i - 1], r[i])
    BY <2>4, AfterUnrolls
  <2>3. /\ F \in [0..(N + M) -> MaybeTexts]
        /\ After(d, t, r) = F[N + M] /\ F[0] = t
        /\ \A i \in 1..(N + M) : F[i] = Edited(d, F[i - 1], r[i])
    BY <2>1, <2>2
  <2> QED
    BY <2>3, Zenon DEF r
<1>5. \A i \in 1..N : F[i] = Edited(d, F[i - 1], q[i])
  <2>1. \A i \in 1..N : i \in 1..(N + M)
    OBVIOUS
  <2> QED
    BY <1>3, <1>4, <2>1, Zenon
<1>6. After(d, t, q) = F[N] /\ F[N] \in MaybeTexts
  BY <1>1, <1>4, <1>5, AfterIs
<1> DEFINE G == [i \in 0..M |-> F[N + i]]
<1>7. \A i \in 1..M : G[i] = Edited(d, G[i - 1], p[i])
  <2> SUFFICES ASSUME NEW i \in 1..M PROVE G[i] = Edited(d, G[i - 1], p[i])
    OBVIOUS
  <2>1. N + i \in 1..(N + M) /\ (N + i) - 1 = N + (i - 1) /\ i \in 0..M /\ i - 1 \in 0..M
    OBVIOUS
  <2>2. F[N + i] = Edited(d, F[N + (i - 1)], p[i])
    BY <1>3, <1>4, <2>1
  <2> QED
    BY <2>1, <2>2
<1>8. G[0] = F[N] /\ G[M] = F[N + M]
  OBVIOUS
<1> HIDE DEF G
<1>9. After(d, F[N], p) = G[M]
  BY <1>1, <1>6, <1>7, <1>8, AfterIs
<1> QED
  BY <1>4, <1>6, <1>8, <1>9

LEMMA QueueOne ==
    ASSUME NEW n, NEW m, Sent(m, n)
    PROVE  Queue(<<m>>, n)
<1>1. ToSet(<<m>>) = {m}
  BY DEF ToSet
<1> QED
  BY <1>1 DEF Queue

LEMMA AfterOne ==
    ASSUME NEW d \in Docs, NEW t \in MaybeTexts, NEW n, NEW m, Sent(m, n)
    PROVE  After(d, t, <<m>>) = Edited(d, t, m)
<1> DEFINE G == [i \in 0..1 |-> IF i = 0 THEN t ELSE Edited(d, t, m)]
<1>1. Queue(<<m>>, n)
  BY QueueOne
<1>2. Len(<<m>>) = 1 /\ <<m>>[1] = m
  OBVIOUS
<1>3. G[0] = t /\ G[1] = Edited(d, t, m)
  OBVIOUS
<1> HIDE DEF G
<1>4. \A i \in 1..Len(<<m>>) : G[i] = Edited(d, G[i - 1], <<m>>[i])
  <2>1. \A i \in 1..Len(<<m>>) : i = 1 /\ i - 1 = 0
    BY <1>2
  <2> QED
    BY <1>2, <1>3, <2>1
<1>5. After(d, t, <<m>>) = G[Len(<<m>>)]
  BY <1>1, <1>3, <1>4, AfterIs
<1> QED
  BY <1>2, <1>3, <1>5

LEMMA AfterMore ==
    ASSUME NEW d \in Docs, NEW t \in MaybeTexts, NEW n, NEW q, Queue(q, n),
           NEW m, Sent(m, n)
    PROVE  /\ Queue(Append(q, m), n)
           /\ After(d, t, Append(q, m)) = Edited(d, After(d, t, q), m)
<1>1. Append(q, m) = q \o <<m>>
  BY DEF Queue
<1>2. Queue(<<m>>, n)
  BY QueueOne
<1>3. Queue(q \o <<m>>, n)
  BY <1>2, QueueJoin
<1>4. After(d, t, q) \in MaybeTexts
  BY AfterOf
<1>5. After(d, t, q \o <<m>>) = After(d, After(d, t, q), <<m>>)
  BY <1>2, AfterJoin
<1>6. After(d, After(d, t, q), <<m>>) = Edited(d, After(d, t, q), m)
  BY <1>4, AfterOne
<1> QED
  BY <1>1, <1>3, <1>5, <1>6

\* Messages that change no text may be left out.
LEMMA AfterPicked ==
    ASSUME NEW d \in Docs, NEW t \in MaybeTexts, NEW n, NEW q, Queue(q, n), NEW I,
           \A i \in 1..Len(q) : \A u \in MaybeTexts :
             i \notin I => Edited(d, u, q[i]) = u
    PROVE  After(d, t, Picked(q, I)) = After(d, t, q)
<1>1. CASE DOMAIN q \subseteq I
  BY <1>1 DEF Picked
<1>2. CASE ~(DOMAIN q \subseteq I)
  <2> DEFINE T == ToSet(q)
  <2>1. q \in Seq(T) /\ \A m \in T : Sent(m, n)
    BY DEF Queue
  <2> HIDE DEF T
  <2>2. PICK F \in [0..Len(q) -> Seq(T)] :
          /\ Rest(q, I) = F[Len(q)]
          /\ F[0] = <<>>
          /\ \A i \in 1..Len(q) :
               F[i] = IF i \in I THEN Append(F[i - 1], q[i]) ELSE F[i - 1]
    BY <2>1, PickedUnrolls
  <2>3. PICK G \in [0..Len(q) -> MaybeTexts] :
          /\ After(d, t, q) = G[Len(q)] /\ G[0] = t
          /\ \A i \in 1..Len(q) : G[i] = Edited(d, G[i - 1], q[i])
    BY AfterUnrolls
  <2>4. PICK N \in Nat : Len(q) = N
    BY <2>1
  <2>5. \A i \in 0..N : Queue(F[i], n)
    <3> SUFFICES ASSUME NEW i \in 0..N PROVE Queue(F[i], n)
      OBVIOUS
    <3>1. F[i] \in Seq(T)
      BY <2>2, <2>4
    <3>2. F[i] \in Seq(ToSet(F[i])) /\ ToSet(F[i]) \subseteq T
      BY <3>1, OverItself, ElementsOf
    <3> QED
      BY <2>1, <3>2 DEF Queue
  <2>6. \A i \in 1..N : i - 1 \in 0..N /\ i \in 0..N /\ q[i] \in T
    BY <2>1, <2>4
  <2> DEFINE H == [i \in 0..N |-> After(d, t, F[i])]
  <2>7. ASSUME NEW i \in 1..N, H[i - 1] = G[i - 1] PROVE H[i] = G[i]
    <3>1. After(d, t, F[i - 1]) = G[i - 1] /\ H[i] = After(d, t, F[i])
      BY <2>6, <2>7
    <3>2. G[i - 1] \in MaybeTexts /\ G[i] = Edited(d, G[i - 1], q[i])
      BY <2>3, <2>4, <2>6
    <3>3. CASE i \in I
      <4>1. F[i] = Append(F[i - 1], q[i])
        BY <2>2, <2>4, <3>3
      <4>2. Queue(F[i - 1], n) /\ Sent(q[i], n)
        BY <2>1, <2>5, <2>6
      <4>3. After(d, t, Append(F[i - 1], q[i])) = Edited(d, After(d, t, F[i - 1]), q[i])
        BY <4>2, AfterMore
      <4> QED
        BY <3>1, <3>2, <4>1, <4>3
    <3>4. CASE i \notin I
      <4>1. F[i] = F[i - 1]
        BY <2>2, <2>4, <3>4
      <4>2. Edited(d, G[i - 1], q[i]) = G[i - 1]
        BY <2>4, <3>2, <3>4
      <4> QED
        BY <3>1, <3>2, <4>1, <4>2
    <3> QED
      BY <3>3, <3>4
  <2>8. H[0] = G[0]
    <3>1. After(d, t, <<>>) = t
      <4>1. Len(<<>>) = 0 /\ \A i \in 1..0 : FALSE
        OBVIOUS
      <4> DEFINE C == [i \in 0..0 |-> t]
      <4>2. C[0] = t
        OBVIOUS
      <4> HIDE DEF C
      <4>3. \A i \in 1..Len(<<>>) : C[i] = Edited(d, C[i - 1], <<>>[i])
        BY <4>1
      <4>4. Queue(<<>>, n)
        BY QueueNone
      <4>5. After(d, t, <<>>) = C[Len(<<>>)]
        BY <4>2, <4>3, <4>4, AfterIs
      <4> QED
        BY <4>1, <4>2, <4>5
    <3>2. 0 \in 0..N
      BY <2>4
    <3> QED
      BY <2>2, <2>3, <3>1, <3>2
  <2>9. \A i \in 1..N : H[i - 1] = G[i - 1] => H[i] = G[i]
    BY <2>7
  <2>10. H[N] = After(d, t, F[N])
    BY <2>4
  <2> HIDE DEF H
  <2>11. H[N] = G[N]
    <3>1. N \in Nat
      BY <2>4
    <3> QED
      BY <2>8, <2>9, <3>1, UnrollsOnce
  <2>12. Picked(q, I) = Rest(q, I)
    BY <1>2, Zenon DEF Picked, Rest
  <2> QED
    BY <2>2, <2>3, <2>4, <2>10, <2>11, <2>12
<1> QED
  BY <1>1, <1>2

-----------------------------------------------------------------------------
(* The invariant through a step *)

LEMMA WritesSheet ==
    ASSUME Kinds, nextId \in Nat, NEW n, NEW frames, Batch(frames, n), Writes(frames)
    PROVE  sheet' \in Sheets
<1> DEFINE q == Messages(frames)
           k == nextId + Asked(frames, n)
<1>1. Queue(q, k)
  BY MessagesOf DEF Kinds
<1>2. sheet' = [d \in Docs |-> After(d, sheet[d], q)]
  BY DEF Writes
<1> HIDE DEF q, k
<1>3. \A d \in Docs : sheet[d] \in MaybeTexts
  BY DEF Kinds, Sheets
<1>4. \A d \in Docs : After(d, sheet[d], q) \in MaybeTexts
  BY <1>1, <1>3, AfterOf
<1> QED
  BY <1>2, <1>4 DEF Sheets

LEMMA SavesKeep ==
    ASSUME disk \in Sheets, moved \in [Docs -> Nat], NEW d \in Docs,
           NEW t \in MaybeTexts, Saves(d, t)
    PROVE  disk' \in Sheets /\ moved' \in [Docs -> Nat]
BY DEF Saves, Sheets

\* What a client does to the world is to write a file or to remove it.
LEMMA ClientWorld ==
    ASSUME ClientNext, Kinds, Pipes
    PROVE  UNCHANGED worldVars \/ \E d \in Docs : \E t \in MaybeTexts : Saves(d, t)
<1>1. CASE StepBegins
  <2> DEFINE s == Self.steps[at]
  <2>1. at \in DOMAIN Self.steps
        /\ IF s.saves = <<>> THEN worldSame ELSE Saves(s.saves[1], s.saves[2])
    BY <1>1 DEF StepBegins, Playing
  <2>2. s.saves # <<>> => s.saves[1] \in Docs /\ s.saves[2] \in MaybeTexts
    BY <2>1, ClientsAssumption DEF ClientsAssumption, Kinds, Self, MaybeTexts
  <2> HIDE DEF s
  <2> QED
    BY <2>1, <2>2 DEF worldSame
<1>2. CASE EditorSaves
  <2>1. PICK f \in Self.menu : f.op = "save" /\ Saves(f.doc, f.arg)
    BY <1>2 DEF EditorSaves
  <2>2. f.doc \in Docs /\ f.arg \in MaybeTexts
    BY <2>1, MenuFrames
  <2> QED
    BY <2>1, <2>2
<1>3. CASE StepReads \/ HangsUp \/ EditorWrites \/ EditorCancels \/ EditorReads \/ EditorLeaves
  BY <1>3 DEF StepReads, HangsUp, EditorWrites, EditorCancels, EditorReads,
              EditorLeaves, worldSame
<1> QED
  BY <1>1, <1>2, <1>3 DEF ClientNext

LEMMA ClientKinds ==
    ASSUME ClientNext, Kinds, Pipes
    PROVE  Kinds'
<1>1. sheet' \in Sheets
  <2>1. UNCHANGED sheet \/ \E n : \E frames : Batch(frames, n) /\ Writes(frames)
    BY ClientWrites DEF Pipes
  <2>2. CASE UNCHANGED sheet
    BY <2>2 DEF Kinds
  <2> QED
    BY <2>1, <2>2, WritesSheet DEF Pipes
<1>2. /\ who' = who /\ running' = running /\ root' = root /\ snippets' = snippets
      /\ failed' \in BOOLEAN /\ hungUp' \in BOOLEAN
  <2> USE DEF serverSame, sessionVars, editorSame, clientVars
  <2>1. CASE StepBegins
    BY <2>1 DEF StepBegins, Kinds
  <2>2. CASE StepReads
    <3>1. who' = who /\ running' = running /\ root' = root /\ snippets' = snippets /\ hungUp' = hungUp
      BY <2>2 DEF StepReads
    <3>2. failed' \in BOOLEAN
      <4>1. failed' = failed \/ \E m \in {Head(stdout)} : failed' = ~Meets(m, Self.steps[at].want)
        BY <2>2 DEF StepReads
      <4> QED
        BY <4>1 DEF Kinds
    <3> QED
      BY <3>1, <3>2 DEF Kinds
  <2>3. CASE HangsUp
    BY <2>3 DEF HangsUp, Kinds
  <2>4. CASE EditorWrites \/ EditorCancels \/ EditorSaves \/ EditorReads \/ EditorLeaves
    BY <2>4 DEF EditorWrites, EditorCancels, EditorSaves, EditorReads, EditorLeaves, Kinds
  <2> QED
    BY <2>1, <2>2, <2>3, <2>4 DEF ClientNext
<1>3. disk' \in Sheets /\ moved' \in [Docs -> Nat]
  <2>0. disk \in Sheets /\ moved \in [Docs -> Nat]
    BY DEF Kinds
  <2>1. CASE UNCHANGED worldVars
    BY <2>0, <2>1 DEF worldVars
  <2> QED
    BY <2>0, <2>1, ClientWorld, SavesKeep
<1> QED
  BY <1>1, <1>2, <1>3 DEF Kinds

LEMMA ServerKinds ==
    ASSUME ServerNext, UNCHANGED clientVars, Kinds, Pipes, Buffers
    PROVE  Kinds'
<1>1. /\ disk' = disk /\ moved' = moved /\ sheet' = sheet /\ failed' = failed
      /\ who' = who
  BY ServerPipes DEF clientVars, worldVars
<1>2. running' \in BOOLEAN /\ root' \in BOOLEAN /\ snippets' \in BOOLEAN /\ hungUp' \in BOOLEAN
  <2>0. running \in BOOLEAN /\ root \in BOOLEAN /\ snippets \in BOOLEAN /\ hungUp \in BOOLEAN
    BY DEF Kinds
  <2>1. CASE \E m \in {Head(Swept)} : Handles(m)
    <3>1. PICK m \in {Head(Swept)} : Handles(m)
      BY <2>1
    <3>2. hungUp' = hungUp /\ Sent(m, nextId)
      BY <3>1, HandlersTake, ShiftOf DEF Takings, Buffers
    <3>3. CASE Plain(m)
      BY <2>0, <3>2, <3>3 DEF Plain, Sent
    <3>4. CASE ExitNotice(m)
      BY <2>0, <3>2, <3>4 DEF ExitNotice
    <3>5. CASE ~(Plain(m) \/ ExitNotice(m))
      <4>1. UNCHANGED sessionVars
        BY <3>1, <3>5 DEF Handles, Raises, DidOpen, DidChange, DidSave, DidClose,
             AsksType, Completes, AsksText, FindsSymbol, WillRename, ActsOnCode,
             ColorsAll, ColorsDelta, PullBegins, WalkBegins, VerbBegins
      <4> QED
        BY <2>0, <3>2, <4>1 DEF sessionVars
    <3> QED
      BY <3>3, <3>4, <3>5
  <2>2. CASE ~\E m \in {Head(Swept)} : Handles(m)
    <3>1. CASE EndsAtEof
      BY <2>0, <3>1 DEF EndsAtEof, pipeVars
    <3>2. CASE Reads
      BY <2>0, <3>2 DEF Reads, sessionVars
    <3>3. CASE DropsCancels
      BY <2>0, <3>3 DEF DropsCancels, sessionVars, pipeVars
    <3>4. CASE RespondsCancelled
      BY <2>0, <3>4 DEF RespondsCancelled, sessionVars, pipeVars
    <3>5. CASE PullGoesOn
      BY <2>0, <3>5 DEF PullGoesOn, sessionVars, pipeVars
    <3>6. CASE PullAnswers
      BY <2>0, <3>6 DEF PullAnswers, sessionVars, pipeVars
    <3>7. CASE WalkGoesOn
      BY <2>0, <3>7 DEF WalkGoesOn, sessionVars, pipeVars
    <3>8. CASE WalkAnswers
      BY <2>0, <3>8 DEF WalkAnswers, sessionVars, pipeVars
    <3>9. CASE VerbAnswers
      BY <2>0, <3>9 DEF VerbAnswers, sessionVars, pipeVars
    <3> QED
      BY <2>2, <3>1, <3>2, <3>3, <3>4, <3>5, <3>6, <3>7, <3>8, <3>9 DEF ServerNext
  <2> QED
    BY <2>1, <2>2
<1> QED
  BY <1>1, <1>2 DEF Kinds

\* Jobs begin about known files.
LEMMA HandlersWork ==
    ASSUME NEW m, Handles(m), Kinds, Pipes, Buffers, nextId' = nextId
    PROVE  JobOK'
<1>1. Takings(m) /\ Sent(m, nextId)
  BY HandlersTake, ShiftOf DEF Buffers, Takings
<1>2. disk \in Sheets /\ documents \in Sheets
  BY DEF Kinds, Buffers
<1>3. CASE PullBegins(m)
  <2>1. /\ m.op \in {"pull", "workspace"}
        /\ \E asked \in {IF m.op = "pull" THEN {m.doc} ELSE Entries} :
             job' = [do |-> m.op, id |-> m.id, previous |-> m.arg,
                     ids |-> [d \in asked |-> ResultId(d)],
                     todo |-> asked, items |-> <<>>]
    BY <1>3 DEF PullBegins
  <2>2. m.op = "pull" => m.doc \in Docs
    BY <1>1 DEF Sent, OnDocs, ReadsText
  <2>3. (IF m.op = "pull" THEN {m.doc} ELSE Entries) \in SUBSET Docs
    BY <2>2 DEF Entries
  <2>4. PICK asked \in SUBSET Docs : \E ids, previous :
             job' = [do |-> m.op, id |-> m.id, previous |-> previous,
                     ids |-> ids, todo |-> asked, items |-> <<>>]
    BY <2>1, <2>3, Zenon
  <2> QED
    BY <1>1, <2>1, <2>4 DEF JobOK, Sent
<1>4. CASE WalkBegins(m)
  <2> DEFINE entries == IF m.op = "callers" THEN Entries \cup {m.doc} ELSE Entries
             texts == Reaching(m.doc, entries)
  <2>1. /\ m.op \in Walks
        /\ job' = [do |-> m.op, id |-> m.id, name |-> m.arg, from |-> m.doc,
                   sites |-> {}, texts |-> texts, todo |-> DOMAIN texts]
    BY <1>4 DEF WalkBegins
  <2>2. m.doc \in Docs
    BY <1>1, <2>1 DEF Sent, OnDocs, ReadsText, Walks
  <2>3. entries \subseteq Docs
    BY <2>2 DEF Entries
  <2> HIDE DEF entries
  <2>4. \A x \in Docs : TextOf(documents, x) \in MaybeTexts /\ Listed(x) \in MaybeTexts
    BY <1>2, TextOfOf DEF Listed, Sheets
  <2>5. /\ DOMAIN texts \subseteq Docs
        /\ \A x \in DOMAIN texts : texts[x] \in MaybeTexts
    BY <2>2, <2>3, <2>4 DEF Reaching
  <2> HIDE DEF texts
  <2>6. m.id \in 0..nextId
    BY <1>1 DEF Sent
  <2> QED
    BY <2>1, <2>2, <2>5, <2>6 DEF JobOK
<1>5. CASE VerbBegins(m)
  <2>1. m.doc \in Docs /\ m.id \in 0..nextId
    BY <1>1, <1>5 DEF VerbBegins, Sent, OnDocs
  <2>2. TextOf(documents, m.doc) \in MaybeTexts
    BY <1>2, <2>1, TextOfOf
  <2>3. job' = [do |-> "verb", id |-> m.id, doc |-> m.doc,
                text |-> TextOf(documents, m.doc), runs |-> m.arg = "run"]
    BY <1>5 DEF VerbBegins
  <2> QED
    BY <2>1, <2>2, <2>3 DEF JobOK
<1>6. CASE ~(PullBegins(m) \/ WalkBegins(m) \/ VerbBegins(m))
  <2>1. job = Idle
    BY <1>1 DEF Takings, AtLoop
  <2>2. job' = job
    BY <1>6 DEF Handles, Plain, ExitNotice, Raises, DidOpen, DidChange, DidSave, DidClose, AsksType,
             Completes, AsksText, FindsSymbol, WillRename, ActsOnCode, ColorsAll, ColorsDelta
  <2> QED
    BY <2>1, <2>2 DEF JobOK
<1> QED
  BY <1>3, <1>4, <1>5, <1>6

LEMMA PullKeeps ==
    ASSUME PullGoesOn, JobOK, nextId' = nextId
    PROVE  JobOK' /\ job' # Idle /\ job'.id = job.id
<1>1. job.do \in {"pull", "workspace"}
  BY DEF PullGoesOn
<1>2. /\ DOMAIN job = {"do", "id", "previous", "ids", "todo", "items"}
      /\ job.id \in 0..nextId /\ job.todo \in SUBSET Docs
  BY <1>1 DEF JobOK, Walks, Idle
<1>3. \E d, items : job' = [[job EXCEPT !.todo = @ \ {d}] EXCEPT !.items = items]
                    \/ job' = [job EXCEPT !.todo = @ \ {d}]
  BY DEF PullGoesOn, Judges, Checks
<1>4. /\ DOMAIN job' = DOMAIN job /\ job'.do = job.do /\ job'.id = job.id
      /\ job'.todo \subseteq job.todo
  BY <1>2, <1>3
<1>5. job' # Idle
  BY <1>1, <1>4 DEF Idle
<1> QED
  BY <1>1, <1>2, <1>4, <1>5 DEF JobOK

LEMMA WalkKeeps ==
    ASSUME WalkGoesOn, JobOK, nextId' = nextId
    PROVE  JobOK' /\ job' # Idle /\ job'.id = job.id
<1>1. job.do \in Walks
  BY DEF WalkGoesOn
<1>2. /\ DOMAIN job = {"do", "id", "name", "from", "sites", "texts", "todo"}
      /\ job.id \in 0..nextId /\ job.from \in Docs /\ DOMAIN job.texts \subseteq Docs
      /\ job.todo \subseteq DOMAIN job.texts
      /\ \A d \in DOMAIN job.texts : job.texts[d] \in MaybeTexts
  BY <1>1 DEF JobOK, Walks, Idle
<1>3. \E d, sites, lost :
        job' = [[job EXCEPT !.todo = IF lost THEN {} ELSE @ \ {d}] EXCEPT !.sites = sites]
  BY DEF WalkGoesOn, Checks
<1>4. /\ DOMAIN job' = DOMAIN job /\ job'.do = job.do /\ job'.id = job.id
      /\ job'.from = job.from /\ job'.texts = job.texts
      /\ job'.todo \subseteq job.todo
  BY <1>2, <1>3
<1>5. job' # Idle
  BY <1>1, <1>4 DEF Idle, Walks
<1> QED
  BY <1>1, <1>2, <1>4, <1>5 DEF JobOK

LEMMA ServerWorks ==
    ASSUME ServerNext, Kinds, Pipes, Buffers, JobOK, nextId' = nextId
    PROVE  JobOK'
<1>1. CASE \E m \in {Head(Swept)} : Handles(m)
  BY <1>1, HandlersWork
<1>2. CASE PullGoesOn
  BY <1>2, PullKeeps
<1>3. CASE WalkGoesOn
  BY <1>3, WalkKeeps
<1>4. CASE PullAnswers \/ WalkAnswers \/ VerbAnswers
  BY <1>4 DEF PullAnswers, WalkAnswers, VerbAnswers, JobOK
<1>5. CASE Reads \/ DropsCancels \/ RespondsCancelled \/ EndsAtEof
  <2>1. job' = job
    BY <1>5 DEF Reads, DropsCancels, RespondsCancelled, EndsAtEof
  <2> QED
    BY <2>1 DEF JobOK
<1> QED
  BY <1>1, <1>2, <1>3, <1>4, <1>5 DEF ServerNext

-----------------------------------------------------------------------------
(* Every step keeps the invariant *)

LEMMA InvInit ==
    ASSUME LspInit
    PROVE  ServerInv
<1> USE DEF LspInit, ClientInit, ServerInit
<1>1. Kinds
  <2>1. disk \in Sheets
    BY ClientsAssumption DEF ClientsAssumption, Self, Sheets, MaybeTexts
  <2>2. sheet \in Sheets /\ moved \in [Docs -> Nat]
    BY DEF Sheets, MaybeTexts
  <2> QED
    BY <2>1, <2>2 DEF Kinds
<1>2. Pipes
  <2>1. Queue(<<>>, 0)
    BY QueueNone
  <2>2. Cardinality({}) = 0
    BY FS_EmptySet
  <2>3. MaxCancelled \in Nat
    BY LspAssumption
  <2> QED
    BY <2>1, <2>2, <2>3 DEF Pipes
<1>3. Buffers
  BY DEF Buffers, Sheets, MaybeTexts, MemoOK, NoMemo
<1>4. Kept
  BY LspAssumption DEF Kept, ToSet
<1>5. JobOK /\ Current
  BY DEF JobOK, Current
<1> QED
  BY <1>1, <1>2, <1>3, <1>4, <1>5 DEF ServerInv

LEMMA ClientWorks ==
    ASSUME ClientNext, Kinds, Pipes, JobOK
    PROVE  JobOK'
<1>1. job' = job
  BY ClientWrites DEF Pipes
<1>2. nextId \in Nat /\ nextId' \in Nat /\ nextId <= nextId'
  <2>1. nextId \in Nat /\ sheet \in Sheets
    BY DEF Pipes, Kinds
  <2>2. UNCHANGED nextId \/ \E n : \E frames : Batch(frames, n) /\ Writes(frames)
    BY ClientWrites DEF Pipes
  <2>3. CASE UNCHANGED nextId
    BY <2>1, <2>3
  <2>4. ASSUME NEW n, NEW frames, Batch(frames, n), Writes(frames)
        PROVE  nextId' \in Nat /\ nextId <= nextId'
    <3>1. nextId' = nextId + Asked(frames, n)
      BY <2>4 DEF Writes, Batch
    <3>2. nextId + Asked(frames, n) \in Nat /\ nextId <= nextId + Asked(frames, n)
      BY <2>1, <2>4, MessagesOf
    <3> QED
      BY <3>1, <3>2
  <2> QED
    BY <2>1, <2>2, <2>3, <2>4
<1>3. \A i \in 0..nextId : i \in 0..nextId'
  BY <1>2
<1> QED
  BY <1>1, <1>3 DEF JobOK

LEMMA InvStep ==
    ASSUME ServerInv, [LspNext]_lspVars
    PROVE  ServerInv'
<1>0. Kinds /\ Pipes /\ Buffers /\ Kept /\ JobOK /\ Current /\ disk \in Sheets
  BY DEF ServerInv, Kinds
<1>1. CASE ServerNext /\ UNCHANGED clientVars
  <2>1. Pipes' /\ Kinds'
    BY <1>0, <1>1, ServerPipes, ServerKinds
  <2>2. Buffers' /\ Kept' /\ Current'
    BY <1>0, <1>1, ServerChecks, DocStepKeeps
  <2>3. JobOK'
    BY <1>0, <1>1, ServerWorks DEF clientVars
  <2> QED
    BY <2>1, <2>2, <2>3 DEF ServerInv
<1>2. CASE ClientNext
  <2>1. Pipes' /\ Kinds' /\ JobOK'
    BY <1>0, <1>2, ClientPipes, ClientKinds, ClientWorks
  <2>2. UNCHANGED docVars
    BY <1>0, <1>2, ClientWrites DEF Pipes
  <2>3. DocStep
    BY <2>2 DEF DocStep
  <2>4. Buffers' /\ Kept' /\ Current'
    BY <1>0, <2>3, DocStepKeeps
  <2> QED
    BY <2>1, <2>4 DEF ServerInv
<1>3. CASE UNCHANGED lspVars
  BY <1>0, <1>3 DEF ServerInv, Kinds, Pipes, Buffers, Kept, Current, JobOK, lspVars,
     worldVars, serverVars, clientVars, docVars, sessionVars
<1> QED
  BY <1>1, <1>2, <1>3 DEF LspNext, Ended

\* ServerInv holds of every session of every client.
THEOREM ServerHolds == LspSpec => []ServerInv
<1>1. LspInit => ServerInv
  BY InvInit
<1>2. ServerInv /\ [LspNext]_lspVars => ServerInv'
  BY InvStep
<1> QED
  BY <1>1, <1>2, PTL DEF LspSpec

\* Every variable keeps its type, the set of cancelled ids its bound, and the
\* analysis holds at most Keep typed programs, of open documents alone,
\* whatever is asked of it (analysis.cr:42).
THEOREM FootprintHolds == LspSpec => []FootprintBounded
<1>1. ServerInv => FootprintBounded
  <2> SUFFICES ASSUME ServerInv PROVE FootprintBounded
    OBVIOUS
  <2>0. Kinds /\ Pipes /\ Buffers /\ Kept
    BY DEF ServerInv
  <2>1. LspTypeOK
    <3>1. cancelled \subseteq 0..nextId
      BY <2>0 DEF Pipes
    <3> QED
      BY <2>0, <3>1 DEF LspTypeOK, Kinds, Pipes, Buffers, Sheets, MaybeTexts
  <2>2. \A i \in DOMAIN analysis.lastGood :
          analysis.lastGood[i].doc \in analysis.open /\ analysis.lastGood[i].holds
    BY <2>0 DEF Kept, ToSet
  <2> QED
    BY <2>0, <2>1, <2>2 DEF FootprintBounded, Kept, Buffers
<1> QED
  BY <1>1, ServerHolds, PTL

\* Between two messages every open document has a published verdict about the
\* very text its buffer has (server.cr publish_diagnostics and every handler
\* that changes a buffer).
THEOREM VerdictsCurrent == LspSpec => []PublishedIsCurrent
<1>1. ServerInv => PublishedIsCurrent
  BY DEF ServerInv, Current, PublishedIsCurrent
<1> QED
  BY <1>1, ServerHolds, PTL

-----------------------------------------------------------------------------
(* The documents the two ends have *)

\* What leaves every text alone can stand anywhere.
LEMMA AfterNone ==
    ASSUME NEW d \in Docs, NEW t \in MaybeTexts, NEW n, NEW q, Queue(q, n),
           \A i \in 1..Len(q) : \A u \in MaybeTexts : Edited(d, u, q[i]) = u
    PROVE  After(d, t, q) = t
<1> DEFINE G == [i \in 0..Len(q) |-> t]
<1>1. Len(q) \in Nat
  BY DEF Queue
<1>2. G[0] = t /\ G[Len(q)] = t
  BY <1>1
<1>3. \A i \in 1..Len(q) : G[i] = Edited(d, G[i - 1], q[i])
  BY <1>1
<1> HIDE DEF G
<1> QED
  BY <1>2, <1>3, AfterIs

LEMMA AfterHead ==
    ASSUME NEW d \in Docs, NEW t \in MaybeTexts, NEW n, NEW q, Queue(q, n), q # <<>>
    PROVE  /\ Sent(Head(q), n) /\ Queue(Tail(q), n)
           /\ Edited(d, t, Head(q)) \in MaybeTexts
           /\ After(d, t, q) = After(d, Edited(d, t, Head(q)), Tail(q))
<1>1. Sent(Head(q), n) /\ Queue(Tail(q), n)
  BY QueueHead
<1>2. q = <<Head(q)>> \o Tail(q)
  BY DEF Queue
<1>3. Queue(<<Head(q)>>, n) /\ After(d, t, <<Head(q)>>) = Edited(d, t, Head(q))
  BY <1>1, QueueOne, AfterOne
<1>4. After(d, t, <<Head(q)>> \o Tail(q)) = After(d, After(d, t, <<Head(q)>>), Tail(q))
  BY <1>1, <1>3, AfterJoin
<1>5. Edited(d, t, Head(q)) \in MaybeTexts
  BY <1>1, EditedOf
<1> QED
  BY <1>1, <1>2, <1>3, <1>4, <1>5

\* The sweep takes no edit out of the inbox.
LEMMA AfterSwept ==
    ASSUME NEW d \in Docs, NEW t \in MaybeTexts, NEW n, Queue(inbox, n)
    PROVE  Queue(Swept, n) /\ After(d, t, Swept) = After(d, t, inbox)
<1> DEFINE I == {i \in DOMAIN inbox : ~IsCancel(inbox[i])}
<1>1. \A i \in 1..Len(inbox) : \A u \in MaybeTexts :
        i \notin I => Edited(d, u, inbox[i]) = u
  <2>1. \A i \in 1..Len(inbox) : i \notin I => inbox[i].op = "$/cancelRequest"
    BY DEF Queue, IsCancel
  <2> QED
    BY <2>1 DEF Edited
<1> HIDE DEF I
<1>2. After(d, t, Picked(inbox, I)) = After(d, t, inbox)
  BY <1>1, AfterPicked
<1> QED
  BY <1>2, SweptOf DEF Swept, I

\* Nor does the reader drop one with the frames that are no JSON.
LEMMA AfterRead ==
    ASSUME NEW d \in Docs, NEW t \in MaybeTexts, NEW n, Queue(stdin, n)
    PROVE  LET q == Picked(stdin, {i \in DOMAIN stdin : stdin[i].op # "junk"})
           IN  Queue(q, n) /\ After(d, t, q) = After(d, t, stdin)
<1> DEFINE I == {i \in DOMAIN stdin : stdin[i].op # "junk"}
<1>1. \A i \in 1..Len(stdin) : \A u \in MaybeTexts :
        i \notin I => Edited(d, u, stdin[i]) = u
  <2>1. \A i \in 1..Len(stdin) : i \notin I => stdin[i].op = "junk"
    BY DEF Queue
  <2> QED
    BY <2>1 DEF Edited
<1> HIDE DEF I
<1>2. After(d, t, Picked(stdin, I)) = After(d, t, stdin)
  BY <1>1, AfterPicked
<1>3. Queue(Picked(stdin, I), n)
  BY QueuePicked
<1> QED
  BY <1>2, <1>3 DEF I

\* A handler that takes one message does to the documents what the message
\* does.
LEMMA HandlersEdit ==
    ASSUME NEW m, Handles(m), ~DidChange(m), Pipes, documents \in Sheets
    PROVE  /\ Shifts(m)
           /\ \A d \in Docs : documents'[d] = Edited(d, documents[d], m)
<1>1. CASE DidOpen(m)
  <2>1. Shifts(m) /\ m.op = "didOpen" /\ documents' = [documents EXCEPT ![m.doc] = m.arg]
    BY <1>1 DEF DidOpen, Publishes
  <2> QED
    BY <2>1 DEF Edited, Sheets
<1>2. CASE DidClose(m)
  <2>1. Shifts(m) /\ m.op = "didClose" /\ documents' = [documents EXCEPT ![m.doc] = None]
    BY <1>2 DEF DidClose
  <2> QED
    BY <2>1 DEF Edited, Sheets
<1>3. ASSUME Shifts(m), m.op \notin {"didOpen", "didClose", "didChange"},
             documents' = documents
      PROVE  /\ Shifts(m)
             /\ \A d \in Docs : documents'[d] = Edited(d, documents[d], m)
  BY <1>3 DEF Edited
<1>4. CASE Plain(m) \/ ExitNotice(m) \/ FindsSymbol(m) \/ WillRename(m)
  <2>1. Shifts(m) /\ m.op \notin {"didOpen", "didClose", "didChange"}
    BY <1>4 DEF Plain, ExitNotice, FindsSymbol, WillRename
  <2>2. documents' = documents
    BY <1>4 DEF Plain, ExitNotice, FindsSymbol, WillRename, docVars
  <2> QED
    BY <1>3, <2>1, <2>2
<1>5. CASE Raises(m) \/ DidSave(m) \/ AsksType(m) \/ Completes(m) \/ AsksText(m)
  <2>1. Shifts(m) /\ m.op \notin {"didOpen", "didClose", "didChange"}
    BY <1>5 DEF Raises, DidSave, AsksType, Completes, AsksText, ReadsText
  <2>2. documents' = documents
    BY <1>5 DEF Raises, DidSave, AsksType, Completes, AsksText, docVars, Publishes
  <2> QED
    BY <1>3, <2>1, <2>2
<1>6. CASE ActsOnCode(m) \/ ColorsAll(m) \/ ColorsDelta(m)
  <2>1. Shifts(m) /\ m.op \notin {"didOpen", "didClose", "didChange"}
    BY <1>6 DEF ActsOnCode, ColorsAll, ColorsDelta
  <2>2. documents' = documents
    BY <1>6 DEF ActsOnCode, ColorsAll, ColorsDelta, docVars
  <2> QED
    BY <1>3, <2>1, <2>2
<1>7. CASE PullBegins(m) \/ WalkBegins(m) \/ VerbBegins(m)
  <2>1. Shifts(m) /\ m.op \notin {"didOpen", "didClose", "didChange"}
    BY <1>7 DEF PullBegins, WalkBegins, VerbBegins, Walks
  <2>2. documents' = documents
    BY <1>7 DEF PullBegins, WalkBegins, VerbBegins, docVars
  <2> QED
    BY <1>3, <2>1, <2>2
<1> QED
  BY <1>1, <1>2, <1>4, <1>5, <1>6, <1>7 DEF Handles

\* One that takes a burst does to them what the burst does.
LEMMA BurstEdits ==
    ASSUME NEW m, DidChange(m), Pipes, documents \in Sheets
    PROVE  \E edits :
             /\ Queue(edits, nextId) /\ Queue(inbox', nextId)
             /\ Swept = edits \o inbox'
             /\ \A d \in Docs : documents'[d] = After(d, documents[d], edits)
<1>1. m.doc \in Docs /\ Swept # <<>>
  BY BurstTaken
<1>2. PICK b, edits, before : BurstAs(m, b, edits, before)
  BY BurstTaken
<1>3. /\ b \in Nat /\ before \in Texts
      /\ before = IF documents[m.doc] = None THEN Garbled ELSE documents[m.doc]
      /\ b + 1 \in 1..Len(Swept) /\ b + 2 \in 1..Len(Swept) + 1
      /\ inbox' = SubSeq(Swept, b + 2, Len(Swept))
      /\ edits = SubSeq(Swept, 1, b + 1) /\ Len(edits) = b + 1
      /\ documents' = [documents EXCEPT ![m.doc] = Applied(before, edits)]
  BY <1>2 DEF BurstAs, Publishes
<1>4. /\ \A i \in 1..(b + 1) : edits[i] \in ToSet(Swept)
      /\ \A i \in 1..(b + 1) : IsChangeOf(m.doc, edits[i])
      /\ \A i \in 1..(b + 1) : edits[i].arg.text \in Texts
  BY <1>2 DEF BurstAs
<1>5. Queue(Swept, nextId) /\ Swept \in Seq(ToSet(Swept))
  BY <1>1, ShiftOf DEF Queue
<1>6. Swept = edits \o inbox'
  <2>1. b + 1 \in 0..Len(Swept) /\ (b + 1) + 1 = b + 2
    BY <1>3
  <2>2. Swept = SubSeq(Swept, 1, b + 1) \o SubSeq(Swept, (b + 1) + 1, Len(Swept))
    BY <1>5, <2>1, Halves
  <2> QED
    BY <1>3, <2>1, <2>2
<1>7. Queue(inbox', nextId)
  <2>1. Queue(SubSeq(Swept, b + 2, Len(Swept)), nextId)
    BY <1>3, <1>5, QueueRest
  <2> QED
    BY <1>3, <2>1
<1>8. Queue(edits, nextId)
  <2>1. SubSeq(Swept, 1, b + 1) \in Seq(ToSet(Swept))
    BY <1>3, <1>5, PartOf
  <2>2. edits \in Seq(ToSet(Swept))
    BY <1>3, <2>1
  <2>3. edits \in Seq(ToSet(edits)) /\ ToSet(edits) \subseteq ToSet(Swept)
    BY <2>2, OverItself, ElementsOf
  <2> QED
    BY <1>5, <2>3, QueuePart
<1>9. \A d \in Docs \ {m.doc} : documents'[d] = After(d, documents[d], edits)
  <2> SUFFICES ASSUME NEW d \in Docs \ {m.doc}
               PROVE  documents'[d] = After(d, documents[d], edits)
    OBVIOUS
  <2>1. documents'[d] = documents[d] /\ documents[d] \in MaybeTexts
    BY <1>3 DEF Sheets
  <2>2. \A i \in 1..Len(edits) : edits[i].doc # d
    BY <1>3, <1>4 DEF IsChangeOf
  <2>3. \A i \in 1..Len(edits) : \A u \in MaybeTexts : Edited(d, u, edits[i]) = u
    BY <2>2 DEF Edited
  <2>4. After(d, documents[d], edits) = documents[d]
    BY <1>8, <2>1, <2>3, AfterNone
  <2> QED
    BY <2>1, <2>4
<1>10. documents'[m.doc] = After(m.doc, documents[m.doc], edits)
  <2>0. Len(edits) \in Nat /\ Len(edits) # 0 /\ before \in Texts
    BY <1>3
  <2>1. \A i \in 1..Len(edits) : edits[i].arg.text \in Texts
    BY <1>3, <1>4
  <2>2. PICK F \in [0..Len(edits) -> Texts] :
          /\ Applied(before, edits) = F[Len(edits)] /\ F[0] = before
          /\ \A i \in 1..Len(edits) : F[i] = Apply(F[i - 1], edits[i].arg)
    BY <2>0, <2>1, AppliedUnrolls
  <2> DEFINE t == documents[m.doc]
             G == [i \in 0..Len(edits) |-> IF i = 0 THEN t ELSE F[i]]
  <2>3. G[0] = t /\ G[Len(edits)] = F[Len(edits)]
    BY <2>0
  <2>4. \A i \in 1..Len(edits) : G[i] = F[i] /\ (i # 1 => G[i - 1] = F[i - 1])
    BY <2>0
  <2> HIDE DEF G
  <2>5. \A i \in 1..Len(edits) : edits[i].op = "didChange" /\ edits[i].doc = m.doc
    BY <1>3, <1>4 DEF IsChangeOf
  <2>6. ASSUME NEW i \in 1..Len(edits)
        PROVE  G[i] = Edited(m.doc, G[i - 1], edits[i])
    <3>1. Edited(m.doc, G[i - 1], edits[i])
            = Apply(IF G[i - 1] = None THEN Garbled ELSE G[i - 1], edits[i].arg)
      BY <2>5 DEF Edited
    <3>2. CASE i = 1
      <4>1. G[i - 1] = t /\ F[i - 1] = before
        BY <2>2, <2>3, <3>2
      <4>2. before = IF G[i - 1] = None THEN Garbled ELSE G[i - 1]
        BY <1>3, <4>1
      <4> QED
        BY <2>2, <2>4, <3>1, <4>1, <4>2
    <3>3. CASE i # 1
      <4>1. i - 1 \in 0..Len(edits)
        BY <2>0
      <4>2. G[i - 1] = F[i - 1] /\ F[i - 1] \in Texts
        BY <2>2, <2>4, <3>3, <4>1
      <4>3. G[i - 1] # None
        BY <4>2, LspAssumption
      <4> QED
        BY <2>2, <2>4, <3>1, <4>2, <4>3
    <3> QED
      BY <3>2, <3>3
  <2>7. t \in MaybeTexts
    BY <1>1 DEF Sheets
  <2> HIDE DEF t
  <2>8. After(m.doc, t, edits) = G[Len(edits)]
    BY <1>1, <1>8, <2>3, <2>6, <2>7, AfterIs
  <2>9. documents'[m.doc] = Applied(before, edits)
    BY <1>1, <1>3 DEF Sheets
  <2> QED
    BY <2>2, <2>3, <2>8, <2>9 DEF t
<1>11. \A d \in Docs : documents'[d] = After(d, documents[d], edits)
  BY <1>9, <1>10
<1> QED
  BY <1>6, <1>7, <1>8, <1>11

\* So every handler takes from the queue what it does to the documents.
LEMMA HandlersAgree ==
    ASSUME NEW m, Handles(m), Pipes, documents \in Sheets, NEW d \in Docs
    PROVE  /\ documents'[d] \in MaybeTexts /\ Queue(inbox', nextId)
           /\ After(d, documents'[d], inbox') = After(d, documents[d], inbox)
<1>0. documents[d] \in MaybeTexts /\ Queue(inbox, nextId)
  BY DEF Sheets, Pipes
<1>1. Queue(Swept, nextId) /\ After(d, documents[d], Swept) = After(d, documents[d], inbox)
  BY <1>0, AfterSwept
<1>2. CASE DidChange(m)
  <2>1. PICK edits : /\ Queue(edits, nextId) /\ Queue(inbox', nextId)
                     /\ Swept = edits \o inbox'
                     /\ documents'[d] = After(d, documents[d], edits)
    BY <1>2, BurstEdits
  <2>2. After(d, documents[d], edits \o inbox')
          = After(d, After(d, documents[d], edits), inbox')
    BY <1>0, <2>1, AfterJoin
  <2>3. documents'[d] \in MaybeTexts
    BY <1>0, <2>1, AfterOf
  <2> QED
    BY <1>1, <2>1, <2>2, <2>3
<1>3. CASE ~DidChange(m)
  <2>1. Shifts(m) /\ documents'[d] = Edited(d, documents[d], m)
    BY <1>3, HandlersEdit
  <2>2. Swept # <<>> /\ m = Head(Swept) /\ inbox' = Tail(Swept)
    BY <2>1 DEF Shifts
  <2>3. /\ Queue(Tail(Swept), nextId)
        /\ Edited(d, documents[d], Head(Swept)) \in MaybeTexts
        /\ After(d, documents[d], Swept)
             = After(d, Edited(d, documents[d], Head(Swept)), Tail(Swept))
    BY <1>0, <1>1, <2>2, AfterHead
  <2> QED
    BY <1>1, <2>1, <2>2, <2>3
<1> QED
  BY <1>2, <1>3

\* What the inbox does, and then the pipe.
Through(d, t, front, back) == After(d, After(d, t, front), back)

LEMMA ThroughBoth ==
    ASSUME NEW d \in Docs, NEW t \in MaybeTexts, NEW n, NEW p, Queue(p, n),
           NEW q, Queue(q, n)
    PROVE  After(d, t, p \o q) = Through(d, t, p, q) /\ After(d, t, p) \in MaybeTexts
BY AfterJoin, AfterOf DEF Through

LEMMA ServerAgrees ==
    ASSUME ServerNext, Pipes, documents \in Sheets, NEW d \in Docs
    PROVE  /\ running
           /\ Through(d, documents'[d], inbox', stdin')
                = Through(d, documents[d], inbox, stdin)
<1>0. documents[d] \in MaybeTexts /\ nextId \in Nat
      /\ Queue(inbox, nextId) /\ Queue(stdin, nextId)
  BY DEF Sheets, Pipes
<1>1. CASE Swept # <<>> /\ \E m \in {Head(Swept)} : Handles(m)
  <2>1. PICK m \in {Head(Swept)} : Handles(m)
    BY <1>1
  <2>2. running /\ stdin' = stdin
    BY <2>1, HandlersTake DEF Takings, AtLoop
  <2>3. After(d, documents'[d], inbox') = After(d, documents[d], inbox)
    BY <2>1, HandlersAgree
  <2> QED
    BY <2>2, <2>3 DEF Through
<1>2. CASE Reads
  <2> DEFINE q == Picked(stdin, {i \in DOMAIN stdin : stdin[i].op # "junk"})
             u == After(d, documents[d], inbox)
  <2>1. running /\ documents' = documents /\ inbox' = inbox \o q /\ stdin' = <<>>
    BY <1>2 DEF Reads, docVars
  <2>2. u \in MaybeTexts
    BY <1>0, AfterOf
  <2> HIDE DEF u
  <2>3. Queue(q, nextId) /\ After(d, u, q) = After(d, u, stdin)
    BY <1>0, <2>2, AfterRead
  <2> HIDE DEF q
  <2>4. After(d, documents[d], inbox \o q) = After(d, u, q)
    BY <1>0, <2>3, AfterJoin DEF u
  <2>5. After(d, u, stdin) \in MaybeTexts
    BY <1>0, <2>2, AfterOf
  <2>6. After(d, After(d, u, stdin), <<>>) = After(d, u, stdin)
    <3>1. Queue(<<>>, nextId) /\ Len(<<>>) = 0 /\ \A i \in 1..0 : FALSE
      BY QueueNone
    <3> QED
      BY <2>5, <3>1, AfterNone
  <2> QED
    BY <2>1, <2>3, <2>4, <2>6 DEF Through, u
<1>3. CASE DropsCancels
  <2>1. running /\ documents' = documents /\ inbox' = <<>> /\ stdin' = stdin /\ Swept = <<>>
    BY <1>3 DEF DropsCancels, docVars, pipeVars, AtLoop
  <2>2. After(d, documents[d], Swept) = After(d, documents[d], inbox)
    BY <1>0, AfterSwept
  <2> QED
    BY <2>1, <2>2 DEF Through
<1>4. CASE RespondsCancelled
  <2> DEFINE m == Head(Swept)
  <2>1. /\ running /\ documents' = documents /\ inbox' = Tail(Swept) /\ stdin' = stdin
        /\ Swept # <<>> /\ m.id \in Named
    BY <1>4 DEF RespondsCancelled, docVars, pipeVars, AtLoop
  <2>2. Queue(Swept, nextId) /\ After(d, documents[d], Swept) = After(d, documents[d], inbox)
    BY <1>0, AfterSwept
  <2>3. /\ Sent(m, nextId)
        /\ After(d, documents[d], Swept)
             = After(d, Edited(d, documents[d], m), Tail(Swept))
    BY <1>0, <2>1, <2>2, AfterHead
  <2>4. m.id # 0
    BY <1>0, <2>1, NamedOf DEF Pipes
  <2> HIDE DEF m
  <2>5. m.op \notin {"didOpen", "didClose", "didChange"}
    BY <2>3, <2>4 DEF Sent, Notices
  <2>6. Edited(d, documents[d], m) = documents[d]
    BY <2>5 DEF Edited
  <2> QED
    BY <2>1, <2>2, <2>3, <2>6 DEF Through
<1>5. CASE EndsAtEof \/ PullGoesOn \/ WalkGoesOn \/ PullAnswers \/ WalkAnswers \/ VerbAnswers
  <2>1. running /\ documents' = documents /\ inbox' = inbox /\ stdin' = stdin
    BY <1>5 DEF EndsAtEof, PullGoesOn, WalkGoesOn, PullAnswers, WalkAnswers,
                VerbAnswers, pipeVars, docVars, AtLoop
  <2> QED
    BY <2>1
<1> QED
  BY <1>1, <1>2, <1>3, <1>4, <1>5 DEF ServerNext

LEMMA WritesAgree ==
    ASSUME Kinds, Pipes, Buffers, NEW n, NEW frames, Batch(frames, n), Writes(frames),
           UNCHANGED <<inbox, documents>>, NEW d \in Docs,
           Through(d, documents[d], inbox, stdin) = sheet[d]
    PROVE  Through(d, documents'[d], inbox', stdin') = sheet'[d]
<1> DEFINE q == Messages(frames)
           k == nextId + Asked(frames, n)
           u == After(d, documents[d], inbox)
<1>1. Queue(q, k) /\ k \in Nat /\ nextId <= k
  BY MessagesOf DEF Pipes, Kinds
<1>2. stdin' = stdin \o q /\ sheet'[d] = After(d, sheet[d], q)
  BY DEF Writes
<1> HIDE DEF q, k
<1>3. Queue(stdin, k) /\ Queue(inbox, k)
  BY <1>1, QueueGrows DEF Pipes
<1>4. documents[d] \in MaybeTexts
  BY DEF Buffers, Sheets
<1>5. u \in MaybeTexts
  BY <1>3, <1>4, AfterOf
<1>6. After(d, u, stdin) = sheet[d]
  BY DEF Through
<1> HIDE DEF u
<1>7. After(d, u, stdin \o q) = After(d, After(d, u, stdin), q)
  BY <1>1, <1>3, <1>5, AfterJoin
<1> QED
  BY <1>2, <1>6, <1>7 DEF Through, u

Agreed == running => \A d \in Docs : Through(d, documents[d], inbox, stdin) = sheet[d]

LEMMA AgreedInit ==
    ASSUME LspInit
    PROVE  Agreed
<1> USE DEF LspInit, ClientInit, ServerInit
<1>1. Queue(<<>>, 0) /\ Len(<<>>) = 0 /\ \A i \in 1..0 : FALSE
  BY QueueNone
<1>2. None \in MaybeTexts
  BY DEF MaybeTexts
<1>3. \A d \in Docs : After(d, None, <<>>) = None
  BY <1>1, <1>2, AfterNone
<1> QED
  BY <1>3 DEF Agreed, Through

LEMMA AgreedStep ==
    ASSUME ServerInv, Agreed, [LspNext]_lspVars
    PROVE  Agreed'
<1>0. Kinds /\ Pipes /\ Buffers /\ documents \in Sheets
  BY DEF ServerInv, Buffers
<1>1. CASE ServerNext /\ UNCHANGED clientVars
  <2>1. \A d \in Docs : running /\ Through(d, documents'[d], inbox', stdin')
                                     = Through(d, documents[d], inbox, stdin)
    BY <1>0, <1>1, ServerAgrees
  <2>2. sheet' = sheet
    BY <1>1 DEF clientVars
  <2> QED
    BY <2>1, <2>2 DEF Agreed
<1>2. CASE ClientNext
  <2>1. /\ UNCHANGED <<inbox, documents, running>>
        /\ \/ UNCHANGED <<stdin, sheet>>
           \/ \E n : \E frames : Batch(frames, n) /\ Writes(frames)
    BY <1>0, <1>2, ClientWrites DEF Pipes, docVars
  <2>2. CASE UNCHANGED <<stdin, sheet>>
    BY <2>1, <2>2 DEF Agreed
  <2>3. ASSUME NEW n, NEW frames, Batch(frames, n), Writes(frames) PROVE Agreed'
    <3> SUFFICES ASSUME running, NEW d \in Docs
                 PROVE  Through(d, documents'[d], inbox', stdin') = sheet'[d]
      BY <2>1 DEF Agreed
    <3>1. Through(d, documents[d], inbox, stdin) = sheet[d]
      BY DEF Agreed
    <3> QED
      BY <1>0, <2>1, <2>3, <3>1, WritesAgree
  <2> QED
    BY <2>1, <2>2, <2>3
<1>3. CASE UNCHANGED lspVars
  BY <1>3 DEF Agreed, lspVars, serverVars, clientVars, docVars, sessionVars
<1> QED
  BY <1>1, <1>2, <1>3 DEF LspNext, Ended

\* Whatever is in the pipe and in the inbox, whichever cancels overtake it and
\* however bursts are taken together, the documents the server will have are
\* those the client has.
THEOREM DocumentsAgree == LspSpec => []BuffersAgree
<1>1. LspInit => Agreed
  BY AgreedInit
<1>2. ServerInv /\ Agreed /\ [LspNext]_lspVars => Agreed'
  BY AgreedStep
<1>3. ServerInv /\ Agreed => BuffersAgree
  <2> SUFFICES ASSUME ServerInv, Agreed, running, NEW d \in Docs
               PROVE  After(d, documents[d], inbox \o stdin) = sheet[d]
    BY DEF BuffersAgree
  <2>1. documents[d] \in MaybeTexts /\ Queue(inbox, nextId) /\ Queue(stdin, nextId)
    BY DEF ServerInv, Buffers, Pipes, Sheets
  <2>2. After(d, documents[d], inbox \o stdin) = Through(d, documents[d], inbox, stdin)
    BY <2>1, ThroughBoth
  <2> QED
    BY <2>2 DEF Agreed
<1> QED
  BY <1>1, <1>2, <1>3, ServerHolds, PTL DEF LspSpec

-----------------------------------------------------------------------------
(* The ids in a queue, and the ids its cancels name *)

LEMMA IdsAre ==
    ASSUME NEW q
    PROVE  /\ Ids(q) = {m.id : m \in ToSet(q)} \ {0}
           /\ CancelsIn(q) = {m.arg : m \in {x \in ToSet(q) : IsCancel(x)}}
BY DEF Ids, CancelsIn, ToSet

\* No two of q are the same request.
Unique(q) ==
    \A i, j \in DOMAIN q : q[i].id = q[j].id /\ q[i].id # 0 => i = j

LEMMA UniqueNone == Unique(<<>>) /\ Ids(<<>>) = {} /\ CancelsIn(<<>>) = {}
BY DEF Unique, Ids, CancelsIn

LEMMA UniqueRest ==
    ASSUME NEW q, q \in Seq(ToSet(q)), Unique(q), NEW k \in 1..Len(q) + 1
    PROVE  LET r == SubSeq(q, k, Len(q))
           IN  /\ Unique(r) /\ Ids(r) \subseteq Ids(q)
               /\ CancelsIn(r) \subseteq CancelsIn(q)
               /\ k > 1 /\ q # <<>> /\ Head(q).id # 0 => Head(q).id \notin Ids(r)
<1> DEFINE r == SubSeq(q, k, Len(q))
<1>1. k \in Nat /\ k >= 1 /\ Len(q) \in Nat /\ DOMAIN q = 1..Len(q)
  OBVIOUS
<1>2. /\ r \in Seq(ToSet(r)) /\ ToSet(r) \subseteq ToSet(q)
      /\ DOMAIN r = 1..(Len(q) - k + 1)
      /\ \A i \in DOMAIN r : r[i] = q[k + i - 1] /\ k + i - 1 \in DOMAIN q
  <2>1. r \in Seq(ToSet(r)) /\ ToSet(r) \subseteq ToSet(q)
    BY EndOf
  <2>2. DOMAIN r = 1..(Len(q) - k + 1) /\ \A i \in 1..(Len(q) - k + 1) : r[i] = q[k + i - 1]
    BY <1>1
  <2> HIDE DEF r
  <2>3. \A i \in 1..(Len(q) - k + 1) : k + i - 1 \in 1..Len(q)
    BY <1>1
  <2> QED
    BY <1>1, <2>1, <2>2, <2>3
<1> HIDE DEF r
<1>3. Unique(r)
  <2> SUFFICES ASSUME NEW i \in DOMAIN r, NEW j \in DOMAIN r, r[i].id = r[j].id, r[i].id # 0
               PROVE  i = j
    BY DEF Unique
  <2>1. k + i - 1 = k + j - 1
    BY <1>2 DEF Unique
  <2> QED
    BY <1>1, <1>2, <2>1
<1>4. Ids(r) \subseteq Ids(q) /\ CancelsIn(r) \subseteq CancelsIn(q)
  BY <1>2, IdsAre
<1>5. ASSUME k > 1, q # <<>>, Head(q).id # 0, Head(q).id \in Ids(r) PROVE FALSE
  <2>1. PICK i \in DOMAIN r : r[i].id = Head(q).id
    BY <1>5 DEF Ids
  <2>2. Head(q) = q[1] /\ 1 \in DOMAIN q
    BY <1>5
  <2>3. k + i - 1 = 1
    BY <1>2, <1>5, <2>1, <2>2 DEF Unique
  <2> QED
    BY <1>1, <1>2, <1>5, <2>3
<1> QED
  BY <1>3, <1>4, <1>5 DEF r

LEMMA UniquePicked ==
    ASSUME NEW q, q \in Seq(ToSet(q)), Unique(q), NEW I
    PROVE  LET p == Picked(q, I)
           IN  /\ Unique(p) /\ Ids(p) \subseteq Ids(q)
               /\ CancelsIn(p) \subseteq CancelsIn(q)
               /\ (\A i \in DOMAIN q : IsCancel(q[i]) => i \in I)
                    => CancelsIn(q) \subseteq CancelsIn(p)
               /\ (\A i \in DOMAIN q : q[i].id # 0 => i \in I)
                    => Ids(q) \subseteq Ids(p)
<1> DEFINE p == Picked(q, I)
<1>1. PICK g : DrawnFrom(p, q, I, g)
  BY PickedPlaces
<1>2. p \in Seq(ToSet(q)) /\ ToSet(p) = {q[i] : i \in I \cap DOMAIN q}
  BY PickedPlaces, PickedOf
<1> HIDE DEF p
<1>3. /\ \A i \in DOMAIN p : g[i] \in DOMAIN q /\ p[i] = q[g[i]]
      /\ \A i, j \in DOMAIN p : i < j => g[i] < g[j]
  BY <1>1 DEF DrawnFrom
<1>4. DOMAIN p \subseteq Nat /\ DOMAIN q \subseteq Nat
  BY <1>2
<1>5. Unique(p)
  <2> SUFFICES ASSUME NEW i \in DOMAIN p, NEW j \in DOMAIN p, p[i].id = p[j].id, p[i].id # 0
               PROVE  i = j
    BY DEF Unique
  <2>1. g[i] = g[j]
    BY <1>3 DEF Unique
  <2>2. i \in Nat /\ j \in Nat /\ g[i] \in Nat
    BY <1>3, <1>4
  <2> QED
    BY <1>3, <2>1, <2>2
<1>6. Ids(p) = {q[i].id : i \in I \cap DOMAIN q} \ {0}
  BY <1>2, IdsAre
<1>7. CancelsIn(p) = {q[i].arg : i \in {j \in I \cap DOMAIN q : IsCancel(q[j])}}
  BY <1>2, IdsAre
<1> QED
  BY <1>5, <1>6, <1>7 DEF Ids, CancelsIn, p

LEMMA UniqueJoined ==
    ASSUME NEW p, p \in Seq(ToSet(p)), NEW q, q \in Seq(ToSet(q)), Unique(p), Unique(q),
           Ids(p) \cap Ids(q) = {}
    PROVE  Unique(p \o q)
<1> DEFINE S == ToSet(p) \cup ToSet(q)
<1>1. p \in Seq(S) /\ q \in Seq(S)
  BY OverMore
<1>2. /\ Len(p \o q) = Len(p) + Len(q) /\ DOMAIN (p \o q) = 1..(Len(p) + Len(q))
      /\ \A i \in 1..Len(p) : (p \o q)[i] = p[i]
      /\ \A i \in 1..Len(q) : (p \o q)[Len(p) + i] = q[i]
  <2>1. /\ p \o q \in Seq(S) /\ Len(p \o q) = Len(p) + Len(q)
        /\ \A i \in 1..Len(p) : (p \o q)[i] = p[i]
        /\ \A i \in 1..Len(q) : (p \o q)[Len(p) + i] = q[i]
    BY <1>1, Joined
  <2>2. DOMAIN (p \o q) = 1..Len(p \o q)
    BY <2>1
  <2> QED
    BY <2>1, <2>2
<1>3. Len(p) \in Nat /\ Len(q) \in Nat /\ DOMAIN p = 1..Len(p) /\ DOMAIN q = 1..Len(q)
  OBVIOUS
<1> DEFINE r == p \o q
<1>4. /\ DOMAIN r = 1..(Len(p) + Len(q))
      /\ \A i \in 1..Len(p) : r[i] = p[i]
      /\ \A i \in 1..Len(q) : r[Len(p) + i] = q[i]
  BY <1>2
<1> HIDE DEF r, S
<1> SUFFICES ASSUME NEW i \in DOMAIN r, NEW j \in DOMAIN r, r[i].id = r[j].id, r[i].id # 0
             PROVE  i = j
  BY DEF Unique, r
<1>5. \A l \in DOMAIN r : \/ l \in DOMAIN p /\ r[l] = p[l]
                          \/ (\E m \in DOMAIN q : l = Len(p) + m /\ r[l] = q[m])
  <2> SUFFICES ASSUME NEW l \in DOMAIN r, l \notin DOMAIN p
               PROVE  \E m \in DOMAIN q : l = Len(p) + m /\ r[l] = q[m]
    BY <1>3, <1>4
  <2>1. l - Len(p) \in 1..Len(q) /\ l = Len(p) + (l - Len(p))
    BY <1>3, <1>4
  <2> QED
    BY <1>3, <1>4, <2>1
<1>6. \A l \in DOMAIN p : p[l].id # 0 => p[l].id \in Ids(p)
  BY DEF Ids
<1>7. \A l \in DOMAIN q : q[l].id # 0 => q[l].id \in Ids(q)
  BY DEF Ids
<1>8. CASE i \in DOMAIN p /\ r[i] = p[i] /\ j \in DOMAIN p /\ r[j] = p[j]
  BY <1>8 DEF Unique
<1>9. CASE i \in DOMAIN p /\ r[i] = p[i] /\ (\E m \in DOMAIN q : r[j] = q[m])
  BY <1>6, <1>7, <1>9
<1>10. CASE j \in DOMAIN p /\ r[j] = p[j] /\ (\E m \in DOMAIN q : r[i] = q[m])
  BY <1>6, <1>7, <1>10
<1>11. CASE /\ \E m \in DOMAIN q : i = Len(p) + m /\ r[i] = q[m]
            /\ \E m \in DOMAIN q : j = Len(p) + m /\ r[j] = q[m]
  BY <1>11 DEF Unique
<1> QED
  BY <1>5, <1>8, <1>9, <1>10, <1>11

LEMMA IdsJoined ==
    ASSUME NEW p, p \in Seq(ToSet(p)), NEW q, q \in Seq(ToSet(q))
    PROVE  /\ Ids(p \o q) = Ids(p) \cup Ids(q)
           /\ CancelsIn(p \o q) = CancelsIn(p) \cup CancelsIn(q)
<1> DEFINE S == ToSet(p) \cup ToSet(q)
<1>1. p \in Seq(S) /\ q \in Seq(S)
  BY OverMore
<1> HIDE DEF S
<1>2. ToSet(p \o q) = ToSet(p) \cup ToSet(q)
  BY <1>1, ElementsOfConcat
<1> QED
  BY <1>2, IdsAre

LEMMA UniqueMore ==
    ASSUME NEW q, q \in Seq(ToSet(q)), Unique(q), NEW m, m.id = 0 \/ m.id \notin Ids(q)
    PROVE  /\ Append(q, m) \in Seq(ToSet(Append(q, m))) /\ Unique(Append(q, m))
           /\ Ids(Append(q, m)) = Ids(q) \cup ({m.id} \ {0})
<1> DEFINE r == Append(q, m)
<1>1. r \in Seq(ToSet(r))
  BY OneMore
<1>2. /\ Len(q) \in Nat /\ DOMAIN q = 1..Len(q) /\ DOMAIN r = 1..(Len(q) + 1)
      /\ r[Len(q) + 1] = m /\ \A i \in 1..Len(q) : r[i] = q[i]
  OBVIOUS
<1> HIDE DEF r
<1>3. \A i \in DOMAIN r : i = Len(q) + 1 \/ i \in DOMAIN q
  BY <1>2
<1>4. \A i \in DOMAIN q : q[i].id # 0 => q[i].id \in Ids(q)
  BY DEF Ids
<1>5. Unique(r)
  BY <1>2, <1>3, <1>4 DEF Unique
<1>6. Ids(r) = Ids(q) \cup ({m.id} \ {0})
  <2>1. \A x : x \in Ids(r) => x \in Ids(q) \cup ({m.id} \ {0})
    BY <1>2, <1>3 DEF Ids
  <2>2. Len(q) + 1 \in DOMAIN r /\ \A i \in DOMAIN q : i \in DOMAIN r
    BY <1>2
  <2>3. \A x : x \in Ids(q) \cup ({m.id} \ {0}) => x \in Ids(r)
    BY <1>2, <2>2 DEF Ids
  <2> QED
    BY <2>1, <2>3
<1> QED
  BY <1>1, <1>5, <1>6 DEF r

\* A client gives every request it writes a new id.
LEMMA MessagesUnique ==
    ASSUME NEW n, NEW frames, Batch(frames, n), nextId \in Nat, sheet \in Sheets
    PROVE  LET q == Messages(frames)
           IN  Unique(q) /\ Ids(q) \subseteq (nextId + 1)..(nextId + Asked(frames, n))
<1> DEFINE q == Messages(frames)
<1>1. DOMAIN q = 1..n /\ n \in Nat
  BY MessagesOf DEF Batch
<1>2. \A i \in 1..n : q[i].id = IF frames[i].asks THEN nextId + Asked(frames, i) ELSE 0
  BY DEF Messages, Batch
<1>3. \A i \in 0..n : Asked(frames, i) \in Nat
  BY <1>1, AskedOf
<1>4. ASSUME NEW i \in 1..n, NEW j \in 1..n, i < j, frames[j].asks
      PROVE  Asked(frames, i) < Asked(frames, j)
  <2>1. i \in 0..n /\ j \in (i + 1)..n
    BY <1>1, <1>4
  <2> QED
    BY <1>1, <1>4, <2>1, AskedOf
<1>5. ASSUME NEW i \in 1..n, frames[i].asks
      PROVE  1 <= Asked(frames, i) /\ Asked(frames, i) <= Asked(frames, n)
  <2>1. n \in 0..n
    BY <1>1
  <2> QED
    BY <1>1, <1>5, <2>1, AskedOf
<1>6. \A i \in 1..n : q[i].id # 0 => frames[i].asks /\ q[i].id = nextId + Asked(frames, i)
  BY <1>2
<1>7. \A i \in 1..n : i \in 0..n
  BY <1>1
<1>8. n \in 0..n
  BY <1>1
<1> HIDE DEF q
<1>9. Unique(q)
  <2> SUFFICES ASSUME NEW i \in 1..n, NEW j \in 1..n, q[i].id = q[j].id, q[i].id # 0
               PROVE  i = j
    BY <1>1 DEF Unique
  <2>1. Asked(frames, i) = Asked(frames, j) /\ frames[i].asks /\ frames[j].asks
    BY <1>3, <1>6, <1>7
  <2>2. ~(i < j) /\ ~(j < i)
    BY <1>3, <1>4, <1>7, <2>1
  <2> QED
    BY <1>1, <2>2
<1>10. Ids(q) \subseteq (nextId + 1)..(nextId + Asked(frames, n))
  <2> SUFFICES ASSUME NEW i \in 1..n, q[i].id # 0
               PROVE  q[i].id \in (nextId + 1)..(nextId + Asked(frames, n))
    BY <1>1 DEF Ids
  <2> QED
    BY <1>3, <1>5, <1>6, <1>7, <1>8
<1> QED
  BY <1>9, <1>10 DEF q

-----------------------------------------------------------------------------
(* Answers *)

SaysId(x) == \E a : a.id = x /\ Say(a)

LEMMA SayIs ==
    ASSUME NEW a, Say(a)
    PROVE  SaysId(a.id)
BY Zenon DEF SaysId

\* What every handler says: nothing, a publish, or the answer to the request it
\* took; or it leaves the answer to a job.
LEMMA HandlersSay ==
    ASSUME NEW m, Handles(m), Pipes, documents \in Sheets
    PROVE  /\ m.id = 0 \/ m.id \notin Named
           /\ \/ job' = Idle /\ (UNCHANGED askVars \/ SaysId(0) \/ SaysId(m.id))
              \/ job'.id = m.id /\ UNCHANGED askVars
<1>0. job = Idle /\ Takings(m) /\ Sent(m, nextId)
  <2>1. Takings(m)
    BY HandlersTake
  <2> QED
    BY <2>1, ShiftOf DEF Takings, AtLoop
<1>1. ASSUME Shifts(m) PROVE m.id \notin Named
  BY <1>1 DEF Shifts
<1>2. CASE Plain(m)
  <2>1. Shifts(m) /\ job' = job /\ (UNCHANGED askVars \/ Say([id |-> m.id, op |-> "plain"]))
    BY <1>2 DEF Plain, Silent
  <2>2. Say([id |-> m.id, op |-> "plain"]) => SaysId(m.id)
    BY SayIs
  <2> QED
    BY <1>0, <1>1, <2>1, <2>2
<1>3. CASE ExitNotice(m)
  BY <1>0, <1>1, <1>3 DEF ExitNotice
<1>4. CASE Raises(m)
  <2> DEFINE a == [id |-> m.id, op |-> "error", code |-> -32603]
  <2>1. Shifts(m) /\ job' = job /\ (UNCHANGED askVars \/ Say(a))
    BY <1>4 DEF Raises, Silent
  <2>2. Say(a) => SaysId(m.id)
    BY SayIs
  <2> QED
    BY <1>0, <1>1, <2>1, <2>2
<1>5. ASSUME NEW docs, NEW opened, NEW d, Publishes(docs, opened, d) PROVE SaysId(0)
  BY <1>5, SayIs DEF Publishes, Checks
<1>6. CASE DidOpen(m) \/ DidSave(m)
  <2>1. Shifts(m) /\ job' = job /\ \E docs, opened, d : Publishes(docs, opened, d)
    BY <1>6, Zenon DEF DidOpen, DidSave
  <2> QED
    BY <1>0, <1>1, <1>5, <2>1
<1>7. CASE DidChange(m)
  <2>1. m.op = "didChange" /\ job' = job /\ \E docs, opened, d : Publishes(docs, opened, d)
    BY <1>7, Zenon DEF DidChange
  <2>2. m.id = 0
    BY <1>0, <2>1 DEF Sent, Notices
  <2> QED
    BY <1>0, <1>5, <2>1, <2>2
<1>8. CASE DidClose(m)
  BY <1>0, <1>1, <1>8 DEF DidClose
<1>9. CASE AsksType(m)
  <2>1. Shifts(m) /\ job' = job
    BY <1>9 DEF AsksType
  <2>2. SaysId(m.id)
    BY <1>9, SayIs DEF AsksType, Checks
  <2> QED
    BY <1>0, <1>1, <2>1, <2>2
<1>10. CASE Completes(m)
  <2>1. Shifts(m) /\ job' = job
    BY <1>10 DEF Completes
  <2>2. SaysId(m.id)
    BY <1>10, SayIs DEF Completes, Checks
  <2> QED
    BY <1>0, <1>1, <2>1, <2>2
<1>11. CASE AsksText(m) \/ FindsSymbol(m) \/ WillRename(m) \/ ActsOnCode(m)
  <2>1. Shifts(m) /\ job' = job
    BY <1>11 DEF AsksText, FindsSymbol, WillRename, ActsOnCode
  <2>2. SaysId(m.id)
    BY <1>11, SayIs DEF AsksText, FindsSymbol, WillRename, ActsOnCode
  <2> QED
    BY <1>0, <1>1, <2>1, <2>2
<1>12. CASE ColorsAll(m) \/ ColorsDelta(m)
  <2>1. Shifts(m) /\ job' = job
    BY <1>12 DEF ColorsAll, ColorsDelta
  <2>2. SaysId(m.id)
    BY <1>12, SayIs DEF ColorsAll, ColorsDelta
  <2> QED
    BY <1>0, <1>1, <2>1, <2>2
<1>13. CASE PullBegins(m)
  <2>1. Shifts(m) /\ UNCHANGED askVars /\ job'.id = m.id
    BY <1>13 DEF PullBegins
  <2> QED
    BY <1>1, <2>1
<1>14. CASE WalkBegins(m)
  <2>1. Shifts(m) /\ UNCHANGED askVars /\ job'.id = m.id
    BY <1>14 DEF WalkBegins
  <2> QED
    BY <1>1, <2>1
<1>15. CASE VerbBegins(m)
  <2>1. Shifts(m) /\ UNCHANGED askVars /\ job'.id = m.id
    BY <1>15 DEF VerbBegins
  <2> QED
    BY <1>1, <2>1
<1> QED
  BY <1>2, <1>3, <1>4, <1>6, <1>7, <1>8, <1>9, <1>10, <1>11, <1>12, <1>13, <1>14,
     <1>15 DEF Handles

-----------------------------------------------------------------------------
(* Requests, from their writing to their answers *)

\* Every request is in one place: in the pipe, in the inbox, with the job, or
\* answered.
Apart ==
    /\ Unique(inbox) /\ Unique(stdin) /\ Ids(inbox) \cap Ids(stdin) = {}
    /\ Ids(inbox) \cup Ids(stdin) \subseteq pending
    /\ job # Idle /\ job.id # 0 =>
         job.id \in pending /\ job.id \notin Ids(inbox) \cup Ids(stdin)
    /\ stdout \in Seq(ToSet(stdout)) /\ Unique(stdout)
    /\ Ids(stdout) \subseteq 1..nextId /\ Ids(stdout) \cap pending = {}

\* Every cancel of which the server may still have to do with.
Cancels == cancelled \cup CancelsIn(inbox) \cup CancelsIn(stdin)

\* The cancel of a request that was not read yet is where the request is, or
\* ahead of it, and no job answers such a request.
Overtaken ==
    /\ timely \cap Ids(inbox) \subseteq cancelled \cup CancelsIn(inbox)
    /\ timely \cap Ids(stdin) \subseteq CancelsIn(stdin)
Timely ==
    /\ timely \subseteq 1..nextId
    /\ cancels \in Nat /\ Cardinality(Cancels) <= cancels
    /\ cancels <= MaxCancelled =>
         Overtaken /\ (job # Idle => job.id \notin timely)

\* A step of the server takes the request x, or none, from the queues.
QueueStep(x) ==
    /\ x = 0 \/ x \in Ids(inbox)
    /\ Unique(inbox') /\ Unique(stdin') /\ Ids(inbox') \cap Ids(stdin') = {}
    /\ Ids(inbox') \cup Ids(stdin') \subseteq (Ids(inbox) \cup Ids(stdin)) \ {x}
    /\ Cancels' \subseteq Cancels
    /\ Cardinality(cancelled \cup CancelsIn(inbox)) <= MaxCancelled /\ Overtaken
         /\ timely' = timely => Overtaken'

LEMMA ZeroIsNone ==
    ASSUME NEW q
    PROVE  0 \notin Ids(q)
BY DEF Ids

LEMMA StillQueue ==
    ASSUME Apart, UNCHANGED <<inbox, stdin, cancelled>>
    PROVE  QueueStep(0)
BY ZeroIsNone DEF Apart, QueueStep, Cancels, Overtaken

LEMMA ReadsQueue ==
    ASSUME Apart, Pipes, Reads
    PROVE  QueueStep(0)
<1> DEFINE I == {i \in DOMAIN stdin : stdin[i].op # "junk"}
           p == Picked(stdin, I)
<1>1. inbox' = inbox \o p /\ stdin' = <<>> /\ cancelled' = cancelled
  BY DEF Reads
<1>2. /\ inbox \in Seq(ToSet(inbox)) /\ stdin \in Seq(ToSet(stdin))
      /\ Unique(inbox) /\ Unique(stdin) /\ Ids(inbox) \cap Ids(stdin) = {}
  BY DEF Apart, Pipes, Queue
<1>3. \A i \in DOMAIN stdin : IsCancel(stdin[i]) => i \in I
  BY DEF IsCancel
<1> HIDE DEF I
<1>4. /\ Unique(p) /\ Ids(p) \subseteq Ids(stdin) /\ CancelsIn(p) \subseteq CancelsIn(stdin)
      /\ CancelsIn(stdin) \subseteq CancelsIn(p)
  BY <1>2, <1>3, UniquePicked
<1>5. p \in Seq(ToSet(p))
  BY <1>2, PickedOf
<1> HIDE DEF p
<1>6. Ids(inbox) \cap Ids(p) = {}
  BY <1>2, <1>4
<1>7. Unique(inbox \o p)
  BY <1>2, <1>4, <1>5, <1>6, UniqueJoined
<1>8. /\ Ids(inbox') = Ids(inbox) \cup Ids(p)
      /\ CancelsIn(inbox') = CancelsIn(inbox) \cup CancelsIn(stdin)
  BY <1>1, <1>2, <1>4, <1>5, IdsJoined
<1>9. Unique(stdin') /\ Ids(stdin') = {} /\ CancelsIn(stdin') = {}
  BY <1>1, UniqueNone
<1>10. 0 \notin Ids(inbox) /\ 0 \notin Ids(stdin)
  BY ZeroIsNone
<1>11. Cancels' \subseteq Cancels
  BY <1>1, <1>8, <1>9 DEF Cancels
<1>12. ASSUME Overtaken, timely' = timely PROVE Overtaken'
  BY <1>1, <1>4, <1>8, <1>9, <1>12 DEF Overtaken
<1> QED
  BY <1>1, <1>4, <1>7, <1>8, <1>9, <1>10, <1>11, <1>12 DEF QueueStep

\* What the sweep leaves of the inbox.
LEMMA SweptUnique ==
    ASSUME Apart, Pipes
    PROVE  /\ Swept \in Seq(ToSet(Swept)) /\ Unique(Swept) /\ Ids(Swept) = Ids(inbox)
           /\ CancelsIn(Swept) = {}
<1> DEFINE I == {i \in DOMAIN inbox : ~IsCancel(inbox[i])}
<1>1. inbox \in Seq(ToSet(inbox)) /\ Unique(inbox) /\ Queue(inbox, nextId)
  BY DEF Apart, Pipes, Queue
<1>2. \A i \in DOMAIN inbox : inbox[i].id # 0 => i \in I
  <2>1. \A i \in DOMAIN inbox : Sent(inbox[i], nextId)
    BY <1>1 DEF Queue, ToSet
  <2> QED
    BY <2>1 DEF Sent, Notices, IsCancel
<1> HIDE DEF I
<1>3. Unique(Picked(inbox, I)) /\ Ids(Picked(inbox, I)) = Ids(inbox)
  <2>1. Ids(Picked(inbox, I)) \subseteq Ids(inbox) /\ Ids(inbox) \subseteq Ids(Picked(inbox, I))
        /\ Unique(Picked(inbox, I))
    BY <1>1, <1>2, UniquePicked
  <2> QED
    BY <2>1
<1>4. Queue(Swept, nextId) /\ \A m \in ToSet(Swept) : ~IsCancel(m)
  BY <1>1, SweptOf
<1>5. CancelsIn(Swept) = {}
  BY <1>4, IdsAre
<1> QED
  BY <1>3, <1>4, <1>5 DEF Queue, Swept, I

LEMMA HeadTaken ==
    ASSUME Apart, Pipes, Swept # <<>>
    PROVE  Head(Swept).id = 0 \/ Head(Swept).id \in Ids(inbox)
<1>1. Swept \in Seq(ToSet(Swept)) /\ Ids(Swept) = Ids(inbox)
  BY SweptUnique
<1>2. Head(Swept) \in ToSet(Swept)
  BY <1>1, OneLess
<1> QED
  BY <1>1, <1>2, IdsAre

\* A shift takes the head of what was swept, at least.
LEMMA ShiftQueue ==
    ASSUME Apart, Pipes, Swept # <<>>, stdin' = stdin, NEW k \in 2..Len(Swept) + 1,
           inbox' = SubSeq(Swept, k, Len(Swept)),
           cancelled' \in {Named, Named \ {Head(Swept).id}}
    PROVE  QueueStep(Head(Swept).id)
<1> DEFINE x == Head(Swept).id
           r == SubSeq(Swept, k, Len(Swept))
<1>1. /\ Swept \in Seq(ToSet(Swept)) /\ Unique(Swept) /\ Ids(Swept) = Ids(inbox)
      /\ CancelsIn(Swept) = {}
  BY SweptUnique
<1>2. k \in 1..Len(Swept) + 1 /\ k > 1
  BY <1>1
<1>3. /\ Unique(r) /\ Ids(r) \subseteq Ids(Swept) /\ CancelsIn(r) \subseteq CancelsIn(Swept)
      /\ (x # 0 => x \notin Ids(r))
  BY <1>1, <1>2, UniqueRest
<1> HIDE DEF r
<1>4. x = 0 \/ x \in Ids(inbox)
  BY HeadTaken
<1>5. 0 \notin Ids(r) /\ 0 \notin Ids(stdin)
  BY ZeroIsNone
<1>6. /\ Unique(stdin) /\ Ids(inbox) \cap Ids(stdin) = {}
  BY DEF Apart
<1>7. inbox' = r
  BY DEF r
<1>8. Ids(inbox') = Ids(r) /\ CancelsIn(inbox') = {} /\ CancelsIn(stdin') = CancelsIn(stdin)
      /\ Ids(stdin') = Ids(stdin)
  BY <1>1, <1>3, <1>7
<1> HIDE DEF x
<1>9. cancelled' \subseteq Named /\ Named \subseteq cancelled \cup CancelsIn(inbox)
      /\ Named \ {x} \subseteq cancelled'
  BY DEF Named, x
<1>10. Cancels' \subseteq Cancels
  BY <1>8, <1>9 DEF Cancels
<1>11. ASSUME Cardinality(cancelled \cup CancelsIn(inbox)) <= MaxCancelled, Overtaken,
              timely' = timely
       PROVE  Overtaken'
  <2>1. Named = cancelled \cup CancelsIn(inbox)
    <3>1. Cardinality(cancelled \cup CancelsIn(inbox)) \in Nat
      <4>1. cancelled \cup CancelsIn(inbox) \subseteq 1..nextId
        BY CancelsOf DEF Pipes
      <4>2. IsFiniteSet(1..nextId)
        BY FS_Interval DEF Pipes
      <4> QED
        BY <4>1, <4>2, FS_Subset, FS_CardinalityType
    <3>2. ~(Cardinality(cancelled \cup CancelsIn(inbox)) > MaxCancelled)
      BY <1>11, <3>1, LspAssumption
    <3> QED
      BY <3>2 DEF Named
  <2>2. timely \cap Ids(r) \subseteq Named \ {x}
    BY <1>1, <1>3, <1>5, <1>11, <2>1 DEF Overtaken
  <2> QED
    BY <1>8, <1>9, <1>11, <2>2 DEF Overtaken
<1>12. Ids(inbox') \cup Ids(stdin') \subseteq (Ids(inbox) \cup Ids(stdin)) \ {x}
  BY <1>1, <1>3, <1>4, <1>5, <1>6, <1>8
<1>13. Unique(inbox') /\ Unique(stdin') /\ Ids(inbox') \cap Ids(stdin') = {}
  BY <1>1, <1>3, <1>6, <1>7, <1>8
<1>14. QueueStep(x)
  BY <1>4, <1>10, <1>11, <1>12, <1>13 DEF QueueStep
<1> QED
  BY <1>14 DEF x

LEMMA DropsQueue ==
    ASSUME Apart, Pipes, DropsCancels
    PROVE  QueueStep(0)
<1>1. inbox' = <<>> /\ stdin' = stdin /\ cancelled' = Named /\ Swept = <<>>
  BY DEF DropsCancels, pipeVars
<1>2. Ids(inbox) = {}
  BY <1>1, SweptUnique, UniqueNone
<1>3. Unique(inbox') /\ Ids(inbox') = {} /\ CancelsIn(inbox') = {}
  BY <1>1, UniqueNone
<1>4. Unique(stdin') /\ Ids(stdin') = Ids(stdin) /\ CancelsIn(stdin') = CancelsIn(stdin)
  BY <1>1 DEF Apart
<1>5. 0 \notin Ids(stdin)
  BY ZeroIsNone
<1>6. Named \subseteq cancelled \cup CancelsIn(inbox)
  BY DEF Named
<1> QED
  BY <1>1, <1>2, <1>3, <1>4, <1>5, <1>6 DEF QueueStep, Cancels, Overtaken

\* What a step of the server does to requests: it takes x from the queues and
\* answers y, 0 for none, and the others stay where they are.
CancelSaid == Said /\ News.op = "error" /\ News.code = -32800
AskStep(x, y) ==
    /\ QueueStep(x)
    /\ \/ y = 0 /\ UNCHANGED askVars
       \/ SaysId(y)
    /\ y # 0 => /\ y \in pending /\ y \notin Ids(inbox') \cup Ids(stdin')
                /\ \/ job # Idle /\ y = job.id
                   \/ y \in Ids(inbox) /\ y \notin Named
                   \/ CancelSaid
    /\ job' # Idle => \/ job # Idle /\ x = 0 /\ y = 0 /\ job'.id = job.id
                      \/ y = 0 /\ job'.id = x /\ (x = 0 \/ x \notin Named)

LEMMA SaidIs ==
    ASSUME stdout \in Seq(ToSet(stdout)), NEW a, stdout' = Append(stdout, a)
    PROVE  Said /\ News = a
BY DEF Said, News, Last

LEMMA HandlersAsk ==
    ASSUME NEW m, Handles(m), Pipes, documents \in Sheets, Apart
    PROVE  \E x, y : AskStep(x, y)
<1>1. Takings(m)
  BY HandlersTake
<1>2. PICK k \in 2..Len(Swept) + 1 : inbox' = SubSeq(Swept, k, Len(Swept))
  BY <1>1 DEF Takings
<1>3. /\ Swept # <<>> /\ m = Head(Swept) /\ cancelled' = Named /\ stdin' = stdin
      /\ job = Idle
  BY <1>1 DEF Takings, AtLoop
<1>4. QueueStep(Head(Swept).id)
  BY <1>2, <1>3, ShiftQueue
<1>5. QueueStep(m.id)
  BY <1>3, <1>4
<1>6. /\ m.id = 0 \/ m.id \notin Named
      /\ \/ job' = Idle /\ (UNCHANGED askVars \/ SaysId(0) \/ SaysId(m.id))
         \/ job'.id = m.id /\ UNCHANGED askVars
  BY HandlersSay
<1>7. m.id = 0 \/ (m.id \in Ids(inbox) /\ m.id \in pending
                     /\ m.id \notin Ids(inbox') \cup Ids(stdin'))
  BY <1>5 DEF QueueStep, Apart
<1>8. CASE job' = Idle /\ (UNCHANGED askVars \/ SaysId(0))
  <2>1. AskStep(m.id, 0)
    BY <1>5, <1>8 DEF AskStep
  <2> QED
    BY <2>1
<1>9. CASE job' = Idle /\ SaysId(m.id)
  <2>1. AskStep(m.id, m.id)
    BY <1>5, <1>6, <1>7, <1>9 DEF AskStep
  <2> QED
    BY <2>1
<1>10. CASE job'.id = m.id /\ UNCHANGED askVars
  <2>1. AskStep(m.id, 0)
    BY <1>5, <1>6, <1>10 DEF AskStep
  <2> QED
    BY <2>1
<1> QED
  BY <1>6, <1>8, <1>9, <1>10

LEMMA ServerAsks ==
    ASSUME ServerNext, Pipes, documents \in Sheets, Apart, JobOK, nextId' = nextId
    PROVE  \E x, y : AskStep(x, y)
<1>1. CASE Swept # <<>> /\ \E m \in {Head(Swept)} : Handles(m)
  BY <1>1, HandlersAsk
<1>2. CASE Reads
  <2>1. AskStep(0, 0)
    BY <1>2, ReadsQueue DEF AskStep, Reads, askVars
  <2> QED
    BY <2>1
<1>3. CASE DropsCancels
  <2>1. AskStep(0, 0)
    BY <1>3, DropsQueue DEF AskStep, DropsCancels
  <2> QED
    BY <2>1
<1>4. CASE RespondsCancelled
  <2> DEFINE x == Head(Swept).id
             a == [id |-> x, op |-> "error", code |-> -32800]
  <2>1. /\ Swept # <<>> /\ x \in Named /\ inbox' = Tail(Swept) /\ stdin' = stdin
        /\ cancelled' = Named \ {x} /\ Say(a) /\ job' = Idle
    BY <1>4 DEF RespondsCancelled, AtLoop, pipeVars
  <2>2. Swept \in Seq(ToSet(Swept))
    BY SweptUnique
  <2>3. 2 \in 2..Len(Swept) + 1 /\ inbox' = SubSeq(Swept, 2, Len(Swept))
    BY <2>1, <2>2
  <2>4. QueueStep(x)
    BY <2>1, <2>3, ShiftQueue
  <2>5. CancelSaid
    <3>1. stdout' = Append(stdout, a) /\ stdout \in Seq(ToSet(stdout))
      BY <2>1 DEF Say, Apart
    <3>2. Said /\ News = a
      BY <3>1, SaidIs
    <3> QED
      BY <3>2 DEF CancelSaid
  <2>6. SaysId(x)
    BY <2>1, SayIs
  <2> HIDE DEF x, a
  <2>7. x = 0 \/ (x \in pending /\ x \notin Ids(inbox') \cup Ids(stdin'))
    BY <2>4 DEF QueueStep, Apart
  <2>8. AskStep(x, x)
    BY <2>1, <2>4, <2>5, <2>6, <2>7 DEF AskStep
  <2> QED
    BY <2>8
<1>5. CASE EndsAtEof
  <2>1. QueueStep(0) /\ UNCHANGED askVars /\ job' = Idle
    BY <1>5, StillQueue DEF EndsAtEof, pipeVars, AtLoop
  <2>2. AskStep(0, 0)
    BY <2>1 DEF AskStep
  <2> QED
    BY <2>2
<1>6. CASE PullGoesOn \/ WalkGoesOn
  <2>1. QueueStep(0) /\ UNCHANGED askVars
    BY <1>6, StillQueue DEF PullGoesOn, WalkGoesOn, pipeVars
  <2>2. job # Idle
    BY <1>6 DEF PullGoesOn, WalkGoesOn, Idle, Walks
  <2>3. job'.id = job.id
    BY <1>6, PullKeeps, WalkKeeps
  <2>4. AskStep(0, 0)
    BY <2>1, <2>2, <2>3 DEF AskStep
  <2> QED
    BY <2>4
<1>7. CASE PullAnswers \/ WalkAnswers \/ VerbAnswers
  <2>1. QueueStep(0) /\ job' = Idle
    BY <1>7, StillQueue DEF PullAnswers, WalkAnswers, VerbAnswers, pipeVars
  <2>2. job # Idle
    BY <1>7 DEF PullAnswers, WalkAnswers, VerbAnswers, Idle, Walks
  <2>3. SaysId(job.id)
    BY <1>7, SayIs DEF PullAnswers, WalkAnswers, VerbAnswers
  <2>4. job.id = 0 \/ (job.id \in pending /\ job.id \notin Ids(inbox') \cup Ids(stdin'))
    BY <2>1, <2>2 DEF Apart, QueueStep
  <2>5. AskStep(0, job.id)
    BY <2>1, <2>2, <2>3, <2>4 DEF AskStep
  <2> QED
    BY <2>5
<1> QED
  BY <1>1, <1>2, <1>3, <1>4, <1>5, <1>6, <1>7 DEF ServerNext

LEMMA SaysKeeps ==
    ASSUME Apart, pending \subseteq 1..nextId, nextId' = nextId, NEW y, SaysId(y),
           y = 0 \/ y \in pending
    PROVE  /\ stdout' \in Seq(ToSet(stdout')) /\ Unique(stdout')
           /\ Ids(stdout') \subseteq 1..nextId' /\ Ids(stdout') \cap pending' = {}
           /\ pending' = pending \ {y}
           /\ Said /\ News.id = y
<1>1. PICK a : a.id = y /\ Say(a)
  BY DEF SaysId
<1>2. stdout' = Append(stdout, a) /\ pending' = pending \ {y}
  BY <1>1 DEF Say
<1>3. stdout \in Seq(ToSet(stdout)) /\ Unique(stdout) /\ Ids(stdout) \subseteq 1..nextId
      /\ Ids(stdout) \cap pending = {}
  BY DEF Apart
<1>4. a.id = 0 \/ a.id \notin Ids(stdout)
  BY <1>1, <1>3
<1>5. /\ stdout' \in Seq(ToSet(stdout')) /\ Unique(stdout')
      /\ Ids(stdout') = Ids(stdout) \cup ({y} \ {0})
  BY <1>1, <1>2, <1>3, <1>4, UniqueMore
<1>6. Said /\ News = a
  BY <1>2, <1>3, SaidIs
<1> QED
  BY <1>1, <1>2, <1>3, <1>5, <1>6

LEMMA AskKeepsApart ==
    ASSUME Apart, pending \subseteq 1..nextId, nextId' = nextId,
           NEW x, NEW y, AskStep(x, y)
    PROVE  Apart'
<1>1. pending' = pending \ {y}
      /\ stdout' \in Seq(ToSet(stdout')) /\ Unique(stdout')
      /\ Ids(stdout') \subseteq 1..nextId' /\ Ids(stdout') \cap pending' = {}
  <2>1. CASE SaysId(y)
    BY <2>1, SaysKeeps DEF AskStep
  <2>2. CASE y = 0 /\ UNCHANGED askVars
    BY <2>2 DEF askVars, Apart
  <2> QED
    BY <2>1, <2>2 DEF AskStep
<1>2. /\ Unique(inbox') /\ Unique(stdin') /\ Ids(inbox') \cap Ids(stdin') = {}
      /\ Ids(inbox') \cup Ids(stdin') \subseteq (Ids(inbox) \cup Ids(stdin)) \ {x}
  BY DEF AskStep, QueueStep
<1>3. Ids(inbox') \cup Ids(stdin') \subseteq pending'
  <2>1. y \notin Ids(inbox') \cup Ids(stdin')
    BY ZeroIsNone DEF AskStep
  <2> QED
    BY <1>1, <1>2, <2>1 DEF Apart
<1>4. ASSUME job' # Idle, job'.id # 0
      PROVE  job'.id \in pending' /\ job'.id \notin Ids(inbox') \cup Ids(stdin')
  <2>1. CASE job # Idle /\ x = 0 /\ y = 0 /\ job'.id = job.id
    BY <1>1, <1>2, <1>4, <2>1 DEF Apart
  <2>2. CASE y = 0 /\ job'.id = x
    <3>1. x \in Ids(inbox)
      BY <1>4, <2>2 DEF AskStep, QueueStep
    <3> QED
      BY <1>1, <1>2, <1>4, <2>2, <3>1 DEF Apart
  <2> QED
    BY <1>4, <2>1, <2>2 DEF AskStep
<1> QED
  BY <1>1, <1>2, <1>3, <1>4 DEF Apart

\* As long as there were not too many cancels, none of them is forgotten.
LEMMA NoneForgotten ==
    ASSUME Pipes, Timely, cancels <= MaxCancelled
    PROVE  /\ Cardinality(cancelled \cup CancelsIn(inbox)) <= MaxCancelled
           /\ Named = cancelled \cup CancelsIn(inbox)
<1>1. IsFiniteSet(Cancels) /\ cancelled \cup CancelsIn(inbox) \subseteq Cancels
  <2>1. Cancels \subseteq 1..nextId
    BY CancelsOf DEF Pipes, Cancels
  <2>2. IsFiniteSet(1..nextId)
    BY FS_Interval DEF Pipes
  <2> QED
    BY <2>1, <2>2, FS_Subset DEF Cancels
<1>2. /\ Cardinality(cancelled \cup CancelsIn(inbox)) \in Nat /\ Cardinality(Cancels) \in Nat
      /\ Cardinality(cancelled \cup CancelsIn(inbox)) <= Cardinality(Cancels)
  BY <1>1, FS_Subset, FS_CardinalityType
<1>3. cancels \in Nat /\ Cardinality(Cancels) <= cancels /\ MaxCancelled \in Nat
  BY LspAssumption DEF Timely
<1>4. Cardinality(cancelled \cup CancelsIn(inbox)) <= MaxCancelled
  BY <1>2, <1>3
<1>5. ~(Cardinality(cancelled \cup CancelsIn(inbox)) > MaxCancelled)
  BY <1>2, <1>3, <1>4
<1> QED
  BY <1>4, <1>5 DEF Named

LEMMA AskKeepsTimely ==
    ASSUME Pipes, Apart, Timely, UNCHANGED <<nextId, timely, cancels>>,
           NEW x, NEW y, AskStep(x, y)
    PROVE  Timely'
<1>1. Cancels' \subseteq Cancels
  BY DEF AskStep, QueueStep
<1>2. Cardinality(Cancels') <= cancels
  <2>1. IsFiniteSet(Cancels)
    <3>1. Cancels \subseteq 1..nextId
      BY CancelsOf DEF Pipes, Cancels
    <3>2. IsFiniteSet(1..nextId)
      BY FS_Interval DEF Pipes
    <3> QED
      BY <3>1, <3>2, FS_Subset
  <2>2. IsFiniteSet(Cancels') /\ Cardinality(Cancels') <= Cardinality(Cancels)
    BY <1>1, <2>1, FS_Subset
  <2>3. Cardinality(Cancels') \in Nat /\ Cardinality(Cancels) \in Nat
    BY <2>1, <2>2, FS_CardinalityType
  <2> QED
    BY <2>2, <2>3 DEF Timely
<1>3. ASSUME cancels <= MaxCancelled
      PROVE  Overtaken' /\ (job' # Idle => job'.id \notin timely)
  <2>1. /\ Cardinality(cancelled \cup CancelsIn(inbox)) <= MaxCancelled
        /\ Named = cancelled \cup CancelsIn(inbox)
    BY <1>3, NoneForgotten
  <2>2. Overtaken /\ (job # Idle => job.id \notin timely)
    BY <1>3 DEF Timely
  <2>3. Overtaken'
    BY <2>1, <2>2 DEF AskStep, QueueStep
  <2>4. x = 0 \/ x \in Ids(inbox)
    BY DEF AskStep, QueueStep
  <2>5. 0 \notin timely
    BY DEF Timely, Pipes
  <2>6. x = 0 \/ x \notin Named => x \notin timely
    BY <2>1, <2>2, <2>4, <2>5 DEF Overtaken
  <2> QED
    BY <2>2, <2>3, <2>6 DEF AskStep
<1> QED
  BY <1>2, <1>3 DEF Timely

LEMMA WritingKeepsApart ==
    ASSUME Pipes, Kinds, JobOK, Apart, NEW n, NEW frames, Batch(frames, n), Writes(frames),
           UNCHANGED <<inbox, stdout, job>>
    PROVE  Apart'
<1> DEFINE q == Messages(frames)
           k == nextId + Asked(frames, n)
<1>0. nextId \in Nat /\ sheet \in Sheets /\ pending \subseteq 1..nextId
  BY DEF Pipes, Kinds
<1>1. Queue(q, k) /\ k \in Nat /\ nextId <= k
  BY <1>0, MessagesOf
<1>2. Unique(q) /\ Ids(q) \subseteq (nextId + 1)..k
  BY <1>0, MessagesUnique
<1>3. stdin' = stdin \o q /\ pending' = pending \cup Ids(q) /\ nextId' = k
  BY DEF Writes, Batch
<1> HIDE DEF q, k
<1>4. /\ stdin \in Seq(ToSet(stdin)) /\ q \in Seq(ToSet(q)) /\ Unique(stdin)
      /\ Ids(inbox) \cup Ids(stdin) \subseteq pending
  BY <1>1 DEF Pipes, Queue, Apart
<1>5. (1..nextId) \cap Ids(q) = {}
  BY <1>0, <1>1, <1>2
<1>6. Ids(stdin) \cap Ids(q) = {} /\ Ids(inbox) \cap Ids(q) = {}
  BY <1>0, <1>4, <1>5
<1>7. Unique(stdin') /\ Ids(stdin') = Ids(stdin) \cup Ids(q)
  BY <1>2, <1>3, <1>4, <1>6, UniqueJoined, IdsJoined
<1>8. Ids(stdout') \subseteq 1..nextId' /\ Ids(stdout') \cap pending' = {}
  <2>1. 1..nextId \subseteq 1..k
    BY <1>0, <1>1
  <2> QED
    BY <1>3, <1>5, <2>1 DEF Apart
<1>9. ASSUME job # Idle, job.id # 0
      PROVE  job.id \in pending' /\ job.id \notin Ids(inbox') \cup Ids(stdin')
  BY <1>0, <1>3, <1>5, <1>7, <1>9 DEF Apart
<1> QED
  BY <1>3, <1>4, <1>6, <1>7, <1>8, <1>9 DEF Apart

LEMMA TakingKeepsApart ==
    ASSUME Apart, ClientTaking, UNCHANGED <<inbox, job>>
    PROVE  Apart' /\ ~Said
<1>1. /\ stdout # <<>> /\ stdout' = Tail(stdout)
      /\ UNCHANGED <<stdin, nextId, pending>>
  BY DEF ClientTaking, Takes
<1>2. stdout \in Seq(ToSet(stdout)) /\ Unique(stdout)
  BY DEF Apart
<1>3. 2 \in 1..Len(stdout) + 1 /\ Tail(stdout) = SubSeq(stdout, 2, Len(stdout))
      /\ Len(Tail(stdout)) < Len(stdout) /\ Len(stdout) \in Nat /\ Len(Tail(stdout)) \in Nat
  BY <1>1, <1>2
<1>4. Unique(stdout') /\ Ids(stdout') \subseteq Ids(stdout)
  <2>1. 2 \in 1..Len(stdout) + 1 /\ stdout \in Seq(ToSet(stdout)) /\ Unique(stdout)
    BY <1>2, <1>3
  <2>2. Unique(SubSeq(stdout, 2, Len(stdout)))
        /\ Ids(SubSeq(stdout, 2, Len(stdout))) \subseteq Ids(stdout)
    BY <2>1, UniqueRest, Zenon
  <2> QED
    BY <1>1, <1>3, <2>2
<1>5. stdout' \in Seq(ToSet(stdout'))
  BY <1>1, <1>2, OneLess
<1>6. ~Said
  BY <1>1, <1>3 DEF Said
<1> QED
  BY <1>1, <1>4, <1>5, <1>6 DEF Apart

LEMMA CardinalitySum ==
    ASSUME NEW S, IsFiniteSet(S), NEW T, IsFiniteSet(T), NEW n \in Nat,
           Cardinality(S) <= n
    PROVE  n + Cardinality(T) \in Nat /\ Cardinality(S \cup T) <= n + Cardinality(T)
<1>1. /\ Cardinality(S \cup T) = Cardinality(S) + Cardinality(T) - Cardinality(S \cap T)
      /\ IsFiniteSet(S \cap T) /\ IsFiniteSet(S \cup T)
  BY FS_Union, FS_Subset
<1>2. /\ Cardinality(S) \in Nat /\ Cardinality(T) \in Nat /\ Cardinality(S \cap T) \in Nat
      /\ Cardinality(S \cup T) \in Nat
  BY <1>1, FS_CardinalityType
<1> QED
  BY <1>1, <1>2

LEMMA WritingKeepsTimely ==
    ASSUME Pipes, Kinds, JobOK, Apart, Timely, NEW n, NEW frames, Batch(frames, n),
           Writes(frames), UNCHANGED <<inbox, cancelled, job>>
    PROVE  Timely'
<1> DEFINE q == Messages(frames)
           k == nextId + Asked(frames, n)
<1>0. nextId \in Nat /\ sheet \in Sheets
  BY DEF Pipes, Kinds
<1>1. Queue(q, k) /\ k \in Nat /\ nextId <= k
  BY <1>0, MessagesOf
<1>2. Ids(q) \subseteq (nextId + 1)..k /\ CancelsIn(q) \subseteq 1..k
  BY <1>0, <1>1, MessagesUnique, CancelsOf
<1>3. /\ stdin' = stdin \o q /\ nextId' = k
      /\ timely' = timely \cup (CancelsIn(q) \cap Ids(stdin \o q))
      /\ cancels' = cancels + Cardinality(CancelsIn(q))
  BY DEF Writes, Batch
<1> HIDE DEF q, k
<1>4. stdin \in Seq(ToSet(stdin)) /\ q \in Seq(ToSet(q))
  BY <1>1 DEF Pipes, Queue
<1>5. /\ Ids(stdin') = Ids(stdin) \cup Ids(q)
      /\ CancelsIn(stdin') = CancelsIn(stdin) \cup CancelsIn(q)
      /\ timely' = timely \cup (CancelsIn(q) \cap (Ids(stdin) \cup Ids(q)))
  BY <1>3, <1>4, IdsJoined
<1>6. (1..nextId) \cap Ids(q) = {} /\ 1..nextId \subseteq 1..k
  BY <1>0, <1>1, <1>2
<1>7. IsFiniteSet(Cancels) /\ IsFiniteSet(CancelsIn(q))
  <2>1. Cancels \subseteq 1..nextId
    BY CancelsOf DEF Pipes, Cancels
  <2>2. IsFiniteSet(1..nextId) /\ IsFiniteSet(1..k)
    BY <1>0, <1>1, FS_Interval
  <2> QED
    BY <1>2, <2>1, <2>2, FS_Subset
<1>8. timely \subseteq 1..nextId /\ cancels \in Nat /\ Cardinality(Cancels) <= cancels
  BY DEF Timely
<1>9. cancels' \in Nat /\ Cardinality(Cancels') <= cancels'
  <2>1. Cancels' = Cancels \cup CancelsIn(q)
    BY <1>5 DEF Cancels
  <2>2. /\ cancels + Cardinality(CancelsIn(q)) \in Nat
        /\ Cardinality(Cancels \cup CancelsIn(q)) <= cancels + Cardinality(CancelsIn(q))
    BY <1>7, <1>8, CardinalitySum
  <2> QED
    BY <1>3, <2>1, <2>2
<1>10. timely' \subseteq 1..nextId'
  BY <1>2, <1>3, <1>5, <1>6, <1>8
<1>11. ASSUME cancels' <= MaxCancelled
       PROVE  Overtaken' /\ (job' # Idle => job'.id \notin timely')
  <2>1. cancels <= MaxCancelled
    <3>1. Cardinality(CancelsIn(q)) \in Nat
      BY <1>7, FS_CardinalityType
    <3> QED
      BY <1>3, <1>8, <1>11, <3>1, LspAssumption
  <2>2. Overtaken /\ (job # Idle => job.id \notin timely)
    BY <2>1 DEF Timely
  <2>3. /\ Ids(inbox) \cap Ids(stdin) = {} /\ Ids(inbox) \subseteq 1..nextId
        /\ Ids(stdin) \subseteq 1..nextId
        /\ (job # Idle /\ job.id # 0 => job.id \notin Ids(stdin) /\ job.id \in 1..nextId)
    BY DEF Apart, Pipes
  <2>4. 0 \notin Ids(stdin) \cup Ids(q)
    BY ZeroIsNone
  <2>5. timely' \cap Ids(inbox) \subseteq cancelled \cup CancelsIn(inbox)
    BY <1>5, <1>6, <2>2, <2>3 DEF Overtaken
  <2>6. timely' \cap Ids(stdin') \subseteq CancelsIn(stdin')
    BY <1>5, <1>6, <1>8, <2>2 DEF Overtaken
  <2>7. job # Idle => job.id \notin timely'
    BY <1>5, <1>6, <2>2, <2>3, <2>4
  <2> QED
    BY <2>5, <2>6, <2>7 DEF Overtaken
<1> QED
  BY <1>9, <1>10, <1>11 DEF Timely

Asking == Apart /\ Timely

LEMMA AskingInit ==
    ASSUME LspInit
    PROVE  Asking
<1> USE DEF LspInit, ClientInit, ServerInit
<1>1. Unique(<<>>) /\ Ids(<<>>) = {} /\ CancelsIn(<<>>) = {}
  BY UniqueNone
<1>2. Cardinality({}) = 0
  BY FS_EmptySet
<1>3. Apart
  BY <1>1 DEF Apart
<1>4. Timely
  <2>1. timely = {} /\ cancels = 0 /\ job = Idle /\ cancelled = {} /\ inbox = <<>> /\ stdin = <<>>
    OBVIOUS
  <2>2. Cancels = {}
    BY <1>1, <2>1 DEF Cancels
  <2> QED
    BY <1>2, <2>1, <2>2 DEF Timely, Overtaken
<1> QED
  BY <1>3, <1>4 DEF Asking

LEMMA AskingStep ==
    ASSUME ServerInv, Asking, [LspNext]_lspVars
    PROVE  Asking'
<1>0. Kinds /\ Pipes /\ JobOK /\ documents \in Sheets /\ Apart /\ Timely
      /\ pending \subseteq 1..nextId
  BY DEF ServerInv, Buffers, Asking, Pipes
<1>1. CASE ServerNext /\ UNCHANGED clientVars
  <2>1. UNCHANGED <<nextId, timely, cancels>>
    BY <1>1 DEF clientVars
  <2>2. PICK x, y : AskStep(x, y)
    BY <1>0, <1>1, <2>1, ServerAsks
  <2>3. Apart'
    BY <1>0, <2>1, <2>2, AskKeepsApart
  <2>4. Timely'
    BY <1>0, <2>1, <2>2, AskKeepsTimely
  <2> QED
    BY <2>3, <2>4 DEF Asking
<1>2. CASE ClientNext
  <2>1. /\ UNCHANGED <<inbox, cancelled, job>>
        /\ \/ ClientWriting \/ ClientTaking
           \/ UNCHANGED <<stdin, stdout, nextId, pending, timely, cancels>>
    BY <1>0, <1>2, ClientDoes DEF Pipes
  <2>2. CASE ClientWriting
    BY <1>0, <2>1, <2>2, WritingKeepsApart, WritingKeepsTimely DEF ClientWriting, Asking
  <2>3. CASE ClientTaking
    <3>1. UNCHANGED <<stdin, nextId, timely, cancels>>
      BY <2>3 DEF ClientTaking
    <3>2. Timely'
      BY <1>0, <2>1, <3>1 DEF Timely, Cancels, Overtaken
    <3> QED
      BY <1>0, <2>1, <2>3, <3>2, TakingKeepsApart DEF Asking
  <2>4. CASE UNCHANGED <<stdin, stdout, nextId, pending, timely, cancels>>
    BY <1>0, <2>1, <2>4 DEF Asking, Apart, Timely, Cancels, Overtaken
  <2> QED
    BY <2>1, <2>2, <2>3, <2>4
<1>3. CASE UNCHANGED lspVars
  BY <1>3 DEF Asking, Apart, Timely, Cancels, Overtaken, lspVars, serverVars, clientVars
<1> QED
  BY <1>1, <1>2, <1>3 DEF LspNext, Ended

\* A request is in one place, the pipe, the inbox, the job or its answer, until the
\* client hears it; and while no more than MaxCancelled are cancelled, the cancel
\* of one that was not read is never behind it (server.cr drain, sweep_cancels).
THEOREM RequestsApart == LspSpec => []Asking
<1>1. LspInit => Asking
  BY AskingInit
<1>2. ServerInv /\ Asking /\ [LspNext]_lspVars => Asking'
  BY AskingStep
<1> QED
  BY <1>1, <1>2, ServerHolds, PTL DEF LspSpec

LEMMA AnswersOnce ==
    ASSUME ServerInv, Asking, LspNext, Said, News.id # 0
    PROVE  /\ News.id \in pending /\ News.id \notin pending'
           /\ News.id \in timely /\ cancels <= MaxCancelled
                => News.op = "error" /\ News.code = -32800
<1>0. Kinds /\ Pipes /\ JobOK /\ documents \in Sheets /\ Apart /\ Timely
      /\ pending \subseteq 1..nextId
  BY DEF ServerInv, Buffers, Asking, Pipes
<1>1. ~(stdout' = stdout)
  <2>1. Len(stdout) \in Nat
    BY <1>0 DEF Apart
  <2> QED
    BY <2>1 DEF Said
<1>2. CASE ServerNext /\ UNCHANGED clientVars
  <2>1. nextId' = nextId
    BY <1>2 DEF clientVars
  <2>2. PICK x, y : AskStep(x, y)
    BY <1>0, <1>2, <2>1, ServerAsks
  <2>3. SaysId(y)
    BY <1>1, <2>2 DEF AskStep, askVars
  <2>4. y = 0 \/ y \in pending
    BY <2>2 DEF AskStep
  <2>5. pending' = pending \ {y} /\ News.id = y
    BY <1>0, <2>1, <2>3, <2>4, SaysKeeps
  <2>6. y \in pending
    BY <2>4, <2>5
  <2>7. ASSUME y \in timely, cancels <= MaxCancelled PROVE CancelSaid
    <3>1. Named = cancelled \cup CancelsIn(inbox)
      BY <1>0, <2>7, NoneForgotten
    <3>2. Overtaken /\ (job # Idle => job.id \notin timely)
      BY <1>0, <2>7 DEF Timely
    <3> QED
      BY <2>2, <2>5, <2>7, <3>1, <3>2 DEF AskStep, Overtaken
  <2> QED
    BY <2>5, <2>6, <2>7 DEF CancelSaid
<1>3. CASE ClientNext
  <2>1. UNCHANGED <<inbox, job>> /\ (ClientTaking \/ stdout' = stdout)
    BY <1>0, <1>3, ClientDoes DEF Pipes, ClientWriting
  <2> QED
    BY <1>0, <1>1, <2>1, TakingKeepsApart
<1>4. CASE Ended
  BY <1>1, <1>4 DEF Ended, lspVars, serverVars
<1> QED
  BY <1>2, <1>3, <1>4 DEF LspNext

\* A request is answered at most once, and a cancel that was written before its
\* request was read overtakes it (server.cr sweep_cancels, shift).
THEOREM EachAnsweredOnce == LspSpec => AnsweredOnce
<1>1. ServerInv /\ Asking /\ [LspNext]_lspVars =>
        [Said /\ News.id # 0 =>
           /\ News.id \in pending /\ News.id \notin pending'
           /\ News.id \in timely /\ cancels <= MaxCancelled
                => News.op = "error" /\ News.code = -32800]_lspVars
  BY AnswersOnce
<1> QED
  BY <1>1, ServerHolds, RequestsApart, PTL DEF LspSpec, AnsweredOnce

-----------------------------------------------------------------------------
(* Semantic tokens *)

OtherSaid == stdout' = stdout \/ \E a : a.op # "tokens" /\ stdout' = Append(stdout, a)

LEMMA SaysOther ==
    ASSUME NEW a, Say(a), a.op # "tokens"
    PROVE  OtherSaid
BY Zenon DEF Say, OtherSaid

\* The answer to the request m with the tokens of text t, whole or as a splice.
ColorStep(m, t, over) ==
    /\ m \in ToSet(inbox) /\ m.doc \in Docs /\ m.id # 0
    /\ RemembersTokens(m.doc, t)
    /\ stdout' = Append(stdout, [id |-> m.id, op |-> "tokens", doc |-> m.doc,
                                 resultId |-> tokens.count + 1,
                                 over |-> over, text |-> t])
    /\ \/ over = None
       \/ m.op = "tokensDelta" /\ KnowsColors(m.doc, m.arg)
          /\ over = tokens.last[m.doc].text

LEMMA HandlersColor ==
    ASSUME NEW m, Handles(m), Pipes, documents \in Sheets
    PROVE  \/ \E t, over : ColorStep(m, t, over)
           \/ tokens' = tokens /\ OtherSaid
<1>0. m \in ToSet(inbox) /\ Sent(m, nextId)
  <2>1. Takings(m)
    BY HandlersTake
  <2> QED
    BY <2>1, ShiftOf DEF Takings
<1>1. CASE ColorsAll(m)
  <2> DEFINE t == TextOf(documents, m.doc)
  <2>1. m.op = "tokens" /\ RemembersTokens(m.doc, t)
        /\ stdout' = Append(stdout, [id |-> m.id, op |-> "tokens", doc |-> m.doc,
                                     resultId |-> tokens.count + 1,
                                     over |-> None, text |-> t])
    BY <1>1 DEF ColorsAll, Say
  <2>2. m.doc \in Docs /\ m.id # 0
    BY <1>0, <2>1 DEF Sent, OnDocs, ReadsText
  <2>3. ColorStep(m, t, None)
    BY <1>0, <2>1, <2>2 DEF ColorStep
  <2> QED
    BY <2>3
<1>2. CASE ColorsDelta(m)
  <2> DEFINE t == TextOf(documents, m.doc)
             over == IF KnowsColors(m.doc, m.arg) THEN tokens.last[m.doc].text ELSE None
  <2>1. m.op = "tokensDelta" /\ RemembersTokens(m.doc, t)
        /\ stdout' = Append(stdout, [id |-> m.id, op |-> "tokens", doc |-> m.doc,
                                     resultId |-> tokens.count + 1,
                                     over |-> over, text |-> t])
    BY <1>2 DEF ColorsDelta, Say
  <2>2. m.doc \in Docs /\ m.id # 0
    BY <1>0, <2>1 DEF Sent, OnDocs, ReadsText
  <2>3. ColorStep(m, t, over)
    BY <1>0, <2>1, <2>2 DEF ColorStep
  <2> QED
    BY <2>3
<1>3. CASE Plain(m) \/ ExitNotice(m) \/ Raises(m) \/ DidClose(m)
  <2>1. tokens' = tokens
    BY <1>3 DEF Plain, ExitNotice, Raises, DidClose
  <2>2. OtherSaid
    <3>1. CASE Plain(m)
      BY <3>1, SaysOther DEF Plain, Silent, askVars, OtherSaid
    <3>2. CASE ExitNotice(m) \/ DidClose(m)
      BY <3>2 DEF ExitNotice, DidClose, askVars, OtherSaid
    <3>3. CASE Raises(m)
      BY <3>3, SaysOther DEF Raises, Silent, askVars, OtherSaid
    <3> QED
      BY <1>3, <3>1, <3>2, <3>3
  <2> QED
    BY <2>1, <2>2
<1>4. CASE DidOpen(m) \/ DidChange(m) \/ DidSave(m)
  <2>1. tokens' = tokens
    BY <1>4 DEF DidOpen, DidChange, DidSave
  <2>2. \E docs, opened, d : Publishes(docs, opened, d)
    BY <1>4, Zenon DEF DidOpen, DidChange, DidSave
  <2>3. OtherSaid
    BY <2>2, SaysOther DEF Publishes, Checks
  <2> QED
    BY <2>1, <2>3
<1>5. CASE AsksType(m) \/ Completes(m)
  <2>1. tokens' = tokens
    BY <1>5 DEF AsksType, Completes
  <2>2. OtherSaid
    BY <1>5, SaysOther DEF AsksType, Completes, Checks
  <2> QED
    BY <2>1, <2>2
<1>6. CASE AsksText(m) \/ FindsSymbol(m) \/ WillRename(m) \/ ActsOnCode(m)
  <2>1. tokens' = tokens
    BY <1>6 DEF AsksText, FindsSymbol, WillRename, ActsOnCode
  <2>2. OtherSaid
    BY <1>6, SaysOther DEF AsksText, FindsSymbol, WillRename, ActsOnCode
  <2> QED
    BY <2>1, <2>2
<1>7. CASE PullBegins(m) \/ WalkBegins(m) \/ VerbBegins(m)
  <2>1. tokens' = tokens /\ stdout' = stdout
    BY <1>7 DEF PullBegins, WalkBegins, VerbBegins, askVars
  <2> QED
    BY <2>1 DEF OtherSaid
<1> QED
  BY <1>1, <1>2, <1>3, <1>4, <1>5, <1>6, <1>7 DEF Handles

\* A step of the server puts nothing into a queue, and says no tokens but for
\* a request for them.
Waiting == ToSet(inbox) \cup ToSet(stdin)

LEMMA ServerColors ==
    ASSUME ServerNext, Pipes, documents \in Sheets
    PROVE  /\ Waiting' \subseteq Waiting
           /\ \/ \E m, t, over : ColorStep(m, t, over)
              \/ tokens' = tokens /\ OtherSaid
<1>0. /\ inbox \in Seq(ToSet(inbox)) /\ stdin \in Seq(ToSet(stdin))
      /\ Queue(Swept, nextId) /\ ToSet(Swept) \subseteq ToSet(inbox)
      /\ Swept \in Seq(ToSet(Swept))
  BY SweptOf DEF Pipes, Queue
<1>1. CASE Swept # <<>> /\ \E m \in {Head(Swept)} : Handles(m)
  <2>1. PICK m : Handles(m)
    BY <1>1
  <2>2. Takings(m)
    BY <2>1, HandlersTake
  <2>3. PICK k \in 2..Len(Swept) + 1 : inbox' = SubSeq(Swept, k, Len(Swept))
    BY <2>2 DEF Takings
  <2>4. k \in 1..Len(Swept) + 1
    BY <1>0
  <2>5. ToSet(inbox') \subseteq ToSet(Swept)
    BY <1>0, <2>3, <2>4, QueueRest
  <2>6. Waiting' \subseteq Waiting
    BY <1>0, <2>2, <2>5 DEF Waiting, Takings
  <2> QED
    BY <2>1, <2>6, HandlersColor
<1>2. CASE Reads
  <2> DEFINE p == Picked(stdin, {i \in DOMAIN stdin : stdin[i].op # "junk"})
  <2>1. inbox' = inbox \o p /\ stdin' = <<>> /\ tokens' = tokens /\ stdout' = stdout
    BY <1>2 DEF Reads
  <2>2. Queue(p, nextId) /\ ToSet(p) \subseteq ToSet(stdin)
    BY QueuePicked DEF Pipes
  <2> HIDE DEF p
  <2>3. inbox \in Seq(Waiting) /\ p \in Seq(Waiting)
    <3>1. p \in Seq(ToSet(p)) /\ ToSet(p) \subseteq Waiting /\ ToSet(inbox) \subseteq Waiting
      BY <2>2 DEF Queue, Waiting
    <3> QED
      BY <1>0, <3>1, OverMore
  <2>4. ToSet(inbox \o p) = ToSet(inbox) \cup ToSet(p)
    BY <2>3, ElementsOfConcat
  <2>5. ToSet(<<>>) = {}
    BY DEF ToSet
  <2>6. Waiting' \subseteq Waiting
    BY <2>1, <2>2, <2>4, <2>5 DEF Waiting
  <2> QED
    BY <2>1, <2>6 DEF OtherSaid
<1>3. CASE DropsCancels
  <2>1. inbox' = <<>> /\ stdin' = stdin /\ tokens' = tokens /\ stdout' = stdout
    BY <1>3 DEF DropsCancels, askVars, pipeVars
  <2> QED
    BY <2>1 DEF OtherSaid, Waiting, ToSet
<1>4. CASE RespondsCancelled
  <2> DEFINE a == [id |-> Head(Swept).id, op |-> "error", code |-> -32800]
  <2>1. /\ Swept # <<>> /\ inbox' = Tail(Swept) /\ stdin' = stdin /\ tokens' = tokens
        /\ Say(a)
    BY <1>4 DEF RespondsCancelled, pipeVars
  <2>2. OtherSaid
    BY <2>1, SaysOther
  <2>3. ToSet(inbox') \subseteq ToSet(inbox)
    BY <1>0, <2>1, OneLess
  <2> QED
    BY <2>1, <2>2, <2>3 DEF Waiting
<1>5. CASE EndsAtEof \/ PullGoesOn \/ WalkGoesOn
  <2>1. UNCHANGED <<inbox, stdin, tokens, stdout>>
    BY <1>5 DEF EndsAtEof, PullGoesOn, WalkGoesOn, pipeVars, askVars
  <2> QED
    BY <2>1 DEF OtherSaid, Waiting
<1>6. CASE PullAnswers \/ WalkAnswers \/ VerbAnswers
  <2>1. UNCHANGED <<inbox, stdin, tokens>>
    BY <1>6 DEF PullAnswers, WalkAnswers, VerbAnswers, pipeVars
  <2>2. OtherSaid
    <3>1. CASE PullAnswers
      BY <3>1, SaysOther DEF PullAnswers
    <3>2. CASE VerbAnswers
      BY <3>2, SaysOther DEF VerbAnswers
    <3>3. CASE WalkAnswers
      <4>1. job.do \in Walks /\ job.do # "tokens"
        BY <3>3 DEF WalkAnswers, Walks
      <4> QED
        BY <3>3, <4>1, SaysOther DEF WalkAnswers
    <3> QED
      BY <1>6, <3>1, <3>2, <3>3
  <2> QED
    BY <2>1, <2>2 DEF Waiting
<1> QED
  BY <1>1, <1>2, <1>3, <1>4, <1>5, <1>6 DEF ServerNext

\* Somebody has text t as the answer i: the server, the client, or the pipe
\* between them.
Recorded(i, t) ==
    \/ \E d \in Docs : tokens.last[d] # None
                       /\ tokens.last[d].id = i /\ tokens.last[d].text = t
    \/ \E d \in Docs : colors[d] # None /\ colors[d].id = i /\ colors[d].text = t
    \/ \E a \in ToSet(stdout) : a.op = "tokens" /\ a.resultId = i /\ a.text = t

\* The client asked for a splice onto the text that everybody has as m.arg.
Spliced(m) ==
    \E t : /\ <<m.id, t>> \in named /\ m.arg \in 1..tokens.count
           /\ \A u : Recorded(m.arg, u) => u = t

Coloured ==
    /\ tokens.count \in Nat /\ DOMAIN tokens.last = Docs /\ DOMAIN colors = Docs
    /\ \A i, t : Recorded(i, t) => i \in 1..tokens.count
    /\ \A i, t, u : Recorded(i, t) /\ Recorded(i, u) => t = u
    /\ \A a \in ToSet(stdout) : a.op = "tokens" =>
         a.doc \in Docs /\ a.id # 0 /\ (a.over = None \/ <<a.id, a.over>> \in named)
    /\ \A p \in named : p[1] # 0
    /\ \A m \in Waiting : m.op = "tokensDelta" => m.arg = 0 \/ Spliced(m)

LEMMA ColouredInit ==
    ASSUME LspInit
    PROVE  Coloured
<1>1. /\ tokens = [count |-> 0, last |-> [d \in Docs |-> None]]
      /\ colors = [d \in Docs |-> None] /\ stdout = <<>> /\ named = {}
      /\ inbox = <<>> /\ stdin = <<>>
  BY DEF LspInit, ClientInit, ServerInit
<1>2. ToSet(<<>>) = {}
  BY DEF ToSet
<1>3. \A i, t : ~Recorded(i, t)
  BY <1>1, <1>2 DEF Recorded
<1> QED
  BY <1>1, <1>2, <1>3 DEF Coloured, Waiting

LEMMA OtherKeepsColours ==
    ASSUME Coloured, stdout \in Seq(ToSet(stdout)), Waiting' \subseteq Waiting,
           tokens' = tokens, OtherSaid, UNCHANGED <<colors, named>>
    PROVE  Coloured'
<1>1. \A a \in ToSet(stdout') : a.op = "tokens" => a \in ToSet(stdout)
  <2>1. CASE stdout' = stdout
    BY <2>1
  <2>2. ASSUME NEW b, b.op # "tokens", stdout' = Append(stdout, b)
        PROVE  \A a \in ToSet(stdout') : a.op = "tokens" => a \in ToSet(stdout)
    <3>1. ToSet(stdout') \subseteq ToSet(stdout) \cup {b}
      BY <2>2, OneMore
    <3> QED
      BY <2>2, <3>1
  <2> QED
    BY <2>1, <2>2 DEF OtherSaid
<1>2. ASSUME NEW i, NEW t, Recorded(i, t)' PROVE Recorded(i, t)
  BY <1>1, <1>2 DEF Recorded
<1>3. \A m : Spliced(m) => Spliced(m)'
  BY <1>2, Zenon DEF Spliced
<1>4. \A m \in Waiting' : m.op = "tokensDelta" => m.arg = 0 \/ Spliced(m)'
  BY <1>3 DEF Coloured
<1>5. /\ \A i, t : Recorded(i, t)' => i \in 1..tokens'.count
      /\ \A i, t, u : Recorded(i, t)' /\ Recorded(i, u)' => t = u
  BY <1>2 DEF Coloured
<1> QED
  BY <1>1, <1>4, <1>5 DEF Coloured

LEMMA ColorKeepsColours ==
    ASSUME Coloured, stdout \in Seq(ToSet(stdout)), Waiting' \subseteq Waiting,
           NEW m, NEW t, NEW over, ColorStep(m, t, over), UNCHANGED <<colors, named>>
    PROVE  Coloured'
<1> DEFINE n == tokens.count + 1
           a == [id |-> m.id, op |-> "tokens", doc |-> m.doc, resultId |-> n,
                 over |-> over, text |-> t]
<1>1. /\ m \in Waiting /\ m.doc \in Docs /\ m.id # 0
      /\ tokens' = [count |-> n, last |-> [tokens.last EXCEPT ![m.doc] = [id |-> n, text |-> t]]]
      /\ stdout' = Append(stdout, a)
  BY DEF ColorStep, RemembersTokens, Waiting
<1>2. tokens.count \in Nat /\ n \in Nat /\ DOMAIN tokens.last = Docs
  BY DEF Coloured
<1>3. ToSet(stdout') \subseteq ToSet(stdout) \cup {a}
  BY <1>1, OneMore
<1>4. ASSUME NEW i, NEW u, Recorded(i, u)'
      PROVE  Recorded(i, u) \/ (i = n /\ u = t)
  <2>1. CASE \E d \in Docs : tokens'.last[d] # None
                             /\ tokens'.last[d].id = i /\ tokens'.last[d].text = u
    <3>1. PICK d \in Docs : tokens'.last[d] # None
                            /\ tokens'.last[d].id = i /\ tokens'.last[d].text = u
      BY <2>1
    <3>2. tokens'.last[d] = IF d = m.doc THEN [id |-> n, text |-> t] ELSE tokens.last[d]
      BY <1>1, <1>2
    <3> HIDE DEF n
    <3>3. CASE d = m.doc
      BY <3>1, <3>2, <3>3
    <3>4. CASE d # m.doc
      BY <3>1, <3>2, <3>4 DEF Recorded
    <3> QED
      BY <3>3, <3>4
  <2>2. CASE \E d \in Docs : colors'[d] # None /\ colors'[d].id = i /\ colors'[d].text = u
    BY <2>2 DEF Recorded
  <2>3. CASE \E b \in ToSet(stdout') : b.op = "tokens" /\ b.resultId = i /\ b.text = u
    <3>1. PICK b \in ToSet(stdout') : b.op = "tokens" /\ b.resultId = i /\ b.text = u
      BY <2>3
    <3>2. CASE b = a
      BY <3>1, <3>2
    <3>3. CASE b # a
      BY <1>3, <3>1, <3>3 DEF Recorded
    <3> QED
      BY <3>2, <3>3
  <2> QED
    BY <1>4, <2>1, <2>2, <2>3 DEF Recorded
<1>5. \A i, u : Recorded(i, u) => i \in 1..tokens.count
  BY DEF Coloured
<1> HIDE DEF a
<1>6. tokens'.count = n
  BY <1>1
<1>7. /\ \A i, u : Recorded(i, u)' => i \in 1..tokens'.count
      /\ \A i, u, v : Recorded(i, u)' /\ Recorded(i, v)' => u = v
  <2>1. \A i, u : Recorded(i, u)' => Recorded(i, u) \/ (i = n /\ u = t)
    BY <1>4
  <2>2. \A i \in 1..tokens.count : i # n /\ i \in 1..n
    BY <1>2
  <2>3. n \in 1..n
    BY <1>2
  <2>4. \A i, u, v : Recorded(i, u) /\ Recorded(i, v) => u = v
    BY DEF Coloured
  <2> HIDE DEF n
  <2> QED
    BY <1>5, <1>6, <2>1, <2>2, <2>3, <2>4
<1>8. ASSUME NEW x, Spliced(x) PROVE Spliced(x)'
  <2>1. PICK u : /\ <<x.id, u>> \in named /\ x.arg \in 1..tokens.count
                 /\ \A v : Recorded(x.arg, v) => v = u
    BY <1>8 DEF Spliced
  <2>2. x.arg \in 1..tokens'.count /\ x.arg # n
    BY <1>2, <1>6, <2>1
  <2>3. \A v : Recorded(x.arg, v)' => v = u
    BY <1>4, <2>1, <2>2
  <2> QED
    BY <2>1, <2>2, <2>3 DEF Spliced
<1>9. over = None \/ <<m.id, over>> \in named
  <2> SUFFICES ASSUME m.op = "tokensDelta", KnowsColors(m.doc, m.arg),
                      over = tokens.last[m.doc].text
               PROVE  <<m.id, over>> \in named
    BY DEF ColorStep
  <2>1. Recorded(m.arg, over)
    BY <1>1 DEF KnowsColors, Recorded
  <2>2. m.arg # 0
    BY <1>5, <2>1
  <2>3. Spliced(m)
    BY <1>1, <2>2 DEF Coloured
  <2> QED
    BY <2>1, <2>3 DEF Spliced
<1>10. \A b \in ToSet(stdout') : b.op = "tokens" =>
          b.doc \in Docs /\ b.id # 0 /\ (b.over = None \/ <<b.id, b.over>> \in named')
  <2>1. a.doc \in Docs /\ a.id # 0 /\ (a.over = None \/ <<a.id, a.over>> \in named)
    BY <1>1, <1>9 DEF a
  <2> QED
    BY <1>3, <2>1 DEF Coloured
<1>11. DOMAIN tokens'.last = Docs /\ DOMAIN colors' = Docs /\ \A p \in named' : p[1] # 0
  BY <1>1, <1>2 DEF Coloured
<1>12. \A x \in Waiting' : x.op = "tokensDelta" => x.arg = 0 \/ Spliced(x)'
  BY <1>8 DEF Coloured
<1>13. tokens'.count \in Nat
  BY <1>2, <1>6
<1> QED
  BY <1>7, <1>10, <1>11, <1>12, <1>13 DEF Coloured

LEMMA WritingKeepsColours ==
    ASSUME Coloured, Pipes, Kinds, NEW n, NEW frames, Batch(frames, n), Writes(frames),
           UNCHANGED <<inbox, stdout, colors, tokens>>
    PROVE  Coloured'
<1> DEFINE q == Messages(frames)
           k == nextId + Asked(frames, n)
           asked == {<<q[i].id, IF colors[q[i].doc] = None THEN None
                                ELSE colors[q[i].doc].text>> :
                       i \in {j \in DOMAIN q : q[j].op = "tokensDelta"}}
<1>1. Queue(q, k) /\ DOMAIN q = 1..n
  BY MessagesOf DEF Pipes, Kinds
<1>2. stdin' = stdin \o q /\ named' = named \cup asked
  BY DEF Writes
<1>3. \A i \in 1..n : Sent(q[i], k)
  BY <1>1 DEF Queue, ToSet
<1>4. \A i \in 1..n : q[i].op = "tokensDelta" =>
        /\ q[i].id # 0 /\ q[i].doc \in Docs
        /\ q[i].arg = IF colors[q[i].doc] = None THEN 0 ELSE colors[q[i].doc].id
  <2> SUFFICES ASSUME NEW i \in 1..n, q[i].op = "tokensDelta"
               PROVE  /\ q[i].id # 0 /\ q[i].doc \in Docs
                      /\ q[i].arg = IF colors[q[i].doc] = None THEN 0
                                    ELSE colors[q[i].doc].id
    OBVIOUS
  <2>1. q[i].id # 0 /\ q[i].doc \in Docs
    BY <1>3 DEF Sent, OnDocs, ReadsText
  <2>2. q[i].op = frames[i].op /\ q[i].doc = frames[i].doc /\ q[i].arg = Wire(frames[i])
    BY DEF Messages, Batch
  <2> HIDE DEF q
  <2>3. Wire(frames[i]) = IF colors[frames[i].doc] = None THEN 0
                          ELSE colors[frames[i].doc].id
    BY <2>2 DEF Wire
  <2> QED
    BY <2>1, <2>2, <2>3
<1>5. Waiting' = Waiting \cup ToSet(q)
  <2>1. stdin \in Seq(Waiting \cup ToSet(q)) /\ q \in Seq(Waiting \cup ToSet(q))
    <3>1. stdin \in Seq(ToSet(stdin)) /\ q \in Seq(ToSet(q))
      BY <1>1 DEF Pipes, Queue
    <3> HIDE DEF q
    <3>2. ToSet(stdin) \subseteq Waiting \cup ToSet(q) /\ ToSet(q) \subseteq Waiting \cup ToSet(q)
      BY DEF Waiting
    <3> QED
      BY <3>1, <3>2, OverMore
  <2> HIDE DEF q
  <2>2. ToSet(stdin \o q) = ToSet(stdin) \cup ToSet(q)
    BY <2>1, ElementsOfConcat
  <2> QED
    BY <1>2, <2>2 DEF Waiting
<1>6. \A i, t : Recorded(i, t)' <=> Recorded(i, t)
  BY DEF Recorded
<1>7. \A m : Spliced(m) => Spliced(m)'
  BY <1>2, <1>6, Zenon DEF Spliced
<1> HIDE DEF q, k
<1>8. ASSUME NEW m \in ToSet(q), m.op = "tokensDelta" PROVE m.arg = 0 \/ Spliced(m)'
  <2>1. PICK i \in 1..n : m = q[i]
    BY <1>1 DEF ToSet
  <2>2. CASE colors[m.doc] = None
    BY <1>4, <1>8, <2>1, <2>2
  <2>3. CASE colors[m.doc] # None
    <3>1. m.arg = colors[m.doc].id /\ m.doc \in Docs
      BY <1>4, <1>8, <2>1, <2>3
    <3>2. <<m.id, colors[m.doc].text>> \in asked
      BY <1>1, <1>8, <2>1, <2>3
    <3>3. Recorded(m.arg, colors[m.doc].text)
      BY <2>3, <3>1 DEF Recorded
    <3>4. m.arg \in 1..tokens'.count /\ \A u : Recorded(m.arg, u)' => u = colors[m.doc].text
      BY <1>6, <3>3 DEF Coloured
    <3>5. <<m.id, colors[m.doc].text>> \in named'
      BY <1>2, <3>2
    <3> QED
      BY <3>4, <3>5 DEF Spliced
  <2> QED
    BY <2>2, <2>3
<1>9. \A p \in asked : p[1] # 0
  BY <1>1, <1>4
<1> HIDE DEF asked
<1>10. \A m \in Waiting' : m.op = "tokensDelta" => m.arg = 0 \/ Spliced(m)'
  BY <1>5, <1>7, <1>8 DEF Coloured
<1>11. /\ \A i, t : Recorded(i, t)' => i \in 1..tokens'.count
       /\ \A i, t, u : Recorded(i, t)' /\ Recorded(i, u)' => t = u
  BY <1>6 DEF Coloured
<1>12. \A p \in named' : p[1] # 0
  BY <1>2, <1>9 DEF Coloured
<1>13. \A a \in ToSet(stdout') : a.op = "tokens" =>
         a.doc \in Docs /\ a.id # 0 /\ (a.over = None \/ <<a.id, a.over>> \in named')
  BY <1>2 DEF Coloured
<1> QED
  BY <1>10, <1>11, <1>12, <1>13 DEF Coloured

LEMMA TakingKeepsColours ==
    ASSUME Coloured, Pipes, Apart, ClientTaking, UNCHANGED <<inbox, tokens>>
    PROVE  Coloured'
<1> DEFINE h == Head(stdout)
<1>1. /\ stdout # <<>> /\ stdout' = Tail(stdout) /\ stdin' = stdin
      /\ colors' = IF h.op # "tokens" THEN colors
                   ELSE [colors EXCEPT ![h.doc] = [id |-> h.resultId, text |-> h.text]]
      /\ named' = {p \in named : p[1] # h.id}
  BY DEF ClientTaking, Takes
<1>2. /\ stdout \in Seq(ToSet(stdout)) /\ Unique(stdout)
      /\ Len(stdout) \in Nat /\ DOMAIN stdout = 1..Len(stdout)
  BY DEF Apart
<1>3. /\ Tail(stdout) = SubSeq(stdout, 2, Len(stdout)) /\ 2 \in 1..Len(stdout) + 1
      /\ Tail(stdout) \in Seq(ToSet(Tail(stdout))) /\ ToSet(Tail(stdout)) \subseteq ToSet(stdout)
      /\ h \in ToSet(stdout)
  <2>1. Tail(stdout) \in Seq(ToSet(Tail(stdout))) /\ ToSet(Tail(stdout)) \subseteq ToSet(stdout)
    BY <1>1, <1>2, OneLess
  <2>2. Tail(stdout) = SubSeq(stdout, 2, Len(stdout)) /\ 2 \in 1..Len(stdout) + 1
    BY <1>1, <1>2
  <2>3. h = stdout[1] /\ 1 \in DOMAIN stdout
    BY <1>1, <1>2
  <2>4. h \in ToSet(stdout)
    BY <2>3, Zenon DEF ToSet
  <2> QED
    BY <2>1, <2>2, <2>4
<1> HIDE DEF h
<1>4. ASSUME NEW i, NEW t, Recorded(i, t)' PROVE Recorded(i, t)
  <2>1. CASE \E d \in Docs : tokens'.last[d] # None
                             /\ tokens'.last[d].id = i /\ tokens'.last[d].text = t
    BY <2>1 DEF Recorded
  <2>2. CASE \E d \in Docs : colors'[d] # None /\ colors'[d].id = i /\ colors'[d].text = t
    <3>1. PICK d \in Docs : colors'[d] # None /\ colors'[d].id = i /\ colors'[d].text = t
      BY <2>2
    <3>2. CASE h.op = "tokens" /\ d = h.doc
      <4>1. colors'[d] = [id |-> h.resultId, text |-> h.text]
        BY <1>1, <3>2 DEF Coloured
      <4>2. i = h.resultId /\ t = h.text
        BY <3>1, <4>1
      <4> QED
        BY <1>3, <3>2, <4>2 DEF Recorded
    <3>3. CASE ~(h.op = "tokens" /\ d = h.doc)
      <4>1. colors'[d] = colors[d]
        BY <1>1, <3>3 DEF Coloured
      <4> QED
        BY <3>1, <4>1 DEF Recorded
    <3> QED
      BY <3>2, <3>3
  <2>3. CASE \E a \in ToSet(stdout') : a.op = "tokens" /\ a.resultId = i /\ a.text = t
    BY <1>1, <1>3, <2>3 DEF Recorded
  <2> QED
    BY <1>4, <2>1, <2>2, <2>3 DEF Recorded
<1>5. ASSUME NEW a \in ToSet(stdout'), a.op = "tokens"
      PROVE  a.doc \in Docs /\ a.id # 0 /\ (a.over = None \/ <<a.id, a.over>> \in named')
  <2>1. a \in ToSet(stdout)
    BY <1>1, <1>3
  <2>2. a.id # h.id
    <3>1. CASE h.id = 0
      BY <1>5, <2>1, <3>1 DEF Coloured
    <3>2. CASE h.id # 0
      <4>1. h.id \notin Ids(stdout')
        <5>1. 2 \in 1..Len(stdout) + 1 /\ stdout \in Seq(ToSet(stdout)) /\ Unique(stdout)
          BY <1>2, <1>3
        <5>2. 2 > 1 /\ stdout # <<>> /\ Head(stdout).id # 0 =>
                Head(stdout).id \notin Ids(SubSeq(stdout, 2, Len(stdout)))
          BY <5>1, UniqueRest, Zenon
        <5>3. stdout' = SubSeq(stdout, 2, Len(stdout)) /\ 2 > 1
          BY <1>1, <1>3
        <5> QED
          BY <1>1, <3>2, <5>2, <5>3 DEF h
      <4>2. a.id \in Ids(stdout') \/ a.id = 0
        BY DEF Ids, ToSet
      <4> QED
        BY <3>2, <4>1, <4>2
    <3> QED
      BY <3>1, <3>2
  <2>3. a.doc \in Docs /\ a.id # 0 /\ (a.over = None \/ <<a.id, a.over>> \in named)
    BY <1>5, <2>1 DEF Coloured
  <2> QED
    BY <1>1, <2>2, <2>3
<1>6. ASSUME NEW m \in Waiting, m.op = "tokensDelta", Spliced(m) PROVE Spliced(m)'
  <2>1. PICK t : /\ <<m.id, t>> \in named /\ m.arg \in 1..tokens.count
                 /\ \A u : Recorded(m.arg, u) => u = t
    BY <1>6 DEF Spliced
  <2>2. m.id # 0
    BY <2>1 DEF Coloured
  <2>3. m.id \in Ids(inbox) \cup Ids(stdin)
    BY <2>2 DEF Waiting, Ids, ToSet
  <2>4. h.id \in Ids(stdout) \/ h.id = 0
    BY <1>3 DEF Ids, ToSet
  <2>5. m.id # h.id
    BY <2>2, <2>3, <2>4 DEF Apart
  <2>6. <<m.id, t>> \in named'
    BY <1>1, <2>1, <2>5
  <2>7. m.arg \in 1..tokens'.count /\ \A u : Recorded(m.arg, u)' => u = t
    BY <1>4, <2>1
  <2> QED
    BY <2>6, <2>7 DEF Spliced
<1>7. \A m \in Waiting' : m.op = "tokensDelta" => m.arg = 0 \/ Spliced(m)'
  BY <1>1, <1>6 DEF Coloured, Waiting
<1>8. /\ \A i, t : Recorded(i, t)' => i \in 1..tokens'.count
      /\ \A i, t, u : Recorded(i, t)' /\ Recorded(i, u)' => t = u
  BY <1>4 DEF Coloured
<1>9. DOMAIN colors' = Docs /\ \A p \in named' : p[1] # 0
  BY <1>1 DEF Coloured
<1> QED
  BY <1>5, <1>7, <1>8, <1>9 DEF Coloured

LEMMA SameColours ==
    ASSUME Coloured, UNCHANGED <<inbox, stdin, stdout, tokens, colors, named>>
    PROVE  Coloured'
<1>1. \A i, t : Recorded(i, t)' <=> Recorded(i, t)
  BY DEF Recorded
<1>2. \A m : Spliced(m)' <=> Spliced(m)
  BY <1>1, Zenon DEF Spliced
<1>3. Waiting' = Waiting
  BY DEF Waiting
<1>4. \A m \in Waiting' : m.op = "tokensDelta" => m.arg = 0 \/ Spliced(m)'
  BY <1>2, <1>3 DEF Coloured
<1>5. /\ \A i, t : Recorded(i, t)' => i \in 1..tokens'.count
      /\ \A i, t, u : Recorded(i, t)' /\ Recorded(i, u)' => t = u
  BY <1>1 DEF Coloured
<1> QED
  BY <1>4, <1>5 DEF Coloured

LEMMA ColouredStep ==
    ASSUME ServerInv, Asking, Coloured, [LspNext]_lspVars
    PROVE  Coloured'
<1>0. Kinds /\ Pipes /\ documents \in Sheets /\ Apart /\ stdout \in Seq(ToSet(stdout))
  BY DEF ServerInv, Buffers, Asking, Apart
<1>1. CASE ServerNext /\ UNCHANGED clientVars
  <2>1. UNCHANGED <<colors, named>>
    BY <1>1 DEF clientVars
  <2>2. /\ Waiting' \subseteq Waiting
        /\ \/ \E m, t, over : ColorStep(m, t, over)
           \/ tokens' = tokens /\ OtherSaid
    BY <1>0, <1>1, ServerColors
  <2>3. ASSUME NEW m, NEW t, NEW over, ColorStep(m, t, over) PROVE Coloured'
    BY <1>0, <2>1, <2>2, <2>3, ColorKeepsColours
  <2>4. CASE tokens' = tokens /\ OtherSaid
    BY <1>0, <2>1, <2>2, <2>4, OtherKeepsColours
  <2> QED
    BY <2>2, <2>3, <2>4
<1>2. CASE ClientNext
  <2>1. /\ UNCHANGED <<inbox, tokens>>
        /\ \/ ClientWriting \/ ClientTaking
           \/ UNCHANGED <<stdin, stdout, colors, named>>
    BY <1>0, <1>2, ClientDoes DEF Pipes
  <2>2. CASE ClientWriting
    BY <1>0, <2>1, <2>2, WritingKeepsColours DEF ClientWriting
  <2>3. CASE ClientTaking
    BY <1>0, <2>1, <2>3, TakingKeepsColours
  <2>4. CASE UNCHANGED <<stdin, stdout, colors, named>>
    BY <2>1, <2>4, SameColours
  <2> QED
    BY <2>1, <2>2, <2>3, <2>4
<1>3. CASE UNCHANGED lspVars
  BY <1>3, SameColours DEF lspVars, serverVars, clientVars
<1> QED
  BY <1>1, <1>2, <1>3 DEF LspNext, Ended

LEMMA ColouredMeans ==
    ASSUME Coloured
    PROVE  ColorsAgree
<1>1. \A i \in DOMAIN stdout : stdout[i] \in ToSet(stdout)
  BY DEF ToSet
<1> QED
  BY <1>1 DEF Coloured, ColorsAgree

\* The text a result id stands for is the same wherever it is held or under way,
\* so a delta that names it is spliced onto what the client has
\* (server.cr semantic_tokens_delta, remember_tokens).
THEOREM ColoursAgree == LspSpec => []ColorsAgree
<1>1. LspInit => Coloured
  BY ColouredInit
<1>2. ServerInv /\ Asking /\ Coloured /\ [LspNext]_lspVars => Coloured'
  BY ColouredStep
<1>3. Coloured => ColorsAgree
  BY ColouredMeans
<1> QED
  BY <1>1, <1>2, <1>3, ServerHolds, RequestsApart, PTL DEF LspSpec

\* Server and client see one thing: the documents that the client edits are
\* those the server will have, and deltas splice onto the tokens they name
\* (server.cr apply_changes, drain, semantic_tokens_delta).
THEOREM SeesOneThing == LspSpec => []ViewsAgree
<1>1. BuffersAgree /\ ColorsAgree => ViewsAgree
  BY DEF ViewsAgree
<1> QED
  BY <1>1, DocumentsAgree, ColoursAgree, PTL

-----------------------------------------------------------------------------
(* What a verdict rests on *)

\* Result is of text t of file d: every other file counts by its buffer, or as
\* it is on the disk if nobody wrote it.
SeesFrom(result, docs, d, t) ==
    \A x \in DOMAIN result.view :
        /\ x \in Docs
        /\ x = d => result.view[x] = t
        /\ x # d /\ docs[x] # None => result.view[x] = docs[x]
        /\ x # d /\ docs[x] = None /\ moved[x] = 0 => result.view[x] = disk[x]

\* The same, of the buffers alone.
Sighted(v, docs) ==
    \A x \in DOMAIN v.view : x \in Docs /\
        (docs[x] # None \/ moved[x] = 0 => v.view[x] = TextOf(docs, x))

\* What is remembered is what the buffers and the texts of its key make of it.
MemoSees ==
    LET key == analysis.memo.key
    IN  key # None =>
          SeesFrom(analysis.memo.result, key.overrides, key.doc, key.text)

\* So far a pull has said nothing that the buffers and the disk do not say now.
ItemsSee ==
    job.do \in {"pull", "workspace"} =>
        /\ job.items \in Seq(ToSet(job.items))
        /\ \A i \in ToSet(job.items) : i.kind = "full" => Sighted(i.result, documents)

\* A file that nobody wrote is as it was.
WorldStep == \A x \in Docs : moved'[x] = 0 => moved[x] = 0 /\ disk'[x] = disk[x]

LEMMA CompileSees ==
    ASSUME NEW docs \in Sheets, disk \in Sheets, NEW d \in Docs, NEW t \in MaybeTexts
    PROVE  SeesFrom(Compile(docs, d, t), docs, d, t)
<1>1. PICK R \in SUBSET Docs :
        View(docs, d, t) = [x \in R |-> IF x = d THEN t ELSE TextOf(docs, x)]
  BY ViewOf
<1>2. Compile(docs, d, t).view = View(docs, d, t)
  BY CompileOf
<1> QED
  BY <1>1, <1>2 DEF SeesFrom, TextOf

LEMMA CheckSees ==
    ASSUME NEW docs \in Sheets, disk \in Sheets, NEW d \in Docs, NEW t \in MaybeTexts,
           MemoSees
    PROVE  SeesFrom(Check(docs, d, t), docs, d, t)
<1>1. CASE Remembers(docs, d, t)
  <2>1. /\ analysis.memo.key # None /\ analysis.memo.key.doc = d
        /\ analysis.memo.key.text = t
        /\ \A x \in Docs \ {d} : analysis.memo.key.overrides[x] = docs[x]
    BY <1>1 DEF Remembers, MemoKey
  <2>2. Check(docs, d, t) = analysis.memo.result
    BY <1>1 DEF Check
  <2> QED
    BY <2>1, <2>2 DEF MemoSees, SeesFrom
<1>2. CASE ~Remembers(docs, d, t)
  <2>1. Check(docs, d, t) = Compile(docs, d, t)
    BY <1>2 DEF Check
  <2> QED
    BY <2>1, CompileSees
<1> QED
  BY <1>1, <1>2

LEMMA CheckSighted ==
    ASSUME NEW docs \in Sheets, disk \in Sheets, NEW d \in Docs, MemoSees
    PROVE  Sighted(Check(docs, d, TextOf(docs, d)), docs)
<1> DEFINE t == TextOf(docs, d)
<1>1. t \in MaybeTexts
  BY TextOfOf
<1>2. t = TextOf(docs, d)
  OBVIOUS
<1> HIDE DEF t
<1>3. SeesFrom(Check(docs, d, t), docs, d, t)
  BY <1>1, CheckSees
<1>4. Sighted(Check(docs, d, t), docs)
  BY <1>2, <1>3 DEF SeesFrom, Sighted, TextOf
<1> QED
  BY <1>2, <1>4

LEMMA StepKeepsMemo ==
    ASSUME MemoSees, disk \in Sheets, DocStep, WorldStep
    PROVE  MemoSees'
<1>1. ASSUME NEW r, NEW docs, NEW d, NEW t, SeesFrom(r, docs, d, t)
      PROVE  SeesFrom(r, docs, d, t)'
  BY <1>1 DEF SeesFrom, WorldStep
<1>2. CASE analysis'.memo = analysis.memo
  <2>1. PICK memo : memo = analysis.memo
    OBVIOUS
  <2>2. memo.key # None => SeesFrom(memo.result, memo.key.overrides, memo.key.doc, memo.key.text)
    BY <2>1 DEF MemoSees
  <2>3. memo.key # None => SeesFrom(memo.result, memo.key.overrides, memo.key.doc, memo.key.text)'
    BY <1>1, <2>2
  <2> QED
    BY <1>2, <2>1, <2>3 DEF MemoSees
<1>3. CASE analysis'.memo = NoMemo
  BY <1>3 DEF MemoSees, NoMemo
<1>4. ASSUME NEW docs \in Sheets, NEW opened \in SUBSET Docs, NEW d \in Docs,
             NEW t \in MaybeTexts, CheckStep(docs, opened, d, t)
      PROVE  MemoSees'
  <2>1. SeesFrom(Check(docs, d, t), docs, d, t)
    BY CheckSees
  <2>2. PICK r : r = Check(docs, d, t)
    OBVIOUS
  <2>3. analysis'.memo = [key |-> MemoKey(docs, d, t), result |-> r]
    BY <1>4, <2>2 DEF CheckStep, Remembering
  <2>4. SeesFrom(r, docs, d, t)'
    BY <1>1, <2>1, <2>2
  <2>5. SeesFrom(r, [x \in Docs \ {d} |-> docs[x]], d, t)'
    BY <2>4 DEF SeesFrom
  <2>6. /\ analysis'.memo.result = r /\ analysis'.memo.key.doc = d
        /\ analysis'.memo.key.text = t
        /\ analysis'.memo.key.overrides = [x \in Docs \ {d} |-> docs[x]]
    BY <2>3 DEF MemoKey
  <2> QED
    BY <2>5, <2>6 DEF MemoSees
<1>5. ASSUME NEW d, CloseStep(d)
      PROVE  analysis'.memo = analysis.memo \/ analysis'.memo = NoMemo
  BY <1>5 DEF CloseStep, Forgetting
<1> QED
  BY <1>2, <1>3, <1>4, <1>5 DEF DocStep, docVars

\* What a step of the server says, it says of the buffers as they are then.
Speaks ==
    \/ stdout' = stdout
    \/ \E a : stdout' = Append(stdout, a)
              /\ \A v \in VerdictsIn(a) : Sighted(v, documents')

LEMMA SpeaksOther ==
    ASSUME NEW a, Say(a), a.op \notin {"publish", "pull"}
    PROVE  Speaks
<1>1. VerdictsIn(a) = {}
  BY DEF VerdictsIn
<1> QED
  BY <1>1, Zenon DEF Say, Speaks

LEMMA SightedView ==
    ASSUME NEW result, NEW docs, Sighted(result, docs), NEW d
    PROVE  Sighted([doc |-> d, view |-> result.view], docs)
BY DEF Sighted

LEMMA SpeaksPublish ==
    ASSUME NEW docs \in Sheets, NEW opened, NEW d \in Docs, Publishes(docs, opened, d),
           MemoSees, disk \in Sheets
    PROVE  Speaks
<1>1. PICK r : r = Check(docs, d, TextOf(docs, d))
  OBVIOUS
<1> DEFINE a == [id |-> 0, op |-> "publish", doc |-> d, holds |-> r.holds, view |-> r.view]
<1>2. documents' = docs /\ Say(a)
  BY <1>1 DEF Publishes, Checks
<1>3. Sighted(r, docs)
  BY <1>1, CheckSighted
<1>4. VerdictsIn(a) = {[doc |-> d, view |-> r.view]}
  BY DEF VerdictsIn
<1> HIDE DEF a
<1>5. \A v \in VerdictsIn(a) : Sighted(v, documents')
  BY <1>2, <1>3, <1>4, SightedView
<1> QED
  BY <1>2, <1>5, Zenon DEF Speaks, Say

LEMMA SpeaksPull ==
    ASSUME PullAnswers, ItemsSee
    PROVE  Speaks
<1>1. PICK items : items = job.items
  OBVIOUS
<1>2. PICK id : id = job.id
  OBVIOUS
<1> DEFINE a == [id |-> id, op |-> "pull", items |-> items]
<1>3. Say(a) /\ documents' = documents
  BY <1>1, <1>2 DEF PullAnswers, docVars
<1>4. /\ items \in Seq(ToSet(items))
      /\ \A i \in ToSet(items) : i.kind = "full" => Sighted(i.result, documents)
  BY <1>1 DEF ItemsSee, PullAnswers
<1>5. VerdictsIn(a) = {[doc |-> items[i].doc, view |-> items[i].result.view] :
                         i \in {j \in DOMAIN items : items[j].kind = "full"}}
  BY DEF VerdictsIn
<1> HIDE DEF a
<1>6. ASSUME NEW v \in VerdictsIn(a) PROVE Sighted(v, documents')
  <2>1. PICK i \in DOMAIN items : /\ items[i].kind = "full"
                                  /\ v = [doc |-> items[i].doc, view |-> items[i].result.view]
    BY <1>5
  <2>2. items[i] \in ToSet(items)
    BY DEF ToSet
  <2>3. Sighted(items[i].result, documents')
    BY <1>3, <1>4, <2>1, <2>2
  <2> QED
    BY <2>1, <2>3, SightedView
<1> QED
  BY <1>3, <1>6, Zenon DEF Speaks, Say

LEMMA HandlersPublish ==
    ASSUME NEW m, DidOpen(m) \/ DidChange(m) \/ DidSave(m), Kinds, Pipes, Buffers
    PROVE  \E docs \in Sheets : \E opened : \E d \in Docs : Publishes(docs, opened, d)
<1>1. /\ disk \in Sheets /\ documents \in Sheets /\ analysis.open \subseteq Docs
      /\ \A x \in analysis.open : documents[x] # None
  BY DEF Kinds, Buffers
<1>2. Handles(m)
  BY DEF Handles
<1>3. Sent(m, nextId)
  BY <1>1, <1>2, HandlersTake, ShiftOf DEF Takings
<1>4. CASE DidOpen(m)
  <2>1. m.doc \in Docs /\ m.arg \in Texts
    BY <1>3, <1>4 DEF DidOpen, Sent, OnDocs
  <2>2. [documents EXCEPT ![m.doc] = m.arg] \in Sheets
    BY <1>1, <2>1, OneBuffer
  <2>3. Publishes([documents EXCEPT ![m.doc] = m.arg], analysis.open \cup {m.doc}, m.doc)
    BY <1>4 DEF DidOpen
  <2> QED
    BY <2>1, <2>2, <2>3, Zenon
<1>5. CASE DidChange(m)
  <2>1. PICK t \in Texts :
          Publishes([documents EXCEPT ![m.doc] = t], analysis.open, m.doc)
    BY <1>1, <1>5, DidChangeOf
  <2>2. m.doc \in Docs
    BY <1>1, <1>5, DidChangeOf
  <2>3. [documents EXCEPT ![m.doc] = t] \in Sheets
    BY <1>1, <2>2, OneBuffer
  <2> QED
    BY <2>1, <2>2, <2>3, Zenon
<1>6. CASE DidSave(m)
  <2>1. m.doc \in Docs /\ Publishes(documents, analysis.open, m.doc)
    BY <1>3, <1>6 DEF DidSave, Sent, OnDocs, ReadsText
  <2> QED
    BY <1>1, <2>1, Zenon
<1> QED
  BY <1>4, <1>5, <1>6

LEMMA HandlersSpeak ==
    ASSUME NEW m, Handles(m), Kinds, Pipes, Buffers, MemoSees
    PROVE  Speaks
<1>1. CASE DidOpen(m) \/ DidChange(m) \/ DidSave(m)
  BY <1>1, HandlersPublish, SpeaksPublish DEF Kinds
<1>2. CASE Plain(m)
  BY <1>2, SpeaksOther DEF Plain, Silent, askVars, Speaks
<1>3. CASE ExitNotice(m) \/ DidClose(m)
  BY <1>3 DEF ExitNotice, DidClose, askVars, Speaks
<1>4. CASE Raises(m)
  BY <1>4, SpeaksOther DEF Raises, Silent, askVars, Speaks
<1>5. CASE AsksType(m) \/ Completes(m)
  BY <1>5, SpeaksOther DEF AsksType, Completes, Checks
<1>6. CASE AsksText(m) \/ FindsSymbol(m) \/ WillRename(m) \/ ActsOnCode(m)
  BY <1>6, SpeaksOther DEF AsksText, FindsSymbol, WillRename, ActsOnCode
<1>7. CASE ColorsAll(m) \/ ColorsDelta(m)
  BY <1>7, SpeaksOther DEF ColorsAll, ColorsDelta
<1>8. CASE PullBegins(m) \/ WalkBegins(m) \/ VerbBegins(m)
  BY <1>8 DEF PullBegins, WalkBegins, VerbBegins, askVars, Speaks
<1> QED
  BY <1>1, <1>2, <1>3, <1>4, <1>5, <1>6, <1>7, <1>8 DEF Handles

LEMMA ServerSpeaks ==
    ASSUME ServerNext, Kinds, Pipes, Buffers, MemoSees, ItemsSee
    PROVE  Speaks
<1>1. CASE \E m \in {Head(Swept)} : Handles(m)
  BY <1>1, HandlersSpeak
<1>2. CASE Reads \/ DropsCancels \/ EndsAtEof \/ PullGoesOn \/ WalkGoesOn
  BY <1>2 DEF Reads, DropsCancels, EndsAtEof, PullGoesOn, WalkGoesOn, askVars, Speaks
<1>3. CASE RespondsCancelled
  BY <1>3, SpeaksOther DEF RespondsCancelled
<1>4. CASE PullAnswers
  BY <1>4, SpeaksPull
<1>5. CASE VerbAnswers
  BY <1>5, SpeaksOther DEF VerbAnswers
<1>6. CASE WalkAnswers
  <2>1. job.do \in Walks /\ job.do \notin {"publish", "pull"}
    BY <1>6 DEF WalkAnswers, Walks
  <2> QED
    BY <1>6, <2>1, SpeaksOther DEF WalkAnswers
<1> QED
  BY <1>1, <1>2, <1>3, <1>4, <1>5, <1>6 DEF ServerNext

LEMMA ItemsWait ==
    ASSUME ItemsSee, UNCHANGED <<job, documents>>, WorldStep
    PROVE  ItemsSee'
<1>1. ASSUME NEW v, Sighted(v, documents) PROVE Sighted(v, documents)'
  BY <1>1 DEF Sighted, WorldStep, TextOf
<1>2. PICK items : items = job.items
  OBVIOUS
<1>3. job.do \in {"pull", "workspace"} =>
        /\ items \in Seq(ToSet(items))
        /\ \A i \in ToSet(items) : i.kind = "full" => Sighted(i.result, documents)'
  BY <1>1, <1>2 DEF ItemsSee
<1> QED
  BY <1>2, <1>3 DEF ItemsSee

LEMMA ItemsGrow ==
    ASSUME PullGoesOn, Kinds, Buffers, JobOK, MemoSees, ItemsSee
    PROVE  ItemsSee'
<1> DEFINE d == First(job.todo)
<1>1. job.do \in {"pull", "workspace"} /\ job.todo # {} /\ UNCHANGED <<documents, worldVars>>
  BY DEF PullGoesOn
<1>2. /\ DOMAIN job = {"do", "id", "previous", "ids", "todo", "items"}
      /\ job.todo \in SUBSET Docs /\ disk \in Sheets /\ documents \in Sheets
  BY <1>1 DEF JobOK, Walks, Idle, Kinds, Buffers
<1>3. d \in Docs
  BY <1>1, <1>2, FirstOf
<1>4. PICK r : r = Check(documents, d, TextOf(documents, d))
  OBVIOUS
<1>5. Sighted(r, documents)
  BY <1>2, <1>3, <1>4, CheckSighted
<1> DEFINE Grown(i) == job' = [job EXCEPT !.todo = @ \ {d}, !.items = Append(@, i)]
<1>6. \/ job' = [job EXCEPT !.todo = @ \ {d}]
      \/ \E i : /\ i.kind # "full" \/ (i.kind = "full" /\ i.result = r)
                /\ Grown(i)
  <2>1. job' = [job EXCEPT !.todo = @ \ {d}] \/ Judges(d, job.ids[d], job.previous[d])
    BY DEF PullGoesOn
  <2> DEFINE u == Item(d, job.ids[d], "unchanged", None, FALSE)
             f == Item(d, job.ids[d], "full", r, Remembers(documents, d, TextOf(documents, d)))
  <2>2. u.kind # "full" /\ f.kind = "full" /\ f.result = r
    BY DEF Item
  <2>3. Judges(d, job.ids[d], job.previous[d]) => Grown(u) \/ Grown(f)
    BY <1>4 DEF Judges, Checks
  <2> HIDE DEF u, f, Grown
  <2> QED
    BY <2>1, <2>2, <2>3, Zenon
<1> HIDE DEF d
<1>7. job.items \in Seq(ToSet(job.items))
      /\ \A i \in ToSet(job.items) : i.kind = "full" => Sighted(i.result, documents)
  BY <1>1 DEF ItemsSee
<1>8. \A v : Sighted(v, documents) => Sighted(v, documents)'
  BY <1>1 DEF Sighted, TextOf, worldVars
<1>9. CASE job' = [job EXCEPT !.todo = @ \ {d}]
  <2>1. job'.items = job.items
    BY <1>2, <1>9
  <2> QED
    BY <1>7, <1>8, <2>1 DEF ItemsSee
<1>10. ASSUME NEW i, i.kind # "full" \/ (i.kind = "full" /\ i.result = r), Grown(i)
       PROVE  ItemsSee'
  <2>1. job'.items = Append(job.items, i)
    BY <1>2, <1>10
  <2>2. job'.items \in Seq(ToSet(job'.items)) /\ ToSet(job'.items) \subseteq ToSet(job.items) \cup {i}
    BY <1>7, <2>1, OneMore
  <2>3. \A x \in ToSet(job'.items) : x.kind = "full" => Sighted(x.result, documents)'
    BY <1>5, <1>7, <1>8, <1>10, <2>2
  <2> QED
    BY <2>2, <2>3 DEF ItemsSee
<1> QED
  BY <1>6, <1>9, <1>10

\* A new job has said nothing.
LEMMA ItemsBegin ==
    ASSUME NEW m, Handles(m), Pipes, documents \in Sheets
    PROVE  ItemsSee'
<1>1. CASE PullBegins(m)
  <2>1. job'.items = <<>>
    BY <1>1 DEF PullBegins
  <2>2. ToSet(<<>>) = {} /\ <<>> \in Seq({})
    BY DEF ToSet
  <2> QED
    BY <2>1, <2>2 DEF ItemsSee
<1>2. CASE WalkBegins(m)
  <2>1. job'.do \in Walks
    BY <1>2 DEF WalkBegins
  <2> QED
    BY <2>1 DEF ItemsSee, Walks
<1>3. CASE VerbBegins(m)
  BY <1>3 DEF VerbBegins, ItemsSee
<1>4. CASE ~(PullBegins(m) \/ WalkBegins(m) \/ VerbBegins(m))
  <2>1. Takings(m)
    BY HandlersTake
  <2>2. job = Idle
    BY <2>1 DEF Takings, AtLoop
  <2>3. job' = job
    BY <1>4 DEF Handles, Plain, ExitNotice, Raises, DidOpen, DidChange, DidSave, DidClose, AsksType,
             Completes, AsksText, FindsSymbol, WillRename, ActsOnCode, ColorsAll, ColorsDelta
  <2> QED
    BY <2>2, <2>3 DEF ItemsSee, Idle
<1> QED
  BY <1>1, <1>2, <1>3, <1>4

LEMMA ServerItems ==
    ASSUME ServerNext, Kinds, Pipes, Buffers, JobOK, MemoSees, ItemsSee
    PROVE  ItemsSee'
<1>1. CASE \E m \in {Head(Swept)} : Handles(m)
  BY <1>1, ItemsBegin DEF Buffers
<1>2. CASE Reads \/ DropsCancels \/ RespondsCancelled \/ EndsAtEof
  <2>1. UNCHANGED <<job, documents, worldVars>>
    BY <1>2 DEF Reads, DropsCancels, RespondsCancelled, EndsAtEof, docVars
  <2>2. WorldStep
    BY <2>1 DEF WorldStep, worldVars
  <2> QED
    BY <2>1, <2>2, ItemsWait
<1>3. CASE PullGoesOn
  BY <1>3, ItemsGrow
<1>4. CASE PullAnswers \/ WalkAnswers \/ VerbAnswers
  BY <1>4 DEF PullAnswers, WalkAnswers, VerbAnswers, ItemsSee, Idle
<1>5. CASE WalkGoesOn
  <2>1. job.do \in Walks
    BY <1>5 DEF WalkGoesOn
  <2>2. DOMAIN job = {"do", "id", "name", "from", "sites", "texts", "todo"}
    BY <2>1 DEF JobOK, Walks, Idle
  <2>3. \E todo, sites : job' = [job EXCEPT !.todo = todo, !.sites = sites]
    BY <1>5, <2>2 DEF WalkGoesOn, Checks
  <2>4. job'.do = job.do
    BY <2>2, <2>3
  <2> QED
    BY <2>1, <2>4 DEF ItemsSee, Walks
<1> QED
  BY <1>1, <1>2, <1>3, <1>4, <1>5 DEF ServerNext

LEMMA ClientSees ==
    ASSUME ClientNext, Kinds, Pipes
    PROVE  WorldStep
<1>1. UNCHANGED worldVars \/ \E d \in Docs : \E t \in MaybeTexts : Saves(d, t)
  BY ClientWorld
<1>2. CASE UNCHANGED worldVars
  BY <1>2 DEF WorldStep, worldVars
<1>3. ASSUME NEW d \in Docs, NEW t \in MaybeTexts, Saves(d, t)
      PROVE  WorldStep
  <2>1. disk \in Sheets /\ moved \in [Docs -> Nat]
    BY DEF Kinds
  <2>2. \A x \in Docs : /\ x = d => moved'[x] # 0
                        /\ x # d => moved'[x] = moved[x] /\ disk'[x] = disk[x]
    BY <1>3, <2>1 DEF Saves, Sheets
  <2> QED
    BY <2>2 DEF WorldStep
<1> QED
  BY <1>1, <1>2, <1>3

Sees == MemoSees /\ ItemsSee

LEMMA SeesStep ==
    ASSUME ServerInv, Sees, [LspNext]_lspVars
    PROVE  Sees'
<1>0. Kinds /\ Pipes /\ Buffers /\ JobOK /\ disk \in Sheets /\ MemoSees /\ ItemsSee
  BY DEF ServerInv, Kinds, Sees
<1>1. CASE ServerNext /\ UNCHANGED clientVars
  <2>1. UNCHANGED worldVars
    BY <1>0, <1>1, ServerPipes DEF worldVars
  <2>2. WorldStep
    BY <2>1 DEF WorldStep, worldVars
  <2>3. MemoSees'
    BY <1>0, <1>1, <2>2, ServerChecks, StepKeepsMemo
  <2>4. ItemsSee'
    BY <1>0, <1>1, ServerItems
  <2> QED
    BY <2>3, <2>4 DEF Sees
<1>2. CASE ClientNext
  <2>1. WorldStep /\ UNCHANGED <<docVars, job>>
    BY <1>0, <1>2, ClientSees, ClientWrites DEF Pipes
  <2>2. DocStep /\ documents' = documents
    BY <2>1 DEF DocStep, docVars
  <2>3. MemoSees'
    BY <1>0, <2>1, <2>2, StepKeepsMemo
  <2>4. ItemsSee'
    BY <1>0, <2>1, <2>2, ItemsWait
  <2> QED
    BY <2>3, <2>4 DEF Sees
<1>3. CASE UNCHANGED lspVars
  <2>1. WorldStep /\ UNCHANGED <<docVars, job>> /\ documents' = documents
    BY <1>3 DEF WorldStep, lspVars, serverVars, worldVars, docVars
  <2>2. DocStep
    BY <2>1 DEF DocStep
  <2>3. MemoSees'
    BY <1>0, <2>1, <2>2, StepKeepsMemo
  <2>4. ItemsSee'
    BY <1>0, <2>1, ItemsWait
  <2> QED
    BY <2>3, <2>4 DEF Sees
<1> QED
  BY <1>1, <1>2, <1>3 DEF LspNext, Ended

LEMMA SaysWhatItSees ==
    ASSUME ServerInv, Asking, Sees, LspNext, Said
    PROVE  \A v \in VerdictsIn(News) : \A x \in DOMAIN v.view :
             documents'[x] # None \/ moved'[x] = 0 => v.view[x] = TextOf(documents', x)
<1>0. Kinds /\ Pipes /\ Buffers /\ JobOK /\ MemoSees /\ ItemsSee /\ Apart
  BY DEF ServerInv, Sees, Asking
<1>1. ~(stdout' = stdout) /\ stdout \in Seq(ToSet(stdout))
  BY <1>0 DEF Said, Apart
<1>2. CASE ServerNext /\ UNCHANGED clientVars
  <2>1. moved' = moved
    BY <1>0, <1>2, ServerPipes DEF worldVars
  <2>2. PICK a : stdout' = Append(stdout, a)
                 /\ \A v \in VerdictsIn(a) : Sighted(v, documents')
    BY <1>0, <1>1, <1>2, ServerSpeaks DEF Speaks
  <2>3. News = a
    BY <1>1, <2>2, SaidIs
  <2> QED
    BY <2>1, <2>2, <2>3 DEF Sighted
<1>3. CASE ClientNext
  <2>1. UNCHANGED <<inbox, job>> /\ (ClientTaking \/ stdout' = stdout)
    BY <1>0, <1>3, ClientDoes DEF Pipes, ClientWriting
  <2> QED
    BY <1>0, <1>1, <2>1, TakingKeepsApart
<1>4. CASE Ended
  BY <1>1, <1>4 DEF Ended, lspVars, serverVars
<1> QED
  BY <1>2, <1>3, <1>4 DEF LspNext

\* No verdict that is said rests on another text of an open document than its
\* buffer's, remembered or not (analysis.cr check, the memo and its overrides;
\* server.cr publish_diagnostics, result_for, document_diagnostic).
THEOREM VerdictsSeeBuffers == LspSpec => VerdictSeesBuffers
<1>1. LspInit => Sees
  BY DEF LspInit, ClientInit, ServerInit, Sees, MemoSees, ItemsSee, NoMemo, Idle
<1>2. ServerInv /\ Sees /\ [LspNext]_lspVars => Sees'
  BY SeesStep
<1>3. ServerInv /\ Asking /\ Sees /\ [LspNext]_lspVars =>
        [Said => \A v \in VerdictsIn(News) : \A x \in DOMAIN v.view :
           documents'[x] # None \/ moved'[x] = 0
             => v.view[x] = TextOf(documents', x)]_lspVars
  BY SaysWhatItSees
<1> QED
  BY <1>1, <1>2, <1>3, ServerHolds, RequestsApart, PTL DEF LspSpec, VerdictSeesBuffers

-----------------------------------------------------------------------------
(* Result ids *)

\* A stamp is of a buffer as it is, or of a file as it is or was.
StampOK(s) ==
    \E x \in Docs :
        \/ documents[x] # None /\ s = <<x, documents[x], 0>>
        \/ /\ documents[x] = None /\ s[1] = x /\ s[2] = None
           /\ s[3] \in Nat /\ s[3] <= moved[x]

IdsOK ==
    job.do \in {"pull", "workspace"} =>
        /\ job.todo \subseteq DOMAIN job.ids
        /\ \A d \in DOMAIN job.ids : \A s \in job.ids[d] : StampOK(s)

SpreadView(d, view) ==
    \E T \in Sheets : \E F : Spreads(F, d, T) /\ view = [x \in F[Len(Files)] |-> T[x]]

\* The verdict h rests on what the stamps of its id say, and on the file as it
\* is if its stamp is of the file as it is.
StampsHold(h) ==
    /\ SpreadView(h.doc, h.result.view)
    /\ \A s \in h.resultId : \A x \in DOMAIN h.result.view : s[1] = x =>
         /\ x \in Docs
         /\ s[2] # None => h.result.view[x] = s[2]
         /\ s[2] = None => s[3] \in Nat /\ s[3] <= moved[x]
                           /\ (s[3] = moved[x] => h.result.view[x] = disk[x])

HandedOK == \A h \in handed : ~h.again => StampsHold(h)

\* A file that is written gets another stamp.
WorldGrows ==
    \A x \in Docs : \/ moved'[x] = moved[x] /\ disk'[x] = disk[x]
                    \/ moved'[x] \in Nat /\ moved'[x] > moved[x]

LEMMA ClientGrows ==
    ASSUME ClientNext, Kinds, Pipes
    PROVE  WorldGrows
<1>1. UNCHANGED worldVars \/ \E d \in Docs : \E t \in MaybeTexts : Saves(d, t)
  BY ClientWorld
<1>2. CASE UNCHANGED worldVars
  BY <1>2 DEF WorldGrows, worldVars
<1>3. ASSUME NEW d \in Docs, NEW t \in MaybeTexts, Saves(d, t)
      PROVE  WorldGrows
  <2>1. disk \in Sheets /\ moved \in [Docs -> Nat]
    BY DEF Kinds
  <2>2. \A x \in Docs : /\ x = d => moved'[x] = moved[x] + 1
                        /\ x # d => moved'[x] = moved[x] /\ disk'[x] = disk[x]
    BY <1>3, <2>1 DEF Saves, Sheets
  <2>3. \A x \in Docs : moved[x] \in Nat
    BY <2>1
  <2> QED
    BY <2>2, <2>3 DEF WorldGrows
<1> QED
  BY <1>1, <1>2, <1>3

LEMMA StampStays ==
    ASSUME NEW s, StampOK(s), WorldGrows, documents' = documents, moved \in [Docs -> Nat]
    PROVE  StampOK(s)'
<1>1. PICK x \in Docs :
        \/ documents[x] # None /\ s = <<x, documents[x], 0>>
        \/ /\ documents[x] = None /\ s[1] = x /\ s[2] = None
           /\ s[3] \in Nat /\ s[3] <= moved[x]
  BY DEF StampOK
<1>2. moved[x] \in Nat /\ moved'[x] \in Nat /\ moved[x] <= moved'[x]
  BY DEF WorldGrows
<1>3. s[3] \in Nat /\ s[3] <= moved[x] => s[3] <= moved'[x]
  BY <1>2
<1> QED
  BY <1>1, <1>3 DEF StampOK

LEMMA StampsStay ==
    ASSUME NEW h, StampsHold(h), WorldGrows, moved \in [Docs -> Nat]
    PROVE  StampsHold(h)'
<1>1. SpreadView(h.doc, h.result.view)
  BY DEF StampsHold
<1>2. ASSUME NEW s \in h.resultId, NEW x \in DOMAIN h.result.view, s[1] = x
      PROVE  /\ x \in Docs
             /\ s[2] # None => h.result.view[x] = s[2]
             /\ s[2] = None => s[3] \in Nat /\ s[3] <= moved'[x]
                               /\ (s[3] = moved'[x] => h.result.view[x] = disk'[x])
  <2>1. /\ x \in Docs
        /\ s[2] # None => h.result.view[x] = s[2]
        /\ s[2] = None => s[3] \in Nat /\ s[3] <= moved[x]
                          /\ (s[3] = moved[x] => h.result.view[x] = disk[x])
    BY <1>2 DEF StampsHold
  <2>2. moved[x] \in Nat
        /\ \/ moved'[x] = moved[x] /\ disk'[x] = disk[x]
           \/ moved'[x] \in Nat /\ moved'[x] > moved[x]
    BY <2>1 DEF WorldGrows
  <2> QED
    BY <2>1, <2>2
<1> QED
  BY <1>1, <1>2 DEF StampsHold

\* The stamps that an id is made of.
LEMMA StampNow ==
    ASSUME NEW x \in Docs, moved \in [Docs -> Nat]
    PROVE  StampOK(Stamp(x))
<1>1. CASE documents[x] # None
  BY <1>1 DEF Stamp, StampOK
<1>2. CASE documents[x] = None
  <2>1. moved[x] \in Nat /\ moved[x] <= moved[x]
    OBVIOUS
  <2>2. Stamp(x) = <<x, None, moved[x]>>
    BY <1>2 DEF Stamp
  <2> QED
    BY <1>2, <2>1, <2>2 DEF StampOK
<1> QED
  BY <1>1, <1>2

LEMMA IdsBegin ==
    ASSUME NEW d \in Docs, Kinds, Buffers
    PROVE  \A s \in ResultId(d) : StampOK(s)
<1> DEFINE T == [x \in Docs |-> Listed(x)]
<1>1. disk \in Sheets /\ documents \in Sheets /\ moved \in [Docs -> Nat]
  BY DEF Kinds, Buffers
<1>2. \A x \in Docs : Listed(x) \in MaybeTexts
  BY <1>1 DEF Listed, TextOf, Sheets
<1>3. T \in Sheets /\ \A x \in Docs : T[x] = Listed(x)
  BY <1>2 DEF Sheets
<1> HIDE DEF T
<1>4. PICK F : Spreads(F, d, T)
  BY <1>3, SpreadOf
<1>5. \A s \in ResultId(d) : \E x \in Docs : s = Stamp(x)
  BY <1>3, <1>4, ResultIdSpread
<1> QED
  BY <1>1, <1>5, StampNow

LEMMA HandlersIdentify ==
    ASSUME NEW m, Handles(m), Kinds, Pipes, Buffers
    PROVE  IdsOK'
<1>0. documents \in Sheets /\ moved \in [Docs -> Nat]
  BY DEF Kinds, Buffers
<1>1. Takings(m) /\ Sent(m, nextId)
  BY <1>0, HandlersTake, ShiftOf DEF Takings
<1>2. CASE PullBegins(m)
  <2> DEFINE asked == IF m.op = "pull" THEN {m.doc} ELSE Entries
  <2>1. asked \subseteq Docs
    BY <1>1 DEF Sent, OnDocs, ReadsText, Entries
  <2>2. /\ job' = [do |-> m.op, id |-> m.id, previous |-> m.arg,
                   ids |-> [d \in asked |-> ResultId(d)], todo |-> asked, items |-> <<>>]
        /\ UNCHANGED <<worldVars, docVars>>
    BY <1>2 DEF PullBegins, calmVars
  <2> HIDE DEF asked
  <2>3. DOMAIN job'.ids = asked /\ \A d \in asked : job'.ids[d] = ResultId(d)
    BY <2>2
  <2>4. \A s : StampOK(s) => StampOK(s)'
    BY <2>2 DEF StampOK, worldVars, docVars
  <2>5. \A d \in DOMAIN job'.ids : \A s \in job'.ids[d] : StampOK(s)'
    BY <2>1, <2>3, <2>4, IdsBegin
  <2>6. job'.todo \subseteq DOMAIN job'.ids
    BY <2>2, <2>3
  <2> QED
    BY <2>5, <2>6 DEF IdsOK
<1>3. CASE WalkBegins(m)
  <2>1. job'.do \in Walks
    BY <1>3 DEF WalkBegins
  <2> QED
    BY <2>1 DEF IdsOK, Walks
<1>4. CASE VerbBegins(m)
  BY <1>4 DEF VerbBegins, IdsOK
<1>5. CASE ~(PullBegins(m) \/ WalkBegins(m) \/ VerbBegins(m))
  <2>1. job = Idle
    BY <1>1 DEF Takings, AtLoop
  <2>2. job' = job
    BY <1>5 DEF Handles, Plain, ExitNotice, Raises, DidOpen, DidChange, DidSave, DidClose, AsksType,
             Completes, AsksText, FindsSymbol, WillRename, ActsOnCode, ColorsAll, ColorsDelta
  <2> QED
    BY <2>1, <2>2 DEF IdsOK, Idle
<1> QED
  BY <1>2, <1>3, <1>4, <1>5

LEMMA IdsWait ==
    ASSUME IdsOK, WorldGrows, documents' = documents, moved \in [Docs -> Nat],
           job.do \in {"pull", "workspace"} => job'.ids = job.ids /\ job'.todo \subseteq job.todo,
           job'.do = job.do
    PROVE  IdsOK'
<1>1. ASSUME job.do \in {"pull", "workspace"}
      PROVE  /\ job'.todo \subseteq DOMAIN job'.ids
             /\ \A d \in DOMAIN job'.ids : \A s \in job'.ids[d] : StampOK(s)'
  BY <1>1, StampStays DEF IdsOK
<1> QED
  BY <1>1 DEF IdsOK

\* A verdict that is handed out was just compiled, or was recalled.
LEMMA HandsOver ==
    ASSUME PullGoesOn, Kinds, Buffers, JobOK, IdsOK, HandedOK
    PROVE  HandedOK'
<1> DEFINE d == First(job.todo)
           t == TextOf(documents, d)
           item == Item(d, job.ids[d], "full", Check(documents, d, t), Remembers(documents, d, t))
<1>1. job.do \in {"pull", "workspace"} /\ job.todo # {} /\ UNCHANGED <<documents, worldVars>>
  BY DEF PullGoesOn
<1>2. /\ job.todo \in SUBSET Docs /\ disk \in Sheets /\ documents \in Sheets
      /\ moved \in [Docs -> Nat]
  BY <1>1 DEF JobOK, Walks, Idle, Kinds, Buffers
<1>3. d \in job.todo /\ d \in Docs /\ d \in DOMAIN job.ids
  BY <1>1, <1>2, FirstOf DEF IdsOK
<1>4. handed' = handed \/ handed' = handed \cup {item}
  BY DEF PullGoesOn, Judges, Checks
<1> HIDE DEF d
<1>5. ASSUME ~item.again PROVE StampsHold(item)
  <2>1. /\ item.doc = d /\ item.resultId = job.ids[d]
        /\ item.result = Check(documents, d, t) /\ ~Remembers(documents, d, t)
    BY <1>5 DEF Item
  <2>2. item.result = Compile(documents, d, t)
    BY <2>1 DEF Check
  <2>3. t \in MaybeTexts
    BY <1>2, <1>3, TextOfOf
  <2> DEFINE T == [x \in Docs |-> TextOf(documents, x)]
  <2>4. T \in Sheets
    BY <1>2 DEF Sheets, TextOf
  <2>5. \A x \in Docs : T[x] = IF x = d THEN t ELSE TextOf(documents, x)
    OBVIOUS
  <2>6. \A x \in Docs : T[x] = TextOf(documents, x)
    OBVIOUS
  <2> HIDE DEF T
  <2>7. PICK F : Spreads(F, d, T)
    BY <1>3, <2>4, SpreadOf
  <2>8. item.result.view = View(documents, d, t)
    BY <1>2, <1>3, <2>2, <2>3, CompileOf
  <2> HIDE DEF item, t
  <2>9. item.result.view = [x \in F[Len(Files)] |-> T[x]]
    BY <1>3, <2>5, <2>7, <2>8, ViewSpread
  <2>10. F[Len(Files)] \subseteq Docs
    BY <2>7, LspAssumption DEF Spreads
  <2>11. SpreadView(item.doc, item.result.view)
    BY <2>1, <2>4, <2>7, <2>9 DEF SpreadView
  <2>12. ASSUME NEW s \in item.resultId, NEW x \in DOMAIN item.result.view, s[1] = x
         PROVE  /\ x \in Docs
                /\ s[2] # None => item.result.view[x] = s[2]
                /\ s[2] = None => s[3] \in Nat /\ s[3] <= moved[x]
                                  /\ (s[3] = moved[x] => item.result.view[x] = disk[x])
    <3>1. x \in Docs /\ item.result.view[x] = TextOf(documents, x)
      BY <2>6, <2>9, <2>10, <2>12
    <3>2. StampOK(s)
      BY <1>1, <1>3, <2>1, <2>12 DEF IdsOK
    <3>3. \/ documents[x] # None /\ s[2] = documents[x]
          \/ documents[x] = None /\ s[2] = None /\ s[3] \in Nat /\ s[3] <= moved[x]
      BY <2>12, <3>2 DEF StampOK
    <3> QED
      BY <3>1, <3>3 DEF TextOf
  <2> QED
    BY <2>11, <2>12 DEF StampsHold
<1> HIDE DEF item
<1>6. \A h : StampsHold(h) => StampsHold(h)'
  BY <1>1 DEF StampsHold, worldVars
<1> QED
  BY <1>4, <1>5, <1>6 DEF HandedOK

Identified == IdsOK /\ HandedOK

LEMMA ServerHandsOver ==
    ASSUME ServerNext, UNCHANGED clientVars, Kinds, Pipes, Buffers, JobOK, Identified
    PROVE  Identified'
<1>0. /\ moved \in [Docs -> Nat] /\ documents \in Sheets /\ IdsOK /\ HandedOK
  BY DEF Kinds, Buffers, Identified
<1>1. UNCHANGED worldVars
  BY ServerPipes DEF worldVars
<1>2. WorldGrows /\ \A h : StampsHold(h) => StampsHold(h)'
  BY <1>1 DEF WorldGrows, StampsHold, worldVars
<1>3. CASE \E m \in {Head(Swept)} : Handles(m)
  <2>1. PICK m : Handles(m)
    BY <1>3
  <2>2. handed' = handed
    BY <2>1 DEF Handles, calmVars, Plain, ExitNotice, Raises, DidOpen, DidChange, DidSave, DidClose, AsksType,
             Completes, AsksText, FindsSymbol, WillRename, ActsOnCode, ColorsAll, ColorsDelta, PullBegins,
             WalkBegins, VerbBegins
  <2>3. IdsOK'
    BY <2>1, HandlersIdentify
  <2> QED
    BY <1>0, <1>2, <2>2, <2>3 DEF Identified, HandedOK
<1>4. CASE Reads \/ DropsCancels \/ RespondsCancelled \/ EndsAtEof
  <2>1. UNCHANGED <<job, documents, handed>>
    BY <1>4 DEF Reads, DropsCancels, RespondsCancelled, EndsAtEof, docVars
  <2>2. IdsOK'
    BY <1>0, <1>2, <2>1, IdsWait
  <2> QED
    BY <1>0, <1>2, <2>1, <2>2 DEF Identified, HandedOK
<1>5. CASE PullGoesOn
  <2>1. HandedOK'
    BY <1>0, <1>5, HandsOver
  <2>2. job.do \in {"pull", "workspace"} /\ documents' = documents
    BY <1>5 DEF PullGoesOn
  <2>3. DOMAIN job = {"do", "id", "previous", "ids", "todo", "items"}
    BY <2>2 DEF JobOK, Walks, Idle
  <2>4. \E d, items : job' = [job EXCEPT !.todo = @ \ {d}, !.items = items]
                      \/ job' = [job EXCEPT !.todo = @ \ {d}]
    BY <1>5 DEF PullGoesOn, Judges, Checks
  <2>5. job'.do = job.do /\ job'.ids = job.ids /\ job'.todo \subseteq job.todo
    BY <2>3, <2>4
  <2>6. IdsOK'
    BY <1>0, <1>2, <2>2, <2>5, IdsWait
  <2> QED
    BY <2>1, <2>6 DEF Identified
<1>6. CASE PullAnswers \/ WalkAnswers \/ VerbAnswers
  <2>1. job' = Idle /\ handed' = handed
    BY <1>6 DEF PullAnswers, WalkAnswers, VerbAnswers
  <2> QED
    BY <1>0, <1>2, <2>1 DEF Identified, HandedOK, IdsOK, Idle
<1>7. CASE WalkGoesOn
  <2>1. job.do \in Walks /\ handed' = handed
    BY <1>7 DEF WalkGoesOn
  <2>2. DOMAIN job = {"do", "id", "name", "from", "sites", "texts", "todo"}
    BY <2>1 DEF JobOK, Walks, Idle
  <2>3. \E todo, sites : job' = [job EXCEPT !.todo = todo, !.sites = sites]
    BY <1>7, <2>2 DEF WalkGoesOn, Checks
  <2>4. job'.do = job.do
    BY <2>2, <2>3
  <2>5. IdsOK'
    BY <2>1, <2>4 DEF IdsOK, Walks
  <2> QED
    BY <1>0, <1>2, <2>1, <2>5 DEF Identified, HandedOK
<1> QED
  BY <1>3, <1>4, <1>5, <1>6, <1>7 DEF ServerNext

LEMMA IdentifiedStep ==
    ASSUME ServerInv, Identified, [LspNext]_lspVars
    PROVE  Identified'
<1>0. /\ Kinds /\ Pipes /\ Buffers /\ JobOK /\ moved \in [Docs -> Nat]
      /\ IdsOK /\ HandedOK
  BY DEF ServerInv, Kinds, Identified
<1>1. CASE ServerNext /\ UNCHANGED clientVars
  BY <1>0, <1>1, ServerHandsOver
<1>2. ASSUME WorldGrows, UNCHANGED <<documents, job, handed>>
      PROVE  Identified'
  <2>1. IdsOK'
    BY <1>0, <1>2, IdsWait
  <2>2. HandedOK'
    BY <1>0, <1>2, StampsStay DEF HandedOK
  <2> QED
    BY <2>1, <2>2 DEF Identified
<1>3. CASE ClientNext
  <2>1. WorldGrows
    BY <1>0, <1>3, ClientGrows
  <2>2. UNCHANGED <<documents, job, handed>>
    BY <1>0, <1>3, ClientDoes DEF Pipes, docVars
  <2> QED
    BY <1>2, <2>1, <2>2
<1>4. CASE UNCHANGED lspVars
  <2>1. WorldGrows /\ UNCHANGED <<documents, job, handed>>
    BY <1>4 DEF WorldGrows, lspVars, worldVars, serverVars, docVars
  <2> QED
    BY <1>2, <2>1
<1> QED
  BY <1>1, <1>3, <1>4 DEF LspNext, Ended

LEMMA UnchangedOf ==
    ASSUME ServerInv, Identified, root, NEW d \in Docs, NEW h \in handed, h.doc = d,
           ~h.again, h.resultId = ResultId(d), \A x \in DOMAIN Now(d) : Now(d)[x] # None
    PROVE  h.result.view = Now(d)
<1>0. /\ disk \in Sheets /\ documents \in Sheets /\ HandedOK
  BY DEF ServerInv, Kinds, Buffers, Identified
<1> DEFINE T == [x \in Docs |-> TextOf(documents, x)]
           W(E) == E[Len(Files)]
<1>2. T \in Sheets
  BY <1>0 DEF Sheets, TextOf
<1>3. \A x \in Docs : /\ T[x] = TextOf(documents, x) /\ T[x] = Listed(x)
                      /\ T[x] = IF x = d THEN TextOf(documents, d) ELSE TextOf(documents, x)
  BY DEF Listed
<1> HIDE DEF T
<1>4. PICK F : Spreads(F, d, T)
  BY <1>2, SpreadOf
<1>5. Now(d) = [x \in W(F) |-> T[x]]
  <2>1. PICK t : t = TextOf(documents, d)
    OBVIOUS
  <2>2. \A x \in Docs : T[x] = IF x = d THEN t ELSE TextOf(documents, x)
    BY <1>3, <2>1
  <2>3. View(documents, d, t) = [x \in F[Len(Files)] |-> T[x]]
    BY <1>4, <2>2, ViewSpread
  <2> QED
    BY <2>1, <2>3 DEF Now
<1>6. /\ W(F) \subseteq Docs
      /\ ResultId(d) = {Stamp(x) : x \in {y \in W(F) : T[y] # None}}
  BY <1>3, <1>4, ResultIdSpread
<1>7. StampsHold(h)
  BY <1>0 DEF HandedOK
<1>8. PICK S \in Sheets : \E G : Spreads(G, d, S) /\ h.result.view = [x \in W(G) |-> S[x]]
  BY <1>7 DEF StampsHold, SpreadView
<1>9. PICK G : Spreads(G, d, S) /\ h.result.view = [x \in W(G) |-> S[x]]
  BY <1>8
<1> HIDE DEF W
<1>10. ASSUME NEW x \in W(F) \cap W(G) PROVE T[x] = S[x]
  <2>1. x \in Docs /\ T[x] # None /\ T[x] = TextOf(documents, x)
    BY <1>3, <1>5, <1>6
  <2>2. Stamp(x) \in h.resultId
    BY <1>6, <2>1
  <2>3. x \in DOMAIN h.result.view /\ h.result.view[x] = S[x]
    BY <1>9
  <2>4. PICK s \in h.resultId : s = Stamp(x)
    BY <2>2
  <2>5. s[1] = x
    BY <2>4 DEF Stamp
  <2>6. /\ s[2] # None => S[x] = s[2]
        /\ s[2] = None /\ s[3] = moved[x] => S[x] = disk[x]
    BY <1>7, <2>3, <2>5 DEF StampsHold
  <2>7. CASE documents[x] # None
    BY <2>1, <2>4, <2>6, <2>7 DEF Stamp, TextOf
  <2>8. CASE documents[x] = None
    <3>1. s[2] = None /\ s[3] = moved[x]
      BY <2>4, <2>8 DEF Stamp
    <3> QED
      BY <2>1, <2>6, <2>8, <3>1 DEF TextOf
  <2> QED
    BY <2>7, <2>8
<1>11. W(F) = W(G)
  <2>1. \A x \in F[Len(Files)] \cap G[Len(Files)] : T[x] = S[x]
    BY <1>10 DEF W
  <2> QED
    BY <1>4, <1>9, <2>1, SpreadsAlike DEF W
<1> QED
  BY <1>5, <1>9, <1>10, <1>11

LEMMA IdentifiedMeans ==
    ASSUME ServerInv, Identified
    PROVE  UnchangedIsTrue
<1> SUFFICES ASSUME root, job.do \in {"pull", "workspace"}, job.todo # {},
                    NEW d \in {First(job.todo)}, NEW h \in handed,
                    h.doc = d, ~h.again, h.resultId = job.ids[d],
                    job.ids[d] = ResultId(d), \A x \in DOMAIN Now(d) : Now(d)[x] # None
             PROVE  h.result.view = Now(d)
  BY DEF UnchangedIsTrue
<1>1. job.todo \in SUBSET Docs
  BY DEF ServerInv, JobOK, Walks, Idle
<1>2. d \in Docs
  BY <1>1, FirstOf
<1>3. h.resultId = ResultId(d)
  OBVIOUS
<1> QED
  BY <1>2, <1>3, UnchangedOf

\* An "unchanged" is true: what the verdict with this id was judged by is there
\* as it was, for all the files that were written in between (server.cr
\* result_ids, workspace_diagnostic).
THEOREM UnchangedHolds == LspSpec => []UnchangedIsTrue
<1>1. LspInit => Identified
  BY DEF LspInit, ClientInit, ServerInit, Identified, IdsOK, HandedOK, Idle
<1>2. ServerInv /\ Identified /\ [LspNext]_lspVars => Identified'
  BY IdentifiedStep
<1>3. ServerInv /\ Identified => UnchangedIsTrue
  BY IdentifiedMeans
<1> QED
  BY <1>1, <1>2, <1>3, ServerHolds, PTL DEF LspSpec
=============================================================================
