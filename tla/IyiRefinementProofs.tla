------------------------ MODULE IyiRefinementProofs ------------------------
(***************************************************************************)
(* Every channel implements FifoChannel, for every set of fibers, groups   *)
(* and channels, every capacity, every list of arms and every program.     *)
(***************************************************************************)
EXTENDS IyiRendezvousProofs

-----------------------------------------------------------------------------
(* What is left of a list *)

\* The first m elements of w are some of the first n of q, in their order.
Among(w, m, q, n) == \A i \in 1..m : \E a \in 1..n : q[a] = w[i]
Follows(w, m, q, n) ==
    \A i, j \in 1..m : i < j =>
        \E a, b \in 1..n : a < b /\ q[a] = w[i] /\ q[b] = w[j]

Within(w, q) ==
    Among(w, Len(w), q, Len(q)) /\ Follows(w, Len(w), q, Len(q))

\* A list that holds everything once.
Single(q) == \A i, j \in 1..Len(q) : q[i] = q[j] => i = j

\* What is left of such a list is one.
LEMMA WithinOnce ==
    ASSUME NEW w, Len(w) \in Nat, NEW q, Len(q) \in Nat,
           Within(w, q), Single(q)
    PROVE  Single(w)
<1>1. ASSUME NEW i \in 1..Len(w), NEW j \in 1..Len(w), i < j, w[i] = w[j]
      PROVE  FALSE
  <2>1. PICK a, b \in 1..Len(q) : a < b /\ q[a] = w[i] /\ q[b] = w[j]
    BY <1>1 DEF Within, Follows
  <2>2. a = b
    BY <1>1, <2>1 DEF Single
  <2> QED
    BY <2>1, <2>2
<1>2. \A i, j \in 1..Len(w) : i = j \/ i < j \/ j < i
  OBVIOUS
<1> QED
  BY <1>1, <1>2 DEF Single

\* Where the elements of two lists joined come from.
LEMMA JoinedAt ==
    ASSUME NEW T, NEW p \in Seq(T), NEW q \in Seq(T)
    PROVE  /\ p \o q \in Seq(T) /\ Len(p \o q) = Len(p) + Len(q)
           /\ Len(p) \in Nat /\ Len(q) \in Nat
           /\ \A i \in 1..Len(p) : (p \o q)[i] = p[i]
           /\ \A i \in 1..Len(q) : (p \o q)[Len(p) + i] = q[i]
  OBVIOUS

\* What is left when something leaves the second of two lists.
LEMMA WithinJoined ==
    ASSUME NEW T, NEW p \in Seq(T), NEW w \in Seq(T), NEW q \in Seq(T),
           Within(w, q)
    PROVE  Within(p \o w, p \o q)
<1> PICK L, M, N : L = Len(p) /\ M = Len(w) /\ N = Len(q)
  OBVIOUS
<1> PICK x, y : x = p \o w /\ y = p \o q
  OBVIOUS
<1>1. Len(w) = M /\ Len(q) = N
  OBVIOUS
<1>2. /\ L \in Nat /\ M \in Nat /\ N \in Nat
      /\ Len(x) = L + M /\ Len(y) = L + N
  BY JoinedAt
<1>3. \A i \in 1..L : x[i] = p[i] /\ y[i] = p[i]
  BY JoinedAt
<1>4. /\ \A i \in 1..M : x[L + i] = w[i]
      /\ \A i \in 1..N : y[L + i] = q[i]
  BY JoinedAt
<1>5. \A i \in 1..M : \E b \in 1..N : q[b] = w[i]
  <2>1. Among(w, M, q, N)
    BY <1>1, Zenon DEF Within
  <2> QED
    BY <2>1 DEF Among
<1>6. \A i, j \in 1..M : i < j =>
         \E a, b \in 1..N : a < b /\ q[a] = w[i] /\ q[b] = w[j]
  <2>1. Follows(w, M, q, N)
    BY <1>1, Zenon DEF Within
  <2> QED
    BY <2>1 DEF Follows
<1>7. \A i \in 1..L : i \in 1..(L + N)
  BY <1>2
<1>8. ASSUME NEW i \in 1..(L + M), i \notin 1..L
      PROVE  i - L \in 1..M /\ x[i] = w[i - L]
  <2>1. i - L \in 1..M /\ L + (i - L) = i
    BY <1>2, <1>8
  <2> QED
    BY <1>4, <2>1
<1>9. ASSUME NEW b \in 1..N PROVE L + b \in 1..(L + N) /\ y[L + b] = q[b]
  BY <1>2, <1>4
<1>10. \A i \in 1..(L + M) : \E a \in 1..(L + N) : y[a] = x[i]
  <2> TAKE i \in 1..(L + M)
  <2>1. CASE i \in 1..L
    BY <1>3, <1>7, <2>1
  <2>2. CASE i \notin 1..L
    <3>1. i - L \in 1..M /\ x[i] = w[i - L]
      BY <1>8, <2>2
    <3>2. PICK b \in 1..N : q[b] = w[i - L]
      BY <1>5, <3>1
    <3> QED
      BY <1>9, <3>1, <3>2
  <2> QED
    BY <2>1, <2>2
<1>11. ASSUME NEW i \in 1..(L + M), NEW j \in 1..(L + M), i < j
       PROVE  \E a, b \in 1..(L + N) : a < b /\ y[a] = x[i] /\ y[b] = x[j]
  <2>1. CASE j \in 1..L
    <3>1. i \in 1..L
      BY <1>2, <1>11, <2>1
    <3> QED
      BY <1>3, <1>7, <1>11, <2>1, <3>1
  <2>2. CASE i \in 1..L /\ j \notin 1..L
    <3>1. j - L \in 1..M /\ x[j] = w[j - L]
      BY <1>8, <2>2
    <3>2. PICK b \in 1..N : q[b] = w[j - L]
      BY <1>5, <3>1
    <3>3. L + b \in 1..(L + N) /\ y[L + b] = x[j] /\ i < L + b
      BY <1>2, <1>9, <2>2, <3>1, <3>2
    <3> QED
      BY <1>3, <1>7, <2>2, <3>3
  <2>3. CASE i \notin 1..L
    <3>1. j \notin 1..L
      BY <1>2, <1>11, <2>3
    <3>2. /\ i - L \in 1..M /\ x[i] = w[i - L]
          /\ j - L \in 1..M /\ x[j] = w[j - L]
      BY <1>8, <2>3, <3>1
    <3>3. i - L < j - L
      BY <1>2, <1>11
    <3>4. PICK a, b \in 1..N : a < b /\ q[a] = w[i - L] /\ q[b] = w[j - L]
      BY <1>6, <3>2, <3>3
    <3>5. L + a < L + b
      BY <1>2, <3>4
    <3>6. /\ L + a \in 1..(L + N) /\ y[L + a] = x[i]
          /\ L + b \in 1..(L + N) /\ y[L + b] = x[j]
      BY <1>9, <3>2, <3>4
    <3> QED
      BY <3>5, <3>6
  <2> QED
    BY <2>1, <2>2, <2>3
<1>12. Among(x, L + M, y, L + N)
  BY <1>10 DEF Among
<1>13. Follows(x, L + M, y, L + N)
  BY <1>11 DEF Follows
<1> QED
  BY <1>2, <1>12, <1>13, Zenon DEF Within

\* Taking the head of a list takes it off what is left of it.
LEMMA WithinTail ==
    ASSUME NEW T, NEW x \in Seq(T), x # <<>>, NEW y \in Seq(T), y # <<>>,
           Within(x, y), Single(y), Head(x) = Head(y)
    PROVE  Within(Tail(x), Tail(y))
<1> PICK M, N : M = Len(x) /\ N = Len(y)
  OBVIOUS
<1> PICK v, w : v = Tail(x) /\ w = Tail(y)
  OBVIOUS
<1>1. Len(x) = M /\ Len(y) = N
  OBVIOUS
<1>2. /\ M \in Nat /\ N \in Nat /\ M >= 1 /\ N >= 1 /\ x[1] = y[1]
      /\ Len(v) = M - 1 /\ Len(w) = N - 1
      /\ \A i \in 1..(M - 1) : v[i] = x[i + 1]
      /\ \A i \in 1..(N - 1) : w[i] = y[i + 1]
  OBVIOUS
<1>3. \A i, j \in 1..M : i < j =>
         \E a, b \in 1..N : a < b /\ y[a] = x[i] /\ y[b] = x[j]
  <2>1. Follows(x, M, y, N)
    BY <1>1, Zenon DEF Within
  <2> QED
    BY <2>1 DEF Follows
<1>4. \A a, b \in 1..N : y[a] = y[b] => a = b
  BY <1>1, Zenon DEF Single
<1>5. \A i \in 1..(M - 1) : \E a \in 1..(N - 1) : y[a + 1] = x[i + 1]
  <2> TAKE i \in 1..(M - 1)
  <2>1. 1 \in 1..M /\ i + 1 \in 1..M /\ 1 < i + 1
    BY <1>2
  <2>2. PICK a, b \in 1..N : a < b /\ y[a] = x[1] /\ y[b] = x[i + 1]
    BY <1>3, <2>1
  <2>3. b - 1 \in 1..(N - 1) /\ (b - 1) + 1 = b
    BY <1>2, <2>2
  <2> QED
    BY <2>2, <2>3
<1>6. \A i, j \in 1..(M - 1) : i < j =>
         \E a, b \in 1..(N - 1) : a < b /\ w[a] = v[i] /\ w[b] = v[j]
  <2> SUFFICES ASSUME NEW i \in 1..(M - 1), NEW j \in 1..(M - 1), i < j
               PROVE  \E a, b \in 1..(N - 1) :
                        a < b /\ w[a] = v[i] /\ w[b] = v[j]
    OBVIOUS
  <2>1. i + 1 \in 1..M /\ j + 1 \in 1..M /\ i + 1 < j + 1
    BY <1>2
  <2>2. PICK a, b \in 1..N : a < b /\ y[a] = x[i + 1] /\ y[b] = x[j + 1]
    BY <1>3, <2>1
  <2>3. PICK c \in 1..(N - 1) : y[c + 1] = x[i + 1]
    BY <1>5
  <2>4. c + 1 \in 1..N
    BY <1>2
  <2>5. a = c + 1
    BY <1>4, <2>2, <2>3, <2>4
  <2>6. /\ a - 1 \in 1..(N - 1) /\ b - 1 \in 1..(N - 1) /\ a - 1 < b - 1
        /\ (a - 1) + 1 = a /\ (b - 1) + 1 = b
    BY <1>2, <2>2, <2>5
  <2>7. w[a - 1] = v[i] /\ w[b - 1] = v[j]
    BY <1>2, <2>2, <2>6
  <2> QED
    BY <2>6, <2>7
<1>7. Follows(v, M - 1, w, N - 1)
  BY <1>6 DEF Follows
<1>8. Among(v, M - 1, w, N - 1)
  <2>1. \A i \in 1..(M - 1) : \E a \in 1..(N - 1) : w[a] = v[i]
    BY <1>2, <1>5
  <2> QED
    BY <2>1 DEF Among
<1> QED
  BY <1>2, <1>7, <1>8, Zenon DEF Within

-----------------------------------------------------------------------------
(* The nodes that wait, in their order *)

UpTo(W, e) == {j \in W : j <= e}

\* The places of a queue are numbers.
LEMMA PlacesAre ==
    ASSUME NEW N \in Nat, NEW W \in SUBSET (1..N)
    PROVE  \A e \in W : e \in Nat /\ e >= 1 /\ e <= N
<1>1. \A e : e \in W => e \in 1..N
  OBVIOUS
<1>2. \A e \in 1..N : e \in Nat /\ e >= 1 /\ e <= N
  OBVIOUS
<1> QED
  BY <1>1, <1>2, Zenon

\* The places of a queue that somebody waits at are finitely many.
LEMMA PlacesEnd ==
    ASSUME NEW N \in Nat, NEW W \in SUBSET (1..N)
    PROVE  /\ IsFiniteSet(W) /\ Cardinality(W) \in Nat
           /\ \A e : /\ IsFiniteSet(UpTo(W, e))
                     /\ Cardinality(UpTo(W, e)) \in Nat
                     /\ Cardinality(UpTo(W, e)) <= Cardinality(W)
<1>1. IsFiniteSet(1..N)
  BY FS_Interval
<1>2. IsFiniteSet(W)
  BY <1>1, FS_Subset
<1>3. \A e : UpTo(W, e) \subseteq W
  BY DEF UpTo
<1> QED
  BY <1>2, <1>3, FS_Subset, FS_CardinalityType

\* Further on there are more before.
LEMMA FurtherOn ==
    ASSUME NEW N \in Nat, NEW W \in SUBSET (1..N), NEW d \in W,
           NEW e \in W, d < e
    PROVE  Cardinality(UpTo(W, d)) < Cardinality(UpTo(W, e))
<1> PICK D, E : D = UpTo(W, d) /\ E = UpTo(W, e)
  OBVIOUS
<1>1. \A j \in W : j \in Nat
  BY PlacesAre
<1>2. \A j : /\ j \in D <=> j \in W /\ j <= d
             /\ j \in E <=> j \in W /\ j <= e
  BY DEF UpTo
<1>3. D \subseteq E /\ e \in E /\ e \notin D
  <2>1. d \in Nat /\ e \in Nat
    BY <1>1
  <2>2. (\A j \in W : j <= d => j <= e) /\ e <= e /\ ~(e <= d)
    BY <1>1, <2>1
  <2> QED
    BY <1>2, <2>2, Zenon
<1>4. /\ IsFiniteSet(E)
      /\ Cardinality(D) \in Nat /\ Cardinality(E) \in Nat
  BY PlacesEnd
<1>5. Cardinality(D) <= Cardinality(E) /\ Cardinality(D) # Cardinality(E)
  <2>1. D # E
    BY <1>3
  <2> QED
    BY <1>3, <1>4, <2>1, FS_Subset
<1>6. Cardinality(D) < Cardinality(E)
  BY <1>4, <1>5
<1> QED
  BY <1>6

\* Nth lists the places of W: it takes one after the other, and all of them.
LEMMA NthLists ==
    ASSUME NEW N \in Nat, NEW W \in SUBSET (1..N)
    PROVE  /\ Cardinality(W) \in Nat /\ \A e \in W : e \in Nat
           /\ \A k \in 1..Cardinality(W) :
                Nth(W, k) \in W /\ Cardinality(UpTo(W, Nth(W, k))) = k
           /\ \A j, k \in 1..Cardinality(W) : j < k => Nth(W, j) < Nth(W, k)
           /\ \A e \in W : /\ Cardinality(UpTo(W, e)) \in 1..Cardinality(W)
                           /\ Nth(W, Cardinality(UpTo(W, e))) = e
<1>1. Cardinality(W) \in Nat
  BY PlacesEnd
<1>2. \A e \in W : e \in Nat
  BY PlacesAre
<1>3. ASSUME NEW k \in 1..Cardinality(W)
      PROVE  Nth(W, k) \in W /\ Cardinality(UpTo(W, Nth(W, k))) = k
  BY NthIsOne DEF UpTo
<1>4. ASSUME NEW j \in 1..Cardinality(W), NEW k \in 1..Cardinality(W), j < k
      PROVE  Nth(W, j) < Nth(W, k)
  <2>1. /\ Nth(W, j) \in W /\ Cardinality(UpTo(W, Nth(W, j))) = j
        /\ Nth(W, k) \in W /\ Cardinality(UpTo(W, Nth(W, k))) = k
    BY <1>3
  <2>2. CASE Nth(W, k) < Nth(W, j)
    <3>1. k < j
      BY <2>1, <2>2, FurtherOn
    <3> QED
      BY <1>4, <3>1
  <2>3. Nth(W, j) # Nth(W, k)
    BY <1>4, <2>1
  <2>4. Nth(W, j) \in Nat /\ Nth(W, k) \in Nat
    BY <1>2, <2>1
  <2> QED
    BY <2>2, <2>3, <2>4
<1>5. ASSUME NEW e \in W
      PROVE  /\ Cardinality(UpTo(W, e)) \in 1..Cardinality(W)
             /\ Nth(W, Cardinality(UpTo(W, e))) = e
  <2> PICK k : k = Cardinality(UpTo(W, e))
    OBVIOUS
  <2>1. k \in 1..Cardinality(W)
    <3>1. e \in UpTo(W, e)
      BY DEF UpTo
    <3>2. Cardinality(UpTo(W, e)) # 0
      BY <3>1, PlacesEnd, FS_EmptySet
    <3> QED
      BY <1>1, <3>2, PlacesEnd
  <2>2. Nth(W, k) \in W /\ Cardinality(UpTo(W, Nth(W, k))) = k
    BY <1>3, <2>1
  <2>5. k \in Nat
    BY <1>1, <2>1
  <2>3. ~(Nth(W, k) < e) /\ ~(e < Nth(W, k))
    <3>1. ~(k < k)
      BY <2>5
    <3>2. k = Cardinality(UpTo(W, e))
      OBVIOUS
    <3> QED
      BY <2>2, <3>1, <3>2, FurtherOn
  <2>4. Nth(W, k) \in Nat /\ e \in Nat
    BY <1>2, <2>2
  <2> QED
    BY <2>1, <2>3, <2>4
<1> QED
  BY <1>1, <1>3, <1>4, <1>5, <1>2

\* The values of the nodes of q at the places W, in their order.
Sel(q, W) == [k \in 1..Cardinality(W) |-> q[Nth(W, k)].v]

\* They are a list.
LEMMA SelIs ==
    ASSUME NEW M, NEW q \in Seq(SendNodes(M)), NEW W \in SUBSET (1..Len(q))
    PROVE  /\ Sel(q, W) \in Seq(M) /\ Len(Sel(q, W)) = Cardinality(W)
           /\ Cardinality(W) \in Nat
           /\ \A k \in 1..Cardinality(W) : Sel(q, W)[k] = q[Nth(W, k)].v
<1>1. Len(q) \in Nat
  OBVIOUS
<1>2. Cardinality(W) \in Nat /\ \A k \in 1..Cardinality(W) : Nth(W, k) \in W
  BY <1>1, NthLists
<1>3. ASSUME NEW k \in 1..Cardinality(W) PROVE q[Nth(W, k)].v \in M
  <2>1. q[Nth(W, k)] \in SendNodes(M)
    <3>1. Nth(W, k) \in 1..Len(q)
      BY <1>2
    <3> QED
      BY <3>1
  <2> QED
    BY <2>1 DEF SendNodes
<1>4. /\ Sel(q, W) \in [1..Cardinality(W) -> M]
      /\ \A k \in 1..Cardinality(W) : Sel(q, W)[k] = q[Nth(W, k)].v
  BY <1>3 DEF Sel
<1> QED
  BY <1>2, <1>4, IsList

\* A list of the values at some of these places, in their order, is within
\* them: g says which.
LEMMA SelWithin ==
    ASSUME NEW M, NEW q \in Seq(SendNodes(M)), NEW W \in SUBSET (1..Len(q)),
           NEW w, Len(w) \in Nat, NEW g,
           \A k \in 1..Len(w) : g[k] \in W /\ w[k] = q[g[k]].v,
           \A i, j \in 1..Len(w) : i < j => g[i] < g[j]
    PROVE  Within(w, Sel(q, W))
<1> PICK y, n : y = Sel(q, W) /\ n = Cardinality(W)
  OBVIOUS
<1>1. Len(y) = n /\ n \in Nat /\ \A k \in 1..n : y[k] = q[Nth(W, k)].v
  BY SelIs
<1>2. Len(q) \in Nat
  OBVIOUS
<1>3. /\ \A j, k \in 1..n : j < k => Nth(W, j) < Nth(W, k)
      /\ \A k \in 1..n : Nth(W, k) \in W
      /\ \A e \in W : e \in Nat
      /\ \A e \in W : \E k \in 1..n : Nth(W, k) = e
  BY <1>2, NthLists
<1>4. Among(w, Len(w), y, n)
  <2>1. ASSUME NEW i \in 1..Len(w) PROVE \E a \in 1..n : y[a] = w[i]
    <3>1. PICK a \in 1..n : Nth(W, a) = g[i]
      BY <1>3
    <3> QED
      BY <1>1, <3>1
  <2> QED
    BY <2>1 DEF Among
<1>5. ASSUME NEW i \in 1..Len(w), NEW j \in 1..Len(w), i < j
      PROVE  \E a, b \in 1..n : a < b /\ y[a] = w[i] /\ y[b] = w[j]
  <2>1. PICK a \in 1..n : Nth(W, a) = g[i]
    BY <1>3
  <2>2. PICK b \in 1..n : Nth(W, b) = g[j]
    BY <1>3
  <2>3. g[i] < g[j] /\ g[i] \in Nat /\ g[j] \in Nat
    BY <1>3, <1>5
  <2>4. a # b /\ ~(b < a)
    BY <1>3, <2>1, <2>2, <2>3
  <2>5. a < b
    BY <1>1, <2>4
  <2> QED
    BY <1>1, <2>1, <2>2, <2>5
<1>6. Follows(w, Len(w), y, n)
  BY <1>5 DEF Follows
<1> QED
  BY <1>1, <1>4, <1>6, Zenon DEF Within

-----------------------------------------------------------------------------
(* What looking at a queue, and waking its oldest node, leave of it *)

\* r is q without its first m nodes.
CutAt(q, m, r) ==
    /\ m \in 0..Len(q) /\ Len(r) = Len(q) - m
    /\ \A i \in 1..Len(r) : r[i] = q[m + i]

\* The places of a queue that somebody waits at.
LEMMA WaitsIn ==
    ASSUME NEW T, NEW q \in Seq(T)
    PROVE  /\ Waits(q) \in SUBSET (1..Len(q)) /\ Len(q) \in Nat
           /\ \A i : i \in Waits(q) <=> i \in 1..Len(q) /\ Current(q[i])
<1>1. DOMAIN q = 1..Len(q) /\ Len(q) \in Nat
  OBVIOUS
<1>2. \A i : i \in Waits(q) <=> i \in DOMAIN q /\ Current(q[i])
  BY DEF Waits
<1> QED
  BY <1>1, <1>2

\* The end of a list is the list without what comes before it.
LEMMA EndCut ==
    ASSUME NEW T, NEW q \in Seq(T), NEW m \in 0..Len(q)
    PROVE  CutAt(q, m, SubSeq(q, m + 1, Len(q)))
<1>1. Len(q) \in Nat /\ m \in Nat /\ m <= Len(q)
  OBVIOUS
<1>2. m + 1 \in 1..(Len(q) + 1) /\ Len(q) \in ((m + 1) - 1)..Len(q)
  BY <1>1
<1> DEFINE r == SubSeq(q, m + 1, Len(q))
<1>3. /\ Len(r) = IF m + 1 <= Len(q) THEN Len(q) - (m + 1) + 1 ELSE 0
      /\ \A i \in 1..(Len(q) - (m + 1) + 1) : r[i] = q[(m + 1) + i - 1]
  BY <1>2, SubSeqProperties
<1> HIDE DEF r
<1>4. Len(r) = Len(q) - m
  BY <1>1, <1>3
<1>5. ASSUME NEW i \in 1..Len(r) PROVE r[i] = q[m + i]
  <2>1. i \in 1..(Len(q) - (m + 1) + 1) /\ (m + 1) + i - 1 = m + i
    BY <1>1, <1>4
  <2> QED
    BY <1>3, <2>1
<1> QED
  BY <1>4, <1>5 DEF CutAt, r

\* A look cuts off nobody who waits.
LEMMA PrunedCut ==
    ASSUME NEW T, NEW q \in [Channels -> Seq(T)], NEW dir, NEW tried,
           NEW ch \in Channels
    PROVE  \E m : /\ CutAt(q[ch], m, Pruned(q, dir, tried)[ch])
                  /\ \A e \in Waits(q[ch]) : e > m
<1> PICK p, r : p = q[ch] /\ r = Pruned(q, dir, tried)[ch]
  OBVIOUS
<1>1. p \in Seq(T) /\ Len(p) \in Nat
  <2>1. p \in Seq(T)
    OBVIOUS
  <2> QED
    BY <2>1
<1>2. \/ r = p
      \/ r = <<>> /\ Waits(p) = {}
      \/ Waits(p) # {} /\ r = SubSeq(p, Min(Waits(p)), Len(p))
  BY DEF Pruned
<1>3. \A e \in Waits(p) : e \in Nat /\ e >= 1
  BY <1>1, WaitsIn, PlacesAre
<1>4. CASE r = p
  <2>1. CutAt(p, 0, r)
    <3>1. 0 \in 0..Len(p) /\ Len(p) = Len(p) - 0
      BY <1>1
    <3>2. \A i \in 1..Len(p) : 0 + i = i
      BY <1>1
    <3> QED
      BY <1>4, <3>1, <3>2 DEF CutAt
  <2>2. \A e \in Waits(p) : e > 0
    BY <1>3
  <2> QED
    BY <2>1, <2>2
<1>5. CASE r = <<>> /\ Waits(p) = {}
  <2>1. CutAt(p, Len(p), r)
    <3>1. Len(p) \in 0..Len(p) /\ Len(p) - Len(p) = 0 /\ 1..0 = {}
      BY <1>1
    <3>2. Len(r) = 0
      BY <1>5
    <3> QED
      BY <3>1, <3>2 DEF CutAt
  <2> QED
    BY <1>5, <2>1
<1>6. CASE Waits(p) # {} /\ r = SubSeq(p, Min(Waits(p)), Len(p))
  <2> PICK k : k = Min(Waits(p))
    OBVIOUS
  <2>1. k \in Waits(p) /\ \A e \in Waits(p) : k <= e
    <3>1. Waits(p) \in SUBSET Nat
      BY <1>3
    <3> QED
      BY <1>6, <3>1, Smallest
  <2>2. k \in Nat /\ k >= 1 /\ k <= Len(p)
    BY <1>1, <2>1, WaitsIn, PlacesAre
  <2>3. k - 1 \in 0..Len(p) /\ (k - 1) + 1 = k
    BY <1>1, <2>2
  <2>4. CutAt(p, k - 1, r)
    BY <1>1, <1>6, <2>3, EndCut
  <2>5. \A e \in Waits(p) : e > k - 1
    BY <1>3, <2>1, <2>2
  <2> QED
    BY <2>4, <2>5
<1> QED
  BY <1>2, <1>4, <1>5, <1>6

\* Who waits at what is left.
LEMMA CutWaits ==
    ASSUME NEW T, NEW q \in Seq(T), NEW r \in Seq(T), NEW m, CutAt(q, m, r),
           \A e \in Waits(q) : e > m
    PROVE  /\ \A i \in Waits(r) : m + i \in Waits(q)
           /\ \A e \in Waits(q) : e - m \in Waits(r)
           /\ Waits(r) = {} <=> Waits(q) = {}
<1>1. /\ Len(q) \in Nat /\ m \in 0..Len(q) /\ Len(r) = Len(q) - m
      /\ \A i \in 1..Len(r) : r[i] = q[m + i]
  BY DEF CutAt
<1>2. ASSUME NEW i \in Waits(r) PROVE m + i \in Waits(q)
  <2>1. i \in 1..Len(r) /\ Current(r[i])
    BY <1>2, WaitsIn
  <2>2. m + i \in 1..Len(q) /\ Current(q[m + i])
    BY <1>1, <2>1
  <2> QED
    BY <2>2, WaitsIn
<1>3. ASSUME NEW e \in Waits(q) PROVE e - m \in Waits(r)
  <2>1. e \in 1..Len(q) /\ Current(q[e]) /\ e > m
    BY <1>3, WaitsIn
  <2>2. e - m \in 1..Len(r) /\ m + (e - m) = e
    BY <1>1, <2>1
  <2>3. Current(r[e - m])
    BY <1>1, <2>1, <2>2
  <2> QED
    BY <2>2, <2>3, WaitsIn
<1> QED
  BY <1>2, <1>3

\* A wake takes the first who waits, and cuts off what is before it.
LEMMA BehindCut ==
    ASSUME NEW T, NEW q \in Seq(T), NEW r \in Seq(T), NEW m, CutAt(q, m, r),
           \A e \in Waits(q) : e > m
    PROVE  \E k : /\ CutAt(q, k, Behind(r))
                  /\ Waits(q) # {} => /\ k \in Waits(q) /\ Oldest(r) = q[k]
                                      /\ \A e \in Waits(q) : k <= e
<1>1. /\ Len(q) \in Nat /\ m \in 0..Len(q) /\ Len(r) = Len(q) - m
      /\ \A i \in 1..Len(r) : r[i] = q[m + i]
  BY DEF CutAt
<1>2. CASE Waits(q) = {}
  <2>1. Behind(r) = <<>>
    BY <1>2, CutWaits DEF Behind
  <2>2. /\ Len(q) \in 0..Len(q) /\ Len(q) - Len(q) = 0
        /\ 1..0 = {} /\ Len(<<>>) = 0
    BY <1>1
  <2>3. CutAt(q, Len(q), <<>>)
    BY <2>2 DEF CutAt
  <2> QED
    BY <1>2, <2>1, <2>3
<1>3. CASE Waits(q) # {}
  <2>1. Waits(r) # {} /\ Waits(r) \in SUBSET (1..Len(r)) /\ Len(r) \in Nat
    BY <1>3, CutWaits, WaitsIn
  <2>2. \A i \in Waits(r) : i \in Nat /\ i >= 1 /\ i <= Len(r)
    BY <2>1, PlacesAre
  <2> PICK d : d = Min(Waits(r))
    OBVIOUS
  <2>3. d \in Waits(r) /\ \A i \in Waits(r) : d <= i
    <3>1. Waits(r) \in SUBSET Nat
      BY <2>2
    <3> QED
      BY <2>1, <3>1, Smallest
  <2>4. d \in 1..Len(r) /\ d \in 0..Len(r)
    BY <2>2, <2>3
  <2>5. m + d \in Waits(q) /\ Oldest(r) = q[m + d]
    BY <1>1, <2>3, <2>4, CutWaits DEF Oldest
  <2>6. ASSUME NEW e \in Waits(q) PROVE m + d <= e
    <3>1. e - m \in Waits(r) /\ e \in Nat
      BY <1>1, CutWaits, WaitsIn, PlacesAre
    <3>2. d <= e - m
      BY <2>3, <3>1
    <3> QED
      BY <1>1, <2>4, <3>1, <3>2
  <2>7. CutAt(r, d, Behind(r))
    BY <2>1, <2>4, EndCut DEF Behind
  <2>8. CutAt(q, m + d, Behind(r))
    <3> PICK b : b = Behind(r)
      OBVIOUS
    <3>1. /\ Len(b) = Len(r) - d
          /\ \A i \in 1..Len(b) : b[i] = r[d + i]
      BY <2>7 DEF CutAt
    <3>2. m + d \in 0..Len(q) /\ Len(b) = Len(q) - (m + d)
      BY <1>1, <2>4, <3>1
    <3>3. ASSUME NEW i \in 1..Len(b) PROVE b[i] = q[(m + d) + i]
      <4>1. d + i \in 1..Len(r) /\ m + (d + i) = (m + d) + i
        BY <1>1, <2>4, <3>1
      <4> QED
        BY <1>1, <3>1, <4>1
    <3> QED
      BY <3>2, <3>3 DEF CutAt
  <2> QED
    BY <2>5, <2>6, <2>8
<1> QED
  BY <1>2, <1>3

-----------------------------------------------------------------------------
(* What is offered together on a queue *)

ValuesAt(q, W) == {q[i].v : i \in W}

\* What whoever is waited for at place k offers at the places W.
Beside(q, W, k) == ValuesAt(q, {j \in W : q[j].fiber = q[k].fiber})

\* What is offered together, by the places where it is waited for.
LEMMA TogetherIs ==
    ASSUME NEW q, NEW W
    PROVE  /\ OfferedTogether(q, W) = {Beside(q, W, k) : k \in W}
           /\ UNION OfferedTogether(q, W) = ValuesAt(q, W)
<1>1. OfferedTogether(q, W) = {Beside(q, W, k) : k \in W}
  BY DEF OfferedTogether, Beside, ValuesAt
<1>2. ASSUME NEW v \in UNION OfferedTogether(q, W) PROVE v \in ValuesAt(q, W)
  BY <1>1 DEF Beside, ValuesAt
<1>3. ASSUME NEW k \in W PROVE q[k].v \in UNION OfferedTogether(q, W)
  <2>1. q[k].v \in Beside(q, W, k)
    BY DEF Beside, ValuesAt
  <2> QED
    BY <1>1, <2>1
<1> QED
  BY <1>1, <1>2, <1>3 DEF ValuesAt

\* No two places offer the same.
Apart(q, W) == \A i, j \in W : q[i].v = q[j].v => i = j

\* Nobody who stays leaves a place.
Whole(q, W, K) == \A i \in K, j \in W : q[i].fiber = q[j].fiber => j \in K

\* When some fibers leave, what they offered together leaves.
LEMMA SomeLeave ==
    ASSUME NEW q, NEW W, NEW K \in SUBSET W, Apart(q, W), Whole(q, W, K)
    PROVE  LET gone == OfferedTogether(q, W \ K)
           IN  /\ gone \subseteq OfferedTogether(q, W)
               /\ OfferedTogether(q, K) = OfferedTogether(q, W) \ gone
               /\ ValuesAt(q, K) = ValuesAt(q, W) \ UNION gone
<1> DEFINE L == W \ K
<1>1. ASSUME NEW k \in K PROVE Beside(q, K, k) = Beside(q, W, k)
  <2>1. {j \in K : q[j].fiber = q[k].fiber}
          = {j \in W : q[j].fiber = q[k].fiber}
    BY DEF Whole
  <2> QED
    BY <2>1 DEF Beside
<1>2. ASSUME NEW k \in L PROVE Beside(q, L, k) = Beside(q, W, k)
  <2>1. {j \in L : q[j].fiber = q[k].fiber}
          = {j \in W : q[j].fiber = q[k].fiber}
    BY DEF Whole
  <2> QED
    BY <2>1 DEF Beside
<1>3. ASSUME NEW k \in K, NEW l \in L PROVE Beside(q, K, k) # Beside(q, L, l)
  <2>1. q[k].v \in Beside(q, K, k)
    BY DEF Beside, ValuesAt
  <2>2. q[k].v \notin Beside(q, L, l)
    BY DEF Beside, ValuesAt, Apart
  <2> QED
    BY <2>1, <2>2
<1>4. /\ OfferedTogether(q, W) = {Beside(q, W, k) : k \in W}
      /\ OfferedTogether(q, K) = {Beside(q, K, k) : k \in K}
      /\ OfferedTogether(q, L) = {Beside(q, L, k) : k \in L}
      /\ UNION OfferedTogether(q, L) = ValuesAt(q, L)
  BY TogetherIs
<1>5. ValuesAt(q, K) = ValuesAt(q, W) \ ValuesAt(q, L)
  BY DEF ValuesAt, Apart
<1>6. \A k \in W : k \in K \/ k \in L
  OBVIOUS
<1> HIDE DEF L
<1>7. OfferedTogether(q, L) \subseteq OfferedTogether(q, W)
  <2>1. L \subseteq W
    BY DEF L
  <2> QED
    BY <1>2, <1>4, <2>1
<1>8. OfferedTogether(q, K) = OfferedTogether(q, W) \ OfferedTogether(q, L)
  BY <1>1, <1>2, <1>3, <1>4, <1>6
<1> QED
  BY <1>4, <1>5, <1>7, <1>8 DEF L

\* A cut moves the places of a queue.
LEMMA CutTogether ==
    ASSUME NEW q, NEW r, NEW m, CutAt(q, m, r), NEW V \in SUBSET (1..Len(r)),
           NEW K, K = {m + i : i \in V}, Len(q) \in Nat
    PROVE  /\ OfferedTogether(r, V) = OfferedTogether(q, K)
           /\ ValuesAt(r, V) = ValuesAt(q, K)
<1>1. \A i \in V : r[i] = q[m + i]
  BY DEF CutAt
<1>2. ASSUME NEW S \in SUBSET V
      PROVE  ValuesAt(r, S) = ValuesAt(q, {m + i : i \in S})
  <2>1. \A i \in S : r[i].v = q[m + i].v
    BY <1>1
  <2> QED
    BY <2>1 DEF ValuesAt
<1>3. ASSUME NEW k \in V PROVE Beside(r, V, k) = Beside(q, K, m + k)
  <2> DEFINE S == {j \in V : r[j].fiber = r[k].fiber}
             T == {j \in K : q[j].fiber = q[m + k].fiber}
  <2>1. T = {m + i : i \in S}
    <3>1. ASSUME NEW j \in T PROVE \E i \in S : j = m + i
      <4>1. PICK i \in V : j = m + i
        OBVIOUS
      <4>2. r[i].fiber = r[k].fiber
        BY <1>1, <4>1
      <4> QED
        BY <4>1, <4>2
    <3>2. ASSUME NEW i \in S PROVE m + i \in T
      BY <1>1
    <3> QED
      BY <3>1, <3>2
  <2>2. ValuesAt(r, S) = ValuesAt(q, T)
    <3>1. S \in SUBSET V
      OBVIOUS
    <3> HIDE DEF S, T
    <3> QED
      BY <1>2, <2>1, <3>1
  <2> QED
    BY <2>2 DEF Beside
<1>4. OfferedTogether(r, V) = {Beside(r, V, k) : k \in V}
  BY TogetherIs, Zenon
<1>5. OfferedTogether(q, K) = {Beside(q, K, k) : k \in K}
  BY Zenon DEF OfferedTogether, Beside, ValuesAt
<1>6. {Beside(q, K, k) : k \in K} = {Beside(q, K, m + k) : k \in V}
  OBVIOUS
<1>7. {Beside(q, K, m + k) : k \in V} = {Beside(r, V, k) : k \in V}
  BY <1>3
<1>8. OfferedTogether(r, V) = OfferedTogether(q, K)
  BY <1>4, <1>5, <1>6, <1>7, Zenon
<1> QED
  BY <1>2, <1>8

\* The list of the offers has what is offered.
LEMMA SelHolds ==
    ASSUME NEW M, NEW q \in Seq(SendNodes(M)), NEW W \in SUBSET (1..Len(q))
    PROVE  /\ ToSet(Sel(q, W)) = ValuesAt(q, W)
           /\ Single(Sel(q, W)) => Apart(q, W)
<1> PICK s, n : s = Sel(q, W) /\ n = Cardinality(W)
  OBVIOUS
<1>1. /\ s \in Seq(M) /\ Len(s) = n /\ n \in Nat
      /\ \A k \in 1..n : s[k] = q[Nth(W, k)].v
  BY SelIs
<1>2. Len(q) \in Nat
  OBVIOUS
<1>3. /\ \A k \in 1..n : Nth(W, k) \in W
      /\ \A e \in W : /\ Cardinality(UpTo(W, e)) \in 1..n
                      /\ Nth(W, Cardinality(UpTo(W, e))) = e
  BY <1>2, NthLists
<1>4. DOMAIN s = 1..n
  BY <1>1
<1>5. ToSet(s) = ValuesAt(q, W)
  <2>1. ASSUME NEW v \in ToSet(s) PROVE v \in ValuesAt(q, W)
    BY <1>1, <1>3, <1>4 DEF ToSet, ValuesAt
  <2>2. ASSUME NEW e \in W PROVE q[e].v \in ToSet(s)
    <3>1. PICK k \in 1..n : Nth(W, k) = e
      BY <1>3
    <3> QED
      BY <1>1, <1>4, <3>1 DEF ToSet
  <2> QED
    BY <2>1, <2>2 DEF ValuesAt
<1>6. ASSUME Single(s), NEW d \in W, NEW e \in W, q[d].v = q[e].v PROVE d = e
  <2>1. PICK j \in 1..n : Nth(W, j) = d
    BY <1>3
  <2>2. PICK k \in 1..n : Nth(W, k) = e
    BY <1>3
  <2>3. s[j] = s[k]
    BY <1>1, <1>6, <2>1, <2>2
  <2>4. j = k
    BY <1>1, <1>6, <2>3 DEF Single
  <2> QED
    BY <2>1, <2>2, <2>4
<1> QED
  BY <1>5, <1>6 DEF Apart

-----------------------------------------------------------------------------
(* What FifoChannel makes of this *)

\* What is left of a line without the values gone.
LEMMA WithoutThem ==
    ASSUME NEW c \in Channels, NEW w \in Seq(Nat), NEW q \in Seq(Nat),
           Single(w), Within(w, q), NEW gone, ToSet(w) = ToSet(q) \ gone
    PROVE  Fifo(c)!Without(w, q, gone)
<1>1. /\ DOMAIN w = 1..Len(w) /\ DOMAIN q = 1..Len(q)
      /\ Len(w) \in Nat /\ Len(q) \in Nat
  OBVIOUS
<1>2. \A i, j \in DOMAIN w : w[i] = w[j] => i = j
  BY <1>1 DEF Single
<1>3. /\ ToSet(w) = {w[i] : i \in DOMAIN w}
      /\ ToSet(q) = {q[i] : i \in DOMAIN q}
  BY DEF ToSet
<1>4. ASSUME NEW i \in DOMAIN w, NEW j \in DOMAIN w, i < j
      PROVE  \E a, b \in DOMAIN q : a < b /\ q[a] = w[i] /\ q[b] = w[j]
  <2>1. i \in 1..Len(w) /\ j \in 1..Len(w)
    BY <1>1
  <2>2. PICK a, b \in 1..Len(q) : a < b /\ q[a] = w[i] /\ q[b] = w[j]
    BY <1>4, <2>1 DEF Within, Follows
  <2> QED
    BY <1>1, <2>2
<1> QED
  BY <1>2, <1>3, <1>4, Zenon DEF Fifo!Without, Fifo!ValuesIn, Fifo!Once

\* What is left of a list that holds everything once does, and so does what
\* is left behind its head.
LEMMA SingleWithin ==
    ASSUME NEW T, NEW w \in Seq(T), NEW q \in Seq(T), Single(q), Within(w, q)
    PROVE  Single(w)
<1>1. Len(w) \in Nat /\ Len(q) \in Nat
  OBVIOUS
<1> QED
  BY <1>1, WithinOnce

\* What is left when the first of such a list has gone.
LEMMA SingleTail ==
    ASSUME NEW T, NEW q \in Seq(T), q # <<>>, Single(q)
    PROVE  /\ Tail(q) \in Seq(T) /\ Single(Tail(q))
           /\ ToSet(Tail(q)) = ToSet(q) \ {Head(q)}
<1> PICK t : t = Tail(q)
  OBVIOUS
<1>1. /\ Len(q) \in Nat /\ Len(t) = Len(q) - 1 /\ t \in Seq(T)
      /\ \A i \in 1..(Len(q) - 1) : t[i] = q[i + 1]
  OBVIOUS
<1>2. \A i \in 1..(Len(q) - 1) : i + 1 \in 1..Len(q) /\ i \in Nat
  BY <1>1
<1>3. \A i, j \in 1..(Len(q) - 1) : t[i] = t[j] => i = j
  BY <1>1, <1>2 DEF Single
<1>4. Single(t)
  BY <1>1, <1>3 DEF Single
<1>5. q \in Seq(ToSet(q)) /\ DOMAIN q = 1..Len(q)
  BY OverItself
<1>6. Lists(q, ToSet(q))
  BY <1>5 DEF Lists, Single
<1>7. ToSet(Tail(q)) = ToSet(q) \ {Head(q)}
  BY <1>6, ListsTail DEF Lists
<1> QED
  BY <1>1, <1>4, <1>7

\* A step is one of a line that holds every value once, and leaves it one.
Serves(c) == Fifo(c)!Next /\ Single(OnOffer(c)')

\* Offers that leave a line.
LEMMA SomeWithdraw ==
    ASSUME NEW c \in Channels, NEW x \in Seq(Nat), NEW y \in Seq(Nat),
           y = OnOffer(c), x = OnOffer(c)', Single(y), Within(x, y),
           NEW gone \in SUBSET Open(c), ToSet(x) = ToSet(y) \ UNION gone,
           Open(c)' = Open(c) \ gone, log'[c] = log[c],
           \/ closed'[c] = closed[c]
           \/ closed'[c] = TRUE /\ gone = Open(c)
    PROVE  Serves(c)
<1>1. Single(x)
  BY SingleWithin
<1>2. Fifo(c)!Without(x, y, UNION gone)
  BY <1>1, WithoutThem
<1>3. Fifo(c)!Withdraw
  <2>1. /\ Fifo(c)!Without(OnOffer(c)', OnOffer(c), UNION gone)
        /\ UNCHANGED log[c]
    BY <1>2
  <2> QED
    BY <2>1 DEF Fifo!Withdraw
<1> QED
  BY <1>1, <1>3 DEF Fifo!Next, Serves

\* The oldest offer of a line is received: nobody waits to send.
LEMMA ItemTaken ==
    ASSUME NEW c \in Channels, NEW y \in Seq(Nat), y = OnOffer(c), y # <<>>,
           OnOffer(c)' = Tail(y), Single(y), Open(c) = {}, Open(c)' = {},
           log'[c] = Append(log[c], Head(y)), closed'[c] = closed[c]
    PROVE  Serves(c)
<1>1. Single(OnOffer(c)')
  BY SingleTail
<1>2. Fifo(c)!Take
  BY DEF Fifo!Take
<1> QED
  BY <1>1, <1>2 DEF Fifo!Next, Serves

\* New offers join a line, or one of them what is left of it.
LEMMA OffersJoin ==
    ASSUME NEW c \in Channels, NEW a \in Seq(Nat), NEW b \in Seq(Nat),
           NEW y \in Seq(Nat), y = OnOffer(c), OnOffer(c)' = a \o b,
           b # <<>>, Single(y), Within(a, y), Single(b),
           NEW gone, ToSet(a) = ToSet(y) \ gone,
           ToSet(b) \cap (ToSet(y) \cup ToSet(log[c])) = {},
           \/ gone = {} /\ Open(c)' = Open(c) \cup {ToSet(b)}
           \/ /\ Len(b) = 1 /\ gone = UNION Open(c) /\ Open(c)' = {}
              /\ \A o, p \in Open(c) : o = p,
           ~closed[c], closed'[c] = closed[c], log'[c] = log[c]
    PROVE  Serves(c)
<1> PICK x, m, n : x = a \o b /\ m = Len(x) - Len(b) /\ n = Len(b)
  OBVIOUS
<1>1. /\ SubSeq(x, 1, m) = a /\ SubSeq(x, m + 1, Len(x)) = b
      /\ n \in 1..Len(x)
  OBVIOUS
<1>2. Single(a)
  BY SingleWithin
<1>3. Fifo(c)!Without(a, y, gone)
  BY <1>2, WithoutThem
<1>4. Single(x)
  <2>1. /\ DOMAIN a = 1..Len(a) /\ DOMAIN b = 1..Len(b) /\ DOMAIN x = 1..Len(x)
    OBVIOUS
  <2>2. Lists(a, ToSet(a)) /\ Lists(b, ToSet(b))
    <3>1. a \in Seq(ToSet(a)) /\ b \in Seq(ToSet(b))
      BY OverItself
    <3> QED
      BY <1>2, <2>1, <3>1 DEF Lists, Single
  <2>3. ToSet(a) \cap ToSet(b) = {}
    OBVIOUS
  <2>4. Lists(x, ToSet(a) \cup ToSet(b))
    BY <2>2, <2>3, ListsJoined
  <2> QED
    BY <2>1, <2>4 DEF Lists, Single
<1>5. \A i, j \in DOMAIN b : b[i] = b[j] => i = j
  <2>1. DOMAIN b = 1..Len(b)
    OBVIOUS
  <2> QED
    BY <2>1 DEF Single
<1>6. /\ ToSet(b) = {b[i] : i \in DOMAIN b}
      /\ ToSet(y) = {y[i] : i \in DOMAIN y}
      /\ ToSet(log[c]) = {log[c][i] : i \in DOMAIN log[c]}
  BY DEF ToSet
<1>7. ToSet(b) \subseteq Nat \ (ToSet(y) \cup ToSet(log[c]))
  BY ElementsOf
<1>8. /\ Fifo(c)!Once(b)
      /\ Fifo(c)!ValuesIn(b) = ToSet(b)
      /\ Fifo(c)!ValuesIn(b) \subseteq
           Nat \ (Fifo(c)!ValuesIn(y) \cup Fifo(c)!ValuesIn(log[c]))
  BY <1>5, <1>6, <1>7, Zenon DEF Fifo!Once, Fifo!ValuesIn
<1>9. PICK z : z = OnOffer(c)'
  OBVIOUS
<1>10. /\ SubSeq(z, 1, Len(z) - n) = a /\ SubSeq(z, Len(z) - n + 1, Len(z)) = b
       /\ n \in 1..Len(z) /\ n = Len(b)
  BY <1>1, <1>9
<1>11. /\ SubSeq(OnOffer(c)', 1, Len(OnOffer(c)') - n) = a
       /\ SubSeq(OnOffer(c)', Len(OnOffer(c)') - n + 1, Len(OnOffer(c)')) = b
       /\ n \in 1..Len(OnOffer(c)')
  BY <1>9, <1>10, Zenon
<1>12. Fifo(c)!Joined(n, gone)
  BY <1>3, <1>8, <1>11, Zenon DEF Fifo!Joined
<1>13. UNCHANGED <<log[c], closed[c]>>
  OBVIOUS
<1>14. CASE gone = {} /\ Open(c)' = Open(c) \cup {ToSet(b)}
  <2>1. /\ Fifo(c)!Joined(n, {}) /\ n \in 1..Len(OnOffer(c)')
        /\ Open(c)' = Open(c) \cup
             {Fifo(c)!ValuesIn(SubSeq(OnOffer(c)', Len(OnOffer(c)') - n + 1,
                                      Len(OnOffer(c)')))}
    BY <1>8, <1>11, <1>12, <1>14, Zenon
  <2>2. Fifo(c)!Join
    BY <1>13, <2>1, Zenon DEF Fifo!Join
  <2> QED
    BY <1>4, <1>9, <2>2 DEF Fifo!Next, Serves
<1>15. CASE /\ Len(b) = 1 /\ gone = UNION Open(c) /\ Open(c)' = {}
            /\ \A o, p \in Open(c) : o = p
  <2>1. Fifo(c)!Joined(1, UNION Open(c))
    BY <1>10, <1>12, <1>15, Zenon
  <2>2. Fifo(c)!Put
    BY <1>13, <1>15, <2>1, Zenon DEF Fifo!Put
  <2> QED
    BY <1>4, <1>9, <2>2 DEF Fifo!Next, Serves
<1> QED
  BY <1>14, <1>15

-----------------------------------------------------------------------------
(* The offers of a queue's nodes *)

\* With nobody waiting there are none.
LEMMA SelNone ==
    ASSUME NEW q
    PROVE  Sel(q, {}) = <<>>
<1>1. Cardinality({}) = 0
  BY FS_EmptySet
<1>2. 1..0 = {}
  OBVIOUS
<1> QED
  BY <1>1, <1>2 DEF Sel

\* The first of them is the oldest node's.
LEMMA SelHead ==
    ASSUME NEW M, NEW q \in Seq(SendNodes(M)), NEW W \in SUBSET (1..Len(q)),
           NEW k \in W, \A e \in W : k <= e
    PROVE  Sel(q, W) # <<>> /\ Head(Sel(q, W)) = q[k].v
<1> PICK s : s = Sel(q, W)
  OBVIOUS
<1>1. /\ s \in Seq(M) /\ Len(s) = Cardinality(W) /\ Cardinality(W) \in Nat
      /\ \A j \in 1..Cardinality(W) : s[j] = q[Nth(W, j)].v
  BY SelIs
<1>2. Len(q) \in Nat
  OBVIOUS
<1>3. /\ \A e \in W : e \in Nat
      /\ \A i, j \in 1..Cardinality(W) : i < j => Nth(W, i) < Nth(W, j)
      /\ \A j \in 1..Cardinality(W) : Nth(W, j) \in W
      /\ Cardinality(UpTo(W, k)) \in 1..Cardinality(W)
      /\ Nth(W, Cardinality(UpTo(W, k))) = k
  BY <1>2, NthLists
<1>4. 1 \in 1..Cardinality(W)
  BY <1>1, <1>3
<1>5. Nth(W, 1) = k
  <2>1. CASE Cardinality(UpTo(W, k)) = 1
    BY <1>3, <2>1
  <2>2. CASE Cardinality(UpTo(W, k)) # 1
    <3>1. 1 < Cardinality(UpTo(W, k))
      BY <1>1, <1>3, <2>2
    <3>2. Nth(W, 1) < k /\ Nth(W, 1) \in W
      BY <1>3, <1>4, <3>1
    <3>3. Nth(W, 1) \in Nat /\ k \in Nat /\ k <= Nth(W, 1)
      BY <1>3, <3>2
    <3> QED
      BY <3>2, <3>3
  <2> QED
    BY <2>1, <2>2
<1> QED
  BY <1>1, <1>4, <1>5

\* What a cut leaves of them.
LEMMA SelCut ==
    ASSUME NEW M, NEW q \in Seq(SendNodes(M)), NEW r \in Seq(SendNodes(M)),
           NEW m, CutAt(q, m, r), NEW W \in SUBSET (1..Len(q)),
           NEW V \in SUBSET (1..Len(r)), \A i \in V : m + i \in W
    PROVE  Within(Sel(r, V), Sel(q, W))
<1> PICK s, n : s = Sel(r, V) /\ n = Cardinality(V)
  OBVIOUS
<1>1. /\ Len(s) = n /\ n \in Nat
      /\ \A k \in 1..n : s[k] = r[Nth(V, k)].v
  BY SelIs
<1>2. Len(r) \in Nat /\ m \in Nat /\ \A i \in 1..Len(r) : r[i] = q[m + i]
  BY DEF CutAt
<1>3. /\ \A k \in 1..n : Nth(V, k) \in V
      /\ \A j, k \in 1..n : j < k => Nth(V, j) < Nth(V, k)
      /\ \A e \in V : e \in Nat
  BY <1>2, NthLists
<1> DEFINE g == [k \in 1..n |-> m + Nth(V, k)]
<1>4. \A k \in 1..Len(s) : g[k] \in W /\ s[k] = q[g[k]].v
  <2> TAKE k \in 1..Len(s)
  <2>1. Nth(V, k) \in V /\ Nth(V, k) \in 1..Len(r) /\ g[k] = m + Nth(V, k)
    BY <1>1, <1>3
  <2> QED
    BY <1>1, <1>2, <2>1
<1>5. \A i, j \in 1..Len(s) : i < j => g[i] < g[j]
  <2> TAKE i, j \in 1..Len(s)
  <2> HAVE i < j
  <2>1. /\ Nth(V, i) \in Nat /\ Nth(V, j) \in Nat /\ Nth(V, i) < Nth(V, j)
        /\ g[i] = m + Nth(V, i) /\ g[j] = m + Nth(V, j)
    BY <1>1, <1>3
  <2> QED
    BY <1>2, <2>1
<1> HIDE DEF g
<1> QED
  BY <1>1, <1>4, <1>5, SelWithin

\* The same, with the node that the cut was made behind.
LEMMA SelBehind ==
    ASSUME NEW M, NEW q \in Seq(SendNodes(M)), NEW r \in Seq(SendNodes(M)),
           NEW m, CutAt(q, m, r), NEW W \in SUBSET (1..Len(q)), m \in W,
           NEW V \in SUBSET (1..Len(r)), \A i \in V : m + i \in W
    PROVE  Within(<<q[m].v>> \o Sel(r, V), Sel(q, W))
<1> PICK s, n, w : s = Sel(r, V) /\ n = Cardinality(V) /\ w = <<q[m].v>> \o s
  OBVIOUS
<1>1. /\ s \in Seq(M) /\ Len(s) = n /\ n \in Nat
      /\ \A k \in 1..n : s[k] = r[Nth(V, k)].v
  BY SelIs
<1>2. Len(r) \in Nat /\ m \in Nat /\ \A i \in 1..Len(r) : r[i] = q[m + i]
  BY DEF CutAt
<1>3. /\ \A k \in 1..n : Nth(V, k) \in V
      /\ \A j, k \in 1..n : j < k => Nth(V, j) < Nth(V, k)
      /\ \A e \in V : e \in Nat /\ e >= 1
  BY <1>2, NthLists, PlacesAre
<1>4. /\ Len(w) = 1 + n /\ w[1] = q[m].v
      /\ \A k \in 1..n : w[1 + k] = s[k]
  <2>1. q[m].v \in M
    <3>1. m \in 1..Len(q)
      OBVIOUS
    <3>2. q[m] \in SendNodes(M)
      BY <3>1
    <3> QED
      BY <3>2 DEF SendNodes
  <2>2. <<q[m].v>> \in Seq(M) /\ Len(<<q[m].v>>) = 1 /\ <<q[m].v>>[1] = q[m].v
    BY <2>1
  <2> QED
    BY <1>1, <2>2, JoinedAt
<1> DEFINE g == [k \in 1..(1 + n) |-> IF k = 1 THEN m ELSE m + Nth(V, k - 1)]
<1>5. ASSUME NEW k \in 1..(1 + n), k # 1
      PROVE  /\ k - 1 \in 1..n /\ Nth(V, k - 1) \in V /\ 1 + (k - 1) = k
             /\ g[k] = m + Nth(V, k - 1)
  <2>1. k - 1 \in 1..n /\ 1 + (k - 1) = k
    BY <1>1, <1>5
  <2> QED
    BY <1>3, <1>5, <2>1
<1>6. g[1] = m
  BY <1>1
<1>7. ASSUME NEW k \in 1..(1 + n) PROVE g[k] \in W /\ w[k] = q[g[k]].v
  <2>1. CASE k = 1
    BY <1>4, <1>6, <2>1
  <2>2. CASE k # 1
    <3>1. /\ k - 1 \in 1..n /\ Nth(V, k - 1) \in V /\ w[k] = s[k - 1]
          /\ g[k] = m + Nth(V, k - 1)
      BY <1>4, <1>5, <2>2
    <3>2. Nth(V, k - 1) \in 1..Len(r)
      BY <3>1
    <3> QED
      BY <1>1, <1>2, <3>1, <3>2
  <2> QED
    BY <2>1, <2>2
<1>8. ASSUME NEW i \in 1..(1 + n), NEW j \in 1..(1 + n), i < j
      PROVE  g[i] < g[j]
  <2>1. j # 1
    BY <1>1, <1>8
  <2>2. /\ j - 1 \in 1..n /\ Nth(V, j - 1) \in V /\ g[j] = m + Nth(V, j - 1)
    BY <1>5, <2>1
  <2>3. Nth(V, j - 1) \in Nat /\ Nth(V, j - 1) >= 1
    BY <1>3, <2>2
  <2>4. CASE i = 1
    BY <1>2, <1>6, <2>2, <2>3, <2>4
  <2>5. CASE i # 1
    <3>1. i - 1 \in 1..n /\ Nth(V, i - 1) \in V /\ g[i] = m + Nth(V, i - 1)
      BY <1>5, <2>5
    <3>2. Nth(V, i - 1) \in Nat /\ i - 1 < j - 1
      <4>1. i - 1 < j - 1
        BY <1>1, <1>8
      <4> QED
        BY <1>3, <3>1, <4>1
    <3>3. Nth(V, i - 1) < Nth(V, j - 1)
      BY <1>3, <2>2, <3>1, <3>2
    <3> QED
      BY <1>2, <2>2, <2>3, <3>1, <3>2, <3>3
  <2> QED
    BY <2>4, <2>5
<1> HIDE DEF g
<1>9. Len(w) \in Nat
  BY <1>1, <1>4
<1>10. /\ \A k \in 1..Len(w) : g[k] \in W /\ w[k] = q[g[k]].v
       /\ \A i, j \in 1..Len(w) : i < j => g[i] < g[j]
  BY <1>4, <1>7, <1>8
<1>11. Within(w, Sel(q, W))
  BY <1>9, <1>10, SelWithin
<1> QED
  BY <1>11

\* Two lists with the same elements at the same places are one.
LEMMA SameLists ==
    ASSUME NEW T, NEW p \in Seq(T), NEW q \in Seq(T), NEW n, Len(p) = n,
           Len(q) = n, \A k \in 1..n : p[k] = q[k]
    PROVE  p = q
  OBVIOUS

\* Two sets without a common element.
LEMMA Together ==
    ASSUME NEW S, IsFiniteSet(S), NEW T, IsFiniteSet(T), S \cap T = {}
    PROVE  /\ IsFiniteSet(S \cup T)
           /\ Cardinality(S \cup T) = Cardinality(S) + Cardinality(T)
<1>1. Cardinality(S \cap T) = 0
  BY FS_EmptySet
<1>2. Cardinality(S) \in Nat /\ Cardinality(T) \in Nat
  BY FS_CardinalityType
<1>3. Cardinality(S \cup T) =
        Cardinality(S) + Cardinality(T) - Cardinality(S \cap T)
  BY FS_Union
<1> QED
  BY <1>1, <1>2, <1>3, FS_Union

\* The places A, and N more behind the first P.
AndMore(A, P, N) == A \cup {P + j : j \in 1..N}

\* The values of a list of nodes.
Vals(t) == [j \in 1..Len(t) |-> t[j].v]

\* New nodes behind those of a queue offer what they offer behind what those
\* do.
LEMMA SelJoined ==
    ASSUME NEW M, NEW p \in Seq(SendNodes(M)), NEW t \in Seq(SendNodes(M)),
           NEW A \in SUBSET (1..Len(p)), NEW V,
           V = AndMore(A, Len(p), Len(t))
    PROVE  /\ Sel(p \o t, V) = Sel(p, A) \o Vals(t)
           /\ Vals(t) \in Seq(M) /\ Len(Vals(t)) = Len(t)
<1> PICK x, P, N, n : /\ x = p \o t /\ P = Len(p) /\ N = Len(t)
                      /\ n = Cardinality(A)
  OBVIOUS
<1>1. /\ x \in Seq(SendNodes(M)) /\ Len(x) = P + N /\ P \in Nat /\ N \in Nat
      /\ \A i \in 1..P : x[i] = p[i]
      /\ \A i \in 1..N : x[P + i] = t[i]
  BY JoinedAt
<1>2. \A e : e \in V <=> e \in A \/ \E j \in 1..N : e = P + j
  BY DEF AndMore
<1>3. /\ Vals(t) \in Seq(M) /\ Len(Vals(t)) = N
      /\ \A j \in 1..N : Vals(t)[j] = t[j].v
  <2>1. \A j \in 1..N : t[j] \in SendNodes(M)
    OBVIOUS
  <2>2. \A j \in 1..N : t[j].v \in M
    BY <2>1 DEF SendNodes
  <2>3. Vals(t) \in [1..N -> M] /\ \A j \in 1..N : Vals(t)[j] = t[j].v
    BY <2>2 DEF Vals
  <2> QED
    BY <1>1, <2>3, IsList
<1>4. /\ Sel(p, A) \in Seq(M) /\ Len(Sel(p, A)) = n /\ n \in Nat
      /\ \A k \in 1..n : Sel(p, A)[k] = p[Nth(A, k)].v
  BY SelIs
<1> PICK K : K = P + N
  OBVIOUS
<1>5. K \in Nat /\ V \in SUBSET (1..K)
  <2>1. \A i \in 1..P : i \in 1..K
    BY <1>1
  <2>2. \A j \in 1..N : P + j \in 1..K
    BY <1>1
  <2>3. \A e \in A : e \in 1..P
    OBVIOUS
  <2>4. ASSUME NEW e \in V PROVE e \in 1..K
    <3>1. CASE e \in A
      BY <2>1, <2>3, <3>1
    <3>2. CASE \E j \in 1..N : e = P + j
      BY <2>2, <3>2
    <3> QED
      BY <1>2, <3>1, <3>2, Zenon
  <2> QED
    BY <1>1, <2>4
<1>6. /\ \A k \in 1..n : Nth(A, k) \in A /\ Cardinality(UpTo(A, Nth(A, k))) = k
      /\ \A e \in A : e \in Nat /\ e <= P
  BY <1>1, NthLists, PlacesAre
<1>7. IsFiniteSet(A) /\ A \cap ((P + 1)..(P + N)) = {}
  <2>1. IsFiniteSet(A)
    BY <1>1, PlacesEnd
  <2>2. \A e \in (P + 1)..(P + N) : ~(e <= P)
    BY <1>1
  <2> QED
    BY <1>6, <2>1, <2>2
<1>8. ASSUME NEW j \in 0..N
      PROVE  Cardinality(A \cup ((P + 1)..(P + j))) = n + j
  <2>1. /\ IsFiniteSet((P + 1)..(P + j))
        /\ Cardinality((P + 1)..(P + j)) = j
    <3>1. P + 1 \in Int /\ P + j \in Int
      BY <1>1
    <3>2. IsFiniteSet((P + 1)..(P + j))
      BY <3>1, FS_Interval
    <3>3. Cardinality((P + 1)..(P + j)) =
            IF P + 1 > P + j THEN 0 ELSE (P + j) - (P + 1) + 1
      BY <3>1, FS_Interval
    <3>4. (IF P + 1 > P + j THEN 0 ELSE (P + j) - (P + 1) + 1) = j
      BY <1>1
    <3> QED
      BY <3>2, <3>3, <3>4
  <2>2. A \cap ((P + 1)..(P + j)) = {}
    <3>1. (P + 1)..(P + j) \subseteq (P + 1)..(P + N)
      BY <1>1
    <3> QED
      BY <1>7, <3>1
  <2> QED
    <3> PICK D : D = (P + 1)..(P + j)
      OBVIOUS
    <3>1. IsFiniteSet(D) /\ Cardinality(D) = j /\ A \cap D = {}
      BY <2>1, <2>2
    <3>2. Cardinality(A \cup D) = n + j
      <4>1. IsFiniteSet(A)
        BY <1>7
      <4>2. Cardinality(A \cup D) = Cardinality(A) + Cardinality(D)
        BY <3>1, <4>1, Together, Zenon
      <4> QED
        BY <3>1, <4>2, Zenon
    <3> QED
      BY <3>2
<1>9. Cardinality(V) = n + N
  <2>1. V = A \cup ((P + 1)..(P + N))
    <3>1. {P + j : j \in 1..N} = (P + 1)..(P + N)
      <4>1. \A j \in 1..N : P + j \in (P + 1)..(P + N)
        BY <1>1
      <4>2. \A e \in (P + 1)..(P + N) : e - P \in 1..N /\ P + (e - P) = e
        BY <1>1
      <4> QED
        BY <4>1, <4>2
    <3> QED
      BY <3>1 DEF AndMore
  <2>2. N \in 0..N
    BY <1>1
  <2> QED
    BY <1>8, <2>1, <2>2
<1>10. \A e \in V : Nth(V, Cardinality(UpTo(V, e))) = e
  BY <1>5, NthLists
<1>11. ASSUME NEW k \in 1..n PROVE Nth(V, k) = Nth(A, k)
  <2> PICK e : e = Nth(A, k)
    OBVIOUS
  <2>1. e \in A /\ Cardinality(UpTo(A, e)) = k /\ e \in Nat /\ e <= P
    BY <1>6
  <2>2. UpTo(V, e) = UpTo(A, e)
    <3>1. \A j \in 1..N : ~(P + j <= e)
      BY <1>1, <2>1
    <3>2. \A i : i \in V /\ i <= e <=> i \in A /\ i <= e
      BY <1>2, <3>1
    <3> QED
      BY <3>2 DEF UpTo
  <2>3. e \in V
    BY <1>2, <2>1
  <2>4. Nth(V, Cardinality(UpTo(V, e))) = e
    BY <1>10, <2>3
  <2> QED
    BY <2>1, <2>2, <2>4
<1>12. ASSUME NEW j \in 1..N PROVE Nth(V, n + j) = P + j
  <2>1. UpTo(V, P + j) = A \cup ((P + 1)..(P + j))
    <3>1. \A e \in A : e <= P + j
      BY <1>1, <1>6
    <3>2. \A i \in 1..N : P + i <= P + j => P + i \in (P + 1)..(P + j)
      BY <1>1
    <3>3. \A e \in (P + 1)..(P + j) :
            e <= P + j /\ e - P \in 1..N /\ P + (e - P) = e
      BY <1>1
    <3>4. \A e \in UpTo(V, P + j) : e \in A \cup ((P + 1)..(P + j))
      BY <1>2, <3>2 DEF UpTo
    <3>5. \A e \in A \cup ((P + 1)..(P + j)) : e \in UpTo(V, P + j)
      BY <1>2, <3>1, <3>3 DEF UpTo
    <3> QED
      BY <3>4, <3>5
  <2>2. j \in 0..N
    BY <1>1
  <2>3. Cardinality(UpTo(V, P + j)) = n + j
    BY <1>8, <2>1, <2>2
  <2>4. P + j \in V
    BY <1>2
  <2> QED
    BY <1>10, <2>3, <2>4
<1>13. /\ Sel(x, V) \in Seq(M) /\ Len(Sel(x, V)) = n + N
       /\ \A k \in 1..(n + N) : Sel(x, V)[k] = x[Nth(V, k)].v
  <2>1. V \in SUBSET (1..Len(x))
    BY <1>1, <1>5
  <2>2. /\ Sel(x, V) \in Seq(M) /\ Len(Sel(x, V)) = Cardinality(V)
        /\ \A k \in 1..Cardinality(V) : Sel(x, V)[k] = x[Nth(V, k)].v
    <3>1. x \in Seq(SendNodes(M))
      BY <1>1
    <3> QED
      BY <2>1, <3>1, SelIs
  <2> QED
    BY <1>9, <2>2
<1> PICK w, v, y, z : /\ w = Sel(p, A) /\ v = Vals(t)
                      /\ y = Sel(x, V) /\ z = w \o v
  OBVIOUS
<1>14. /\ z \in Seq(M) /\ Len(z) = n + N
       /\ \A i \in 1..n : z[i] = w[i]
       /\ \A j \in 1..N : z[n + j] = v[j]
  <2>1. w \in Seq(M) /\ v \in Seq(M) /\ Len(w) = n /\ Len(v) = N
    BY <1>3, <1>4
  <2>2. z \in Seq(M) /\ Len(z) = Len(w) + Len(v)
    BY <2>1
  <2>3. \A i \in 1..Len(w) : z[i] = w[i]
    BY <2>1
  <2>4. \A i \in 1..Len(v) : z[Len(w) + i] = v[i]
    <3>1. \A i \in 1..Len(v) : (w \o v)[Len(w) + i] = v[i]
      BY <2>1, JoinedAt
    <3> QED
      BY <3>1
  <2> QED
    BY <2>1, <2>2, <2>3, <2>4
<1>15. ASSUME NEW k \in 1..n PROVE y[k] = z[k]
  <2>1. k \in 1..(n + N)
    BY <1>1, <1>4
  <2>2. Nth(A, k) \in 1..P
    BY <1>6
  <2>3. y[k] = x[Nth(A, k)].v
    BY <1>11, <1>13, <2>1
  <2>4. w[k] = p[Nth(A, k)].v /\ x[Nth(A, k)] = p[Nth(A, k)]
    BY <1>1, <1>4, <2>2
  <2> QED
    BY <1>14, <2>3, <2>4
<1>16. ASSUME NEW j \in 1..N PROVE y[n + j] = z[n + j]
  <2>1. n + j \in 1..(n + N)
    BY <1>1, <1>4
  <2>2. y[n + j] = x[Nth(V, n + j)].v
    BY <1>13, <2>1
  <2>3. y[n + j] = x[P + j].v
    BY <1>12, <2>2
  <2>4. v[j] = t[j].v /\ x[P + j] = t[j]
    BY <1>1, <1>3
  <2> QED
    BY <1>14, <2>3, <2>4
<1>17. ASSUME NEW k \in 1..(n + N) PROVE y[k] = z[k]
  <2>1. CASE k \in 1..n
    BY <1>15, <2>1
  <2>2. CASE k \notin 1..n
    <3>1. k - n \in 1..N /\ n + (k - n) = k
      BY <1>1, <1>4, <2>2
    <3>2. y[n + (k - n)] = z[n + (k - n)]
      BY <1>16, <3>1
    <3> QED
      BY <3>1, <3>2
  <2> QED
    BY <2>1, <2>2
<1>18. y = z
  <2> PICK L : L = n + N
    OBVIOUS
  <2>1. /\ y \in Seq(M) /\ Len(y) = L /\ z \in Seq(M) /\ Len(z) = L
        /\ \A k \in 1..L : y[k] = z[k]
    BY <1>13, <1>14, <1>17
  <2> QED
    BY <2>1, SameLists
<1> QED
  BY <1>3, <1>18

-----------------------------------------------------------------------------
(* What a channel has on offer, before a step and after it *)

\* A buffer, and what the nodes that are not stale offer.
LEMMA OnOfferIs ==
    ASSUME CInv, NEW c \in Channels
    PROVE  /\ items[c] \in Seq(Nat) /\ log[c] \in Seq(Nat)
           /\ closed[c] \in BOOLEAN
           /\ sendq[c] \in Seq(SendNodes(Nat))
           /\ Waits(sendq[c]) \in SUBSET (1..Len(sendq[c]))
           /\ OnOffer(c) = items[c] \o Sel(sendq[c], Waits(sendq[c]))
           /\ Sel(sendq[c], Waits(sendq[c])) \in Seq(Nat)
           /\ OnOffer(c) \in Seq(Nat)
<1>1. items[c] \in Seq(Nat) /\ log[c] \in Seq(Nat) /\ closed[c] \in BOOLEAN
  BY DEF CInv, ChanTypeOK
<1>2. sendq[c] \in Seq(SendNodes(Nat))
  BY NodeTypes DEF SendNodes
<1>3. Waits(sendq[c]) \in SUBSET (1..Len(sendq[c]))
  BY <1>2, WaitsIn
<1>4. OnOffer(c) = items[c] \o Sel(sendq[c], Waits(sendq[c]))
  BY DEF OnOffer, ParkedSends, Sel
<1>5. Sel(sendq[c], Waits(sendq[c])) \in Seq(Nat)
  BY <1>2, <1>3, SelIs
<1>6. OnOffer(c) \in Seq(Nat)
  BY <1>1, <1>4, <1>5, JoinedAt
<1> QED
  BY <1>1, <1>2, <1>3, <1>4, <1>5, <1>6

\* Where somebody will wait.
LEMMA WaitsWillBe ==
    ASSUME CInv', NEW c \in Channels
    PROVE  /\ sendq'[c] \in Seq(SendNodes(Nat))
           /\ Waits(sendq[c])' \in SUBSET (1..Len(sendq'[c]))
           /\ \A i : i \in Waits(sendq[c])' <=>
                i \in 1..Len(sendq'[c])
                  /\ \E n : n = sendq'[c][i] /\ Current(n)'
<1>1. sendq'[c] \in Seq([fiber : Fibers, nonce : Nat, v : Nat])
  BY DEF CInv, ChanTypeOK
<1>2. sendq'[c] \in Seq(SendNodes(Nat))
  BY <1>1 DEF SendNodes
<1>3. DOMAIN sendq'[c] = 1..Len(sendq'[c])
  BY <1>1
<1>4. \A i : i \in Waits(sendq[c])' <=>
               i \in DOMAIN sendq'[c] /\ \E n : n = sendq'[c][i] /\ Current(n)'
  BY DEF Waits, Current
<1> QED
  BY <1>2, <1>3, <1>4

\* The same after the step.
LEMMA OnOfferWillBe ==
    ASSUME CInv', NEW c \in Channels
    PROVE  /\ items'[c] \in Seq(Nat) /\ log'[c] \in Seq(Nat)
           /\ OnOffer(c)' = items'[c] \o Sel(sendq'[c], Waits(sendq[c])')
           /\ Sel(sendq'[c], Waits(sendq[c])') \in Seq(Nat)
           /\ OnOffer(c)' \in Seq(Nat)
<1>1. items'[c] \in Seq(Nat) /\ log'[c] \in Seq(Nat)
  BY DEF CInv, ChanTypeOK
<1>2. PICK r, V : r = sendq'[c] /\ V = Waits(sendq[c])'
  OBVIOUS
<1>3. r \in Seq(SendNodes(Nat)) /\ V \in SUBSET (1..Len(r))
  BY <1>2, WaitsWillBe
<1>4. OnOffer(c)' = items'[c] \o Sel(r, V)
  BY <1>2 DEF OnOffer, ParkedSends, Sel
<1>5. Sel(r, V) \in Seq(Nat)
  BY <1>3, SelIs
<1>6. OnOffer(c)' \in Seq(Nat)
  BY <1>1, <1>4, <1>5, JoinedAt
<1> QED
  BY <1>1, <1>2, <1>4, <1>5, <1>6

\* The two parts of a list that holds everything once.
LEMMA SingleParts ==
    ASSUME NEW T, NEW p \in Seq(T), NEW q \in Seq(T), Single(p \o q)
    PROVE  /\ Single(p) /\ Single(q) /\ ToSet(p) \cap ToSet(q) = {}
           /\ ToSet(p \o q) = ToSet(p) \cup ToSet(q)
<1> PICK x, M, N : x = p \o q /\ M = Len(p) /\ N = Len(q)
  OBVIOUS
<1>1. /\ M \in Nat /\ N \in Nat /\ Len(x) = M + N
      /\ \A i \in 1..M : x[i] = p[i]
      /\ \A i \in 1..N : x[M + i] = q[i]
  BY JoinedAt
<1>2. /\ \A i \in 1..M : i \in 1..(M + N)
      /\ \A i \in 1..N : M + i \in 1..(M + N)
      /\ \A i \in 1..M, j \in 1..N : i # M + j
      /\ \A i, j \in 1..N : M + i = M + j => i = j
  BY <1>1
<1>3. \A i, j \in 1..(M + N) : x[i] = x[j] => i = j
  BY <1>1 DEF Single
<1>4. Single(p)
  BY <1>1, <1>2, <1>3, Zenon DEF Single
<1>5. Single(q)
  <2>1. ASSUME NEW i \in 1..N, NEW j \in 1..N, q[i] = q[j] PROVE i = j
    <3>1. x[M + i] = x[M + j]
      BY <1>1, <2>1
    <3>2. M + i = M + j
      BY <1>2, <1>3, <3>1
    <3> QED
      BY <1>2, <3>2
  <2> QED
    BY <2>1 DEF Single
<1>6. ASSUME NEW v \in ToSet(p), v \in ToSet(q) PROVE FALSE
  <2>1. DOMAIN p = 1..M /\ DOMAIN q = 1..N
    OBVIOUS
  <2>2. PICK i \in 1..M, j \in 1..N : p[i] = v /\ q[j] = v
    BY <1>6, <2>1 DEF ToSet
  <2> QED
    BY <1>1, <1>2, <1>3, <2>2
<1>7. ToSet(p \o q) = ToSet(p) \cup ToSet(q)
  BY ElementsOfConcat
<1> QED
  BY <1>4, <1>5, <1>6, <1>7

\* What is open on a channel.
LEMMA OpenIs ==
    ASSUME CInv, NEW c \in Channels, Single(OnOffer(c))
    PROVE  \E q, W :
             /\ q = sendq[c] /\ W = Waits(sendq[c])
             /\ Open(c) = OfferedTogether(q, W)
             /\ UNION Open(c) = ValuesAt(q, W)
             /\ Open(c) = {Beside(q, W, k) : k \in W}
             /\ ToSet(Sel(q, W)) = ValuesAt(q, W)
             /\ Apart(q, W)
             /\ ToSet(items[c]) \cap ValuesAt(q, W) = {}
             /\ ToSet(OnOffer(c)) = ToSet(items[c]) \cup ValuesAt(q, W)
<1> PICK l, q, W, s : /\ l = items[c] /\ q = sendq[c] /\ W = Waits(sendq[c])
                      /\ s = Sel(q, W)
  OBVIOUS
<1>1. /\ l \in Seq(Nat) /\ s \in Seq(Nat) /\ OnOffer(c) = l \o s
      /\ q \in Seq(SendNodes(Nat)) /\ W \in SUBSET (1..Len(q))
  BY OnOfferIs
<1>2. Open(c) = OfferedTogether(q, W)
  BY DEF Open
<1>3. /\ OfferedTogether(q, W) = {Beside(q, W, k) : k \in W}
      /\ UNION OfferedTogether(q, W) = ValuesAt(q, W)
  BY TogetherIs
<1>4. ToSet(s) = ValuesAt(q, W) /\ (Single(s) => Apart(q, W))
  BY <1>1, SelHolds
<1>5. Single(l \o s) => Single(l) /\ Single(s) /\ ToSet(l) \cap ToSet(s) = {}
  BY <1>1, SingleParts
<1>6. ToSet(l \o s) = ToSet(l) \cup ToSet(s)
  BY <1>1, ElementsOfConcat
<1>7. WITNESS q, W
<1> QED
  BY <1>1, <1>2, <1>3, <1>4, <1>5, <1>6

\* Of the places W where somebody waits in the queue q of c, those at K are
\* still waited at when its first m nodes have left.
Remain(c, m, q, W, K) ==
    /\ K \subseteq W
    /\ \A j : j \in K <=> j \in W /\ j > m /\ \E n : n = q[j] /\ Current(n)'
    /\ \A i \in Waits(sendq[c])' : m + i \in K
    /\ K = {} <=> Waits(sendq[c])' = {}
    /\ Within(Sel(sendq'[c], Waits(sendq[c])'), Sel(q, W))
    /\ Open(c)' = OfferedTogether(q, K)
    /\ ToSet(Sel(sendq'[c], Waits(sendq[c])')) = ValuesAt(q, K)
    /\ (\A i \in K, j \in W : q[i].fiber = q[j].fiber => j > m)
         => Whole(q, W, K)

\* When nodes leave the front of a queue, the offers that stay are in their
\* order: nobody in the queue parks anew. And they are all that some fibers
\* offer, unless one of them has a node among those that left.
LEMMA QueueShrinks ==
    ASSUME NInv, CInv, CInv', Moves, NEW c \in Channels,
           NEW m, CutAt(sendq[c], m, sendq'[c])
    PROVE  \E q, W, K : /\ q = sendq[c] /\ W = Waits(sendq[c])
                        /\ Remain(c, m, q, W, K)
<1> PICK q, W : q = sendq[c] /\ W = Waits(sendq[c])
  OBVIOUS
<1>1. PICK r, V, K : /\ r = sendq'[c] /\ V = Waits(sendq[c])'
                     /\ K = {m + i : i \in V}
  OBVIOUS
<1>2. /\ q \in Seq(SendNodes(Nat)) /\ r \in Seq(SendNodes(Nat))
      /\ W \in SUBSET (1..Len(q)) /\ V \in SUBSET (1..Len(r))
      /\ Len(q) \in Nat
  <2>1. /\ sendq[c] \in Seq(SendNodes(Nat))
        /\ Waits(sendq[c]) \in SUBSET (1..Len(sendq[c]))
    BY OnOfferIs
  <2>2. r \in Seq(SendNodes(Nat)) /\ V \in SUBSET (1..Len(r))
    BY <1>1, WaitsWillBe
  <2> QED
    BY <2>1, <2>2
<1>3. \A i : i \in V <=> i \in 1..Len(r) /\ \E n : n = r[i] /\ Current(n)'
  BY <1>1, WaitsWillBe
<1>4. \A i : i \in W <=> i \in 1..Len(q) /\ Current(q[i])
  BY <1>2, WaitsIn
<1>5. CutAt(q, m, r) /\ K = {m + i : i \in V}
  BY <1>1
<1>6. ASSUME NEW i \in V PROVE m + i \in W /\ m + i > m
  <2>1. i \in 1..Len(r) /\ r[i] = q[m + i]
    BY <1>3, <1>5, <1>6 DEF CutAt
  <2>2. m + i \in 1..Len(q) /\ DOMAIN q = 1..Len(q) /\ m + i > m
    BY <1>2, <1>5, <2>1 DEF CutAt
  <2>3. PICK n : n = r[i] /\ Current(n)'
    BY <1>3, <1>6
  <2>4. n \in ToSet(q)
    BY <2>1, <2>2, <2>3 DEF ToSet
  <2>5. Current(n)
    BY <2>3, <2>4, StaleNodes
  <2> QED
    BY <1>4, <2>1, <2>2, <2>3, <2>5
<1>7. Within(Sel(r, V), Sel(q, W))
  BY <1>2, <1>5, <1>6, SelCut
<1>8. /\ OfferedTogether(r, V) = OfferedTogether(q, K)
      /\ ValuesAt(r, V) = ValuesAt(q, K)
  <2>1. CutAt(q, m, r) /\ V \in SUBSET (1..Len(r)) /\ Len(q) \in Nat
    BY <1>2, <1>5
  <2>2. PICK J : J = {m + i : i \in V}
    OBVIOUS
  <2>3. /\ OfferedTogether(r, V) = OfferedTogether(q, J)
        /\ ValuesAt(r, V) = ValuesAt(q, J)
    BY <2>1, <2>2, CutTogether
  <2>4. K = J
    BY <1>5, <2>2
  <2> QED
    BY <2>3, <2>4
<1>9. Open(c)' = OfferedTogether(r, V)
  BY <1>1 DEF Open, OfferedTogether
<1>10. ToSet(Sel(r, V)) = ValuesAt(r, V)
  BY <1>2, SelHolds
<1>11. ASSUME NEW j \in W, j > m, NEW n, n = q[j], Current(n)' PROVE j \in K
  <2>1. PICK i : i = j - m
    OBVIOUS
  <2>2. i \in 1..Len(r) /\ j = m + i /\ r[i] = q[j]
    BY <1>2, <1>5, <1>11, <2>1 DEF CutAt
  <2>3. i \in V
    BY <1>3, <1>11, <2>2
  <2> QED
    BY <1>5, <2>2, <2>3
<1>12. ASSUME NEW j \in K
       PROVE  j \in W /\ j > m /\ \E n : n = q[j] /\ Current(n)'
  <2>1. PICK i \in V : j = m + i
    BY <1>5
  <2>2. r[i] = q[j]
    BY <1>2, <1>5, <2>1 DEF CutAt
  <2> QED
    BY <1>3, <1>6, <2>1, <2>2
<1>13. ASSUME \A i \in K, j \in W : q[i].fiber = q[j].fiber => j > m
       PROVE  Whole(q, W, K)
  <2>1. ASSUME NEW i \in K, NEW j \in W, q[i].fiber = q[j].fiber PROVE j \in K
    <3>1. PICK n, o : n = q[i] /\ o = q[j] /\ Current(n)'
      BY <1>12
    <3>2. Current(n) /\ Current(o)
      BY <1>4, <1>12, <3>1
    <3>3. o.fiber = n.fiber /\ o.nonce = n.nonce
      BY <2>1, <3>1, <3>2 DEF Current
    <3>4. Current(o)'
      BY <3>1, <3>3 DEF Current
    <3> QED
      BY <1>11, <1>13, <2>1, <3>1, <3>4
  <2> QED
    BY <2>1 DEF Whole
<1>14. K \subseteq W
  BY <1>12
<1>15. \A j : j \in K <=> j \in W /\ j > m /\ \E n : n = q[j] /\ Current(n)'
  BY <1>11, <1>12
<1>16. K = {} <=> V = {}
  BY <1>5
<1>17. Remain(c, m, q, W, K)
  BY <1>1, <1>6, <1>7, <1>8, <1>9, <1>10, <1>13, <1>14, <1>15, <1>16 DEF Remain
<1> QED
  BY <1>17

-----------------------------------------------------------------------------
(* The steps of a channel *)

\* The start of such a list is one.
LEMMA SingleStart ==
    ASSUME NEW T, NEW p \in Seq(T), NEW q \in Seq(T), Single(p \o q)
    PROVE  Single(p)
<1>1. /\ Len(p) \in Nat /\ Len(q) \in Nat /\ Len(p \o q) = Len(p) + Len(q)
      /\ \A i \in 1..Len(p) : (p \o q)[i] = p[i]
  BY JoinedAt
<1>2. \A i \in 1..Len(p) : i \in 1..(Len(p) + Len(q))
  BY <1>1
<1> QED
  BY <1>1, <1>2, Zenon DEF Single

\* A value behind a list, and more behind it.
LEMMA NumberBetween ==
    ASSUME NEW l \in Seq(Nat), NEW e \in Nat, NEW t \in Seq(Nat)
    PROVE  /\ l \o (<<e>> \o t) = Append(l, e) \o t
           /\ l \o <<e>> = Append(l, e) \o <<>>
           /\ ToSet(Append(l, e)) = ToSet(l) \cup {e}
           /\ ToSet(l \o t) = ToSet(l) \cup ToSet(t)
<1> PICK T : T = Nat
  OBVIOUS
<1>1. l \in Seq(T) /\ e \in T /\ t \in Seq(T)
  OBVIOUS
<1>2. l \o (<<e>> \o t) = Append(l, e) \o t
  <2>1. <<e>> \in Seq(T)
    BY <1>1
  <2>2. Append(l, e) = l \o <<e>>
    BY <1>1, AppendIsConcat
  <2>3. (l \o <<e>>) \o t = l \o (<<e>> \o t)
    BY <1>1, <2>1, ConcatAssociative
  <2> QED
    BY <2>2, <2>3, Zenon
<1>3. l \o <<e>> = Append(l, e) \o <<>>
  <2>1. Append(l, e) = l \o <<e>> /\ Append(l, e) \in Seq(T)
    BY <1>1, AppendIsConcat, AppendProperties
  <2>2. Append(l, e) \o <<>> = Append(l, e)
    BY <2>1, ConcatEmptySeq
  <2> QED
    BY <2>1, <2>2, Zenon
<1>4. ToSet(Append(l, e)) = ToSet(l) \cup {e}
  BY <1>1, OneBehind
<1>5. ToSet(l \o t) = ToSet(l) \cup ToSet(t)
  BY ElementsOfConcat, Zenon
<1> QED
  BY <1>2, <1>4, <1>5, <1>3, Zenon

\* The first of two lists that are not empty comes first.
LEMMA JoinedTail ==
    ASSUME NEW T, NEW p \in Seq(T), p # <<>>, NEW t \in Seq(T)
    PROVE  /\ p \o t # <<>> /\ Head(p \o t) = Head(p)
           /\ Tail(p \o t) = Tail(p) \o t /\ Tail(p) \in Seq(T)
<1>1. /\ Tail(p) \in Seq(T) /\ Len(Tail(p)) = Len(p) - 1
      /\ \A i \in 1..(Len(p) - 1) : Tail(p)[i] = p[i + 1]
      /\ Len(p) \in Nat /\ Len(p) >= 1 /\ Len(t) \in Nat
  OBVIOUS
<1>2. PICK z, w : z = p \o t /\ w = Tail(p) \o t
  OBVIOUS
<1>3. /\ z \in Seq(T) /\ Len(z) = Len(p) + Len(t)
      /\ \A i \in 1..Len(p) : z[i] = p[i]
      /\ \A i \in 1..Len(t) : z[Len(p) + i] = t[i]
  BY <1>2, JoinedAt
<1>4. /\ w \in Seq(T) /\ Len(w) = Len(p) - 1 + Len(t)
      /\ \A i \in 1..(Len(p) - 1) : w[i] = Tail(p)[i]
      /\ \A i \in 1..Len(t) : w[Len(p) - 1 + i] = t[i]
  BY <1>1, <1>2, JoinedAt
<1>5. z # <<>>
  BY <1>1, <1>3
<1>6. /\ z # <<>> /\ Head(z) = z[1] /\ Head(p) = p[1]
      /\ Tail(z) \in Seq(T) /\ Len(Tail(z)) = Len(z) - 1
      /\ \A i \in 1..(Len(z) - 1) : Tail(z)[i] = z[i + 1]
  BY <1>3, <1>5
<1>7. PICK n : n = Len(p) - 1 + Len(t)
  OBVIOUS
<1>8. /\ n \in Nat /\ Len(p) - 1 \in Nat
      /\ \A k \in 1..n : k <= Len(p) - 1 \/ k > Len(p) - 1
  BY <1>1, <1>7
<1>9. Len(Tail(z)) = n /\ Len(w) = n
  BY <1>1, <1>3, <1>4, <1>6, <1>7
<1>10. ASSUME NEW k \in 1..n PROVE Tail(z)[k] = w[k]
  <2>1. k \in Nat /\ k >= 1 /\ k <= Len(p) - 1 + Len(t)
    BY <1>1, <1>7, <1>10
  <2>2. Tail(z)[k] = z[k + 1]
    BY <1>1, <1>3, <1>6, <2>1
  <2>3. CASE k <= Len(p) - 1
    <3>1. k \in 1..(Len(p) - 1) /\ k + 1 \in 1..Len(p)
      BY <1>1, <2>1, <2>3
    <3> QED
      BY <1>1, <1>3, <1>4, <2>2, <3>1
  <2>4. CASE k > Len(p) - 1
    <3>1. PICK i : i = k - (Len(p) - 1)
      OBVIOUS
    <3>2. /\ i \in 1..Len(t) /\ Len(p) - 1 + i = k /\ Len(p) + i = k + 1
      BY <1>1, <2>1, <2>4, <3>1
    <3> QED
      BY <1>3, <1>4, <2>2, <3>2
  <2> QED
    BY <1>8, <2>3, <2>4, Zenon
<1>11. Tail(z) = w
  BY <1>4, <1>6, <1>9, <1>10, SameLists
<1> QED
  BY <1>1, <1>2, <1>3, <1>6, <1>11

\* Fibers leave the queue: nodes leave its front, or go stale in it.
LEMMA ChannelWithdraws ==
    ASSUME NInv, CInv, CInv', Moves, NEW c \in Channels, Single(OnOffer(c)),
           NEW m, CutAt(sendq[c], m, sendq'[c]),
           \/ \A e \in Waits(sendq[c]) : e > m
           \/ Waits(sendq[c])' = {},
           items'[c] = items[c], log'[c] = log[c],
           \/ closed'[c] = closed[c]
           \/ closed'[c] = TRUE /\ Waits(sendq[c])' = {}
    PROVE  Serves(c)
<1>1. PICK q, W :
        /\ q = sendq[c] /\ W = Waits(sendq[c])
        /\ Open(c) = OfferedTogether(q, W)
        /\ ToSet(Sel(q, W)) = ValuesAt(q, W)
        /\ Apart(q, W) /\ ToSet(items[c]) \cap ValuesAt(q, W) = {}
  BY OpenIs, Zenon
<1>2. PICK l, s, t :
        /\ l = items[c] /\ q = sendq[c] /\ W = Waits(sendq[c])
        /\ s = Sel(q, W) /\ t = Sel(sendq'[c], Waits(sendq[c])')
  BY <1>1
<1>3. /\ l \in Seq(Nat) /\ s \in Seq(Nat) /\ t \in Seq(Nat)
      /\ OnOffer(c) = l \o s /\ OnOffer(c)' = l \o t
  BY <1>2, OnOfferIs, OnOfferWillBe
<1>4. PICK K : Remain(c, m, q, W, K)
  BY <1>1, QueueShrinks
<1>5. /\ K \subseteq W /\ Within(t, s)
      /\ Open(c)' = OfferedTogether(q, K) /\ ToSet(t) = ValuesAt(q, K)
      /\ K = {} <=> Waits(sendq[c])' = {}
  BY <1>2, <1>4 DEF Remain
<1>6. Whole(q, W, K)
  BY <1>2, <1>4 DEF Remain, Whole
<1>7. PICK gone : gone = OfferedTogether(q, W \ K)
  OBVIOUS
<1>8. /\ gone \subseteq Open(c) /\ Open(c)' = Open(c) \ gone
      /\ ValuesAt(q, K) = ValuesAt(q, W) \ UNION gone
      /\ UNION gone \subseteq ValuesAt(q, W)
  <2>1. UNION gone = ValuesAt(q, W \ K)
    BY <1>7, TogetherIs
  <2>2. ValuesAt(q, W \ K) \subseteq ValuesAt(q, W)
    BY DEF ValuesAt
  <2>3. K \in SUBSET W
    BY <1>5
  <2>4. /\ OfferedTogether(q, W \ K) \subseteq OfferedTogether(q, W)
        /\ OfferedTogether(q, K)
             = OfferedTogether(q, W) \ OfferedTogether(q, W \ K)
        /\ ValuesAt(q, K)
             = ValuesAt(q, W) \ UNION OfferedTogether(q, W \ K)
    <3>1. Apart(q, W)
      BY <1>1
    <3> QED
      BY <1>6, <2>3, <3>1, SomeLeave, Zenon
  <2>5. gone \subseteq Open(c) /\ Open(c)' = Open(c) \ gone
    <3>1. Open(c) = OfferedTogether(q, W) /\ Open(c)' = OfferedTogether(q, K)
      BY <1>5, <1>1
    <3> QED
      BY <1>7, <2>4, <3>1, Zenon
  <2>6. ValuesAt(q, K) = ValuesAt(q, W) \ UNION gone
    BY <1>7, <2>4, Zenon
  <2> QED
    BY <2>1, <2>2, <2>5, <2>6, Zenon
<1>9. closed'[c] = closed[c] \/ (closed'[c] = TRUE /\ gone = Open(c))
  <2>1. Waits(sendq[c])' = {} => W \ K = W
    BY <1>5
  <2> QED
    BY <1>1, <1>7, <2>1
<1>10. Within(l \o t, l \o s) /\ l \o t \in Seq(Nat) /\ l \o s \in Seq(Nat)
  BY <1>3, <1>5, WithinJoined, JoinedAt
<1>11. ToSet(l \o t) = ToSet(l \o s) \ UNION gone
  <2>1. /\ ToSet(l \o t) = ToSet(l) \cup ToSet(t)
        /\ ToSet(l \o s) = ToSet(l) \cup ToSet(s)
    BY <1>3, ElementsOfConcat
  <2> QED
    BY <1>2, <1>5, <1>1, <1>8, <2>1
<1>12. PICK x, y : x = l \o t /\ y = l \o s
  OBVIOUS
<1>13. /\ x \in Seq(Nat) /\ y \in Seq(Nat) /\ y = OnOffer(c) /\ x = OnOffer(c)'
       /\ Single(y) /\ Within(x, y) /\ ToSet(x) = ToSet(y) \ UNION gone
  BY <1>3, <1>10, <1>11, <1>12
<1>14. gone \in SUBSET Open(c) /\ Open(c)' = Open(c) \ gone
  BY <1>8
<1> QED
  BY <1>9, <1>13, <1>14, SomeWithdraw, Zenon

\* A value goes into the buffer: only one fiber was parked with any, and it is
\* not any more.
LEMMA ChannelPuts ==
    ASSUME CInv, CInv', NEW c \in Channels, Single(OnOffer(c)),
           \A i, j \in Waits(sendq[c]) :
             sendq[c][i].fiber = sendq[c][j].fiber,
           Waits(sendq[c])' = {}, NEW v \in Nat,
           v \notin ToSet(OnOffer(c)) \cup ToSet(log[c]),
           items'[c] = Append(items[c], v), log'[c] = log[c],
           ~closed[c], closed'[c] = closed[c]
    PROVE  Serves(c)
<1>1. PICK q, W :
        /\ q = sendq[c] /\ W = Waits(sendq[c])
        /\ UNION Open(c) = ValuesAt(q, W)
        /\ Open(c) = {Beside(q, W, k) : k \in W}
        /\ ToSet(items[c]) \cap ValuesAt(q, W) = {}
        /\ ToSet(OnOffer(c)) = ToSet(items[c]) \cup ValuesAt(q, W)
  BY OpenIs, Zenon
<1>2. PICK l, s, b : /\ l = items[c] /\ q = sendq[c]
                     /\ W = Waits(sendq[c]) /\ s = Sel(q, W) /\ b = <<v>>
  BY <1>1
<1>3. l \in Seq(Nat) /\ s \in Seq(Nat) /\ OnOffer(c) = l \o s
  BY <1>2, OnOfferIs
<1>4. OnOffer(c)' = Append(l, v) \o <<>>
  BY <1>2, OnOfferWillBe, SelNone
<1>5. OnOffer(c)' = l \o b
  <2>1. Append(l, v) \o <<>> = l \o <<v>>
    BY <1>3, NumberBetween, Zenon
  <2> QED
    BY <1>2, <1>4, <2>1, Zenon
<1>6. Within(l, l \o s)
  <2>1. <<>> \in Seq(Nat) /\ Len(<<>>) = 0
    OBVIOUS
  <2>2. Within(<<>>, s)
    BY <2>1 DEF Within, Among, Follows
  <2>3. Within(l \o <<>>, l \o s)
    BY <1>3, <2>1, <2>2, WithinJoined
  <2>4. l \o <<>> = l
    BY <1>3
  <2> QED
    BY <2>3, <2>4
<1>7. /\ b \in Seq(Nat) /\ b # <<>> /\ Len(b) = 1 /\ ToSet(b) = {v}
      /\ Single(b)
  <2>1. b \in Seq(Nat) /\ b # <<>> /\ Len(b) = 1
    BY <1>2
  <2>2. b = <<v>> /\ DOMAIN b = {1} /\ b[1] = v
    BY <1>2
  <2>3. ToSet(b) = {v}
    BY <2>2 DEF ToSet
  <2>4. Single(b)
    BY <2>1 DEF Single
  <2> QED
    BY <2>1, <2>3, <2>4
<1>8. PICK y, gone : y = l \o s /\ gone = UNION Open(c)
  OBVIOUS
<1>9. y \in Seq(Nat) /\ y = OnOffer(c)
  BY <1>3, <1>8, JoinedAt
<1>10. ToSet(l) = ToSet(y) \ gone
  BY <1>2, <1>8, <1>9, <1>1
<1>11. ToSet(b) \cap (ToSet(y) \cup ToSet(log[c])) = {}
  BY <1>7, <1>9
<1>12. \A o, p \in Open(c) : o = p
  <2>1. \A i, j \in W : q[i].fiber = q[j].fiber
    BY <1>2
  <2>2. \A i, j \in W : Beside(q, W, i) = Beside(q, W, j)
    BY <2>1 DEF Beside
  <2> QED
    BY <1>1, <2>2
<1>13. Open(c)' = {}
  BY DEF Open, OfferedTogether
<1>14. /\ Len(b) = 1 /\ gone = UNION Open(c) /\ Open(c)' = {}
       /\ \A o, p \in Open(c) : o = p
  BY <1>7, <1>8, <1>12, <1>13
<1>15. Single(y) /\ Within(l, y)
  BY <1>6, <1>8, <1>9
<1> QED
  BY <1>3, <1>5, <1>7, <1>9, <1>10, <1>11, <1>15, <1>14, OffersJoin

\* The oldest value of the buffer is received when nobody is parked with one.
LEMMA ChannelTakesItem ==
    ASSUME NInv, CInv, CInv', Moves, NEW c \in Channels, Single(OnOffer(c)),
           NEW m, CutAt(sendq[c], m, sendq'[c]), Waits(sendq[c]) = {},
           items[c] # <<>>, items'[c] = Tail(items[c]),
           log'[c] = Append(log[c], Head(items[c])), closed'[c] = closed[c]
    PROVE  Serves(c)
<1>1. PICK y, x : y = items[c] /\ x = items'[c]
  OBVIOUS
<1>2. y \in Seq(Nat) /\ x \in Seq(Nat) /\ y # <<>> /\ x = Tail(y)
  BY <1>1, OnOfferIs, OnOfferWillBe
<1>3. OnOffer(c) = y
  <2>1. OnOffer(c) = y \o <<>>
    BY <1>1, OnOfferIs, SelNone
  <2> QED
    BY <1>2, <2>1
<1>4. PICK q, W, K : /\ q = sendq[c] /\ W = Waits(sendq[c])
                     /\ Remain(c, m, q, W, K)
  BY QueueShrinks
<1>5. Waits(sendq[c])' = {}
  BY <1>4 DEF Remain
<1>6. OnOffer(c)' = x
  <2>1. OnOffer(c)' = x \o <<>>
    BY <1>1, <1>5, OnOfferWillBe, SelNone
  <2> QED
    BY <1>2, <2>1
<1>7. Open(c) = {} /\ Open(c)' = {}
  BY <1>5 DEF Open, OfferedTogether
<1> QED
  BY <1>1, <1>2, <1>3, <1>6, <1>7, ItemTaken

\* The places of W where it is not the fiber at place k that waits.
Others(q, W, k) == {j \in W : q[j].fiber # q[k].fiber}

\* When one fiber leaves, what it offered together leaves.
LEMMA OneLeaves ==
    ASSUME NEW q, NEW W, NEW k \in W, Apart(q, W)
    PROVE  /\ q[k].v \in Beside(q, W, k)
           /\ Beside(q, W, k) \in OfferedTogether(q, W)
           /\ OfferedTogether(q, Others(q, W, k))
                = OfferedTogether(q, W) \ {Beside(q, W, k)}
           /\ ValuesAt(q, Others(q, W, k)) = ValuesAt(q, W) \ Beside(q, W, k)
<1>1. PICK K, L : K = Others(q, W, k) /\ L = W \ K
  OBVIOUS
<1>2. \A j : j \in L <=> j \in W /\ q[j].fiber = q[k].fiber
  BY <1>1 DEF Others
<1>3. {j \in W : q[j].fiber = q[k].fiber} = L
  BY <1>2
<1>4. Beside(q, W, k) = ValuesAt(q, L)
  BY <1>3 DEF Beside
<1>5. q[k].v \in ValuesAt(q, L)
  BY <1>2 DEF ValuesAt
<1>6. OfferedTogether(q, W) = {Beside(q, W, i) : i \in W}
  BY TogetherIs
<1>7. ASSUME NEW i \in L PROVE Beside(q, L, i) = ValuesAt(q, L)
  <2>1. {j \in L : q[j].fiber = q[i].fiber} = L
    BY <1>2
  <2> QED
    BY <2>1 DEF Beside
<1>8. OfferedTogether(q, L) = {ValuesAt(q, L)}
  <2>1. OfferedTogether(q, L) = {Beside(q, L, i) : i \in L}
    BY Zenon DEF OfferedTogether, Beside, ValuesAt
  <2>2. k \in L
    BY <1>2
  <2> QED
    BY <1>7, <2>1, <2>2
<1>9. Whole(q, W, K)
  BY <1>1 DEF Whole, Others
<1>10. /\ OfferedTogether(q, W \ K) \subseteq OfferedTogether(q, W)
       /\ OfferedTogether(q, K)
            = OfferedTogether(q, W) \ OfferedTogether(q, W \ K)
       /\ ValuesAt(q, K)
            = ValuesAt(q, W) \ UNION OfferedTogether(q, W \ K)
  <2>1. K \in SUBSET W
    BY <1>1 DEF Others
  <2> QED
    BY <1>9, <2>1, SomeLeave, Zenon
<1>11. UNION OfferedTogether(q, L) = ValuesAt(q, L)
  BY TogetherIs
<1> QED
  BY <1>4, <1>5, <1>6, <1>8, <1>10, <1>11, <1>1

\* Who is woken leaves the queue, and nobody else does.
OnlyLeaves(q, W, k) ==
    \A j \in W : (j > k /\ \E n : n = q[j] /\ Current(n)')
                    <=> q[j].fiber # q[k].fiber

\* The oldest sender is woken.
LEMMA OneWoken ==
    ASSUME CInv, NEW c \in Channels, NEW k \in Waits(sendq[c]),
           \A e \in Waits(sendq[c]) : k <= e,
           state' = Enqueued(state, <<sendq[c][k].fiber>>), UNCHANGED nonce
    PROVE  OnlyLeaves(sendq[c], Waits(sendq[c]), k)
<1> SUFFICES ASSUME NEW j \in Waits(sendq[c])
             PROVE  (j > k /\ \E n : n = sendq[c][j] /\ Current(n)')
                      <=> sendq[c][j].fiber # sendq[c][k].fiber
  BY DEF OnlyLeaves
<1> PICK q, n, o : q = sendq[c] /\ n = q[j] /\ o = q[k]
  OBVIOUS
<1>1. /\ q \in Seq(SendNodes(Nat)) /\ Waits(q) \in SUBSET (1..Len(q))
      /\ Len(q) \in Nat
  <2>1. /\ sendq[c] \in Seq(SendNodes(Nat))
        /\ Waits(sendq[c]) \in SUBSET (1..Len(sendq[c]))
    BY OnOfferIs, Zenon
  <2> QED
    BY <2>1
<1>2. j \in Nat /\ k \in Nat /\ j \in DOMAIN q /\ k \in DOMAIN q
  BY <1>1
<1>3. n.fiber \in Fibers
  <2>1. n \in SendNodes(Nat)
    BY <1>1, <1>2
  <2> QED
    BY <2>1 DEF SendNodes
<1>4. Current(n)
  BY <1>1, WaitsIn
<1>5. ASSUME n.fiber = o.fiber PROVE ~Current(n)'
  <2>1. state' = Enqueued(state, <<n.fiber>>)
    BY <1>5
  <2> QED
    BY <1>3, <2>1, WokenIsOff
<1>6. ASSUME n.fiber # o.fiber PROVE Current(n)' /\ j > k
  <2>1. n.fiber \notin ToSet(<<o.fiber>>)
    BY <1>6, ListsOne DEF Lists
  <2>2. state'[n.fiber] = state[n.fiber]
    BY <1>3, <2>1 DEF Enqueued
  <2>3. j # k
    BY <1>6
  <2> QED
    BY <1>2, <1>4, <2>2, <2>3 DEF Current
<1> QED
  BY <1>5, <1>6

\* The oldest value on offer is received, and the oldest parked sender's, at
\* place k of its queue, goes into the buffer behind what is there.
Refills(c, k, line) ==
    /\ k \in Waits(sendq[c]) /\ \A e \in Waits(sendq[c]) : k <= e
    /\ CutAt(sendq[c], k, sendq'[c])
    /\ OnlyLeaves(sendq[c], Waits(sendq[c]), k)
    /\ line = Append(items[c], sendq[c][k].v)
    /\ items'[c] = Tail(line) /\ log'[c] = Append(log[c], Head(line))
    /\ closed'[c] = closed[c]

\* That is a step of FifoChannel: the sender's other offers are withdrawn.
LEMMA ChannelTakesSend ==
    ASSUME NInv, CInv, CInv', Moves, NEW c \in Channels, Single(OnOffer(c)),
           NEW k, NEW line, Refills(c, k, line)
    PROVE  Serves(c)
<1>1. PICK q, W :
       /\ q = sendq[c] /\ W = Waits(sendq[c])
       /\ Open(c) = OfferedTogether(q, W)
       /\ UNION Open(c) = ValuesAt(q, W)
       /\ ToSet(Sel(q, W)) = ValuesAt(q, W)
       /\ Apart(q, W) /\ ToSet(items[c]) \cap ValuesAt(q, W) = {}
       /\ ToSet(OnOffer(c)) = ToSet(items[c]) \cup ValuesAt(q, W)
  BY OpenIs, Zenon
<1>2. PICK l, r, V, s, t :
        /\ l = items[c] /\ q = sendq[c] /\ r = sendq'[c]
        /\ W = Waits(sendq[c]) /\ V = Waits(sendq[c])'
        /\ s = Sel(q, W) /\ t = Sel(r, V)
  BY <1>1
<1>3. /\ l \in Seq(Nat) /\ s \in Seq(Nat) /\ t \in Seq(Nat)
      /\ q \in Seq(SendNodes(Nat)) /\ r \in Seq(SendNodes(Nat))
      /\ W \in SUBSET (1..Len(q)) /\ V \in SUBSET (1..Len(r))
      /\ OnOffer(c) = l \o s /\ OnOffer(c)' = Tail(line) \o t
      /\ k \in W /\ \A e \in W : k <= e
  BY <1>2, OnOfferIs, OnOfferWillBe, WaitsWillBe DEF Refills
<1>4. PICK v : v = q[k].v
  OBVIOUS
<1>5. v \in Nat
  <2>1. k \in DOMAIN q
    BY <1>3
  <2>2. q[k] \in SendNodes(Nat)
    BY <1>3, <2>1, Element
  <2> QED
    BY <1>4, <2>2 DEF SendNodes
<1>6. s # <<>> /\ Head(s) = v
  BY <1>2, <1>3, <1>4, SelHead
<1>7. PICK K :
       /\ K \subseteq W
       /\ Open(c)' = OfferedTogether(q, K) /\ ToSet(t) = ValuesAt(q, K)
       /\ \A j : j \in K <=>
             j \in W /\ j > k /\ \E n : n = q[j] /\ Current(n)'
       /\ \A i \in V : k + i \in K
  <2>0. CutAt(sendq[c], k, sendq'[c])
    BY DEF Refills
  <2>1. PICK K : Remain(c, k, q, W, K)
    BY <1>1, <2>0, QueueShrinks
  <2>2. ToSet(t) = ValuesAt(q, K) /\ \A i \in V : k + i \in K
    BY <1>2, <2>1 DEF Remain
  <2> QED
    BY <2>1, <2>2, Zenon DEF Remain
<1>8. K = Others(q, W, k)
  BY <1>2, <1>7 DEF OnlyLeaves, Refills, Others
<1>9. PICK o : o = Beside(q, W, k)
  OBVIOUS
<1>10. /\ v \in o /\ o \in Open(c) /\ Open(c)' = Open(c) \ {o}
       /\ ToSet(t) = ValuesAt(q, W) \ o
  <2>1. Apart(q, W)
    BY <1>1
  <2>2. k \in W
    BY <1>3
  <2>3. /\ q[k].v \in Beside(q, W, k)
        /\ Beside(q, W, k) \in OfferedTogether(q, W)
        /\ OfferedTogether(q, Others(q, W, k))
             = OfferedTogether(q, W) \ {Beside(q, W, k)}
        /\ ValuesAt(q, Others(q, W, k)) = ValuesAt(q, W) \ Beside(q, W, k)
    BY <2>1, <2>2, OneLeaves, Zenon
  <2> QED
    BY <1>1, <1>4, <1>7, <1>8, <1>9, <2>3
<1>11. o \subseteq ValuesAt(q, W)
  BY <1>1, <1>10
<1>12. Within(<<v>> \o t, s)
  <2>1. \A i \in V : k + i \in W
    BY <1>7
  <2>2. CutAt(q, k, r)
    BY <1>2 DEF Refills
  <2> QED
    BY <1>2, <1>3, <1>4, <2>1, <2>2, SelBehind
<1>13. line \in Seq(Nat) /\ line = Append(l, v) /\ line # <<>>
  <2>1. line = Append(l, v)
    BY <1>2, <1>4, Zenon DEF Refills
  <2>2. Append(l, v) \in Seq(Nat) /\ Append(l, v) # <<>>
    BY <1>3, <1>5
  <2> QED
    BY <2>1, <2>2, Zenon
<1>14. PICK x, y, z : /\ x = Tail(line) \o t /\ y = l \o s
                      /\ z = l \o (<<v>> \o t)
  OBVIOUS
<1>15. /\ <<v>> \o t \in Seq(Nat) /\ y \in Seq(Nat) /\ z \in Seq(Nat)
       /\ z = line \o t
  <2>1. <<v>> \in Seq(Nat)
    BY <1>5
  <2>2. <<v>> \o t \in Seq(Nat)
    BY <1>3, <2>1, JoinedAt
  <2>3. y \in Seq(Nat) /\ z \in Seq(Nat)
    BY <1>3, <1>14, <2>2, JoinedAt
  <2>4. l \o (<<v>> \o t) = Append(l, v) \o t
    BY <1>3, <1>5, NumberBetween, Zenon
  <2> QED
    BY <1>13, <1>14, <2>2, <2>3, <2>4
<1>16. Within(z, y)
  BY <1>3, <1>12, <1>14, <1>15, WithinJoined
<1>17. x = Tail(z) /\ z # <<>> /\ Head(z) = Head(line) /\ x \in Seq(Nat)
  <2>1. /\ line \o t # <<>> /\ Head(line \o t) = Head(line)
        /\ Tail(line \o t) = Tail(line) \o t /\ Tail(line) \in Seq(Nat)
    <3>1. line \in Seq(Nat) /\ line # <<>>
      BY <1>13
    <3>2. t \in Seq(Nat)
      BY <1>3
    <3> QED
      BY <3>1, <3>2, JoinedTail, Zenon
  <2>2. Tail(line) \o t \in Seq(Nat)
    BY <1>3, <2>1, JoinedAt
  <2> QED
    BY <1>14, <1>15, <2>1, <2>2, Zenon
<1>18. y # <<>> /\ Head(line) = Head(y)
  <2>1. CASE l = <<>>
    BY <1>3, <1>5, <1>6, <1>13, <1>14, <2>1
  <2>2. CASE l # <<>>
    BY <1>3, <1>5, <1>13, <1>14, <2>2
  <2> QED
    BY <2>1, <2>2
<1>19. Single(y) /\ Single(z) /\ Single(line)
  <2>1. Single(y)
    BY <1>3, <1>14
  <2>2. Len(z) \in Nat /\ Len(y) \in Nat
    BY <1>15
  <2>3. Single(z)
    BY <1>16, <2>1, <2>2, WithinOnce
  <2> QED
    BY <1>3, <1>13, <1>15, <2>1, <2>3, SingleStart
<1>20. Within(x, Tail(y))
  BY <1>15, <1>16, <1>17, <1>18, <1>19, WithinTail
<1>21. ToSet(Tail(y)) = ToSet(y) \ {Head(y)}
  <2>1. y \in Seq(Nat) /\ y # <<>> /\ Single(y)
    BY <1>15, <1>18, <1>19
  <2> QED
    BY <2>1, SingleTail, Zenon
<1>22. ToSet(Tail(line)) = (ToSet(l) \cup {v}) \ {Head(y)}
  <2>1. ToSet(Tail(line)) = ToSet(line) \ {Head(line)}
    <3>1. line \in Seq(Nat) /\ line # <<>> /\ Single(line)
      BY <1>13, <1>19
    <3> QED
      BY <3>1, SingleTail, Zenon
  <2>2. ToSet(line) = ToSet(l) \cup {v}
    <3>1. ToSet(Append(l, v)) = ToSet(l) \cup {v}
      BY <1>3, <1>5, NumberBetween, Zenon
    <3> QED
      BY <1>13, <3>1, Zenon
  <2> QED
    BY <1>18, <2>1, <2>2
<1>23. ToSet(x) = ToSet(Tail(line)) \cup ToSet(t)
  <2>1. Tail(line) \in Seq(Nat)
    BY <1>13
  <2> QED
    <3>1. PICK u : u = Tail(line)
      OBVIOUS
    <3>2. ToSet(u \o t) = ToSet(u) \cup ToSet(t)
      BY <1>3, <1>5, <2>1, <3>1, NumberBetween, Zenon
    <3> QED
      BY <1>14, <3>1, <3>2, Zenon
<1>24. ToSet(x) = ToSet(Tail(y)) \ (o \ {v})
  <2>1. ToSet(y) = ToSet(l) \cup ValuesAt(q, W)
    BY <1>2, <1>3, <1>14, <1>1
  <2>2. Head(y) \in o => Head(y) = v
    <3>1. CASE l = <<>>
      BY <1>3, <1>6, <1>14, <3>1
    <3>2. CASE l # <<>>
      <4>1. Head(y) \in ToSet(l)
        <5>1. Head(y) = l[1] /\ 1 \in DOMAIN l
          BY <1>3, <1>14, <3>2
        <5> QED
          BY <5>1 DEF ToSet
      <4> QED
        BY <1>2, <1>1, <1>11, <4>1
    <3> QED
      BY <3>1, <3>2
  <2>3. ToSet(l) \cap ValuesAt(q, W) = {}
    BY <1>2, <1>1
  <2>4. ToSet(Tail(y)) = (ToSet(l) \cup ValuesAt(q, W)) \ {Head(y)}
    BY <1>21, <2>1
  <2>5. ToSet(x) = ((ToSet(l) \cup {v}) \ {Head(y)}) \cup (ValuesAt(q, W) \ o)
    BY <1>22, <1>23, <1>10
  <2>6. Head(y) \notin ValuesAt(q, W) \ o
    <3>1. CASE l = <<>>
      BY <1>3, <1>6, <1>14, <1>10, <3>1
    <3>2. CASE l # <<>>
      <4>1. Head(y) \in ToSet(l)
        <5>1. Head(y) = l[1] /\ 1 \in DOMAIN l
          BY <1>3, <1>14, <3>2
        <5> QED
          BY <5>1 DEF ToSet
      <4> QED
        BY <2>3, <4>1
    <3> QED
      BY <3>1, <3>2
  <2>7. v \in ValuesAt(q, W) /\ v \in o /\ o \subseteq ValuesAt(q, W)
    BY <1>10, <1>11
  <2> QED
    BY <2>2, <2>3, <2>4, <2>5, <2>6, <2>7
<1>25. PICK n : n = Len(l) + 1
  OBVIOUS
<1>26. /\ n \in DOMAIN y /\ y[n] = v
       /\ \A j \in 1..(n - 1) : y[j] \notin UNION Open(c)
  <2>1. /\ Len(l) \in Nat /\ Len(s) \in Nat /\ Len(s) >= 1 /\ s[1] = v
        /\ DOMAIN y = 1..(Len(l) + Len(s)) /\ DOMAIN l = 1..Len(l)
        /\ \A j \in 1..Len(l) : y[j] = l[j]
        /\ \A j \in 1..Len(s) : y[Len(l) + j] = s[j]
    <3>1. /\ Len(l) \in Nat /\ Len(s) \in Nat /\ Len(y) = Len(l) + Len(s)
          /\ \A j \in 1..Len(l) : y[j] = l[j]
          /\ \A j \in 1..Len(s) : y[Len(l) + j] = s[j]
      BY <1>3, <1>14, JoinedAt
    <3>2. Len(s) >= 1 /\ s[1] = v
      BY <1>3, <1>6
    <3>3. DOMAIN y = 1..Len(y) /\ DOMAIN l = 1..Len(l)
      BY <1>3, <1>15
    <3> QED
      BY <3>1, <3>2, <3>3
  <2>2. n \in 1..(Len(l) + Len(s)) /\ 1 \in 1..Len(s) /\ n - 1 = Len(l)
    BY <1>25, <2>1
  <2>3. y[n] = v
    BY <1>25, <2>1, <2>2
  <2>4. ASSUME NEW j \in 1..(n - 1) PROVE y[j] \notin UNION Open(c)
    <3>1. y[j] = l[j] /\ j \in DOMAIN l
      BY <2>1, <2>2
    <3>2. y[j] \in ToSet(l)
      BY <3>1 DEF ToSet
    <3>3. ToSet(l) \cap UNION Open(c) = {}
      BY <1>2, <1>1
    <3> QED
      BY <3>2, <3>3
  <2> QED
    BY <2>1, <2>2, <2>3, <2>4
<1>27. /\ y = OnOffer(c) /\ x = OnOffer(c)'
       /\ log'[c] = Append(log[c], Head(y)) /\ closed'[c] = closed[c]
  BY <1>2, <1>3, <1>14, <1>18 DEF Refills
<1>28. x \in Seq(Nat) /\ Tail(y) \in Seq(Nat) /\ Single(Tail(y)) /\ Single(x)
  <2>1. y \in Seq(Nat) /\ y # <<>> /\ Single(y) /\ x \in Seq(Nat)
    BY <1>15, <1>17, <1>18, <1>19
  <2>2. Tail(y) \in Seq(Nat) /\ Single(Tail(y))
    BY <2>1, SingleTail, Zenon
  <2> QED
    BY <1>20, <2>1, <2>2, SingleWithin
<1>29. Fifo(c)!Without(x, Tail(y), o \ {v})
  BY <1>20, <1>24, <1>28, WithoutThem
<1>30. Fifo(c)!First(v)
  BY <1>26, <1>27, Zenon DEF Fifo!First
<1>31. Fifo(c)!Take
  <2>1. /\ OnOffer(c) # <<>> /\ log'[c] = Append(log[c], Head(OnOffer(c)))
        /\ Fifo(c)!Without(OnOffer(c)', Tail(OnOffer(c)), o \ {v})
        /\ UNCHANGED closed[c]
    BY <1>18, <1>27, <1>29
  <2>2. o \in Open(c) /\ v \in o /\ Open(c)' = Open(c) \ {o}
    BY <1>10
  <2> QED
    BY <1>30, <2>1, <2>2, Zenon DEF Fifo!Take
<1> QED
  BY <1>27, <1>28, <1>31 DEF Fifo!Next, Serves

\* What a fiber that parks offers on a channel, once each.
LEMMA ParkedOffers ==
    ASSUME NEW as \in Seq(Arms), Distinct(as), NEW f \in Fibers,
           nonce'[f] \in Nat, NEW c
    PROVE  LET b == Vals(SendTail(f, as, c))
           IN  /\ b \in Seq(Nat) /\ Single(b) /\ ToSet(b) \subseteq Offers(as)
               /\ Len(b) = Cardinality(On(as, "send", c))
<1> DEFINE mine == On(as, "send", c)
           t == SendTail(f, as, c)
           b == Vals(t)
<1>1. mine \in SUBSET (1..Len(as)) /\ Len(as) \in Nat
        /\ Cardinality(mine) \in Nat
  BY OnOnes
<1>2. \A i \in mine : i \in DOMAIN as /\ as[i].dir = "send"
  BY DEF On
<1>3. /\ \A k \in 1..Cardinality(mine) : Nth(mine, k) \in mine
      /\ \A j, k \in 1..Cardinality(mine) :
           j < k => Nth(mine, j) < Nth(mine, k)
      /\ \A e \in mine : e \in Nat
  BY <1>1, NthLists
<1>4. t \in Seq(SendNodes(Offers(as))) /\ Len(t) = Cardinality(mine)
  <2>1. t \in Seq(SendNodes(Offers(as)))
    BY SendTailIs
  <2>2. t = [k \in 1..Cardinality(mine) |-> t[k]]
          /\ DOMAIN t = 1..Cardinality(mine)
    BY DEF SendTail
  <2> HIDE DEF t, mine
  <2>3. \A k \in DOMAIN t : t[k] \in SendNodes(Offers(as))
    BY <2>1, Element
  <2>4. t \in [1..Cardinality(mine) -> SendNodes(Offers(as))]
    BY <2>2, <2>3, Zenon
  <2> QED
    BY <1>1, <2>1, <2>4, IsList
<1>5. \A k \in 1..Cardinality(mine) : t[k].v = as[Nth(mine, k)].v
  BY DEF SendTail
<1>6. /\ b = [k \in 1..Cardinality(mine) |-> b[k]]
      /\ \A k \in 1..Cardinality(mine) : b[k] = as[Nth(mine, k)].v
  <2>1. b = [j \in 1..Len(t) |-> t[j].v]
    BY DEF Vals
  <2> HIDE DEF t, mine, b
  <2> QED
    BY <1>4, <1>5, <2>1
<1>7. b \in [1..Cardinality(mine) -> Offers(as) \cap Nat]
  <2>1. ASSUME NEW k \in 1..Cardinality(mine)
        PROVE  as[Nth(mine, k)].v \in Offers(as) \cap Nat
    BY <1>2, <1>3, OfferOf
  <2> HIDE DEF b, mine
  <2> QED
    BY <1>6, <2>1
<1> HIDE DEF b, mine, t
<1>8. b \in Seq(Offers(as) \cap Nat) /\ b \in Seq(Nat)
        /\ Len(b) = Cardinality(mine)
  <2>1. b \in [1..Cardinality(mine) -> Nat]
    BY <1>7
  <2> QED
    BY <1>1, <1>7, <2>1, IsList
<1>9. ToSet(b) \subseteq Offers(as)
  BY <1>8, ElementsOf
<1>10. ASSUME NEW j \in 1..Cardinality(mine), NEW k \in 1..Cardinality(mine),
              j < k, b[j] = b[k]
       PROVE  FALSE
  <2>1. PICK d, e : d = Nth(mine, j) /\ e = Nth(mine, k)
    OBVIOUS
  <2>2. d \in mine /\ e \in mine /\ d < e /\ as[d].v = as[e].v
    BY <1>3, <1>6, <1>10, <2>1
  <2>3. d = e
    BY <1>2, <2>2 DEF Distinct
  <2>4. d \in Nat
    BY <1>3, <2>2
  <2> QED
    BY <2>2, <2>3, <2>4
<1>11. Single(b)
  <2>1. \A j, k \in 1..Cardinality(mine) : j = k \/ j < k \/ k < j
    BY <1>1
  <2> QED
    BY <1>8, <1>10, <2>1 DEF Single
<1> QED
  BY <1>6, <1>8, <1>9, <1>11 DEF b, t, mine

\* Behind a queue, what a fiber that was not in it parks with is one more of
\* what is offered together.
LEMMA TogetherJoined ==
    ASSUME NEW M, NEW p \in Seq(SendNodes(M)), NEW t \in Seq(SendNodes(M)),
           NEW A \in SUBSET (1..Len(p)), t # <<>>,
           NEW f, \A i \in A : p[i].fiber # f,
           \A j \in 1..Len(t) : t[j].fiber = f
    PROVE  OfferedTogether(p \o t, AndMore(A, Len(p), Len(t)))
             = OfferedTogether(p, A) \cup {ToSet(Vals(t))}
<1> PICK x, P, N : x = p \o t /\ P = Len(p) /\ N = Len(t)
  OBVIOUS
<1>1. PICK V : V = AndMore(A, P, N)
  OBVIOUS
<1>2. /\ P \in Nat /\ N \in Nat /\ N >= 1
      /\ \A i \in 1..P : x[i] = p[i]
      /\ \A j \in 1..N : x[P + j] = t[j]
  BY JoinedAt
<1>3. PICK B : B = {P + j : j \in 1..N}
  OBVIOUS
<1>4. V = A \cup B
  BY <1>3, <1>1 DEF AndMore
<1>5. \A i \in A : x[i] = p[i] /\ x[i].fiber # f
  BY <1>2
<1>6. \A i \in B : x[i].fiber = f
  BY <1>2, <1>3
<1>7. ValuesAt(x, B) = ToSet(Vals(t))
  <2>1. DOMAIN Vals(t) = 1..N /\ \A j \in 1..N : Vals(t)[j] = t[j].v
    BY DEF Vals
  <2>2. ASSUME NEW v \in ValuesAt(x, B) PROVE v \in ToSet(Vals(t))
    BY <1>2, <1>3, <2>1, <2>2 DEF ValuesAt, ToSet
  <2>3. ASSUME NEW v \in ToSet(Vals(t)) PROVE v \in ValuesAt(x, B)
    <3>1. PICK j \in 1..N : v = t[j].v
      BY <2>1, <2>3 DEF ToSet
    <3>2. P + j \in B /\ x[P + j].v = v
      BY <1>2, <1>3, <3>1
    <3> QED
      BY <3>2 DEF ValuesAt
  <2> QED
    BY <2>2, <2>3
<1>8. ASSUME NEW k \in B PROVE Beside(x, V, k) = ValuesAt(x, B)
  <2>1. {j \in V : x[j].fiber = x[k].fiber} = B
    BY <1>4, <1>5, <1>6
  <2> QED
    BY <2>1 DEF Beside
<1>9. ASSUME NEW k \in A PROVE Beside(x, V, k) = Beside(p, A, k)
  <2> DEFINE S == {j \in V : x[j].fiber = x[k].fiber}
             T == {j \in A : p[j].fiber = p[k].fiber}
  <2>1. S = T
    BY <1>4, <1>5, <1>6
  <2>2. \A j \in T : x[j].v = p[j].v
    BY <1>5
  <2>3. ValuesAt(x, S) = ValuesAt(p, T)
    <3> HIDE DEF S, T
    <3> QED
      BY <2>1, <2>2 DEF ValuesAt
  <2> QED
    BY <2>3 DEF Beside
<1>10. B # {}
  <2>1. P + 1 \in B
    BY <1>2, <1>3
  <2> QED
    BY <2>1
<1>11. /\ OfferedTogether(x, V) = {Beside(x, V, k) : k \in V}
       /\ OfferedTogether(p, A) = {Beside(p, A, k) : k \in A}
  BY Zenon DEF OfferedTogether, Beside, ValuesAt
<1>12. {Beside(x, V, k) : k \in V} =
         {Beside(p, A, k) : k \in A} \cup {ValuesAt(x, B)}
  <2>1. ASSUME NEW S \in {Beside(x, V, k) : k \in V}
        PROVE  S \in {Beside(p, A, k) : k \in A} \cup {ValuesAt(x, B)}
    <3>1. PICK k \in V : S = Beside(x, V, k)
      BY <2>1
    <3>2. k \in A \/ k \in B
      BY <1>4
    <3> QED
      BY <1>8, <1>9, <3>1, <3>2, Zenon
  <2>2. ASSUME NEW k \in A
        PROVE  Beside(p, A, k) \in {Beside(x, V, j) : j \in V}
    <3>1. k \in V
      BY <1>4
    <3> QED
      BY <1>9, <3>1, Zenon
  <2>3. ValuesAt(x, B) \in {Beside(x, V, k) : k \in V}
    <3>1. PICK k : k \in B
      BY <1>10
    <3>2. k \in V
      BY <1>4, <3>1
    <3> QED
      BY <1>8, <3>1, <3>2, Zenon
  <2> QED
    BY <2>1, <2>2, <2>3, Zenon
<1> QED
  BY <1>7, <1>11, <1>12, <1>1, Zenon

\* Who was parked before another parks still is.
LEMMA ParkKeeps ==
    ASSUME NInv, NEW f \in Fibers, NEW as, AwaitsAll(f, as), state[f] # "chan",
           NEW n, n.fiber \in Fibers, Current(n)
    PROVE  n.fiber # f /\ Current(n)'
<1>1. n.fiber # f
  BY DEF Current
<1>2. /\ state' = [state EXCEPT ![f] = "chan"]
      /\ nonce' = [nonce EXCEPT ![f] = @ + 1]
  BY DEF AwaitsAll, ParkArms, Park, Parks
<1>3. state'[n.fiber] = state[n.fiber] /\ nonce'[n.fiber] = nonce[n.fiber]
  BY <1>1, <1>2 DEF NInv
<1> QED
  BY <1>1, <1>3 DEF Current

\* A fiber parks on the channel among others.
LEMMA ChannelAwaits ==
    ASSUME NInv, CInv, CInv', Moves, NEW c \in Channels, Single(OnOffer(c)),
           NEW f \in Fibers, NEW as \in Seq(Arms), Distinct(as),
           AwaitsAll(f, as), state[f] # "chan",
           Offers(as) \cap (ToSet(OnOffer(c)) \cup ToSet(log[c])) = {}
    PROVE  Serves(c)
<1>1. PICK q, p, t, r, W, V :
        /\ q = sendq[c] /\ p = Pruned(sendq, "recv", as)[c]
        /\ t = SendTail(f, as, c) /\ r = sendq'[c]
        /\ W = Waits(sendq[c]) /\ V = Waits(sendq[c])'
  OBVIOUS
<1>2. /\ q \in Seq(SendNodes(Nat)) /\ r \in Seq(SendNodes(Nat))
      /\ W \in SUBSET (1..Len(q)) /\ V \in SUBSET (1..Len(r))
  BY <1>1, OnOfferIs, WaitsWillBe
<1>3. r = p \o t /\ UNCHANGED <<items, closed, log>> /\ Unready(as)
  BY <1>1, ParkArmsQueues DEF AwaitsAll
<1>4. sendq \in [Channels -> Seq(SendNodes(Nat))]
  BY NodeTypes DEF SendNodes
<1>5. p \in Seq(SendNodes(Nat))
  <2>1. Pruned(sendq, "recv", as) \in [Channels -> Seq(SendNodes(Nat))]
    BY <1>4, PrunedType
  <2> QED
    BY <1>1, <2>1
<1>6. PICK m : CutAt(q, m, p) /\ \A e \in W : e > m
  <2>1. \E m : /\ CutAt(sendq[c], m, Pruned(sendq, "recv", as)[c])
               /\ \A e \in Waits(sendq[c]) : e > m
    BY <1>4, PrunedCut, Zenon
  <2> QED
    BY <1>1, <2>1, Zenon
<1>7. nonce'[f] \in Nat
  BY DEF CInv, ChanTypeOK
<1>8. PICK b : b = Vals(t)
  OBVIOUS
<1>9. /\ b \in Seq(Nat) /\ Single(b) /\ ToSet(b) \subseteq Offers(as)
      /\ Len(b) = Cardinality(On(as, "send", c))
  BY <1>1, <1>7, <1>8, ParkedOffers
<1>10. t \in Seq(SendNodes(Nat))
  <2>1. t \in Seq(SendNodes(Offers(as)))
    BY <1>1, <1>7, SendTailIs
  <2>2. Offers(as) \subseteq Nat
    BY OfferOf DEF Offers
  <2>3. SendNodes(Offers(as)) \subseteq SendNodes(Nat)
    BY <2>2 DEF SendNodes
  <2> QED
    BY <2>1, <2>3, OverMore
<1>11. \A n \in ToSet(t) : n.fiber = f /\ n.nonce = nonce'[f]
  <2> DEFINE st == SendTail(f, as, c)
  <2>1. /\ st \in Seq(SendNodes(Offers(as)))
        /\ \A n \in ToSet(st) :
             /\ n.fiber = f /\ n.nonce = nonce'[f]
             /\ n.v \in Offers(as) /\ On(as, "send", c) # {}
        /\ On(as, "send", c) # {} => \E n : n \in ToSet(st)
    BY <1>7, SendTailIs, Zenon
  <2> QED
    BY <1>1, <2>1, Zenon
<1>12. CASE On(as, "send", c) = {}
  <2>1. t = <<>>
    <3>1. Cardinality(On(as, "send", c)) = 0
      BY <1>12, FS_EmptySet
    <3>2. DOMAIN t = 1..0
      BY <1>1, <3>1 DEF SendTail
    <3> QED
      BY <1>10, <3>2
  <2>2. r = p
    BY <1>3, <1>5, <2>1
  <2>3. /\ CutAt(sendq[c], m, sendq'[c])
        /\ \A e \in Waits(sendq[c]) : e > m
        /\ items'[c] = items[c] /\ log'[c] = log[c] /\ closed'[c] = closed[c]
    BY <1>1, <1>3, <1>6, <2>2
  <2> QED
    BY <2>3, ChannelWithdraws, Zenon
<1>13. CASE On(as, "send", c) # {}
  <2> DEFINE A == {i \in 1..Len(p) : i \in V}
  <2>1. /\ A \in SUBSET (1..Len(p))
        /\ \A i : i \in A <=> i \in 1..Len(p) /\ i \in V
    OBVIOUS
  <2> HIDE DEF A
  <2>2. /\ Len(p) \in Nat /\ Len(t) \in Nat /\ Len(r) = Len(p) + Len(t)
        /\ \A i \in 1..Len(p) : r[i] = p[i]
        /\ \A i \in 1..Len(t) : r[Len(p) + i] = t[i]
    BY <1>3, <1>5, <1>10, JoinedAt
  <2>3. \A i : i \in V <=> i \in 1..Len(r) /\ \E n : n = r[i] /\ Current(n)'
    BY <1>1, WaitsWillBe
  <2>4. ASSUME NEW i \in A PROVE m + i \in W
    <3>1. i \in 1..Len(p) /\ r[i] = p[i] /\ i \in V
      BY <2>1, <2>2, <2>4
    <3>2. p[i] = q[m + i] /\ m + i \in 1..Len(q) /\ DOMAIN q = 1..Len(q)
      BY <1>2, <1>6, <3>1 DEF CutAt
    <3>3. PICK n : n = r[i] /\ Current(n)'
      BY <2>3, <3>1
    <3>4. n \in ToSet(q)
      BY <3>1, <3>2, <3>3 DEF ToSet
    <3>5. Current(n)
      BY <1>1, <3>3, <3>4, StaleNodes
    <3> QED
      BY <1>1, <1>2, <3>1, <3>2, <3>3, <3>5, WaitsIn
  <2>5. ASSUME NEW j \in 1..Len(t) PROVE Len(p) + j \in V
    <3>1. Len(p) + j \in 1..Len(r) /\ r[Len(p) + j] = t[j]
      BY <2>2
    <3>2. PICK n : n = t[j]
      OBVIOUS
    <3>3. n \in ToSet(t)
      BY <1>10, <3>2 DEF ToSet
    <3>4. n.fiber = f /\ n.nonce = nonce'[f]
      BY <1>11, <3>3
    <3>5. state'[f] = "chan"
      BY DEF AwaitsAll, ParkArms, Park, Parks, NInv
    <3>6. Current(n)'
      BY <3>4, <3>5 DEF Current
    <3> QED
      BY <2>3, <3>1, <3>2, <3>6
  <2>6. V = AndMore(A, Len(p), Len(t))
    <3>1. ASSUME NEW i \in V, i \notin A
          PROVE  \E j \in 1..Len(t) : i = Len(p) + j
      <4>1. i \in 1..(Len(p) + Len(t)) /\ i \notin 1..Len(p)
        BY <1>2, <2>1, <2>2, <3>1
      <4>2. PICK j : j = i - Len(p)
        OBVIOUS
      <4>3. j \in 1..Len(t) /\ i = Len(p) + j
        BY <2>2, <4>1, <4>2
      <4> QED
        BY <4>3
    <3>2. \A i : i \in V <=> i \in A \/ \E j \in 1..Len(t) : i = Len(p) + j
      BY <2>1, <2>5, <3>1
    <3> QED
      BY <3>2 DEF AndMore
  <2>7. PICK K : K = {m + i : i \in A}
    OBVIOUS
  <2>8. /\ OfferedTogether(p, A) = OfferedTogether(q, K)
        /\ ValuesAt(p, A) = ValuesAt(q, K)
    <3>1. Len(q) \in Nat
      BY <1>2
    <3> QED
      BY <1>6, <2>1, <2>7, <3>1, CutTogether
  <2>9. ASSUME NEW e \in W PROVE e \in K
    <3>1. PICK i : i = e - m
      OBVIOUS
    <3>2. i \in 1..Len(p) /\ m + i = e /\ r[i] = q[e] /\ i \in 1..Len(r)
      BY <1>2, <1>6, <2>2, <2>9, <3>1 DEF CutAt
    <3>3. PICK n : n = q[e]
      OBVIOUS
    <3>4. Current(n) /\ n \in ToSet(q)
      <4>1. e \in 1..Len(q) /\ DOMAIN q = 1..Len(q)
        BY <1>2, <2>9
      <4>2. Current(q[e])
        BY <1>1, <1>2, <2>9, WaitsIn
      <4> QED
        BY <3>3, <4>1, <4>2 DEF ToSet
    <3>5. n.fiber \in Fibers
      BY <1>1, <3>4, NodeOf
    <3>6. Current(n)'
      BY <3>4, <3>5, ParkKeeps
    <3>7. i \in A
      BY <2>1, <2>3, <3>2, <3>3, <3>6
    <3> QED
      BY <2>7, <3>2, <3>7
  <2>10. K = W
    BY <2>4, <2>7, <2>9
  <2>11. \A i \in A : p[i].fiber # f
    <3>1. ASSUME NEW i \in A PROVE p[i].fiber # f
      <4>1. m + i \in W /\ p[i] = q[m + i]
        BY <1>6, <2>1, <2>4 DEF CutAt
      <4>2. PICK n : n = p[i]
        OBVIOUS
      <4>3. Current(n)
        BY <1>1, <1>2, <4>1, <4>2, WaitsIn
      <4> QED
        BY <4>2, <4>3 DEF Current
    <3> QED
      BY <3>1
  <2>12. \A j \in 1..Len(t) : t[j].fiber = f
    <3>1. \A j \in 1..Len(t) : t[j] \in ToSet(t)
      BY <1>10 DEF ToSet
    <3> QED
      BY <1>11, <3>1
  <2>13. b # <<>> /\ t # <<>>
    <3>1. b # <<>>
      BY <1>9, <1>13, OnOnes
    <3> QED
      BY <1>8, <3>1 DEF Vals
  <2>14. OfferedTogether(r, V) = OfferedTogether(q, W) \cup {ToSet(b)}
    <3>1. A \in SUBSET (1..Len(p)) /\ t # <<>>
      BY <2>1, <2>13
    <3>2. OfferedTogether(p \o t, AndMore(A, Len(p), Len(t)))
            = OfferedTogether(p, A) \cup {ToSet(Vals(t))}
      BY <1>5, <1>10, <2>11, <2>12, <3>1, TogetherJoined, Zenon
    <3> QED
      BY <1>3, <1>8, <2>6, <2>8, <2>10, <3>2, Zenon
  <2>15. Open(c) = OfferedTogether(q, W)
    BY <1>1, Zenon DEF Open
  <2>16. Open(c)' = OfferedTogether(r, V)
    BY <1>1 DEF Open, OfferedTogether
  <2>17. PICK l, s, u : l = items[c] /\ s = Sel(q, W) /\ u = Sel(p, A)
    OBVIOUS
  <2>18. /\ l \in Seq(Nat) /\ s \in Seq(Nat) /\ OnOffer(c) = l \o s
         /\ OnOffer(c)' = l \o Sel(r, V)
    BY <1>1, <1>3, <2>17, OnOfferIs, OnOfferWillBe
  <2>19. Sel(r, V) = u \o b
    <3>1. Sel(p \o t, V) = Sel(p, A) \o Vals(t)
      BY <1>5, <1>10, <2>1, <2>6, SelJoined
    <3> QED
      BY <1>3, <1>8, <2>17, <3>1, Zenon
  <2>20. u \in Seq(Nat) /\ Within(u, s)
    <3>1. u \in Seq(Nat)
      BY <1>5, <2>1, <2>17, SelIs
    <3>2. Within(u, s)
      BY <1>2, <1>5, <1>6, <2>1, <2>4, <2>17, SelCut
    <3> QED
      BY <3>1, <3>2
  <2>21. ToSet(u) = ToSet(s)
    <3>1. ToSet(Sel(p, A)) = ValuesAt(p, A)
      BY <1>5, <2>1, SelHolds
    <3>2. ToSet(Sel(q, W)) = ValuesAt(q, W)
      BY <1>2, SelHolds
    <3> QED
      BY <2>8, <2>10, <2>17, <3>1, <3>2, Zenon
  <2>22. PICK a, y : a = l \o u /\ y = l \o s
    OBVIOUS
  <2>23. a \in Seq(Nat) /\ y \in Seq(Nat) /\ Within(a, y)
    BY <2>18, <2>20, <2>22, JoinedAt, WithinJoined
  <2>24. OnOffer(c)' = a \o b
    <3>1. l \o (u \o b) = (l \o u) \o b
      <4>1. PICK T : T = Nat
        OBVIOUS
      <4>2. l \in Seq(T) /\ u \in Seq(T) /\ b \in Seq(T)
        BY <1>9, <2>18, <2>20, <4>1
      <4> QED
        BY <4>2, ConcatAssociative
    <3> QED
      BY <2>18, <2>19, <2>22, <3>1
  <2>25. ToSet(a) = ToSet(y) \ {}
    <3>1. ToSet(l \o u) = ToSet(l) \cup ToSet(u)
      BY <2>18, <2>20, ElementsOfConcat
    <3>2. ToSet(l \o s) = ToSet(l) \cup ToSet(s)
      BY <2>18, ElementsOfConcat
    <3> QED
      BY <2>21, <2>22, <3>1, <3>2
  <2>26. ~closed[c] /\ closed'[c] = closed[c] /\ log'[c] = log[c]
    BY <1>3, <1>13, UnreadyIs
  <2>27. /\ y = OnOffer(c) /\ Single(y)
         /\ ToSet(b) \cap (ToSet(y) \cup ToSet(log[c])) = {}
    BY <1>9, <2>18, <2>22
  <2>28. Open(c)' = Open(c) \cup {ToSet(b)}
    BY <2>14, <2>15, <2>16, Zenon
  <2> QED
    <3>1. PICK gone : gone = {}
      OBVIOUS
    <3>2. ToSet(a) = ToSet(y) \ gone
      BY <2>25, <3>1
    <3> QED
      BY <1>9, <2>13, <2>23, <2>24, <2>26, <2>27, <2>28, <3>1, <3>2,
         OffersJoin, Zenon
<1> QED
  BY <1>12, <1>13

-----------------------------------------------------------------------------
(* Every step *)

\* All of a list, and nothing of it.
LEMMA AllOrNothing ==
    ASSUME NEW T, NEW q \in Seq(T)
    PROVE  CutAt(q, 0, q) /\ CutAt(q, Len(q), <<>>)
<1>1. /\ Len(q) \in Nat /\ 0 \in 0..Len(q) /\ Len(q) \in 0..Len(q)
      /\ Len(<<>>) = 0 /\ Len(q) - 0 = Len(q) /\ Len(q) - Len(q) = 0
      /\ \A i \in 1..Len(q) : 0 + i = i
      /\ \A i : i \notin 1..0
  OBVIOUS
<1>2. CutAt(q, 0, q)
  BY <1>1 DEF CutAt
<1>3. CutAt(q, Len(q), <<>>)
  BY <1>1, Zenon DEF CutAt
<1> QED
  BY <1>2, <1>3

\* What an operation offers, nobody else does and nobody has received.
LEMMA OffersApart ==
    ASSUME ChanInv, RunInv, ReceiptInv, NEW f \in Fibers, ChanStep(f),
           NEW as, Mine(f, as), NEW c \in Channels
    PROVE  Offers(as) \cap (ToSet(OnOffer(c)) \cup ToSet(log[c])) = {}
<1>1. OnStack(f) /\ GroupView(f)
  BY StepViews
<1>2. state[f] # "chan"
  BY <1>1, ViewRuns DEF ChanInv
<1>3. Clear(f, as) /\ Offers(as) \cap Handed = {}
  BY <1>1, MineClear DEF ChanInv, ReceiptInv, OnStack
<1>4. PICK q, W, s : q = sendq[c] /\ W = Waits(sendq[c]) /\ s = Sel(q, W)
  OBVIOUS
<1>5. /\ items[c] \in Seq(Nat) /\ s \in Seq(Nat) /\ OnOffer(c) = items[c] \o s
      /\ q \in Seq(SendNodes(Nat)) /\ W \in SUBSET (1..Len(q))
  BY <1>4, OnOfferIs DEF ChanInv
<1>6. ToSet(OnOffer(c)) = ToSet(items[c]) \cup ToSet(s)
  BY <1>5, ElementsOfConcat
<1>7. ASSUME NEW v \in ToSet(s) PROVE v \notin Offers(as)
  <2>1. PICK k \in DOMAIN s : v = s[k]
    BY <1>7 DEF ToSet
  <2>2. k \in 1..Cardinality(W) /\ s[k] = q[Nth(W, k)].v
    <3>1. Len(s) = Cardinality(W) /\ DOMAIN s = 1..Len(s)
      BY <1>4, <1>5, SelIs
    <3> QED
      BY <1>4, <1>5, <3>1, SelIs
  <2>3. Nth(W, k) \in W
    <3>1. Len(q) \in Nat
      BY <1>5
    <3> QED
      BY <1>5, <2>2, <3>1, NthLists
  <2>4. PICK n : n = q[Nth(W, k)]
    OBVIOUS
  <2>5. n \in ToSet(q) /\ Current(n)
    <3>1. \A i \in W : i \in DOMAIN q
      BY <1>5
    <3>2. \A i \in W : Current(q[i])
      BY <1>4, <1>5, WaitsIn
    <3> QED
      BY <2>3, <2>4, <3>1, <3>2 DEF ToSet
  <2>6. v \in Offers(arms[n.fiber])
    BY <1>4, <2>1, <2>2, <2>4, <2>5 DEF ReceiptInv, NodesOffer
  <2>7. n.fiber \in Fibers \ {f}
    BY <1>2, <1>4, <2>5, NodeOf DEF ChanInv, Current
  <2> QED
    BY <1>3, <2>6, <2>7 DEF Clear
<1>8. ASSUME NEW v, v \in ToSet(items[c]) \cup ToSet(log[c])
      PROVE  v \notin Offers(as)
  BY <1>3, <1>8, HandedIs
<1> QED
  BY <1>6, <1>7, <1>8

\* A send that finds its channel open and ready, and somebody else parked on it
\* with a value, wakes that one: it is parked to receive as well.
LEMMA PutWakesSender ==
    ASSUME NInv, CInv, WaitInv, NEW as \in Seq(Arms), NEW c \in Channels,
           NEW i \in On(as, "send", c), Ready(as[i]), ~closed[c],
           NEW n \in ToSet(sendq[c]), Current(n)
    PROVE  OldestFiber(Pruned(recvq, "send", Before(as, i))[c]) = <<n.fiber>>
<1>1. recvq \in [Channels -> Seq(RecvNodes)]
  BY NodeTypes DEF RecvNodes
<1>2. n.fiber \in Parked(sendq[c]) /\ n.fiber \in Fibers
  BY ParkedAre, NodeOf
<1>3. Len(items[c]) >= Capacity[c]
  BY <1>2 DEF WaitInv
<1>4. Waits(recvq[c]) # {}
  <2>1. Len(items[c]) \in Nat /\ Capacity[c] \in Nat
    BY ChannelAssumption DEF CInv, ChanTypeOK
  <2>2. ~(Len(items[c]) < Capacity[c])
    BY <1>3, <2>1
  <2> QED
    BY <2>2 DEF Ready, On
<1>5. PICK r : r = Pruned(recvq, "send", Before(as, i))
  OBVIOUS
<1>6. r \in [Channels -> Seq(RecvNodes)]
  BY <1>1, <1>5, PrunedType
<1>7. Waits(r[c]) # {}
  <2>1. PICK m : CutAt(recvq[c], m, r[c]) /\ \A e \in Waits(recvq[c]) : e > m
    BY <1>1, <1>5, PrunedCut
  <2>2. recvq[c] \in Seq(RecvNodes) /\ r[c] \in Seq(RecvNodes)
    BY <1>1, <1>6
  <2> QED
    BY <1>4, <2>1, <2>2, CutWaits
<1>8. PICK o : o = Oldest(r[c])
  OBVIOUS
<1>9. o \in ToSet(r[c]) /\ Current(o)
  BY <1>6, <1>7, <1>8, OldestType
<1>10. o.fiber \in Parked(recvq[c])
  <2>1. o \in ToSet(recvq[c])
    BY <1>1, <1>5, <1>9, PrunedWithin
  <2> QED
    BY <1>9, <2>1, ParkedAre
<1>11. o.fiber = n.fiber
  BY <1>2, <1>10 DEF WaitInv, NoMissedRendezvous
<1> QED
  BY <1>5, <1>7, <1>8, <1>11 DEF OldestFiber

\* So at most one fiber is parked on it with a value, and then nobody is.
LEMMA PutFindsNobody ==
    ASSUME NInv, CInv, CInv', Moves, WaitInv, NEW as \in Seq(Arms),
           NEW c \in Channels, NEW i \in On(as, "send", c),
           Ready(as[i]), PutNow(as, i), ~closed[c]
    PROVE  /\ \A j, k \in Waits(sendq[c]) :
                sendq[c][j].fiber = sendq[c][k].fiber
           /\ Waits(sendq[c])' = {}
<1>1. as[i].ch = c
  BY DEF On
<1>2. sendq \in [Channels -> Seq(SendNodes(Nat))]
  BY NodeTypes DEF SendNodes
<1>3. PICK F : F = OldestFiber(Pruned(recvq, "send", Before(as, i))[c])
  OBVIOUS
<1>4. \A n \in ToSet(sendq[c]) : Current(n) => F = <<n.fiber>>
  BY <1>3, PutWakesSender, Zenon
<1>5. \A j \in Waits(sendq[c]) : F = <<sendq[c][j].fiber>>
  <2>1. ASSUME NEW j \in Waits(sendq[c]) PROVE F = <<sendq[c][j].fiber>>
    <3>1. sendq[c] \in Seq(SendNodes(Nat))
      BY <1>2
    <3>2. PICK n : n = sendq[c][j]
      OBVIOUS
    <3>3. j \in DOMAIN sendq[c] /\ Current(n)
      BY <2>1, <3>1, <3>2, WaitsIn
    <3>4. n \in ToSet(sendq[c])
      BY <3>2, <3>3 DEF ToSet
    <3> QED
      BY <1>4, <3>2, <3>3, <3>4
  <2> QED
    BY <2>1
<1>6. \A j, k \in Waits(sendq[c]) : sendq[c][j].fiber = sendq[c][k].fiber
  BY <1>5
<1>7. ASSUME NEW j \in Waits(sendq[c])' PROVE FALSE
  <2>1. PICK n : n = sendq'[c][j] /\ Current(n)' /\ j \in 1..Len(sendq'[c])
    BY <1>7, WaitsWillBe
  <2>2. n \in ToSet(sendq'[c])
    <3>1. sendq'[c] \in Seq(SendNodes(Nat))
      BY WaitsWillBe
    <3>2. j \in DOMAIN sendq'[c]
      BY <2>1, <3>1
    <3> QED
      BY <2>1, <3>2 DEF ToSet
  <2>3. n \in ToSet(sendq[c]) /\ Current(n)
    <3>1. sendq' = Pruned(sendq, "recv", Before(as, i))
      BY DEF PutNow
    <3>2. n \in ToSet(sendq[c])
      BY <1>2, <2>2, <3>1, PrunedWithin
    <3> QED
      BY <2>1, <3>2, StaleNodes
  <2>4. n.fiber \in Fibers
    BY <2>3, NodeOf
  <2>5. state' = Enqueued(state, <<n.fiber>>)
    <3>1. state' = Enqueued(state, F)
      BY <1>1, <1>3 DEF PutNow
    <3> QED
      BY <1>4, <2>3, <3>1
  <2> QED
    BY <2>1, <2>4, <2>5, WokenIsOff
<1> QED
  BY <1>6, <1>7

\* A send that is answered.
LEMMA PutServes ==
    ASSUME NInv, CInv, CInv', Moves, WaitInv, NEW as \in Seq(Arms),
           NEW i \in DOMAIN as, Ready(as[i]), PutNow(as, i),
           NEW c \in Channels, Single(OnOffer(c)),
           Offers(as) \cap (ToSet(OnOffer(c)) \cup ToSet(log[c])) = {}
    PROVE  Serves(c)
<1>1. sendq \in [Channels -> Seq(SendNodes(Nat))]
  BY NodeTypes DEF SendNodes
<1>2. /\ sendq' = Pruned(sendq, "recv", Before(as, i))
      /\ closed'[c] = closed[c] /\ log'[c] = log[c]
  BY DEF PutNow
<1>3. PICK m : /\ CutAt(sendq[c], m, sendq'[c])
               /\ \A e \in Waits(sendq[c]) : e > m
  BY <1>1, <1>2, PrunedCut
<1>4. CASE items'[c] = items[c]
  BY <1>2, <1>3, <1>4, ChannelWithdraws
<1>5. CASE items'[c] # items[c]
  <2>1. /\ c = as[i].ch /\ ~closed[c]
        /\ items'[c] = Append(items[c], as[i].v)
    BY <1>5 DEF PutNow, CInv, ChanTypeOK
  <2>2. /\ \A j, k \in Waits(sendq[c]) :
             sendq[c][j].fiber = sendq[c][k].fiber
        /\ Waits(sendq[c])' = {}
    <3>1. i \in On(as, "send", c)
      BY <2>1 DEF PutNow, On
    <3> QED
      BY <2>1, <3>1, PutFindsNobody, Zenon
  <2>3. as[i].v \in Offers(as) /\ as[i].v \in Nat
    BY OfferOf DEF PutNow
  <2>4. as[i].v \notin ToSet(OnOffer(c)) \cup ToSet(log[c])
    BY <2>3
  <2> QED
    BY <1>2, <2>1, <2>2, <2>3, <2>4, ChannelPuts
<1> QED
  BY <1>4, <1>5

\* A queue nobody leaves.
LEMMA NoneLeaves ==
    ASSUME NEW q \in Seq(SendNodes(Nat)), NEW r, r = q
    PROVE  CutAt(q, 0, r) /\ \A e \in Waits(q) : e > 0
<1>1. CutAt(q, 0, q)
  BY AllOrNothing
<1>2. Waits(q) \in SUBSET (1..Len(q)) /\ Len(q) \in Nat
  BY WaitsIn
<1> QED
  BY <1>1, <1>2

\* A receive that is answered.
LEMMA TakeServes ==
    ASSUME NInv, CInv, CInv', Moves, NEW as \in Seq(Arms),
           NEW i \in DOMAIN as, TakeNow(as, i), UNCHANGED nonce,
           NEW c \in Channels, Single(OnOffer(c))
    PROVE  Serves(c)
<1>1. sendq \in [Channels -> Seq(SendNodes(Nat))]
  BY NodeTypes DEF SendNodes
<1>2. PICK ch, sq : ch = as[i].ch /\ sq = Pruned(sendq, "recv", Before(as, i))
  OBVIOUS
<1>3. PICK takes : takes = ( /\ Waits(sq[ch]) # {}
                             /\ items[ch] # <<>> \/ ~closed[ch] )
  OBVIOUS
<1>4. PICK line : line = IF takes THEN Append(items[ch], Oldest(sq[ch]).v)
                         ELSE items[ch]
  OBVIOUS
<1>5. /\ \/ /\ line # <<>>
            /\ sendq' = [sq EXCEPT ![ch] = Behind(@)]
            /\ items' = [items EXCEPT ![ch] = Tail(line)]
            /\ log' = [log EXCEPT ![ch] = Append(@, Head(line))]
            /\ takes => state' = Enqueued(state, OldestFiber(sq[ch]))
         \/ /\ line = <<>>
            /\ sendq' = sq
            /\ UNCHANGED <<items, log>>
      /\ UNCHANGED closed
  BY <1>2, <1>3, <1>4 DEF TakeNow
<1>6. sq \in [Channels -> Seq(SendNodes(Nat))]
  BY <1>1, <1>2, PrunedType
<1>7. PICK m : CutAt(sendq[c], m, sq[c]) /\ \A e \in Waits(sendq[c]) : e > m
  BY <1>1, <1>2, PrunedCut
<1>8. items \in [Channels -> Seq(Nat)] /\ log \in [Channels -> Seq(Nat)]
  BY DEF CInv, ChanTypeOK
<1>9. CASE c # ch \/ line = <<>>
  <2>1. sendq'[c] = sq[c] /\ items'[c] = items[c] /\ log'[c] = log[c]
    BY <1>5, <1>6, <1>8, <1>9
  <2>2. closed'[c] = closed[c]
    BY <1>5
  <2>3. CutAt(sendq[c], m, sendq'[c]) /\ \A e \in Waits(sendq[c]) : e > m
    BY <1>7, <2>1
  <2> QED
    BY <2>1, <2>2, <2>3, ChannelWithdraws, Zenon
<1>10. CASE c = ch /\ line # <<>>
  <2>1. /\ sendq'[c] = Behind(sq[c]) /\ items'[c] = Tail(line)
        /\ log'[c] = Append(log[c], Head(line)) /\ closed'[c] = closed[c]
    BY <1>5, <1>6, <1>8, <1>10
  <2>2. sendq[c] \in Seq(SendNodes(Nat)) /\ sq[c] \in Seq(SendNodes(Nat))
    BY <1>1, <1>6
  <2>3. PICK k : /\ CutAt(sendq[c], k, Behind(sq[c]))
                 /\ Waits(sendq[c]) # {} =>
                      /\ k \in Waits(sendq[c]) /\ Oldest(sq[c]) = sendq[c][k]
                      /\ \A e \in Waits(sendq[c]) : k <= e
    BY <1>7, <2>2, BehindCut
  <2>4. Waits(sq[c]) = {} <=> Waits(sendq[c]) = {}
    BY <1>7, <2>2, CutWaits
  <2>5. CASE takes
    <3>1. Waits(sendq[c]) # {}
      BY <1>3, <1>10, <2>4, <2>5
    <3>2. line = Append(items[c], sendq[c][k].v)
      BY <1>4, <1>10, <2>3, <2>5, <3>1
    <3>3. k \in Waits(sendq[c]) /\ \A e \in Waits(sendq[c]) : k <= e
      BY <2>3, <3>1
    <3>4. state' = Enqueued(state, <<sendq[c][k].fiber>>)
      <4>1. OldestFiber(sq[c]) = <<sendq[c][k].fiber>>
        BY <2>3, <2>4, <3>1 DEF OldestFiber
      <4> QED
        BY <1>5, <1>10, <2>5, <4>1
    <3>5. OnlyLeaves(sendq[c], Waits(sendq[c]), k)
      BY <3>3, <3>4, OneWoken, Zenon
    <3>6. Refills(c, k, line)
      BY <2>1, <2>3, <3>2, <3>3, <3>5, Zenon DEF Refills
    <3> QED
      BY <3>6, ChannelTakesSend, Zenon
  <2>6. CASE ~takes
    <3>1. line = items[c]
      BY <1>4, <1>10, <2>6
    <3>2. Waits(sendq[c]) = {}
      BY <1>3, <1>10, <2>4, <2>6, <3>1
    <3> QED
      BY <1>10, <2>1, <2>3, <3>1, <3>2, ChannelTakesItem
  <2> QED
    BY <2>5, <2>6
<1> QED
  BY <1>9, <1>10

-----------------------------------------------------------------------------
(* The refinement *)

\* No channel has the same value on offer twice, and no operation two arms
\* with the same value.
OnceInv ==
    /\ \A c \in Channels : Single(OnOffer(c))
    /\ \A f \in Fibers : Distinct(arms[f])

ServingInv == ChanInv /\ WaitInv /\ RunInv /\ ReceiptInv /\ OnceInv

\* The arms of an operation, whoever parked with them.
LEMMA MineDistinct ==
    ASSUME OnceInv, NEW f \in Fibers, NEW as, Mine(f, as)
    PROVE  Distinct(as) /\ as \in Seq(Arms)
  BY DEF Mine, OnceInv

\* An operation that is over, whichever way.
LEMMA EndServes ==
    ASSUME ServingInv, CInv', Moves, NEW f \in Fibers, ChanStep(f), NEW as,
           Mine(f, as), Acts(f, as), ~AwaitsAll(f, as), NEW c \in Channels
    PROVE  Serves(c)
<1>1. NInv /\ CInv /\ WaitInv /\ Single(OnOffer(c)) /\ as \in Seq(Arms)
  BY MineDistinct DEF ServingInv, ChanInv, OnceInv
<1>2. Offers(as) \cap (ToSet(OnOffer(c)) \cup ToSet(log[c])) = {}
  BY OffersApart DEF ServingInv
<1>3. sendq \in [Channels -> Seq(SendNodes(Nat))]
  BY <1>1, NodeTypes DEF SendNodes
<1>4. CASE EndsRefused(f, as)
  <2>1. UNCHANGED <<items, closed, sendq, log>>
    BY <1>4 DEF EndsRefused, queueVars
  <2>2. CutAt(sendq[c], 0, sendq'[c]) /\ \A e \in Waits(sendq[c]) : e > 0
    BY <1>3, <2>1, NoneLeaves
  <2> QED
    BY <1>1, <2>1, <2>2, ChannelWithdraws
<1>5. CASE Declines(f, as)
  <2>1. sendq' = Pruned(sendq, "recv", as) /\ UNCHANGED <<items, closed, log>>
    BY <1>5 DEF Declines
  <2>2. PICK m : /\ CutAt(sendq[c], m, sendq'[c])
                 /\ \A e \in Waits(sendq[c]) : e > m
    BY <1>3, <2>1, PrunedCut
  <2> QED
    BY <1>1, <2>1, <2>2, ChannelWithdraws
<1>6. CASE (\E i \in DOMAIN as : Wins(as, i)) /\ Ends(f)
  <2>1. PICK i \in DOMAIN as :
          Ready(as[i]) /\ (PutNow(as, i) \/ TakeNow(as, i))
    BY <1>6 DEF Wins
  <2>2. UNCHANGED nonce
    BY <1>6 DEF Ends
  <2> QED
    BY <1>1, <1>2, <2>1, <2>2, PutServes, TakeServes
<1> QED
  BY <1>4, <1>5, <1>6 DEF Acts

\* Whatever a fiber does to the channels serves each of them.
LEMMA StepServes ==
    ASSUME ServingInv, CInv', Moves, NEW f \in Fibers, ChanStep(f),
           NEW c \in Channels
    PROVE  Serves(c)
<1>1. NInv /\ CInv /\ Single(OnOffer(c))
  BY DEF ServingInv, ChanInv, OnceInv
<1>2. Operates(f)
  BY StepViews DEF ServingInv
<1>3. sendq \in [Channels -> Seq(SendNodes(Nat))]
  BY <1>1, NodeTypes DEF SendNodes
<1>4. CASE BoxEmptied(f)
  <2>1. UNCHANGED <<items, closed, sendq, log>>
    BY <1>4 DEF BoxEmptied, queueVars
  <2>2. CutAt(sendq[c], 0, sendq'[c]) /\ \A e \in Waits(sendq[c]) : e > 0
    BY <1>3, <2>1, NoneLeaves
  <2> QED
    BY <1>1, <2>1, <2>2, ChannelWithdraws
<1>5. CASE Close(f)
  <2>1. PICK ch \in Channels :
          /\ closed' = [closed EXCEPT ![ch] = TRUE]
          /\ sendq' = [sendq EXCEPT ![ch] = <<>>]
    BY <1>5 DEF Close
  <2>2. UNCHANGED <<items, log>>
    BY <1>5 DEF Close, historyVars
  <2>3. CASE c = ch
    <3>1. closed'[c] = TRUE /\ sendq'[c] = <<>>
      BY <1>1, <1>3, <2>1, <2>3 DEF CInv, ChanTypeOK
    <3>2. PICK m : CutAt(sendq[c], m, sendq'[c])
      BY <1>3, <3>1, AllOrNothing
    <3>3. Waits(sendq[c])' = {}
      <4>1. \A i : i \notin 1..Len(sendq'[c])
        BY <3>1
      <4> QED
        BY <4>1, WaitsWillBe
    <3> QED
      BY <1>1, <2>2, <3>1, <3>2, <3>3, ChannelWithdraws
  <2>4. CASE c # ch
    <3>1. closed'[c] = closed[c] /\ sendq'[c] = sendq[c]
      BY <1>1, <1>3, <2>1, <2>4 DEF CInv, ChanTypeOK
    <3>2. CutAt(sendq[c], 0, sendq'[c]) /\ \A e \in Waits(sendq[c]) : e > 0
      BY <1>3, <3>1, NoneLeaves
    <3> QED
      BY <1>1, <2>2, <3>1, <3>2, ChannelWithdraws
  <2> QED
    BY <2>3, <2>4
<1>6. ASSUME NEW as, Mine(f, as), AwaitsAll(f, as) PROVE Serves(c)
  <2>1. Distinct(as) /\ as \in Seq(Arms)
    BY <1>6, MineDistinct DEF ServingInv
  <2>2. Offers(as) \cap (ToSet(OnOffer(c)) \cup ToSet(log[c])) = {}
    BY <1>6, OffersApart DEF ServingInv
  <2>3. state[f] # "chan"
    BY StepViews, ViewRuns DEF ServingInv, ChanInv
  <2> QED
    BY <1>1, <1>6, <2>1, <2>2, <2>3, ChannelAwaits
<1>7. ASSUME NEW as, Mine(f, as), Acts(f, as), ~AwaitsAll(f, as)
      PROVE  Serves(c)
  BY <1>7, EndServes
<1> QED
  BY <1>2, <1>4, <1>5, <1>6, <1>7 DEF Operates

\* A step that leaves the channels' variables alone may take fibers off them.
LEMMA IdleServes ==
    ASSUME ServingInv, CInv', Moves, UNCHANGED chanVars, NEW c \in Channels
    PROVE  Serves(c)
<1>1. NInv /\ CInv /\ Single(OnOffer(c))
  BY DEF ServingInv, ChanInv, OnceInv
<1>2. UNCHANGED <<items, closed, sendq, log>>
  BY DEF chanVars, queueVars, historyVars
<1>3. sendq[c] \in Seq(SendNodes(Nat))
  BY <1>1, OnOfferIs
<1>4. CutAt(sendq[c], 0, sendq'[c]) /\ \A e \in Waits(sendq[c]) : e > 0
  BY <1>2, <1>3, NoneLeaves
<1> QED
  BY <1>1, <1>2, <1>4, ChannelWithdraws

\* The arms a fiber is left with have a value each.
LEMMA ArmsStayDistinct ==
    ASSUME ServingInv, NEW f \in Fibers, ChanStep(f), NEW g \in Fibers
    PROVE  Distinct(arms'[g])
<1>1. Operates(f) /\ Distinct(arms[g]) /\ DOMAIN arms = Fibers
  BY StepViews DEF ServingInv, ChanInv, OnceInv, CInv, ChanTypeOK
<1>2. Distinct(<<>>)
  BY DEF Distinct
<1>3. CASE UNCHANGED arms
  BY <1>1, <1>3
<1>4. CASE Ends(f)
  <2>1. arms' = [arms EXCEPT ![f] = <<>>]
    BY <1>4 DEF Ends
  <2> QED
    BY <1>1, <1>2, <2>1
<1>5. ASSUME NEW as, Mine(f, as), AwaitsAll(f, as) PROVE Distinct(arms'[g])
  <2>1. arms' = [arms EXCEPT ![f] = as] /\ Distinct(as)
    BY <1>5, MineDistinct DEF AwaitsAll, ServingInv
  <2> QED
    BY <1>1, <2>1
<1>6. Close(f) => UNCHANGED arms
  BY DEF Close
<1>7. BoxEmptied(f) => Ends(f)
  BY DEF BoxEmptied
<1>8. ASSUME NEW as, Acts(f, as), ~AwaitsAll(f, as) PROVE Ends(f)
  BY <1>8 DEF Acts, EndsRefused, Declines
<1> QED
  BY <1>1, <1>3, <1>4, <1>5, <1>6, <1>7, <1>8 DEF Operates

\* Every step of the system serves every channel.
LEMMA EveryStepServes ==
    ASSUME ServingInv, [ChanNext]_allVars
    PROVE  OnceInv' /\ \A c \in Channels : Fifo(c)!Next
<1>1. CInv' /\ Moves
  BY ChanInvStep, EveryStepMoves DEF ServingInv, ChanInv
<1>2. CASE UNCHANGED chanVars
  <2>1. \A c \in Channels : Serves(c)
    BY <1>1, <1>2, IdleServes
  <2>2. UNCHANGED arms
    BY <1>2 DEF chanVars
  <2> QED
    BY <2>1, <2>2 DEF Serves, ServingInv, OnceInv
<1>3. ASSUME NEW f \in Fibers, ChanStep(f)
      PROVE  OnceInv' /\ \A c \in Channels : Fifo(c)!Next
  <2>1. \A c \in Channels : Serves(c)
    BY <1>1, <1>3, StepServes
  <2>2. \A g \in Fibers : Distinct(arms'[g])
    BY <1>3, ArmsStayDistinct
  <2> QED
    BY <2>1, <2>2 DEF Serves, OnceInv
<1> QED
  BY <1>2, <1>3 DEF ChanNext, allVars

\* Nothing is on offer at first.
LEMMA NothingOffered ==
    ASSUME ChanInits
    PROVE  OnceInv /\ \A c \in Channels : Fifo(c)!Init
<1>1. ASSUME NEW c \in Channels
      PROVE  OnOffer(c) = <<>> /\ Open(c) = {}
  <2>1. items[c] = <<>> /\ sendq[c] = <<>>
    BY DEF ChanInits, ChanInit
  <2>2. Waits(<<>>) = {}
    BY DEF Waits
  <2>3. OnOffer(c) = <<>> \o Sel(<<>>, {})
    BY <2>1, <2>2 DEF OnOffer, ParkedSends, Sel
  <2>4. <<>> \o <<>> = <<>>
    OBVIOUS
  <2>5. Open(c) = {}
    BY <2>1, <2>2 DEF Open, OfferedTogether
  <2> QED
    BY <2>1, <2>3, <2>4, <2>5, SelNone
<1>2. Single(<<>>)
  BY DEF Single
<1>3. \A f \in Fibers : Distinct(arms[f])
  BY DEF ChanInits, ChanInit, Distinct
<1>4. ASSUME NEW c \in Channels PROVE Fifo(c)!Init
  <2>1. log[c] = <<>> /\ closed[c] = FALSE
    BY DEF ChanInits, ChanInit
  <2> QED
    BY <1>1, <2>1 DEF Fifo!Init
<1> QED
  BY <1>1, <1>2, <1>3, <1>4 DEF OnceInv

\* Every channel of the program implements a first-in first-out line, however
\* many fibers, channels and arms there are and whatever the capacities: every
\* step of the system is, for each channel, a step of FifoChannel.
THEOREM ChannelsAreFifo == ChanSpec => FirstInFirstOut
<1>1. ChanInits => OnceInv /\ \A ch \in Channels : Fifo(ch)!Init
  BY NothingOffered
<1>2. ServingInv /\ [ChanNext]_allVars => OnceInv'
  BY EveryStepServes
<1>3. ServingInv /\ [ChanNext]_allVars =>
        [\A ch \in Channels : [Fifo(ch)!Next]_(Fifo(ch)!vars)]_allVars
  BY EveryStepServes
<1>4. ServingInv <=> (ChanInv /\ WaitInv) /\ (ChanInv /\ RunInv /\ ReceiptInv)
                       /\ OnceInv
  BY DEF ServingInv
<1> QED
  BY <1>1, <1>2, <1>3, <1>4, InductiveWaits, InductiveReceipts, PTL
  DEF ChanSpec, FirstInFirstOut
=============================================================================
