--------------------------- MODULE IyiListProofs ---------------------------
(* What the list operators of IyiLists and SequencesExt return. *)
EXTENDS IyiLists, FiniteSetTheorems, SequenceTheorems,
        WellFoundedInduction, TLAPS

\* An injection of a finite set into one of the same size covers it: the
\* listing of a set is a sequence with exactly its elements.
LEMMA ListsAll ==
    ASSUME NEW S, IsFiniteSet(S), NEW w \in SetToSeqs(S)
    PROVE  w \in Seq(S) /\ ToSet(w) = S
<1> DEFINE n == Cardinality(S)
<1>1. n \in Nat
  BY FS_CardinalityType
<1>2. w \in [1..n -> S] /\ \A i, j \in 1..n : i # j => w[i] # w[j]
  BY DEF SetToSeqs
<1>3. IsFiniteSet(1..n) /\ Cardinality(1..n) = n
  BY <1>1, FS_Interval
<1>4. w \in Injection(1..n, S)
  BY <1>2 DEF Injection, IsInjective
<1>5. w \in Surjection(1..n, S)
  BY <1>3, <1>4, FS_Injection
<1>6. w \in Seq(S)
  BY <1>1, <1>2
<1>7. ToSet(w) = S
  BY <1>2, <1>5 DEF ToSet, Surjection
<1> QED
  BY <1>6, <1>7

\* Some elements unlinked from a list leave a list of the others.
LEMMA InOrderLists ==
    ASSUME NEW S, IsFiniteSet(S), NEW q, NEW w \in InOrder(q, S)
    PROVE  w \in Seq(S) /\ ToSet(w) = S
  BY ListsAll DEF InOrder

\* A sublist has no other elements.
LEMMA InOrderWithin ==
    ASSUME NEW S, NEW q, NEW w \in InOrder(q, S)
    PROVE  ToSet(w) \subseteq S
  BY DEF InOrder, SetToSeqs, ToSet

\* The elements of a list are among those it is made from.
LEMMA ElementsOf ==
    ASSUME NEW S, NEW q \in Seq(S)
    PROVE  ToSet(q) \subseteq S
  BY DEF ToSet

\* The elements of two lists joined.
LEMMA ElementsOfConcat ==
    ASSUME NEW S, NEW p \in Seq(S), NEW q \in Seq(S)
    PROVE  ToSet(p \o q) = ToSet(p) \cup ToSet(q)
<1>1. \A i \in DOMAIN (p \o q) : (p \o q)[i] \in ToSet(p) \cup ToSet(q)
  BY DEF ToSet
<1>2. \A i \in DOMAIN p : i \in DOMAIN (p \o q) /\ p[i] = (p \o q)[i]
  OBVIOUS
<1>3. \A i \in DOMAIN q :
          Len(p) + i \in DOMAIN (p \o q) /\ q[i] = (p \o q)[Len(p) + i]
  OBVIOUS
<1>4. ToSet(p \o q) \subseteq ToSet(p) \cup ToSet(q)
  BY <1>1, Zenon DEF ToSet
<1>5. ToSet(p) \subseteq ToSet(p \o q) /\ ToSet(q) \subseteq ToSet(p \o q)
  BY <1>2, <1>3, Zenon DEF ToSet
<1> QED
  BY <1>4, <1>5

\* The first of three lists joined.
LEMMA Joined ==
    ASSUME NEW S, NEW p \in Seq(S), NEW q \in Seq(S)
    PROVE  /\ p \o q \in Seq(S) /\ Len(p \o q) = Len(p) + Len(q)
           /\ \A i \in 1..Len(p) : (p \o q)[i] = p[i]
           /\ \A i \in 1..Len(q) : (p \o q)[Len(p) + i] = q[i]
OBVIOUS

LEMMA FirstOfThree ==
    ASSUME NEW S, NEW p \in Seq(S), NEW q \in Seq(S), NEW r \in Seq(S)
    PROVE  ToSet(p) \subseteq ToSet(p \o q \o r)
<1>1. p \o q \in Seq(S)
  BY ConcatProperties
<1>2. ToSet(p \o q \o r) = ToSet(p \o q) \cup ToSet(r)
  BY <1>1, ElementsOfConcat, Zenon
<1>3. ToSet(p \o q) = ToSet(p) \cup ToSet(q)
  BY ElementsOfConcat, Zenon
<1> QED
  BY <1>2, <1>3

\* A part of a list.
LEMMA PartOf ==
    ASSUME NEW S, NEW q \in Seq(S), NEW m \in Nat \ {0}, NEW n \in 0..Len(q)
    PROVE  SubSeq(q, m, n) \in Seq(S)
<1>1. \A i \in m..n : q[i] \in S
  OBVIOUS
<1> QED
  BY <1>1, SubSeqProperties

\* A list is its two parts.
LEMMA Halves ==
    ASSUME NEW S, NEW q \in Seq(S), NEW n \in 0..Len(q)
    PROVE  q = SubSeq(q, 1, n) \o SubSeq(q, n + 1, Len(q))
<1> DEFINE p == SubSeq(q, 1, n)
           r == SubSeq(q, n + 1, Len(q))
<1>1. n \in Nat /\ Len(q) \in Nat
  OBVIOUS
<1>2. /\ p \in Seq(S) /\ Len(p) = n
      /\ \A i \in 1..n : p[i] = q[i]
  BY <1>1
<1>3. /\ r \in Seq(S) /\ Len(r) = Len(q) - n
      /\ \A i \in 1..(Len(q) - n) : r[i] = q[n + i]
  BY <1>1
<1> HIDE DEF p, r
<1>4. p \o r \in Seq(S) /\ Len(p \o r) = Len(q)
  BY <1>1, <1>2, <1>3
<1>5. \A i \in 1..Len(q) : (p \o r)[i] = q[i]
  <2> SUFFICES ASSUME NEW i \in 1..Len(q) PROVE (p \o r)[i] = q[i]
    OBVIOUS
  <2>1. CASE i <= n
    BY <1>1, <1>2, <1>3, <2>1
  <2>2. CASE i > n
    <3>1. i - n \in 1..(Len(q) - n) /\ n + (i - n) = i
      BY <1>1, <2>2
    <3>2. (p \o r)[i] = r[i - n]
      BY <1>1, <1>2, <1>3, <2>2
    <3> QED
      BY <1>3, <3>1, <3>2
  <2>3. i <= n \/ i > n
    BY <1>1
  <2> QED
    BY <2>1, <2>2, <2>3
<1>6. p \o r = q
  <2>1. p \o r \in Seq(S) /\ q \in Seq(S)
    BY <1>4
  <2> DEFINE u == p \o r
  <2>2. Len(u) = Len(q) /\ \A i \in 1..Len(q) : u[i] = q[i]
    BY <1>4, <1>5
  <2>3. u \in Seq(S)
    BY <2>1
  <2> HIDE DEF u
  <2>4. u = q
    <3>1. Len(u) = Len(q)
      BY <2>2
    <3>2. \A i \in 1..Len(u) : u[i] = q[i]
      BY <2>2, <3>1, Zenon
    <3> QED
      BY <2>1, <2>3, <3>1, <3>2, SeqEqual
  <2> QED
    BY <2>4 DEF u
<1> QED
  BY <1>6 DEF p, r

\* An element put between two lists.
LEMMA InsertedBetween ==
    ASSUME NEW S, NEW p \in Seq(S), NEW q \in Seq(S), NEW e \in S
    PROVE  p \o <<e>> \o q \in Seq(S)
<1>1. p \o <<e>> \in Seq(S)
  OBVIOUS
<1> QED
  BY <1>1, ConcatProperties

\* The least of some numbers is one of them, and no other is less.
LEMMA Smallest ==
    ASSUME NEW W \in SUBSET Nat, W # {}
    PROVE  Min(W) \in W /\ \A y \in W : Min(W) <= y
<1> DEFINE R == OpToRel(<, Nat)
<1>1. IsWellFoundedOn(R, Nat)
  BY NatLessThanWellFounded
<1>2. \A x, y \in Nat : <<y, x>> \in R <=> y < x
  BY DEF OpToRel
<1> HIDE DEF R
<1>3. \E x \in W : \A y \in W : ~ (<<y, x>> \in R)
  BY <1>1, WFMin
<1>4. \E x \in W : \A y \in W : x <= y
  <2>1. PICK x \in W : \A y \in W : ~ (<<y, x>> \in R)
    BY <1>3
  <2>2. ASSUME NEW y \in W PROVE x <= y
    <3>1. x \in Nat /\ y \in Nat
      OBVIOUS
    <3>2. ~ (y < x)
      BY <2>1, <3>1, <1>2, Zenon
    <3> QED
      BY <3>1, <3>2
  <2> QED
    BY <2>2, Zenon
<1> QED
  BY <1>4 DEF Min

\* A list over a set is one over a larger set.
LEMMA OverMore ==
    ASSUME NEW S, NEW q \in Seq(S), NEW T, S \subseteq T
    PROVE  q \in Seq(T)
  OBVIOUS

\* A list is one over its own elements.
LEMMA OverItself ==
    ASSUME NEW S, NEW q \in Seq(S)
    PROVE  q \in Seq(ToSet(q))
<1>1. \A i \in DOMAIN q : q[i] \in ToSet(q)
  BY Zenon DEF ToSet
<1> QED
  BY <1>1

\* The end of a queue from some node on.
LEMMA EndOf ==
    ASSUME NEW q, q \in Seq(ToSet(q)), NEW m \in 1..Len(q) + 1
    PROVE  LET r == SubSeq(q, m, Len(q))
           IN  r \in Seq(ToSet(r)) /\ ToSet(r) \subseteq ToSet(q)
<1> DEFINE r == SubSeq(q, m, Len(q))
<1>1. r \in Seq(ToSet(q)) /\ Len(r) = Len(q) - m + 1
      /\ \A i \in 1..Len(r) : r[i] = q[m + i - 1]
  BY SubSeqProperties
<1>2. ToSet(r) \subseteq ToSet(q)
  BY <1>1, ElementsOf
<1>3. r \in Seq(ToSet(r))
  BY <1>1, OverItself
<1> QED
  BY <1>2, <1>3

\* A list with one element more, or with its first one less.
LEMMA OneMore ==
    ASSUME NEW q, q \in Seq(ToSet(q)), NEW e
    PROVE  LET r == Append(q, e)
           IN  r \in Seq(ToSet(r)) /\ ToSet(r) \subseteq ToSet(q) \cup {e}
<1> DEFINE r == Append(q, e)
           S == ToSet(q) \cup {e}
<1>1. q \in Seq(S)
  BY OverMore
<1>2. r \in Seq(S)
  BY <1>1
<1> QED
  BY <1>2, OverItself, ElementsOf

\* The first of a list, and the list without it.
LEMMA OneLess ==
    ASSUME NEW q, q \in Seq(ToSet(q)), q # <<>>
    PROVE  /\ Head(q) \in ToSet(q)
           /\ Tail(q) \in Seq(ToSet(Tail(q)))
           /\ ToSet(Tail(q)) \subseteq ToSet(q)
<1>1. Head(q) \in ToSet(q) /\ Tail(q) \in Seq(ToSet(q))
  OBVIOUS
<1> QED
  BY <1>1, OverItself, ElementsOf

-----------------------------------------------------------------------------
(* Lists that hold each of their elements once. *)

Lists(q, S) ==
    /\ q \in Seq(S) /\ ToSet(q) = S
    /\ \A i, j \in DOMAIN q : q[i] = q[j] => i = j

\* The empty list.
LEMMA ListsNone == Lists(<<>>, {})
  BY DEF Lists, ToSet

\* A list of one.
LEMMA ListsOne ==
    ASSUME NEW e
    PROVE  Lists(<<e>>, {e})
<1>1. <<e>> \in Seq({e}) /\ DOMAIN <<e>> = {1} /\ <<e>>[1] = e
  OBVIOUS
<1> QED
  BY <1>1 DEF Lists, ToSet

\* A listing of a set.
LEMMA ListsSet ==
    ASSUME NEW S, IsFiniteSet(S), NEW w \in SetToSeqs(S)
    PROVE  Lists(w, S)
<1>1. Cardinality(S) \in Nat
  BY FS_CardinalityType
<1>2. \A i, j \in DOMAIN w : w[i] = w[j] => i = j
  BY <1>1 DEF SetToSeqs
<1> QED
  BY <1>2, ListsAll DEF Lists

\* Two lists without a common element, joined.
LEMMA ListsJoined ==
    ASSUME NEW S, NEW T, S \cap T = {}, NEW p, Lists(p, S), NEW q, Lists(q, T)
    PROVE  Lists(p \o q, S \cup T)
<1> DEFINE r == p \o q
<1>1. p \in Seq(S \cup T) /\ q \in Seq(S \cup T)
  BY OverMore DEF Lists
<1>2. r \in Seq(S \cup T) /\ ToSet(r) = S \cup T
  BY <1>1, ElementsOfConcat, ConcatProperties DEF Lists
<1>3. /\ Len(r) = Len(p) + Len(q) /\ Len(p) \in Nat /\ Len(q) \in Nat
      /\ DOMAIN r = 1..Len(r) /\ DOMAIN p = 1..Len(p) /\ DOMAIN q = 1..Len(q)
      /\ \A i \in 1..Len(p) : r[i] = p[i] /\ r[i] \in S
      /\ \A i \in 1..Len(q) : r[Len(p) + i] = q[i] /\ r[Len(p) + i] \in T
  BY <1>1 DEF Lists
<1>4. \A i \in DOMAIN r : i \in 1..Len(p) \/ \E k \in 1..Len(q) : i = Len(p) + k
  <2>1. \A i \in DOMAIN r : i > Len(p) => i - Len(p) \in 1..Len(q)
                                          /\ i = Len(p) + (i - Len(p))
    BY <1>3
  <2> QED
    BY <1>3, <2>1
<1> HIDE DEF r
<1>5. ASSUME NEW i \in DOMAIN r, NEW j \in DOMAIN r, r[i] = r[j]
      PROVE  i = j
  <2>1. CASE i \in 1..Len(p) /\ j \in 1..Len(p)
    BY <1>3, <1>5, <2>1 DEF Lists
  <2>2. ASSUME NEW k \in 1..Len(q), NEW l \in 1..Len(q),
               i = Len(p) + k, j = Len(p) + l
        PROVE  i = j
    BY <1>3, <1>5, <2>2 DEF Lists
  <2>3. ASSUME NEW k \in 1..Len(q), \/ i \in 1..Len(p) /\ j = Len(p) + k
                                    \/ j \in 1..Len(p) /\ i = Len(p) + k
        PROVE  FALSE
    BY <1>3, <1>5, <2>3
  <2> QED
    BY <1>4, <2>1, <2>2, <2>3
<1> QED
  BY <1>2, <1>5 DEF Lists, r

\* A list without its first element.
LEMMA ListsTail ==
    ASSUME NEW S, NEW q, Lists(q, S), q # <<>>
    PROVE  Head(q) \in S /\ Lists(Tail(q), S \ {Head(q)})
<1> DEFINE t == Tail(q)
<1>1. /\ q \in Seq(S) /\ Len(q) \in Nat /\ Len(q) > 0 /\ DOMAIN q = 1..Len(q)
      /\ Head(q) = q[1] /\ t \in Seq(S) /\ Len(t) = Len(q) - 1
      /\ DOMAIN t = 1..(Len(q) - 1)
      /\ \A i \in 1..(Len(q) - 1) : t[i] = q[i + 1]
  BY DEF Lists
<1> HIDE DEF t
<1>2. \A i, j \in DOMAIN t : t[i] = t[j] => i = j
  BY <1>1 DEF Lists
<1>3. ToSet(t) = S \ {Head(q)}
  <2>1. \A i \in DOMAIN t : t[i] \in S /\ t[i] # Head(q)
    BY <1>1 DEF Lists
  <2>2. ASSUME NEW e \in S \ {Head(q)} PROVE \E i \in DOMAIN t : t[i] = e
    <3>1. PICK k \in DOMAIN q : q[k] = e
      BY Zenon DEF Lists, ToSet
    <3>2. k # 1 /\ k - 1 \in DOMAIN t /\ t[k - 1] = q[k]
      BY <1>1, <3>1
    <3> QED
      BY <3>1, <3>2
  <2> QED
    BY <2>1, <2>2, Zenon DEF ToSet
<1>4. t \in Seq(S \ {Head(q)})
  BY <1>1, <1>3, OverItself
<1> QED
  BY <1>1, <1>2, <1>3, <1>4 DEF Lists, t

\* The first n of a list and the others.
LEMMA ListsParted ==
    ASSUME NEW S, NEW q, Lists(q, S), NEW n \in 0..Len(q)
    PROVE  LET p == SubSeq(q, 1, n)
               r == SubSeq(q, n + 1, Len(q))
           IN  /\ Lists(p, ToSet(p)) /\ Lists(r, S \ ToSet(p))
               /\ ToSet(p) \subseteq S
<1> DEFINE p == SubSeq(q, 1, n)
           r == SubSeq(q, n + 1, Len(q))
<1>1. /\ q \in Seq(S) /\ Len(q) \in Nat /\ DOMAIN q = 1..Len(q)
      /\ p \in Seq(S) /\ DOMAIN p = 1..n /\ \A i \in 1..n : p[i] = q[i]
      /\ r \in Seq(S) /\ DOMAIN r = 1..(Len(q) - n)
      /\ \A i \in 1..(Len(q) - n) : r[i] = q[n + i]
  <2>1. q \in Seq(S) /\ Len(q) \in Nat /\ DOMAIN q = 1..Len(q)
    BY DEF Lists
  <2>2. p \in Seq(S) /\ r \in Seq(S)
    BY <2>1, PartOf
  <2>3. Len(p) = n /\ \A i \in 1..n : p[i] = q[i]
    BY <2>1
  <2>4. /\ Len(r) = IF n + 1 <= Len(q) THEN Len(q) - (n + 1) + 1 ELSE 0
        /\ \A i \in 1..(Len(q) - (n + 1) + 1) : r[i] = q[(n + 1) + i - 1]
    <3>1. n + 1 \in 1..Len(q) + 1 /\ Len(q) \in n + 1 - 1..Len(q)
      BY <2>1
    <3> QED
      BY <2>1, <3>1, SubSeqProperties
  <2> HIDE DEF p, r
  <2>5. DOMAIN p = 1..Len(p) /\ DOMAIN r = 1..Len(r)
    BY <2>2
  <2>6. Len(r) = Len(q) - n
    <3>1. Len(q) \in Nat /\ n \in 0..Len(q)
      BY <2>1, Zenon
    <3>2. Len(r) = IF n + 1 <= Len(q) THEN Len(q) - (n + 1) + 1 ELSE 0
      BY <2>4, Zenon
    <3> QED
      BY <3>1, <3>2
  <2>7. ASSUME NEW i \in 1..(Len(q) - n) PROVE r[i] = q[n + i]
    <3>1. i \in 1..(Len(q) - (n + 1) + 1) /\ (n + 1) + i - 1 = n + i
      BY <2>1
    <3>2. r[i] = q[(n + 1) + i - 1]
      BY <2>4, <3>1, Zenon
    <3> QED
      BY <3>1, <3>2
  <2> QED
    BY <2>1, <2>2, <2>3, <2>5, <2>6, <2>7
<1> HIDE DEF p, r
<1>5. \A i \in DOMAIN r : n + i \in DOMAIN q /\ r[i] = q[n + i]
  BY <1>1
<1>6. \A i \in DOMAIN p : i \in DOMAIN q /\ p[i] = q[i]
  BY <1>1
<1>2. /\ \A i, j \in DOMAIN p : p[i] = p[j] => i = j
      /\ \A i, j \in DOMAIN r : r[i] = r[j] => i = j
  <2>1. \A i, j \in DOMAIN q : q[i] = q[j] => i = j
    BY DEF Lists
  <2>2. ASSUME NEW i \in DOMAIN r, NEW j \in DOMAIN r, r[i] = r[j] PROVE i = j
    <3>1. n + i = n + j
      BY <1>5, <2>1, <2>2
    <3> QED
      BY <1>1, <3>1
  <2> QED
    BY <1>6, <2>1, <2>2
<1>3. p \in Seq(ToSet(p)) /\ r \in Seq(ToSet(r)) /\ ToSet(p) \subseteq S
  BY <1>1, OverItself, ElementsOf
<1>4. ToSet(r) = S \ ToSet(p)
  <2>1. ASSUME NEW i \in DOMAIN r
        PROVE  r[i] \in S /\ \A j \in DOMAIN p : r[i] # p[j]
    <3>1. \A k, l \in DOMAIN q : q[k] = q[l] => k = l
      BY DEF Lists
    <3>2. \A j \in DOMAIN p : n + i # j
      BY <1>1
    <3> QED
      BY <1>1, <1>5, <1>6, <3>1, <3>2
  <2>2. ASSUME NEW e \in S, \A j \in DOMAIN p : e # p[j]
        PROVE  \E i \in DOMAIN r : r[i] = e
    <3>1. PICK k \in DOMAIN q : q[k] = e
      BY Zenon DEF Lists, ToSet
    <3>2. k > n /\ k - n \in DOMAIN r /\ r[k - n] = q[k]
      BY <1>1, <2>2, <3>1
    <3> QED
      BY <3>1, <3>2
  <2>3. ToSet(r) \subseteq S
    BY <2>1, Zenon DEF ToSet
  <2>4. \A e \in ToSet(r) : e \notin ToSet(p)
    BY <2>1, Zenon DEF ToSet
  <2>5. \A e \in S : e \notin ToSet(p) => e \in ToSet(r)
    BY <2>2, Zenon DEF ToSet
  <2> QED
    BY <2>3, <2>4, <2>5
<1> QED
  BY <1>2, <1>3, <1>4 DEF Lists, p, r

\* An element put somewhere into a list.
LEMMA Inserted ==
    ASSUME NEW S, NEW q \in Seq(S), NEW e, NEW n \in 0..Len(q)
    PROVE  LET r == SubSeq(q, 1, n) \o <<e>> \o SubSeq(q, n + 1, Len(q))
           IN  /\ DOMAIN r = 1..(Len(q) + 1)
               /\ r[n + 1] = e
               /\ \A i \in 1..n : r[i] = q[i]
               /\ \A i \in (n + 1)..Len(q) : r[i + 1] = q[i]
<1> DEFINE T == S \cup {e}
           p == SubSeq(q, 1, n)
           s == SubSeq(q, n + 1, Len(q))
<1>1. q \in Seq(T) /\ Len(q) \in Nat
  BY OverMore
<1>2. p \in Seq(T) /\ s \in Seq(T)
  BY <1>1, PartOf
<1>3. Len(p) = n /\ Len(s) = Len(q) - n
      /\ (\A i \in 1..n : p[i] = q[i])
      /\ (\A i \in 1..(Len(q) - n) : s[i] = q[n + i])
  BY <1>1
<1> HIDE DEF p, s, T
<1>4. /\ p \o <<e>> \in Seq(T) /\ Len(p \o <<e>>) = n + 1
      /\ (p \o <<e>>)[n + 1] = e /\ \A i \in 1..n : (p \o <<e>>)[i] = p[i]
  <2>1. e \in T
    BY DEF T
  <2> QED
    BY <1>2, <1>3, <2>1
<1> DEFINE u == p \o <<e>>
<1> HIDE DEF u
<1>10. u \in Seq(T) /\ Len(u) = n + 1
  BY <1>4 DEF u
<1> DEFINE r == u \o s
<1>11. /\ r \in Seq(T) /\ Len(r) = Len(u) + Len(s)
       /\ \A i \in 1..Len(r) :
            r[i] = IF i <= Len(u) THEN u[i] ELSE s[i - Len(u)]
  BY <1>2, <1>10, ConcatProperties
<1> HIDE DEF r
<1>5. Len(r) = Len(q) + 1 /\ DOMAIN r = 1..(Len(q) + 1)
  BY <1>1, <1>3, <1>10, <1>11
<1>6. \A i \in 1..(n + 1) : r[i] = u[i]
  BY <1>1, <1>5, <1>10, <1>11
<1>8. ASSUME NEW i \in (n + 1)..Len(q) PROVE r[i + 1] = q[i]
  <2>1. /\ i + 1 \in 1..Len(r) /\ ~(i + 1 <= Len(u)) /\ (i + 1) - Len(u) = i - n
        /\ i - n \in 1..(Len(q) - n) /\ n + (i - n) = i
    BY <1>1, <1>5, <1>10
  <2>2. r[i + 1] = s[i - n]
    BY <1>11, <2>1
  <2> QED
    BY <1>3, <2>1, <2>2
<1>9. r[n + 1] = e /\ \A i \in 1..n : r[i] = q[i]
  BY <1>3, <1>4, <1>6 DEF u
<1> QED
  BY <1>5, <1>8, <1>9 DEF r, u, p, s

\* An element put somewhere into a list that has not got it.
LEMMA ListsInserted ==
    ASSUME NEW S, NEW q, Lists(q, S), NEW e, e \notin S, NEW n \in 0..Len(q)
    PROVE  Lists(SubSeq(q, 1, n) \o <<e>> \o SubSeq(q, n + 1, Len(q)),
                 S \cup {e})
<1> DEFINE p == SubSeq(q, 1, n)
           s == SubSeq(q, n + 1, Len(q))
<1>1. Lists(p, ToSet(p)) /\ Lists(s, S \ ToSet(p)) /\ ToSet(p) \subseteq S
  BY ListsParted
<1> HIDE DEF p, s
<1>2. Lists(p \o <<e>>, ToSet(p) \cup {e})
  BY <1>1, ListsOne, ListsJoined
<1>3. Lists((p \o <<e>>) \o s, (ToSet(p) \cup {e}) \cup (S \ ToSet(p)))
  BY <1>1, <1>2, ListsJoined
<1>4. (ToSet(p) \cup {e}) \cup (S \ ToSet(p)) = S \cup {e}
  BY <1>1
<1> QED
  BY <1>3, <1>4 DEF p, s

-----------------------------------------------------------------------------
(* Recursions over the naturals, and the lists they pick *)

\* A recursion over 1..N, whose steps are those of a table, has its function.
Unrolled(N, U, base, step) ==
    \E F \in [0..N -> U] :
        F[0] = base /\ \A i \in 1..N : F[i] = step[<<i, F[i - 1]>>]
LEMMA Unrolls ==
    ASSUME NEW U, NEW base \in U, NEW N \in Nat, NEW step,
           \A n \in 1..N, u \in U : step[<<n, u>>] \in U
    PROVE  Unrolled(N, U, base, step)
<1> DEFINE Upto(n) == \E F \in [0..n -> U] :
                        F[0] = base /\ \A i \in 1..n : F[i] = step[<<i, F[i - 1]>>]
           Bad == {n \in 0..N : ~Upto(n)}
<1> HIDE DEF Upto
<1>1. Bad = {} => Upto(N)
  OBVIOUS
<1>2. ASSUME Bad # {} PROVE FALSE
  <2> DEFINE n == Min(Bad)
  <2>1. n \in Bad /\ \A k \in Bad : n <= k
    BY <1>2, Smallest
  <2> HIDE DEF n
  <2>2. n \in 0..N /\ ~Upto(n)
    BY <2>1
  <2>3. CASE n = 0
    <3> DEFINE F == [i \in 0..0 |-> base]
    <3>1. F \in [0..0 -> U] /\ F[0] = base /\ \A i \in 1..0 : F[i] = step[<<i, F[i - 1]>>]
      OBVIOUS
    <3>2. Upto(0)
      BY <3>1 DEF Upto
    <3> QED
      BY <2>2, <2>3, <3>2
  <2>4. CASE n # 0
    <3>1. n \in 1..N /\ n - 1 \in 0..N /\ n - 1 \notin Bad
      BY <2>1, <2>2, <2>4
    <3>2. PICK F \in [0..(n - 1) -> U] :
            F[0] = base /\ \A i \in 1..(n - 1) : F[i] = step[<<i, F[i - 1]>>]
      BY <3>1 DEF Upto
    <3> DEFINE last == step[<<n, F[n - 1]>>]
               G == [i \in 0..n |-> IF i = n THEN last ELSE F[i]]
    <3>3. last \in U
      BY <3>1, <3>2
    <3> HIDE DEF last
    <3>4. G \in [0..n -> U] /\ G[0] = base
      BY <3>1, <3>2, <3>3
    <3>5. G[n] = last /\ \A i \in 0..(n - 1) : G[i] = F[i]
      BY <3>1
    <3> HIDE DEF G
    <3>6. \A i \in 1..(n - 1) : G[i] = step[<<i, G[i - 1]>>]
      <4>1. \A i \in 1..(n - 1) : i \in 0..(n - 1) /\ i - 1 \in 0..(n - 1)
        BY <3>1
      <4> QED
        BY <4>1, <3>2, <3>5, Zenon
    <3>7. G[n] = step[<<n, G[n - 1]>>]
      <4>1. n - 1 \in 0..(n - 1)
        BY <3>1
      <4> QED
        BY <4>1, <3>5, Zenon DEF last
    <3>8. \A i \in 1..n : G[i] = step[<<i, G[i - 1]>>]
      <4>1. \A i \in 1..n : i \in 1..(n - 1) \/ i = n
        BY <3>1
      <4> QED
        BY <4>1, <3>6, <3>7, Zenon
    <3>9. Upto(n)
      BY <3>4, <3>8, Zenon DEF Upto
    <3> QED
      BY <2>2, <3>9
  <2> QED
    BY <2>3, <2>4
<1> QED
  BY <1>1, <1>2 DEF Upto, Unrolled

\* Two recursions that start alike and go on alike agree.
LEMMA UnrollsOnce ==
    ASSUME NEW F, NEW G, NEW N \in Nat, F[0] = G[0],
           \A i \in 1..N : F[i - 1] = G[i - 1] => F[i] = G[i]
    PROVE  F[N] = G[N]
<1> DEFINE Bad == {n \in 0..N : F[n] # G[n]}
<1>1. ASSUME Bad # {} PROVE FALSE
  <2> DEFINE n == Min(Bad)
  <2>1. n \in Bad /\ \A k \in Bad : n <= k
    BY <1>1, Smallest
  <2> HIDE DEF n
  <2>2. n \in 1..N /\ n - 1 \in 0..N /\ n - 1 \notin Bad
    BY <2>1
  <2> QED
    BY <2>1, <2>2
<1> QED
  BY <1>1

\* Picked without its shortcut.
Rest(q, I) ==
    LET kept[n \in 0..Len(q)] ==
          IF n = 0 THEN <<>>
          ELSE IF n \in I THEN Append(kept[n - 1], q[n]) ELSE kept[n - 1]
    IN  kept[Len(q)]

\* Picking goes an element at a time.
LEMMA PickedUnrolls ==
    ASSUME NEW T, NEW q \in Seq(T), NEW I
    PROVE  \E F \in [0..Len(q) -> Seq(T)] :
             /\ Rest(q, I) = F[Len(q)]
             /\ F[0] = <<>>
             /\ \A n \in 1..Len(q) :
                  F[n] = IF n \in I THEN Append(F[n - 1], q[n]) ELSE F[n - 1]
<1> DEFINE U == Seq(T)
           step == [p \in (1..Len(q)) \X U |->
                      IF p[1] \in I THEN Append(p[2], q[p[1]]) ELSE p[2]]
           Is(F) ==
             F = [n \in 0..Len(q) |->
                   IF n = 0 THEN <<>>
                   ELSE IF n \in I THEN Append(F[n - 1], q[n]) ELSE F[n - 1]]
           K == CHOOSE F : Is(F)
<1>1. PICK N \in Nat : N = Len(q)
  OBVIOUS
<1>2. <<>> \in U /\ \A n \in 1..N : q[n] \in T
  BY <1>1
<1>4. \A n \in 1..N, u \in U :
        step[<<n, u>>] = IF n \in I THEN Append(u, q[n]) ELSE u
  <2> HIDE DEF U
  <2> QED
    BY <1>1
<1>3. \A n \in 1..N, u \in U : step[<<n, u>>] \in U
  <2>1. \A u \in U, e \in T : Append(u, e) \in U
    OBVIOUS
  <2> HIDE DEF step, U
  <2>2. ASSUME NEW n \in 1..N, NEW u \in U PROVE step[<<n, u>>] \in U
    <3>1. Append(u, q[n]) \in U
      BY <1>2, <2>1
    <3>2. step[<<n, u>>] = IF n \in I THEN Append(u, q[n]) ELSE u
      BY <1>4
    <3> QED
      BY <3>1, <3>2
  <2> QED
    BY <2>2, Zenon
<1> HIDE DEF step, U
<1>5. Unrolled(N, U, <<>>, step)
  <2>1. N \in Nat /\ <<>> \in U
    BY <1>2
  <2> QED
    BY <1>3, <2>1, Unrolls, Zenon
<1>6. PICK F \in [0..N -> U] :
        F[0] = <<>> /\ \A i \in 1..N : F[i] = step[<<i, F[i - 1]>>]
  BY <1>5 DEF Unrolled
<1>7. \A n \in 1..N : n \in 0..N /\ n # 0 /\ n - 1 \in 0..N
  OBVIOUS
<1>8. \A n \in 1..N :
        F[n] = IF n \in I THEN Append(F[n - 1], q[n]) ELSE F[n - 1]
  <2>1. \A n \in 1..N : F[n - 1] \in U
    BY <1>7
  <2> QED
    BY <1>4, <1>6, <2>1, Zenon
<1>9. \A n \in 0..N : n = 0 \/ n \in 1..N
  OBVIOUS
<1>10. Is(F)
  <2> DEFINE E(n) == IF n = 0 THEN <<>>
                     ELSE IF n \in I THEN Append(F[n - 1], q[n]) ELSE F[n - 1]
  <2>1. \A n \in 0..N : F[n] = E(n)
    BY <1>6, <1>7, <1>8, <1>9, Zenon
  <2> HIDE DEF E
  <2>2. F = [n \in 0..N |-> E(n)]
    BY <2>1
  <2> QED
    BY <1>1, <2>2, Zenon DEF E
<1>11. Is(K)
  BY <1>10, Zenon
<1>12. Rest(q, I) = K[Len(q)]
  BY Zenon DEF Rest
<1> HIDE DEF K
<1>13. /\ K[0] = <<>>
       /\ \A n \in 1..N :
            K[n] = IF n \in I THEN Append(K[n - 1], q[n]) ELSE K[n - 1]
  <2>1. 0 \in 0..N
    OBVIOUS
  <2> QED
    BY <1>1, <1>7, <1>11, <2>1, Zenon
<1>14. \A i \in 1..N : K[i - 1] = F[i - 1] => K[i] = F[i]
  BY <1>8, <1>13, Zenon
<1> HIDE DEF Is
<1>15. K[N] = F[N]
  <2>1. N \in Nat
    OBVIOUS
  <2>2. K[0] = F[0]
    BY <1>6, <1>13
  <2> QED
    BY <1>14, <2>1, <2>2, UnrollsOnce, Zenon
<1> QED
  BY <1>1, <1>6, <1>8, <1>12, <1>15, Zenon DEF U

\* What is picked, with the places it was picked from.
DrawnFrom(p, q, I, g) ==
    /\ g \in [DOMAIN p -> DOMAIN q]
    /\ \A i \in DOMAIN p : p[i] = q[g[i]]
    /\ \A i, j \in DOMAIN p : i < j => g[i] < g[j]
    /\ {g[i] : i \in DOMAIN p} = I \cap DOMAIN q

PlacesUpto(p, q, I, n) ==
    \E g \in [1..Len(p) -> 1..n] :
        /\ \A i \in 1..Len(p) : p[i] = q[g[i]]
        /\ \A i, j \in 1..Len(p) : i < j => g[i] < g[j]
        /\ {g[i] : i \in 1..Len(p)} = I \cap 1..n

LEMMA PlacesGrow ==
    ASSUME NEW T, NEW p \in Seq(T), NEW q, NEW I, NEW n \in Nat \ {0},
           q[n] \in T, n \in I, PlacesUpto(p, q, I, n - 1)
    PROVE  PlacesUpto(Append(p, q[n]), q, I, n)
<1> DEFINE r == Append(p, q[n])
<1>1. PICK L \in Nat : Len(p) = L
  OBVIOUS
<1>2. Len(r) = L + 1 /\ r[L + 1] = q[n] /\ \A i \in 1..L : r[i] = p[i]
  <2> HIDE DEF PlacesUpto
  <2> QED
    BY <1>1
<1>3. PICK g \in [1..L -> 1..(n - 1)] :
        /\ \A i \in 1..L : p[i] = q[g[i]]
        /\ \A i, j \in 1..L : i < j => g[i] < g[j]
        /\ {g[i] : i \in 1..L} = I \cap 1..(n - 1)
  BY <1>1, Zenon DEF PlacesUpto
<1> DEFINE h == [i \in 1..(L + 1) |-> IF i = L + 1 THEN n ELSE g[i]]
<1>4. \A i \in 1..L : g[i] \in 1..n /\ g[i] < n
  BY <1>3
<1>5. /\ h \in [1..(L + 1) -> 1..n] /\ h[L + 1] = n
      /\ \A i \in 1..L : h[i] = g[i]
  BY <1>4
<1> HIDE DEF h
<1>6. \A i \in 1..(L + 1) : i = L + 1 \/ i \in 1..L
  OBVIOUS
<1>7. \A i, j \in 1..(L + 1) : i < j => i \in 1..L /\ (j = L + 1 \/ j \in 1..L)
  OBVIOUS
<1> HIDE DEF r
<1>8. \A i \in 1..(L + 1) : r[i] = q[h[i]]
  BY <1>2, <1>3, <1>5, <1>6, Zenon
<1>9. \A i, j \in 1..(L + 1) : i < j => h[i] < h[j]
  <2>1. \A i, j \in 1..L : i < j => h[i] < h[j]
    BY <1>3, <1>5, Zenon
  <2>2. \A i \in 1..L : h[i] < h[L + 1]
    BY <1>4, <1>5, Zenon
  <2> QED
    BY <1>7, <2>1, <2>2, Zenon
<1>10. {h[i] : i \in 1..(L + 1)} = I \cap 1..n
  <2>1. ASSUME NEW x \in I \cap 1..n PROVE \E i \in 1..(L + 1) : x = h[i]
    <3>1. CASE x = n
      BY <1>5, <3>1
    <3>2. CASE x # n
      <4>1. x \in I \cap 1..(n - 1)
        BY <2>1, <3>2
      <4>3. x \in {g[i] : i \in 1..L}
        BY <1>3, <4>1
      <4>2. PICK i \in 1..L : x = g[i]
        BY <4>3
      <4> QED
        BY <1>5, <4>2
    <3> QED
      BY <3>1, <3>2
  <2>2. ASSUME NEW i \in 1..(L + 1) PROVE h[i] \in I \cap 1..n
    <3>1. CASE i = L + 1
      BY <1>5, <3>1
    <3>2. CASE i \in 1..L
      <4>1. g[i] \in I \cap 1..(n - 1)
        BY <1>3, <3>2
      <4> QED
        BY <1>5, <3>2, <4>1
    <3> QED
      BY <1>6, <3>1, <3>2
  <2> QED
    BY <2>1, <2>2
<1>11. PlacesUpto(r, q, I, n)
  <2>1. /\ h \in [1..Len(r) -> 1..n]
        /\ \A i \in 1..Len(r) : r[i] = q[h[i]]
        /\ \A i, j \in 1..Len(r) : i < j => h[i] < h[j]
        /\ {h[i] : i \in 1..Len(r)} = I \cap 1..n
    <3>1. Len(r) = L + 1
      BY <1>2
    <3> QED
      BY <1>5, <1>8, <1>9, <1>10, <3>1
  <2> QED
    BY <2>1, Zenon DEF PlacesUpto
<1> QED
  BY <1>11 DEF r

LEMMA PlacesStay ==
    ASSUME NEW p, NEW q, NEW I, NEW n \in Nat \ {0}, n \notin I,
           PlacesUpto(p, q, I, n - 1)
    PROVE  PlacesUpto(p, q, I, n)
<1>1. PICK g \in [1..Len(p) -> 1..(n - 1)] :
        /\ \A i \in 1..Len(p) : p[i] = q[g[i]]
        /\ \A i, j \in 1..Len(p) : i < j => g[i] < g[j]
        /\ {g[i] : i \in 1..Len(p)} = I \cap 1..(n - 1)
  BY DEF PlacesUpto
<1>2. I \cap 1..(n - 1) = I \cap 1..n
  <2>1. \A x \in I : x # n
    OBVIOUS
  <2>2. \A x : x \in 1..n /\ x # n <=> x \in 1..(n - 1)
    OBVIOUS
  <2> QED
    BY <2>1, <2>2
<1>3. g \in [1..Len(p) -> 1..n]
  BY <1>1
<1> QED
  BY <1>1, <1>2, <1>3, Zenon DEF PlacesUpto

LEMMA PlacesOfRest ==
    ASSUME NEW T, NEW q \in Seq(T), NEW I
    PROVE  Rest(q, I) \in Seq(T) /\ \E g : DrawnFrom(Rest(q, I), q, I, g)
<1>1. PICK F \in [0..Len(q) -> Seq(T)] :
        /\ Rest(q, I) = F[Len(q)]
        /\ F[0] = <<>>
        /\ \A n \in 1..Len(q) :
             F[n] = IF n \in I THEN Append(F[n - 1], q[n]) ELSE F[n - 1]
  BY PickedUnrolls
<1> DEFINE Upto(n) == PlacesUpto(F[n], q, I, n)
<1>2. Upto(0)
  <2>1. Len(<<>>) = 0 /\ 1..0 = {}
    OBVIOUS
  <2>2. PlacesUpto(<<>>, q, I, 0)
    BY <2>1 DEF PlacesUpto
  <2> QED
    BY <1>1, <2>2
<1>3. ASSUME NEW n \in 1..Len(q), Upto(n - 1) PROVE Upto(n)
  <2>1. F[n - 1] \in Seq(T) /\ n \in Nat \ {0} /\ q[n] \in T
    OBVIOUS
  <2>2. CASE n \notin I
    <3>1. F[n] = F[n - 1]
      BY <1>1, <2>2
    <3> QED
      BY <1>3, <2>1, <2>2, <3>1, PlacesStay
  <2>3. CASE n \in I
    <3>1. F[n] = Append(F[n - 1], q[n])
      BY <1>1, <2>3
    <3>2. PlacesUpto(Append(F[n - 1], q[n]), q, I, n)
      BY <1>3, <2>1, <2>3, PlacesGrow
    <3> QED
      BY <3>1, <3>2
  <2> QED
    BY <2>2, <2>3
<1> HIDE DEF Upto
<1>6. PICK N \in Nat : Len(q) = N
  OBVIOUS
<1>4. Upto(N)
  <2> DEFINE Bad == {n \in 0..N : ~Upto(n)}
  <2>1. ASSUME Bad # {} PROVE FALSE
    <3> DEFINE n == Min(Bad)
    <3>6. Bad \in SUBSET Nat
      OBVIOUS
    <3>1. n \in Bad /\ \A k \in Bad : n <= k
      BY <2>1, <3>6, Smallest, Zenon
    <3> HIDE DEF n
    <3>2. n \in 0..N /\ ~Upto(n)
      BY <3>1
    <3>4. n # 0
      BY <1>2, <3>2
    <3>5. n \in 1..N /\ n - 1 \in 0..N /\ ~(n <= n - 1)
      BY <3>2, <3>4
    <3>3. Upto(n - 1)
      BY <3>1, <3>5
    <3> QED
      BY <1>3, <1>6, <3>2, <3>3, <3>5, Zenon
  <2> QED
    BY <2>1
<1>5. F[N] \in Seq(T)
  BY <1>1, <1>6
<1>7. DOMAIN F[N] = 1..Len(F[N]) /\ DOMAIN q = 1..N
  BY <1>5, <1>6
<1>9. \E g : DrawnFrom(F[N], q, I, g)
  BY <1>4, <1>7 DEF Upto, DrawnFrom, PlacesUpto
<1> QED
  BY <1>1, <1>5, <1>6, <1>9

LEMMA PickedPlaces ==
    ASSUME NEW T, NEW q \in Seq(T), NEW I
    PROVE  Picked(q, I) \in Seq(T) /\ \E g : DrawnFrom(Picked(q, I), q, I, g)
<1>1. CASE DOMAIN q \subseteq I
  <2> DEFINE g == [i \in DOMAIN q |-> i]
  <2>1. DrawnFrom(q, q, I, g)
    <3>1. {g[i] : i \in DOMAIN q} = I \cap DOMAIN q
      BY <1>1
    <3>2. g \in [DOMAIN q -> DOMAIN q] /\ \A i \in DOMAIN q : g[i] = i
      OBVIOUS
    <3> HIDE DEF g
    <3> QED
      BY <3>1, <3>2 DEF DrawnFrom
  <2>2. Picked(q, I) = q
    BY <1>1, Zenon DEF Picked
  <2> QED
    BY <2>1, <2>2, Zenon
<1>2. CASE ~(DOMAIN q \subseteq I)
  <2>1. Picked(q, I) = Rest(q, I)
    BY <1>2, Zenon DEF Picked, Rest
  <2> QED
    BY <2>1, PlacesOfRest, Zenon
<1> QED
  BY <1>1, <1>2

\* What is picked are the elements at the places, no more and no longer.
LEMMA PickedOf ==
    ASSUME NEW T, NEW q \in Seq(T), NEW I
    PROVE  /\ Picked(q, I) \in Seq(ToSet(Picked(q, I)))
           /\ ToSet(Picked(q, I)) = {q[i] : i \in I \cap DOMAIN q}
           /\ Len(Picked(q, I)) <= Len(q)
<1> DEFINE p == Picked(q, I)
<1>1. PICK g : DrawnFrom(p, q, I, g)
  BY PickedPlaces, Zenon
<1>2. p \in Seq(T)
  BY PickedPlaces, Zenon
<1> HIDE DEF p
<1>3. ToSet(p) = {q[i] : i \in I \cap DOMAIN q}
  <2>1. ASSUME NEW e \in ToSet(p) PROVE e \in {q[i] : i \in I \cap DOMAIN q}
    <3>1. PICK i \in DOMAIN p : e = p[i]
      BY <2>1 DEF ToSet
    <3>2. e = q[g[i]] /\ g[i] \in I \cap DOMAIN q
      BY <1>1, <3>1 DEF DrawnFrom
    <3> QED
      BY <3>2
  <2>2. ASSUME NEW j \in I \cap DOMAIN q PROVE q[j] \in ToSet(p)
    <3>1. PICK i \in DOMAIN p : j = g[i]
      BY <1>1, <2>2 DEF DrawnFrom
    <3>2. p[i] = q[j]
      BY <1>1, <3>1 DEF DrawnFrom
    <3> QED
      BY <3>1, <3>2 DEF ToSet
  <2> QED
    BY <2>1, <2>2
<1>4. Len(p) <= Len(q)
  <2>1. PICK L \in Nat, N \in Nat : Len(p) = L /\ Len(q) = N
    BY <1>2
  <2>2. DOMAIN p = 1..L /\ DOMAIN q = 1..N
    BY <1>2, <2>1
  <2>3. /\ g \in [1..L -> 1..N]
        /\ \A i, j \in 1..L : i < j => g[i] < g[j]
    BY <1>1, <2>2 DEF DrawnFrom
  <2>4. L <= N
    <3> DEFINE Bad == {n \in 1..L : ~(n <= g[n])}
    <3>1. ASSUME Bad # {} PROVE FALSE
      <4> DEFINE n == Min(Bad)
      <4>1. Bad \in SUBSET Nat
        OBVIOUS
      <4>2. n \in Bad /\ \A k \in Bad : n <= k
        BY <3>1, <4>1, Smallest, Zenon
      <4> HIDE DEF n
      <4>3. n \in 1..L /\ g[n] \in 1..N /\ ~(n <= g[n])
        BY <2>3, <4>2
      <4>4. n # 1 /\ n - 1 \in 1..L /\ ~(n <= n - 1) /\ n - 1 < n
        BY <4>3
      <4>5. n - 1 <= g[n - 1] /\ g[n - 1] \in 1..N
        BY <2>3, <4>2, <4>4
      <4>6. g[n - 1] < g[n]
        BY <2>3, <4>3, <4>4
      <4> QED
        BY <4>3, <4>4, <4>5, <4>6
    <3>2. CASE L = 0
      BY <3>2
    <3>3. CASE L # 0
      <4>1. L \in 1..L /\ L \notin Bad
        BY <3>1, <3>3
      <4>2. L <= g[L] /\ g[L] \in 1..N
        BY <2>3, <4>1
      <4> QED
        BY <4>2
    <3> QED
      BY <3>2, <3>3
  <2> QED
    BY <2>1, <2>4
<1>5. p \in Seq(ToSet(p))
  BY <1>2, OverItself
<1> QED
  BY <1>3, <1>4, <1>5 DEF p

\* All is picked.
LEMMA RestWhole ==
    ASSUME NEW T, NEW q \in Seq(T), NEW I, DOMAIN q \subseteq I
    PROVE  Rest(q, I) = q
<1>1. PICK F \in [0..Len(q) -> Seq(T)] :
        /\ Rest(q, I) = F[Len(q)]
        /\ F[0] = <<>>
        /\ \A n \in 1..Len(q) :
             F[n] = IF n \in I THEN Append(F[n - 1], q[n]) ELSE F[n - 1]
  BY PickedUnrolls
<1> DEFINE G == [n \in 0..Len(q) |-> SubSeq(q, 1, n)]
<1>2. F[0] = G[0]
  BY <1>1
<1>3. ASSUME NEW n \in 1..Len(q), F[n - 1] = G[n - 1] PROVE F[n] = G[n]
  <2>1. F[n] = Append(F[n - 1], q[n])
    <3>1. n \in I
      OBVIOUS
    <3> QED
      BY <1>1, <3>1
  <2>2. G[n - 1] = SubSeq(q, 1, n - 1) /\ G[n] = SubSeq(q, 1, n)
    OBVIOUS
  <2>3. Append(SubSeq(q, 1, n - 1), q[n]) = SubSeq(q, 1, n)
    OBVIOUS
  <2> QED
    BY <1>3, <2>1, <2>2, <2>3
<1>4. G[Len(q)] = q
  OBVIOUS
<1> HIDE DEF G
<1>5. F[Len(q)] = G[Len(q)]
  <2>1. Len(q) \in Nat
    OBVIOUS
  <2> QED
    BY <1>2, <1>3, <2>1, UnrollsOnce
<1> QED
  BY <1>1, <1>4, <1>5

LEMMA PickedIsRest ==
    ASSUME NEW T, NEW q \in Seq(T), NEW I
    PROVE  Picked(q, I) = Rest(q, I)
<1>1. CASE DOMAIN q \subseteq I
  BY <1>1, RestWhole DEF Picked
<1>2. CASE ~(DOMAIN q \subseteq I)
  BY <1>2, Zenon DEF Picked, Rest
<1> QED
  BY <1>1, <1>2

\* The lists that a picking goes through.
RestSteps(F, T, q, I) ==
    /\ F \in [0..Len(q) -> Seq(T)]
    /\ Rest(q, I) = F[Len(q)]
    /\ F[0] = <<>>
    /\ \A n \in 1..Len(q) : F[n] = IF n \in I THEN Append(F[n - 1], q[n]) ELSE F[n - 1]

LEMMA RestUnrolls ==
    ASSUME NEW T, NEW q \in Seq(T), NEW I
    PROVE  \E F : RestSteps(F, T, q, I)
BY PickedUnrolls DEF RestSteps

\* What is picked of a list with one element more.
LEMMA PickedMore ==
    ASSUME NEW T, NEW q \in Seq(T), NEW e \in T, NEW I, NEW J,
           \A i \in 1..Len(q) : i \in I <=> i \in J
    PROVE  Picked(Append(q, e), J) =
             IF Len(q) + 1 \in J THEN Append(Picked(q, I), e) ELSE Picked(q, I)
<1> DEFINE r == Append(q, e)
<1>1. PICK N \in Nat : N = Len(q)
  OBVIOUS
<1>2. r \in Seq(T) /\ Len(r) = N + 1 /\ r[N + 1] = e /\ \A i \in 1..N : r[i] = q[i]
  BY <1>1
<1> HIDE DEF r
<1>3. PICK F \in [0..Len(q) -> Seq(T)] :
        /\ Rest(q, I) = F[Len(q)]
        /\ F[0] = <<>>
        /\ \A n \in 1..Len(q) :
             F[n] = IF n \in I THEN Append(F[n - 1], q[n]) ELSE F[n - 1]
  BY PickedUnrolls
<1>4. PICK G \in [0..Len(r) -> Seq(T)] :
        /\ Rest(r, J) = G[Len(r)]
        /\ G[0] = <<>>
        /\ \A n \in 1..Len(r) :
             G[n] = IF n \in J THEN Append(G[n - 1], r[n]) ELSE G[n - 1]
  <2>1. PICK G : RestSteps(G, T, r, J)
    BY <1>2, RestUnrolls, Zenon
  <2> QED
    BY <2>1 DEF RestSteps
<1>5. ASSUME NEW n \in 1..N, G[n - 1] = F[n - 1] PROVE G[n] = F[n]
  <2>1. n \in 1..Len(r) /\ n \in 1..Len(q) /\ r[n] = q[n] /\ (n \in I <=> n \in J)
    BY <1>1, <1>2
  <2> QED
    BY <1>3, <1>4, <1>5, <2>1
<1>6. G[N] = F[N]
  <2>1. G[0] = F[0]
    BY <1>3, <1>4
  <2> QED
    BY <1>5, <2>1, UnrollsOnce
<1>7. N + 1 \in 1..Len(r) /\ (N + 1) - 1 = N
  BY <1>2
<1>8. Rest(r, J) = IF N + 1 \in J THEN Append(Rest(q, I), e) ELSE Rest(q, I)
  BY <1>1, <1>2, <1>3, <1>4, <1>6, <1>7
<1>9. Picked(r, J) = Rest(r, J) /\ Picked(q, I) = Rest(q, I)
  BY <1>2, PickedIsRest
<1> QED
  BY <1>1, <1>8, <1>9 DEF r

\* What is picked of a list without repetitions repeats nothing.
LEMMA PickedOnce ==
    ASSUME NEW T, NEW q \in Seq(T), NEW I,
           \A i, j \in DOMAIN q : q[i] = q[j] => i = j
    PROVE  LET p == Picked(q, I)
           IN  \A i, j \in DOMAIN p : p[i] = p[j] => i = j
<1> DEFINE p == Picked(q, I)
<1>1. PICK g : DrawnFrom(p, q, I, g)
  BY PickedPlaces, Zenon
<1>2. p \in Seq(T)
  BY PickedPlaces, Zenon
<1> HIDE DEF p
<1>3. \A i, j \in DOMAIN p : i = j \/ i < j \/ j < i
  BY <1>2
<1>4. ASSUME NEW i \in DOMAIN p, NEW j \in DOMAIN p, p[i] = p[j] PROVE i = j
  <2>1. g[i] = g[j] /\ g[i] \in DOMAIN q
    BY <1>1, <1>4 DEF DrawnFrom
  <2>2. ~(g[i] < g[j]) /\ ~(g[j] < g[i])
    <3>1. DOMAIN q \subseteq Int
      OBVIOUS
    <3> QED
      BY <2>1, <3>1
  <2> QED
    BY <1>1, <1>3, <2>2 DEF DrawnFrom
<1> QED
  BY <1>4 DEF p
=============================================================================
