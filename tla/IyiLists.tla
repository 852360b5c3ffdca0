------------------------------ MODULE IyiLists ------------------------------
(* Filtering a list, in forms that a proof can use. *)
EXTENDS Integers, FiniteSets, SequencesExt

\* The sequences that list the set S once each in the order of q.  Given by
\* what they are rather than by a recursion over q, so that a proof can use
\* it: a list from which some elements have been unlinked.
InOrder(q, S) ==
    { w \in SetToSeqs(S) :
        \A i, j \in DOMAIN w : i < j =>
            \E a, b \in DOMAIN q : a < b /\ q[a] = w[i] /\ q[b] = w[j] }

\* The elements of q at the positions I, in their order.
Picked(q, I) ==
    LET kept[n \in 0..Len(q)] ==
          IF n = 0 THEN <<>>
          ELSE IF n \in I THEN Append(kept[n - 1], q[n]) ELSE kept[n - 1]
    IN  IF DOMAIN q \subseteq I THEN q ELSE kept[Len(q)]
=============================================================================
