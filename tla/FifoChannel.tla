---------------------------- MODULE FifoChannel ----------------------------
(***************************************************************************)
(* What one channel promises, whoever is parked on it: values are offered, *)
(* received in the order they were offered and once each. Who must wait    *)
(* may offer several, of which one is sent and the others withdrawn. What  *)
(* the channel has answered for is received and never withdrawn; a closed  *)
(* channel takes no more.                                                  *)
(***************************************************************************)
EXTENDS Integers, Sequences

CONSTANT Values

VARIABLES
    line,    \* the values on offer, oldest first
    open,    \* those the channel has not answered for, by who offers them
    out,     \* the values received, in the order they were
    shut     \* the channel is closed

Init == line = <<>> /\ open = {} /\ out = <<>> /\ shut = FALSE

ValuesIn(q) == {q[i] : i \in DOMAIN q}
Once(q) == \A i, j \in DOMAIN q : q[i] = q[j] => i = j

\* w is q without the values gone.
Without(w, q, gone) ==
    /\ Once(w)
    /\ ValuesIn(w) = ValuesIn(q) \ gone
    /\ \A i, j \in DOMAIN w : i < j =>
         \E a, b \in DOMAIN q : a < b /\ q[a] = w[i] /\ q[b] = w[j]

\* The last n of the line will be values nobody has offered before, behind
\* what is left when those gone have left it.
Joined(n, gone) ==
    LET most == Len(line') - n
        new == SubSeq(line', most + 1, Len(line'))
    IN  /\ n \in 1..Len(line')
        /\ Without(SubSeq(line', 1, most), line, gone)
        /\ Once(new)
        /\ ValuesIn(new) \subseteq
             Values \ (ValuesIn(line) \cup ValuesIn(out))

\* Somebody has to wait, and joins the line with what it would send.
Join ==
    /\ ~shut
    /\ \E n \in 1..Len(line') :
         /\ Joined(n, {})
         /\ open' = open \cup
              {ValuesIn(SubSeq(line', Len(line') - n + 1, Len(line')))}
    /\ UNCHANGED <<out, shut>>

\* A value is answered for at once. Nobody is waiting to send then, but that
\* whoever waits to receive it may have been ready to send too: it withdraws.
Put ==
    /\ ~shut
    /\ \A c, d \in open : c = d
    /\ Joined(1, UNION open)
    /\ open' = {}
    /\ UNCHANGED <<out, shut>>

\* v is the oldest that has not been answered for.
First(v) ==
    \E i \in DOMAIN line :
        line[i] = v /\ \A j \in 1..(i - 1) : line[j] \notin UNION open

\* The oldest offer is received. If somebody waits to send, the oldest of them
\* has sent now: its value is the one received, or takes the room in the
\* buffer, and it withdraws the others.
Take ==
    /\ line # <<>>
    /\ out' = Append(out, Head(line))
    /\ \/ open = {} /\ line' = Tail(line) /\ UNCHANGED open
       \/ \E c \in open : \E v \in c :
            /\ First(v)
            /\ Without(line', Tail(line), c \ {v})
            /\ open' = open \ {c}
    /\ UNCHANGED shut

\* A fiber is cancelled, or its select answers by another arm, and all it
\* offers here is withdrawn. Close has everybody withdraw.
Withdraw ==
    /\ \E gone \in SUBSET open :
         /\ Without(line', line, UNION gone)
         /\ open' = open \ gone
         /\ shut' = shut \/ (shut' = TRUE /\ gone = open)
    /\ UNCHANGED out

Next == Join \/ Put \/ Take \/ Withdraw

vars == <<line, open, out, shut>>

Spec == Init /\ [][Next]_vars
=============================================================================
