----------------------------- MODULE Datagrams -----------------------------
(* What the receiving half of a UDP socket promises: datagrams that have    *)
(* arrived are taken one after the other; what is read comes from the one   *)
(* taken last, in its order and never beyond its end, and what is left of   *)
(* it is given up when the next one is taken.                               *)
EXTENDS Naturals, Sequences

CONSTANT Nobody     \* no sender

VARIABLES
    queue,      \* datagrams that have arrived: a sender and some data each
    remote,     \* sender of the datagram taken last
    rest,       \* what is still unread of it
    got         \* what the last read or peek returned

Init == queue = <<>> /\ remote = Nobody /\ rest = <<>> /\ got = <<>>

Arrive(datagram) ==
    /\ queue' = Append(queue, datagram)
    /\ UNCHANGED <<remote, rest, got>>

Take ==
    /\ queue # <<>>
    /\ remote' = Head(queue).from /\ rest' = Head(queue).data
    /\ queue' = Tail(queue)
    /\ UNCHANGED got

\* The first n bytes are taken out of what is left.
Advance(n) == n <= Len(rest) /\ rest' = SubSeq(rest, n + 1, Len(rest))

Read(n) ==
    /\ Advance(n)
    /\ got' = SubSeq(rest, 1, n)
    /\ UNCHANGED <<queue, remote>>

Peek == rest # <<>> /\ got' = <<Head(rest)>> /\ UNCHANGED <<queue, remote, rest>>

Skip(n) == Advance(n) /\ UNCHANGED <<queue, remote, got>>

\* The socket is closed, or opened again.
Reset == queue' = <<>> /\ rest' = <<>> /\ UNCHANGED <<remote, got>>

Next ==
    \/ queue' # <<>> /\ Arrive(queue'[Len(queue')])
    \/ Take
    \/ \E n \in 1 .. Len(rest) : Read(n) \/ Skip(n)
    \/ Peek
    \/ Reset

Spec == Init /\ [][Next]_<<queue, remote, rest, got>>
=============================================================================
