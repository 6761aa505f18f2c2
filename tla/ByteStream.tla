----------------------------- MODULE ByteStream -----------------------------
(* What one direction of a TCP connection promises: the receiver gets the   *)
(* bytes that were put in, in their order, none of them twice and none      *)
(* missing before another.  No byte is put in when the connection has       *)
(* ended, but what has been put in may still be taken out.  The k-th byte   *)
(* of a connection is written k.                                            *)
EXTENDS Naturals, Sequences

VARIABLES
    up,         \* the connection takes data
    put,        \* number of bytes put in
    got         \* the bytes the receiver has taken out

Init == up = FALSE /\ put = 0 /\ got = <<>>

Open == up' = TRUE /\ put' = 0 /\ got' = <<>>

Put ==
    /\ up
    /\ put' \in Nat /\ put' > put
    /\ UNCHANGED <<up, got>>

Get ==
    /\ Len(got) < put
    /\ \E n \in Len(got) + 1 .. put : got' = [k \in 1 .. n |-> k]
    /\ UNCHANGED <<up, put>>

End == up' = FALSE /\ UNCHANGED <<put, got>>

Next == Open \/ Put \/ Get \/ End

Spec == Init /\ [][Next]_<<up, put, got>>
=============================================================================
