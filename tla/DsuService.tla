------------------------------ MODULE DsuService ------------------------------
(***************************************************************************)
(* What a client may rely on, whatever loop and buffers the server uses:   *)
(* datagrams are taken one at a time in arrival order; each is answered at *)
(* most once, to its sender, with the type it asked for, exactly when it   *)
(* is well formed; and the pad data replies carry consecutive numbers.     *)
(* Once the service has stopped it answers nothing more.                   *)
(***************************************************************************)
EXTENDS DsuProtocol, Sequences

VARIABLES
    inbox,  \* datagrams that arrived and were not yet dealt with
    out,    \* replies handed to the network, oldest first
    num,    \* number of the next pad data reply
    up      \* whether the service still runs

svars == <<inbox, out, num, up>>

Init ==
    /\ inbox = <<>>
    /\ out = <<>>
    /\ num = 0
    /\ up = TRUE

Arrive ==
    /\ \E d \in Datagrams : inbox' = Append(inbox, d)
    /\ UNCHANGED <<out, num, up>>

\* The oldest datagram is answered.
Answer ==
    /\ up
    /\ inbox # <<>>
    /\ Verdict(Head(inbox)) = "None"
    /\ \E r \in Reply :
          /\ r.to = Head(inbox).from
          /\ r.type = Head(inbox).type
          /\ Numbered(r) => r.num = num
          /\ out' = Append(out, r)
          /\ num' = IF Numbered(r) THEN NextNumber(num) ELSE num
    /\ inbox' = Tail(inbox)
    /\ UNCHANGED up

\* The oldest datagram is malformed and dropped without an answer.
Ignore ==
    /\ up
    /\ inbox # <<>>
    /\ Verdict(Head(inbox)) # "None"
    /\ inbox' = Tail(inbox)
    /\ UNCHANGED <<out, num, up>>

\* The service stops, on request or on an error; the error may have used up
\* the datagram it concerns.
Halt ==
    /\ up
    /\ up' = FALSE
    /\ inbox' \in {inbox} \union (IF inbox = <<>> THEN {} ELSE {Tail(inbox)})
    /\ UNCHANGED <<out, num>>

Next == Arrive \/ Answer \/ Ignore \/ Halt

Spec == Init /\ [][Next]_svars

=============================================================================
