------------------------------ MODULE DsuServer ------------------------------
(***************************************************************************)
(* The listen thread of UdpServer (udp_server.cpp) running the message     *)
(* handler of DsuServer (dsu_server.cpp), the socket it reads, and the     *)
(* stop request main() makes.  The controllers do not change once the      *)
(* constructor has returned, so the manager appears here only as the       *)
(* constants Connected and Cached.                                         *)
(***************************************************************************)
EXTENDS DsuProtocol, Sequences

CONSTANTS
    QCap,         \* datagrams the socket buffer holds
    MaxArrivals,  \* bound: datagrams that arrive in one run
    NoDatagram,   \* buf while no datagram is being handled
    NoReply       \* an empty retBuffer

ASSUME ServerAssumption ==
    /\ QCap \in Nat \ {0}
    /\ MaxArrivals \in Nat
    /\ NoDatagram \notin Datagrams
    /\ NoReply \notin Reply

VARIABLES
    rcvq,           \* receive buffer of the socket
    refused,        \* an earlier reply bounced; reported by a later recvfrom
    stop,           \* stop_requested() of the listen thread's token
    lpc,            \* where the listen thread is
    buf,            \* the datagram being handled
    ret,            \* retBuffer, the reply the handler returned
    packetCounter,  \* DsuServer::packetCounter, a uint32_t
    out,            \* replies handed to sendto, oldest first
    arrived,        \* datagrams that arrived so far
    late            \* messages handled since stop was requested (history)

vars == <<rcvq, refused, stop, lpc, buf, ret, packetCounter, out, arrived, late>>

LoopPC == {"unstarted", "loop", "select", "recv", "handle", "send",
           "exited", "terminated"}

Halted == lpc \in {"exited", "terminated"}

Init ==
    /\ rcvq = <<>>
    /\ refused = FALSE
    /\ stop = FALSE
    /\ lpc = "unstarted"      \* bound, not yet listening
    /\ buf = NoDatagram
    /\ ret = NoReply
    /\ packetCounter = 0
    /\ out = <<>>
    /\ arrived = 0
    /\ late = 0

-----------------------------------------------------------------------------
(***************************************************************************)
(* The network and the main thread.                                        *)
(***************************************************************************)

\* A datagram arrives; a full receive buffer drops it.
Arrive ==
    /\ arrived < MaxArrivals
    /\ arrived' = arrived + 1
    /\ \E d \in Datagrams :
          rcvq' = IF Len(rcvq) < QCap THEN Append(rcvq, d) ELSE rcvq
    /\ UNCHANGED <<refused, stop, lpc, buf, ret, packetCounter, out, late>>

\* A client that was answered has closed its port: its host's ICMP message
\* makes a later recvfrom fail with WSAECONNRESET.
Bounce ==
    /\ out # <<>>
    /\ ~refused
    /\ refused' = TRUE
    /\ UNCHANGED <<rcvq, stop, lpc, buf, ret, packetCounter, out, arrived, late>>

\* UdpServer::start
Start ==
    /\ lpc = "unstarted"
    /\ lpc' = "loop"
    /\ UNCHANGED <<rcvq, refused, stop, buf, ret, packetCounter, out, arrived, late>>

\* UdpServer::stop, called by main() after start
Stop ==
    /\ lpc # "unstarted"
    /\ ~stop
    /\ stop' = TRUE
    /\ UNCHANGED <<rcvq, refused, lpc, buf, ret, packetCounter, out, arrived, late>>

-----------------------------------------------------------------------------
(***************************************************************************)
(* UdpServer::listen.                                                      *)
(***************************************************************************)

\* Mutant: the token is not looked at.
Bug_NoStopTest ==
    /\ lpc = "loop"
    /\ lpc' = "select"
    /\ UNCHANGED <<rcvq, refused, stop, buf, ret, packetCounter, out, arrived, late>>

\* while (!stoken.stop_requested())
LoopEnter ==
    /\ lpc = "loop"
    /\ ~stop
    /\ lpc' = "select"
    /\ UNCHANGED <<rcvq, refused, stop, buf, ret, packetCounter, out, arrived, late>>

LoopExit ==
    /\ lpc = "loop"
    /\ stop
    /\ lpc' = "exited"
    /\ UNCHANGED <<rcvq, refused, stop, buf, ret, packetCounter, out, arrived, late>>

LoopTest == LoopEnter \/ LoopExit

\* Mutant: select() is called without a timeout.
Bug_SelectBlocks == FALSE /\ UNCHANGED vars

\* select() returns 0 after one second without anything to report.
SelectTimeout ==
    /\ lpc = "select"
    /\ rcvq = <<>> /\ ~refused
    /\ lpc' = "loop"
    /\ UNCHANGED <<rcvq, refused, stop, buf, ret, packetCounter, out, arrived, late>>

\* Mutant: the socket is not in the set (no FD_SET): select() times out.
Bug_NoFdSet ==
    /\ lpc = "select"
    /\ rcvq # <<>> \/ refused
    /\ lpc' = "loop"
    /\ UNCHANGED <<rcvq, refused, stop, buf, ret, packetCounter, out, arrived, late>>

SelectReady ==
    /\ lpc = "select"
    /\ rcvq # <<>> \/ refused
    /\ lpc' = "recv"
    /\ UNCHANGED <<rcvq, refused, stop, buf, ret, packetCounter, out, arrived, late>>

\* select() returns SOCKET_ERROR: the loop breaks.
SelectError ==
    /\ lpc = "select"
    /\ lpc' = "exited"
    /\ UNCHANGED <<rcvq, refused, stop, buf, ret, packetCounter, out, arrived, late>>

\* recvfrom reports the bounced reply: the loop breaks.
RecvRefused ==
    /\ lpc = "recv"
    /\ refused
    /\ refused' = FALSE
    /\ lpc' = "exited"
    /\ UNCHANGED <<rcvq, stop, buf, ret, packetCounter, out, arrived, late>>

\* The datagram does not fit recv_buf: recvfrom consumes it, fails with
\* WSAEMSGSIZE, and the loop breaks.
RecvOversize ==
    /\ lpc = "recv"
    /\ rcvq # <<>>
    /\ Head(rcvq).size > RecvBufSize
    /\ rcvq' = Tail(rcvq)
    /\ lpc' = "exited"
    /\ UNCHANGED <<refused, stop, buf, ret, packetCounter, out, arrived, late>>

RecvDatagram ==
    /\ lpc = "recv"
    /\ rcvq # <<>>
    /\ Head(rcvq).size <= RecvBufSize
    /\ buf' = Head(rcvq)
    /\ rcvq' = Tail(rcvq)
    /\ lpc' = "handle"
    /\ UNCHANGED <<refused, stop, ret, packetCounter, out, arrived, late>>

\* DsuServer::handleMessage answers ...
HandleAnswer ==
    /\ lpc = "handle"
    /\ Verdict(buf) = "None"
    /\ \E r \in Replies(buf, packetCounter) : ret' = r
    /\ packetCounter' = IF TakesNumber(buf) THEN NextNumber(packetCounter)
                                            ELSE packetCounter
    /\ late' = IF stop THEN late + 1 ELSE late
    /\ lpc' = "send"
    /\ UNCHANGED <<rcvq, refused, stop, buf, out, arrived>>

\* ... returns an empty buffer ...
HandleIgnore ==
    /\ lpc = "handle"
    /\ Verdict(buf) \notin {"None", "length_error"}
    /\ ret' = NoReply
    /\ late' = IF stop THEN late + 1 ELSE late
    /\ lpc' = "send"
    /\ UNCHANGED <<rcvq, refused, stop, buf, packetCounter, out, arrived>>

\* ... or lets std::length_error escape the thread: std::terminate.
HandleThrow ==
    /\ lpc = "handle"
    /\ Verdict(buf) = "length_error"
    /\ lpc' = "terminated"
    /\ UNCHANGED <<rcvq, refused, stop, buf, ret, packetCounter, out, arrived, late>>

\* Mutant: empty buffers are sent as well.
Bug_SendEmpty ==
    /\ lpc = "send"
    /\ out' = Append(out, ret)
    /\ buf' = NoDatagram
    /\ ret' = NoReply
    /\ lpc' = "loop"
    /\ UNCHANGED <<rcvq, refused, stop, packetCounter, arrived, late>>

\* UdpServer::send: an empty buffer is not sent; the result of sendto is not
\* looked at, so a reply the network loses leaves the same state.
Send ==
    /\ lpc = "send"
    /\ out' = IF ret = NoReply THEN out ELSE Append(out, ret)
    /\ buf' = NoDatagram
    /\ ret' = NoReply
    /\ lpc' = "loop"
    /\ UNCHANGED <<rcvq, refused, stop, packetCounter, arrived, late>>

Recv   == RecvRefused \/ RecvOversize \/ RecvDatagram
Handle == HandleAnswer \/ HandleIgnore \/ HandleThrow

\* The steps of the listen thread that a healthy system takes: a SOCKET_ERROR
\* of select() is possible but never owed.
Listen == LoopTest \/ SelectTimeout \/ SelectReady \/ Recv \/ Handle \/ Send

Next == Arrive \/ Bounce \/ Start \/ Stop \/ Listen \/ SelectError

Spec == Init /\ [][Next]_vars

\* The listen thread is scheduled, select() returns within its timeout, and
\* main() calls start().  Nothing forces an arrival, a bounce or a stop.
FairSpec == Spec /\ WF_vars(Start) /\ WF_vars(Listen)

-----------------------------------------------------------------------------
(***************************************************************************)
(* Properties.                                                             *)
(***************************************************************************)

\* Types, and the places where a datagram and a reply are held.
TypeOK ==
    /\ rcvq \in Seq(Datagrams) /\ Len(rcvq) <= QCap
    /\ refused \in BOOLEAN
    /\ stop \in BOOLEAN
    /\ lpc \in LoopPC
    /\ buf \in Datagrams \union {NoDatagram}
    /\ ret \in Reply \union {NoReply}
    /\ packetCounter \in 0 .. CtrMod - 1
    /\ out \in Seq(Reply)
    /\ arrived \in Nat
    /\ late \in Nat
    /\ lpc \in {"handle", "send"} => buf \in Datagrams
    /\ lpc \in {"unstarted", "loop", "select", "recv"} => buf = NoDatagram
    /\ lpc # "send" => ret = NoReply

\* Two pad data replies with no other numbered one between them.
Successive(i, j) ==
    /\ i < j
    /\ Numbered(out[i])
    /\ Numbered(out[j])
    /\ \A k \in i + 1 .. j - 1 : ~Numbered(out[k])

\* The numbers of the pad data replies are consecutive across the wrap of the
\* uint32_t, however requests of several clients, malformed and unanswered
\* ones interleave: no path uses up a number without sending it, and no
\* number is sent twice (dsu_server.cpp:50 and the early returns after it).
ConsecutiveNumbers ==
    \A i, j \in DOMAIN out :
        Successive(i, j) => out[j].num = (out[i].num + 1) % CtrMod

\* Once main() has requested the stop, the listen thread handles at most the
\* one message it was already waiting for, even if the socket never runs dry
\* (udp_server.cpp:73).
AtMostOneAfterStop == late <= 1

\* The stop is noticed although the thread may be blocked in select() with
\* nothing arriving (udp_server.cpp:78-91), so main()'s wait() returns.
StopEndsListening == stop ~> Halted

\* What is in the receive buffer is read sooner or later, unless the thread
\* has left its loop.
BufferDrains == (rcvq # <<>>) ~> (rcvq = <<>> \/ Halted)

\* A numbered reply that was built but not yet handed to sendto.
Pending == lpc = "send" /\ ret # NoReply /\ Numbered(ret)

\* Why the numbers stay consecutive: the last number handed to sendto is
\* followed by the pending one, if any, and that one by the counter.
LastNumber ==
    \A i \in DOMAIN out :
        /\ Numbered(out[i])
        /\ \A k \in i + 1 .. Len(out) : ~Numbered(out[k])
        => NextNumber(out[i].num) = IF Pending THEN ret.num ELSE packetCounter

PendingNumber == Pending => packetCounter = NextNumber(ret.num)

\* Why at most one message is handled after the stop: handling it leaves the
\* thread on its way back to the test of the token.
LateMessage ==
    /\ late <= 1
    /\ late = 1 => stop /\ lpc \in {"send", "loop", "exited"}

\* What is about to be sent answers the datagram that is being handled.
AnswersRequest ==
    lpc = "send" =>
        IF Verdict(buf) = "None"
        THEN ret \in Reply /\ ret.to = buf.from /\ ret.type = buf.type
        ELSE ret = NoReply

IInv ==
    /\ TypeOK
    /\ ConsecutiveNumbers
    /\ LastNumber
    /\ PendingNumber
    /\ LateMessage
    /\ AnswersRequest

\* The refinement mapping: a datagram is in the service's inbox until its reply
\* is handed to sendto, and its number is taken only then.
InboxBar == IF lpc \in {"handle", "send"} THEN <<buf>> \o rcvq ELSE rcvq
NumBar   == IF Pending THEN ret.num ELSE packetCounter

Service == INSTANCE DsuService WITH
    inbox <- InboxBar, out <- out, num <- NumBar, up <- ~Halted

\* The detailed loop keeps the promise of DsuService: arrival order, one reply
\* to the sender of each well-formed datagram and none to a malformed one,
\* consecutive numbers, silence after the loop has ended (udp_server.cpp:73-116).

ImplementsService == Service!Spec

-----------------------------------------------------------------------------
(***************************************************************************)
(* What comments of the code say and the code does not do.                 *)
(***************************************************************************)

\* packet.hpp:83: the slot reported about "Must be the same as byte value you
\* read".  The data reply for a slot without a controller (dsu_server.cpp:39-42)
\* has a slot that was never assigned, and the info reply (dsu_server.cpp:181)
\* reports about every controller, whatever slots were asked for.
SlotEchoed ==
    lpc = "send" /\ ret # NoReply => ret.slots \subseteq buf.slots

\* packet.hpp:190: packetNum is the "Packet number (for this client)".  One
\* counter numbers the replies of all clients, so a client sees gaps.
PerClientNumbers ==
    \A i, j \in DOMAIN out :
        /\ i < j
        /\ Numbered(out[i]) /\ Numbered(out[j])
        /\ out[i].to = out[j].to
        /\ \A k \in i + 1 .. j - 1 : ~(Numbered(out[k]) /\ out[k].to = out[i].to)
        => out[j].num = (out[i].num + 1) % CtrMod

=============================================================================
