--------------------------- MODULE DsuServer_proofs ---------------------------
(***************************************************************************)
(* Theorems about DsuServer, for every set of clients and datagrams, every *)
(* number of controllers and every width of the counter.                   *)
(***************************************************************************)
EXTENDS DsuServer, TLAPS

\* What the handler builds is a reply to the datagram's sender, of the type
\* asked for; it is numbered exactly when the counter is incremented, and
\* then it carries the value the counter had.
LEMMA RepliesOK ==
    ASSUME NEW d \in Datagrams, Verdict(d) = "None",
           NEW n \in 0 .. CtrMod - 1,
           NEW r \in Replies(d, n)
    PROVE  /\ r \in Reply
           /\ r.to = d.from
           /\ r.type = d.type
           /\ Numbered(r) <=> TakesNumber(d)
           /\ Numbered(r) => r.num = n
<1> USE ProtocolAssumption
<1>1. d \in Datagram
  OBVIOUS
<1>2. CASE d.type = "data"
  <2>1. PICK s \in Slots : d.slots = {s}
    BY <1>2, OneSlotAssumption
  <2>2. r \in DataReplies(d, s, n)
    BY <1>2, <2>1 DEF Replies
  <2>3. s < Connected <=> TakesNumber(d)
    BY <1>2, <2>1 DEF TakesNumber
  <2>4. CASE s < Connected
    <3>1. r = [to |-> d.from, type |-> "data", slots |-> {s},
               connected |-> TRUE, num |-> n]
      <4>1. (s < Cached) = TRUE
        BY <2>4, CachedAssumption
      <4>2. r = [to |-> d.from, type |-> "data", slots |-> {s},
                 connected |-> s < Cached, num |-> n]
        BY <2>2, <2>4 DEF DataReplies
      <4>3. QED
        BY <4>1, <4>2, Zenon
    <3>2. QED
      BY <1>1, <1>2, <2>1, <2>3, <2>4, <3>1 DEF Reply, Datagram, Numbered, MessageType
  <2>5. CASE ~(s < Connected)
    <3>1. PICK g \in Slots, k \in 0 .. CtrMod - 1 :
             r = [to |-> d.from, type |-> "data", slots |-> {g},
                  connected |-> FALSE, num |-> k]
      BY <2>2, <2>5 DEF DataReplies
    <3>2. QED
      BY <1>1, <1>2, <2>1, <2>3, <2>5, <3>1 DEF Reply, Datagram, Numbered, MessageType
  <2>6. QED
    BY <2>4, <2>5
<1>3. CASE d.type = "info"
  <2>1. r = [to |-> d.from, type |-> "info", slots |-> 0 .. Connected - 1,
             connected |-> TRUE, num |-> NoNumber]
    BY <1>3 DEF Replies, InfoReplies
  <2>2. QED
    BY <1>1, <1>3, <2>1 DEF Reply, Datagram, Numbered, MessageType, TakesNumber
<1>4. CASE d.type = "motors"
  <2>1. r = [to |-> d.from, type |-> "motors", slots |-> d.slots,
             connected |-> TRUE, num |-> NoNumber]
    BY <1>4 DEF Replies, MotorsReplies
  <2>2. QED
    BY <1>1, <1>4, <2>1 DEF Reply, Datagram, Numbered, MessageType, TakesNumber
<1>5. CASE d.type \in {"version", "rumble"}
  <2>1. r = [to |-> d.from, type |-> d.type, slots |-> {},
             connected |-> FALSE, num |-> NoNumber]
    BY <1>5 DEF Replies, PlainReplies
  <2>2. QED
    BY <1>1, <1>5, <2>1 DEF Reply, Datagram, Numbered, MessageType, TakesNumber
<1>6. QED
  BY <1>1, <1>2, <1>3, <1>4, <1>5 DEF Datagram, MessageType, Replies

\* The successor of a counter value is a counter value.
LEMMA NextNumberType ==
    \A n \in 0 .. CtrMod - 1 : NextNumber(n) \in 0 .. CtrMod - 1
BY ProtocolAssumption DEF NextNumber

-----------------------------------------------------------------------------
(***************************************************************************)
(* Type correctness.                                                       *)
(***************************************************************************)

\* The initial state is well typed.
LEMMA TypingInit == Init => TypeOK
<1> USE ProtocolAssumption, ServerAssumption
<1> SUFFICES ASSUME Init PROVE TypeOK
  OBVIOUS
<1>1. rcvq \in Seq(Datagrams) /\ Len(rcvq) <= QCap /\ out \in Seq(Reply)
  BY DEF Init
<1>2. packetCounter \in 0 .. CtrMod - 1
  BY DEF Init
<1>3. QED
  BY <1>1, <1>2 DEF Init, TypeOK, LoopPC

\* Every step keeps the types.
LEMMA TypingStep == TypeOK /\ [Next]_vars => TypeOK'
<1> USE ProtocolAssumption, ServerAssumption
<1> SUFFICES ASSUME TypeOK, [Next]_vars PROVE TypeOK'
  OBVIOUS
<1>1. CASE Arrive
  <2>1. PICK d \in Datagrams :
           rcvq' = IF Len(rcvq) < QCap THEN Append(rcvq, d) ELSE rcvq
    BY <1>1 DEF Arrive
  <2>2. rcvq' \in Seq(Datagrams) /\ Len(rcvq') <= QCap
    BY <2>1 DEF TypeOK
  <2>3. QED
    BY <1>1, <2>2 DEF Arrive, TypeOK
<1>2. CASE Bounce \/ Stop
  BY <1>2 DEF Bounce, Stop, TypeOK
<1>11. CASE Start \/ SelectError
  BY <1>11 DEF Start, SelectError, TypeOK, LoopPC
<1>3. CASE LoopTest \/ SelectTimeout \/ SelectReady
  BY <1>3 DEF LoopTest, LoopEnter, LoopExit, SelectTimeout, SelectReady, TypeOK, LoopPC
<1>4. CASE RecvRefused
  BY <1>4 DEF RecvRefused, TypeOK, LoopPC
<1>5. CASE RecvOversize \/ RecvDatagram
  <2>1. Head(rcvq) \in Datagrams /\ Tail(rcvq) \in Seq(Datagrams)
        /\ Len(Tail(rcvq)) <= QCap
    BY <1>5 DEF RecvOversize, RecvDatagram, TypeOK
  <2>2. QED
    BY <1>5, <2>1 DEF RecvOversize, RecvDatagram, TypeOK, LoopPC
<1>6. CASE HandleAnswer
  <2>1. buf \in Datagrams /\ packetCounter \in 0 .. CtrMod - 1
    BY <1>6 DEF HandleAnswer, TypeOK
  <2>2. ret' \in Reply
    BY <1>6, <2>1, RepliesOK DEF HandleAnswer
  <2>3. packetCounter' \in 0 .. CtrMod - 1
    BY <1>6, <2>1, NextNumberType DEF HandleAnswer
  <2>4. QED
    BY <1>6, <2>1, <2>2, <2>3 DEF HandleAnswer, TypeOK, LoopPC
<1>7. CASE HandleIgnore \/ HandleThrow
  BY <1>7 DEF HandleIgnore, HandleThrow, TypeOK, LoopPC
<1>8. CASE Send
  BY <1>8 DEF Send, TypeOK, LoopPC
<1>9. CASE UNCHANGED vars
  BY <1>9 DEF vars, TypeOK
<1>10. QED
  BY <1>1, <1>2, <1>3, <1>4, <1>5, <1>6, <1>7, <1>8, <1>9, <1>11
     DEF Next, Listen, Recv, Handle

\* Every variable keeps its type, and a datagram and a reply are held only
\* between recvfrom and sendto.
THEOREM Typing == Spec => []TypeOK
<1>1. QED
  BY TypingInit, TypingStep, PTL DEF Spec

-----------------------------------------------------------------------------
(***************************************************************************)
(* The inductive invariant.                                                *)
(***************************************************************************)

\* A step that leaves the replies, the counter and the pending reply alone
\* preserves what IInv says about numbers.
LEMMA SameNumbers ==
    ASSUME ConsecutiveNumbers, LastNumber, PendingNumber,
           UNCHANGED <<out, packetCounter>>, Pending' <=> Pending,
           Pending => ret' = ret
    PROVE  ConsecutiveNumbers' /\ LastNumber' /\ PendingNumber'
BY DEF ConsecutiveNumbers, LastNumber, PendingNumber, Successive

\* Send: the reply built by the handler becomes the last one handed over.
LEMMA SendNumbers ==
    ASSUME IInv, Send
    PROVE  ConsecutiveNumbers' /\ LastNumber' /\ PendingNumber'
<1>1. ~Pending'
  BY DEF Send, Pending
<1>2. out \in Seq(Reply) /\ packetCounter' = packetCounter
  BY DEF IInv, TypeOK, Send
<1>3. CASE ret = NoReply
  BY <1>1, <1>2, <1>3 DEF Send, Pending, IInv, ConsecutiveNumbers, LastNumber,
     PendingNumber, Successive
<1>4. CASE ret # NoReply
  <2>1. out' = Append(out, ret)
    BY <1>4 DEF Send
  <2>2. Len(out') = Len(out) + 1 /\ out'[Len(out) + 1] = ret
        /\ DOMAIN out = 1 .. Len(out) /\ DOMAIN out' = 1 .. Len(out) + 1
        /\ Len(out) \in Nat
        /\ \A k \in 1 .. Len(out) : out'[k] = out[k]
    BY <1>2, <2>1, <1>4 DEF IInv, TypeOK
  <2>3. Pending <=> Numbered(ret)
    BY <1>4 DEF Pending, Send
  <2>4. ConsecutiveNumbers'
    <3> SUFFICES ASSUME NEW i \in DOMAIN out', NEW j \in DOMAIN out', Successive(i, j)'
                 PROVE  out'[j].num = (out'[i].num + 1) % CtrMod
      BY DEF ConsecutiveNumbers
    <3>1. i \in 1 .. Len(out) /\ i < j /\ Numbered(out[i]) /\ Numbered(out'[j])
          /\ \A k \in i + 1 .. j - 1 : ~Numbered(out'[k])
      BY <2>2 DEF Successive
    <3>2. CASE j \in 1 .. Len(out)
      <4>1. Successive(i, j)
        BY <2>2, <3>1, <3>2 DEF Successive
      <4>2. QED
        BY <2>2, <3>1, <3>2, <4>1 DEF IInv, ConsecutiveNumbers
    <3>3. CASE j = Len(out) + 1
      <4>1. \A k \in i + 1 .. Len(out) : ~Numbered(out[k])
        BY <2>2, <3>1, <3>3
      <4>2. Numbered(ret)
        BY <2>2, <3>1, <3>3
      <4>3. NextNumber(out[i].num) = ret.num
        BY <2>2, <2>3, <3>1, <4>1, <4>2 DEF IInv, LastNumber
      <4>4. QED
        BY <2>2, <3>1, <3>3, <4>3 DEF NextNumber
    <3>4. QED
      BY <2>2, <3>2, <3>3
  <2>5. LastNumber'
    <3> SUFFICES ASSUME NEW i \in DOMAIN out', Numbered(out'[i]),
                        \A k \in i + 1 .. Len(out') : ~Numbered(out'[k])
                 PROVE  NextNumber(out'[i].num) = packetCounter
      BY <1>1, <1>2 DEF LastNumber
    <3>1. CASE i = Len(out) + 1
      BY <2>2, <2>3, <3>1 DEF IInv, PendingNumber
    <3>2. CASE i \in 1 .. Len(out)
      <4>1. \A k \in i + 1 .. Len(out) : ~Numbered(out[k])
        BY <2>2, <3>2
      <4>2. ~Numbered(ret)
        BY <2>2, <3>2
      <4>3. QED
        BY <2>2, <2>3, <3>2, <4>1, <4>2 DEF IInv, LastNumber
    <3>3. QED
      BY <2>2, <3>1, <3>2
  <2>6. PendingNumber'
    BY <1>1 DEF PendingNumber
  <2>7. QED
    BY <2>4, <2>5, <2>6
<1>5. QED
  BY <1>3, <1>4

\* HandleAnswer: a numbered reply carries the number the counter gives up.
LEMMA HandleNumbers ==
    ASSUME IInv, HandleAnswer
    PROVE  ConsecutiveNumbers' /\ LastNumber' /\ PendingNumber'
<1>1. /\ ~Pending /\ out' = out
      /\ buf \in Datagrams /\ packetCounter \in 0 .. CtrMod - 1
      /\ Verdict(buf) = "None" /\ ret' \in Replies(buf, packetCounter)
      /\ lpc' = "send"
  BY DEF HandleAnswer, Pending, IInv, TypeOK
<1>2. /\ ret' \in Reply
      /\ Numbered(ret') <=> TakesNumber(buf)
      /\ Numbered(ret') => ret'.num = packetCounter
  BY <1>1, RepliesOK
<1>3. Pending' <=> TakesNumber(buf)
  BY <1>1, <1>2, ServerAssumption DEF Pending, Numbered
<1>4. packetCounter' = IF Pending' THEN NextNumber(packetCounter) ELSE packetCounter
  BY <1>3 DEF HandleAnswer
<1>5. Pending' => ret'.num = packetCounter
  BY <1>2, <1>3
<1>6. ConsecutiveNumbers'
  BY <1>1 DEF IInv, ConsecutiveNumbers, Successive
<1>7. LastNumber'
  BY <1>1, <1>4, <1>5 DEF IInv, LastNumber
<1>8. PendingNumber'
  BY <1>4, <1>5 DEF PendingNumber
<1>9. QED
  BY <1>6, <1>7, <1>8

\* IInv is inductive.
LEMMA Inductive == IInv /\ [Next]_vars /\ TypeOK' => IInv'
<1> SUFFICES ASSUME IInv, [Next]_vars, TypeOK' PROVE IInv'
  OBVIOUS
<1>1. ConsecutiveNumbers' /\ LastNumber' /\ PendingNumber'
  <2>1. CASE Send
    BY <2>1, SendNumbers
  <2>2. CASE HandleAnswer
    BY <2>2, HandleNumbers
  <2>3. CASE HandleIgnore
    <3>1. ~Pending /\ ~Pending'
      BY <2>3 DEF HandleIgnore, Pending
    <3>2. QED
      BY <2>3, <3>1, SameNumbers DEF HandleIgnore, IInv
  <2>4. CASE Arrive \/ Bounce \/ Stop \/ UNCHANGED vars
    <3>1. UNCHANGED <<lpc, ret, out, packetCounter>>
      BY <2>4 DEF Arrive, Bounce, Stop, vars
    <3>2. Pending' <=> Pending
      BY <3>1 DEF Pending, Numbered
    <3>3. QED
      BY <3>1, <3>2, SameNumbers DEF IInv
  <2>5. CASE \/ Start \/ SelectError \/ LoopTest \/ SelectTimeout
             \/ SelectReady \/ Recv \/ HandleThrow
    <3>1. UNCHANGED <<ret, out, packetCounter>> /\ lpc # "send" /\ lpc' # "send"
      BY <2>5 DEF Start, SelectError, LoopTest, LoopEnter, LoopExit,
       SelectTimeout, SelectReady, Recv,
         RecvRefused, RecvOversize, RecvDatagram, HandleThrow
    <3>2. ~Pending /\ ~Pending'
      BY <3>1 DEF Pending
    <3>3. QED
      BY <3>1, <3>2, SameNumbers DEF IInv
  <2>6. QED
    BY <2>1, <2>2, <2>3, <2>4, <2>5 DEF Next, Listen, Handle
<1>2. LateMessage'
  <2>1. late \in Nat /\ LateMessage
    BY DEF IInv, TypeOK
  <2>2. CASE HandleAnswer \/ HandleIgnore
    BY <2>1, <2>2 DEF HandleAnswer, HandleIgnore, LateMessage
  <2>3. CASE Arrive \/ Bounce \/ UNCHANGED vars
    BY <2>1, <2>3 DEF Arrive, Bounce, vars, LateMessage
  <2>4. CASE Start \/ Stop \/ SelectError \/ LoopTest \/ SelectTimeout \/ SelectReady
    BY <2>1, <2>4 DEF Start, Stop, SelectError, LoopTest, LoopEnter, LoopExit,
       SelectTimeout, SelectReady,
       LateMessage
  <2>5. CASE Recv \/ HandleThrow \/ Send
    BY <2>1, <2>5 DEF Recv, RecvRefused, RecvOversize, RecvDatagram, HandleThrow, Send,
       LateMessage
  <2>6. QED
    BY <2>2, <2>3, <2>4, <2>5 DEF Next, Listen, Handle
<1>3. AnswersRequest'
  <2>1. CASE HandleAnswer
    <3>1. buf \in Datagrams /\ packetCounter \in 0 .. CtrMod - 1 /\ Verdict(buf) = "None"
          /\ buf' = buf /\ ret' \in Replies(buf, packetCounter)
      BY <2>1 DEF HandleAnswer, IInv, TypeOK
    <3>2. ret' \in Reply /\ ret'.to = buf.from /\ ret'.type = buf.type
      BY <3>1, RepliesOK
    <3>3. QED
      BY <3>1, <3>2 DEF AnswersRequest
  <2>2. CASE HandleIgnore
    BY <2>2 DEF HandleIgnore, AnswersRequest
  <2>3. CASE Arrive \/ Bounce \/ Stop \/ UNCHANGED vars
    BY <2>3 DEF Arrive, Bounce, Stop, vars, AnswersRequest, IInv
  <2>4. CASE \/ Start \/ SelectError \/ LoopTest \/ SelectTimeout \/ SelectReady
             \/ Recv \/ HandleThrow \/ Send
    <3>1. lpc' # "send"
      BY <2>4 DEF Start, SelectError, LoopTest, LoopEnter, LoopExit,
       SelectTimeout, SelectReady, Recv,
         RecvRefused, RecvOversize, RecvDatagram, HandleThrow, Send
    <3>2. QED
      BY <3>1 DEF AnswersRequest
  <2>5. QED
    BY <2>1, <2>2, <2>3, <2>4 DEF Next, Listen, Handle
<1>4. QED
  BY <1>1, <1>2, <1>3 DEF IInv

\* The conjuncts of IInv hold in every reachable state.
THEOREM Invariance == Spec => []IInv
<1>1. Init => IInv
  <2> SUFFICES ASSUME Init PROVE ConsecutiveNumbers /\ LastNumber /\ PendingNumber
                                 /\ LateMessage /\ TypeOK /\ AnswersRequest
    BY DEF IInv
  <2>1. TypeOK
    BY TypingInit
  <2>2. QED
    BY <2>1 DEF Init, ConsecutiveNumbers, LastNumber, PendingNumber, Pending, LateMessage,
       AnswersRequest
<1>2. IInv /\ [Next]_vars => IInv'
  BY Inductive, TypingStep DEF IInv
<1>3. QED
  BY <1>1, <1>2, PTL DEF Spec

\* Successive numbered pad data replies differ by exactly one, modulo the width
\* of the counter, whatever the clients send and in whatever order.
THEOREM NumbersConsecutive == Spec => []ConsecutiveNumbers
<1>1. IInv => ConsecutiveNumbers
  BY DEF IInv
<1>2. QED
  BY <1>1, Invariance, PTL

\* After a stop request the listen thread handles at most one more message.
THEOREM OneAfterStop == Spec => []AtMostOneAfterStop
<1>1. IInv => AtMostOneAfterStop
  BY DEF IInv, LateMessage, AtMostOneAfterStop
<1>2. QED
  BY <1>1, Invariance, PTL

-----------------------------------------------------------------------------
(***************************************************************************)
(* DsuServer implements DsuService.                                        *)
(***************************************************************************)

\* The operators of the instance are those of DsuProtocol.
LEMMA SameProtocol ==
    /\ \A d \in Datagrams : Service!Verdict(d) = Verdict(d)
    /\ \A r \in Reply : Service!Numbered(r) <=> Numbered(r)
    /\ \A n \in Nat : Service!NextNumber(n) = NextNumber(n)
    /\ Service!Reply = Reply
<1>1. \A d \in Datagrams : Service!Verdict(d) = Verdict(d)
  BY DEF Service!Verdict, Verdict, Service!InfoVerdict, InfoVerdict, Service!PacketMin,
     PacketMin
<1>2. Service!Reply = Reply
  BY DEF Service!Reply, Reply, Service!MessageType, MessageType, Service!NoNumber,
     NoNumber
<1>3. QED
  BY <1>1, <1>2 DEF Service!Numbered, Numbered, Service!NextNumber, NextNumber

\* What Head and Tail of the mapped inbox are while a datagram is handled.
LEMMA InboxHead ==
    ASSUME TypeOK, lpc \in {"handle", "send"}
    PROVE  /\ InboxBar # <<>>
           /\ Head(InboxBar) = buf
           /\ Tail(InboxBar) = rcvq
           /\ buf \in Datagrams
<1>1. buf \in Datagrams /\ rcvq \in Seq(Datagrams)
  BY DEF TypeOK
<1>2. InboxBar = <<buf>> \o rcvq
  BY DEF InboxBar
<1>3. QED
  BY <1>1, <1>2

\* A step on which the service's state does not change.
LEMMA Stutter ==
    ASSUME TypeOK, TypeOK',
           \/ Bounce \/ Start \/ Stop \/ LoopEnter
           \/ SelectTimeout \/ SelectReady \/ RecvDatagram
           \/ HandleAnswer \/ HandleIgnore \/ UNCHANGED vars
    PROVE  UNCHANGED Service!svars
<1> USE DEF Service!svars
<1>1. CASE Bounce \/ Stop \/ UNCHANGED vars
  BY <1>1 DEF Bounce, Stop, vars, InboxBar, NumBar, Pending, Halted, Numbered
<1>2. CASE Start \/ LoopEnter \/ SelectTimeout \/ SelectReady
  BY <1>2 DEF Start, LoopEnter, SelectTimeout, SelectReady, InboxBar, NumBar, Pending,
     Halted
<1>3. CASE RecvDatagram
  <2>1. InboxBar = rcvq /\ InboxBar' = <<Head(rcvq)>> \o Tail(rcvq)
    BY <1>3 DEF RecvDatagram, InboxBar
  <2>2. rcvq = <<Head(rcvq)>> \o Tail(rcvq)
    BY <1>3 DEF RecvDatagram, TypeOK
  <2>3. QED
    BY <1>3, <2>1, <2>2 DEF RecvDatagram, NumBar, Pending, Halted
<1>4. CASE HandleAnswer
  <2>1. buf \in Datagrams /\ packetCounter \in 0 .. CtrMod - 1 /\ Verdict(buf) = "None"
        /\ ret' \in Replies(buf, packetCounter) /\ lpc = "handle" /\ lpc' = "send"
    BY <1>4 DEF HandleAnswer, TypeOK
  <2>2. /\ ret' \in Reply
        /\ Numbered(ret') <=> TakesNumber(buf)
        /\ Numbered(ret') => ret'.num = packetCounter
    BY <2>1, RepliesOK
  <2>3. Pending' <=> TakesNumber(buf)
    BY <2>1, <2>2, ServerAssumption DEF Pending, Numbered
  <2>4. NumBar = packetCounter
    BY <2>1 DEF NumBar, Pending
  <2>5. NumBar' = packetCounter
    BY <1>4, <2>2, <2>3 DEF NumBar, HandleAnswer
  <2>6. QED
    BY <1>4, <2>4, <2>5 DEF HandleAnswer, InboxBar, Halted
<1>5. CASE HandleIgnore
  BY <1>5 DEF HandleIgnore, InboxBar, NumBar, Pending, Halted
<1>6. QED
  BY <1>1, <1>2, <1>3, <1>4, <1>5

\* A step on which the service stops.
LEMMA HaltStep ==
    ASSUME TypeOK,
           LoopExit \/ SelectError \/ RecvRefused \/ RecvOversize \/ HandleThrow
    PROVE  Service!Halt
<1>1. ~Halted /\ Halted' /\ UNCHANGED <<out, NumBar>>
  BY DEF LoopExit, SelectError, RecvRefused, RecvOversize, HandleThrow, Halted, NumBar,
     Pending
<1>2. CASE LoopExit \/ SelectError \/ RecvRefused
  <2>1. InboxBar' = InboxBar
    BY <1>2 DEF LoopExit, SelectError, RecvRefused, InboxBar
  <2>2. QED
    BY <1>1, <2>1 DEF Service!Halt
<1>3. CASE RecvOversize
  <2>1. InboxBar = rcvq /\ rcvq # <<>> /\ InboxBar' = Tail(rcvq)
    BY <1>3 DEF RecvOversize, InboxBar
  <2>2. QED
    BY <1>1, <2>1 DEF Service!Halt
<1>4. CASE HandleThrow
  <2>1. InboxBar # <<>> /\ Tail(InboxBar) = rcvq
    BY <1>4, InboxHead DEF HandleThrow
  <2>2. InboxBar' = rcvq
    BY <1>4 DEF HandleThrow, InboxBar
  <2>3. QED
    BY <1>1, <2>1, <2>2 DEF Service!Halt
<1>5. QED
  BY <1>2, <1>3, <1>4

\* Arrive: the datagram joins the service's inbox, or is lost.
LEMMA ArriveStep ==
    ASSUME TypeOK, Arrive
    PROVE  Service!Arrive \/ UNCHANGED Service!svars
<1>1. UNCHANGED <<out, NumBar, Halted>> /\ UNCHANGED <<lpc, buf>>
  BY DEF Arrive, NumBar, Pending, Halted, Numbered
<1>2. PICK d \in Datagrams :
         rcvq' = IF Len(rcvq) < QCap THEN Append(rcvq, d) ELSE rcvq
  BY DEF Arrive
<1>3. CASE Len(rcvq) < QCap
  <2>1. InboxBar' = Append(InboxBar, d)
    <3>1. rcvq \in Seq(Datagrams) /\ rcvq' = Append(rcvq, d)
      BY <1>2, <1>3 DEF TypeOK
    <3>2. CASE lpc \in {"handle", "send"}
      <4>1. buf \in Datagrams
        BY <3>2 DEF TypeOK
      <4>2. <<buf>> \o Append(rcvq, d) = Append(<<buf>> \o rcvq, d)
        BY <3>1, <4>1
      <4>3. QED
        BY <1>1, <3>1, <3>2, <4>2 DEF InboxBar
    <3>3. CASE lpc \notin {"handle", "send"}
      BY <1>1, <3>1, <3>3 DEF InboxBar
    <3>4. QED
      BY <3>2, <3>3
  <2>2. QED
    BY <1>1, <2>1 DEF Service!Arrive
<1>4. CASE ~(Len(rcvq) < QCap)
  BY <1>1, <1>2, <1>4 DEF InboxBar, Service!svars
<1>5. QED
  BY <1>3, <1>4

\* Send: the oldest datagram of the inbox is answered, or dropped.
LEMMA SendStep ==
    ASSUME IInv, Send
    PROVE  Service!Answer \/ Service!Ignore
<1>1. TypeOK /\ AnswersRequest /\ PendingNumber /\ lpc = "send" /\ lpc' = "loop"
      /\ rcvq' = rcvq /\ packetCounter' = packetCounter
  BY DEF IInv, Send
<1>2. InboxBar # <<>> /\ Head(InboxBar) = buf /\ Tail(InboxBar) = rcvq /\ buf \in Datagrams
  BY <1>1, InboxHead
<1>3. InboxBar' = Tail(InboxBar) /\ ~Halted /\ ~Halted' /\ NumBar' = packetCounter
  BY <1>1, <1>2 DEF InboxBar, Halted, NumBar, Pending
<1>4. CASE Verdict(buf) = "None"
  <2>1. ret \in Reply /\ ret.to = buf.from /\ ret.type = buf.type /\ ret # NoReply
    BY <1>1, <1>4, ServerAssumption DEF AnswersRequest
  <2>2. out' = Append(out, ret)
    BY <2>1 DEF Send
  <2>3. Pending <=> Numbered(ret)
    BY <1>1, <2>1 DEF Pending
  <2>4. Numbered(ret) => ret.num = NumBar /\ NumBar' = NextNumber(NumBar)
    BY <1>1, <1>3, <2>3 DEF NumBar, PendingNumber
  <2>5. ~Numbered(ret) => NumBar' = NumBar
    BY <1>3, <2>3 DEF NumBar
  <2>6. Service!Verdict(buf) = "None" /\ (Service!Numbered(ret) <=> Numbered(ret))
        /\ ret \in Service!Reply
    BY <1>2, <1>4, <2>1, SameProtocol
  <2>7. NextNumber(NumBar) = Service!NextNumber(NumBar)
    BY DEF NextNumber, Service!NextNumber
  <2>8. QED
    BY <1>2, <1>3, <2>1, <2>2, <2>4, <2>5, <2>6, <2>7 DEF Service!Answer
<1>5. CASE Verdict(buf) # "None"
  <2>1. ret = NoReply
    BY <1>1, <1>5 DEF AnswersRequest
  <2>2. out' = out /\ NumBar' = NumBar
    BY <1>3, <2>1 DEF Send, NumBar, Pending
  <2>3. QED
    BY <1>2, <1>3, <1>5, <2>2, SameProtocol DEF Service!Ignore
<1>6. QED
  BY <1>4, <1>5

\* The loop of udp_server.cpp with its buffers, and the handler in two steps,
\* does nothing that the service of DsuService may not do.
THEOREM Implements == Spec => ImplementsService
<1>1. Init => Service!Init
  BY DEF Init, Service!Init, InboxBar, NumBar, Pending, Halted
<1>2. IInv /\ IInv' /\ [Next]_vars => [Service!Next]_(Service!svars)
  <2> SUFFICES ASSUME IInv, IInv', [Next]_vars
               PROVE  Service!Next \/ UNCHANGED Service!svars
    OBVIOUS
  <2> USE DEF Service!Next
  <2>1. TypeOK /\ TypeOK'
    BY DEF IInv
  <2>2. CASE Arrive
    BY <2>1, <2>2, ArriveStep
  <2>3. CASE Send
    BY <2>3, SendStep
  <2>4. CASE LoopExit \/ SelectError \/ RecvRefused \/ RecvOversize \/ HandleThrow
    BY <2>1, <2>4, HaltStep
  <2>5. CASE \/ Bounce \/ Start \/ Stop \/ LoopEnter
             \/ SelectTimeout \/ SelectReady \/ RecvDatagram
             \/ HandleAnswer \/ HandleIgnore \/ UNCHANGED vars
    BY <2>1, <2>5, Stutter
  <2>6. QED
    BY <2>2, <2>3, <2>4, <2>5 DEF Next, Listen, LoopTest, Recv, Handle
<1>3. QED
  BY <1>1, <1>2, Invariance, PTL DEF Spec, ImplementsService, Service!Spec

=============================================================================
