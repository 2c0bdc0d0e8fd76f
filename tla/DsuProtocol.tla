----------------------------- MODULE DsuProtocol -----------------------------
(***************************************************************************)
(* The DSU (cemuhook) requests as the server sees them, and the replies it *)
(* builds (packet/packet.cpp, packet/utils.cpp, dsu_server.cpp).  A        *)
(* datagram is the record of what the control flow of the server reads of  *)
(* it; the layout of the bytes is abstracted.                              *)
(***************************************************************************)
EXTENDS Integers

CONSTANTS
    Clients,    \* peer addresses
    Datagrams,  \* the datagrams that may arrive
    SizeMod,    \* 2^w, w the width of size_t
    CtrMod,     \* 2^32, the width of packetCounter
    Connected,  \* controllers.size() once initialize() has returned
    Cached,     \* lastInputStates.size() once initialize() has returned
    Slots       \* values of a slot byte

PacketMin   == 20   \* header (16 bytes) and message type (4 bytes)
RecvBufSize == 512  \* recv_buf of UdpServer::listen

MessageType == {"version", "info", "data", "motors", "rumble"}

Datagram ==
    [from  : Clients,
     size  : Nat,
     magic : BOOLEAN,                     \* starts with "DSUC"
     type  : MessageType \union {"other"},
     ports : Int,                         \* ControllersInfoRequest.ports, an int32_t
     slots : SUBSET Slots]                \* slot bytes of the body

NoNumber == -1

Reply ==
    [to        : Clients,
     type      : MessageType,
     slots     : SUBSET Slots,            \* slots the reply reports about
     connected : BOOLEAN,                 \* ... and whether as connected
     num       : 0 .. CtrMod - 1 \union {NoNumber}]

ASSUME ProtocolAssumption ==
    /\ Datagrams \subseteq Datagram
    /\ SizeMod \in Nat \ {0}
    /\ CtrMod \in Nat \ {0}
    /\ Connected \in Nat
    /\ Slots \subseteq Nat
    /\ 0 .. Connected - 1 \subseteq Slots

\* ControllerManager pushes to both vectors in one connectController call;
\* module ControllerManager checks and proves that their sizes agree.
ASSUME CachedAssumption == Cached = Connected

-----------------------------------------------------------------------------
(***************************************************************************)
(* Request validation.                                                     *)
(***************************************************************************)

\* What ControllersInfoRequest::deserialize makes of a body of n bytes.  The
\* sum with the sign-extended int32_t is taken in size_t; when it wraps, the
\* size test passes and slots.resize throws.
InfoVerdict(n, ports) ==
    IF n < 4 \/ n > 8 THEN "ErrInvalidLength"
    ELSE IF n < (4 + ports) % SizeMod THEN "ErrParseError"
    ELSE IF ports < 0 THEN "length_error"
    ELSE "None"

\* What handleMessage makes of a datagram before it builds a reply: "None" if
\* it answers, an error name if it returns an empty buffer, "length_error" if
\* an exception leaves the handler.
Verdict(d) ==
    LET body == d.size - PacketMin IN
    CASE d.size < PacketMin  -> "ErrInvalidLength"
      [] d.size >= PacketMin /\ ~d.magic -> "ErrInvalidPacket"
      [] OTHER ->
          CASE d.type = "version" -> "None"
            [] d.type = "info"    -> InfoVerdict(body, d.ports)
            [] d.type = "data"    -> IF body = 8 THEN "None" ELSE "ErrInvalidLength"
            [] d.type = "motors"  -> IF body >= 8 THEN "None" ELSE "ErrInvalidLength"
            [] d.type = "rumble"  -> IF body = 10 THEN "None" ELSE "ErrInvalidLength"
            [] OTHER              -> "unknown_type"

-----------------------------------------------------------------------------
(***************************************************************************)
(* Replies.                                                                *)
(***************************************************************************)

\* A pad data reply that reports a connected controller takes the next number.
Numbered(r) == r.type = "data" /\ r.connected

\* buildControllersInfoResponse: every controller, whatever slots were asked.
InfoReplies(d) ==
    {[to |-> d.from, type |-> "info", slots |-> 0 .. Connected - 1,
      connected |-> TRUE, num |-> NoNumber]}

\* buildControllerDataResponse for slot s, with counter value n.  For a slot
\* without a controller it returns a response of which only `connected' is
\* set; slot and number are whatever the storage held.
DataReplies(d, s, n) ==
    IF s < Connected
    THEN {[to |-> d.from, type |-> "data", slots |-> {s},
           connected |-> s < Cached, num |-> n]}
    ELSE {[to |-> d.from, type |-> "data", slots |-> {g},
           connected |-> FALSE, num |-> k] : g \in Slots, k \in 0 .. CtrMod - 1}

\* The motors branch: the slot is echoed and always reported as connected.
MotorsReplies(d) ==
    {[to |-> d.from, type |-> "motors", slots |-> d.slots,
      connected |-> TRUE, num |-> NoNumber]}

\* Version and rumble replies report about no slot.
PlainReplies(d) ==
    {[to |-> d.from, type |-> d.type, slots |-> {},
      connected |-> FALSE, num |-> NoNumber]}

\* The replies handleMessage may build to a datagram it answers.
Replies(d, n) ==
    CASE d.type = "info"   -> InfoReplies(d)
      [] d.type = "data"   -> UNION {DataReplies(d, s, n) : s \in d.slots}
      [] d.type = "motors" -> MotorsReplies(d)
      [] d.type \in {"version", "rumble"} -> PlainReplies(d)
      [] OTHER -> {}

\* Mutant: packetCounter++ moved above the test of the controller index.
Bug_NumberBeforeTest(d) == d.type = "data"

\* Whether building the reply increments packetCounter (it is incremented
\* before the cache is consulted).
TakesNumber(d) == d.type = "data" /\ \E s \in d.slots : s < Connected

\* Mutant: the counter does not wrap with its type.
Bug_NoWrap(n) == n + 1

\* packetCounter++ of a uint32_t
NextNumber(n) == (n + 1) % CtrMod

-----------------------------------------------------------------------------
\* The 8-byte body of a data or motors request holds exactly one slot byte.
ASSUME OneSlotAssumption ==
    \A d \in Datagrams :
        d.type \in {"data", "motors"} /\ Verdict(d) = "None" =>
            \E s \in Slots : d.slots = {s}

=============================================================================
