------------------------------ MODULE PacketCodec ------------------------------
(***************************************************************************)
(* The structs of packet.hpp and their serialize and deserialize           *)
(* (packet.cpp), with BinaryWriter and BinaryReader (utils.hpp).  One      *)
(* struct is serialized; a buffer that may be shorter or longer than that  *)
(* arrives; the peer deserializes it, one read at a time.                  *)
(*                                                                         *)
(* A byte is named by the place it belongs to: <<part, field, number>>.    *)
(* Part 0 is the struct itself, the others are the structs inside it.      *)
(***************************************************************************)
EXTENDS Naturals, Sequences, SequencesExt, Crc32

CONSTANTS
    Content(_, _),  \* the value of a byte of a packet, given its magic
    SizeMod,  \* 2^w, w the width of size_t
    MaxCount,  \* bound: bytes of a body, slots of a request, entries of a reply
    MaxExtra   \* bound: bytes that arrive beyond those serialized

ASSUME CodecAssumption ==
    MaxCount \in Nat /\ MaxExtra \in Nat /\ SizeMod \in Nat /\ 4 + MaxCount < SizeMod

VARIABLES
    kind,   \* the struct
    count,  \* elements of its vector member, 0 if it has none
    magic,  \* header.magic, "DSUC" if it has none
    wire,   \* what serialize returned
    crcOf,  \* what the CRC-32 in it was computed over
    crc,    \* that CRC-32
    buf,    \* the buffer deserialize is given
    todo,   \* the reads that deserialize has yet to make
    pos,    \* BinaryReader::pos
    got,    \* pairs of a byte of the struct and the byte stored in it
    err,    \* DeserializeError, or "crash"
    pc

vars == <<kind, count, magic, wire, crcOf, crc, buf, todo, pos, got, err, pc>>

\* Name and width of the members, in the order they are written and read.
Fields ==
    [PacketHeader |-> <<<<"magic", 4>>, <<"protocol", 2>>, <<"length", 2>>,
                        <<"crc32", 4>>, <<"clientServerID", 4>>>>,
     ProtocolVersionResponse |-> <<<<"version", 2>>>>,
     ControllerInfoShared |-> <<<<"slot", 1>>, <<"state", 1>>, <<"model", 1>>,
                                <<"connection", 1>>, <<"macAddress", 6>>,
                                <<"batteryState", 1>>>>,
     ControllerIdentifier |-> <<<<"type", 1>>, <<"slot", 1>>, <<"mac", 6>>>>,
     GamePadButtons |-> <<<<"buttons1", 1>>, <<"buttons2", 1>>>>,
     Touch |-> <<<<"active", 1>>, <<"id", 1>>, <<"x", 2>>, <<"y", 2>>>>,
     Vectors3f |-> <<<<"x", 4>>, <<"y", 4>>, <<"z", 4>>>>]

\* The members of ControllersDataResponse between info and touch1; the sticks
\* and the analog buttons are 16 single bytes.
PadFields == <<<<"connected", 1>>, <<"packetNum", 4>>, <<"buttons", 2>>, <<"home", 1>>,
               <<"touchButton", 1>>, <<"sticks", 4>>, <<"analog", 12>>>>

Kinds == DOMAIN Fields \union
    {"Packet", "ProtocolVersionRequest", "ControllersInfoRequest",
     "ControllerInfoResponse", "ControllersInfoResponse", "ControllersDataRequest",
     "ControllersDataResponse", "ControllersMotorsRequest",
     "ControllersMotorsResponse", "ControllersMotorsRumbleRequest"}

\* Clients send "DSUC", the server answers with "DSUS".
Magic == {"DSUC", "DSUS"}

Counted == {"Packet", "ControllersInfoRequest", "ControllersInfoResponse"}

Bytes(part, fs) ==
    FlattenSeq([i \in DOMAIN fs |-> [k \in 1 .. fs[i][2] |-> <<part, fs[i][1], k>>]])

Zero  == <<0, "zero", 1>>
Extra == <<0, "extra", 1>>

Init ==
    /\ kind \in Kinds
    /\ count \in IF kind \in Counted THEN 0 .. MaxCount ELSE {0}
    /\ magic \in IF kind = "Packet" THEN Magic ELSE {"DSUC"}
    /\ wire = <<>>
    /\ crcOf = <<>>
    /\ crc = {}
    /\ buf = <<>>
    /\ todo = <<>>
    /\ pos = 0
    /\ got = {}
    /\ err = "None"
    /\ pc = "serialize"

-----------------------------------------------------------------------------
(***************************************************************************)
(* serialize.                                                              *)
(***************************************************************************)

PacketLayout(n) == Bytes(0, Fields.PacketHeader \o <<<<"type", 4>>, <<"body", n>>>>)

ASSUME ContentAssumption ==
    \A m \in Magic : \A b \in ToSet(PacketLayout(MaxCount)) : Content(b, m) \in Byte

InfoRequestLayout(n) == Bytes(0, <<<<"ports", 4>>, <<"slots", n>>>>)

InfoEntryLayout == Bytes(1, Fields.ControllerInfoShared \o <<<<"_", 1>>>>)

\* The padding of an entry is written as the int 0.
InfoEntries(n) ==
    FlattenSeq([i \in 1 .. n |->
        Bytes(i, Fields.ControllerInfoShared \o <<<<"_", 4>>>>)])

IdentifierLayout == Bytes(1, Fields.ControllerIdentifier)

MotorsLayout == Bytes(1, Fields.ControllerInfoShared) \o Bytes(0, <<<<"motorCount", 1>>>>)

RumbleLayout == IdentifierLayout \o Bytes(0, <<<<"motorID", 1>>, <<"intensity", 1>>>>)

PadLayout ==
    Bytes(1, Fields.ControllerInfoShared) \o Bytes(0, PadFields)
    \o Bytes(2, Fields.Touch) \o Bytes(3, Fields.Touch) \o Bytes(0, <<<<"timestamp", 8>>>>)
    \o Bytes(4, Fields.Vectors3f) \o Bytes(5, Fields.Vectors3f)

Layout(k, n) ==
    CASE k \in DOMAIN Fields -> Bytes(0, Fields[k])
      [] k = "ProtocolVersionRequest" -> <<>>
      [] k = "Packet" -> PacketLayout(n)
      [] k = "ControllersInfoRequest" -> InfoRequestLayout(n)
      [] k = "ControllerInfoResponse" -> InfoEntryLayout
      [] k = "ControllersInfoResponse" -> InfoEntries(n)
      [] k \in {"ControllersDataRequest", "ControllersMotorsRequest"} -> IdentifierLayout
      [] k = "ControllersMotorsResponse" -> MotorsLayout
      [] k = "ControllersMotorsRumbleRequest" -> RumbleLayout
      [] k = "ControllersDataResponse" -> PadLayout

CrcField == 9 .. 12   \* bytes 8 to 11 of a packet, counted from 0

\* Mutant: the CRC of the header is written instead of zero.
Bug_CrcNotZeroed(w) == w

\* The packet as it is when the CRC is computed.
Zeroed(w) == [i \in DOMAIN w |-> IF i \in CrcField THEN Zero ELSE w[i]]

Values(w) == [i \in DOMAIN w |-> IF w[i] = Zero THEN {} ELSE Content(w[i], magic)]

\* memcpy of the CRC into the buffer
Patched(w) ==
    [i \in DOMAIN w |-> IF i \in CrcField THEN <<0, "crc32", i - 8>> ELSE w[i]]

Serialize ==
    /\ pc = "serialize"
    /\ LET w == Layout(kind, count) IN
       IF kind = "Packet"
       THEN /\ crcOf' = Zeroed(w)
            /\ crc' = compute_crc32(Values(Zeroed(w)))
            /\ wire' = Patched(Zeroed(w))
       ELSE /\ wire' = w
            /\ UNCHANGED <<crcOf, crc>>
    /\ pc' = "receive"
    /\ UNCHANGED <<kind, count, magic, buf, todo, pos, got, err>>

\* The peer need not send what serialize writes.
Receive ==
    /\ pc = "receive"
    /\ \/ \E n \in 0 .. Len(wire) : buf' = SubSeq(wire, 1, n)
       \/ \E n \in 1 .. MaxExtra : buf' = wire \o [i \in 1 .. n |-> Extra]
    /\ pc' = "test"
    /\ UNCHANGED <<kind, count, magic, wire, crcOf, crc, todo, pos, got, err>>

-----------------------------------------------------------------------------
(***************************************************************************)
(* deserialize.                                                            *)
(***************************************************************************)

\* The test of buf.size() each deserialize begins with.
SizeVerdict(k, m) ==
    LET expect(ok) == IF ok THEN "None" ELSE "ErrInvalidLength" IN
    CASE k \in {"Packet", "PacketHeader"} -> expect(m >= 20)
      [] k = "ProtocolVersionRequest"   -> "None"
      [] k = "ProtocolVersionResponse"  -> IF m = 2 THEN "None" ELSE "ErrParseError"
      [] k = "ControllerInfoShared"     -> expect(m = 11)
      [] k = "ControllersInfoRequest"   -> expect(m \in 4 .. 8)
      [] k \in {"ControllerInfoResponse", "ControllersMotorsResponse"} -> expect(m = 12)
      [] k = "ControllersInfoResponse"  -> expect(m % 12 = 0)
      [] k \in {"ControllerIdentifier", "ControllersMotorsRequest"} -> expect(m >= 8)
      [] k = "ControllersDataRequest"   -> expect(m = 8)
      [] k = "GamePadButtons"           -> expect(m >= 2)
      [] k = "Touch"                    -> expect(m >= 4)
      [] k = "Vectors3f"                -> expect(m >= 12)
      [] k = "ControllersDataResponse"  -> expect(m = 80)
      [] k = "ControllersMotorsRumbleRequest" -> expect(m = 10)

\* What the server answers with (dsu_server.cpp:229-242).
IsReply == kind = "Packet" /\ magic = "DSUS"

\* Mutant: the magic is not looked at.
Bug_NoMagicTest == SizeVerdict(kind, Len(buf))

\* What is tested before the first read: the size, then, of a packet, the magic.
TestVerdict ==
    LET v == SizeVerdict(kind, Len(buf)) IN
    IF v = "None" /\ IsReply THEN "ErrInvalidPacket" ELSE v

\* Members read one by one.
Own(fs) ==
    [i \in DOMAIN fs |-> [to |-> Bytes(0, <<fs[i]>>), take |-> fs[i][2],
                          verdict |-> "None", skip |-> FALSE]]

\* Mutant: neither size is compared with the slice.
Bug_NoSliceTest(part, k, w, skip) ==
    <<[to |-> Bytes(part, Fields[k]), take |-> w, skip |-> skip, verdict |-> "None"]>>

\* A struct inside, deserialized from a slice of w bytes; skip if the reader
\* is then moved on by a readBytes to a null pointer.
Inside(part, k, w, skip) ==
    LET to == Bytes(part, Fields[k]) IN
    <<[to |-> to, take |-> w, skip |-> skip,
       verdict |-> IF SizeVerdict(k, w) # "None" THEN SizeVerdict(k, w)
                   ELSE IF Len(to) > w THEN "ErrParseError" ELSE "None"]>>

\* The body is all that remains of the m bytes.
PacketReads(m) == Own(Fields.PacketHeader \o <<<<"type", 4>>, <<"body", m - 20>>>>)

\* Mutant: the slots are not read, nor is their number tested.
Bug_SlotsNotRead(n) == Own(<<<<"ports", 4>>>>)

\* n is the value of ports.  The size test between ports and slots fails
\* exactly when the read of slots would.
InfoRequestReads(n) == Own(<<<<"ports", 4>>, <<"slots", n>>>>)

InfoEntryReads == Inside(1, "ControllerInfoShared", 11, FALSE)

InfoEntriesReads(m) ==
    FlattenSeq([i \in 1 .. m \div 12 |-> Inside(i, "ControllerInfoShared", 12, FALSE)])

IdentifierReads == Inside(1, "ControllerIdentifier", 8, FALSE)

MotorsReads == InfoEntryReads \o Own(<<<<"motorCount", 1>>>>)

RumbleReads == IdentifierReads \o Own(<<<<"motorID", 1>>, <<"intensity", 1>>>>)

PadReads ==
    Inside(1, "ControllerInfoShared", 11, TRUE) \o Own(PadFields)
    \o Inside(2, "Touch", 4, TRUE) \o Inside(3, "Touch", 4, TRUE)
    \o Own(<<<<"timestamp", 8>>>>)
    \o Inside(4, "Vectors3f", 12, TRUE) \o Inside(5, "Vectors3f", 12, FALSE)

\* The reads of kind k from m bytes.
Reads(k, n, m) ==
    CASE k \in DOMAIN Fields -> Own(Fields[k])
      [] k = "ProtocolVersionRequest" -> <<>>
      [] k = "Packet" -> PacketReads(m)
      [] k = "ControllersInfoRequest" -> InfoRequestReads(n)
      [] k = "ControllerInfoResponse" -> InfoEntryReads
      [] k = "ControllersInfoResponse" -> InfoEntriesReads(m)
      [] k \in {"ControllersDataRequest", "ControllersMotorsRequest"} -> IdentifierReads
      [] k = "ControllersMotorsResponse" -> MotorsReads
      [] k = "ControllersMotorsRumbleRequest" -> RumbleReads
      [] k = "ControllersDataResponse" -> PadReads

\* deserialize returns the error.
Fail(e) ==
    /\ err' = e
    /\ pc' = "done"
    /\ UNCHANGED <<kind, count, magic, wire, crcOf, crc, buf, todo, pos, got>>

TestPasses ==
    /\ pc = "test"
    /\ TestVerdict = "None"
    /\ todo' = Reads(kind, count, Len(buf))
    /\ pc' = "read"
    /\ UNCHANGED <<kind, count, magic, wire, crcOf, crc, buf, pos, got, err>>

TestFails ==
    /\ pc = "test"
    /\ TestVerdict # "None"
    /\ Fail(TestVerdict)

\* The destination bytes of the next read, paired with the bytes in the buffer.
Taken == {<<Head(todo).to[j], buf[pos + j]>> : j \in DOMAIN Head(todo).to}

Read ==
    /\ pc = "read" /\ todo # <<>>
    /\ Head(todo).verdict = "None"
    /\ pos + Head(todo).take <= Len(buf)
    /\ got' = got \union Taken
    /\ pos' = pos + Head(todo).take
    /\ todo' = Tail(todo)
    /\ UNCHANGED <<kind, count, magic, wire, crcOf, crc, buf, err, pc>>

\* Mutant: the reader is moved on before the test.
Bug_MoveThenTest ==
    /\ pc = "read" /\ todo # <<>>
    /\ pos + Head(todo).take > Len(buf)
    /\ pos' = pos + Head(todo).take
    /\ err' = "ErrParseError"
    /\ pc' = "done"
    /\ UNCHANGED <<kind, count, magic, wire, crcOf, crc, buf, todo, got>>

ReadPastEnd ==
    /\ pc = "read" /\ todo # <<>>
    /\ pos + Head(todo).take > Len(buf)
    /\ Fail("ErrParseError")

ReadInsideFails ==
    /\ pc = "read" /\ todo # <<>>
    /\ pos + Head(todo).take <= Len(buf)
    /\ Head(todo).verdict # "None"
    /\ Fail(Head(todo).verdict)

\* memcpy to a null pointer is undefined: it may crash instead of moving on.
SkipCrashes ==
    /\ pc = "read" /\ todo # <<>>
    /\ Head(todo).verdict = "None"
    /\ Head(todo).skip
    /\ Fail("crash")

Return ==
    /\ pc = "read" /\ todo = <<>>
    /\ pc' = "done"
    /\ UNCHANGED <<kind, count, magic, wire, crcOf, crc, buf, todo, pos, got, err>>

Deserialize ==
    TestPasses \/ TestFails \/ Read \/ ReadPastEnd \/ ReadInsideFails \/ SkipCrashes \/ Return

Next == Serialize \/ Receive \/ Deserialize

Spec == Init /\ [][Next]_vars

-----------------------------------------------------------------------------
(***************************************************************************)
(* Properties.                                                             *)
(***************************************************************************)

Names ==
    {"magic", "protocol", "length", "crc32", "clientServerID", "type", "body", "version",
     "slot", "state", "model", "connection", "macAddress", "batteryState", "mac",
     "buttons1", "buttons2", "active", "id", "x", "y", "z", "connected", "packetNum",
     "buttons", "home", "touchButton", "sticks", "analog", "timestamp", "ports", "slots",
     "motorCount", "motorID", "intensity", "_", "zero", "extra"}

ByteName == Nat \X Names \X Nat

\* Types, and that the reader never stands past the end of the buffer.
TypeOK ==
    /\ kind \in Kinds
    /\ count \in 0 .. MaxCount
    /\ magic \in Magic
    /\ \A s \in {wire, crcOf, buf} : \A i \in DOMAIN s : s[i] \in ByteName
    /\ crc \in Word
    /\ \A i \in DOMAIN todo : todo[i].take \in Nat
    /\ pos \in 0 .. Len(buf)
    /\ \A p \in got : p[1] \in ByteName /\ p[2] \in ByteName
    /\ err \in {"None", "ErrInvalidLength", "ErrInvalidPacket", "ErrParseError", "crash"}
    /\ pc \in {"serialize", "receive", "test", "read", "done"}

\* The bytes of the struct that a successful deserialize of m bytes sets: all
\* but the padding; a packet has the body it received, a reply the entries.
Members(k, n, m) ==
    LET c == CASE k = "Packet" -> m - 20
               [] k = "ControllersInfoResponse" -> m \div 12
               [] OTHER -> n
    IN  {b \in ToSet(Layout(k, c)) : b[2] # "_"}

\* A buffer that is accepted, whatever its length, leaves no member unset and
\* no member with the bytes of another (the reads of packet.cpp against its
\* writes).  Only the body of a packet takes in what arrived in addition.
Sound ==
    pc = "done" /\ err = "None" =>
        /\ {p[1] : p \in got} = Members(kind, count, Len(buf))
        /\ \A p \in got : p[1] = p[2] \/ (p[2] = Extra /\ p[1][2] = "body")

\* The structs whose deserialize does not read back what their serialize
\* writes; the server never deserializes these.
Lossy == {"PacketHeader", "ControllersInfoResponse", "ControllersDataResponse"}

\* All others read back what they write (packet.hpp:99: "Always less than 5"),
\* but a packet only with the magic of a request: the replies this program
\* serializes are refused by its own Packet::deserialize (utils.cpp:30).
RoundTrip ==
    /\ pc = "done"
    /\ buf = wire
    /\ kind \notin Lossy
    /\ kind = "ControllersInfoRequest" => count < 5
    => err = IF IsReply THEN "ErrInvalidPacket" ELSE "None"

\* What handleMessage takes each request for.
Protocol ==
    INSTANCE DsuProtocol WITH Clients <- {}, Datagrams <- {}, CtrMod <- 1,
                              Connected <- 0, Cached <- 0, Slots <- {}

Requests ==
    [ProtocolVersionRequest |-> "version", ControllersInfoRequest |-> "info",
     ControllersDataRequest |-> "data", ControllersMotorsRequest |-> "motors",
     ControllersMotorsRumbleRequest |-> "rumble"]

PacketVerdict ==
    Protocol!Verdict([size |-> Len(buf), magic |-> magic = "DSUC",
                      type |-> "version", ports |-> 0])

RequestVerdict ==
    Protocol!Verdict([size |-> Protocol!PacketMin + Len(buf), magic |-> TRUE,
                      type |-> Requests[kind], ports |-> count])

\* DsuProtocol knows a datagram by its size, its magic and its ports only.  Read
\* byte by byte, a packet and each request come to the same verdict, with the
\* same error: the sizes the tests ask for are those the reads need
\* (dsu_server.cpp, packet.cpp, utils.cpp:26-37).
VerdictOfSize ==
    pc = "done" =>
        /\ kind = "Packet" => err = PacketVerdict
        /\ kind \in DOMAIN Requests => err = RequestVerdict

\* The CRC of a packet covers all of it, with its own four bytes zero and
\* nothing else changed (packet.cpp:58-77, packet.hpp:19).
CrcCovers ==
    kind = "Packet" /\ pc # "serialize" =>
        /\ wire = Layout(kind, count)
        /\ Len(crcOf) = Len(wire)
        /\ \A i \in DOMAIN wire :
              crcOf[i] = IF wire[i][2] = "crc32" THEN Zero ELSE wire[i]

\* The table-driven loop gives what the polynomial defines, for the packet as
\* it leaves with its own four bytes zero (utils.cpp:39-66).
CrcIsIeee ==
    kind = "Packet" /\ pc = "receive" =>
        crc = IeeeCrc([i \in DOMAIN wire |->
                  IF wire[i][2] = "crc32" THEN {} ELSE Content(wire[i], magic)])

-----------------------------------------------------------------------------
(***************************************************************************)
(* What comments of the code say and the code does not do.                 *)
(***************************************************************************)

\* packet.hpp:107 calls the member after the info a "Zero byte", and
\* packet.cpp:271 "padding byte", yet four bytes are written.
OnePaddingByte ==
    kind = "ControllersInfoResponse" =>
        \A i \in 1 .. count :
            Len(SelectSeq(wire, LAMBDA b : b[1] = i /\ b[2] = "_")) \in {0, 1}

\* packet.hpp:17-18: "Drop packet if it's too short, truncate if it's too long":
\* the body that is accepted has the length that was announced.
LengthHonoured ==
    kind = "Packet" /\ pc = "done" /\ err = "None" =>
        {p[1] : p \in got} = ToSet(Layout(kind, count))

=============================================================================
