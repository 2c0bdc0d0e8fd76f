--------------------------- MODULE PacketCodec_proofs ---------------------------
(***************************************************************************)
(* Theorems about PacketCodec, for a body of any length, a request and a   *)
(* reply of any number of slots, any content and any length that arrives.  *)
(* First the sizes of the structs and the reads of each kind against its   *)
(* writes, then the inductive invariant of deserialize, then the           *)
(* properties.                                                             *)
(***************************************************************************)
EXTENDS PacketCodec, Crc32_proofs

\* A member: its name and width.
Member == Names \X Nat

\* The bytes of the members, one sequence for each.
Runs(part, fs) == [i \in DOMAIN fs |-> [k \in 1 .. fs[i][2] |-> <<part, fs[i][1], k>>]]

\* Bytes puts the runs of the members one after the other.
LEMMA RunsType ==
    ASSUME NEW part \in Nat, NEW fs \in Seq(Member)
    PROVE  /\ Runs(part, fs) \in Seq(Seq(ByteName)) /\ Len(Runs(part, fs)) = Len(fs)
           /\ Bytes(part, fs) = FlattenSeq(Runs(part, fs))
  <1>1. ASSUME NEW i \in DOMAIN fs
        PROVE  [k \in 1 .. fs[i][2] |-> <<part, fs[i][1], k>>] \in Seq(ByteName)
    <2>1. fs[i][1] \in Names /\ fs[i][2] \in Nat
      BY DEF Member
    <2>2. ASSUME NEW k \in Nat PROVE <<part, fs[i][1], k>> \in ByteName
      BY <2>1 DEF ByteName
    <2> DEFINE n == fs[i][2]
               c == fs[i][1]
    <2> HIDE DEF n, c
    <2>3. n \in Nat /\ \A k \in 1 .. n : <<part, c, k>> \in ByteName
      BY <2>1, <2>2 DEF n, c
    <2>4. [k \in 1 .. n |-> <<part, c, k>>] \in Seq(ByteName)
      BY <2>3
    <2> QED BY <2>4 DEF n, c
  <1>2. DOMAIN fs = 1 .. Len(fs) /\ Len(fs) \in Nat
    OBVIOUS
  <1>3. Bytes(part, fs) = FlattenSeq(Runs(part, fs))
    BY DEF Bytes, Runs
  <1> QED BY <1>1, <1>2, <1>3 DEF Runs

\* A list of members has bytes.
LEMMA BytesType ==
    ASSUME NEW part \in Nat, NEW fs \in Seq(Member)
    PROVE  Bytes(part, fs) \in Seq(ByteName)
  BY RunsType, FlattenType

\* The bytes of two lists are one after the other.
LEMMA BytesConcat ==
    ASSUME NEW part \in Nat, NEW fs \in Seq(Member), NEW gs \in Seq(Member)
    PROVE  Bytes(part, fs \o gs) = Bytes(part, fs) \o Bytes(part, gs)
  <1>1. fs \o gs \in Seq(Member)
    OBVIOUS
  <1>2. Runs(part, fs \o gs) = Runs(part, fs) \o Runs(part, gs)
    <2> DEFINE f == Runs(part, fs)
               g == Runs(part, gs)
               h == Runs(part, fs \o gs)
    <2>1. /\ f \in Seq(Seq(ByteName)) /\ Len(f) = Len(fs)
          /\ g \in Seq(Seq(ByteName)) /\ Len(g) = Len(gs)
          /\ h \in Seq(Seq(ByteName)) /\ Len(h) = Len(fs \o gs)
      BY <1>1, RunsType
    <2>2. ASSUME NEW i \in 1 .. Len(fs) PROVE h[i] = f[i]
      <3>1. i \in DOMAIN fs /\ i \in DOMAIN (fs \o gs) /\ (fs \o gs)[i] = fs[i]
        OBVIOUS
      <3> QED BY <3>1, Zenon DEF Runs
    <2>3. ASSUME NEW i \in 1 .. Len(gs) PROVE h[Len(fs) + i] = g[i]
      <3>1. /\ i \in DOMAIN gs /\ Len(fs) + i \in DOMAIN (fs \o gs)
            /\ (fs \o gs)[Len(fs) + i] = gs[i]
        OBVIOUS
      <3> QED BY <3>1, Zenon DEF Runs
    <2> DEFINE W == Seq(ByteName)
    <2> HIDE DEF f, g, h, W
    <2>4. Len(fs \o gs) = Len(fs) + Len(gs) /\ Len(fs) \in Nat /\ Len(gs) \in Nat
      OBVIOUS
    <2>5. /\ f \o g \in Seq(W) /\ Len(f \o g) = Len(f) + Len(g)
          /\ \A i \in 1 .. Len(f) + Len(g) :
                (f \o g)[i] = IF i <= Len(f) THEN f[i] ELSE g[i - Len(f)]
      BY <2>1, ConcatProperties DEF W
    <2>6. ASSUME NEW i \in 1 .. Len(h) PROVE h[i] = (f \o g)[i]
      <3>1. CASE i <= Len(fs)
        BY <2>1, <2>2, <2>4, <2>5, <3>1
      <3>2. CASE i > Len(fs)
        <4>1. i - Len(fs) \in 1 .. Len(gs) /\ Len(fs) + (i - Len(fs)) = i
          BY <2>1, <2>4, <3>2
        <4>2. h[i] = g[i - Len(fs)]
          BY <2>3, <4>1
        <4> QED BY <2>1, <2>4, <2>5, <3>2, <4>2
      <3> QED BY <2>1, <2>4, <3>1, <3>2
    <2>7. h = f \o g
      BY <2>1, <2>4, <2>5, <2>6, SeqEqual DEF W
    <2> QED BY <2>7 DEF f, g, h
  <1>3. /\ Runs(part, fs) \in Seq(Seq(ByteName)) /\ Runs(part, gs) \in Seq(Seq(ByteName))
        /\ Bytes(part, fs) = FlattenSeq(Runs(part, fs))
        /\ Bytes(part, gs) = FlattenSeq(Runs(part, gs))
        /\ Bytes(part, fs \o gs) = FlattenSeq(Runs(part, fs \o gs))
    BY <1>1, RunsType
  <1>4. FlattenSeq(Runs(part, fs) \o Runs(part, gs))
          = FlattenSeq(Runs(part, fs)) \o FlattenSeq(Runs(part, gs))
    BY <1>3, FlattenConcat
  <1> QED BY <1>2, <1>3, <1>4

\* The bytes of one member are numbered from 1 to its width.
LEMMA BytesOne ==
    ASSUME NEW part \in Nat, NEW f \in Member
    PROVE  /\ Bytes(part, <<f>>) = [k \in 1 .. f[2] |-> <<part, f[1], k>>]
           /\ Len(Bytes(part, <<f>>)) = f[2]
  <1> DEFINE run == [k \in 1 .. f[2] |-> <<part, f[1], k>>]
  <1>1. <<f>> \in Seq(Member) /\ f[1] \in Names /\ f[2] \in Nat
    BY DEF Member
  <1>2. run \in Seq(ByteName) /\ Len(run) = f[2]
    BY <1>1 DEF ByteName
  <1>3. Runs(part, <<f>>) = <<run>>
    <2>1. Runs(part, <<f>>) \in Seq(Seq(ByteName)) /\ Len(Runs(part, <<f>>)) = 1
      BY <1>1, RunsType
    <2>2. Runs(part, <<f>>)[1] = run
      BY DEF Runs
    <2> HIDE DEF run
    <2> QED BY <2>1, <2>2
  <1> HIDE DEF run
  <1>4. Bytes(part, <<f>>) = run
    BY <1>1, <1>2, <1>3, RunsType, FlattenSmall
  <1> QED BY <1>2, <1>4 DEF run

\* Which bytes there are.
LEMMA BytesElements ==
    ASSUME NEW part \in Nat, NEW fs \in Seq(Member), NEW b
    PROVE  b \in ToSet(Bytes(part, fs))
             <=> \E i \in 1 .. Len(fs) : \E k \in 1 .. fs[i][2] : b = <<part, fs[i][1], k>>
  <1> DEFINE rs == Runs(part, fs)
  <1>1. ToSet(Bytes(part, fs)) = UNION {ToSet(rs[i]) : i \in 1 .. Len(fs)}
    BY RunsType, FlattenElements
  <1>2. ASSUME NEW i \in 1 .. Len(fs)
        PROVE  b \in ToSet(rs[i]) <=> \E k \in 1 .. fs[i][2] : b = <<part, fs[i][1], k>>
    <2> DEFINE run == [k \in 1 .. fs[i][2] |-> <<part, fs[i][1], k>>]
    <2>1. rs[i] = run
      <3>1. i \in DOMAIN fs
        OBVIOUS
      <3> QED BY <3>1, Zenon DEF Runs
    <2>2. b \in ToSet(run) <=> \E k \in 1 .. fs[i][2] : b = <<part, fs[i][1], k>>
      BY DEF ToSet
    <2> HIDE DEF rs, run
    <2> QED BY <2>1, <2>2
  <1> HIDE DEF rs
  <1> QED BY <1>1, <1>2
-----------------------------------------------------------------------------
\* A tuple of elements is a sequence of them.
LEMMA Tuples ==
    ASSUME NEW S, NEW a \in S, NEW b \in S
    PROVE  /\ <<>> \in Seq(S) /\ <<a>> \in Seq(S) /\ <<a, b>> \in Seq(S)
           /\ \A c, d, e, f \in S : <<a, b, c>> \in Seq(S) /\ <<a, b, c, d>> \in Seq(S)
                 /\ <<a, b, c, d, e>> \in Seq(S) /\ <<a, b, c, d, e, f>> \in Seq(S)
  <1>1. ASSUME NEW n \in Nat, NEW s, s = [i \in 1 .. n |-> s[i]],
               \A i \in 1 .. n : s[i] \in S
        PROVE  s \in Seq(S)
    BY <1>1
  <1>2. <<a, b>> \in Seq(S)
    <2>1. <<a, b>> = [i \in 1 .. 2 |-> <<a, b>>[i]] /\ \A i \in 1 .. 2 : <<a, b>>[i] \in S
      OBVIOUS
    <2> QED BY <1>1, <2>1
  <1>3. ASSUME NEW c \in S PROVE <<a, b, c>> \in Seq(S)
    <2> DEFINE s == <<a, b, c>>
    <2>1. s = [i \in 1 .. 3 |-> s[i]] /\ \A i \in 1 .. 3 : s[i] \in S
      OBVIOUS
    <2> QED BY <1>1, <2>1
  <1>4. ASSUME NEW c \in S, NEW d \in S PROVE <<a, b, c, d>> \in Seq(S)
    <2> DEFINE s == <<a, b, c, d>>
    <2>1. s = [i \in 1 .. 4 |-> s[i]] /\ \A i \in 1 .. 4 : s[i] \in S
      OBVIOUS
    <2> QED BY <1>1, <2>1
  <1>5. ASSUME NEW c \in S, NEW d \in S, NEW e \in S PROVE <<a, b, c, d, e>> \in Seq(S)
    <2> DEFINE s == <<a, b, c, d, e>>
    <2>1. s = [i \in 1 .. 5 |-> s[i]] /\ \A i \in 1 .. 5 : s[i] \in S
      OBVIOUS
    <2> QED BY <1>1, <2>1
  <1>6. ASSUME NEW c \in S, NEW d \in S, NEW e \in S, NEW f \in S
        PROVE  <<a, b, c, d, e, f>> \in Seq(S)
    <2> DEFINE s == <<a, b, c, d, e, f>>
    <2>1. s = [i \in 1 .. 6 |-> s[i]] /\ \A i \in 1 .. 6 : s[i] \in S
      OBVIOUS
    <2> QED BY <1>1, <2>1
  <1> QED BY <1>2, <1>3, <1>4, <1>5, <1>6

\* Where the elements of a concatenation come from.
LEMMA ConcatAt ==
    ASSUME NEW s \in Seq(ByteName), NEW t \in Seq(ByteName)
    PROVE  /\ s \o t \in Seq(ByteName) /\ Len(s \o t) = Len(s) + Len(t)
           /\ Len(s) \in Nat /\ Len(t) \in Nat
           /\ \A i \in 1 .. Len(s) : (s \o t)[i] = s[i]
           /\ \A i \in 1 .. Len(t) : (s \o t)[Len(s) + i] = t[i]
  OBVIOUS

\* A pair is a concatenation, which SMT does not see for itself.
LEMMA Pair == ASSUME NEW a, NEW b PROVE <<a, b>> = <<a>> \o <<b>>
  <1> DEFINE s == <<a, b>>
             t == <<a>> \o <<b>>
  <1>1. s = [i \in 1 .. 2 |-> s[i]] /\ t = [i \in 1 .. 2 |-> t[i]]
    OBVIOUS
  <1>2. s[1] = t[1] /\ s[2] = t[2]
    OBVIOUS
  <1>3. \A i \in 1 .. 2 : s[i] = t[i]
    BY <1>2
  <1>4. s = t
    <2> HIDE DEF s, t
    <2> QED BY <1>1, <1>3
  <1> QED BY <1>4

\* The sizes of two lists of members add up.
LEMMA SizesAdd ==
    ASSUME NEW p \in Nat, NEW fs \in Seq(Member), NEW gs \in Seq(Member)
    PROVE  /\ Len(Bytes(p, fs \o gs)) = Len(Bytes(p, fs)) + Len(Bytes(p, gs))
           /\ Len(Bytes(p, fs)) \in Nat
  <1>1. Bytes(p, fs \o gs) = Bytes(p, fs) \o Bytes(p, gs)
    BY BytesConcat
  <1>2. Bytes(p, fs) \in Seq(ByteName) /\ Bytes(p, gs) \in Seq(ByteName)
    BY BytesType
  <1> QED BY <1>1, <1>2, ConcatProperties

\* The size of two, three and four members.
LEMMA SizeOfTwo ==
    ASSUME NEW p \in Nat, NEW a \in Member, NEW b \in Member
    PROVE  Len(Bytes(p, <<a, b>>)) = a[2] + b[2]
  <1>1. <<a, b>> = <<a>> \o <<b>>
    BY Pair, Zenon
  <1>2. Len(Bytes(p, <<a>> \o <<b>>)) = Len(Bytes(p, <<a>>)) + Len(Bytes(p, <<b>>))
    BY Tuples, SizesAdd
  <1>3. Len(Bytes(p, <<a>>)) = a[2] /\ Len(Bytes(p, <<b>>)) = b[2]
    BY BytesOne
  <1> QED BY <1>1, <1>2, <1>3, Zenon

LEMMA SizeOfThree ==
    ASSUME NEW p \in Nat, NEW a \in Member, NEW b \in Member, NEW c \in Member
    PROVE  Len(Bytes(p, <<a, b, c>>)) = (a[2] + b[2]) + c[2]
  <1>1. <<a, b, c>> = <<a, b>> \o <<c>>
    OBVIOUS
  <1>2. Len(Bytes(p, <<a, b>> \o <<c>>)) = Len(Bytes(p, <<a, b>>)) + Len(Bytes(p, <<c>>))
    BY Tuples, SizesAdd
  <1>3. Len(Bytes(p, <<a, b>>)) = a[2] + b[2] /\ Len(Bytes(p, <<c>>)) = c[2]
    BY BytesOne, SizeOfTwo
  <1> QED BY <1>1, <1>2, <1>3, Zenon

LEMMA SizeOfFour ==
    ASSUME NEW p \in Nat, NEW a \in Member, NEW b \in Member, NEW c \in Member,
           NEW d \in Member
    PROVE  Len(Bytes(p, <<a, b, c, d>>)) = (a[2] + b[2]) + (c[2] + d[2])
  <1>1. <<a, b, c, d>> = <<a, b>> \o <<c, d>>
    OBVIOUS
  <1>2. Len(Bytes(p, <<a, b>> \o <<c, d>>))
          = Len(Bytes(p, <<a, b>>)) + Len(Bytes(p, <<c, d>>))
    BY Tuples, SizesAdd
  <1>3. Len(Bytes(p, <<a, b>>)) = a[2] + b[2] /\ Len(Bytes(p, <<c, d>>)) = c[2] + d[2]
    BY SizeOfTwo
  <1> QED BY <1>1, <1>2, <1>3, Zenon

-----------------------------------------------------------------------------
(***************************************************************************)
(* The structs: their members and their sizes.                             *)
(***************************************************************************)

\* The structs of packet.hpp are lists of members.
LEMMA Structs ==
    /\ DOMAIN Fields = {"PacketHeader", "ProtocolVersionResponse", "ControllerInfoShared",
                        "ControllerIdentifier", "GamePadButtons", "Touch", "Vectors3f"}
    /\ \A k \in DOMAIN Fields : Fields[k] \in Seq(Member)
    /\ PadFields \in Seq(Member)
    /\ \A n \in Nat : {<<"body", n>>, <<"slots", n>>} \subseteq Member
    /\ {<<"type", 4>>, <<"ports", 4>>, <<"_", 1>>, <<"_", 4>>, <<"motorCount", 1>>,
        <<"motorID", 1>>, <<"intensity", 1>>, <<"timestamp", 8>>} \subseteq Member
  <1>1. DOMAIN Fields = {"PacketHeader", "ProtocolVersionResponse", "ControllerInfoShared",
                        "ControllerIdentifier", "GamePadButtons", "Touch", "Vectors3f"}
    BY DEF Fields
  <1>2. ASSUME NEW nm \in Names, NEW w \in Nat PROVE <<nm, w>> \in Member
    BY DEF Member
  <1>3. Fields.PacketHeader \in Seq(Member)
    <2>1. {"magic", "protocol", "length", "crc32", "clientServerID"} \subseteq Names
      BY DEF Names
    <2>2. {<<"magic", 4>>, <<"protocol", 2>>, <<"length", 2>>, <<"crc32", 4>>,
           <<"clientServerID", 4>>} \subseteq Member
      BY <1>2, <2>1
    <2>3. <<<<"magic", 4>>, <<"protocol", 2>>, <<"length", 2>>, <<"crc32", 4>>,
            <<"clientServerID", 4>>>> \in Seq(Member)
      BY <2>2, Tuples
    <2> QED BY <2>3 DEF Fields
  <1>4. Fields.ProtocolVersionResponse \in Seq(Member)
    <2>1. {"version"} \subseteq Names
      BY DEF Names
    <2>2. {<<"version", 2>>} \subseteq Member
      BY <1>2, <2>1
    <2>3. <<<<"version", 2>>>> \in Seq(Member)
      BY <2>2, Tuples
    <2> QED BY <2>3 DEF Fields
  <1>5. Fields.ControllerInfoShared \in Seq(Member)
    <2>1. {"slot", "state", "model", "connection", "macAddress",
          "batteryState"} \subseteq Names
      BY DEF Names
    <2>2. {<<"slot", 1>>, <<"state", 1>>, <<"model", 1>>, <<"connection", 1>>,
           <<"macAddress", 6>>, <<"batteryState", 1>>} \subseteq Member
      BY <1>2, <2>1
    <2>3. <<<<"slot", 1>>, <<"state", 1>>, <<"model", 1>>, <<"connection", 1>>,
            <<"macAddress", 6>>, <<"batteryState", 1>>>> \in Seq(Member)
      BY <2>2, Tuples
    <2> QED BY <2>3 DEF Fields
  <1>6. Fields.ControllerIdentifier \in Seq(Member)
    <2>1. {"type", "slot", "mac"} \subseteq Names
      BY DEF Names
    <2>2. {<<"type", 1>>, <<"slot", 1>>, <<"mac", 6>>} \subseteq Member
      BY <1>2, <2>1
    <2>3. <<<<"type", 1>>, <<"slot", 1>>, <<"mac", 6>>>> \in Seq(Member)
      BY <2>2, Tuples
    <2> QED BY <2>3 DEF Fields
  <1>7. Fields.GamePadButtons \in Seq(Member)
    <2>1. {"buttons1", "buttons2"} \subseteq Names
      BY DEF Names
    <2>2. {<<"buttons1", 1>>, <<"buttons2", 1>>} \subseteq Member
      BY <1>2, <2>1
    <2>3. <<<<"buttons1", 1>>, <<"buttons2", 1>>>> \in Seq(Member)
      BY <2>2, Tuples
    <2> QED BY <2>3 DEF Fields
  <1>8. Fields.Touch \in Seq(Member)
    <2>1. {"active", "id", "x", "y"} \subseteq Names
      BY DEF Names
    <2>2. {<<"active", 1>>, <<"id", 1>>, <<"x", 2>>, <<"y", 2>>} \subseteq Member
      BY <1>2, <2>1
    <2>3. <<<<"active", 1>>, <<"id", 1>>, <<"x", 2>>, <<"y", 2>>>> \in Seq(Member)
      BY <2>2, Tuples
    <2> QED BY <2>3 DEF Fields
  <1>9. Fields.Vectors3f \in Seq(Member)
    <2>1. {"x", "y", "z"} \subseteq Names
      BY DEF Names
    <2>2. {<<"x", 4>>, <<"y", 4>>, <<"z", 4>>} \subseteq Member
      BY <1>2, <2>1
    <2>3. <<<<"x", 4>>, <<"y", 4>>, <<"z", 4>>>> \in Seq(Member)
      BY <2>2, Tuples
    <2> QED BY <2>3 DEF Fields
  <1>10. PadFields \in Seq(Member)
    <2>1. {"connected", "packetNum", "buttons", "home", "touchButton", "sticks",
          "analog"} \subseteq Names
      BY DEF Names
    <2>2. {<<"connected", 1>>, <<"packetNum", 4>>, <<"buttons", 2>>, <<"home", 1>>,
           <<"touchButton", 1>>, <<"sticks", 4>>, <<"analog", 12>>} \subseteq Member
      BY <1>2, <2>1
    <2> DEFINE s == PadFields
    <2>3. s = [i \in 1 .. 7 |-> s[i]] /\ \A i \in 1 .. 7 : s[i] \in Member
      BY <2>2 DEF PadFields
    <2> HIDE DEF s
    <2>4. s \in Seq(Member)
      BY <2>3
    <2> QED BY <2>4 DEF s
  <1>11. \A n \in Nat : {<<"body", n>>, <<"slots", n>>} \subseteq Member
    <2>1. {"body", "slots"} \subseteq Names
      BY DEF Names
    <2> QED BY <1>2, <2>1
  <1>12. {<<"type", 4>>, <<"ports", 4>>, <<"_", 1>>, <<"_", 4>>, <<"motorCount", 1>>,
          <<"motorID", 1>>, <<"intensity", 1>>, <<"timestamp", 8>>} \subseteq Member
    <2>1. {"type", "ports", "_", "motorCount", "motorID", "intensity",
          "timestamp"} \subseteq Names
      BY DEF Names
    <2> QED BY <1>2, <2>1
  <1> QED BY <1>1, <1>3, <1>4, <1>5, <1>6, <1>7, <1>8, <1>9, <1>10, <1>11, <1>12

\* The sizes on the wire, as the comments of packet.hpp give them.
LEMMA Sizes ==
    ASSUME NEW p \in Nat
    PROVE  /\ Len(Bytes(p, Fields.PacketHeader)) = 16
           /\ Len(Bytes(p, Fields.ProtocolVersionResponse)) = 2
           /\ Len(Bytes(p, Fields.ControllerInfoShared)) = 11
           /\ Len(Bytes(p, Fields.ControllerIdentifier)) = 8
           /\ Len(Bytes(p, Fields.GamePadButtons)) = 2
           /\ Len(Bytes(p, Fields.Touch)) = 6
           /\ Len(Bytes(p, Fields.Vectors3f)) = 12
  <1>1. ASSUME NEW nm \in Names, NEW w \in Nat
        PROVE  <<nm, w>> \in Member /\ <<nm, w>>[2] = w
    BY DEF Member
  <1>2. Len(Bytes(p, Fields.PacketHeader)) = 16
    <2> DEFINE m1 == <<"magic", 4>>
               m2 == <<"protocol", 2>>
               m3 == <<"length", 2>>
               m4 == <<"crc32", 4>>
               m5 == <<"clientServerID", 4>>
    <2>1. {"magic", "protocol", "length", "crc32", "clientServerID"} \subseteq Names
      BY DEF Names
    <2>2. {m1, m2, m3, m4, m5} \subseteq Member
      BY <1>1, <2>1
    <2>3. m1[2] = 4 /\ m2[2] = 2 /\ m3[2] = 2 /\ m4[2] = 4 /\ m5[2] = 4
      OBVIOUS
    <2>4. Fields.PacketHeader = <<m1, m2, m3, m4, m5>>
      BY DEF Fields
    <2> HIDE DEF m1, m2, m3, m4, m5
    <2>5. <<m1, m2, m3, m4, m5>> = <<m1, m2, m3>> \o <<m4, m5>>
      OBVIOUS
    <2>6. /\ <<m1, m2, m3>> \in Seq(Member) /\ <<m4, m5>> \in Seq(Member)
          /\ Len(Bytes(p, <<m1, m2, m3>>)) = (m1[2] + m2[2]) + m3[2]
          /\ Len(Bytes(p, <<m4, m5>>)) = m4[2] + m5[2]
      BY <2>2, SizeOfTwo, SizeOfThree, SizeOfFour, Tuples
    <2>7. Len(Bytes(p, <<m1, m2, m3>> \o <<m4, m5>>))
            = Len(Bytes(p, <<m1, m2, m3>>)) + Len(Bytes(p, <<m4, m5>>))
      BY <2>6, SizesAdd, Zenon
    <2>8. Len(Bytes(p, Fields.PacketHeader))
            = Len(Bytes(p, <<m1, m2, m3>>)) + Len(Bytes(p, <<m4, m5>>))
      BY <2>4, <2>5, <2>7, Zenon
    <2> DEFINE x == Len(Bytes(p, Fields.PacketHeader))
               y == Len(Bytes(p, <<m1, m2, m3>>))
               z == Len(Bytes(p, <<m4, m5>>))
    <2>9. x = y + z /\ y = (m1[2] + m2[2]) + m3[2] /\ z = m4[2] + m5[2]
      BY <2>6, <2>8, Zenon
    <2> HIDE DEF x, y, z
    <2>10. x = 16
      BY <2>3, <2>9
    <2> QED BY <2>10 DEF x
  <1>3. Len(Bytes(p, Fields.ProtocolVersionResponse)) = 2
    <2> DEFINE m1 == <<"version", 2>>
    <2>1. {"version"} \subseteq Names
      BY DEF Names
    <2>2. {m1} \subseteq Member
      BY <1>1, <2>1
    <2>3. m1[2] = 2
      OBVIOUS
    <2>4. Fields.ProtocolVersionResponse = <<m1>>
      BY DEF Fields
    <2> HIDE DEF m1
    <2>5. Len(Bytes(p, <<m1>>)) = m1[2]
      BY <2>2, BytesOne
    <2> QED BY <2>3, <2>4, <2>5
  <1>4. Len(Bytes(p, Fields.ControllerInfoShared)) = 11
    <2> DEFINE m1 == <<"slot", 1>>
               m2 == <<"state", 1>>
               m3 == <<"model", 1>>
               m4 == <<"connection", 1>>
               m5 == <<"macAddress", 6>>
               m6 == <<"batteryState", 1>>
    <2>1. {"slot", "state", "model", "connection", "macAddress",
          "batteryState"} \subseteq Names
      BY DEF Names
    <2>2. {m1, m2, m3, m4, m5, m6} \subseteq Member
      BY <1>1, <2>1
    <2>3. m1[2] = 1 /\ m2[2] = 1 /\ m3[2] = 1 /\ m4[2] = 1 /\ m5[2] = 6 /\ m6[2] = 1
      OBVIOUS
    <2>4. Fields.ControllerInfoShared = <<m1, m2, m3, m4, m5, m6>>
      BY DEF Fields
    <2> HIDE DEF m1, m2, m3, m4, m5, m6
    <2>5. <<m1, m2, m3, m4, m5, m6>> = <<m1, m2>> \o <<m3, m4, m5, m6>>
      OBVIOUS
    <2>6. /\ <<m1, m2>> \in Seq(Member) /\ <<m3, m4, m5, m6>> \in Seq(Member)
          /\ Len(Bytes(p, <<m1, m2>>)) = m1[2] + m2[2]
          /\ Len(Bytes(p, <<m3, m4, m5, m6>>)) = (m3[2] + m4[2]) + (m5[2] + m6[2])
      BY <2>2, SizeOfTwo, SizeOfThree, SizeOfFour, Tuples
    <2>7. Len(Bytes(p, <<m1, m2>> \o <<m3, m4, m5, m6>>))
            = Len(Bytes(p, <<m1, m2>>)) + Len(Bytes(p, <<m3, m4, m5, m6>>))
      BY <2>6, SizesAdd, Zenon
    <2>8. Len(Bytes(p, Fields.ControllerInfoShared))
            = Len(Bytes(p, <<m1, m2>>)) + Len(Bytes(p, <<m3, m4, m5, m6>>))
      BY <2>4, <2>5, <2>7, Zenon
    <2> DEFINE x == Len(Bytes(p, Fields.ControllerInfoShared))
               y == Len(Bytes(p, <<m1, m2>>))
               z == Len(Bytes(p, <<m3, m4, m5, m6>>))
    <2>9. x = y + z /\ y = m1[2] + m2[2] /\ z = (m3[2] + m4[2]) + (m5[2] + m6[2])
      BY <2>6, <2>8, Zenon
    <2> HIDE DEF x, y, z
    <2>10. x = 11
      BY <2>3, <2>9
    <2> QED BY <2>10 DEF x
  <1>5. Len(Bytes(p, Fields.ControllerIdentifier)) = 8
    <2> DEFINE m1 == <<"type", 1>>
               m2 == <<"slot", 1>>
               m3 == <<"mac", 6>>
    <2>1. {"type", "slot", "mac"} \subseteq Names
      BY DEF Names
    <2>2. {m1, m2, m3} \subseteq Member
      BY <1>1, <2>1
    <2>3. m1[2] = 1 /\ m2[2] = 1 /\ m3[2] = 6
      OBVIOUS
    <2>4. Fields.ControllerIdentifier = <<m1, m2, m3>>
      BY DEF Fields
    <2> HIDE DEF m1, m2, m3
    <2>5. Len(Bytes(p, <<m1, m2, m3>>)) = (m1[2] + m2[2]) + m3[2]
      BY <2>2, SizeOfThree
    <2> QED BY <2>3, <2>4, <2>5
  <1>6. Len(Bytes(p, Fields.GamePadButtons)) = 2
    <2> DEFINE m1 == <<"buttons1", 1>>
               m2 == <<"buttons2", 1>>
    <2>1. {"buttons1", "buttons2"} \subseteq Names
      BY DEF Names
    <2>2. {m1, m2} \subseteq Member
      BY <1>1, <2>1
    <2>3. m1[2] = 1 /\ m2[2] = 1
      OBVIOUS
    <2>4. Fields.GamePadButtons = <<m1, m2>>
      BY DEF Fields
    <2> HIDE DEF m1, m2
    <2>5. Len(Bytes(p, <<m1, m2>>)) = m1[2] + m2[2]
      BY <2>2, SizeOfTwo
    <2> QED BY <2>3, <2>4, <2>5
  <1>7. Len(Bytes(p, Fields.Touch)) = 6
    <2> DEFINE m1 == <<"active", 1>>
               m2 == <<"id", 1>>
               m3 == <<"x", 2>>
               m4 == <<"y", 2>>
    <2>1. {"active", "id", "x", "y"} \subseteq Names
      BY DEF Names
    <2>2. {m1, m2, m3, m4} \subseteq Member
      BY <1>1, <2>1
    <2>3. m1[2] = 1 /\ m2[2] = 1 /\ m3[2] = 2 /\ m4[2] = 2
      OBVIOUS
    <2>4. Fields.Touch = <<m1, m2, m3, m4>>
      BY DEF Fields
    <2> HIDE DEF m1, m2, m3, m4
    <2>5. Len(Bytes(p, <<m1, m2, m3, m4>>)) = (m1[2] + m2[2]) + (m3[2] + m4[2])
      BY <2>2, SizeOfFour
    <2> QED BY <2>3, <2>4, <2>5
  <1>8. Len(Bytes(p, Fields.Vectors3f)) = 12
    <2> DEFINE m1 == <<"x", 4>>
               m2 == <<"y", 4>>
               m3 == <<"z", 4>>
    <2>1. {"x", "y", "z"} \subseteq Names
      BY DEF Names
    <2>2. {m1, m2, m3} \subseteq Member
      BY <1>1, <2>1
    <2>3. m1[2] = 4 /\ m2[2] = 4 /\ m3[2] = 4
      OBVIOUS
    <2>4. Fields.Vectors3f = <<m1, m2, m3>>
      BY DEF Fields
    <2> HIDE DEF m1, m2, m3
    <2>5. Len(Bytes(p, <<m1, m2, m3>>)) = (m1[2] + m2[2]) + m3[2]
      BY <2>2, SizeOfThree
    <2> QED BY <2>3, <2>4, <2>5
  <1> QED BY <1>2, <1>3, <1>4, <1>5, <1>6, <1>7, <1>8
-----------------------------------------------------------------------------
(***************************************************************************)
(* Sequences of reads.                                                     *)
(***************************************************************************)

Verdicts == {"None", "ErrInvalidLength", "ErrParseError"}

\* A read that may succeed takes the bytes it stores.
ReadType ==
    {r \in [to : Seq(ByteName), take : Nat, verdict : Verdicts, skip : BOOLEAN] :
        r.verdict = "None" => Len(r.to) <= r.take}

\* The bytes that a sequence of reads stores to, one after the other.
Targets(rs) == [i \in DOMAIN rs |-> rs[i].to]
Dest(rs)    == FlattenSeq(Targets(rs))

\* The reads take what they store to, and none fails or crashes by itself.
PlainRead(r) == r.verdict = "None" /\ r.take = Len(r.to) /\ ~ r.skip
Plain(rs)    == \A i \in 1 .. Len(rs) : PlainRead(rs[i])

\* One of the reads fails however many bytes there are.
Doomed(rs) == \E i \in 1 .. Len(rs) : rs[i].verdict # "None"

\* The targets of reads are bytes.
LEMMA TargetsType ==
    ASSUME NEW rs \in Seq(ReadType)
    PROVE  /\ Targets(rs) \in Seq(Seq(ByteName)) /\ Len(Targets(rs)) = Len(rs)
           /\ \A i \in 1 .. Len(rs) : Targets(rs)[i] = rs[i].to
           /\ Dest(rs) \in Seq(ByteName)
  <1>1. DOMAIN rs = 1 .. Len(rs) /\ Len(rs) \in Nat
    OBVIOUS
  <1>2. \A i \in 1 .. Len(rs) : rs[i].to \in Seq(ByteName)
    BY DEF ReadType
  <1>3. Targets(rs) \in Seq(Seq(ByteName)) /\ Len(Targets(rs)) = Len(rs)
    <2> DEFINE W == Seq(ByteName)
    <2>1. Targets(rs) = [i \in 1 .. Len(rs) |-> rs[i].to]
          /\ \A i \in 1 .. Len(rs) : rs[i].to \in W
      BY <1>1, <1>2 DEF Targets
    <2> DEFINE t == Targets(rs)
    <2> HIDE DEF W, t
    <2>2. t \in [1 .. Len(rs) -> W]
      BY <2>1 DEF t
    <2>3. t \in Seq(W) /\ Len(t) = Len(rs)
      BY <1>1, <2>2
    <2> QED BY <2>3 DEF W, t
  <1> QED BY <1>1, <1>3, FlattenType DEF Targets, Dest

\* Two sequences of reads store one after the other.
LEMMA DestConcat ==
    ASSUME NEW rs \in Seq(ReadType), NEW qs \in Seq(ReadType)
    PROVE  Dest(rs \o qs) = Dest(rs) \o Dest(qs)
  <1> DEFINE W == Seq(ByteName)
             f == Targets(rs)
             g == Targets(qs)
             h == Targets(rs \o qs)
  <1>1. /\ rs \o qs \in Seq(ReadType) /\ Len(rs \o qs) = Len(rs) + Len(qs)
        /\ Len(rs) \in Nat /\ Len(qs) \in Nat
        /\ \A i \in 1 .. Len(rs) : (rs \o qs)[i] = rs[i]
        /\ \A i \in 1 .. Len(qs) : (rs \o qs)[Len(rs) + i] = qs[i]
    OBVIOUS
  <1>2. /\ f \in Seq(W) /\ Len(f) = Len(rs) /\ \A i \in 1 .. Len(rs) : f[i] = rs[i].to
        /\ g \in Seq(W) /\ Len(g) = Len(qs) /\ \A i \in 1 .. Len(qs) : g[i] = qs[i].to
        /\ h \in Seq(W) /\ Len(h) = Len(rs \o qs)
        /\ \A i \in 1 .. Len(rs \o qs) : h[i] = (rs \o qs)[i].to
    BY <1>1, TargetsType
  <1> HIDE DEF W, f, g, h
  <1>3. /\ f \o g \in Seq(W) /\ Len(f \o g) = Len(f) + Len(g)
        /\ \A i \in 1 .. Len(f) + Len(g) :
              (f \o g)[i] = IF i <= Len(f) THEN f[i] ELSE g[i - Len(f)]
    <2>1. f \in Seq(W) /\ g \in Seq(W)
      BY <1>2
    <2> QED BY <2>1, ConcatProperties
  <1>4. ASSUME NEW i \in 1 .. Len(h) PROVE h[i] = (f \o g)[i]
    <2>0. Len(h) = Len(rs) + Len(qs)
      BY <1>1, <1>2
    <2>1. h[i] = (rs \o qs)[i].to /\ i \in 1 .. Len(rs) + Len(qs)
      BY <1>1, <1>2, <2>0
    <2>2. CASE i <= Len(rs)
      BY <1>1, <1>2, <1>3, <2>1, <2>2
    <2>3. CASE i > Len(rs)
      <3>1. i - Len(rs) \in 1 .. Len(qs) /\ Len(rs) + (i - Len(rs)) = i
        BY <1>1, <2>1, <2>3
      <3>2. (rs \o qs)[i] = qs[i - Len(rs)]
        BY <1>1, <3>1
      <3> QED BY <1>1, <1>2, <1>3, <2>1, <2>3, <3>1, <3>2
    <2>4. i <= Len(rs) \/ i > Len(rs)
      BY <1>1, <2>1
    <2> QED BY <2>2, <2>3, <2>4
  <1>5. h = f \o g
    BY <1>1, <1>2, <1>3, <1>4, SeqEqual
  <1>6. FlattenSeq(f \o g) = FlattenSeq(f) \o FlattenSeq(g)
    BY <1>2, FlattenConcat DEF W
  <1> QED BY <1>5, <1>6 DEF Dest, f, g, h

\* Where one read stores.
LEMMA DestOne ==
    ASSUME NEW r \in ReadType
    PROVE  Dest(<<r>>) = r.to /\ <<r>> \in Seq(ReadType)
  <1>1. <<r>> \in Seq(ReadType) /\ r.to \in Seq(ByteName)
    BY DEF ReadType
  <1>2. Targets(<<r>>) = <<r.to>>
    <2>1. Targets(<<r>>) \in Seq(Seq(ByteName)) /\ Len(Targets(<<r>>)) = 1
          /\ Targets(<<r>>)[1] = r.to
      <3>1. Len(<<r>>) = 1 /\ <<r>>[1] = r /\ 1 \in 1 .. 1
        OBVIOUS
      <3> DEFINE q == <<r>>
      <3> HIDE DEF q
      <3>2. /\ Targets(q) \in Seq(Seq(ByteName)) /\ Len(Targets(q)) = Len(q)
            /\ \A i \in 1 .. Len(q) : Targets(q)[i] = q[i].to
        BY <1>1, TargetsType DEF q
      <3>3. Len(q) = 1 /\ q[1] = r
        BY <3>1 DEF q
      <3>4. Targets(q) \in Seq(Seq(ByteName)) /\ Len(Targets(q)) = 1 /\ Targets(q)[1] = r.to
        BY <3>1, <3>2, <3>3
      <3> QED BY <3>4 DEF q
    <2> QED BY <2>1
  <1> QED BY <1>1, <1>2, FlattenSmall DEF Dest

\* Where the first of several does, and the others.
LEMMA DestTail ==
    ASSUME NEW rs \in Seq(ReadType), rs # <<>>
    PROVE  /\ Head(rs) \in ReadType /\ Tail(rs) \in Seq(ReadType)
           /\ Dest(rs) = Head(rs).to \o Dest(Tail(rs))
  <1>1. Head(rs) \in ReadType /\ Tail(rs) \in Seq(ReadType) /\ rs = <<Head(rs)>> \o Tail(rs)
    OBVIOUS
  <1>2. Dest(<<Head(rs)>> \o Tail(rs)) = Dest(<<Head(rs)>>) \o Dest(Tail(rs))
    BY <1>1, DestOne, DestConcat
  <1>3. Dest(<<Head(rs)>>) = Head(rs).to
    BY <1>1, DestOne
  <1> QED BY <1>1, <1>2, <1>3, Zenon

\* Two sequences of reads that neither fail nor crash.
LEMMA PlainConcat ==
    ASSUME NEW rs \in Seq(ReadType), NEW qs \in Seq(ReadType)
    PROVE  /\ rs \o qs \in Seq(ReadType)
           /\ Plain(rs) /\ Plain(qs) => Plain(rs \o qs)
           /\ Doomed(rs) \/ Doomed(qs) => Doomed(rs \o qs)
  <1>1. /\ rs \o qs \in Seq(ReadType) /\ Len(rs \o qs) = Len(rs) + Len(qs)
        /\ Len(rs) \in Nat /\ Len(qs) \in Nat
        /\ \A i \in 1 .. Len(rs) : (rs \o qs)[i] = rs[i]
        /\ \A i \in 1 .. Len(qs) : (rs \o qs)[Len(rs) + i] = qs[i]
    OBVIOUS
  <1>2. ASSUME Plain(rs), Plain(qs), NEW i \in 1 .. Len(rs \o qs)
        PROVE  PlainRead((rs \o qs)[i])
    <2>1. CASE i <= Len(rs)
      BY <1>1, <1>2, <2>1 DEF Plain
    <2>2. CASE i > Len(rs)
      <3>1. i - Len(rs) \in 1 .. Len(qs) /\ Len(rs) + (i - Len(rs)) = i
        BY <1>1, <2>2
      <3> QED BY <1>1, <1>2, <3>1 DEF Plain
    <2> QED BY <1>1, <2>1, <2>2
  <1>3. ASSUME NEW i \in 1 .. Len(rs), rs[i].verdict # "None" PROVE Doomed(rs \o qs)
    <2>1. i \in 1 .. Len(rs \o qs) /\ (rs \o qs)[i] = rs[i]
      BY <1>1
    <2> QED BY <1>3, <2>1, Zenon DEF Doomed
  <1>4. ASSUME NEW i \in 1 .. Len(qs), qs[i].verdict # "None" PROVE Doomed(rs \o qs)
    <2>1. Len(rs) + i \in 1 .. Len(rs \o qs) /\ (rs \o qs)[Len(rs) + i] = qs[i]
      BY <1>1
    <2> QED BY <1>4, <2>1, Zenon DEF Doomed
  <1> QED BY <1>1, <1>2, <1>3, <1>4 DEF Plain, Doomed

\* The reads of single members store to their bytes; none fails by itself.
LEMMA OwnReads ==
    ASSUME NEW fs \in Seq(Member)
    PROVE  /\ Own(fs) \in Seq(ReadType) /\ Plain(Own(fs))
           /\ Dest(Own(fs)) = Bytes(0, fs)
  <1>1. DOMAIN fs = 1 .. Len(fs) /\ Len(fs) \in Nat
    OBVIOUS
  <1>2. ASSUME NEW i \in 1 .. Len(fs)
        PROVE  /\ fs[i] \in Member /\ fs[i][2] \in Nat
               /\ Bytes(0, <<fs[i]>>) \in Seq(ByteName)
               /\ Bytes(0, <<fs[i]>>) = [k \in 1 .. fs[i][2] |-> <<0, fs[i][1], k>>]
               /\ Len(Bytes(0, <<fs[i]>>)) = fs[i][2]
    <2>1. fs[i] \in Member /\ <<fs[i]>> \in Seq(Member)
      OBVIOUS
    <2>2. fs[i][2] \in Nat
      BY <2>1 DEF Member
    <2> QED BY <2>1, <2>2, BytesOne, BytesType
  <1> DEFINE R(i) == [to |-> Bytes(0, <<fs[i]>>), take |-> fs[i][2],
                      verdict |-> "None", skip |-> FALSE]
  <1>3. ASSUME NEW i \in 1 .. Len(fs) PROVE R(i) \in ReadType /\ PlainRead(R(i))
    <2> DEFINE x == Bytes(0, <<fs[i]>>)
               w == fs[i][2]
               W == Seq(ByteName)
    <2>1. x \in W /\ w \in Nat /\ Len(x) = w
      BY <1>2
    <2> HIDE DEF x, w, W
    <2>2. /\ [to |-> x, take |-> w, verdict |-> "None", skip |-> FALSE]
                \in [to : W, take : Nat, verdict : Verdicts, skip : BOOLEAN]
          /\ Len(x) <= w
      BY <2>1 DEF Verdicts
    <2>3. PlainRead([to |-> x, take |-> w, verdict |-> "None", skip |-> FALSE])
      BY <2>1 DEF PlainRead
    <2> QED BY <2>2, <2>3 DEF ReadType, x, w, W
  <1>4. Own(fs) = [i \in 1 .. Len(fs) |-> R(i)]
    BY <1>1 DEF Own
  <1>5. /\ Own(fs) \in Seq(ReadType) /\ Len(Own(fs)) = Len(fs)
        /\ \A i \in 1 .. Len(fs) : Own(fs)[i] = R(i)
    <2> HIDE DEF R
    <2> QED BY <1>1, <1>3, <1>4
  <1>6. Plain(Own(fs))
    <2> HIDE DEF R
    <2> QED BY <1>3, <1>5 DEF Plain
  <1>7. Targets(Own(fs)) = Runs(0, fs)
    <2>1. /\ Targets(Own(fs)) \in Seq(Seq(ByteName)) /\ Len(Targets(Own(fs))) = Len(fs)
          /\ \A i \in 1 .. Len(fs) : Targets(Own(fs))[i] = Own(fs)[i].to
      BY <1>5, TargetsType
    <2>2. Runs(0, fs) \in Seq(Seq(ByteName)) /\ Len(Runs(0, fs)) = Len(fs)
      BY RunsType
    <2>3. ASSUME NEW i \in 1 .. Len(fs) PROVE Targets(Own(fs))[i] = Runs(0, fs)[i]
      <3>1. Own(fs)[i].to = Bytes(0, <<fs[i]>>)
        <4>1. Own(fs)[i] = R(i)
          BY <1>5
        <4>2. R(i).to = Bytes(0, <<fs[i]>>)
          OBVIOUS
        <4> HIDE DEF R
        <4> QED BY <4>1, <4>2
      <3>2. Runs(0, fs)[i] = [k \in 1 .. fs[i][2] |-> <<0, fs[i][1], k>>]
        BY <1>1, Zenon DEF Runs
      <3> QED BY <1>2, <2>1, <3>1, <3>2
    <2> DEFINE W == Seq(ByteName)
               f == Targets(Own(fs))
               g == Runs(0, fs)
    <2> HIDE DEF W, f, g
    <2>4. f \in Seq(W) /\ g \in Seq(W) /\ Len(f) = Len(g)
          /\ \A i \in 1 .. Len(f) : f[i] = g[i]
      BY <2>1, <2>2, <2>3 DEF W, f, g
    <2>5. f = g
      BY <2>4, SeqEqual
    <2> QED BY <2>5 DEF f, g
  <1> QED BY <1>5, <1>6, <1>7, RunsType DEF Dest

\* The test of the size has one of three outcomes.
LEMMA VerdictType ==
    ASSUME NEW k \in Kinds, NEW m \in Nat
    PROVE  SizeVerdict(k, m) \in Verdicts
  BY Structs DEF SizeVerdict, Verdicts, Kinds

\* A struct inside is read plainly if the slice has just its size, and
\* cannot be read if the slice is refused or too short.
LEMMA InsideReads ==
    ASSUME NEW p \in Nat, NEW k \in DOMAIN Fields, NEW w \in Nat, NEW skip \in BOOLEAN
    PROVE  /\ Inside(p, k, w, skip) \in Seq(ReadType)
           /\ Dest(Inside(p, k, w, skip)) = Bytes(p, Fields[k])
           /\ SizeVerdict(k, w) = "None" /\ Len(Bytes(p, Fields[k])) = w /\ ~ skip
                => Plain(Inside(p, k, w, skip))
           /\ SizeVerdict(k, w) # "None" \/ Len(Bytes(p, Fields[k])) > w
                => Doomed(Inside(p, k, w, skip))
  <1> DEFINE to == Bytes(p, Fields[k])
             v  == IF SizeVerdict(k, w) # "None" THEN SizeVerdict(k, w)
                   ELSE IF Len(to) > w THEN "ErrParseError" ELSE "None"
             r  == [to |-> to, take |-> w, skip |-> skip, verdict |-> v]
             W  == Seq(ByteName)
  <1>1. to \in W /\ Len(to) \in Nat
    <2>1. Fields[k] \in Seq(Member)
      BY Structs
    <2>2. to \in W
      BY <2>1, BytesType
    <2> HIDE DEF to
    <2> QED BY <2>2
  <1>2. SizeVerdict(k, w) \in Verdicts
    BY VerdictType DEF Kinds
  <1>3. v \in Verdicts /\ (v = "None" <=> SizeVerdict(k, w) = "None" /\ Len(to) <= w)
    <2> HIDE DEF to
    <2> QED BY <1>1, <1>2 DEF Verdicts
  <1>4. Inside(p, k, w, skip) = <<r>>
    BY DEF Inside
  <1> HIDE DEF to, v, W
  <1>5. /\ r \in [to : W, take : Nat, verdict : Verdicts, skip : BOOLEAN]
        /\ r.to = to /\ r.take = w /\ r.verdict = v /\ r.skip = skip
    BY <1>1, <1>3
  <1> HIDE DEF r
  <1>6. r \in ReadType
    BY <1>1, <1>3, <1>5 DEF ReadType, W
  <1>7. <<r>> \in Seq(ReadType) /\ Dest(<<r>>) = to
    BY <1>5, <1>6, DestOne
  <1>8. Len(<<r>>) = 1 /\ <<r>>[1] = r /\ 1 \in 1 .. 1
    OBVIOUS
  <1>9. SizeVerdict(k, w) = "None" /\ Len(to) = w /\ ~ skip => PlainRead(r)
    BY <1>1, <1>3, <1>5 DEF PlainRead
  <1>10. PlainRead(r) => Plain(<<r>>)
    BY <1>8 DEF Plain
  <1>11. SizeVerdict(k, w) # "None" \/ Len(to) > w => r.verdict # "None"
    BY <1>1, <1>3, <1>5
  <1>12. r.verdict # "None" => Doomed(<<r>>)
    BY <1>8 DEF Doomed
  <1> QED BY <1>4, <1>7, <1>9, <1>10, <1>11, <1>12, Zenon DEF to

-----------------------------------------------------------------------------
(***************************************************************************)
(* What deserialize stores, against what serialize writes.                 *)
(***************************************************************************)

\* The targets are the bytes written, as far as those go; beyond them there
\* is only the body of a packet.
Agree(d, l) ==
    \A t \in 1 .. Len(d) : IF t <= Len(l) THEN d[t] = l[t] ELSE d[t][2] = "body"

\* No more bytes are asked for than were written, or than arrived.
NoMore(k, n, m) ==
    /\ k \notin Lossy \union {"Packet"} => Len(Dest(Reads(k, n, m))) <= Len(Layout(k, n))
    /\ k = "Packet" => Len(Dest(Reads(k, n, m))) = m

Faithful(k, n, m) ==
    /\ Reads(k, n, m) \in Seq(ReadType)
    /\ \/ k \in Lossy /\ Doomed(Reads(k, n, m))
       \/ /\ Plain(Reads(k, n, m))
          /\ ToSet(Dest(Reads(k, n, m))) = Members(k, n, m)
          /\ Agree(Dest(Reads(k, n, m)), Layout(k, n))
          /\ NoMore(k, n, m)

\* Stated apart, for SMT does no arithmetic beside strings.
LEMMA LenReflexive == \A s \in Seq(ByteName) : Len(s) <= Len(s)
  OBVIOUS

\* A layout agrees with itself and with what it begins.
LEMMA AgreeSelf == \A l \in Seq(ByteName) : Agree(l, l)
  BY DEF Agree

LEMMA AgreePrefix ==
    ASSUME NEW l \in Seq(ByteName), NEW r \in Seq(ByteName)
    PROVE  Agree(l, l \o r)
  BY ConcatProperties DEF Agree

Lacks(fs, nm) == \A i \in 1 .. Len(fs) : fs[i][1] # nm

\* A member that a struct lacks names none of its bytes.
LEMMA LacksBytes ==
    ASSUME NEW p \in Nat, NEW fs \in Seq(Member), NEW nm, Lacks(fs, nm)
    PROVE  \A b \in ToSet(Bytes(p, fs)) : b[2] # nm
  <1> SUFFICES ASSUME NEW b \in ToSet(Bytes(p, fs)) PROVE b[2] # nm
    OBVIOUS
  <1>1. PICK i \in 1 .. Len(fs) : \E k \in 1 .. fs[i][2] : b = <<p, fs[i][1], k>>
    BY BytesElements
  <1>2. b[2] = fs[i][1]
    BY <1>1
  <1> QED BY <1>2 DEF Lacks

\* The concatenation of two lists that lack a name lacks it.
LEMMA LacksConcat ==
    ASSUME NEW fs \in Seq(Member), NEW gs \in Seq(Member), NEW nm, Lacks(fs, nm),
           Lacks(gs, nm)
    PROVE  Lacks(fs \o gs, nm)
  <1>1. ASSUME NEW i \in 1 .. Len(fs \o gs) PROVE (fs \o gs)[i][1] # nm
    <2>1. /\ Len(fs \o gs) = Len(fs) + Len(gs) /\ Len(fs) \in Nat /\ Len(gs) \in Nat
          /\ (fs \o gs)[i] = IF i <= Len(fs) THEN fs[i] ELSE gs[i - Len(fs)]
      OBVIOUS
    <2>2. CASE i <= Len(fs)
      <3>1. i \in 1 .. Len(fs) /\ (fs \o gs)[i] = fs[i]
        BY <2>1, <2>2
      <3> QED BY <3>1 DEF Lacks
    <2>3. CASE i > Len(fs)
      <3>1. i - Len(fs) \in 1 .. Len(gs) /\ (fs \o gs)[i] = gs[i - Len(fs)]
        BY <2>1, <2>3
      <3> QED BY <3>1 DEF Lacks
    <2>4. i <= Len(fs) \/ i > Len(fs)
      BY <2>1
    <2> QED BY <2>2, <2>3, <2>4
  <1> QED BY <1>1 DEF Lacks

\* So does a list of one other member.
LEMMA LacksOne ==
    ASSUME NEW f \in Member, NEW nm, f[1] # nm
    PROVE  Lacks(<<f>>, nm)
  <1>1. ASSUME NEW i \in 1 .. Len(<<f>>) PROVE <<f>>[i][1] # nm
    <2>1. <<f>>[i] = f
      OBVIOUS
    <2> DEFINE g == <<f>>[i]
    <2> HIDE DEF g
    <2>2. g = f
      BY <2>1 DEF g
    <2>3. g[1] # nm
      BY <2>2, Zenon
    <2> QED BY <2>3 DEF g
  <1> QED BY <1>1, Zenon DEF Lacks

\* The few indices of a list of members.
LEMMA UpTo ==
    /\ \A i \in 1 .. 1 : i = 1
    /\ \A i \in 1 .. 2 : i = 1 \/ i = 2
    /\ \A i \in 1 .. 3 : i = 1 \/ i = 2 \/ i = 3
    /\ \A i \in 1 .. 4 : i = 1 \/ i = 2 \/ i = 3 \/ i = 4
    /\ \A i \in 1 .. 5 : i = 1 \/ i = 2 \/ i = 3 \/ i = 4 \/ i = 5
    /\ \A i \in 1 .. 6 : i = 1 \/ i = 2 \/ i = 3 \/ i = 4 \/ i = 5 \/ i = 6
  OBVIOUS

\* No struct has padding, a body or a member named zero.
LEMMA StructsLack ==
    ASSUME NEW k \in DOMAIN Fields, NEW nm, nm = "_" \/ nm = "zero" \/ nm = "body"
    PROVE  Lacks(Fields[k], nm)
  <1>1. Lacks(Fields.PacketHeader, nm)
    <2> DEFINE fs == Fields.PacketHeader
    <2>1. 1 .. Len(fs) = 1 .. 5
      BY DEF Fields
    <2>2. fs[1][1] # nm /\ fs[2][1] # nm /\ fs[3][1] # nm /\ fs[4][1] # nm /\ fs[5][1] # nm
      BY DEF Fields
    <2> HIDE DEF fs
    <2>3. ASSUME NEW i \in 1 .. 5 PROVE fs[i][1] # nm
      <3>1. i = 1 \/ i = 2 \/ i = 3 \/ i = 4 \/ i = 5
        BY UpTo, Zenon
      <3> QED BY <2>2, <3>1, Zenon
    <2>4. Lacks(fs, nm)
      BY <2>1, <2>3, Zenon DEF Lacks
    <2> QED BY <2>4 DEF fs
  <1>2. Lacks(Fields.ProtocolVersionResponse, nm)
    <2> DEFINE fs == Fields.ProtocolVersionResponse
    <2>1. 1 .. Len(fs) = 1 .. 1
      BY DEF Fields
    <2>2. fs[1][1] # nm
      BY DEF Fields
    <2> HIDE DEF fs
    <2>3. ASSUME NEW i \in 1 .. 1 PROVE fs[i][1] # nm
      <3>1. i = 1
        BY UpTo, Zenon
      <3> QED BY <2>2, <3>1, Zenon
    <2>4. Lacks(fs, nm)
      BY <2>1, <2>3, Zenon DEF Lacks
    <2> QED BY <2>4 DEF fs
  <1>3. Lacks(Fields.ControllerInfoShared, nm)
    <2> DEFINE fs == Fields.ControllerInfoShared
    <2>1. 1 .. Len(fs) = 1 .. 6
      BY DEF Fields
    <2>2. fs[1][1] # nm /\ fs[2][1] # nm /\ fs[3][1] # nm /\ fs[4][1] # nm
          /\ fs[5][1] # nm /\ fs[6][1] # nm
      BY DEF Fields
    <2> HIDE DEF fs
    <2>3. ASSUME NEW i \in 1 .. 6 PROVE fs[i][1] # nm
      <3>1. i = 1 \/ i = 2 \/ i = 3 \/ i = 4 \/ i = 5 \/ i = 6
        BY UpTo, Zenon
      <3> QED BY <2>2, <3>1, Zenon
    <2>4. Lacks(fs, nm)
      BY <2>1, <2>3, Zenon DEF Lacks
    <2> QED BY <2>4 DEF fs
  <1>4. Lacks(Fields.ControllerIdentifier, nm)
    <2> DEFINE fs == Fields.ControllerIdentifier
    <2>1. 1 .. Len(fs) = 1 .. 3
      BY DEF Fields
    <2>2. fs[1][1] # nm /\ fs[2][1] # nm /\ fs[3][1] # nm
      BY DEF Fields
    <2> HIDE DEF fs
    <2>3. ASSUME NEW i \in 1 .. 3 PROVE fs[i][1] # nm
      <3>1. i = 1 \/ i = 2 \/ i = 3
        BY UpTo, Zenon
      <3> QED BY <2>2, <3>1, Zenon
    <2>4. Lacks(fs, nm)
      BY <2>1, <2>3, Zenon DEF Lacks
    <2> QED BY <2>4 DEF fs
  <1>5. Lacks(Fields.GamePadButtons, nm)
    <2> DEFINE fs == Fields.GamePadButtons
    <2>1. 1 .. Len(fs) = 1 .. 2
      BY DEF Fields
    <2>2. fs[1][1] # nm /\ fs[2][1] # nm
      BY DEF Fields
    <2> HIDE DEF fs
    <2>3. ASSUME NEW i \in 1 .. 2 PROVE fs[i][1] # nm
      <3>1. i = 1 \/ i = 2
        BY UpTo, Zenon
      <3> QED BY <2>2, <3>1, Zenon
    <2>4. Lacks(fs, nm)
      BY <2>1, <2>3, Zenon DEF Lacks
    <2> QED BY <2>4 DEF fs
  <1>6. Lacks(Fields.Touch, nm)
    <2> DEFINE fs == Fields.Touch
    <2>1. 1 .. Len(fs) = 1 .. 4
      BY DEF Fields
    <2>2. fs[1][1] # nm /\ fs[2][1] # nm /\ fs[3][1] # nm /\ fs[4][1] # nm
      BY DEF Fields
    <2> HIDE DEF fs
    <2>3. ASSUME NEW i \in 1 .. 4 PROVE fs[i][1] # nm
      <3>1. i = 1 \/ i = 2 \/ i = 3 \/ i = 4
        BY UpTo, Zenon
      <3> QED BY <2>2, <3>1, Zenon
    <2>4. Lacks(fs, nm)
      BY <2>1, <2>3, Zenon DEF Lacks
    <2> QED BY <2>4 DEF fs
  <1>7. Lacks(Fields.Vectors3f, nm)
    <2> DEFINE fs == Fields.Vectors3f
    <2>1. 1 .. Len(fs) = 1 .. 3
      BY DEF Fields
    <2>2. fs[1][1] # nm /\ fs[2][1] # nm /\ fs[3][1] # nm
      BY DEF Fields
    <2> HIDE DEF fs
    <2>3. ASSUME NEW i \in 1 .. 3 PROVE fs[i][1] # nm
      <3>1. i = 1 \/ i = 2 \/ i = 3
        BY UpTo, Zenon
      <3> QED BY <2>2, <3>1, Zenon
    <2>4. Lacks(fs, nm)
      BY <2>1, <2>3, Zenon DEF Lacks
    <2> QED BY <2>4 DEF fs
  <1> QED BY <1>1, <1>2, <1>3, <1>4, <1>5, <1>6, <1>7, Structs

\* The structs are read as they are written.
LEMMA StructFaithful ==
    ASSUME NEW k \in DOMAIN Fields, NEW n \in Nat, NEW m \in Nat
    PROVE  Faithful(k, n, m)
  <1>1. Fields[k] \in Seq(Member) /\ Lacks(Fields[k], "_")
    BY Structs, StructsLack
  <1>2. Reads(k, n, m) = Own(Fields[k]) /\ \A c \in Nat : Layout(k, c) = Bytes(0, Fields[k])
    BY Structs DEF Reads, Layout
  <1>3. k # "Packet" /\ k # "ControllersInfoResponse"
    BY Structs
  <1>4. Members(k, n, m) = ToSet(Bytes(0, Fields[k]))
    BY <1>1, <1>2, <1>3, LacksBytes DEF Members
  <1>5. Bytes(0, Fields[k]) \in Seq(ByteName)
    BY <1>1, BytesType
  <1>6. Own(Fields[k]) \in Seq(ReadType) /\ Plain(Own(Fields[k]))
        /\ Dest(Own(Fields[k])) = Bytes(0, Fields[k])
    BY <1>1, OwnReads
  <1>7. Len(Bytes(0, Fields[k])) <= Len(Bytes(0, Fields[k]))
    BY <1>5, LenReflexive, Zenon
  <1>8. NoMore(k, n, m)
    BY <1>2, <1>3, <1>6, <1>7, Zenon DEF NoMore
  <1> QED BY <1>1, <1>2, <1>4, <1>5, <1>6, <1>8, AgreeSelf, Zenon DEF Faithful
\* The packet: what stands before the body, and the body.
HeadFields == Fields.PacketHeader \o <<<<"type", 4>>>>
Body(n)    == <<<<"body", n>>>>

\* A packet is its header and type, then its body.
LEMMA PacketParts ==
    ASSUME NEW n \in Nat
    PROVE  /\ HeadFields \in Seq(Member) /\ Body(n) \in Seq(Member)
           /\ Fields.PacketHeader \o <<<<"type", 4>>, <<"body", n>>>>
                = HeadFields \o Body(n)
           /\ PacketLayout(n) = Bytes(0, HeadFields) \o Bytes(0, Body(n))
  <1> DEFINE H == Fields.PacketHeader
             t == <<"type", 4>>
             b == <<"body", n>>
  <1>1. H \in Seq(Member) /\ t \in Member /\ b \in Member
    BY Structs
  <1> HIDE DEF H, t, b
  <1>2. <<t>> \in Seq(Member) /\ <<b>> \in Seq(Member) /\ H \o <<t>> \in Seq(Member)
    BY <1>1
  <1>3. <<t, b>> = <<t>> \o <<b>>
    BY Pair, Zenon
  <1>4. (H \o <<t>>) \o <<b>> = H \o (<<t>> \o <<b>>)
    BY <1>1, <1>2, ConcatAssociative
  <1>5. H \o <<t, b>> = (H \o <<t>>) \o <<b>>
    BY <1>3, <1>4, Zenon
  <1>6. Bytes(0, H \o <<t, b>>) = Bytes(0, H \o <<t>>) \o Bytes(0, <<b>>)
    <2>1. Bytes(0, (H \o <<t>>) \o <<b>>) = Bytes(0, H \o <<t>>) \o Bytes(0, <<b>>)
      BY <1>2, BytesConcat
    <2> QED BY <1>5, <2>1, Zenon
  <1> QED BY <1>2, <1>5, <1>6, Zenon DEF HeadFields, Body, PacketLayout, H, t, b

\* The first 20 bytes do not depend on the body.
LEMMA PacketBytes ==
    ASSUME NEW n \in Nat
    PROVE  /\ PacketLayout(n) \in Seq(ByteName) /\ Len(PacketLayout(n)) = 20 + n
           /\ \A i \in 1 .. 20 : PacketLayout(n)[i] = Bytes(0, HeadFields)[i]
           /\ \A i \in 1 .. n : PacketLayout(n)[20 + i] = <<0, "body", i>>
  <1> DEFINE A == Bytes(0, HeadFields)
             B == Bytes(0, Body(n))
             t == <<"type", 4>>
             b == <<"body", n>>
  <1>1. A \in Seq(ByteName) /\ B \in Seq(ByteName)
    BY PacketParts, BytesType
  <1>2. Len(A) = 20
    <2>1. Fields.PacketHeader \in Seq(Member) /\ t \in Member /\ <<t>> \in Seq(Member)
          /\ t[2] = 4
      BY Structs, Tuples
    <2>2. Len(Bytes(0, Fields.PacketHeader)) = 16
      BY Sizes
    <2> HIDE DEF t
    <2>3. Len(Bytes(0, <<t>>)) = 4
      BY <2>1, BytesOne
    <2>4. Len(Bytes(0, Fields.PacketHeader \o <<t>>))
            = Len(Bytes(0, Fields.PacketHeader)) + Len(Bytes(0, <<t>>))
      BY <2>1, SizesAdd
    <2>5. Len(Bytes(0, Fields.PacketHeader \o <<t>>)) = 20
      <3> DEFINE x == Len(Bytes(0, Fields.PacketHeader \o <<t>>))
                 y == Len(Bytes(0, Fields.PacketHeader))
                 z == Len(Bytes(0, <<t>>))
      <3>1. x = y + z /\ y = 16 /\ z = 4
        BY <2>2, <2>3, <2>4, Zenon
      <3> HIDE DEF x, y, z
      <3>2. x = 20
        BY <3>1
      <3> QED BY <3>2 DEF x
    <2> QED BY <2>5, Zenon DEF HeadFields, t
  <1>3. Len(B) = n /\ \A i \in 1 .. n : B[i] = <<0, "body", i>>
    <2>1. b \in Member /\ b[1] = "body" /\ b[2] = n
      BY Structs
    <2> HIDE DEF b
    <2>2. Bytes(0, <<b>>) = [i \in 1 .. n |-> <<0, b[1], i>>] /\ Len(Bytes(0, <<b>>)) = n
      BY <2>1, BytesOne
    <2>3. \A i \in 1 .. n : Bytes(0, <<b>>)[i] = <<0, "body", i>>
      BY <2>1, <2>2, Zenon
    <2> QED BY <2>2, <2>3, Zenon DEF Body, b
  <1>4. PacketLayout(n) = A \o B
    BY PacketParts
  <1> HIDE DEF A, B
  <1>5. /\ A \o B \in Seq(ByteName) /\ Len(A \o B) = 20 + n
        /\ \A i \in 1 .. 20 : (A \o B)[i] = A[i]
        /\ \A i \in 1 .. n : (A \o B)[20 + i] = B[i]
    <2>1. /\ A \o B \in Seq(ByteName) /\ Len(A \o B) = Len(A) + Len(B)
          /\ Len(A) \in Nat /\ Len(B) \in Nat
          /\ \A k \in 1 .. Len(A) : (A \o B)[k] = A[k]
          /\ \A k \in 1 .. Len(B) : (A \o B)[Len(A) + k] = B[k]
      BY <1>1, ConcatAt, Zenon
    <2> QED BY <1>2, <1>3, <2>1, Zenon
  <1>6. \A i \in 1 .. n : (A \o B)[20 + i] = <<0, "body", i>>
    BY <1>3, <1>5, Zenon
  <1> QED BY <1>4, <1>5, <1>6, Zenon DEF A

\* The bytes of the CRC are the only ones of that name, at their place.
LEMMA PacketCrc ==
    ASSUME NEW n \in Nat, NEW i \in 1 .. 20 + n
    PROVE  /\ i \in CrcField => PacketLayout(n)[i] = <<0, "crc32", i - 8>>
           /\ i \notin CrcField => PacketLayout(n)[i][2] # "crc32"
           /\ PacketLayout(n)[i][2] # "zero"
  <1> DEFINE m1 == <<"magic", 4>>
             m2 == <<"protocol", 2>>
             m3 == <<"length", 2>>
             m4 == <<"crc32", 4>>
             m5 == <<"clientServerID", 4>>
             m6 == <<"type", 4>>
             m7 == <<"body", n>>
             a  == <<m1, m2, m3>>
             c  == <<m4>>
             d  == <<m5>>
             e  == <<m6, m7>>
             A  == Bytes(0, a)
             C  == Bytes(0, c)
             D  == Bytes(0, d)
             E  == Bytes(0, e)
  <1>1. m1 \in Member /\ m2 \in Member /\ m3 \in Member /\ m4 \in Member /\ m5 \in Member
        /\ m6 \in Member /\ m7 \in Member
    <2>1. {"magic", "protocol", "length", "crc32", "clientServerID", "type", "body"}
             \subseteq Names
      BY DEF Names
    <2> QED BY <2>1 DEF Member
  <1>2. m1[2] = 4 /\ m2[2] = 2 /\ m3[2] = 2 /\ m4[2] = 4 /\ m5[2] = 4 /\ m4[1] = "crc32"
    OBVIOUS
  <1>3. /\ \A nm \in {"crc32", "zero"} :
             m1[1] # nm /\ m2[1] # nm /\ m3[1] # nm /\ m5[1] # nm /\ m6[1] # nm
             /\ m7[1] # nm
        /\ m4[1] # "zero"
    OBVIOUS
  <1>4. Fields.PacketHeader \o e = (a \o <<m4, m5>>) \o e
    BY DEF Fields
  <1> HIDE DEF m1, m2, m3, m4, m5, m6, m7
  <1>5. a \in Seq(Member) /\ c \in Seq(Member) /\ d \in Seq(Member) /\ e \in Seq(Member)
    BY <1>1, Tuples
  <1>6. <<m4, m5>> = c \o d /\ <<m1, m2, m3>> = (<<m1>> \o <<m2>>) \o <<m3>>
        /\ e = <<m6>> \o <<m7>>
    <2>1. <<m1, m2, m3>> = <<m1, m2>> \o <<m3>>
      OBVIOUS
    <2> QED BY <2>1, Pair, Zenon
  <1>7. ASSUME NEW nm \in {"crc32", "zero"}
        PROVE  Lacks(a, nm) /\ Lacks(d, nm) /\ Lacks(e, nm)
    <2>1. /\ \A m \in {m1, m2, m3, m5, m6, m7} : Lacks(<<m>>, nm)
          /\ \A m \in {m1, m2, m3, m5, m6, m7} : <<m>> \in Seq(Member)
          /\ <<m1>> \o <<m2>> \in Seq(Member)
      BY <1>1, <1>3, LacksOne, Tuples
    <2>2. Lacks(<<m1>> \o <<m2>>, nm) /\ Lacks(<<m6>> \o <<m7>>, nm)
      BY <2>1, LacksConcat
    <2>3. Lacks((<<m1>> \o <<m2>>) \o <<m3>>, nm)
      BY <2>1, <2>2, LacksConcat
    <2> QED BY <1>6, <2>1, <2>2, <2>3, Zenon
  <1>8. Len(A) = 8 /\ Len(C) = 4 /\ Len(D) = 4
    <2>1. /\ Len(A) = (m1[2] + m2[2]) + m3[2]
          /\ Len(C) = m4[2] /\ Len(D) = m5[2]
      <3>1. Len(A) = (m1[2] + m2[2]) + m3[2]
        BY <1>1, SizeOfThree
      <3>2. Len(C) = m4[2] /\ Len(D) = m5[2]
        BY <1>1, BytesOne
      <3> QED BY <3>1, <3>2
    <2> HIDE DEF A, C, D
    <2> QED BY <1>2, <2>1
  <1>9. \A k \in 1 .. 4 : C[k] = <<0, "crc32", k>>
    <2>1. C = [k \in 1 .. m4[2] |-> <<0, m4[1], k>>]
      BY <1>1, BytesOne
    <2> HIDE DEF C
    <2> QED BY <1>2, <2>1, Zenon
  <1>10. A \in Seq(ByteName) /\ C \in Seq(ByteName) /\ D \in Seq(ByteName)
         /\ E \in Seq(ByteName)
    BY <1>5, BytesType
  <1>11. PacketLayout(n) = (A \o (C \o D)) \o E
    <2>1. PacketLayout(n) = Bytes(0, (a \o <<m4, m5>>) \o e)
      BY <1>4 DEF PacketLayout, m6, m7
    <2> HIDE DEF a, c, d, e
    <2>2. c \o d \in Seq(Member) /\ a \o (c \o d) \in Seq(Member)
      BY <1>5
    <2>3. /\ Bytes(0, (a \o (c \o d)) \o e) = Bytes(0, a \o (c \o d)) \o Bytes(0, e)
          /\ Bytes(0, a \o (c \o d)) = Bytes(0, a) \o Bytes(0, c \o d)
          /\ Bytes(0, c \o d) = Bytes(0, c) \o Bytes(0, d)
      BY <1>5, <2>2, BytesConcat
    <2> QED BY <1>6, <2>1, <2>3, Zenon
  <1>12. Len(PacketLayout(n)) = 20 + n
    BY PacketBytes
  <1>13. \A nm \in {"crc32", "zero"} :
           /\ \A x \in ToSet(A) : x[2] # nm
           /\ \A x \in ToSet(D) : x[2] # nm
           /\ \A x \in ToSet(E) : x[2] # nm
    BY <1>5, <1>7, LacksBytes
  <1> HIDE DEF a, c, d, e, A, C, D, E
  <1>14. /\ C \o D \in Seq(ByteName) /\ Len(C \o D) = 8
         /\ \A k \in 1 .. 4 : (C \o D)[k] = C[k] /\ (C \o D)[4 + k] = D[k]
    <2>1. /\ C \o D \in Seq(ByteName) /\ Len(C \o D) = Len(C) + Len(D)
          /\ Len(C) \in Nat /\ Len(D) \in Nat
          /\ \A k \in 1 .. Len(C) : (C \o D)[k] = C[k]
          /\ \A k \in 1 .. Len(D) : (C \o D)[Len(C) + k] = D[k]
      BY <1>10, ConcatAt, Zenon
    <2> QED BY <1>8, <2>1
  <1> DEFINE P == C \o D
             Q == A \o P
  <1> HIDE DEF P
  <1>15. /\ Q \in Seq(ByteName) /\ Len(Q) = 16
         /\ \A k \in 1 .. 8 : Q[k] = A[k] /\ Q[8 + k] = P[k]
    <2>1. P \in Seq(ByteName) /\ Len(P) = 8
      BY <1>14 DEF P
    <2>2. /\ A \o P \in Seq(ByteName) /\ Len(A \o P) = Len(A) + Len(P)
          /\ Len(A) \in Nat /\ Len(P) \in Nat
          /\ \A k \in 1 .. Len(A) : (A \o P)[k] = A[k]
          /\ \A k \in 1 .. Len(P) : (A \o P)[Len(A) + k] = P[k]
      BY <1>10, <2>1, ConcatAt, Zenon
    <2> QED BY <1>8, <2>1, <2>2
  <1> HIDE DEF Q
  <1>16. /\ Len(Q \o E) = 16 + Len(E) /\ Len(E) \in Nat
         /\ \A k \in 1 .. 16 : (Q \o E)[k] = Q[k]
         /\ \A k \in 1 .. Len(E) : (Q \o E)[16 + k] = E[k]
    <2>1. Q \in Seq(ByteName) /\ E \in Seq(ByteName)
      BY <1>10, <1>15
    <2>2. /\ Q \o E \in Seq(ByteName) /\ Len(Q \o E) = Len(Q) + Len(E)
          /\ Len(Q) \in Nat /\ Len(E) \in Nat
          /\ \A k \in 1 .. Len(Q) : (Q \o E)[k] = Q[k]
          /\ \A k \in 1 .. Len(E) : (Q \o E)[Len(Q) + k] = E[k]
      BY <2>1, ConcatAt, Zenon
    <2> QED BY <1>15, <2>2
  <1>17. Len(E) = 4 + n /\ PacketLayout(n) = Q \o E
    <2>1. PacketLayout(n) = Q \o E
      BY <1>11 DEF P, Q
    <2>2. Len(Q \o E) = 20 + n /\ Len(Q \o E) = 16 + Len(E) /\ Len(E) \in Nat
      BY <1>12, <1>16, <2>1, Zenon
    <2>3. Len(E) = 4 + n
      BY <2>2
    <2> QED BY <2>1, <2>3
  <1> DEFINE x == PacketLayout(n)[i]
  <1>18. CASE i \in 1 .. 8
    <2>1. x = A[i]
      <3>1. i \in 1 .. 16
        BY <1>18
      <3> QED BY <1>15, <1>16, <1>17, <1>18, <3>1, Zenon
    <2>2. i \in DOMAIN A /\ i \notin CrcField
      BY <1>8, <1>10, <1>18 DEF CrcField
    <2>3. x \in ToSet(A)
      BY <2>1, <2>2, Zenon DEF ToSet
    <2> QED BY <1>13, <2>2, <2>3
  <1>19. CASE i \in 9 .. 12
    <2> DEFINE k == i - 8
    <2>1. k \in 1 .. 4 /\ k \in 1 .. 8 /\ 8 + k \in 1 .. 16 /\ i = 8 + k /\ i \in CrcField
      BY <1>19 DEF CrcField
    <2> HIDE DEF k
    <2>2. x = C[k]
      <3>1. x = Q[8 + k]
        BY <1>16, <1>17, <2>1, Zenon
      <3>2. Q[8 + k] = P[k]
        BY <1>15, <2>1, Zenon
      <3>3. P[k] = C[k]
        BY <1>14, <2>1, Zenon DEF P
      <3> QED BY <3>1, <3>2, <3>3, Zenon
    <2>3. x = <<0, "crc32", k>>
      BY <1>9, <2>1, <2>2, Zenon
    <2> HIDE DEF x
    <2>4. x[2] # "zero"
      BY <2>3
    <2> QED BY <2>1, <2>3, <2>4 DEF x, k
  <1>20. CASE i \in 13 .. 16
    <2> DEFINE k == i - 12
    <2>1. /\ k \in 1 .. 4 /\ 4 + k \in 1 .. 8 /\ 8 + (4 + k) \in 1 .. 16
          /\ i = 8 + (4 + k) /\ i \notin CrcField
      BY <1>20 DEF CrcField
    <2> HIDE DEF k
    <2>2. x = D[k]
      <3>1. x = Q[8 + (4 + k)]
        BY <1>16, <1>17, <2>1, Zenon
      <3>2. Q[8 + (4 + k)] = P[4 + k]
        BY <1>15, <2>1, Zenon
      <3>3. P[4 + k] = D[k]
        BY <1>14, <2>1, Zenon DEF P
      <3> QED BY <3>1, <3>2, <3>3, Zenon
    <2>3. k \in DOMAIN D
      BY <1>8, <1>10, <2>1
    <2>4. x \in ToSet(D)
      BY <2>2, <2>3, Zenon DEF ToSet
    <2> QED BY <1>13, <2>1, <2>4
  <1>21. CASE i \in 17 .. 20 + n
    <2> DEFINE k == i - 16
    <2>1. k \in 1 .. Len(E) /\ i = 16 + k /\ i \notin CrcField
      BY <1>17, <1>21 DEF CrcField
    <2> HIDE DEF k
    <2>2. x = E[k]
      BY <1>16, <1>17, <2>1, Zenon
    <2>3. k \in DOMAIN E
      BY <1>10, <2>1
    <2>4. x \in ToSet(E)
      BY <2>2, <2>3, Zenon DEF ToSet
    <2> QED BY <1>13, <2>1, <2>4
  <1> QED BY <1>18, <1>19, <1>20, <1>21

\* A packet is read as it was written; its body takes in all that arrived.
LEMMA PacketFaithful ==
    ASSUME NEW n \in Nat, NEW m \in Nat, m >= 20
    PROVE  Faithful("Packet", n, m)
  <1> DEFINE c  == m - 20
             fs == HeadFields \o Body(c)
             d  == PacketLayout(c)
             l  == PacketLayout(n)
             R  == Reads("Packet", n, m)
  <1>1. c \in Nat
    OBVIOUS
  <1>2. R = Own(Fields.PacketHeader \o <<<<"type", 4>>, <<"body", c>>>>)
    <2>1. "Packet" \notin DOMAIN Fields
      BY Structs
    <2> QED BY <2>1 DEF Reads, PacketReads
  <1>3. Members("Packet", n, m) = {b \in ToSet(d) : b[2] # "_"} /\ Layout("Packet", n) = l
    <2>1. "Packet" \notin DOMAIN Fields
      BY Structs
    <2> QED BY <2>1 DEF Members, Layout
  <1> HIDE DEF c
  <1>4. /\ HeadFields \in Seq(Member) /\ Body(c) \in Seq(Member)
        /\ R = Own(fs) /\ d = Bytes(0, fs)
    <2>1. /\ HeadFields \in Seq(Member) /\ Body(c) \in Seq(Member)
          /\ Fields.PacketHeader \o <<<<"type", 4>>, <<"body", c>>>> = fs
      BY <1>1, PacketParts, Zenon
    <2> QED BY <1>2, <2>1, Zenon DEF PacketLayout
  <1>5. fs \in Seq(Member) /\ Lacks(fs, "_")
    <2>1. Lacks(HeadFields, "_")
      <3> DEFINE t == <<"type", 4>>
      <3>1. t \in Member /\ t[1] # "_" /\ Fields.PacketHeader \in Seq(Member)
            /\ Lacks(Fields.PacketHeader, "_")
        BY Structs, StructsLack
      <3> HIDE DEF t
      <3>2. <<t>> \in Seq(Member)
        BY <3>1, Tuples
      <3>3. Lacks(<<t>>, "_")
        BY <3>1, LacksOne, Zenon
      <3> QED BY <3>1, <3>2, <3>3, LacksConcat, Zenon DEF HeadFields, t
    <2>2. Lacks(Body(c), "_")
      <3> DEFINE b == <<"body", c>>
      <3>1. b \in Member /\ b[1] # "_"
        BY <1>1, Structs
      <3> HIDE DEF b
      <3>2. Lacks(<<b>>, "_")
        BY <3>1, LacksOne
      <3> QED BY <3>2 DEF Body, b
    <2>3. fs \in Seq(Member)
      BY <1>4, ConcatProperties
    <2> QED BY <1>4, <2>1, <2>2, <2>3, LacksConcat, Zenon
  <1>6. R \in Seq(ReadType) /\ Plain(R) /\ Dest(R) = d
    BY <1>4, <1>5, OwnReads
  <1>7. ToSet(Dest(R)) = Members("Packet", n, m)
    <2>1. \A b \in ToSet(d) : b[2] # "_"
      BY <1>4, <1>5, LacksBytes
    <2> HIDE DEF d
    <2>2. ToSet(d) = {b \in ToSet(d) : b[2] # "_"}
      BY <2>1, Zenon
    <2> QED BY <1>3, <1>6, <2>2, Zenon
  <1>8. Agree(d, l)
    <2>1. /\ Len(d) = 20 + c /\ Len(l) = 20 + n
          /\ \A t \in 1 .. 20 : d[t] = Bytes(0, HeadFields)[t]
               /\ l[t] = Bytes(0, HeadFields)[t]
          /\ \A t \in 1 .. c : d[20 + t] = <<0, "body", t>>
          /\ \A t \in 1 .. n : l[20 + t] = <<0, "body", t>>
      BY <1>1, PacketBytes
    <2> HIDE DEF d, l
    <2> SUFFICES ASSUME NEW t \in 1 .. Len(d)
                 PROVE  IF t <= Len(l) THEN d[t] = l[t] ELSE d[t][2] = "body"
      BY DEF Agree
    <2>2. CASE t <= 20
      <3>1. t \in 1 .. 20 /\ t <= Len(l)
        BY <1>1, <2>1, <2>2
      <3> QED BY <2>1, <3>1, Zenon
    <2>3. CASE t > 20
      <3> DEFINE j == t - 20
      <3>1. j \in 1 .. c /\ t = 20 + j /\ (t <= Len(l) => j \in 1 .. n)
        BY <1>1, <2>1, <2>3
      <3> HIDE DEF j
      <3>2. d[t] = <<0, "body", j>> /\ (t <= Len(l) => l[t] = <<0, "body", j>>)
        BY <2>1, <3>1, Zenon
      <3> QED BY <3>2
    <2> QED BY <1>1, <2>1, <2>2, <2>3
  <1>9. NoMore("Packet", n, m)
    <2>1. Len(d) = 20 + c
      BY <1>1, PacketBytes
    <2> HIDE DEF d
    <2>2. Len(d) = m
      BY <2>1 DEF c
    <2> QED BY <1>6, <2>2, Zenon DEF NoMore
  <1> QED BY <1>3, <1>6, <1>7, <1>8, <1>9, Zenon DEF Faithful

\* A struct that is read back as it is written is faithful.
LEMMA ExactFaithful ==
    ASSUME NEW k, k # "Packet", k # "ControllersInfoResponse", NEW n \in Nat, NEW m \in Nat,
           Reads(k, n, m) \in Seq(ReadType), Plain(Reads(k, n, m)),
           Dest(Reads(k, n, m)) = Layout(k, n),
           \A b \in ToSet(Layout(k, n)) : b[2] # "_"
    PROVE  Faithful(k, n, m)
  <1>1. Members(k, n, m) = {b \in ToSet(Layout(k, n)) : b[2] # "_"}
    BY DEF Members
  <1>2. Layout(k, n) \in Seq(ByteName)
    BY TargetsType
  <1>3. Len(Layout(k, n)) <= Len(Layout(k, n))
    BY <1>2, LenReflexive, Zenon
  <1>4. NoMore(k, n, m)
    BY <1>3, Zenon DEF NoMore
  <1> QED BY <1>1, <1>2, <1>4, AgreeSelf, Zenon DEF Faithful

\* The elements of a concatenation.
LEMMA ToSetConcat ==
    ASSUME NEW s \in Seq(ByteName), NEW t \in Seq(ByteName)
    PROVE  ToSet(s \o t) = ToSet(s) \union ToSet(t)
  <1>1. /\ DOMAIN (s \o t) = 1 .. Len(s) + Len(t) /\ DOMAIN s = 1 .. Len(s)
        /\ DOMAIN t = 1 .. Len(t) /\ Len(s) \in Nat /\ Len(t) \in Nat
        /\ \A i \in 1 .. Len(s) : (s \o t)[i] = s[i]
        /\ \A i \in 1 .. Len(t) : (s \o t)[Len(s) + i] = t[i]
    OBVIOUS
  <1>2. ASSUME NEW i \in DOMAIN (s \o t)
        PROVE  (s \o t)[i] \in ToSet(s) \/ (s \o t)[i] \in ToSet(t)
    <2>1. CASE i <= Len(s)
      BY <1>1, <2>1 DEF ToSet
    <2>2. CASE i > Len(s)
      <3>1. i - Len(s) \in DOMAIN t /\ (s \o t)[i] = t[i - Len(s)]
        BY <1>1, <2>2
      <3> QED BY <3>1 DEF ToSet
    <2> QED BY <1>1, <2>1, <2>2
  <1>3. ASSUME NEW i \in DOMAIN s PROVE s[i] \in ToSet(s \o t)
    <2>1. i \in DOMAIN (s \o t) /\ (s \o t)[i] = s[i]
      BY <1>1
    <2> QED BY <2>1, Zenon DEF ToSet
  <1>4. ASSUME NEW i \in DOMAIN t PROVE t[i] \in ToSet(s \o t)
    <2>1. Len(s) + i \in DOMAIN (s \o t) /\ (s \o t)[Len(s) + i] = t[i]
      BY <1>1
    <2> QED BY <2>1, Zenon DEF ToSet
  <1>5. \A b : b \in ToSet(s \o t) <=> b \in ToSet(s) \/ b \in ToSet(t)
    BY <1>2, <1>3, <1>4, Zenon DEF ToSet
  <1> QED BY <1>5, Zenon

\* The empty sequence has none.
LEMMA ToSetEmpty == ToSet(<<>>) = {}
  <1>1. DOMAIN <<>> = {}
    OBVIOUS
  <1> QED BY <1>1, Zenon DEF ToSet

\* The request for information: ports, then the slots.
LEMMA RequestFaithful ==
    ASSUME NEW n \in Nat, NEW m \in Nat
    PROVE  Faithful("ControllersInfoRequest", n, m)
  <1> DEFINE k == "ControllersInfoRequest"
             p == <<"ports", 4>>
             q == <<"slots", n>>
  <1>1. Reads(k, n, m) = Own(<<p, q>>) /\ Layout(k, n) = Bytes(0, <<p, q>>)
    BY Structs DEF Reads, Layout, InfoRequestReads, InfoRequestLayout
  <1>2. p \in Member /\ q \in Member /\ p[1] # "_" /\ q[1] # "_"
    BY Structs
  <1>3. k # "Packet" /\ k # "ControllersInfoResponse"
    OBVIOUS
  <1> HIDE DEF k, p, q
  <1>4. <<p>> \in Seq(Member) /\ <<q>> \in Seq(Member) /\ <<p, q>> \in Seq(Member)
        /\ <<p, q>> = <<p>> \o <<q>>
    BY <1>2, Tuples, Pair
  <1>5. Lacks(<<p>>, "_") /\ Lacks(<<q>>, "_")
    BY <1>2, LacksOne
  <1>6. Lacks(<<p>> \o <<q>>, "_")
    BY <1>4, <1>5, LacksConcat
  <1>7. \A b \in ToSet(Bytes(0, <<p, q>>)) : b[2] # "_"
    <2>1. Lacks(<<p, q>>, "_")
      BY <1>4, <1>6, Zenon
    <2> QED BY <1>4, <2>1, LacksBytes
  <1>8. Own(<<p, q>>) \in Seq(ReadType) /\ Plain(Own(<<p, q>>))
        /\ Dest(Own(<<p, q>>)) = Bytes(0, <<p, q>>)
    BY <1>4, OwnReads
  <1>9. Faithful(k, n, m)
    BY <1>1, <1>3, <1>7, <1>8, ExactFaithful, Zenon
  <1> QED BY <1>9 DEF k
\* The structs that begin with another struct, read from a slice.
LEMMA SliceReads ==
    /\ InfoEntryReads \in Seq(ReadType) /\ Plain(InfoEntryReads)
    /\ Dest(InfoEntryReads) = Bytes(1, Fields.ControllerInfoShared)
    /\ IdentifierReads \in Seq(ReadType) /\ Plain(IdentifierReads)
    /\ Dest(IdentifierReads) = Bytes(1, Fields.ControllerIdentifier)
  <1>1. "ControllerInfoShared" \in DOMAIN Fields /\ "ControllerIdentifier" \in DOMAIN Fields
    BY Structs
  <1>2. SizeVerdict("ControllerInfoShared", 11) = "None"
    BY DEF SizeVerdict
  <1>3. SizeVerdict("ControllerIdentifier", 8) = "None"
    BY DEF SizeVerdict
  <1>4. /\ Len(Bytes(1, Fields.ControllerInfoShared)) = 11
        /\ Len(Bytes(1, Fields.ControllerIdentifier)) = 8
    BY Sizes
  <1>5. 1 \in Nat /\ 11 \in Nat /\ 8 \in Nat /\ FALSE \in BOOLEAN
    OBVIOUS
  <1>6. /\ InfoEntryReads \in Seq(ReadType) /\ Plain(InfoEntryReads)
        /\ Dest(InfoEntryReads) = Bytes(1, Fields.ControllerInfoShared)
    BY <1>1, <1>2, <1>4, <1>5, InsideReads, Zenon DEF InfoEntryReads
  <1>7. /\ IdentifierReads \in Seq(ReadType) /\ Plain(IdentifierReads)
        /\ Dest(IdentifierReads) = Bytes(1, Fields.ControllerIdentifier)
    BY <1>1, <1>3, <1>4, <1>5, InsideReads, Zenon DEF IdentifierReads
  <1> QED BY <1>6, <1>7

\* The bytes of the two structs that others begin with.
LEMMA SliceBytes ==
    ASSUME NEW k \in {"ControllerInfoShared", "ControllerIdentifier"}
    PROVE  /\ Bytes(1, Fields[k]) \in Seq(ByteName) /\ Fields[k] \in Seq(Member)
           /\ \A b \in ToSet(Bytes(1, Fields[k])) : b[2] # "_"
  <1>1. k \in DOMAIN Fields
    BY Structs
  <1>2. Fields[k] \in Seq(Member) /\ Lacks(Fields[k], "_")
    BY <1>1, Structs, StructsLack
  <1> QED BY <1>2, BytesType, LacksBytes

\* The information about one controller: its padding is not read.
LEMMA EntryFaithful ==
    ASSUME NEW n \in Nat, NEW m \in Nat
    PROVE  Faithful("ControllerInfoResponse", n, m)
  <1> DEFINE k == "ControllerInfoResponse"
             f == <<"_", 1>>
             S == Fields.ControllerInfoShared
             A == Bytes(1, S)
             B == Bytes(1, <<f>>)
  <1>1. Reads(k, n, m) = InfoEntryReads /\ Layout(k, n) = Bytes(1, S \o <<f>>)
        /\ Members(k, n, m) = {b \in ToSet(Layout(k, n)) : b[2] # "_"}
    BY Structs DEF Reads, Layout, Members, InfoEntryLayout
  <1>2. f \in Member /\ f[1] = "_" /\ <<f>> \in Seq(Member)
    BY Structs, Tuples
  <1> HIDE DEF k, f
  <1>3. S \in Seq(Member) /\ A \in Seq(ByteName) /\ \A b \in ToSet(A) : b[2] # "_"
    BY SliceBytes
  <1>4. B \in Seq(ByteName) /\ \A b \in ToSet(B) : b[2] = "_"
    <2>1. B \in Seq(ByteName)
      BY <1>2, BytesType
    <2>2. B = [i \in 1 .. f[2] |-> <<1, f[1], i>>]
      BY <1>2, BytesOne
    <2>3. \A b \in ToSet(B) : b[2] = f[1]
      <3> HIDE DEF B
      <3> QED BY <2>2 DEF ToSet
    <2> QED BY <1>2, <2>1, <2>3, Zenon
  <1>5. Bytes(1, S \o <<f>>) = A \o B
    BY <1>2, <1>3, BytesConcat
  <1> HIDE DEF S, A, B
  <1>6. ToSet(A) = Members(k, n, m)
    <2>1. ToSet(A \o B) = ToSet(A) \union ToSet(B)
      BY <1>3, <1>4, ToSetConcat
    <2>2. \A b : b \in ToSet(A) <=> b \in {x \in ToSet(A \o B) : x[2] # "_"}
      BY <1>3, <1>4, <2>1, Zenon
    <2>3. ToSet(A) = {x \in ToSet(A \o B) : x[2] # "_"}
      BY <2>2, Zenon
    <2> QED BY <1>1, <1>5, <2>3, Zenon
  <1>7. Agree(A, A \o B)
    BY <1>3, <1>4, AgreePrefix
  <1>8. Len(A) <= Len(A \o B)
    <2>1. Len(A \o B) = Len(A) + Len(B) /\ Len(A) \in Nat /\ Len(B) \in Nat
      BY <1>3, <1>4, ConcatAt, Zenon
    <2> QED BY <2>1
  <1>9. Dest(InfoEntryReads) = A
    BY SliceReads DEF A, S
  <1>10. NoMore(k, n, m)
    BY <1>1, <1>5, <1>8, <1>9, Zenon DEF NoMore, k
  <1>11. Faithful(k, n, m)
    BY <1>1, <1>5, <1>6, <1>7, <1>9, <1>10, SliceReads, Zenon DEF Faithful
  <1> QED BY <1>11 DEF k

\* The two requests that are an identifier.
LEMMA IdentifierFaithful ==
    ASSUME NEW k \in {"ControllersDataRequest", "ControllersMotorsRequest"},
           NEW n \in Nat, NEW m \in Nat
    PROVE  Faithful(k, n, m)
  <1>1. Reads(k, n, m) = IdentifierReads
        /\ Layout(k, n) = Bytes(1, Fields.ControllerIdentifier)
    BY Structs DEF Reads, Layout, IdentifierLayout
  <1>2. k # "Packet" /\ k # "ControllersInfoResponse"
    OBVIOUS
  <1>3. \A b \in ToSet(Bytes(1, Fields.ControllerIdentifier)) : b[2] # "_"
    BY SliceBytes
  <1> QED BY <1>1, <1>2, <1>3, SliceReads, ExactFaithful, Zenon

\* A slice and then members of its own.
LEMMA SliceThenOwn ==
    ASSUME NEW rs \in Seq(ReadType), NEW fs \in Seq(Member),
           Plain(rs), \A b \in ToSet(Dest(rs)) : b[2] # "_", Lacks(fs, "_")
    PROVE  /\ rs \o Own(fs) \in Seq(ReadType) /\ Plain(rs \o Own(fs))
           /\ Dest(rs \o Own(fs)) = Dest(rs) \o Bytes(0, fs)
           /\ \A b \in ToSet(Dest(rs \o Own(fs))) : b[2] # "_"
  <1>1. Own(fs) \in Seq(ReadType) /\ Plain(Own(fs)) /\ Dest(Own(fs)) = Bytes(0, fs)
    BY OwnReads
  <1>2. /\ rs \o Own(fs) \in Seq(ReadType) /\ Plain(rs \o Own(fs))
        /\ Dest(rs \o Own(fs)) = Dest(rs) \o Dest(Own(fs))
    BY <1>1, PlainConcat, DestConcat
  <1>3. /\ Bytes(0, fs) \in Seq(ByteName) /\ \A b \in ToSet(Bytes(0, fs)) : b[2] # "_"
        /\ Dest(rs) \in Seq(ByteName)
    BY BytesType, LacksBytes, TargetsType
  <1>4. ToSet(Dest(rs) \o Bytes(0, fs)) = ToSet(Dest(rs)) \union ToSet(Bytes(0, fs))
    BY <1>3, ToSetConcat
  <1> QED BY <1>1, <1>2, <1>3, <1>4, Zenon

\* The reply about motors and the rumble request.
LEMMA MotorsFaithful ==
    ASSUME NEW n \in Nat, NEW m \in Nat
    PROVE  /\ Faithful("ControllersMotorsResponse", n, m)
           /\ Faithful("ControllersMotorsRumbleRequest", n, m)
  <1> DEFINE k == "ControllersMotorsResponse"
             l == "ControllersMotorsRumbleRequest"
             p == <<"motorCount", 1>>
             q == <<"motorID", 1>>
             r == <<"intensity", 1>>
             A == Bytes(1, Fields.ControllerInfoShared)
             B == Bytes(1, Fields.ControllerIdentifier)
  <1>1. Reads(k, n, m) = InfoEntryReads \o Own(<<p>>) /\ Layout(k, n) = A \o Bytes(0, <<p>>)
    BY Structs DEF Reads, Layout, MotorsReads, MotorsLayout
  <1>2. /\ Reads(l, n, m) = IdentifierReads \o Own(<<q, r>>)
        /\ Layout(l, n) = B \o Bytes(0, <<q, r>>)
    BY Structs DEF Reads, Layout, RumbleReads, RumbleLayout, IdentifierLayout
  <1>3. /\ k # "Packet" /\ k # "ControllersInfoResponse"
        /\ l # "Packet" /\ l # "ControllersInfoResponse"
    OBVIOUS
  <1>4. /\ p \in Member /\ q \in Member /\ r \in Member
        /\ p[1] # "_" /\ q[1] # "_" /\ r[1] # "_"
    BY Structs
  <1> HIDE DEF k, l, p, q, r
  <1>5. /\ <<p>> \in Seq(Member) /\ <<q>> \in Seq(Member) /\ <<r>> \in Seq(Member)
        /\ <<q, r>> \in Seq(Member) /\ <<q, r>> = <<q>> \o <<r>>
    BY <1>4, Tuples, Pair
  <1>6. Lacks(<<p>>, "_") /\ Lacks(<<q, r>>, "_")
    <2>1. Lacks(<<p>>, "_") /\ Lacks(<<q>>, "_") /\ Lacks(<<r>>, "_")
      BY <1>4, LacksOne, Zenon
    <2>2. Lacks(<<q>> \o <<r>>, "_")
      BY <1>5, <2>1, LacksConcat, Zenon
    <2> QED BY <1>5, <2>1, <2>2, Zenon
  <1>7. /\ A \in Seq(ByteName) /\ \A b \in ToSet(A) : b[2] # "_"
        /\ B \in Seq(ByteName) /\ \A b \in ToSet(B) : b[2] # "_"
    BY SliceBytes
  <1>8. Faithful(k, n, m)
    <2> DEFINE R == InfoEntryReads \o Own(<<p>>)
    <2>1. InfoEntryReads \in Seq(ReadType) /\ Plain(InfoEntryReads)
          /\ Dest(InfoEntryReads) = A
      BY SliceReads
    <2>2. \A b \in ToSet(Dest(InfoEntryReads)) : b[2] # "_"
      BY <1>7, <2>1, Zenon
    <2>3. /\ R \in Seq(ReadType) /\ Plain(R)
          /\ Dest(R) = Dest(InfoEntryReads) \o Bytes(0, <<p>>)
          /\ \A b \in ToSet(Dest(R)) : b[2] # "_"
      BY <1>5, <1>6, <2>1, <2>2, SliceThenOwn
    <2> HIDE DEF A, R
    <2>4. Dest(R) = Layout(k, n) /\ R = Reads(k, n, m)
      BY <1>1, <1>2, <2>1, <2>3, Zenon DEF R
    <2> QED BY <1>3, <2>3, <2>4, ExactFaithful, Zenon
  <1>9. Faithful(l, n, m)
    <2> DEFINE R == IdentifierReads \o Own(<<q, r>>)
    <2>1. IdentifierReads \in Seq(ReadType) /\ Plain(IdentifierReads)
          /\ Dest(IdentifierReads) = B
      BY SliceReads
    <2>2. \A b \in ToSet(Dest(IdentifierReads)) : b[2] # "_"
      BY <1>7, <2>1, Zenon
    <2>3. /\ R \in Seq(ReadType) /\ Plain(R)
          /\ Dest(R) = Dest(IdentifierReads) \o Bytes(0, <<q, r>>)
          /\ \A b \in ToSet(Dest(R)) : b[2] # "_"
      BY <1>5, <1>6, <2>1, <2>2, SliceThenOwn
    <2> HIDE DEF B, R
    <2>4. Dest(R) = Layout(l, n) /\ R = Reads(l, n, m)
      BY <1>1, <1>2, <2>1, <2>3, Zenon DEF R
    <2> QED BY <1>3, <2>3, <2>4, ExactFaithful, Zenon
  <1> QED BY <1>8, <1>9 DEF k, l

\* The request without members.
LEMMA VersionFaithful ==
    ASSUME NEW n \in Nat, NEW m \in Nat
    PROVE  Faithful("ProtocolVersionRequest", n, m)
  <1> DEFINE k == "ProtocolVersionRequest"
  <1>1. Reads(k, n, m) = <<>> /\ Layout(k, n) = <<>>
    BY Structs DEF Reads, Layout
  <1>2. k # "Packet" /\ k # "ControllersInfoResponse"
    OBVIOUS
  <1> HIDE DEF k
  <1>3. <<>> \in Seq(ReadType) /\ Plain(<<>>) /\ Targets(<<>>) = <<>>
    BY DEF Plain, Targets
  <1>4. Dest(<<>>) = <<>>
    BY <1>3, FlattenSmall DEF Dest
  <1>5. \A b \in ToSet(<<>>) : b[2] # "_"
    BY ToSetEmpty
  <1>6. Faithful(k, n, m)
    BY <1>1, <1>2, <1>3, <1>4, <1>5, ExactFaithful, Zenon
  <1> QED BY <1>6 DEF k
\* The size of a slice of 12 bytes is refused by the struct inside, so that a
\* reply is only accepted when it has no entry.
LEMMA EntriesFaithful ==
    ASSUME NEW n \in Nat, NEW m \in Nat
    PROVE  Faithful("ControllersInfoResponse", n, m)
  <1> DEFINE k == "ControllersInfoResponse"
             c == m \div 12
             f == [i \in 1 .. c |-> Inside(i, "ControllerInfoShared", 12, FALSE)]
             R == FlattenSeq(f)
             W == Seq(ReadType)
  <1>1. c \in Nat
    OBVIOUS
  <1>2. Reads(k, n, m) = R /\ Layout(k, n) = InfoEntries(n)
        /\ Members(k, n, m) = {b \in ToSet(InfoEntries(c)) : b[2] # "_"}
    BY Structs DEF Reads, Layout, Members, InfoEntriesReads
  <1>3. k \in Lossy
    BY DEF Lossy
  <1> HIDE DEF k, c
  <1>4. ASSUME NEW i \in 1 .. c
        PROVE  /\ Inside(i, "ControllerInfoShared", 12, FALSE) \in W
               /\ Doomed(Inside(i, "ControllerInfoShared", 12, FALSE))
    <2>1. "ControllerInfoShared" \in DOMAIN Fields
      BY Structs
    <2>2. SizeVerdict("ControllerInfoShared", 12) # "None"
      BY DEF SizeVerdict
    <2>3. i \in Nat /\ 12 \in Nat /\ FALSE \in BOOLEAN
      BY <1>1
    <2> QED BY <2>1, <2>2, <2>3, InsideReads, Zenon
  <1>5. f \in Seq(W) /\ Len(f) = c
    <2> HIDE DEF W
    <2>1. f \in [1 .. c -> W]
      BY <1>4, Zenon
    <2> HIDE DEF f
    <2> QED BY <1>1, <2>1
  <1>6. R \in W /\ ToSet(R) = UNION {ToSet(f[i]) : i \in 1 .. c}
    <2>1. ToSet(R) = UNION {ToSet(f[i]) : i \in 1 .. Len(f)}
      BY <1>5, FlattenElements
    <2>2. R \in W
      BY <1>5, FlattenType
    <2> QED BY <1>5, <2>1, <2>2, Zenon
  <1>7. ASSUME c = 0 PROVE Faithful(k, n, m)
    <2>1. f = <<>>
      <3> HIDE DEF f, W
      <3> QED BY <1>5, <1>7
    <2>2. R = <<>>
      BY <2>1, FlattenSmall, Zenon
    <2>3. InfoEntries(c) = <<>>
      <3>1. InfoEntries(0) = <<>>
        <4>1. [i \in 1 .. 0 |-> Bytes(i, Fields.ControllerInfoShared \o <<<<"_", 4>>>>)] = <<>>
          OBVIOUS
        <4> QED BY <4>1, FlattenSmall, Zenon DEF InfoEntries
      <3> QED BY <1>7, <3>1, Zenon
    <2>4. Plain(<<>>) /\ Targets(<<>>) = <<>>
      BY DEF Plain, Targets
    <2>5. Dest(<<>>) = <<>>
      BY <2>4, FlattenSmall, Zenon DEF Dest
    <2>6. ToSet(<<>>) = Members(k, n, m)
      BY <1>2, <2>3, ToSetEmpty, Zenon
    <2>7. Agree(<<>>, Layout(k, n))
      BY DEF Agree
    <2>8. NoMore(k, n, m)
      BY <1>3 DEF NoMore, k
    <2> HIDE DEF R
    <2> QED BY <1>2, <1>6, <2>2, <2>4, <2>5, <2>6, <2>7, <2>8, Zenon DEF Faithful, W
  <1>8. ASSUME c # 0 PROVE Faithful(k, n, m)
    <2>1. 1 \in 1 .. c
      BY <1>1, <1>8
    <2> DEFINE g == f[1]
    <2>2. g \in W /\ Doomed(g)
      BY <1>4, <2>1
    <2>3. ToSet(g) \subseteq ToSet(R)
      <3> HIDE DEF f, R
      <3> QED BY <1>6, <2>1, Zenon DEF g
    <2> HIDE DEF g
    <2>4. PICK j \in 1 .. Len(g) : g[j].verdict # "None"
      BY <2>2, Zenon DEF Doomed
    <2>5. g[j] \in ToSet(R)
      <3>1. j \in DOMAIN g
        BY <2>2
      <3> QED BY <2>3, <3>1, Zenon DEF ToSet
    <2> HIDE DEF R
    <2>6. PICK i \in DOMAIN R : R[i] = g[j]
      BY <2>5, Zenon DEF ToSet
    <2>7. i \in 1 .. Len(R)
      BY <1>6
    <2>8. Doomed(R)
      BY <2>4, <2>6, <2>7, Zenon DEF Doomed
    <2> QED BY <1>2, <1>3, <1>6, <2>8, Zenon DEF Faithful, W
  <1>9. Faithful(k, n, m)
    BY <1>7, <1>8
  <1> QED BY <1>9 DEF k

\* A touch needs 6 bytes and is given a slice of 4.
LEMMA PadFaithful ==
    ASSUME NEW n \in Nat, NEW m \in Nat
    PROVE  Faithful("ControllersDataResponse", n, m)
  <1> DEFINE k == "ControllersDataResponse"
             t == <<<<"timestamp", 8>>>>
             a == Inside(1, "ControllerInfoShared", 11, TRUE)
             b == Own(PadFields)
             c == Inside(2, "Touch", 4, TRUE)
             d == Inside(3, "Touch", 4, TRUE)
             e == Own(t)
             f == Inside(4, "Vectors3f", 12, TRUE)
             g == Inside(5, "Vectors3f", 12, FALSE)
  <1>1. Reads(k, n, m) = (((((a \o b) \o c) \o d) \o e) \o f) \o g
    BY Structs DEF Reads, PadReads
  <1>2. k \in Lossy
    BY DEF Lossy
  <1>3. t \in Seq(Member) /\ PadFields \in Seq(Member)
    BY Structs, Tuples
  <1>4. {"ControllerInfoShared", "Touch", "Vectors3f"} \subseteq DOMAIN Fields
    BY Structs
  <1>5. Len(Bytes(2, Fields["Touch"])) = 6
    BY Sizes
  <1> DEFINE W == Seq(ReadType)
  <1>6. /\ a \in W /\ c \in W /\ d \in W /\ f \in W /\ g \in W
        /\ Doomed(c)
    <2>1. {1, 2, 3, 4, 5, 11, 12} \subseteq Nat /\ TRUE \in BOOLEAN /\ FALSE \in BOOLEAN
      OBVIOUS
    <2>2. Len(Bytes(2, Fields["Touch"])) > 4
      <3> DEFINE x == Len(Bytes(2, Fields["Touch"]))
      <3>1. x = 6
        BY <1>5
      <3> HIDE DEF x
      <3>2. x > 4
        BY <3>1
      <3> QED BY <3>2 DEF x
    <2>3. a \in W
      BY <1>4, <2>1, InsideReads
    <2>4. c \in W /\ Doomed(c)
      BY <1>4, <2>1, <2>2, InsideReads
    <2>5. d \in W
      BY <1>4, <2>1, InsideReads
    <2>6. f \in W /\ g \in W
      BY <1>4, <2>1, InsideReads
    <2> QED BY <2>3, <2>4, <2>5, <2>6
  <1>7. b \in W /\ e \in W
    BY <1>3, OwnReads
  <1> HIDE DEF a, b, c, d, e, f, g
  <1>8. a \o b \in W
    BY <1>6, <1>7, PlainConcat
  <1>9. (a \o b) \o c \in W /\ Doomed((a \o b) \o c)
    BY <1>6, <1>8, PlainConcat
  <1> DEFINE p == (a \o b) \o c
  <1> HIDE DEF p
  <1>10. p \o d \in W /\ Doomed(p \o d)
    BY <1>6, <1>9, PlainConcat DEF p
  <1>11. (p \o d) \o e \in W /\ Doomed((p \o d) \o e)
    BY <1>7, <1>10, PlainConcat
  <1>12. ((p \o d) \o e) \o f \in W /\ Doomed(((p \o d) \o e) \o f)
    BY <1>6, <1>11, PlainConcat
  <1>13. (((p \o d) \o e) \o f) \o g \in W /\ Doomed((((p \o d) \o e) \o f) \o g)
    BY <1>6, <1>12, PlainConcat
  <1>14. Faithful(k, n, m)
    BY <1>1, <1>2, <1>13, Zenon DEF Faithful, p
  <1> QED BY <1>14 DEF k

\* All kinds.
LEMMA AllFaithful ==
    ASSUME NEW k \in Kinds, NEW n \in Nat, NEW m \in Nat, SizeVerdict(k, m) = "None"
    PROVE  Faithful(k, n, m)
  <1>1. CASE k \in DOMAIN Fields
    BY <1>1, StructFaithful
  <1>2. CASE k = "Packet"
    <2>1. m >= 20
      BY <1>2 DEF SizeVerdict
    <2> QED BY <1>2, <2>1, PacketFaithful, Zenon
  <1>3. CASE k \in {"ProtocolVersionRequest", "ControllersInfoRequest",
                    "ControllerInfoResponse",
                    "ControllersInfoResponse", "ControllersDataRequest",
                    "ControllersDataResponse", "ControllersMotorsRequest",
                    "ControllersMotorsResponse", "ControllersMotorsRumbleRequest"}
    BY <1>3, VersionFaithful, RequestFaithful, EntryFaithful, EntriesFaithful,
       IdentifierFaithful, PadFaithful, MotorsFaithful, Zenon
  <1> QED BY <1>1, <1>2, <1>3 DEF Kinds
\* A struct of these kinds passes the size test of its own deserialize.
LEMMA OwnSize ==
    ASSUME NEW k \in Kinds, k \notin Lossy, NEW n \in Nat,
           k = "ControllersInfoRequest" => n < 5
    PROVE  SizeVerdict(k, Len(Layout(k, n))) = "None"
  <1>1. CASE k \in DOMAIN Fields
    <2>1. Layout(k, n) = Bytes(0, Fields[k])
      BY <1>1, Structs DEF Layout
    <2> DEFINE x == Len(Layout(k, n))
    <2>2. \/ k = "ProtocolVersionResponse" /\ x = 2
          \/ k = "ControllerInfoShared" /\ x = 11
          \/ k = "ControllerIdentifier" /\ x = 8
          \/ k = "GamePadButtons" /\ x = 2
          \/ k = "Touch" /\ x = 6
          \/ k = "Vectors3f" /\ x = 12
      <3>1. k \in {"ProtocolVersionResponse", "ControllerInfoShared",
                   "ControllerIdentifier", "GamePadButtons", "Touch", "Vectors3f"}
        BY <1>1, Structs DEF Lossy
      <3>2. /\ Len(Bytes(0, Fields["ProtocolVersionResponse"])) = 2
            /\ Len(Bytes(0, Fields["ControllerInfoShared"])) = 11
            /\ Len(Bytes(0, Fields["ControllerIdentifier"])) = 8
            /\ Len(Bytes(0, Fields["GamePadButtons"])) = 2
            /\ Len(Bytes(0, Fields["Touch"])) = 6
            /\ Len(Bytes(0, Fields["Vectors3f"])) = 12
        BY Sizes
      <3> QED BY <2>1, <3>1, <3>2, Zenon
    <2> HIDE DEF x
    <2>3. SizeVerdict(k, x) = "None"
      BY <2>2 DEF SizeVerdict
    <2> QED BY <2>3 DEF x
  <1>2. CASE k = "Packet"
    <2> DEFINE x == Len(Layout("Packet", n))
    <2>1. x = 20 + n
      BY Structs, PacketBytes DEF Layout
    <2> HIDE DEF x
    <2>2. SizeVerdict("Packet", x) = "None"
      BY <2>1 DEF SizeVerdict
    <2> QED BY <1>2, <2>2 DEF x
  <1>3. CASE k = "ControllersInfoRequest"
    <2> DEFINE x == Len(Layout("ControllersInfoRequest", n))
    <2>1. x = 4 + n
      <3> DEFINE p == <<"ports", 4>>
                 q == <<"slots", n>>
      <3>1. Layout("ControllersInfoRequest", n) = Bytes(0, <<p, q>>)
        BY Structs DEF Layout, InfoRequestLayout
      <3>2. p \in Member /\ q \in Member /\ p[2] = 4 /\ q[2] = n
        BY Structs
      <3> HIDE DEF p, q
      <3>3. Len(Bytes(0, <<p, q>>)) = p[2] + q[2]
        BY <3>2, SizeOfTwo
      <3>4. x = p[2] + q[2]
        BY <3>1, <3>3, Zenon
      <3> HIDE DEF x
      <3> QED BY <3>2, <3>4
    <2> HIDE DEF x
    <2>2. x \in 4 .. 8
      BY <1>3, <2>1
    <2>3. SizeVerdict("ControllersInfoRequest", x) = "None"
      BY <2>2 DEF SizeVerdict
    <2> QED BY <1>3, <2>3 DEF x
  <1>4. CASE k = "ProtocolVersionRequest"
    BY <1>4 DEF SizeVerdict
  <1>5. CASE k \in {"ControllersDataRequest", "ControllersMotorsRequest"}
    <2> DEFINE x == Len(Layout(k, n))
    <2>1. x = 8
      BY <1>5, Structs, Sizes DEF Layout, IdentifierLayout
    <2> HIDE DEF x
    <2>2. SizeVerdict(k, x) = "None"
      BY <1>5, <2>1 DEF SizeVerdict
    <2> QED BY <2>2 DEF x
  <1>6. CASE k = "ControllerInfoResponse"
    <2> DEFINE x == Len(Layout("ControllerInfoResponse", n))
               f == <<"_", 1>>
               S == Fields.ControllerInfoShared
    <2>1. Layout("ControllerInfoResponse", n) = Bytes(1, S \o <<f>>)
      BY Structs DEF Layout, InfoEntryLayout
    <2>2. f \in Member /\ <<f>> \in Seq(Member) /\ S \in Seq(Member) /\ f[2] = 1
      BY Structs, Tuples
    <2>3. Len(Bytes(1, S)) = 11
      BY Sizes
    <2> HIDE DEF f, S
    <2>4. Len(Bytes(1, <<f>>)) = f[2]
      BY <2>2, BytesOne
    <2>5. x = Len(Bytes(1, S)) + Len(Bytes(1, <<f>>))
      <3>1. Len(Bytes(1, S \o <<f>>)) = Len(Bytes(1, S)) + Len(Bytes(1, <<f>>))
        BY <2>2, SizesAdd
      <3> QED BY <2>1, <3>1, Zenon
    <2>6. x = 11 + 1
      BY <2>2, <2>3, <2>4, <2>5, Zenon
    <2> HIDE DEF x
    <2>7. SizeVerdict("ControllerInfoResponse", x) = "None"
      BY <2>6 DEF SizeVerdict
    <2> QED BY <1>6, <2>7 DEF x
  <1>7. CASE k = "ControllersMotorsResponse"
    <2> DEFINE x == Len(Layout("ControllersMotorsResponse", n))
               f == <<"motorCount", 1>>
               A == Bytes(1, Fields.ControllerInfoShared)
    <2>1. Layout("ControllersMotorsResponse", n) = A \o Bytes(0, <<f>>)
      BY Structs DEF Layout, MotorsLayout
    <2>2. f \in Member /\ <<f>> \in Seq(Member) /\ f[2] = 1
      BY Structs, Tuples
    <2>3. Len(A) = 11 /\ A \in Seq(ByteName)
      BY Sizes, SliceBytes
    <2> HIDE DEF f, A
    <2>4. Len(Bytes(0, <<f>>)) = f[2] /\ Bytes(0, <<f>>) \in Seq(ByteName)
      BY <2>2, BytesOne, BytesType
    <2>5. Len(A \o Bytes(0, <<f>>)) = Len(A) + Len(Bytes(0, <<f>>))
      BY <2>3, <2>4, ConcatAt, Zenon
    <2>6. x = 11 + 1
      BY <2>1, <2>2, <2>3, <2>4, <2>5, Zenon
    <2> HIDE DEF x
    <2>7. SizeVerdict("ControllersMotorsResponse", x) = "None"
      BY <2>6 DEF SizeVerdict
    <2> QED BY <1>7, <2>7 DEF x
  <1>8. CASE k = "ControllersMotorsRumbleRequest"
    <2> DEFINE x == Len(Layout("ControllersMotorsRumbleRequest", n))
               q == <<"motorID", 1>>
               r == <<"intensity", 1>>
               A == Bytes(1, Fields.ControllerIdentifier)
    <2>1. Layout("ControllersMotorsRumbleRequest", n) = A \o Bytes(0, <<q, r>>)
      BY Structs DEF Layout, RumbleLayout, IdentifierLayout
    <2>2. q \in Member /\ r \in Member /\ q[2] = 1 /\ r[2] = 1
      BY Structs
    <2>3. Len(A) = 8 /\ A \in Seq(ByteName)
      BY Sizes, SliceBytes
    <2> HIDE DEF q, r, A
    <2>4. <<q, r>> \in Seq(Member) /\ Len(Bytes(0, <<q, r>>)) = q[2] + r[2]
      BY <2>2, SizeOfTwo, Tuples
    <2>5. Bytes(0, <<q, r>>) \in Seq(ByteName)
      BY <2>4, BytesType
    <2>6. Len(A \o Bytes(0, <<q, r>>)) = Len(A) + Len(Bytes(0, <<q, r>>))
      BY <2>3, <2>5, ConcatAt, Zenon
    <2>7. x = 8 + (1 + 1)
      BY <2>1, <2>2, <2>3, <2>4, <2>6, Zenon
    <2> HIDE DEF x
    <2>8. SizeVerdict("ControllersMotorsRumbleRequest", x) = "None"
      BY <2>7 DEF SizeVerdict
    <2> QED BY <1>8, <2>8 DEF x
  <1> QED BY <1>1, <1>2, <1>3, <1>4, <1>5, <1>6, <1>7, <1>8 DEF Kinds, Lossy
-----------------------------------------------------------------------------
(***************************************************************************)
(* The inductive invariant.                                                *)
(***************************************************************************)

Types ==
    /\ kind \in Kinds
    /\ count \in 0 .. MaxCount
    /\ magic \in Magic
    /\ wire \in Seq(ByteName)
    /\ buf \in Seq(ByteName)
    /\ todo \in Seq(ReadType)
    /\ pos \in 0 .. Len(buf)
    /\ got \subseteq ByteName \X ByteName
    /\ err \in {"None", "ErrInvalidLength", "ErrInvalidPacket", "ErrParseError", "crash"}
    /\ pc \in {"serialize", "receive", "test", "read", "done"}

\* What was sent: the layout, and in a packet the CRC of it zeroed.
Sent ==
    /\ pc = "serialize" => wire = <<>>
    /\ pc # "serialize" => wire = Layout(kind, count)
    /\ IF pc # "serialize" /\ kind = "Packet"
       THEN crcOf = Zeroed(wire) /\ crc = compute_crc32(Values(crcOf))
       ELSE crcOf = <<>> /\ crc = {}

\* What arrived: the bytes sent, as far as they go, then extra ones.
Arrived ==
    /\ pc \in {"serialize", "receive"} => buf = <<>>
    /\ \A t \in 1 .. Len(buf) : buf[t] = IF t <= Len(wire) THEN wire[t] ELSE Extra

\* All the bytes that deserialize stores to, in order.
Stored == Dest(Reads(kind, count, Len(buf)))

\* Either a read to come must fail, or those made took the first pos bytes and
\* the others go on from there.
Progress ==
    \/ kind \in Lossy /\ Doomed(todo)
    \/ /\ Plain(Reads(kind, count, Len(buf)))
       /\ Plain(todo)
       /\ pos + Len(Dest(todo)) = Len(Stored)
       /\ \A j \in 1 .. Len(Dest(todo)) : Dest(todo)[j] = Stored[pos + j]
       /\ got = {<<Stored[t], buf[t]>> : t \in 1 .. pos}

Reading ==
    /\ pc \in {"serialize", "receive", "test"}
         => todo = <<>> /\ pos = 0 /\ got = {} /\ err = "None"
    /\ pc = "read" => err = "None"
    /\ pc \in {"read", "done"} /\ err = "None"
         => SizeVerdict(kind, Len(buf)) = "None" /\ ~ IsReply /\ Progress
    /\ pc = "done" /\ err = "None" => todo = <<>>

IInv == Types /\ Sent /\ Arrived /\ Reading /\ RoundTrip

\* What serialize writes is a sequence of bytes.
LEMMA LayoutType ==
    ASSUME NEW k \in Kinds, NEW n \in Nat
    PROVE  Layout(k, n) \in Seq(ByteName)
  <1> DEFINE W == Seq(ByteName)
  <1>1. \A p \in Nat : \A l \in DOMAIN Fields : Bytes(p, Fields[l]) \in W
    BY Structs, BytesType
  <1>2. \A s, t \in W : s \o t \in W
    BY ConcatProperties
  <1>3. \A f \in Member : Bytes(0, <<f>>) \in W
    BY Tuples, BytesType
  <1>4. CASE k \in DOMAIN Fields
    <2>1. Layout(k, n) = Bytes(0, Fields[k])
      BY <1>4, Structs DEF Layout
    <2> QED BY <1>1, <1>4, <2>1, Zenon
  <1>5. CASE k = "Packet"
    <2>1. Layout("Packet", n) = PacketLayout(n)
      BY Structs DEF Layout
    <2> QED BY <1>5, <2>1, PacketBytes, Zenon
  <1>6. CASE k = "ProtocolVersionRequest"
    <2>1. Layout("ProtocolVersionRequest", n) = <<>>
      BY Structs DEF Layout
    <2> HIDE DEF W
    <2>2. <<>> \in W
      BY DEF W
    <2> QED BY <1>6, <2>1, <2>2, Zenon DEF W
  <1>7. CASE k = "ControllersInfoRequest"
    <2> DEFINE p == <<"ports", 4>>
               q == <<"slots", n>>
    <2>1. Layout("ControllersInfoRequest", n) = Bytes(0, <<p, q>>)
      BY Structs DEF Layout, InfoRequestLayout
    <2>2. p \in Member /\ q \in Member
      BY Structs
    <2> HIDE DEF p, q
    <2>3. Bytes(0, <<p, q>>) \in Seq(ByteName)
      BY <2>2, Tuples, BytesType
    <2> QED BY <1>7, <2>1, <2>3, Zenon
  <1>8. CASE k = "ControllerInfoResponse"
    <2> DEFINE f == <<"_", 1>>
               S == Fields.ControllerInfoShared
    <2>1. Layout("ControllerInfoResponse", n) = Bytes(1, S \o <<f>>)
      BY Structs DEF Layout, InfoEntryLayout
    <2>2. f \in Member /\ <<f>> \in Seq(Member) /\ S \in Seq(Member)
      BY Structs, Tuples
    <2> HIDE DEF f, S
    <2>3. Bytes(1, S \o <<f>>) \in Seq(ByteName)
      <3>1. S \o <<f>> \in Seq(Member) /\ 1 \in Nat
        BY <2>2, ConcatProperties
      <3> QED BY <3>1, BytesType, Zenon
    <2> QED BY <1>8, <2>1, <2>3, Zenon
  <1>9. CASE k = "ControllersInfoResponse"
    <2> DEFINE f == <<"_", 4>>
               S == Fields.ControllerInfoShared
               s == [i \in 1 .. n |-> Bytes(i, S \o <<f>>)]
    <2>1. Layout("ControllersInfoResponse", n) = FlattenSeq(s)
      BY Structs DEF Layout, InfoEntries
    <2>2. f \in Member /\ <<f>> \in Seq(Member) /\ S \in Seq(Member)
      BY Structs, Tuples
    <2> HIDE DEF f, S
    <2>3. \A i \in 1 .. n : Bytes(i, S \o <<f>>) \in W
      <3>1. S \o <<f>> \in Seq(Member) /\ \A i \in 1 .. n : i \in Nat
        BY <2>2, ConcatProperties
      <3> QED BY <3>1, BytesType, Zenon
    <2> HIDE DEF W
    <2>4. s \in [1 .. n -> W]
      BY <2>3, Zenon
    <2> HIDE DEF s
    <2>5. s \in Seq(W)
      BY <2>4
    <2>6. FlattenSeq(s) \in W
      BY <2>5, FlattenType DEF W
    <2> QED BY <1>9, <2>1, <2>6, Zenon DEF W
  <1>10. CASE k \in {"ControllersDataRequest", "ControllersMotorsRequest"}
    <2>1. Layout(k, n) = Bytes(1, Fields.ControllerIdentifier)
      BY <1>10, Structs DEF Layout, IdentifierLayout
    <2> QED BY <2>1, SliceBytes
  <1>11. CASE k = "ControllersMotorsResponse"
    <2> DEFINE f == <<"motorCount", 1>>
               A == Bytes(1, Fields.ControllerInfoShared)
    <2>1. Layout("ControllersMotorsResponse", n) = A \o Bytes(0, <<f>>)
      BY Structs DEF Layout, MotorsLayout
    <2>2. f \in Member /\ A \in W
      BY Structs, SliceBytes
    <2> HIDE DEF f, A, W
    <2> QED BY <1>2, <1>3, <1>11, <2>1, <2>2, Zenon DEF W
  <1>12. CASE k = "ControllersMotorsRumbleRequest"
    <2> DEFINE q == <<"motorID", 1>>
               r == <<"intensity", 1>>
               A == Bytes(1, Fields.ControllerIdentifier)
    <2>1. Layout("ControllersMotorsRumbleRequest", n) = A \o Bytes(0, <<q, r>>)
      BY Structs DEF Layout, RumbleLayout, IdentifierLayout
    <2>2. q \in Member /\ r \in Member /\ A \in W
      BY Structs, SliceBytes
    <2> HIDE DEF q, r, A
    <2>3. Bytes(0, <<q, r>>) \in W
      BY <2>2, Tuples, BytesType
    <2> HIDE DEF W
    <2> QED BY <1>2, <1>12, <2>1, <2>2, <2>3, Zenon DEF W
  <1>13. CASE k = "ControllersDataResponse"
    <2> DEFINE f == <<"timestamp", 8>>
               a == Bytes(1, Fields.ControllerInfoShared)
               b == Bytes(0, PadFields)
               c == Bytes(2, Fields.Touch)
               d == Bytes(3, Fields.Touch)
               e == Bytes(0, <<f>>)
               g == Bytes(4, Fields.Vectors3f)
               h == Bytes(5, Fields.Vectors3f)
    <2>1. Layout("ControllersDataResponse", n) = (((((a \o b) \o c) \o d) \o e) \o g) \o h
      BY Structs DEF Layout, PadLayout
    <2>2. f \in Member
      BY Structs
    <2>3. {"ControllerInfoShared", "Touch", "Vectors3f"} \subseteq DOMAIN Fields
      BY Structs
    <2>4. a \in W /\ c \in W /\ d \in W /\ g \in W /\ h \in W
      <3>1. {1, 2, 3, 4, 5} \subseteq Nat
        OBVIOUS
      <3> QED BY <1>1, <2>3, <3>1
    <2>5. b \in W
      BY Structs, BytesType
    <2> HIDE DEF f
    <2>6. e \in W
      BY <1>3, <2>2
    <2> HIDE DEF a, b, c, d, e, g, h, W
    <2>7. (((((a \o b) \o c) \o d) \o e) \o g) \o h \in W
      BY <1>2, <2>4, <2>5, <2>6
    <2> QED BY <1>13, <2>1, <2>7, Zenon DEF W
  <1> QED BY <1>4, <1>5, <1>6, <1>7, <1>8, <1>9, <1>10, <1>11, <1>12, <1>13 DEF Kinds

\* The CRC is put back where it was taken out.
LEMMA Restored ==
    ASSUME NEW n \in Nat
    PROVE  Patched(Zeroed(PacketLayout(n))) = PacketLayout(n)
  <1> DEFINE l == PacketLayout(n)
  <1>1. /\ l \in Seq(ByteName) /\ Len(l) = 20 + n
        /\ \A i \in 1 .. 20 + n : i \in CrcField => l[i] = <<0, "crc32", i - 8>>
    BY PacketBytes, PacketCrc
  <1> HIDE DEF l
  <1>2. DOMAIN l = 1 .. 20 + n /\ l = [i \in DOMAIN l |-> l[i]]
    BY <1>1
  <1>3. Patched(Zeroed(l)) = [i \in DOMAIN l |-> l[i]]
    BY <1>1, <1>2 DEF Patched, Zeroed
  <1> QED BY <1>2, <1>3, Zenon DEF l

\* One lemma for the initial states, then one for each action.
LEMMA InitInv ==
    Init => IInv
  <1> SUFFICES ASSUME Init PROVE IInv
    OBVIOUS
  <1> USE DEF Init
  <1>1. Types
    BY CodecAssumption DEF Types, Magic
  <1>2. Sent /\ Arrived /\ Reading /\ RoundTrip
    BY DEF Sent, Arrived, Reading, RoundTrip
  <1> QED BY <1>1, <1>2 DEF IInv

LEMMA SerializeInv ==
    ASSUME IInv, Serialize PROVE IInv'
  <1> USE DEF Serialize
  <1>1. kind \in Kinds /\ count \in Nat
    BY CodecAssumption DEF IInv, Types
  <1>2. wire' = Layout(kind, count)
    <2>1. CASE kind = "Packet"
      <3>1. Layout(kind, count) = PacketLayout(count)
        BY <2>1, Structs DEF Layout
      <3> QED BY <1>1, <2>1, <3>1, Restored
    <2>2. CASE kind # "Packet"
      BY <2>2
    <2> QED BY <2>1, <2>2
  <1>3. wire' \in Seq(ByteName)
    BY <1>1, <1>2, LayoutType
  <1>4. Types'
    BY <1>3 DEF IInv, Types
  <1>5. Sent'
    <2>1. CASE kind = "Packet"
      <3>1. /\ wire' = Patched(Zeroed(Layout(kind, count)))
            /\ crcOf' = Zeroed(Layout(kind, count))
            /\ crc' = compute_crc32(Values(Zeroed(Layout(kind, count))))
        BY <2>1
      <3>2. Values(crcOf)' = Values(crcOf')
        BY DEF Values
      <3> QED BY <1>2, <2>1, <3>1, <3>2 DEF Sent
    <2>2. CASE kind # "Packet"
      <3>1. crcOf = <<>> /\ crc = {}
        BY <2>2 DEF IInv, Sent
      <3> QED BY <1>2, <2>2, <3>1 DEF Sent
    <2> QED BY <2>1, <2>2
  <1>6. Arrived'
    <2>1. buf' = <<>>
      BY DEF IInv, Arrived
    <2> QED BY <2>1 DEF Arrived
  <1>7. Reading'
    BY DEF IInv, Reading
  <1>8. RoundTrip'
    BY DEF RoundTrip
  <1> QED BY <1>4, <1>5, <1>6, <1>7, <1>8 DEF IInv

LEMMA ReceiveInv ==
    ASSUME IInv, Receive PROVE IInv'
  <1> USE DEF Receive
  <1>1. wire \in Seq(ByteName)
    BY DEF IInv, Types
  <1>2. Extra \in ByteName
    <2>1. "extra" \in Names
      BY DEF Names
    <2> QED BY <2>1 DEF Extra, ByteName
  <1>3. /\ buf' \in Seq(ByteName)
        /\ \A t \in 1 .. Len(buf') : buf'[t] = IF t <= Len(wire) THEN wire[t] ELSE Extra
    <2>1. ASSUME NEW n \in 0 .. Len(wire), buf' = SubSeq(wire, 1, n) PROVE <1>3
      <3>1. /\ SubSeq(wire, 1, n) \in Seq(ByteName) /\ Len(SubSeq(wire, 1, n)) = n
            /\ \A t \in 1 .. n : SubSeq(wire, 1, n)[t] = wire[t]
        BY <1>1
      <3>2. \A t \in 1 .. n : t <= Len(wire)
        BY <1>1
      <3> QED BY <2>1, <3>1, <3>2
    <2>2. ASSUME NEW n \in 1 .. MaxExtra, buf' = wire \o [i \in 1 .. n |-> Extra] PROVE <1>3
      <3> DEFINE e == [i \in 1 .. n |-> Extra]
      <3>1. n \in Nat
        BY CodecAssumption
      <3>2. e \in Seq(ByteName) /\ Len(e) = n /\ \A i \in 1 .. n : e[i] = Extra
        BY <1>2, <3>1
      <3> HIDE DEF e
      <3>3. /\ wire \o e \in Seq(ByteName) /\ Len(wire \o e) = Len(wire) + Len(e)
            /\ Len(wire) \in Nat
            /\ \A i \in 1 .. Len(wire) + Len(e) :
                  (wire \o e)[i] = IF i <= Len(wire) THEN wire[i] ELSE e[i - Len(wire)]
        <4>1. Len(wire) \in Nat
          BY <1>1
        <4>2. e \in Seq(ByteName)
          BY <3>2
        <4> QED BY <1>1, <4>1, <4>2, ConcatProperties, Zenon
      <3>4. buf' = wire \o e
        BY <2>2 DEF e
      <3>5. ASSUME NEW t \in 1 .. Len(buf')
            PROVE  buf'[t] = IF t <= Len(wire) THEN wire[t] ELSE Extra
        <4>1. t \in 1 .. Len(wire) + Len(e)
          BY <3>3, <3>4
        <4>2. CASE t <= Len(wire)
          BY <3>3, <3>4, <4>1, <4>2
        <4>3. CASE t > Len(wire)
          <5>1. t - Len(wire) \in 1 .. n /\ ~ (t <= Len(wire))
            BY <3>1, <3>2, <3>3, <4>1, <4>3
          <5> QED BY <3>2, <3>3, <3>4, <4>1, <5>1
        <4> QED BY <3>3, <4>1, <4>2, <4>3
      <3> QED BY <3>3, <3>4, <3>5
    <2> QED BY <2>1, <2>2
  <1>4. todo = <<>> /\ pos = 0 /\ got = {} /\ err = "None"
    BY DEF IInv, Reading
  <1>5. Types'
    <2>1. 0 \in 0 .. Len(buf')
      BY <1>3
    <2> QED BY <1>3, <1>4, <2>1 DEF IInv, Types
  <1>6. Sent' /\ Arrived' /\ Reading' /\ RoundTrip'
    BY <1>3 DEF IInv, Sent, Arrived, Reading, Values, IsReply, RoundTrip
  <1> QED BY <1>5, <1>6 DEF IInv

LEMMA TestPassesInv ==
    ASSUME IInv, TestPasses PROVE IInv'
  <1> USE DEF TestPasses
  <1> DEFINE m == Len(buf)
             R == Reads(kind, count, m)
  <1>1. /\ kind \in Kinds /\ count \in Nat /\ m \in Nat /\ buf \in Seq(ByteName)
        /\ SizeVerdict(kind, m) = "None" /\ ~ IsReply
    BY CodecAssumption DEF IInv, Types, TestVerdict
  <1>2. Faithful(kind, count, m)
    BY <1>1, AllFaithful
  <1>3. todo' = R /\ pos' = 0 /\ got' = {} /\ err' = "None" /\ pos = 0 /\ got = {}
    BY DEF IInv, Reading
  <1>4. R \in Seq(ReadType)
    BY <1>2 DEF Faithful
  <1>5. Types'
    BY <1>3, <1>4 DEF IInv, Types
  <1>6. Sent' /\ Arrived' /\ RoundTrip'
    BY DEF IInv, Sent, Arrived, Values, IsReply, RoundTrip
  <1>7. Progress'
    <2>1. CASE kind \in Lossy /\ Doomed(R)
      BY <1>3, <2>1 DEF Progress
    <2>2. CASE Plain(R)
      <3>1. Dest(R) \in Seq(ByteName)
        BY <1>4, TargetsType
      <3>2. Stored' = Dest(R) /\ Reads(kind, count, Len(buf))' = R
        BY DEF Stored
      <3> HIDE DEF R
      <3>3. /\ 0 + Len(Dest(R)) = Len(Dest(R))
            /\ \A j \in 1 .. Len(Dest(R)) : 0 + j = j
        BY <3>1
      <3>4. {} = {<<Dest(R)[t], buf'[t]>> : t \in 1 .. 0}
        OBVIOUS
      <3> QED BY <1>3, <2>2, <3>2, <3>3, <3>4 DEF Progress
    <2> QED BY <1>2, <2>1, <2>2 DEF Faithful
  <1>8. Reading'
    BY <1>1, <1>3, <1>7 DEF Reading, IsReply
  <1> QED BY <1>5, <1>6, <1>8 DEF IInv

\* A test or a read fails, whatever arrived: never for a struct that is to be
\* read back from what was sent, unless it is a reply and its magic is refused.
LEMMA FailInv ==
    ASSUME IInv,
           NEW e \in {"ErrInvalidLength", "ErrInvalidPacket", "ErrParseError", "crash"},
           Fail(e), pc \in {"test", "read"},
           buf = wire => \/ kind \in Lossy
                         \/ kind = "ControllersInfoRequest" /\ ~ (count < 5)
                         \/ IsReply /\ e = "ErrInvalidPacket"
    PROVE  IInv'
  <1> USE DEF Fail
  <1>1. Types'
    BY DEF IInv, Types
  <1>2. Sent' /\ Arrived' /\ Reading' /\ RoundTrip'
    BY DEF IInv, Sent, Arrived, Reading, Values, IsReply, RoundTrip
  <1> QED BY <1>1, <1>2 DEF IInv

LEMMA TestFailsInv ==
    ASSUME IInv, TestFails PROVE IInv'
  <1> DEFINE v == SizeVerdict(kind, Len(buf))
  <1>1. kind \in Kinds /\ count \in Nat /\ Len(buf) \in Nat
    BY CodecAssumption DEF IInv, Types
  <1>2. v \in Verdicts
    BY <1>1, VerdictType
  <1>3. /\ TestVerdict = IF v = "None" /\ IsReply THEN "ErrInvalidPacket" ELSE v
        /\ TestVerdict # "None" /\ Fail(TestVerdict) /\ pc = "test"
    BY DEF TestFails, TestVerdict
  <1>4. ASSUME buf = wire, kind \notin Lossy, kind = "ControllersInfoRequest" => count < 5
        PROVE  v = "None"
    <2>1. wire = Layout(kind, count)
      BY <1>3 DEF IInv, Sent
    <2> QED BY <1>1, <1>4, <2>1, OwnSize
  <1> HIDE DEF v
  <1>5. TestVerdict \in {"ErrInvalidLength", "ErrInvalidPacket", "ErrParseError", "crash"}
    BY <1>2, <1>3 DEF Verdicts
  <1>6. ASSUME buf = wire, kind \notin Lossy, kind = "ControllersInfoRequest" => count < 5
        PROVE  IsReply /\ TestVerdict = "ErrInvalidPacket"
    BY <1>3, <1>4, <1>6
  <1> QED BY <1>3, <1>5, <1>6, FailInv

\* What Progress says of the next read of a struct that is read back.
LEMMA NextRead ==
    ASSUME IInv, pc = "read", todo # <<>>, kind \notin Lossy
    PROVE  /\ PlainRead(Head(todo))
           /\ Head(todo).take \in Nat /\ Len(Stored) \in Nat
           /\ pos + Head(todo).take <= Len(Stored)
  <1> DEFINE D == Stored
             h == Head(todo)
             d == Dest(todo)
             q == Dest(Tail(todo))
  <1>1. /\ kind \in Kinds /\ count \in Nat /\ Len(buf) \in Nat /\ todo \in Seq(ReadType)
        /\ pos \in Nat
    BY CodecAssumption DEF IInv, Types
  <1>2. SizeVerdict(kind, Len(buf)) = "None" /\ Progress
    BY DEF IInv, Reading
  <1>3. Plain(todo) /\ pos + Len(d) = Len(D)
    BY <1>2 DEF Progress
  <1>4. Len(D) \in Nat
    <2>1. Reads(kind, count, Len(buf)) \in Seq(ReadType)
      BY <1>1, <1>2, AllFaithful DEF Faithful
    <2> QED BY <2>1, TargetsType DEF Stored
  <1>5. h \in ReadType /\ Tail(todo) \in Seq(ReadType) /\ d = h.to \o q
    BY <1>1, DestTail
  <1>6. h.to \in Seq(ByteName) /\ q \in Seq(ByteName)
    BY <1>5, TargetsType DEF ReadType
  <1>7. PlainRead(h)
    <2>1. 1 \in 1 .. Len(todo) /\ h = todo[1]
      BY <1>1
    <2> QED BY <1>3, <2>1 DEF Plain
  <1> HIDE DEF D, h, d, q
  <1>8. Len(d) = Len(h.to) + Len(q) /\ Len(h.to) \in Nat /\ Len(q) \in Nat
    BY <1>5, <1>6, ConcatAt
  <1>9. h.take = Len(h.to)
    BY <1>7 DEF PlainRead
  <1>10. h.take \in Nat /\ pos + h.take <= Len(D)
    BY <1>1, <1>3, <1>8, <1>9
  <1> QED BY <1>4, <1>7, <1>10 DEF h, D

\* The reads of a packet fit whatever arrived.
LEMMA PacketFits ==
    ASSUME IInv, pc = "read", kind = "Packet"
    PROVE  kind \notin Lossy /\ Len(Stored) = Len(buf)
  <1>1. kind \in Kinds /\ kind \notin Lossy /\ count \in Nat /\ Len(buf) \in Nat
    BY CodecAssumption DEF IInv, Types, Lossy
  <1>2. SizeVerdict(kind, Len(buf)) = "None"
    BY DEF IInv, Reading
  <1>3. NoMore(kind, count, Len(buf))
    BY <1>1, <1>2, AllFaithful DEF Faithful
  <1> QED BY <1>1, <1>3 DEF NoMore, Stored

\* Of a struct that is to be read back from what was sent, no read fails.
LEMMA ReadsBack ==
    ASSUME IInv, pc = "read", todo # <<>>, buf = wire, kind \notin Lossy,
           kind = "ControllersInfoRequest" => count < 5
    PROVE  PlainRead(Head(todo)) /\ pos + Head(todo).take <= Len(buf)
  <1>1. /\ kind \in Kinds /\ count \in Nat /\ Len(buf) \in Nat
        /\ pos \in Nat /\ wire = Layout(kind, count)
    BY CodecAssumption DEF IInv, Types, Sent
  <1>2. SizeVerdict(kind, Len(buf)) = "None"
    BY DEF IInv, Reading
  <1>3. Len(Stored) <= Len(buf)
    <2>1. CASE kind = "Packet"
      BY <1>1, <2>1, PacketFits
    <2>2. CASE kind # "Packet"
      <3>1. NoMore(kind, count, Len(buf))
        BY <1>1, <1>2, AllFaithful DEF Faithful
      <3> QED BY <1>1, <2>2, <3>1 DEF NoMore, Stored
    <2> QED BY <2>1, <2>2
  <1>4. /\ PlainRead(Head(todo))
        /\ Head(todo).take \in Nat /\ Len(Stored) \in Nat
        /\ pos + Head(todo).take <= Len(Stored)
    BY NextRead
  <1> QED BY <1>1, <1>3, <1>4

LEMMA ReadPastEndInv ==
    ASSUME IInv, ReadPastEnd PROVE IInv'
  <1>1. pc = "read" /\ todo # <<>> /\ ~ (pos + Head(todo).take <= Len(buf))
        /\ Fail("ErrParseError")
    <2>1. todo \in Seq(ReadType) /\ pos \in Nat /\ Len(buf) \in Nat
      BY DEF IInv, Types
    <2>2. Head(todo) \in ReadType
      BY <2>1, DestTail DEF ReadPastEnd
    <2>3. Head(todo).take \in Nat
      BY <2>2 DEF ReadType
    <2> QED BY <2>1, <2>3 DEF ReadPastEnd
  <1> QED BY <1>1, ReadsBack, FailInv

LEMMA ReadInsideFailsInv ==
    ASSUME IInv, ReadInsideFails PROVE IInv'
  <1>1. Head(todo).verdict \in Verdicts
    <2>1. Head(todo) \in ReadType
      BY DestTail DEF IInv, Types, ReadInsideFails
    <2> QED BY <2>1 DEF ReadType
  <1>2. /\ pc = "read" /\ todo # <<>> /\ ~ PlainRead(Head(todo))
        /\ Head(todo).verdict \in {"ErrInvalidLength", "ErrParseError", "crash"}
        /\ Fail(Head(todo).verdict)
    BY <1>1 DEF ReadInsideFails, PlainRead, Verdicts
  <1> QED BY <1>2, ReadsBack, FailInv

LEMMA SkipCrashesInv ==
    ASSUME IInv, SkipCrashes PROVE IInv'
  <1>1. pc = "read" /\ todo # <<>> /\ ~ PlainRead(Head(todo)) /\ Fail("crash")
    BY DEF SkipCrashes, PlainRead
  <1> QED BY <1>1, ReadsBack, FailInv

LEMMA ReadInv ==
    ASSUME IInv, Read PROVE IInv'
  <1> USE DEF Read
  <1> DEFINE D == Stored
             h == Head(todo)
             w == h.take
             d == Dest(todo)
             q == Dest(Tail(todo))
  <1>1. /\ todo \in Seq(ReadType) /\ todo # <<>> /\ buf \in Seq(ByteName)
        /\ Len(buf) \in Nat
        /\ pos \in Nat /\ got \subseteq ByteName \X ByteName
    BY DEF IInv, Types
  <1>2. h \in ReadType /\ Tail(todo) \in Seq(ReadType) /\ d = h.to \o q
    BY <1>1, DestTail
  <1>3. h.to \in Seq(ByteName) /\ q \in Seq(ByteName) /\ w \in Nat /\ Len(h.to) <= w
    BY <1>2, TargetsType DEF ReadType
  <1>4. /\ todo' = Tail(todo) /\ pos' = pos + w /\ got' = got \union Taken
        /\ pos + w <= Len(buf) /\ buf' = buf /\ kind' = kind /\ count' = count
        /\ wire' = wire /\ crcOf' = crcOf /\ crc' = crc /\ err' = err /\ pc' = pc
        /\ pc = "read" /\ h.verdict = "None"
    OBVIOUS
  <1>5. Taken = {<<h.to[j], buf[pos + j]>> : j \in 1 .. Len(h.to)}
    <2>1. DOMAIN h.to = 1 .. Len(h.to)
      BY <1>3
    <2> QED BY <2>1, Zenon DEF Taken
  <1> HIDE DEF D, h, w, d, q
  <1>6. Types'
    <2>1. Taken \subseteq ByteName \X ByteName
      <3>1. ASSUME NEW j \in 1 .. Len(h.to)
            PROVE  h.to[j] \in ByteName /\ buf[pos + j] \in ByteName
        <4>1. pos + j \in 1 .. Len(buf)
          BY <1>1, <1>3, <1>4
        <4> QED BY <1>1, <1>3, <4>1
      <3> QED BY <1>5, <3>1
    <2>2. pos + w \in 0 .. Len(buf)
      BY <1>1, <1>3, <1>4
    <2> QED BY <1>1, <1>2, <1>4, <2>1, <2>2 DEF IInv, Types
  <1>7. Sent' /\ Arrived' /\ RoundTrip'
    BY <1>4 DEF IInv, Sent, Arrived, Values, IsReply, RoundTrip
  <1>8. SizeVerdict(kind, Len(buf)) = "None" /\ Progress /\ err = "None"
    BY <1>4 DEF IInv, Reading
  <1>9. Progress'
    <2>1. ASSUME kind \in Lossy, Doomed(todo) PROVE Progress'
      <3>1. PICK i \in 1 .. Len(todo) : todo[i].verdict # "None"
        BY <2>1, Zenon DEF Doomed
      <3>2. i # 1
        BY <1>1, <1>4, <3>1 DEF h
      <3>3. /\ i - 1 \in 1 .. Len(Tail(todo))
            /\ Tail(todo)[i - 1] = todo[i]
        BY <1>1, <3>2
      <3>4. Doomed(Tail(todo))
        BY <3>1, <3>3, Zenon DEF Doomed
      <3> QED BY <1>4, <2>1, <3>4 DEF Progress
    <2>2. ASSUME Plain(Reads(kind, count, Len(buf))), Plain(todo), pos + Len(d) = Len(D),
                 \A j \in 1 .. Len(d) : d[j] = D[pos + j],
                 got = {<<D[t], buf[t]>> : t \in 1 .. pos}
          PROVE  Progress'
      <3>1. Plain(Tail(todo))
        <4>1. ASSUME NEW i \in 1 .. Len(Tail(todo)) PROVE PlainRead(Tail(todo)[i])
          <5>1. i + 1 \in 1 .. Len(todo) /\ Tail(todo)[i] = todo[i + 1]
            BY <1>1
          <5> QED BY <2>2, <5>1, Zenon DEF Plain
        <4> QED BY <4>1, Zenon DEF Plain
      <3>2. w = Len(h.to)
        <4>1. 1 \in 1 .. Len(todo) /\ h = todo[1]
          BY <1>1 DEF h
        <4>2. PlainRead(h)
          BY <2>2, <4>1, Zenon DEF Plain
        <4> QED BY <4>2, Zenon DEF PlainRead, w
      <3>3. /\ Len(d) = Len(h.to) + Len(q) /\ Len(h.to) \in Nat /\ Len(q) \in Nat
            /\ \A k \in 1 .. Len(h.to) : d[k] = h.to[k]
            /\ \A k \in 1 .. Len(q) : d[Len(h.to) + k] = q[k]
        BY <1>2, <1>3, ConcatAt
      <3>4. (pos + w) + Len(q) = Len(D)
        BY <1>1, <1>3, <2>2, <3>2, <3>3
      <3>5. ASSUME NEW j \in 1 .. Len(q) PROVE q[j] = D[(pos + w) + j]
        <4>0. Len(d) = w + Len(q) /\ w \in Nat /\ Len(q) \in Nat /\ pos \in Nat
          BY <1>1, <1>3, <3>2, <3>3, Zenon
        <4>1. w + j \in 1 .. Len(d) /\ pos + (w + j) = (pos + w) + j
          BY <4>0
        <4>2. d[w + j] = q[j]
          BY <3>2, <3>3, Zenon
        <4>3. d[w + j] = D[pos + (w + j)]
          BY <2>2, <4>1, Zenon
        <4> QED BY <4>1, <4>2, <4>3, Zenon
      <3>6. got' = {<<D[t], buf[t]>> : t \in 1 .. pos + w}
        <4>1. ASSUME NEW j \in 1 .. w PROVE h.to[j] = D[pos + j] /\ pos + j \in 1 .. pos + w
          <5>1. j \in 1 .. Len(h.to)
            BY <3>2
          <5>2. Len(d) = w + Len(q) /\ w \in Nat /\ Len(q) \in Nat /\ pos \in Nat
            BY <1>1, <1>3, <3>2, <3>3, Zenon
          <5>3. j \in 1 .. Len(d) /\ pos + j \in 1 .. pos + w
            BY <5>2
          <5> QED BY <2>2, <3>3, <5>1, <5>3, Zenon
        <4>2. Taken = {<<D[pos + j], buf[pos + j]>> : j \in 1 .. w}
          BY <1>5, <3>2, <4>1
        <4>3. ASSUME NEW t \in 1 .. pos + w
              PROVE  t \in 1 .. pos \/ \E j \in 1 .. w : t = pos + j
          <5>1. CASE t <= pos
            BY <1>1, <1>3, <5>1
          <5>2. CASE t > pos
            <6>1. t - pos \in 1 .. w /\ t = pos + (t - pos)
              BY <1>1, <1>3, <5>2
            <6> QED BY <6>1
          <5> QED BY <1>1, <1>3, <5>1, <5>2
        <4>4. \A t \in 1 .. pos : t \in 1 .. pos + w
          BY <1>1, <1>3
        <4>5. got \union Taken \subseteq {<<D[t], buf[t]>> : t \in 1 .. pos + w}
          BY <2>2, <4>1, <4>2, <4>4, Zenon
        <4>6. {<<D[t], buf[t]>> : t \in 1 .. pos + w} \subseteq got \union Taken
          <5>1. ASSUME NEW t \in 1 .. pos + w PROVE <<D[t], buf[t]>> \in got \union Taken
            <6>1. CASE t \in 1 .. pos
              <7>1. <<D[t], buf[t]>> \in got
                BY <2>2, <6>1, Zenon
              <7> QED BY <7>1, Zenon
            <6>2. CASE \E j \in 1 .. w : t = pos + j
              <7>1. <<D[t], buf[t]>> \in Taken
                BY <4>2, <6>2, Zenon
              <7> QED BY <7>1, Zenon
            <6> QED BY <4>3, <6>1, <6>2, Zenon
          <5> QED BY <5>1, Zenon
        <4>7. got \union Taken = {<<D[t], buf[t]>> : t \in 1 .. pos + w}
          BY <4>5, <4>6, Zenon
        <4> QED BY <1>4, <4>7
      <3>7. Stored' = D /\ Dest(todo') = q
        BY <1>4 DEF Stored, D, q
      <3>8. /\ Plain(Reads(kind', count', Len(buf'))) /\ Plain(todo')
            /\ pos' + Len(Dest(todo')) = Len(Stored')
            /\ \A j \in 1 .. Len(Dest(todo')) : Dest(todo')[j] = Stored'[pos' + j]
            /\ got' = {<<Stored'[t], buf'[t]>> : t \in 1 .. pos'}
        <4>1. Plain(Reads(kind', count', Len(buf'))) /\ Plain(todo')
          BY <1>4, <2>2, <3>1, Zenon
        <4>2. Len(Dest(todo')) = Len(q) /\ Len(Stored') = Len(D)
          BY <3>7, Zenon
        <4>3. pos' + Len(Dest(todo')) = Len(Stored')
          BY <1>4, <3>4, <4>2, Zenon
        <4>4. \A j \in 1 .. Len(Dest(todo')) : Dest(todo')[j] = Stored'[pos' + j]
          BY <1>4, <3>5, <3>7, Zenon
        <4>5. got' = {<<Stored'[t], buf'[t]>> : t \in 1 .. pos'}
          BY <1>4, <3>6, <3>7, Zenon
        <4> QED BY <4>1, <4>3, <4>4, <4>5, Zenon
      <3> QED BY <3>8, Zenon DEF Progress
    <2> QED BY <1>8, <2>1, <2>2 DEF Progress, D, d
  <1>10. Reading'
    BY <1>4, <1>8, <1>9 DEF IInv, Reading, IsReply
  <1> QED BY <1>6, <1>7, <1>10 DEF IInv

LEMMA ReturnInv ==
    ASSUME IInv, Return PROVE IInv'
  <1> USE DEF Return
  <1>1. Types' /\ Sent' /\ Arrived'
    BY DEF IInv, Types, Sent, Values, Arrived
  <1>2. Progress' /\ SizeVerdict(kind, Len(buf)) = "None" /\ err = "None"
    <2>1. Progress /\ SizeVerdict(kind, Len(buf)) = "None" /\ err = "None"
      BY DEF IInv, Reading
    <2> QED BY <2>1 DEF Progress, Stored
  <1>3. ~ IsReply /\ IsReply' = IsReply
    BY DEF IInv, Reading, IsReply
  <1>4. Reading' /\ RoundTrip'
    BY <1>2, <1>3 DEF Reading, RoundTrip
  <1> QED BY <1>1, <1>4 DEF IInv

LEMMA StutterInv ==
    ASSUME IInv, UNCHANGED vars PROVE IInv'
  BY DEF IInv, Types, Sent, Values, Arrived, Reading, Progress, Stored, RoundTrip, IsReply,
         vars

\* The invariant holds in every state.
THEOREM Invariance == Spec => []IInv
  <1>1. Init => IInv
    BY InitInv
  <1>2. IInv /\ [Next]_vars => IInv'
    BY SerializeInv, ReceiveInv, TestPassesInv, TestFailsInv, ReadInv, ReadPastEndInv,
       ReadInsideFailsInv, SkipCrashesInv, ReturnInv, StutterInv DEF Next, Deserialize
  <1> QED BY <1>1, <1>2, PTL DEF Spec
-----------------------------------------------------------------------------
(***************************************************************************)
(* The properties.                                                         *)
(***************************************************************************)

\* A byte of a packet is one of the bytes of the longest packet.
LEMMA PacketContent ==
    ASSUME NEW n \in 0 .. MaxCount, NEW i \in 1 .. 20 + n, NEW m \in Magic
    PROVE  Content(PacketLayout(n)[i], m) \in Byte
  <1> DEFINE L == PacketLayout(MaxCount)
             w == PacketLayout(n)
  <1>1. n \in Nat /\ MaxCount \in Nat /\ n <= MaxCount
    BY CodecAssumption
  <1>2. L \in Seq(ByteName) /\ Len(L) = 20 + MaxCount
    BY <1>1, PacketBytes
  <1>3. ASSUME NEW j \in 1 .. 20 + MaxCount PROVE L[j] \in ToSet(L)
    <2>1. j \in DOMAIN L
      BY <1>2
    <2> QED BY <2>1 DEF ToSet
  <1>4. CASE i <= 20
    <2>1. i \in 1 .. 20 /\ i \in 1 .. 20 + MaxCount
      BY <1>1, <1>4
    <2>2. w[i] = Bytes(0, HeadFields)[i] /\ L[i] = Bytes(0, HeadFields)[i]
      BY <1>1, <2>1, PacketBytes
    <2> QED BY <1>3, <2>1, <2>2, ContentAssumption
  <1>5. CASE i > 20
    <2> DEFINE j == i - 20
    <2>1. j \in 1 .. n /\ j \in 1 .. MaxCount /\ 20 + j = i /\ i \in 1 .. 20 + MaxCount
      BY <1>1, <1>5
    <2> HIDE DEF j
    <2>2. w[20 + j] = <<0, "body", j>> /\ L[20 + j] = <<0, "body", j>>
      BY <1>1, <2>1, PacketBytes
    <2>3. w[i] = L[i]
      BY <2>1, <2>2, Zenon
    <2> QED BY <1>3, <2>1, <2>3, ContentAssumption
  <1> QED BY <1>1, <1>4, <1>5

\* What the CRC of a packet is computed over.
LEMMA PacketZeroed ==
    ASSUME NEW n \in 0 .. MaxCount, magic \in Magic
    PROVE  LET w == PacketLayout(n) IN
           /\ Zeroed(w) \in Seq(ByteName) /\ Len(Zeroed(w)) = Len(w)
           /\ \A i \in DOMAIN w :
                 Zeroed(w)[i] = IF w[i][2] = "crc32" THEN Zero ELSE w[i]
           /\ Values(Zeroed(w)) \in Seq(Byte)
           /\ Values(Zeroed(w)) = [i \in DOMAIN w |->
                                      IF w[i][2] = "crc32" THEN {} ELSE Content(w[i], magic)]
  <1> DEFINE w == PacketLayout(n)
             z == Zeroed(w)
             v == Values(z)
  <1>1. n \in Nat /\ n \in 0 .. MaxCount
    BY CodecAssumption
  <1>2. w \in Seq(ByteName) /\ Len(w) = 20 + n /\ DOMAIN w = 1 .. 20 + n
    BY <1>1, PacketBytes
  <1>3. Zero \in ByteName /\ Zero[2] = "zero" /\ {} \in Byte
    BY DEF Zero, ByteName, Names, Byte
  <1>4. ASSUME NEW i \in 1 .. 20 + n
        PROVE  /\ i \in CrcField <=> w[i][2] = "crc32"
               /\ w[i] # Zero /\ w[i] \in ByteName /\ Content(w[i], magic) \in Byte
    <2>1. /\ i \in CrcField => w[i] = <<0, "crc32", i - 8>>
          /\ i \notin CrcField => w[i][2] # "crc32"
          /\ w[i][2] # "zero"
      BY <1>1, PacketCrc
    <2>2. i \in CrcField => w[i][2] = "crc32"
      BY <2>1
    <2>3. w[i] # Zero
      BY <1>3, <2>1, Zenon
    <2>4. Content(w[i], magic) \in Byte
      BY PacketContent
    <2> QED BY <1>2, <2>1, <2>2, <2>3, <2>4
  <1>5. z = [i \in 1 .. 20 + n |-> IF i \in CrcField THEN Zero ELSE w[i]]
    BY <1>2, Zenon DEF Zeroed
  <1> HIDE DEF w
  <1>6. z \in Seq(ByteName) /\ Len(z) = 20 + n /\ DOMAIN z = 1 .. 20 + n
    BY <1>1, <1>3, <1>4, <1>5
  <1>7. v = [i \in 1 .. 20 + n |-> IF z[i] = Zero THEN {} ELSE Content(z[i], magic)]
    BY <1>6, Zenon DEF Values
  <1> HIDE DEF z, v
  <1>8. ASSUME NEW i \in 1 .. 20 + n
        PROVE  /\ z[i] = IF w[i][2] = "crc32" THEN Zero ELSE w[i]
               /\ v[i] = IF w[i][2] = "crc32" THEN {} ELSE Content(w[i], magic)
               /\ v[i] \in Byte
    <2>1. z[i] = IF i \in CrcField THEN Zero ELSE w[i]
      BY <1>5, Zenon
    <2>2. v[i] = IF z[i] = Zero THEN {} ELSE Content(z[i], magic)
      BY <1>7, Zenon
    <2>3. CASE i \in CrcField
      BY <1>3, <1>4, <2>1, <2>2, <2>3
    <2>4. CASE i \notin CrcField
      BY <1>4, <2>1, <2>2, <2>4
    <2> QED BY <2>3, <2>4
  <1>9. v = [i \in 1 .. 20 + n |-> IF w[i][2] = "crc32" THEN {} ELSE Content(w[i], magic)]
    BY <1>7, <1>8
  <1>10. v \in Seq(Byte)
    <2> DEFINE m == 20 + n
    <2>1. m \in Nat /\ v = [i \in 1 .. m |-> IF z[i] = Zero THEN {} ELSE Content(z[i], magic)]
      BY <1>1, <1>7
    <2>2. \A i \in 1 .. m : v[i] \in Byte
      BY <1>8
    <2> HIDE DEF m
    <2>3. v = [i \in 1 .. m |-> v[i]]
      BY <2>1, Zenon
    <2> QED BY <2>1, <2>2, <2>3
  <1>11. /\ Len(z) = Len(w)
         /\ \A i \in DOMAIN w : z[i] = IF w[i][2] = "crc32" THEN Zero ELSE w[i]
         /\ v = [i \in DOMAIN w |-> IF w[i][2] = "crc32" THEN {} ELSE Content(w[i], magic)]
    BY <1>2, <1>6, <1>8, <1>9
  <1> QED BY <1>6, <1>10, <1>11 DEF w, z, v

\* A packet that was sent.
LEMMA PacketSent ==
    ASSUME IInv, kind = "Packet", pc # "serialize"
    PROVE  /\ count \in 0 .. MaxCount /\ magic \in Magic
           /\ wire = PacketLayout(count) /\ wire = Layout(kind, count)
           /\ crcOf = Zeroed(wire)
           /\ crc = compute_crc32(Values(Zeroed(wire)))
  <1>1. Layout("Packet", count) = PacketLayout(count)
    BY Structs DEF Layout
  <1> QED BY <1>1 DEF IInv, Types, Sent

\* The CRC of a packet is computed over all of it with its own four bytes zero,
\* whatever the length of the body (packet.cpp:58-77).
THEOREM CrcCoversPacket == Spec => []CrcCovers
  <1>1. IInv => CrcCovers
    <2> SUFFICES ASSUME IInv, kind = "Packet", pc # "serialize"
                 PROVE  /\ wire = Layout(kind, count)
                        /\ Len(crcOf) = Len(wire)
                        /\ \A i \in DOMAIN wire :
                              crcOf[i] = IF wire[i][2] = "crc32" THEN Zero ELSE wire[i]
      BY DEF CrcCovers
    <2>1. /\ count \in 0 .. MaxCount /\ magic \in Magic /\ wire = Layout(kind, count)
          /\ wire = PacketLayout(count) /\ crcOf = Zeroed(wire)
      BY PacketSent
    <2>2. /\ Len(Zeroed(wire)) = Len(wire)
          /\ \A i \in DOMAIN wire :
                Zeroed(wire)[i] = IF wire[i][2] = "crc32" THEN Zero ELSE wire[i]
      BY <2>1, PacketZeroed
    <2> QED BY <2>1, <2>2, Zenon
  <1> QED BY <1>1, Invariance, PTL

\* The table-driven loop gives every packet the CRC-32 that long division by
\* the polynomial defines (packet.cpp:71, utils.cpp:39-66).
THEOREM CrcIsStandard == Spec => []CrcIsIeee
  <1>1. IInv => CrcIsIeee
    <2> SUFFICES ASSUME IInv, kind = "Packet", pc = "receive"
                 PROVE  crc = IeeeCrc([i \in DOMAIN wire |->
                            IF wire[i][2] = "crc32" THEN {} ELSE Content(wire[i], magic)])
      BY DEF CrcIsIeee
    <2> DEFINE v == Values(Zeroed(wire))
    <2>1. /\ count \in 0 .. MaxCount /\ magic \in Magic
          /\ wire = PacketLayout(count) /\ crc = compute_crc32(v)
      BY PacketSent
    <2>2. /\ v \in Seq(Byte)
          /\ v = [i \in DOMAIN wire |->
                     IF wire[i][2] = "crc32" THEN {} ELSE Content(wire[i], magic)]
      BY <2>1, PacketZeroed
    <2> HIDE DEF v
    <2>3. compute_crc32(v) = IeeeCrc(v)
      BY <2>2, CrcIsPolynomial
    <2> QED BY <2>1, <2>2, <2>3, Zenon
  <1> QED BY <1>1, Invariance, PTL

\* A CRC-32 is a word.
LEMMA CrcWord ==
    ASSUME NEW v \in Seq(Byte) PROVE compute_crc32(v) \in Word
  <1>1. PICK c : Registers(c, v)
    BY FoldIsLoop
  <1>2. Len(v) \in 0 .. Len(v)
    OBVIOUS
  <1>3. c[Len(v)] \in Word /\ compute_crc32(v) = SymDiff(c[Len(v)], Ones)
    BY <1>1, <1>2 DEF Registers
  <1> QED BY <1>3, SymDiffWord DEF Word, Ones

\* In every state each variable has its type; the reader never stands past the
\* end of the buffer it was given, whatever arrives (utils.hpp:34-50).
THEOREM Typing == Spec => []TypeOK
  <1>1. IInv => TypeOK
    <2> SUFFICES ASSUME IInv PROVE TypeOK
      OBVIOUS
    <2>1. crcOf \in Seq(ByteName) /\ crc \in Word
      <3>1. CASE kind = "Packet" /\ pc # "serialize"
        <4>1. /\ count \in 0 .. MaxCount /\ magic \in Magic /\ wire = PacketLayout(count)
              /\ crcOf = Zeroed(wire) /\ crc = compute_crc32(Values(Zeroed(wire)))
          BY <3>1, PacketSent
        <4>2. Zeroed(wire) \in Seq(ByteName) /\ Values(Zeroed(wire)) \in Seq(Byte)
          BY <4>1, PacketZeroed
        <4> QED BY <4>1, <4>2, CrcWord
      <3>2. CASE ~ (kind = "Packet" /\ pc # "serialize")
        <4>1. crcOf = <<>> /\ crc = {}
          BY <3>2 DEF IInv, Sent
        <4> QED BY <4>1 DEF Word
      <3> QED BY <3>1, <3>2
    <2>2. Types
      BY DEF IInv
    <2>3. \A s \in {wire, crcOf, buf} : \A i \in DOMAIN s : s[i] \in ByteName
      BY <2>1, <2>2 DEF Types
    <2>4. \A i \in DOMAIN todo : todo[i].take \in Nat
      BY <2>2 DEF Types, ReadType
    <2>5. \A p \in got : p[1] \in ByteName /\ p[2] \in ByteName
      BY <2>2 DEF Types
    <2> QED BY <2>1, <2>2, <2>3, <2>4, <2>5 DEF Types, TypeOK
  <1> QED BY <1>1, Invariance, PTL

\* Whatever its length, a buffer that deserialize accepts leaves no member of
\* the struct unset and none with the bytes of another (every deserialize of packet.cpp).
THEOREM AcceptedIsSound == Spec => []Sound
  <1>1. IInv => Sound
    <2> SUFFICES ASSUME IInv, pc = "done", err = "None"
                 PROVE  /\ {p[1] : p \in got} = Members(kind, count, Len(buf))
                        /\ \A p \in got : p[1] = p[2] \/ (p[2] = Extra /\ p[1][2] = "body")
      BY DEF Sound
    <2> DEFINE R == Reads(kind, count, Len(buf))
               D == Stored
    <2>1. /\ kind \in Kinds /\ count \in Nat /\ Len(buf) \in Nat
          /\ wire = Layout(kind, count) /\ pos \in Nat
      BY CodecAssumption DEF IInv, Types, Sent
    <2>2. SizeVerdict(kind, Len(buf)) = "None" /\ Progress /\ todo = <<>>
      BY DEF IInv, Reading
    <2>3. ~ Doomed(todo)
      BY <2>2 DEF Doomed
    <2>4. Dest(todo) = <<>>
      BY <2>2, FlattenSmall DEF Dest, Targets
    <2>5. /\ Plain(R) /\ pos = Len(D)
          /\ got = {<<D[t], buf[t]>> : t \in 1 .. pos}
      BY <2>1, <2>2, <2>3, <2>4 DEF Progress
    <2>6. ToSet(D) = Members(kind, count, Len(buf)) /\ Agree(D, wire)
      <3>1. ~ Doomed(R)
        BY <2>5 DEF Plain, PlainRead, Doomed
      <3>2. Faithful(kind, count, Len(buf))
        BY <2>1, <2>2, AllFaithful
      <3> QED BY <2>1, <3>1, <3>2 DEF Faithful, Stored
    <2>7. D \in Seq(ByteName) /\ R \in Seq(ReadType)
      <3>1. R \in Seq(ReadType)
        BY <2>1, <2>2, AllFaithful DEF Faithful
      <3> QED BY <3>1, TargetsType DEF Stored
    <2> HIDE DEF D
    <2>8. {p[1] : p \in got} = ToSet(D)
      <3>1. DOMAIN D = 1 .. pos
        BY <2>5, <2>7
      <3>2. \A t \in 1 .. pos : <<D[t], buf[t]>> \in got /\ <<D[t], buf[t]>>[1] = D[t]
        BY <2>5
      <3>3. \A p \in got : \E t \in 1 .. pos : p[1] = D[t]
        BY <2>5
      <3>4. ToSet(D) = {D[t] : t \in 1 .. pos}
        BY <3>1 DEF ToSet
      <3>5. \A x : x \in {p[1] : p \in got} <=> x \in {D[t] : t \in 1 .. pos}
        BY <3>2, <3>3, Zenon
      <3> QED BY <3>4, <3>5
    <2>9. ASSUME NEW t \in 1 .. Len(D)
          PROVE  D[t] = buf[t] \/ (buf[t] = Extra /\ D[t][2] = "body")
      <3>1. IF t <= Len(wire) THEN D[t] = wire[t] ELSE D[t][2] = "body"
        BY <2>6, <2>9, Zenon DEF Agree
      <3>2. t \in 1 .. Len(buf)
        BY <2>1, <2>5, <2>7, <2>9 DEF IInv, Types
      <3>3. buf[t] = IF t <= Len(wire) THEN wire[t] ELSE Extra
        BY <3>2, Zenon DEF IInv, Arrived
      <3> QED BY <3>1, <3>3, Zenon
    <2> QED BY <2>5, <2>6, <2>8, <2>9
  <1> QED BY <1>1, Invariance, PTL

\* What serialize wrote is read back without an error, but for the three
\* structs that Lossy names, and but for a reply: Packet::deserialize refuses
\* its magic, whatever its body (packet.cpp, packet.hpp:99, utils.cpp:30).
THEOREM WrittenIsRead == Spec => []RoundTrip
  <1>1. IInv => RoundTrip
    BY DEF IInv
  <1> QED BY <1>1, Invariance, PTL
-----------------------------------------------------------------------------
(***************************************************************************)
(* The requests, by their bytes and by their size.                         *)
(***************************************************************************)

Promised(k, n, m) ==
    Protocol!Verdict([size |-> Protocol!PacketMin + m, magic |-> TRUE,
                      type |-> Requests[k], ports |-> n])

\* The verdict by size is that of the size test, and after it that of the
\* number of slots.
LEMMA PromisedVerdict ==
    ASSUME NEW k \in DOMAIN Requests, NEW n \in 0 .. MaxCount, NEW m \in Nat
    PROVE  /\ SizeVerdict(k, m) # "None" => Promised(k, n, m) = SizeVerdict(k, m)
           /\ SizeVerdict(k, m) = "None"
                => Promised(k, n, m) = IF k = "ControllersInfoRequest" /\ m < 4 + n
                                       THEN "ErrParseError" ELSE "None"
  <1> DEFINE d == [size |-> Protocol!PacketMin + m, magic |-> TRUE,
                   type |-> Requests[k], ports |-> n]
  <1>1. /\ n \in Nat /\ (4 + n) % SizeMod = 4 + n /\ ~ (n < 0)
        /\ ~ (d.size < Protocol!PacketMin) /\ d.size - Protocol!PacketMin = m
        /\ d.magic /\ d.type = Requests[k] /\ d.ports = n
    BY CodecAssumption DEF Protocol!PacketMin
  <1>2. Promised(k, n, m) = Protocol!Verdict(d)
    BY DEF Promised
  <1> HIDE DEF d
  <1>3. CASE k = "ProtocolVersionRequest"
    <2>1. Requests[k] = "version"
      BY <1>3 DEF Requests
    <2>2. Promised(k, n, m) = "None"
      BY <1>1, <1>2, <2>1 DEF Protocol!Verdict
    <2> QED BY <1>3, <2>2 DEF SizeVerdict
  <1>4. CASE k = "ControllersInfoRequest"
    <2>1. Requests[k] = "info"
      BY <1>4 DEF Requests
    <2>2. Promised(k, n, m) = Protocol!InfoVerdict(m, n)
      BY <1>1, <1>2, <2>1 DEF Protocol!Verdict
    <2>3. Protocol!InfoVerdict(m, n) = IF m < 4 \/ m > 8 THEN "ErrInvalidLength"
                                       ELSE IF m < 4 + n THEN "ErrParseError" ELSE "None"
      BY <1>1 DEF Protocol!InfoVerdict
    <2>4. SizeVerdict(k, m) = IF m < 4 \/ m > 8 THEN "ErrInvalidLength" ELSE "None"
      BY <1>4 DEF SizeVerdict
    <2> QED BY <1>4, <2>2, <2>3, <2>4
  <1>5. CASE k = "ControllersDataRequest"
    <2>1. Requests[k] = "data"
      BY <1>5 DEF Requests
    <2>2. Promised(k, n, m) = IF m = 8 THEN "None" ELSE "ErrInvalidLength"
      BY <1>1, <1>2, <2>1 DEF Protocol!Verdict
    <2>3. SizeVerdict(k, m) = IF m = 8 THEN "None" ELSE "ErrInvalidLength"
      BY <1>5 DEF SizeVerdict
    <2> QED BY <1>5, <2>2, <2>3
  <1>6. CASE k = "ControllersMotorsRequest"
    <2>1. Requests[k] = "motors"
      BY <1>6 DEF Requests
    <2>2. Promised(k, n, m) = IF m >= 8 THEN "None" ELSE "ErrInvalidLength"
      BY <1>1, <1>2, <2>1 DEF Protocol!Verdict
    <2>3. SizeVerdict(k, m) = IF m >= 8 THEN "None" ELSE "ErrInvalidLength"
      BY <1>6 DEF SizeVerdict
    <2> QED BY <1>6, <2>2, <2>3
  <1>7. CASE k = "ControllersMotorsRumbleRequest"
    <2>1. Requests[k] = "rumble"
      BY <1>7 DEF Requests
    <2>2. Promised(k, n, m) = IF m = 10 THEN "None" ELSE "ErrInvalidLength"
      BY <1>1, <1>2, <2>1 DEF Protocol!Verdict
    <2>3. SizeVerdict(k, m) = IF m = 10 THEN "None" ELSE "ErrInvalidLength"
      BY <1>7 DEF SizeVerdict
    <2> QED BY <1>7, <2>2, <2>3
  <1> QED BY <1>3, <1>4, <1>5, <1>6, <1>7 DEF Requests

\* The verdict of a packet is that of its size test, then of its magic.
LEMMA PacketTested ==
    ASSUME kind = "Packet", magic \in Magic, Len(buf) \in Nat
    PROVE  TestVerdict = PacketVerdict
  <1> DEFINE m == Len(buf)
             b == magic = "DSUC"
             d == [size |-> m, magic |-> b, type |-> "version", ports |-> 0]
  <1>1. PacketVerdict = Protocol!Verdict(d)
    BY DEF PacketVerdict
  <1>2. /\ m \in Nat /\ b \in BOOLEAN /\ d.size = m /\ d.magic = b /\ d.type = "version"
    OBVIOUS
  <1>3. b = ~ IsReply
    BY DEF IsReply, Magic
  <1>4. TestVerdict = IF SizeVerdict("Packet", m) = "None" /\ IsReply
                      THEN "ErrInvalidPacket" ELSE SizeVerdict("Packet", m)
    BY DEF TestVerdict
  <1> HIDE DEF m, b, d
  <1>5. SizeVerdict("Packet", m) = IF m >= 20 THEN "None" ELSE "ErrInvalidLength"
    BY DEF SizeVerdict
  <1>6. Protocol!PacketMin = 20
    BY DEF Protocol!PacketMin
  <1>7. CASE m >= 20
    <2>1. ~ (m < 20)
      BY <1>2, <1>7
    <2>2. Protocol!Verdict(d) = IF b THEN "None" ELSE "ErrInvalidPacket"
      <3>1. CASE b
        BY <1>2, <1>6, <1>7, <2>1, <3>1 DEF Protocol!Verdict
      <3>2. CASE ~ b
        BY <1>2, <1>6, <1>7, <2>1, <3>2, Zenon DEF Protocol!Verdict
      <3> QED BY <3>1, <3>2
    <2> QED BY <1>1, <1>3, <1>4, <1>5, <1>7, <2>2
  <1>8. CASE m < 20
    <2>1. ~ (m >= 20)
      BY <1>2, <1>8
    <2>2. Protocol!Verdict(d) = "ErrInvalidLength"
      BY <1>2, <1>6, <1>8, <2>1 DEF Protocol!Verdict
    <2> QED BY <1>1, <1>4, <1>5, <2>1, <2>2
  <1> QED BY <1>2, <1>7, <1>8

\* The reads of a request neither fail nor crash by themselves, and they need
\* more bytes than the size test leaves in one case: ports asks for too many.
LEMMA RequestReads ==
    ASSUME NEW k \in DOMAIN Requests, NEW n \in Nat, NEW m \in Nat,
           SizeVerdict(k, m) = "None"
    PROVE  LET R == Reads(k, n, m) IN
           /\ k \in Kinds \ Lossy
           /\ R \in Seq(ReadType) /\ Plain(R)
           /\ Len(Dest(R)) > m <=> k = "ControllersInfoRequest" /\ m < 4 + n
  <1> DEFINE R == Reads(k, n, m)
  <1>1. k \in Kinds /\ k \notin Lossy /\ k # "Packet"
    BY DEF Requests, Kinds, Lossy
  <1>2. Faithful(k, n, m)
    BY <1>1, AllFaithful
  <1>3. ~ (k \in Lossy /\ Doomed(R)) /\ R \in Seq(ReadType)
    BY <1>1, <1>2 DEF Faithful
  <1>4. Plain(R) /\ NoMore(k, n, m)
    BY <1>2, <1>3 DEF Faithful
  <1>5. Len(Dest(R)) \in Nat
    BY <1>3, TargetsType
  <1>6. CASE k = "ControllersInfoRequest"
    <2> DEFINE p == <<"ports", 4>>
               q == <<"slots", n>>
    <2>1. R = Own(<<p, q>>)
      BY <1>6, Structs DEF Reads, InfoRequestReads
    <2>2. p \in Member /\ q \in Member /\ p[2] = 4 /\ q[2] = n
      BY Structs
    <2> HIDE DEF p, q, R
    <2>3. <<p, q>> \in Seq(Member) /\ Len(Bytes(0, <<p, q>>)) = p[2] + q[2]
      BY <2>2, SizeOfTwo, Tuples
    <2>4. Dest(Own(<<p, q>>)) = Bytes(0, <<p, q>>)
      BY <2>3, OwnReads
    <2>5. Len(Dest(R)) = p[2] + q[2]
      BY <2>1, <2>3, <2>4, Zenon
    <2>6. Len(Dest(R)) > m <=> m < 4 + n
      BY <2>2, <2>5
    <2> QED BY <1>6, <2>6, <1>1, <1>3, <1>4 DEF R
  <1>7. CASE k # "ControllersInfoRequest"
    <2> DEFINE l == Layout(k, n)
    <2>1. Len(Dest(R)) <= Len(l)
      BY <1>1, <1>4 DEF NoMore
    <2>2. SizeVerdict(k, Len(l)) = "None"
      BY <1>1, <1>7, OwnSize
    <2>3. Len(l) \in Nat
      BY <1>1, LayoutType
    <2>4. Len(l) <= m
      <3>1. CASE k = "ProtocolVersionRequest"
        <4>1. l = <<>>
          BY <3>1, Structs DEF Layout
        <4> QED BY <4>1
      <3>2. CASE k = "ControllersDataRequest" \/ k = "ControllersMotorsRequest"
        <4>1. Len(l) = 8
          BY <3>2, Structs, Sizes DEF Layout, IdentifierLayout
        <4> HIDE DEF l
        <4>2. m >= 8
          BY <3>2 DEF SizeVerdict
        <4> QED BY <4>1, <4>2
      <3>3. CASE k = "ControllersMotorsRumbleRequest"
        <4> HIDE DEF l
        <4>1. Len(l) = 10 /\ m = 10
          BY <2>2, <3>3 DEF SizeVerdict
        <4> QED BY <4>1
      <3> QED BY <1>7, <3>1, <3>2, <3>3 DEF Requests
    <2> HIDE DEF l
    <2>5. ~ (Len(Dest(R)) > m)
      BY <1>5, <2>1, <2>3, <2>4
    <2> QED BY <1>1, <1>3, <1>4, <1>7, <2>5
  <1> QED BY <1>6, <1>7

\* For every length that arrives and every number of slots, the verdict that
\* DsuProtocol gives of the size and the magic of a packet, and of the size of a
\* request, is the one that its bytes come to (dsu_server.cpp, packet.cpp).
THEOREM SizeDecides == Spec => []VerdictOfSize
  <1>1. Init => VerdictOfSize
    BY DEF Init, VerdictOfSize
  <1>2. ASSUME IInv, VerdictOfSize, [Next]_vars PROVE VerdictOfSize'
    <2> DEFINE m == Len(buf)
    <2>1. /\ kind \in Kinds /\ count \in 0 .. MaxCount /\ count \in Nat /\ m \in Nat
          /\ pos \in 0 .. m /\ todo \in Seq(ReadType) /\ magic \in Magic
      BY <1>2, CodecAssumption DEF IInv, Types
    <2>2. ASSUME kind \in DOMAIN Requests, NEW e, Fail(e), e = Promised(kind, count, m)
          PROVE  VerdictOfSize'
      <3>1. kind' # "Packet"
        BY <2>2 DEF Fail, Requests
      <3> QED BY <2>2, <3>1 DEF Fail, VerdictOfSize, RequestVerdict, Promised
    <2>3. ASSUME kind \notin DOMAIN Requests \union {"Packet"}, kind' = kind
          PROVE  VerdictOfSize'
      BY <2>3 DEF VerdictOfSize
    <2>3a. ASSUME kind = "Packet", err' = PacketVerdict, UNCHANGED <<kind, magic, buf>>
           PROVE  VerdictOfSize'
      BY <2>3a DEF VerdictOfSize, PacketVerdict, Requests
    <2>4. ASSUME pc' # "done" PROVE VerdictOfSize'
      BY <2>4 DEF VerdictOfSize
    <2>5. ASSUME pc = "read", kind \in DOMAIN Requests
          PROVE  /\ SizeVerdict(kind, m) = "None" /\ err = "None"
                 /\ Plain(todo) /\ pos + Len(Dest(todo)) = Len(Stored) /\ Len(Stored) \in Nat
                 /\ Len(Stored) > m <=> kind = "ControllersInfoRequest" /\ m < 4 + count
      <3>1. SizeVerdict(kind, m) = "None" /\ err = "None" /\ Progress
        BY <1>2, <2>5 DEF IInv, Reading
      <3>2. /\ kind \notin Lossy /\ Reads(kind, count, m) \in Seq(ReadType)
            /\ Len(Stored) > m <=> kind = "ControllersInfoRequest" /\ m < 4 + count
        BY <2>1, <2>5, <3>1, RequestReads DEF Stored
      <3>3. Len(Stored) \in Nat
        BY <3>2, TargetsType DEF Stored
      <3> QED BY <3>1, <3>2, <3>3 DEF Progress
    <2>6. ASSUME pc = "read", kind \in DOMAIN Requests \union {"Packet"}, todo # <<>>
          PROVE  /\ PlainRead(Head(todo)) /\ Head(todo).take \in Nat /\ Len(Stored) \in Nat
                 /\ pos + Head(todo).take <= Len(Stored)
                 /\ kind = "Packet" => Len(Stored) = m
      <3>1. kind \notin Lossy
        BY <2>6 DEF Requests, Lossy
      <3>2. kind = "Packet" => Len(Stored) = m
        BY <1>2, <2>6, PacketFits
      <3> QED BY <1>2, <2>6, <3>1, <3>2, NextRead
    <2> HIDE DEF m
    <2>7. CASE Serialize \/ Receive \/ TestPasses \/ Read
      <3>1. pc' # "done"
        BY <2>7 DEF Serialize, Receive, TestPasses, Read
      <3> QED BY <2>4, <3>1
    <2>8. CASE TestFails
      <3>1. CASE kind \in DOMAIN Requests
        <4>1. TestVerdict = SizeVerdict(kind, m)
          BY <3>1 DEF TestVerdict, IsReply, Requests, m
        <4>2. SizeVerdict(kind, m) = Promised(kind, count, m) /\ Fail(SizeVerdict(kind, m))
          BY <2>1, <2>8, <3>1, <4>1, PromisedVerdict DEF TestFails
        <4> QED BY <2>2, <3>1, <4>2
      <3>2. CASE kind = "Packet"
        <4>1. TestVerdict = PacketVerdict
          BY <2>1, <3>2, PacketTested DEF m
        <4> QED BY <2>3a, <2>8, <3>2, <4>1 DEF TestFails, Fail
      <3>3. CASE kind \notin DOMAIN Requests \union {"Packet"}
        BY <2>3, <2>8, <3>3 DEF TestFails, Fail
      <3> QED BY <3>1, <3>2, <3>3
    <2>9. CASE ReadPastEnd
      <3>1. /\ Fail("ErrParseError") /\ pc = "read" /\ todo # <<>>
            /\ pos + Head(todo).take > m
        BY <2>9 DEF ReadPastEnd, m
      <3>2. CASE kind \in DOMAIN Requests
        <4>1. Len(Stored) > m
          BY <2>1, <2>6, <3>1, <3>2
        <4>2. Promised(kind, count, m) = "ErrParseError"
          BY <2>1, <2>5, <3>1, <3>2, <4>1, PromisedVerdict
        <4> QED BY <2>2, <3>1, <3>2, <4>2
      <3>3. CASE kind = "Packet"
        BY <2>1, <2>6, <3>1, <3>3
      <3>4. CASE kind \notin DOMAIN Requests \union {"Packet"}
        BY <2>3, <2>9, <3>4 DEF ReadPastEnd, Fail
      <3> QED BY <3>2, <3>3, <3>4
    <2>10. CASE ReadInsideFails \/ SkipCrashes
      <3>1. CASE kind \in DOMAIN Requests \union {"Packet"}
        <4>1. pc = "read" /\ todo # <<>> /\ ~ PlainRead(Head(todo))
          BY <2>10 DEF ReadInsideFails, SkipCrashes, PlainRead
        <4> QED BY <2>6, <3>1, <4>1
      <3>2. CASE kind \notin DOMAIN Requests \union {"Packet"}
        BY <2>3, <2>10, <3>2 DEF ReadInsideFails, SkipCrashes, Fail
      <3> QED BY <3>1, <3>2
    <2>11. CASE Return
      <3>1. pc = "read" /\ todo = <<>> /\ err' = err /\ UNCHANGED <<kind, count, magic, buf>>
        BY <2>11 DEF Return
      <3>2. CASE kind \in DOMAIN Requests
        <4>1. Len(Dest(todo)) = 0
          BY <3>1, FlattenSmall DEF Dest, Targets
        <4>2. ~ (Len(Stored) > m)
          BY <2>1, <2>5, <3>1, <3>2, <4>1
        <4>3. Promised(kind, count, m) = "None" /\ err = "None"
          BY <2>1, <2>5, <3>1, <3>2, <4>2, PromisedVerdict
        <4>4. kind # "Packet"
          BY <3>2 DEF Requests
        <4> QED BY <3>1, <4>3, <4>4 DEF VerdictOfSize, RequestVerdict, Promised, m
      <3>3. CASE kind = "Packet"
        <4>1. SizeVerdict(kind, m) = "None" /\ ~ IsReply /\ err = "None"
          BY <1>2, <3>1 DEF IInv, Reading, m
        <4>2. TestVerdict = "None"
          BY <4>1 DEF TestVerdict, m
        <4>3. TestVerdict = PacketVerdict
          BY <2>1, <3>3, PacketTested DEF m
        <4> QED BY <2>3a, <3>1, <3>3, <4>1, <4>2, <4>3
      <3>4. CASE kind \notin DOMAIN Requests \union {"Packet"}
        BY <2>3, <3>1, <3>4
      <3> QED BY <3>2, <3>3, <3>4
    <2>12. CASE UNCHANGED vars
      BY <1>2, <2>12 DEF vars, VerdictOfSize, PacketVerdict, RequestVerdict
    <2> QED BY <1>2, <2>7, <2>8, <2>9, <2>10, <2>11, <2>12 DEF Next, Deserialize
  <1> QED BY <1>1, <1>2, Invariance, PTL DEF Spec
=============================================================================
