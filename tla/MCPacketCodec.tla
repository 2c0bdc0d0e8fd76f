----------------------------- MODULE MCPacketCodec -----------------------------
(***************************************************************************)
(* A small instance of PacketCodec for TLC.                                *)
(***************************************************************************)
EXTENDS PacketCodec

Weight ==
    [protocol |-> 58, length |-> 87, crc32 |-> 116, clientServerID |-> 145,
     type |-> 174, body |-> 203]

\* "DSUC" and "DSUS", then bytes of all sorts and no two runs of them alike.
MCContent(b, m) ==
    LET v == IF b[2] = "magic"
             THEN <<68, 83, 85, IF m = "DSUC" THEN 67 ELSE 83>>[b[3]]
             ELSE (Weight[b[2]] + 53 * b[3]) % 256
    IN  {i \in 0 .. 7 : (v \div 2 ^ i) % 2 = 1}
=============================================================================
