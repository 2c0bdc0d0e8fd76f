----------------------------- MODULE MCDsuServer -----------------------------
(***************************************************************************)
(* Small instances of DsuServer for TLC.                                   *)
(***************************************************************************)
EXTENDS DsuServer

CONSTANTS c1, c2

\* A request of client c: type, size, ports and slots as given.
Request(c, type, size, ports, slots) ==
    [from |-> c, size |-> size, magic |-> TRUE, type |-> type,
     ports |-> ports, slots |-> slots]

\* One datagram per way through recvfrom and handleMessage, and one on each
\* side of every size that is tested; slot 0 has a controller, slot 1 has none.
MCDatagrams ==
    {Request(c, "data", 28, 0, {0}) : c \in {c1, c2}}
    \union {Request(c1, "data", 27, 0, {}),      \* one byte too short
            Request(c1, "data", 29, 0, {0}),     \* one byte too long
            Request(c1, "data", 28, 0, {1}),     \* no such controller
            Request(c1, "info", 23, 0, {}),
            Request(c1, "info", 24, 0, {}),
            Request(c1, "info", 24, -1, {}),     \* the size_t sum wraps
            Request(c1, "info", 25, 1, {1}),     \* asks for the other slot
            Request(c2, "info", 25, 2, {0}),     \* fewer slots than it says
            Request(c2, "info", 28, 4, {0, 1}),
            Request(c2, "info", 29, 5, {0, 1}),
            Request(c2, "motors", 27, 0, {}),
            Request(c2, "motors", 28, 0, {1}),
            Request(c1, "rumble", 29, 0, {0}),
            Request(c1, "rumble", 30, 0, {0}),
            Request(c1, "rumble", 31, 0, {0}),
            Request(c1, "version", 19, 0, {}),
            Request(c1, "version", 20, 0, {}),
            Request(c2, "version", 512, 0, {}),
            Request(c2, "version", 513, 0, {}),  \* does not fit recv_buf
            Request(c2, "other", 30, 0, {}),
            [Request(c1, "data", 28, 0, {0}) EXCEPT !.magic = FALSE]}

\* A request about a slot without a controller.
MCOtherSlot == {Request(c1, "data", 28, 0, {1})}

\* The datagrams that matter for the numbering of two clients.
MCDataRequests == {Request(c, "data", 28, 0, {0}) : c \in {c1, c2}}

=============================================================================
