----------------------------- MODULE MCDsuSystem -----------------------------
(***************************************************************************)
(* A small instance of DsuSystem for TLC.                                  *)
(***************************************************************************)
EXTENDS DsuSystem, Integers

CONSTANTS c1, e1

\* A request of the client: type, size, ports and slots as given.
Request(type, size, ports, slots) ==
    [from |-> c1, size |-> size, magic |-> TRUE, type |-> type,
     ports |-> ports, slots |-> slots]

\* Pad data, the list of the controllers, and a request whose handling throws.
MCDatagrams ==
    {Request("data", 28, 0, {0}), Request("info", 25, 1, {0}),
     Request("info", 24, -1, {})}

\* The first device fails to connect; the second reports twice.
MCReports == <<0, 2>>

=============================================================================
