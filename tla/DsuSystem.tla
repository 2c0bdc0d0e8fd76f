------------------------------ MODULE DsuSystem ------------------------------
(***************************************************************************)
(* The whole program: the process of module Main, the listen loop and its  *)
(* handler of module DsuServer, and the manager with its receiver threads  *)
(* of module ControllerManager.  Each of those modules assumes something   *)
(* of the others: Main takes construction and destruction of the manager   *)
(* for single steps, DsuServer takes the number of controllers for a       *)
(* constant, and ControllerManager takes it that nobody reads a cache that *)
(* is being built or destroyed.  Here the manager is built and destroyed   *)
(* where main() does it, and the handler reads the manager's own vectors.  *)
(***************************************************************************)
EXTENDS Naturals, Sequences, FiniteSets

CONSTANTS
    Clients, Datagrams, SizeMod, CtrMod, Slots,   \* module DsuProtocol
    QCap, MaxArrivals, NoDatagram, NoReply,       \* module DsuServer
    NDevices, Reports,                            \* module ControllerManager
    Events,                                       \* module Main
    Connects   \* the devices that ProController::Connect succeeds for

ASSUME SystemAssumption ==
    /\ NDevices \in Nat
    /\ Reports \in [1 .. NDevices -> Nat]
    /\ Connects \subseteq 1 .. NDevices

VARIABLES
    rcvq, refused, stop, lpc, buf, ret, packetCounter, out, arrived, late,
    cpc, next, controllers, heap, start, capacity, freed, rx, rd,
    mpc, mtx, shutdown_requested, hpc, wsa, sock, upc, ustop,
    joinable,   \* listenThread.joinable()
    reading,    \* the handler has called getControllerInputStatus
    pads        \* what the pad data replies so far were built from (history)

serverVars  == <<rcvq, refused, stop, lpc, buf, ret, packetCounter, out, arrived, late>>
managerVars == <<cpc, next, controllers, heap, start, capacity, freed, rx, rd>>
mainVars    == <<mtx, shutdown_requested, hpc, wsa, sock, upc, ustop>>
processVars == <<mpc, mainVars, joinable>>
handlerVars == <<reading, pads>>

vars == <<serverVars, managerVars, processVars, handlerVars>>

NConnected == Cardinality(Connects)

\* What Main knows of the listen thread and of the manager.
ListenThread ==
    IF lpc = "unstarted" THEN "none"
    ELSE IF ~joinable THEN "joined"
    ELSE IF lpc = "loop" THEN "test"
    ELSE IF lpc = "exited" THEN "exited"
    ELSE "busy"

ManagerObject ==
    IF cpc \in {"running", "destroyCache", "destroyControllers"} THEN "alive"
    ELSE IF cpc = "done" THEN "destroyed"
    ELSE "raw"

Manager == INSTANCE ControllerManager
Server  == INSTANCE DsuServer WITH Connected <- NConnected, Cached <- NConnected
Process == INSTANCE Main WITH
    lpc <- ListenThread, lstop <- stop, manager <- ManagerObject

\* What the components assume of the datagrams and of the events.
ASSUME RequestAssumption ==
    /\ Datagrams \subseteq Server!Datagram
    /\ SizeMod \in Nat \ {0} /\ CtrMod \in Nat \ {0}
    /\ Slots \subseteq Nat /\ 0 .. NConnected - 1 \subseteq Slots
    /\ \A d \in Datagrams :
          d.type \in {"data", "motors"} /\ Server!Verdict(d) = "None" =>
              \E s \in Slots : d.slots = {s}
    /\ QCap \in Nat \ {0} /\ MaxArrivals \in Nat
    /\ NoDatagram \notin Datagrams /\ NoReply \notin Server!Reply
    /\ {"none", "main"} \cap Events = {}

\* The replies the handler builds from the vectors as they are.
Handler == INSTANCE DsuProtocol WITH
    Connected <- Len(controllers), Cached <- Manager!CacheSize

Init ==
    /\ Server!Init
    /\ Manager!Init
    /\ mpc = "install"
    /\ mtx = "none"
    /\ shutdown_requested = FALSE
    /\ hpc = [e \in Events |-> "idle"]
    /\ wsa = FALSE
    /\ sock = "none"
    /\ upc = "none" /\ ustop = FALSE
    /\ joinable = FALSE
    /\ reading = FALSE
    /\ pads = <<>>

Running == ~Process!Gone

-----------------------------------------------------------------------------
(***************************************************************************)
(* The main thread: what main(), the constructors and the destructors do   *)
(* to the manager and to the listen thread, and the rest of their steps.   *)
(***************************************************************************)

\* controllerManager.initialize() in the constructor of DsuServer.
Connecting ==
    /\ mpc = "initialize"
    /\ \/ next \in Connects /\ Manager!Connect
       \/ next \notin Connects /\ Manager!ConnectFails
       \/ Manager!SetCallback
       \/ Manager!PushController
       \/ Manager!PushStatus
    /\ UNCHANGED <<serverVars, processVars, handlerVars>>

\* Mutant: the constructor does not wait for the controllers.
Bug_InitializeAsync ==
    /\ mpc = "initialize"
    /\ cpc' = "running"
    /\ mpc' = "spawn"
    /\ UNCHANGED <<next, controllers, heap, start, capacity, freed, rx, rd>>
    /\ UNCHANGED <<serverVars, mainVars, joinable, handlerVars>>

Initialized ==
    /\ mpc = "initialize"
    /\ Manager!Initialized
    /\ mpc' = "spawn"
    /\ UNCHANGED <<serverVars, mainVars, joinable, handlerVars>>

\* server.start()
Start ==
    /\ mpc = "start"
    /\ lpc' = "loop"
    /\ joinable' = TRUE
    /\ mpc' = "lock"
    /\ UNCHANGED <<rcvq, refused, stop, buf, ret, packetCounter, out, arrived, late>>
    /\ UNCHANGED <<managerVars, mainVars, handlerVars>>

\* Mutant: the stop is requested of the update thread's token instead.
Bug_WrongToken ==
    /\ mpc = "stop"
    /\ ustop' = TRUE
    /\ mpc' = "wait"
    /\ UNCHANGED <<mtx, shutdown_requested, hpc, wsa, sock, upc, joinable>>
    /\ UNCHANGED <<serverVars, managerVars, handlerVars>>

\* server.stop()
Stop ==
    /\ mpc = "stop"
    /\ stop' = TRUE
    /\ mpc' = "wait"
    /\ UNCHANGED <<rcvq, refused, lpc, buf, ret, packetCounter, out, arrived, late>>
    /\ UNCHANGED <<managerVars, mainVars, joinable, handlerVars>>

\* Mutant: the listen thread is detached instead of joined.
Bug_Detach ==
    /\ mpc = "wait"
    /\ joinable' = FALSE
    /\ mpc' = "stopUpdate"
    /\ UNCHANGED <<serverVars, managerVars, mainVars, handlerVars>>

\* server.wait()
Wait ==
    /\ mpc = "wait"
    /\ joinable
    /\ lpc = "exited"
    /\ joinable' = FALSE
    /\ mpc' = "stopUpdate"
    /\ UNCHANGED <<serverVars, managerVars, mainVars, handlerVars>>

\* ~ControllerManager(), when ~DsuServer() has joined the update thread.
Destroy ==
    /\ mpc = "destroyManager"
    /\ cpc = "running"
    /\ cpc' = "destroyCache"
    /\ UNCHANGED <<next, controllers, heap, start, capacity, freed, rx, rd>>
    /\ UNCHANGED <<serverVars, processVars, handlerVars>>

Destroying ==
    /\ mpc = "destroyManager"
    /\ Manager!DestroyCache \/ Manager!DestroyController
    /\ UNCHANGED <<serverVars, processVars, handlerVars>>

\* Mutant: the destructor of UdpServer does not close the socket.
Bug_SkipClose ==
    /\ mpc = "destroyManager"
    /\ Manager!Destroyed
    /\ mpc' = "cleanup"
    /\ UNCHANGED <<serverVars, mainVars, joinable, handlerVars>>

Destroyed ==
    /\ mpc = "destroyManager"
    /\ Manager!Destroyed
    /\ mpc' = "closesocket"
    /\ UNCHANGED <<serverVars, mainVars, joinable, handlerVars>>

\* The steps that concern neither.
Construct == Process!Install \/ Process!Startup \/ Process!Socket \/ Process!Ioctl
             \/ Process!Bind \/ Process!Spawn
Release   == Process!StopUpdate \/ Process!JoinUpdate \/ Process!CloseSocket
             \/ Process!Cleanup

Alone(A) == UNCHANGED <<serverVars, managerVars, joinable, handlerVars>> /\ A

MainThread ==
    \/ Alone(Construct \/ Process!WaitForCtrlC \/ Release)
    \/ Connecting \/ Initialized
    \/ Start \/ Stop \/ Wait
    \/ Destroy \/ Destroying \/ Destroyed

-----------------------------------------------------------------------------
(***************************************************************************)
(* The listen thread.                                                      *)
(***************************************************************************)

\* The slot of a pad data request, as the manager numbers them.
Slot == CHOOSE i \in {s + 1 : s \in buf.slots} : TRUE

\* The request is for a controller the manager has, with a cached status: the
\* handler will copy it.
NeedsStatus ==
    /\ lpc = "handle"
    /\ Handler!Verdict(buf) = "None"
    /\ buf.type = "data"
    /\ Slot <= Len(controllers)
    /\ Slot <= Manager!CacheSize

Alive == UNCHANGED <<managerVars, processVars, handlerVars>> /\ Running

\* The loop and the branches of the handler that do not ask the manager.
ListenAlone ==
    /\ Alive
    /\ \/ Server!LoopTest \/ Server!SelectTimeout \/ Server!SelectReady
       \/ Server!Recv \/ Server!HandleIgnore \/ Server!Send

\* Mutant: a status copied for an earlier request is used again.
Bug_ReuseCopy ==
    /\ Running
    /\ NeedsStatus /\ ~reading
    /\ reading' = TRUE
    /\ rd' = IF rd.pc = "done" /\ rd.slot = Slot
             THEN [rd EXCEPT !.floor = Manager!Cache[Slot]]
             ELSE [pc |-> "first", slot |-> Slot, status |-> Manager!NoStatus,
                   floor |-> Manager!Cache[Slot]]
    /\ UNCHANGED <<cpc, next, controllers, heap, start, capacity, freed, rx>>
    /\ UNCHANGED <<serverVars, processVars, pads>>

\* getControllerInputStatus is called, ...
CopyBegin ==
    /\ Running
    /\ NeedsStatus /\ ~reading
    /\ reading' = TRUE
    /\ rd' = [pc |-> "first", slot |-> Slot, status |-> Manager!NoStatus,
              floor |-> Manager!Cache[Slot]]
    /\ UNCHANGED <<cpc, next, controllers, heap, start, capacity, freed, rx>>
    /\ UNCHANGED <<serverVars, processVars, pads>>

\* ... copies the status ...
Copy ==
    /\ Running
    /\ Manager!Read
    /\ UNCHANGED <<serverVars, processVars, handlerVars>>

\* Mutant: the status is put into every reply.
Bug_PadForAll ==
    /\ pads' = Append(pads, [slot |-> rd.slot, status |-> rd.status, floor |-> rd.floor])
    /\ reading' = FALSE

\* The reply is built from the copy, if one was needed.
UseCopy ==
    /\ pads' = IF reading
               THEN Append(pads, [slot |-> rd.slot, status |-> rd.status,
                                  floor |-> rd.floor])
               ELSE pads
    /\ reading' = FALSE

\* ... and the handler returns its reply.
Answer ==
    /\ Running
    /\ lpc = "handle"
    /\ Handler!Verdict(buf) = "None"
    /\ NeedsStatus => reading /\ rd.pc = "done"
    /\ \E r \in Handler!Replies(buf, packetCounter) : ret' = r
    /\ packetCounter' = IF Handler!TakesNumber(buf)
                        THEN Handler!NextNumber(packetCounter) ELSE packetCounter
    /\ late' = IF stop THEN late + 1 ELSE late
    /\ lpc' = "send"
    /\ UseCopy
    /\ UNCHANGED <<rcvq, refused, stop, buf, out, arrived>>
    /\ UNCHANGED <<managerVars, processVars>>

\* std::length_error leaves the listen thread and ends the process.
Throw ==
    /\ Running
    /\ Server!HandleThrow
    /\ mpc' = "terminated"
    /\ UNCHANGED <<managerVars, mainVars, joinable, handlerVars>>

Listen == ListenAlone \/ CopyBegin \/ Copy \/ Answer \/ Throw

SelectError == Alive /\ Server!SelectError

-----------------------------------------------------------------------------
(***************************************************************************)
(* The other threads, the network and the console.                         *)
(***************************************************************************)

\* The socket is bound and open.
Bound == sock = "open" /\ mpc \notin {"ioctl", "bind"}

\* Replies that bounce are left to DsuServer: here they would only be one more
\* way out of the loop, like SelectError.
Network == Alive /\ Bound /\ Server!Arrive

Callback(d) ==
    /\ Running
    /\ Manager!Callback(d)
    /\ UNCHANGED <<serverVars, processVars, handlerVars>>

Report(d) ==
    /\ Running
    /\ Manager!CallbackTest(d)
    /\ UNCHANGED <<serverVars, processVars, handlerVars>>

Console(e) == Alone(Process!Handler(e))
Update     == Alone(Process!Update)
\* What ends the process at once (Main!Kill) is left to Main.
Outside    == Alone(Process!SpuriousWakeup \/ \E e \in Events : Process!Event(e))

Next ==
    \/ MainThread
    \/ Listen \/ SelectError
    \/ Network
    \/ \E d \in 1 .. NDevices : Report(d) \/ Callback(d)
    \/ \E e \in Events : Console(e)
    \/ Update
    \/ Outside

Spec == Init /\ [][Next]_vars

\* Every thread that can run is scheduled, and select() and sleep_for return.
FairSpec ==
    /\ Spec
    /\ WF_vars(MainThread)
    /\ WF_vars(Listen)
    /\ WF_vars(Update)
    /\ \A d \in 1 .. NDevices : WF_vars(Callback(d))
    /\ \A e \in Events : WF_vars(Console(e))

-----------------------------------------------------------------------------
(***************************************************************************)
(* Properties.                                                             *)
(***************************************************************************)

Pad == [slot : 1 .. NDevices, status : Manager!Status, floor : Manager!Status]

\* Types of what this module adds to its components.
TypeOK ==
    /\ joinable \in BOOLEAN
    /\ reading \in BOOLEAN
    /\ pads \in Seq(Pad)

\* The copy of a status is made from a cache that is complete and not freed:
\* main() starts the listen thread after initialize() and joins it before the
\* manager goes (dsu_server.cpp:16, 53; main.cpp:37-43).
ReadsLiveCache ==
    rd.pc \in {"first", "second"} => cpc = "running" /\ start \notin freed

\* A pad data reply has, in each of its parts, the report that was in the cache
\* when the handler began to copy, or a newer one (dsu_server.cpp:52-57).  It is
\* a default status only if the cache still held one, because the controller
\* had not reported or its report was dropped (CacheHoldsLatest of the manager).
FreshReplies ==
    \A i \in DOMAIN pads : \A p \in Manager!Part :
        pads[i].status[p][2] >= pads[i].floor[p][2]

\* The input that replies report never goes back: a later reply about a slot
\* is, part by part, from the same or a later report of its controller,
\* although cache and copies are unlocked (controller_manager.cpp:46, 68).
NeverOlder ==
    \A i, j \in DOMAIN pads :
        i < j /\ pads[i].slot = pads[j].slot =>
            \A p \in Manager!Part : pads[i].status[p][2] <= pads[j].status[p][2]

\* The listen loop in its place is the one of DsuServer: the handler finds
\* NConnected controllers and as many statuses whenever it looks, because the
\* loop starts only when initialize() has returned (dsu_server.cpp:16, 39, 53).
ImplementsServer == Server!Spec

\* The manager in its place is the one of ControllerManager: it is read and
\* destroyed only as that module allows (dsu_server.cpp:16, dsu_server.hpp:25).
ImplementsManager == Manager!Spec

\* The process with the real loop and the real manager is the one of Main.
ImplementsMain == Process!Spec

\* Why they fit together: the main thread starts the listen thread once and
\* stops it once, and destroys the manager only when it has been joined; ...
Constructing == {"install", "startup", "socket", "ioctl", "bind", "initialize",
                 "spawn", "start"}

Threads ==
    /\ lpc = "unstarted" => mpc \in Constructing \union {"failed", "terminated"}
    /\ stop => mpc \notin Constructing \union
                  {"lock", "test", "block", "waiting", "woken", "unlock", "stop"}
    /\ lpc \in {"loop", "select", "recv", "handle", "send"} => joinable
    /\ cpc \in {"destroyCache", "destroyControllers"} => mpc = "destroyManager"

\* ... every device that connects has got its controller when its turn is
\* over; ...
Building == {"connect", "setCallback", "pushController", "pushStatus", "growFree",
             "growPublish"}

Tried == {d \in Connects : d < next}

Counted ==
    /\ cpc \in {"connect", "setCallback", "pushController"} =>
          Len(controllers) = Cardinality(Tried)
    /\ Manager!Pushing => Len(controllers) = Cardinality(Tried) + 1
    /\ cpc \in Building \ {"connect"} => next \in Connects
    /\ cpc \notin Building => Len(controllers) = NConnected

\* ... a copy is made only for the request being handled; ...
Handling ==
    /\ rcvq \in Seq(Datagrams)
    /\ lpc = "handle" => buf \in Datagrams
    /\ reading => NeedsStatus /\ rd.pc # "idle" /\ rd.slot = Slot
    /\ rd.pc \in {"first", "second"} => reading

\* ... and no reply so far is ahead of the cache, nor of what is copied from
\* it for the next reply.
IsCopied(p) == reading /\ (rd.pc = "done" \/ (rd.pc = "second" /\ p = 1))

Behind ==
    /\ cpc \in Building => pads = <<>>
    /\ \A p \in Manager!Part :
        /\ \A i \in DOMAIN pads :
            /\ pads[i].slot \in DOMAIN controllers
            /\ cpc = "running" =>
                  pads[i].status[p][2] <= Manager!Cache[pads[i].slot][p][2]
            /\ IsCopied(p) /\ pads[i].slot = rd.slot =>
                  pads[i].status[p][2] <= rd.status[p][2]
        /\ IsCopied(p) => rd.status[p][2] <= Manager!Cache[rd.slot][p][2]

\* Once the flag of a Ctrl-C is set, the process ends, whatever the loop, the handler, the receiver
\* threads and the manager are doing then (main.cpp:38-43).
CtrlCEnds == shutdown_requested ~> Process!Gone

=============================================================================
