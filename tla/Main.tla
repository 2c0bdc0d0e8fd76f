--------------------------------- MODULE Main ---------------------------------
(***************************************************************************)
(* The life of the process (main.cpp): the main thread constructs the      *)
(* DsuServer, starts the listen thread, waits for Ctrl-C on a condition    *)
(* variable and shuts everything down; the console runs ConsoleCtrlHandler *)
(* in a new thread per event.  The listen and update threads appear with   *)
(* what they need of main(): their stop tokens, and the socket and the     *)
(* manager they use.                                                       *)
(***************************************************************************)
EXTENDS Naturals, FiniteSets

CONSTANTS
    Events   \* Ctrl-C and Ctrl-Break events of one run

VARIABLES
    mpc,                 \* where the main thread is
    mtx,                 \* owner of the mutex: "none", "main" or an event
    shutdown_requested,
    hpc,                 \* where the handler thread of each event is
    wsa,                 \* Winsock is started
    sock,                \* the socket: "none", "open" or "closed"
    manager,             \* controllerManager: "raw", "alive" or "destroyed"
    lpc, lstop,          \* the listen thread and its stop token
    upc, ustop           \* the update thread and its stop token

vars == <<mpc, mtx, shutdown_requested, hpc, wsa, sock, manager, lpc, lstop, upc, ustop>>

locking == <<mtx, shutdown_requested, hpc>>
threads == <<lpc, lstop, upc, ustop>>
objects == <<wsa, sock, manager>>

MainPC == {"install", "startup", "socket", "ioctl", "bind", "initialize", "spawn",
           "start", "lock", "test", "block", "waiting", "woken", "unlock",
           "stop", "wait", "stopUpdate", "joinUpdate", "destroyManager",
           "closesocket", "cleanup", "returned", "failed", "terminated", "killed"}

Gone == mpc \in {"returned", "failed", "terminated", "killed"}

ASSUME EventsAssumption == {"none", "main"} \cap Events = {}

Init ==
    /\ mpc = "install"
    /\ mtx = "none"
    /\ shutdown_requested = FALSE
    /\ hpc = [e \in Events |-> "idle"]
    /\ wsa = FALSE
    /\ sock = "none"
    /\ manager = "raw"
    /\ lpc = "none" /\ lstop = FALSE
    /\ upc = "none" /\ ustop = FALSE

-----------------------------------------------------------------------------
(***************************************************************************)
(* main(): SetConsoleCtrlHandler and the constructor of DsuServer.  An     *)
(* exception thrown by the constructor is caught nowhere.                  *)
(***************************************************************************)

Install ==
    /\ mpc = "install"
    /\ mpc' \in {"startup", "failed"}   \* "failed": return 1
    /\ UNCHANGED <<locking, threads, objects>>

Startup ==
    /\ mpc = "startup"
    /\ \/ mpc' = "socket" /\ wsa' = TRUE
       \/ mpc' = "terminated" /\ wsa' = wsa
    /\ UNCHANGED <<locking, threads, sock, manager>>

Socket ==
    /\ mpc = "socket"
    /\ \/ mpc' = "ioctl" /\ sock' = "open"
       \/ mpc' = "terminated" /\ sock' = sock
    /\ UNCHANGED <<locking, threads, wsa, manager>>

\* ioctlsocket and bind release what was acquired before they throw.
Ioctl ==
    /\ mpc = "ioctl"
    /\ \/ mpc' = "bind" /\ UNCHANGED <<sock, wsa>>
       \/ mpc' = "terminated" /\ sock' = "closed" /\ wsa' = FALSE
    /\ UNCHANGED <<locking, threads, manager>>

Bind ==
    /\ mpc = "bind"
    /\ \/ mpc' = "initialize" /\ UNCHANGED <<sock, wsa>>
       \/ mpc' = "terminated" /\ sock' = "closed" /\ wsa' = FALSE
    /\ UNCHANGED <<locking, threads, manager>>

\* controllerManager.initialize(), module ControllerManager
Initialize ==
    /\ mpc = "initialize"
    /\ manager' = "alive"
    /\ mpc' = "spawn"
    /\ UNCHANGED <<locking, threads, wsa, sock>>

\* updateThread is created.
Spawn ==
    /\ mpc = "spawn"
    /\ upc' = "test"
    /\ mpc' = "start"
    /\ UNCHANGED <<locking, lpc, lstop, ustop, objects>>

\* server.start(): listenThread is created.
Start ==
    /\ mpc = "start"
    /\ lpc' = "test"
    /\ mpc' = "lock"
    /\ UNCHANGED <<locking, lstop, upc, ustop, objects>>

Construct == Install \/ Startup \/ Socket \/ Ioctl \/ Bind \/ Initialize \/ Spawn \/ Start

-----------------------------------------------------------------------------
(***************************************************************************)
(* waitForCtrlC(): cv.wait with a predicate.                               *)
(***************************************************************************)

Lock ==
    /\ mpc \in {"lock", "woken"}
    /\ mtx = "none"
    /\ mtx' = "main"
    /\ mpc' = "test"
    /\ UNCHANGED <<shutdown_requested, hpc, threads, objects>>

\* Mutant: wait() without the predicate: any wake-up ends it.
Bug_NoPredicate ==
    /\ mpc = "test"
    /\ mpc' \in {"unlock", "block"}
    /\ UNCHANGED <<locking, threads, objects>>

Test ==
    /\ mpc = "test"
    /\ mpc' = IF shutdown_requested THEN "unlock" ELSE "block"
    /\ UNCHANGED <<locking, threads, objects>>

\* The mutex is released and the thread starts to wait in one step.
Block ==
    /\ mpc = "block"
    /\ mtx' = "none"
    /\ mpc' = "waiting"
    /\ UNCHANGED <<shutdown_requested, hpc, threads, objects>>

SpuriousWakeup ==
    /\ mpc = "waiting"
    /\ mpc' = "woken"
    /\ UNCHANGED <<locking, threads, objects>>

Unlock ==
    /\ mpc = "unlock"
    /\ mtx' = "none"
    /\ mpc' = "stop"
    /\ UNCHANGED <<shutdown_requested, hpc, threads, objects>>

WaitForCtrlC == Lock \/ Test \/ Block \/ Unlock

-----------------------------------------------------------------------------
(***************************************************************************)
(* The shutdown: stop(), wait(), ~DsuServer() and ~UdpServer().            *)
(***************************************************************************)

\* Mutant: the listen thread is joined without having been asked to stop.
Bug_NoStop ==
    /\ mpc = "stop"
    /\ mpc' = "wait"
    /\ UNCHANGED <<locking, threads, objects>>

\* server.stop()
Stop ==
    /\ mpc = "stop"
    /\ lstop' = TRUE
    /\ mpc' = "wait"
    /\ UNCHANGED <<locking, lpc, upc, ustop, objects>>

\* Mutant: main() does not wait for the listen thread.
Bug_NoWait ==
    /\ mpc = "wait"
    /\ mpc' = "stopUpdate"
    /\ UNCHANGED <<locking, threads, objects>>

\* server.wait()
Wait ==
    /\ mpc = "wait"
    /\ lpc = "exited"
    /\ lpc' = "joined"
    /\ mpc' = "stopUpdate"
    /\ UNCHANGED <<locking, lstop, upc, ustop, objects>>

StopUpdate ==
    /\ mpc = "stopUpdate"
    /\ ustop' = TRUE
    /\ mpc' = "joinUpdate"
    /\ UNCHANGED <<locking, lpc, lstop, upc, objects>>

JoinUpdate ==
    /\ mpc = "joinUpdate"
    /\ upc = "exited"
    /\ upc' = "joined"
    /\ mpc' = "destroyManager"
    /\ UNCHANGED <<locking, lpc, lstop, ustop, objects>>

\* ~ControllerManager(), module ControllerManager
DestroyManager ==
    /\ mpc = "destroyManager"
    /\ manager' = "destroyed"
    /\ mpc' = "closesocket"
    /\ UNCHANGED <<locking, threads, wsa, sock>>

\* Mutant: the destructor of UdpServer forgets the socket.
Bug_SocketLeft ==
    /\ mpc = "closesocket"
    /\ mpc' = "cleanup"
    /\ UNCHANGED <<locking, threads, objects>>

\* Mutant: the handle is overwritten with INVALID_SOCKET instead of closed.
Bug_SocketReset ==
    /\ mpc = "closesocket"
    /\ sock' = "invalid"
    /\ mpc' = "cleanup"
    /\ UNCHANGED <<locking, threads, wsa, manager>>

CloseSocket ==
    /\ mpc = "closesocket"
    /\ sock' = "closed"
    /\ mpc' = "cleanup"
    /\ UNCHANGED <<locking, threads, wsa, manager>>

Cleanup ==
    /\ mpc = "cleanup"
    /\ wsa' = FALSE
    /\ mpc' = "returned"
    /\ UNCHANGED <<locking, threads, sock, manager>>

Shutdown == Stop \/ Wait \/ StopUpdate \/ JoinUpdate \/ DestroyManager \/ CloseSocket
            \/ Cleanup

MainThread == Construct \/ WaitForCtrlC \/ Shutdown

-----------------------------------------------------------------------------
(***************************************************************************)
(* ConsoleCtrlHandler.                                                     *)
(***************************************************************************)

\* Ctrl-C or Ctrl-Break: the console starts a thread that runs the handler.
Event(e) ==
    /\ ~Gone /\ mpc # "install"
    /\ hpc[e] = "idle"
    /\ hpc' = [hpc EXCEPT ![e] = "lock"]
    /\ UNCHANGED <<mpc, mtx, shutdown_requested, threads, objects>>

\* Any other event, or one before the handler is installed, ends the process.
Kill ==
    /\ ~Gone
    /\ mpc' = "killed"
    /\ UNCHANGED <<locking, threads, objects>>

\* Mutant: the handler does not take the lock.
Bug_NoLock(e) ==
    /\ ~Gone
    /\ hpc[e] = "lock"
    /\ hpc' = [hpc EXCEPT ![e] = "set"]
    /\ UNCHANGED <<mpc, mtx, shutdown_requested, threads, objects>>

HandlerLock(e) ==
    /\ ~Gone
    /\ hpc[e] = "lock"
    /\ mtx = "none"
    /\ mtx' = e
    /\ hpc' = [hpc EXCEPT ![e] = "set"]
    /\ UNCHANGED <<mpc, shutdown_requested, threads, objects>>

HandlerSet(e) ==
    /\ ~Gone
    /\ hpc[e] = "set"
    /\ shutdown_requested' = TRUE
    /\ hpc' = [hpc EXCEPT ![e] = "notify"]
    /\ UNCHANGED <<mpc, mtx, threads, objects>>

\* cv.notify_all()
HandlerNotify(e) ==
    /\ ~Gone
    /\ hpc[e] = "notify"
    /\ mpc' = IF mpc = "waiting" THEN "woken" ELSE mpc
    /\ hpc' = [hpc EXCEPT ![e] = "unlock"]
    /\ UNCHANGED <<mtx, shutdown_requested, threads, objects>>

HandlerUnlock(e) ==
    /\ ~Gone
    /\ hpc[e] = "unlock"
    /\ mtx' = "none"
    /\ hpc' = [hpc EXCEPT ![e] = "done"]
    /\ UNCHANGED <<mpc, shutdown_requested, threads, objects>>

Handler(e) == HandlerLock(e) \/ HandlerSet(e) \/ HandlerNotify(e) \/ HandlerUnlock(e)

-----------------------------------------------------------------------------
(***************************************************************************)
(* The listen thread, module DsuServer, and the update thread, the lambda  *)
(* of the constructor of DsuServer.                                        *)
(***************************************************************************)

ListenTest ==
    /\ ~Gone
    /\ lpc = "test"
    /\ lpc' = IF lstop THEN "exited" ELSE "busy"
    /\ UNCHANGED <<mpc, locking, lstop, upc, ustop, objects>>

\* One turn of the loop, or an error that leaves it.
ListenTurn ==
    /\ ~Gone
    /\ lpc = "busy"
    /\ lpc' \in {"test", "exited"}
    /\ UNCHANGED <<mpc, locking, lstop, upc, ustop, objects>>

UpdateTest ==
    /\ ~Gone
    /\ upc = "test"
    /\ upc' = IF ustop THEN "exited" ELSE "busy"
    /\ UNCHANGED <<mpc, locking, lpc, lstop, ustop, objects>>

\* controllerManager.update() and 10 ms of sleep
UpdateTurn ==
    /\ ~Gone
    /\ upc = "busy"
    /\ upc' = "test"
    /\ UNCHANGED <<mpc, locking, lpc, lstop, ustop, objects>>

\* An exception leaves the listen thread: std::terminate.
ListenThrow ==
    /\ ~Gone
    /\ lpc = "busy"
    /\ mpc' = "terminated"
    /\ UNCHANGED <<locking, threads, objects>>

Listen == ListenTest \/ ListenTurn
Update == UpdateTest \/ UpdateTurn

Next ==
    \/ MainThread
    \/ SpuriousWakeup
    \/ Kill
    \/ \E e \in Events : Event(e) \/ Handler(e)
    \/ Listen
    \/ ListenThrow
    \/ Update

Spec == Init /\ [][Next]_vars

\* Every thread that can run is scheduled; select() and sleep_for return.
FairSpec ==
    /\ Spec
    /\ WF_vars(MainThread)
    /\ \A e \in Events : WF_vars(Handler(e))
    /\ WF_vars(Listen)
    /\ WF_vars(Update)

-----------------------------------------------------------------------------
(***************************************************************************)
(* Properties.                                                             *)
(***************************************************************************)

\* Types, and the states of each thread and object.
TypeOK ==
    /\ mpc \in MainPC
    /\ mtx \in Events \union {"none", "main"}
    /\ shutdown_requested \in BOOLEAN
    /\ hpc \in [Events -> {"idle", "lock", "set", "notify", "unlock", "done"}]
    /\ wsa \in BOOLEAN
    /\ sock \in {"none", "open", "closed"}
    /\ manager \in {"raw", "alive", "destroyed"}
    /\ lpc \in {"none", "test", "busy", "exited", "joined"}
    /\ upc \in {"none", "test", "busy", "exited", "joined"}
    /\ lstop \in BOOLEAN /\ ustop \in BOOLEAN

\* No Ctrl-C is lost: the main thread never sleeps on the condition variable
\* with the shutdown requested, unless a handler is about to notify it
\* (main.cpp:16-18, 25-26).
NoLostWakeup ==
    mpc = "waiting" /\ shutdown_requested => \E e \in Events : hpc[e] = "notify"

\* The main thread has left the wait.
ShuttingDown ==
    mpc \in {"unlock", "stop", "wait", "stopUpdate", "joinUpdate", "destroyManager",
             "closesocket", "cleanup", "returned"}

\* The main thread leaves the wait only because the shutdown was requested,
\* however often it wakes up without a reason (main.cpp:26).
OnlyOnRequest == ShuttingDown => shutdown_requested

\* Neither thread is in its loop body, or may enter it again, without the
\* objects the body uses (main.cpp:40-43, dsu_server.cpp:28-33,
\* udp_server.cpp:47-50).
NoUseAfterDestroy ==
    ~Gone =>
        /\ lpc \in {"test", "busy"} => wsa /\ sock = "open" /\ manager = "alive"
        /\ upc \in {"test", "busy"} => manager = "alive"

\* When main() returns 0, both threads have been joined and the socket and
\* Winsock released (main.cpp:40-43, dsu_server.cpp:28-33, udp_server.cpp:47-50).
OrderlyExit ==
    mpc = "returned" =>
        /\ lpc = "joined" /\ upc = "joined"
        /\ manager = "destroyed" /\ sock = "closed" /\ ~wsa

\* Once the handler of a Ctrl-C has set the flag, the process ends, be it during
\* construction or while serving (main.cpp:14-22, 38-43).
CtrlCEnds == shutdown_requested ~> Gone

\* Why no wake-up is lost: the mutex is held by whoever is in its section.
MutexOwner ==
    ~Gone =>
        /\ mtx = "main" <=> mpc \in {"test", "block", "unlock"}
        /\ \A e \in Events : mtx = e <=> hpc[e] \in {"set", "notify", "unlock"}

\* Between the test of the predicate and the wait the flag cannot be set.
TestStillHolds == mpc = "block" => ~shutdown_requested

\* The objects and threads of each phase of main().
Phase ==
    ~Gone =>
        /\ wsa <=> mpc \notin {"install", "startup"}
        /\ sock = IF mpc \in {"install", "startup", "socket"} THEN "none"
                  ELSE IF mpc = "cleanup" THEN "closed" ELSE "open"
        /\ manager = IF mpc \in {"install", "startup", "socket", "ioctl", "bind",
                                 "initialize"} THEN "raw"
                     ELSE IF mpc \in {"closesocket", "cleanup"} THEN "destroyed"
                     ELSE "alive"
        /\ upc = "joined" <=> mpc \in {"destroyManager", "closesocket", "cleanup"}
        /\ lpc = "joined" <=> mpc \in {"stopUpdate", "joinUpdate", "destroyManager",
                                       "closesocket", "cleanup"}
        /\ upc # "none" => mpc \notin {"install", "startup", "socket", "ioctl", "bind",
                                       "initialize", "spawn"}
        /\ lpc # "none" => mpc \notin {"install", "startup", "socket", "ioctl", "bind",
                                       "initialize", "spawn", "start"}

IInv ==
    TypeOK /\ MutexOwner /\ TestStillHolds /\ NoLostWakeup /\ OnlyOnRequest /\ Phase
    /\ OrderlyExit

=============================================================================
