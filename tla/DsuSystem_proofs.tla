-------------------------- MODULE DsuSystem_proofs --------------------------
(***************************************************************************)
(* Theorems about the whole program, for every number of devices, of those *)
(* that connect, of reports, of events and of datagrams.                   *)
(*                                                                         *)
(* The invariants of the components are used as they were proved: each     *)
(* step of the system is a step of each component, given what the others   *)
(* guarantee.  Only how the components fit together is proved here.        *)
(***************************************************************************)
EXTENDS DsuSystem, FiniteSetTheorems, SequenceTheorems, TLAPS

M == INSTANCE FreshRead_proofs
P == INSTANCE Main_proofs WITH
    lpc <- ListenThread, lstop <- stop, manager <- ManagerObject
S == INSTANCE DsuServer_proofs WITH Connected <- NConnected, Cached <- NConnected

-----------------------------------------------------------------------------
(***************************************************************************)
(* The instances of the modules and those of their proofs are the same.    *)
(***************************************************************************)

LEMMA ManagerConstants == NDevices \in Nat /\ Reports \in [M!Device -> Nat]
BY SystemAssumption DEF M!Device

LEMMA ProcessConstants == {"none", "main"} \cap Events = {}
BY RequestAssumption

LEMMA ManagerInit == Manager!Init => M!Init
BY DEF Manager!Init, M!Init, Manager!Device, M!Device, Manager!NoStatus, M!NoStatus,
   Manager!Default, M!Default, Manager!Part, M!Part

LEMMA ManagerStep == [Manager!Next]_(Manager!vars) => [M!Next]_(M!vars)
BY DEF Manager!Next, Manager!Initialize, Manager!PushStatus, Manager!Connect,
   Manager!ConnectFails, Manager!SetCallback, Manager!NextSlot, Manager!PushController,
   Manager!PushInPlace, Manager!Grow, Manager!GrowFree, Manager!GrowPublish,
   Manager!Initialized, Manager!Destroy, Manager!Teardown, Manager!DestroyCache,
   Manager!DestroyController, Manager!Destroyed, Manager!CallbackTest, Manager!Callback,
   Manager!CallbackLoad, Manager!CallbackFirst, Manager!CallbackSecond, Manager!Stored,
   Manager!KeptAfter, Manager!ReadBegin, Manager!Read, Manager!ReadFirst,
   Manager!ReadSecond, Manager!vars, Manager!Device, Manager!NoStatus, Manager!Default,
   Manager!Part, Manager!Cache, Manager!CacheSize,
   M!Next, M!Initialize, M!PushStatus, M!Connect, M!ConnectFails, M!SetCallback, M!NextSlot,
   M!PushController, M!PushInPlace, M!Grow, M!GrowFree, M!GrowPublish, M!Initialized,
   M!Destroy, M!Teardown, M!DestroyCache, M!DestroyController, M!Destroyed, M!CallbackTest,
   M!Callback, M!CallbackLoad, M!CallbackFirst, M!CallbackSecond, M!Stored, M!KeptAfter,
   M!ReadBegin, M!Read, M!ReadFirst, M!ReadSecond, M!vars, M!Device, M!NoStatus, M!Default,
   M!Part, M!Cache, M!CacheSize

LEMMA ProcessInit == Process!Init => P!Init
BY DEF Process!Init, P!Init

LEMMA ProcessStep == [Process!Next]_(Process!vars) => [P!Next]_(P!vars)
BY DEF Process!Next, Process!MainThread, Process!Construct, Process!Install,
   Process!Startup, Process!Socket, Process!Ioctl, Process!Bind, Process!Initialize,
   Process!Spawn, Process!Start, Process!WaitForCtrlC, Process!Lock, Process!Test,
   Process!Block, Process!Unlock, Process!SpuriousWakeup, Process!Shutdown, Process!Stop,
   Process!Wait, Process!StopUpdate, Process!JoinUpdate, Process!DestroyManager,
   Process!CloseSocket, Process!Cleanup, Process!Kill, Process!Event, Process!Handler,
   Process!HandlerLock, Process!HandlerSet, Process!HandlerNotify, Process!HandlerUnlock,
   Process!Listen, Process!ListenTest, Process!ListenTurn, Process!ListenThrow,
   Process!Update, Process!UpdateTest, Process!UpdateTurn, Process!vars, Process!Gone,
   Process!locking, Process!threads, Process!objects,
   P!Next, P!MainThread, P!Construct, P!Install, P!Startup, P!Socket, P!Ioctl, P!Bind,
   P!Initialize, P!Spawn, P!Start, P!WaitForCtrlC, P!Lock, P!Test, P!Block, P!Unlock,
   P!SpuriousWakeup, P!Shutdown, P!Stop, P!Wait, P!StopUpdate, P!JoinUpdate,
   P!DestroyManager, P!CloseSocket, P!Cleanup, P!Kill, P!Event, P!Handler, P!HandlerLock,
   P!HandlerSet, P!HandlerNotify, P!HandlerUnlock, P!Listen, P!ListenTest, P!ListenTurn,
   P!ListenThrow, P!Update, P!UpdateTest, P!UpdateTurn, P!vars, P!Gone, P!locking,
   P!threads, P!objects

LEMMA ServerConstants ==
    /\ Datagrams \subseteq S!Datagram /\ SizeMod \in Nat \ {0} /\ CtrMod \in Nat \ {0}
    /\ NConnected \in Nat /\ Slots \subseteq Nat /\ 0 .. NConnected - 1 \subseteq Slots
    /\ \A d \in Datagrams :
          d.type \in {"data", "motors"} /\ S!Verdict(d) = "None" =>
              \E s \in Slots : d.slots = {s}
    /\ QCap \in Nat \ {0} /\ MaxArrivals \in Nat
    /\ NoDatagram \notin Datagrams /\ NoReply \notin S!Reply
<1>1. NConnected \in Nat
  <2>1. NDevices \in Int /\ Connects \in SUBSET (1 .. NDevices)
    BY SystemAssumption
  <2>2. IsFiniteSet(1 .. NDevices)
    BY <2>1, FS_Interval
  <2>3. IsFiniteSet(Connects)
    BY <2>1, <2>2, FS_Subset
  <2>4. QED
    BY <2>3, FS_CardinalityType DEF NConnected
<1>2. S!Datagram = Server!Datagram /\ S!Reply = Server!Reply
  BY DEF S!Datagram, Server!Datagram, S!Reply, Server!Reply, S!MessageType,
     Server!MessageType, S!NoNumber, Server!NoNumber
<1>3. \A d : S!Verdict(d) = Server!Verdict(d)
  BY DEF S!Verdict, Server!Verdict, S!InfoVerdict, Server!InfoVerdict, S!PacketMin,
     Server!PacketMin
<1>4. QED
  BY <1>1, <1>2, <1>3, RequestAssumption

LEMMA LoopInit == Server!Init => S!Init
BY DEF Server!Init, S!Init

LEMMA LoopStep == [Server!Next]_(Server!vars) => [S!Next]_(S!vars)
BY DEF Server!Next, Server!Arrive, Server!Bounce, Server!Start, Server!Stop, Server!Listen,
   Server!LoopTest, Server!LoopEnter, Server!LoopExit, Server!SelectTimeout,
   Server!SelectReady, Server!SelectError, Server!Recv, Server!RecvRefused,
   Server!RecvOversize, Server!RecvDatagram, Server!RecvBufSize, Server!Handle,
   Server!HandleAnswer, Server!HandleIgnore, Server!HandleThrow, Server!Send, Server!vars,
   Server!Verdict, Server!InfoVerdict, Server!PacketMin, Server!Replies,
   Server!InfoReplies, Server!DataReplies, Server!MotorsReplies, Server!PlainReplies,
   Server!NoNumber, Server!TakesNumber, Server!NextNumber,
   S!Next, S!Arrive, S!Bounce, S!Start, S!Stop, S!Listen, S!LoopTest, S!LoopEnter,
   S!LoopExit, S!SelectTimeout, S!SelectReady, S!SelectError, S!Recv, S!RecvRefused,
   S!RecvOversize, S!RecvDatagram, S!RecvBufSize, S!Handle, S!HandleAnswer,
   S!HandleIgnore, S!HandleThrow, S!Send, S!vars, S!Verdict, S!InfoVerdict, S!PacketMin,
   S!Replies, S!InfoReplies, S!DataReplies, S!MotorsReplies, S!PlainReplies, S!NoNumber,
   S!TakesNumber, S!NextNumber

-----------------------------------------------------------------------------
(***************************************************************************)
(* The process: every step of the system is one of Main or leaves the      *)
(* variables of Main alone.                                                *)
(***************************************************************************)

LEMMA MainInitially == Init => Process!Init
BY DEF Init, Server!Init, Manager!Init, Process!Init, ListenThread, ManagerObject

\* The manager is raw while it is built.
LEMMA Builds ==
    ASSUME Connecting
    PROVE  cpc \in Building /\ cpc' \in Building
BY DEF Connecting, Building, Manager!Connect, Manager!ConnectFails, Manager!SetCallback,
   Manager!PushController, Manager!PushStatus, Manager!PushInPlace, Manager!Grow,
   Manager!GrowFree, Manager!GrowPublish

\* What main() does not see: as long as the phase of the manager and that of the
\* listen thread are the same.
LEMMA MainUnchanged ==
    ASSUME UNCHANGED <<processVars, stop>>,
           UNCHANGED cpc \/ (cpc \in Building /\ cpc' \in Building)
               \/ (cpc \in {"running", "destroyCache", "destroyControllers"}
                   /\ cpc' \in {"running", "destroyCache", "destroyControllers"}),
           UNCHANGED lpc \/ {lpc, lpc'} \subseteq {"select", "recv", "handle", "send"}
    PROVE  UNCHANGED Process!vars
<1>1. ManagerObject' = ManagerObject
  BY DEF ManagerObject, Building
<1>2. ListenThread' = ListenThread
  BY DEF ListenThread, processVars
<1>3. QED
  BY <1>1, <1>2 DEF processVars, mainVars, Process!vars

\* The listen thread, as main() sees it.
LEMMA LoopOfMain ==
    ASSUME Threads, Running, UNCHANGED <<managerVars, mpc, mainVars, joinable, stop>>,
           \/ lpc = "loop" /\ lpc' = IF stop THEN "exited" ELSE "select"
           \/ /\ lpc \in {"select", "recv", "handle", "send"}
              /\ lpc' \in {"loop", "exited"}
    PROVE  Process!Listen
<1>1. joinable /\ joinable' /\ ManagerObject' = ManagerObject
  BY DEF Threads, managerVars, ManagerObject
<1>2. ~Process!Gone /\ UNCHANGED <<Process!locking, Process!objects, stop, upc, ustop, mpc>>
  BY <1>1 DEF Running, mainVars, Process!locking, Process!objects
<1>3. CASE lpc = "loop" /\ lpc' = IF stop THEN "exited" ELSE "select"
  <2>1. ListenThread = "test" /\ ListenThread' = IF stop THEN "exited" ELSE "busy"
    BY <1>1, <1>3 DEF ListenThread
  <2>2. QED
    BY <1>2, <2>1 DEF Process!Listen, Process!ListenTest
<1>4. CASE lpc \in {"select", "recv", "handle", "send"} /\ lpc' \in {"loop", "exited"}
  <2>1. ListenThread = "busy" /\ ListenThread' \in {"test", "exited"}
    BY <1>1, <1>4 DEF ListenThread
  <2>2. QED
    BY <1>2, <2>1 DEF Process!Listen, Process!ListenTurn
<1>5. QED
  BY <1>3, <1>4

LEMMA ListenOfMain ==
    ASSUME Threads, Listen \/ SelectError
    PROVE  Process!Listen \/ Process!ListenThrow \/ UNCHANGED Process!vars
<1>1. CASE ListenAlone \/ SelectError
  <2>1. UNCHANGED <<managerVars, mpc, mainVars, joinable, processVars, stop, cpc>> /\ Running
    BY <1>1 DEF ListenAlone, SelectError, Alive, processVars, managerVars, Server!LoopTest,
       Server!LoopEnter, Server!LoopExit, Server!SelectTimeout, Server!SelectReady,
       Server!Recv, Server!RecvRefused, Server!RecvOversize, Server!RecvDatagram,
       Server!HandleIgnore, Server!Send, Server!SelectError
  <2>2. \/ lpc = "loop" /\ lpc' = IF stop THEN "exited" ELSE "select"
        \/ /\ lpc \in {"select", "recv", "handle", "send"}
           /\ lpc' \in {"loop", "exited"}
        \/ {lpc, lpc'} \subseteq {"select", "recv", "handle", "send"}
    BY <1>1 DEF ListenAlone, SelectError, Server!LoopTest,
       Server!LoopEnter, Server!LoopExit, Server!SelectTimeout, Server!SelectReady,
       Server!Recv, Server!RecvRefused, Server!RecvOversize, Server!RecvDatagram,
       Server!HandleIgnore, Server!Send, Server!SelectError
  <2>3. QED
    BY <2>1, <2>2, LoopOfMain, MainUnchanged
<1>2. CASE CopyBegin \/ Copy \/ Answer
  <2>1. UNCHANGED <<processVars, stop, cpc>>
        /\ (UNCHANGED lpc \/ {lpc, lpc'} \subseteq {"select", "recv", "handle", "send"})
    BY <1>2 DEF CopyBegin, Copy, Answer, serverVars, managerVars, Manager!Read,
       Manager!ReadFirst, Manager!ReadSecond
  <2>2. QED
    BY <2>1, MainUnchanged
<1>3. CASE Throw
  <2>1. /\ lpc = "handle" /\ lpc' = "terminated" /\ UNCHANGED <<cpc, joinable, stop, mainVars>>
        /\ mpc' = "terminated" /\ ~Process!Gone
    BY <1>3 DEF Throw, Server!HandleThrow, managerVars, Running
  <2>2. ListenThread = "busy" /\ ListenThread' = "busy" /\ ManagerObject' = ManagerObject
    BY <2>1 DEF Threads, ListenThread, ManagerObject
  <2>3. QED
    BY <2>1, <2>2 DEF Process!ListenThrow, Process!locking, Process!threads,
       Process!objects, mainVars
<1>4. QED
  BY <1>1, <1>2, <1>3 DEF Listen

\* The main thread.
LEMMA MainThreadOfMain ==
    ASSUME MainThread
    PROVE  Process!MainThread \/ UNCHANGED Process!vars
<1>1. CASE Alone(Construct \/ Process!WaitForCtrlC \/ Release)
  BY <1>1 DEF Alone, Construct, Release, Process!MainThread, Process!Construct,
     Process!Shutdown
<1>2. CASE Connecting \/ Destroy \/ Destroying
  <2>1. UNCHANGED <<processVars, stop, lpc>>
    BY <1>2 DEF Connecting, Destroy, Destroying, serverVars
  <2>2. UNCHANGED cpc \/ (cpc \in Building /\ cpc' \in Building)
               \/ (cpc \in {"running", "destroyCache", "destroyControllers"}
                   /\ cpc' \in {"running", "destroyCache", "destroyControllers"})
    BY <1>2, Builds DEF Destroy, Destroying, Manager!DestroyCache, Manager!DestroyController
  <2>3. QED
    BY <2>1, <2>2, MainUnchanged
<1>3. CASE Initialized
  <2>1. /\ mpc = "initialize" /\ mpc' = "spawn" /\ cpc' = "running"
        /\ UNCHANGED <<lpc, joinable, stop, mainVars>>
    BY <1>3 DEF Initialized, Manager!Initialized, serverVars
  <2>2. ManagerObject' = "alive" /\ ListenThread' = ListenThread
    BY <2>1 DEF ManagerObject, ListenThread
  <2>3. Process!Initialize
    BY <2>1, <2>2 DEF Process!Initialize, Process!locking, Process!threads, mainVars
  <2>4. QED
    BY <2>3 DEF Process!MainThread, Process!Construct
<1>4. CASE Start
  <2>1. /\ mpc = "start" /\ mpc' = "lock" /\ lpc' = "loop" /\ joinable'
        /\ UNCHANGED <<cpc, stop, mainVars>>
    BY <1>4 DEF Start, managerVars
  <2>2. ManagerObject' = ManagerObject /\ ListenThread' = "test"
    BY <2>1 DEF ManagerObject, ListenThread
  <2>3. Process!Start
    BY <2>1, <2>2 DEF Process!Start, Process!locking, Process!objects, mainVars
  <2>4. QED
    BY <2>3 DEF Process!MainThread, Process!Construct
<1>5. CASE Stop
  <2>1. /\ mpc = "stop" /\ mpc' = "wait" /\ stop' = TRUE
        /\ UNCHANGED <<cpc, lpc, joinable, mainVars>>
    BY <1>5 DEF Stop, managerVars
  <2>2. ManagerObject' = ManagerObject /\ ListenThread' = ListenThread
    BY <2>1 DEF ManagerObject, ListenThread
  <2>3. Process!Stop
    BY <2>1, <2>2 DEF Process!Stop, Process!locking, Process!objects, mainVars
  <2>4. QED
    BY <2>3 DEF Process!MainThread, Process!Shutdown
<1>6. CASE Wait
  <2>1. /\ mpc = "wait" /\ mpc' = "stopUpdate" /\ lpc = "exited" /\ joinable /\ ~joinable'
        /\ UNCHANGED <<cpc, lpc, stop, mainVars>>
    BY <1>6 DEF Wait, managerVars, serverVars
  <2>2. ManagerObject' = ManagerObject /\ ListenThread = "exited" /\ ListenThread' = "joined"
    BY <2>1 DEF ManagerObject, ListenThread
  <2>3. Process!Wait
    BY <2>1, <2>2 DEF Process!Wait, Process!locking, Process!objects, mainVars
  <2>4. QED
    BY <2>3 DEF Process!MainThread, Process!Shutdown
<1>7. CASE Destroyed
  <2>1. /\ mpc = "destroyManager" /\ mpc' = "closesocket" /\ cpc' = "done"
        /\ UNCHANGED <<lpc, joinable, stop, mainVars>>
    BY <1>7 DEF Destroyed, Manager!Destroyed, serverVars
  <2>2. ManagerObject' = "destroyed" /\ ListenThread' = ListenThread
    BY <2>1 DEF ManagerObject, ListenThread
  <2>3. Process!DestroyManager
    BY <2>1, <2>2 DEF Process!DestroyManager, Process!locking, Process!threads, mainVars
  <2>4. QED
    BY <2>3 DEF Process!MainThread, Process!Shutdown
<1>8. QED
  BY <1>1, <1>2, <1>3, <1>4, <1>5, <1>6, <1>7 DEF MainThread

LEMMA MainStep == Threads /\ [Next]_vars => [Process!Next]_(Process!vars)
<1> SUFFICES ASSUME Threads, [Next]_vars PROVE [Process!Next]_(Process!vars)
  OBVIOUS
<1>1. CASE MainThread
  BY <1>1, MainThreadOfMain DEF Process!Next
<1>2. CASE Listen \/ SelectError
  BY <1>2, ListenOfMain DEF Process!Next
<1>3. CASE \/ Network \/ UNCHANGED vars
           \/ \E d \in 1 .. NDevices : Report(d) \/ Callback(d)
  <2>1. UNCHANGED <<processVars, stop, cpc, lpc>>
    BY <1>3 DEF Network, Alive, Server!Arrive, vars, managerVars, serverVars, Report, Callback,
       Manager!CallbackTest, Manager!Callback, Manager!CallbackLoad, Manager!CallbackFirst,
       Manager!CallbackSecond
  <2>2. QED
    BY <2>1, MainUnchanged
<1>4. CASE (\E e \in Events : Console(e)) \/ Update \/ Outside
  BY <1>4 DEF Console, Update, Outside, Alone, Process!Next
<1>5. QED
  BY <1>1, <1>2, <1>3, <1>4 DEF Next

-----------------------------------------------------------------------------
(***************************************************************************)
(* The listen thread runs only while the manager is complete.              *)
(***************************************************************************)

LEMMA Serving ==
    ASSUME Threads, P!IInv, Running, lpc \in {"loop", "select", "recv", "handle", "send"}
    PROVE  /\ cpc = "running"
           /\ mpc \in {"lock", "test", "block", "waiting", "woken", "unlock", "stop", "wait"}
<1>1. ListenThread \in {"test", "busy"}
  BY DEF Threads, ListenThread
<1>2. mpc \in P!MainPC /\ P!Phase /\ ~P!Gone
  BY DEF P!IInv, P!TypeOK, Running, Process!Gone, P!Gone
<1>3. mpc \in {"lock", "test", "block", "waiting", "woken", "unlock", "stop", "wait"}
  BY <1>1, <1>2 DEF P!Phase, P!MainPC, P!Gone
<1>4. ManagerObject = "alive"
  BY <1>2, <1>3 DEF P!Phase
<1>5. QED
  BY <1>3, <1>4 DEF ManagerObject, Threads

LEMMA ThreadsInitially == Init => Threads
BY DEF Init, Server!Init, Manager!Init, Threads, Constructing

LEMMA ThreadsStep == Threads /\ P!IInv /\ [Next]_vars => Threads'
<1> SUFFICES ASSUME Threads, P!IInv, [Next]_vars PROVE Threads'
  OBVIOUS
<1>1. CASE Alone(Construct \/ Process!WaitForCtrlC \/ Release) \/ Update \/ Outside
           \/ \E e \in Events : Console(e)
  <2>1. UNCHANGED <<lpc, stop, joinable, cpc>>
    BY <1>1 DEF Alone, Update, Outside, Console, serverVars, managerVars
  <2>2. /\ mpc \in Constructing =>
              mpc' \in Constructing \union {"failed", "terminated"}
        /\ mpc \notin Constructing => mpc' \notin Constructing
        /\ mpc' \in {"lock", "test", "block", "waiting", "woken", "unlock", "stop"} =>
              mpc \in {"lock", "test", "block", "waiting", "woken", "unlock", "stop"}
        /\ mpc = "destroyManager" => mpc' = mpc
        /\ mpc \in {"failed", "terminated"} => mpc' = mpc
    <3>1. CASE Alone(Construct)
      BY <3>1 DEF Alone, Construct, Process!Install, Process!Startup, Process!Socket,
         Process!Ioctl, Process!Bind, Process!Spawn, Constructing
    <3>2. CASE Alone(Process!WaitForCtrlC)
      BY <3>2 DEF Alone, Process!WaitForCtrlC, Process!Lock, Process!Test, Process!Block,
         Process!Unlock, Constructing
    <3>3. CASE Alone(Release)
      BY <3>3 DEF Alone, Release, Process!StopUpdate, Process!JoinUpdate,
         Process!CloseSocket, Process!Cleanup, Constructing
    <3>4. CASE Update \/ Outside \/ \E e \in Events : Console(e)
      BY <3>4 DEF Alone, Update, Outside, Console, Process!Update, Process!UpdateTest,
         Process!UpdateTurn, Process!SpuriousWakeup, Process!Event, Process!Handler,
         Process!HandlerLock, Process!HandlerSet, Process!HandlerNotify,
         Process!HandlerUnlock, Constructing
    <3>5. QED
      BY <1>1, <3>1, <3>2, <3>3, <3>4 DEF Alone
  <2>3. QED
    BY <2>1, <2>2 DEF Threads
<1>2. CASE Connecting \/ Initialized \/ Destroy \/ Destroying \/ Destroyed
  <2>1. UNCHANGED <<lpc, stop, joinable>>
    BY <1>2 DEF Connecting, Initialized, Destroy, Destroying, Destroyed, serverVars,
       processVars
  <2>2. /\ mpc' = mpc \/ (mpc = "initialize" /\ mpc' = "spawn")
           \/ (mpc = "destroyManager" /\ mpc' = "closesocket" /\ cpc' = "done")
        /\ cpc' \in {"destroyCache", "destroyControllers"} => mpc' = "destroyManager"
    BY <1>2, Builds DEF Connecting, Initialized, Manager!Initialized, Destroy, Destroying,
       Destroyed, Manager!Destroyed, Manager!DestroyCache, Manager!DestroyController,
       processVars, Building
  <2>3. QED
    BY <2>1, <2>2 DEF Threads, Constructing
<1>3. CASE Start \/ Stop \/ Wait
  BY <1>3 DEF Threads, Constructing, Start, Stop, Wait, managerVars, serverVars
<1>4. CASE ListenAlone \/ SelectError \/ CopyBegin \/ Answer \/ Throw
  <2>1. /\ UNCHANGED <<stop, joinable, cpc>> /\ Running
        /\ lpc \in {"loop", "select", "recv", "handle", "send"}
        /\ lpc' # "unstarted"
        /\ lpc' \in {"loop", "select", "recv", "handle", "send"} => mpc' = mpc
        /\ mpc' \in {mpc, "terminated"}
    <3>1. CASE ListenAlone \/ SelectError
      BY <3>1 DEF ListenAlone, SelectError, Alive, processVars, managerVars,
         Server!LoopTest, Server!LoopEnter, Server!LoopExit, Server!SelectTimeout,
         Server!SelectReady, Server!Recv, Server!RecvRefused, Server!RecvOversize,
         Server!RecvDatagram, Server!HandleIgnore, Server!Send, Server!SelectError
    <3>2. CASE CopyBegin \/ Answer \/ Throw
      BY <3>2 DEF CopyBegin, Answer, Throw, NeedsStatus, Server!HandleThrow, serverVars,
         processVars, managerVars
    <3>3. QED
      BY <1>4, <3>1, <3>2
  <2>2. QED
    BY <2>1, Serving DEF Threads, Constructing
<1>5. CASE \/ Network \/ Copy \/ UNCHANGED vars
           \/ \E d \in 1 .. NDevices : Report(d) \/ Callback(d)
  <2>1. UNCHANGED <<processVars, stop, cpc, lpc>>
    BY <1>5 DEF Network, Alive, Server!Arrive, vars, managerVars, serverVars, Report, Callback,
       Manager!CallbackTest, Manager!Callback, Manager!CallbackLoad, Manager!CallbackFirst,
       Manager!CallbackSecond, Copy, Manager!Read, Manager!ReadFirst, Manager!ReadSecond
  <2>2. QED
    BY <2>1 DEF Threads, processVars
<1>6. QED
  BY <1>1, <1>2, <1>3, <1>4, <1>5 DEF Next, MainThread, Listen

-----------------------------------------------------------------------------
(***************************************************************************)
(* The manager: it is read and destroyed only as ControllerManager allows. *)
(***************************************************************************)

LEMMA ManagerInitially == Init => Manager!Init
BY DEF Init

LEMMA SameVerdict == \A d : Handler!Verdict(d) = Server!Verdict(d)
BY DEF Handler!Verdict, Server!Verdict, Handler!InfoVerdict, Server!InfoVerdict,
   Handler!PacketMin, Server!PacketMin

\* A well-formed pad data request names one slot.
LEMMA SlotNamed ==
    ASSUME buf \in Datagrams, Handler!Verdict(buf) = "None", buf.type = "data"
    PROVE  \E s \in Slots : s \in Nat /\ buf.slots = {s} /\ Slot = s + 1
<1>1. PICK s \in Slots : buf.slots = {s}
  BY SameVerdict, RequestAssumption
<1>2. {t + 1 : t \in buf.slots} = {s + 1}
  BY <1>1
<1>3. Slot = s + 1
  BY <1>2 DEF Slot
<1>4. QED
  BY <1>1, <1>3, RequestAssumption

\* The handler copies a status only while the manager is complete.
LEMMA ReadingServes ==
    ASSUME Threads, P!IInv, Handling, Running, reading \/ rd.pc \in {"first", "second"}
    PROVE  /\ lpc = "handle" /\ reading /\ cpc = "running"
           /\ mpc \in {"lock", "test", "block", "waiting", "woken", "unlock", "stop", "wait"}
BY Serving DEF Handling, NeedsStatus

LEMMA CopyBegins ==
    ASSUME Threads, P!IInv, M!IInv, Handling, CopyBegin
    PROVE  cpc = "running" /\ Slot \in 1 .. NDevices /\ Manager!ReadBegin(Slot)
<1>1. cpc = "running" /\ NeedsStatus /\ ~reading /\ buf \in Datagrams
  BY Serving DEF CopyBegin, NeedsStatus, Handling
<1>2. rd.pc \in {"idle", "done"}
  BY <1>1 DEF Handling, M!IInv, M!TypeOK, M!Reader
<1>3. Slot \in Nat \ {0} /\ Slot <= Len(controllers) /\ Slot <= Manager!CacheSize
  BY <1>1, SlotNamed DEF NeedsStatus
<1>4. Len(controllers) \in Nat /\ Len(controllers) <= NDevices
  BY LenProperties DEF M!IInv, M!TypeOK, M!NoMoreThanTried
<1>5. Slot \in 1 .. NDevices
  BY <1>3, <1>4, SystemAssumption
<1>6. Manager!ReadBegin(Slot)
  BY <1>1, <1>2, <1>3 DEF CopyBegin, Manager!ReadBegin
<1>7. QED
  BY <1>1, <1>5, <1>6

LEMMA ManagerOfSystem ==
    Threads /\ P!IInv /\ M!IInv /\ Handling /\ [Next]_vars
        => [Manager!Next]_(Manager!vars)
<1> SUFFICES ASSUME Threads, P!IInv, M!IInv, Handling, [Next]_vars
             PROVE  [Manager!Next]_(Manager!vars)
  OBVIOUS
<1>1. CASE Connecting \/ Initialized
  BY <1>1 DEF Connecting, Initialized, Manager!Next, Manager!Initialize
<1>2. CASE Destroy
  <2>1. rd.pc \notin {"first", "second"}
    BY <1>2, ReadingServes DEF Destroy, Running, Process!Gone
  <2>2. rd.pc \in {"idle", "done"}
    BY <2>1 DEF M!IInv, M!TypeOK, M!Reader
  <2>3. Manager!Destroy
    BY <1>2, <2>2 DEF Destroy, Manager!Destroy
  <2>4. QED
    BY <2>3 DEF Manager!Next
<1>3. CASE Destroying \/ Destroyed
  BY <1>3 DEF Destroying, Destroyed, Manager!Next, Manager!Teardown
<1>4. CASE CopyBegin
  BY <1>4, CopyBegins DEF Manager!Next, Manager!Device
<1>5. CASE Copy
  BY <1>5 DEF Copy, Manager!Next
<1>6. CASE \E d \in 1 .. NDevices : Report(d) \/ Callback(d)
  BY <1>6 DEF Report, Callback, Manager!Next, Manager!Device
<1>7. CASE ~(\/ Connecting \/ Initialized \/ Destroy \/ Destroying \/ Destroyed \/ CopyBegin
             \/ Copy \/ \E d \in 1 .. NDevices : Report(d) \/ Callback(d))
  <2>1. UNCHANGED managerVars
    BY <1>7 DEF Next, MainThread, Alone, Start, Stop, Wait, Listen, ListenAlone, Alive,
       Answer, Throw, SelectError, Network, Console, Update, Outside, vars
  <2>2. QED
    BY <2>1 DEF managerVars, Manager!vars
<1>8. QED
  BY <1>1, <1>2, <1>3, <1>4, <1>5, <1>6, <1>7

-----------------------------------------------------------------------------
(***************************************************************************)
(* The handler: its request and its copy stay until it answers.            *)
(***************************************************************************)

\* Nothing happens after the process is gone.
LEMMA StepsRun == Next => Running
<1> SUFFICES ASSUME Next PROVE Running
  OBVIOUS
<1>1. CASE Alone(Construct \/ Process!WaitForCtrlC \/ Release)
  BY <1>1 DEF Alone, Construct, Release, Process!WaitForCtrlC, Process!Install,
     Process!Startup, Process!Socket, Process!Ioctl, Process!Bind, Process!Spawn,
     Process!Lock, Process!Test, Process!Block, Process!Unlock, Process!StopUpdate,
     Process!JoinUpdate, Process!CloseSocket, Process!Cleanup, Running, Process!Gone
<1>2. CASE Connecting \/ Initialized \/ Start \/ Stop \/ Wait \/ Destroy \/ Destroying \/ Destroyed
  BY <1>2 DEF Connecting, Initialized, Start, Stop, Wait, Destroy, Destroying, Destroyed,
     Running, Process!Gone
<1>3. CASE Listen \/ SelectError \/ Network
           \/ \E d \in 1 .. NDevices : Report(d) \/ Callback(d)
  BY <1>3 DEF Listen, ListenAlone, SelectError, Network, Alive, CopyBegin, Copy, Answer,
     Throw, Report, Callback
<1>4. CASE (\E e \in Events : Console(e)) \/ Update \/ Outside
  BY <1>4 DEF Console, Update, Outside, Alone, Process!Update, Process!UpdateTest,
     Process!UpdateTurn, Process!SpuriousWakeup, Process!Event, Process!Handler,
     Process!HandlerLock, Process!HandlerSet, Process!HandlerNotify,
     Process!HandlerUnlock, Running, Process!Gone
<1>5. QED
  BY <1>1, <1>2, <1>3, <1>4 DEF Next, MainThread

\* Only the three steps of a copy concern it.
LEMMA CopyAlone ==
    ASSUME [Next]_vars, ~CopyBegin, ~Copy, ~Answer
    PROVE  UNCHANGED <<rd, reading, pads>>
<1>1. CASE Connecting \/ Initialized \/ Destroy \/ Destroying \/ Destroyed
           \/ \E d \in 1 .. NDevices : Report(d) \/ Callback(d)
  BY <1>1 DEF Connecting, Initialized, Destroy, Destroying, Destroyed, Report, Callback,
     handlerVars, Manager!Connect, Manager!ConnectFails, Manager!SetCallback,
     Manager!PushController, Manager!PushStatus, Manager!PushInPlace, Manager!Grow,
     Manager!GrowFree, Manager!GrowPublish, Manager!Initialized, Manager!DestroyCache,
     Manager!DestroyController, Manager!Destroyed, Manager!CallbackTest, Manager!Callback,
     Manager!CallbackLoad, Manager!CallbackFirst, Manager!CallbackSecond
<1>2. CASE ~(\/ Connecting \/ Initialized \/ Destroy \/ Destroying \/ Destroyed
             \/ \E d \in 1 .. NDevices : Report(d) \/ Callback(d))
  BY <1>2 DEF Next, MainThread, Alone, Start, Stop, Wait, Listen, ListenAlone, Alive,
     Throw, SelectError, Network, Console, Update, Outside, vars, managerVars, handlerVars
<1>3. QED
  BY <1>1, <1>2

\* While a status is copied, the loop, the vectors and the request rest.
LEMMA RequestRests ==
    ASSUME Threads, P!IInv, M!IInv, M!IInv', Handling, reading, [Next]_vars, ~Answer
    PROVE  /\ NeedsStatus' /\ Slot' = Slot /\ UNCHANGED <<controllers, reading, pads>>
           /\ cpc = "running" \/ UNCHANGED vars
<1>1. CASE UNCHANGED vars
  <2>1. UNCHANGED <<lpc, buf, controllers, heap, start, reading, pads, packetCounter>>
    BY <1>1 DEF vars, serverVars, managerVars, handlerVars
  <2>2. (Manager!CacheSize)' = Manager!CacheSize /\ Handler!Verdict(buf)' = Handler!Verdict(buf)
    BY <2>1 DEF Manager!CacheSize, Manager!Cache
  <2>3. QED
    BY <1>1, <2>1, <2>2 DEF NeedsStatus, Slot, Handling
<1>2. CASE Next
  <2>1. lpc = "handle" /\ cpc = "running" /\ Running /\ mpc # "start" /\ NeedsStatus
    BY <1>2, StepsRun, ReadingServes DEF Handling
  <2>2. UNCHANGED <<lpc, buf>>
    <3>1. CASE ListenAlone \/ SelectError \/ Throw
      <4>1. Server!Verdict(buf) = "None"
        BY <2>1, SameVerdict DEF NeedsStatus
      <4>2. QED
        BY <2>1, <3>1, <4>1 DEF ListenAlone, SelectError, Throw, Server!LoopTest,
           Server!LoopEnter, Server!LoopExit, Server!SelectTimeout, Server!SelectReady,
           Server!Recv, Server!RecvRefused, Server!RecvOversize, Server!RecvDatagram,
           Server!HandleIgnore, Server!HandleThrow, Server!Send, Server!SelectError
    <3>2. CASE ~(ListenAlone \/ SelectError \/ Throw)
      BY <1>2, <2>1, <3>2 DEF Next, MainThread, Alone, Connecting, Initialized, Start, Stop,
         Wait, Destroy, Destroying, Destroyed, Listen, CopyBegin, Copy, Network,
         Server!Arrive, Report, Callback, Console, Update, Outside, serverVars
    <3>3. QED
      BY <3>1, <3>2
  <2>3. UNCHANGED controllers /\ (M!CacheSize)' = M!CacheSize
    <3>1. [M!Next]_(M!vars)
      BY ManagerOfSystem, ManagerStep
    <3>2. QED
      BY <2>1, <3>1, ManagerConstants, M!Complete, Zenon
  <2>4. (Manager!CacheSize)' = Manager!CacheSize
    BY <2>3 DEF Manager!CacheSize, Manager!Cache, M!CacheSize, M!Cache
  <2>5. UNCHANGED <<reading, pads>>
    BY <1>2, CopyAlone DEF CopyBegin, Copy, handlerVars
  <2>6. Slot' = Slot /\ Handler!Verdict(buf)' = Handler!Verdict(buf)
    BY <2>2 DEF Slot, Handler!Verdict, Handler!InfoVerdict, Handler!PacketMin
  <2>7. NeedsStatus'
    BY <2>1, <2>2, <2>3, <2>4, <2>6 DEF NeedsStatus
  <2>8. QED
    BY <2>1, <2>3, <2>5, <2>6, <2>7
<1>3. QED
  BY <1>1, <1>2

LEMMA HandlingInitially == Init => Handling
BY EmptySeq DEF Init, Server!Init, Manager!Init, Handling

\* The datagrams in the buffer and in the handler are those that arrived.
LEMMA RequestsArrived ==
    ASSUME Handling, [Next]_vars
    PROVE  rcvq' \in Seq(Datagrams) /\ (lpc' = "handle" => buf' \in Datagrams)
<1>1. rcvq \in Seq(Datagrams) /\ (lpc = "handle" => buf \in Datagrams)
  BY DEF Handling
<1>2. CASE ListenAlone
  <2>1. CASE Server!RecvDatagram \/ Server!RecvOversize
    <3>1. rcvq # <<>> /\ rcvq' = Tail(rcvq) /\ (lpc' = "handle" => buf' = Head(rcvq))
      BY <2>1 DEF Server!RecvDatagram, Server!RecvOversize
    <3>2. QED
      BY <1>1, <3>1, HeadTailProperties
  <2>2. CASE ~(Server!RecvDatagram \/ Server!RecvOversize)
    BY <1>1, <1>2, <2>2 DEF ListenAlone, Server!LoopTest, Server!LoopEnter, Server!LoopExit,
       Server!SelectTimeout, Server!SelectReady, Server!Recv, Server!RecvRefused,
       Server!HandleIgnore, Server!Send
  <2>3. QED
    BY <2>1, <2>2
<1>3. CASE Network
  <2>1. PICK d \in Datagrams : rcvq' \in {rcvq, Append(rcvq, d)}
    BY <1>3 DEF Network, Server!Arrive
  <2>2. UNCHANGED <<lpc, buf>>
    BY <1>3 DEF Network, Server!Arrive
  <2>3. QED
    BY <1>1, <2>1, <2>2, AppendProperties
<1>4. CASE ~(ListenAlone \/ Network)
  <2>1. rcvq' = rcvq /\ (lpc' = "handle" => lpc = "handle" /\ buf' = buf)
    BY <1>4 DEF Next, MainThread, Alone, Connecting, Initialized, Start, Stop, Wait,
       Destroy, Destroying, Destroyed, Listen, CopyBegin, Copy, Answer, Throw,
       Server!HandleThrow, SelectError, Server!SelectError, Report, Callback, Console,
       Update, Outside, serverVars, vars
  <2>2. QED
    BY <1>1, <2>1
<1>5. QED
  BY <1>2, <1>3, <1>4

\* A step of the copy itself.
LEMMA CopyStep ==
    ASSUME Handling, M!IInv, Copy
    PROVE  /\ rd'.slot = rd.slot /\ rd'.floor = rd.floor
           /\ \/ /\ rd.pc = "first" /\ rd'.pc = "second"
                 /\ rd'.status[1] = Manager!Cache[rd.slot][1]
              \/ /\ rd.pc = "second" /\ rd'.pc = "done"
                 /\ rd'.status[1] = rd.status[1]
                 /\ rd'.status[2] = Manager!Cache[rd.slot][2]
<1>1. rd \in M!Reader
  BY DEF M!IInv, M!TypeOK
<1>2. CASE Manager!ReadFirst
  <2>1. rd.pc = "first" /\ rd' = [rd EXCEPT !.status[1] = Manager!Cache[rd.slot][1],
                                           !.pc = "second"]
    BY <1>2 DEF Manager!ReadFirst
  <2>2. QED
    BY <1>1, <2>1 DEF M!Reader, M!Status, M!Part
<1>3. CASE Manager!ReadSecond
  <2>1. rd.pc = "second" /\ rd' = [rd EXCEPT !.status[2] = Manager!Cache[rd.slot][2],
                                            !.pc = "done"]
    BY <1>3 DEF Manager!ReadSecond
  <2>2. QED
    BY <1>1, <2>1 DEF M!Reader, M!Status, M!Part
<1>4. QED
  BY <1>2, <1>3 DEF Copy, Manager!Read

LEMMA HandlingStep ==
    Threads /\ P!IInv /\ M!IInv /\ M!IInv' /\ Handling /\ [Next]_vars => Handling'
<1> SUFFICES ASSUME Threads, P!IInv, M!IInv, M!IInv', Handling, [Next]_vars
             PROVE  Handling'
  OBVIOUS
<1>1. /\ reading' => NeedsStatus' /\ rd'.pc # "idle" /\ rd'.slot = Slot'
      /\ rd'.pc \in {"first", "second"} => reading'
  <2>1. CASE CopyBegin
    <3>1. /\ NeedsStatus /\ reading' /\ rd'.pc = "first" /\ rd'.slot = Slot
          /\ UNCHANGED <<lpc, buf, controllers, heap, start>>
      BY <2>1 DEF CopyBegin, serverVars
    <3>2. (Manager!CacheSize)' = Manager!CacheSize
      BY <3>1 DEF Manager!CacheSize, Manager!Cache
    <3>3. Slot' = Slot /\ Handler!Verdict(buf)' = Handler!Verdict(buf)
      BY <3>1 DEF Slot, Handler!Verdict, Handler!InfoVerdict, Handler!PacketMin
    <3>4. QED
      BY <3>1, <3>2, <3>3 DEF NeedsStatus
  <2>2. CASE Answer
    <3>1. ~reading' /\ rd' = rd /\ (NeedsStatus => rd.pc = "done")
      BY <2>2 DEF Answer, UseCopy, managerVars
    <3>2. QED
      BY <3>1 DEF Handling
  <2>3. CASE Copy
    <3>1. reading /\ ~Answer
      BY <2>3 DEF Copy, Manager!Read, Manager!ReadFirst, Manager!ReadSecond, Handling,
         Answer, serverVars
    <3>2. QED
      BY <2>3, <3>1, RequestRests, CopyStep DEF Handling
  <2>4. CASE ~(CopyBegin \/ Answer \/ Copy)
    <3>1. UNCHANGED <<rd, reading>>
      BY <2>4, CopyAlone
    <3>2. QED
      BY <2>4, <3>1, RequestRests DEF Handling
  <2>5. QED
    BY <2>1, <2>2, <2>3, <2>4
<1>2. QED
  BY <1>1, RequestsArrived DEF Handling

-----------------------------------------------------------------------------
(***************************************************************************)
(* When initialize() returns, every device that connects has its           *)
(* controller and its status.                                              *)
(***************************************************************************)

LEMMA TriedFinite ==
    ASSUME next \in Nat
    PROVE  /\ IsFiniteSet(Tried) /\ Cardinality(Tried) \in Nat
           /\ next \notin Connects => {d \in Connects : d < next + 1} = Tried
           /\ next \in Connects =>
                 Cardinality({d \in Connects : d < next + 1}) = Cardinality(Tried) + 1
           /\ next > NDevices => Tried = Connects
<1>1. IsFiniteSet(1 .. NDevices) /\ Connects \subseteq 1 .. NDevices /\ NDevices \in Nat
  BY FS_Interval, SystemAssumption
<1>2. IsFiniteSet(Tried)
  BY <1>1, FS_Subset DEF Tried
<1>3. Cardinality(Tried) \in Nat
  BY <1>2, FS_CardinalityType
<1>0. \A d \in Connects : d \in Nat /\ d <= NDevices
  BY <1>1
<1>4. {d \in Connects : d < next + 1} =
         IF next \in Connects THEN Tried \union {next} ELSE Tried
  <2>1. \A d \in Connects : d < next + 1 <=> (d < next \/ d = next)
    BY <1>0
  <2>2. QED
    BY <2>1 DEF Tried
<1>5. next \notin Tried
  BY DEF Tried
<1>6. next \in Connects =>
         Cardinality({d \in Connects : d < next + 1}) = Cardinality(Tried) + 1
  BY <1>2, <1>4, <1>5, FS_AddElement
<1>7. next > NDevices => Tried = Connects
  <2>1. next > NDevices => \A d \in Connects : d < next
    BY <1>0, <1>1
  <2>2. QED
    BY <2>1 DEF Tried
<1>8. QED
  BY <1>2, <1>3, <1>4, <1>6, <1>7

LEMMA CountedInitially == Init => Counted
<1> SUFFICES ASSUME Init PROVE Counted
  OBVIOUS
<1>1. cpc = "connect" /\ next = 1 /\ Len(controllers) = 0
  BY EmptySeq DEF Init, Manager!Init
<1>2. Tried = {}
  <2>1. \A d \in Connects : ~(d < 1)
    BY SystemAssumption
  <2>2. QED
    BY <1>1, <2>1 DEF Tried
<1>3. Cardinality(Tried) = 0
  BY <1>2, FS_EmptySet
<1>4. QED
  BY <1>1, <1>3 DEF Counted, Building, Manager!Pushing

LEMMA CountedStep == M!IInv /\ Counted /\ [Next]_vars => Counted'
<1> SUFFICES ASSUME M!IInv, Counted, [Next]_vars PROVE Counted'
  OBVIOUS
<1>1. next \in Nat /\ controllers \in Seq(M!Device)
  BY SystemAssumption DEF M!IInv, M!TypeOK, M!Device
<1>2. Tried' = {d \in Connects : d < next'}
  BY DEF Tried
<1>3. CASE Connecting
  <2>1. CASE next \in Connects /\ Manager!Connect
    BY <1>2, <2>1 DEF Manager!Connect, Counted, Building, Manager!Pushing, Tried
  <2>2. CASE next \notin Connects /\ Manager!ConnectFails
    <3>1. /\ cpc = "connect" /\ cpc' = "connect" /\ next' = next + 1
          /\ controllers' = controllers
      BY <2>2 DEF Manager!ConnectFails
    <3>2. Tried' = {d \in Connects : d < next + 1}
      BY <1>2, <3>1
    <3>3. Tried' = Tried
      BY <1>1, <2>2, <3>2, TriedFinite
    <3>4. QED
      BY <3>1, <3>3 DEF Counted, Building, Manager!Pushing
  <2>3. CASE Manager!SetCallback \/ Manager!Grow \/ Manager!GrowFree
    <3>1. UNCHANGED <<next, controllers>> /\ Tried' = Tried
      BY <1>2, <2>3 DEF Manager!SetCallback, Manager!Grow, Manager!GrowFree, Tried
    <3>2. QED
      BY <2>3, <3>1 DEF Manager!SetCallback, Manager!Grow, Manager!GrowFree, Counted,
         Building, Manager!Pushing
  <2>4. CASE Manager!PushController
    <3>1. /\ cpc = "pushController" /\ cpc' = "pushStatus" /\ next' = next
          /\ controllers' = Append(controllers, next) /\ Tried' = Tried
      BY <1>2, <2>4 DEF Manager!PushController, Tried
    <3>2. next \in Connects /\ next \in M!Device
      BY <1>1, <3>1, SystemAssumption DEF Counted, Building, M!Device
    <3>3. Len(controllers') = Len(controllers) + 1
      BY <1>1, <3>1, <3>2, AppendProperties
    <3>4. QED
      BY <3>1, <3>2, <3>3 DEF Counted, Building, Manager!Pushing
  <2>5. CASE Manager!PushInPlace \/ Manager!GrowPublish
    <3>1. /\ cpc \in {"pushStatus", "growPublish"} /\ cpc' = "connect" /\ next' = next + 1
          /\ controllers' = controllers
      BY <2>5 DEF Manager!PushInPlace, Manager!GrowPublish
    <3>2. Tried' = {d \in Connects : d < next + 1} /\ next \in Connects
      BY <1>2, <3>1 DEF Counted, Building
    <3>3. Cardinality(Tried') = Cardinality(Tried) + 1
      BY <1>1, <3>2, TriedFinite
    <3>4. QED
      BY <3>1, <3>3 DEF Counted, Building, Manager!Pushing
  <2>6. QED
    BY <1>3, <2>1, <2>2, <2>3, <2>4, <2>5 DEF Connecting, Manager!PushStatus
<1>4. CASE Initialized
  <2>1. cpc = "connect" /\ next > NDevices /\ cpc' = "running" /\ controllers' = controllers
    BY <1>4 DEF Initialized, Manager!Initialized
  <2>2. Tried = Connects
    BY <1>1, <2>1, TriedFinite
  <2>3. Len(controllers) = NConnected
    BY <2>1, <2>2 DEF Counted, NConnected
  <2>4. NConnected' = NConnected
    BY DEF NConnected
  <2>5. QED
    BY <2>1, <2>3, <2>4 DEF Counted, Building, Manager!Pushing
<1>5. CASE Destroy \/ Destroying \/ Destroyed
  BY <1>5 DEF Destroy, Destroying, Destroyed, Manager!DestroyCache,
     Manager!DestroyController, Manager!Destroyed, Counted, Building, Manager!Pushing,
     NConnected
<1>6. CASE ~(Connecting \/ Initialized \/ Destroy \/ Destroying \/ Destroyed)
  <2>1. UNCHANGED <<cpc, next, controllers>>
    BY <1>6 DEF Next, MainThread, Alone, Start, Stop, Wait, Listen, ListenAlone, Alive,
       CopyBegin, Copy, Manager!Read, Manager!ReadFirst, Manager!ReadSecond, Answer, Throw,
       SelectError, Network, Report, Manager!CallbackTest, Callback, Manager!Callback,
       Manager!CallbackLoad, Manager!CallbackFirst, Manager!CallbackSecond, Console,
       Update, Outside, vars, managerVars
  <2>2. Tried' = Tried
    BY <2>1 DEF Tried
  <2>3. QED
    BY <2>1, <2>2 DEF Counted, Manager!Pushing, NConnected
<1>7. QED
  BY <1>3, <1>4, <1>5, <1>6

-----------------------------------------------------------------------------
(***************************************************************************)
(* The loop: the handler finds as many controllers, and as many statuses,  *)
(* as DsuServer takes for constants.                                       *)
(***************************************************************************)

LEMMA SameReplies ==
    ASSUME Len(controllers) = NConnected, Manager!CacheSize = NConnected
    PROVE  \A d, n : /\ Handler!Replies(d, n) = Server!Replies(d, n)
                     /\ Handler!TakesNumber(d) = Server!TakesNumber(d)
                     /\ Handler!NextNumber(n) = Server!NextNumber(n)
BY DEF Handler!Replies, Handler!InfoReplies, Handler!DataReplies, Handler!MotorsReplies,
   Handler!PlainReplies, Handler!NoNumber, Handler!TakesNumber, Handler!NextNumber,
   Server!Replies, Server!InfoReplies, Server!DataReplies, Server!MotorsReplies,
   Server!PlainReplies, Server!NoNumber, Server!TakesNumber, Server!NextNumber

LEMMA ServerInitially == Init => Server!Init
BY DEF Init

LEMMA AnswerOfServer ==
    ASSUME Threads, P!IInv, M!IInv, Counted, Answer
    PROVE  Server!HandleAnswer
<1>1. cpc = "running" /\ lpc = "handle"
  BY Serving DEF Answer
<1>2. Len(controllers) = NConnected
  BY <1>1 DEF Counted, Building
<1>3. Len(controllers) = M!CacheSize
  BY <1>1 DEF M!IInv, M!SizesAgree, M!Pushing
<1>4. M!CacheSize = Manager!CacheSize
  BY DEF M!CacheSize, M!Cache, Manager!CacheSize, Manager!Cache
<1>5. Server!Verdict(buf) = "None"
  BY SameVerdict DEF Answer
<1>6. /\ \E r \in Server!Replies(buf, packetCounter) : ret' = r
      /\ packetCounter' = IF Server!TakesNumber(buf)
                          THEN Server!NextNumber(packetCounter) ELSE packetCounter
  BY <1>2, <1>3, <1>4, SameReplies DEF Answer
<1>7. QED
  BY <1>1, <1>5, <1>6 DEF Answer, Server!HandleAnswer

LEMMA ServerStep ==
    Threads /\ P!IInv /\ M!IInv /\ Counted /\ [Next]_vars => [Server!Next]_(Server!vars)
<1> SUFFICES ASSUME Threads, P!IInv, M!IInv, Counted, [Next]_vars
             PROVE  [Server!Next]_(Server!vars)
  OBVIOUS
<1>1. CASE Start
  <2>1. P!Phase /\ ~P!Gone /\ mpc = "start"
    BY <1>1 DEF Start, P!IInv, P!Gone
  <2>2. ListenThread = "none"
    BY <2>1 DEF P!Phase
  <2>3. lpc = "unstarted"
    BY <2>2 DEF ListenThread
  <2>4. Server!Start
    BY <1>1, <2>3 DEF Start, Server!Start
  <2>5. QED
    BY <2>4 DEF Server!Next
<1>2. CASE Stop
  <2>1. stop \in BOOLEAN
    BY DEF P!IInv, P!TypeOK
  <2>2. ~stop /\ lpc # "unstarted"
    BY <1>2, <2>1 DEF Stop, Threads, Constructing
  <2>3. Server!Stop
    BY <1>2, <2>2 DEF Stop, Server!Stop
  <2>4. QED
    BY <2>3 DEF Server!Next
<1>3. CASE ListenAlone
  BY <1>3 DEF ListenAlone, Server!Next, Server!Listen, Server!Handle
<1>4. CASE Answer
  BY <1>4, AnswerOfServer DEF Server!Next, Server!Listen, Server!Handle
<1>5. CASE Throw
  BY <1>5 DEF Throw, Server!Next, Server!Listen, Server!Handle
<1>6. CASE SelectError \/ Network
  BY <1>6 DEF SelectError, Network, Server!Next
<1>7. CASE ~(Start \/ Stop \/ ListenAlone \/ Answer \/ Throw \/ SelectError \/ Network)
  <2>1. UNCHANGED serverVars
    BY <1>7 DEF Next, MainThread, Alone, Connecting, Initialized, Wait, Destroy, Destroying,
       Destroyed, Listen, CopyBegin, Copy, Report, Callback, Console, Update, Outside, vars
  <2>2. QED
    BY <2>1 DEF serverVars, Server!vars
<1>8. QED
  BY <1>1, <1>2, <1>3, <1>4, <1>5, <1>6, <1>7

-----------------------------------------------------------------------------
(***************************************************************************)
(* The invariant of the composition, and the three implementations.        *)
(***************************************************************************)

Composed == Threads /\ P!IInv /\ M!IInv /\ Handling /\ Counted

LEMMA ComposedInitially == Init => Composed
<1> SUFFICES ASSUME Init PROVE Composed
  OBVIOUS
<1>1. P!IInv
  BY MainInitially, ProcessInit, ProcessConstants, P!Initially
<1>2. M!IInv
  BY ManagerInitially, ManagerInit, ManagerConstants, M!Initially
<1>3. QED
  BY <1>1, <1>2, ThreadsInitially, HandlingInitially, CountedInitially DEF Composed

LEMMA ComposedInductive == Composed /\ [Next]_vars => Composed'
<1> SUFFICES ASSUME Composed, [Next]_vars PROVE Composed'
  OBVIOUS
<1>1. Threads /\ P!IInv /\ M!IInv /\ Handling /\ Counted
  BY DEF Composed
<1>2. [P!Next]_(P!vars)
  BY <1>1, MainStep, ProcessStep
<1>3. P!IInv'
  BY <1>1, <1>2, ProcessConstants, P!Inductive
<1>4. [M!Next]_(M!vars)
  BY <1>1, ManagerOfSystem, ManagerStep
<1>5. M!IInv'
  BY <1>1, <1>4, ManagerConstants, M!Inductive
<1>6. QED
  BY <1>1, <1>3, <1>5, ThreadsStep, HandlingStep, CountedStep DEF Composed

\* What each part relies on when it meets the others holds in every reachable
\* state.
THEOREM Composition == Spec => []Composed
BY ComposedInitially, ComposedInductive, PTL DEF Spec

\* The process with its real threads and manager is the one of Main: what is
\* proved of the shutdown there holds of the whole program.
THEOREM MainImplemented == Spec => ImplementsMain
<1>1. Composed /\ [Next]_vars => [Process!Next]_(Process!vars)
  BY MainStep DEF Composed
<1>2. QED
  BY <1>1, MainInitially, Composition, PTL DEF Spec, ImplementsMain, Process!Spec

\* The manager is read and destroyed only as ControllerManager allows.
THEOREM ManagerImplemented == Spec => ImplementsManager
<1>1. Composed /\ [Next]_vars => [Manager!Next]_(Manager!vars)
  BY ManagerOfSystem DEF Composed
<1>2. QED
  BY <1>1, ManagerInitially, Composition, PTL DEF Spec, ImplementsManager, Manager!Spec

\* The loop and the handler are those of DsuServer, whose number of
\* controllers never changes.
THEOREM ServerImplemented == Spec => ImplementsServer
<1>1. Composed /\ [Next]_vars => [Server!Next]_(Server!vars)
  BY ServerStep DEF Composed
<1>2. QED
  BY <1>1, ServerInitially, Composition, PTL DEF Spec, ImplementsServer, Server!Spec

-----------------------------------------------------------------------------
(***************************************************************************)
(* What the replies report.                                                *)
(***************************************************************************)

Kept == M!Copied /\ M!FreshRead /\ M!NotAhead /\ M!Outgrown

LEMMA KeptInitially == Init => Kept
<1> SUFFICES ASSUME Init PROVE Kept
  OBVIOUS
<1>1. M!Init /\ rd.pc = "idle"
  BY ManagerInitially, ManagerInit DEF M!Init
<1>2. M!Copied /\ M!FreshRead
  BY <1>1 DEF M!Copied, M!FreshRead
<1>3. QED
  BY <1>1, <1>2, ManagerConstants, M!AheadInitially, M!OutgrownInitially DEF Kept

LEMMA KeptInductive == Composed /\ Kept /\ [Next]_vars => Kept'
<1> SUFFICES ASSUME Composed, Kept, [Next]_vars PROVE Kept'
  OBVIOUS
<1>1. [M!Next]_(M!vars) /\ M!IInv
  BY ManagerOfSystem, ManagerStep DEF Composed
<1>2. QED
  BY <1>1, ManagerConstants, M!FreshInductive, M!AheadInductive, M!OutgrownInductive DEF Kept

\* What the manager's steps do to the cache that the replies come from.
LEMMA CacheKept ==
    ASSUME Composed, Kept, [Next]_vars
    PROVE  /\ cpc \notin Building =>
                 /\ controllers' = controllers /\ cpc' \notin Building
                 /\ cpc' = "running" => cpc = "running"
           /\ cpc = "running" => \A i \in DOMAIN controllers : \A p \in Manager!Part :
                 /\ Manager!Cache[i][p][2] \in Nat /\ (Manager!Cache)'[i][p][2] \in Nat
                 /\ Manager!Cache[i][p][2] <= (Manager!Cache)'[i][p][2]
<1>1. [M!Next]_(M!vars) /\ M!IInv /\ M!NotAhead
  BY ManagerOfSystem, ManagerStep DEF Composed, Kept
<1>2. cpc \notin Building =>
         /\ controllers' = controllers /\ cpc' \notin Building
         /\ cpc' = "running" => cpc = "running"
  BY <1>1, ManagerConstants, M!BuiltOnce DEF Building
<1>3. ASSUME cpc = "running", NEW i \in DOMAIN controllers, NEW p \in Manager!Part
      PROVE  /\ Manager!Cache[i][p][2] \in Nat /\ (Manager!Cache)'[i][p][2] \in Nat
             /\ Manager!Cache[i][p][2] <= (Manager!Cache)'[i][p][2]
  <2>1. p \in M!Part
    BY DEF M!Part, Manager!Part
  <2>2. /\ M!Cache[i][p][2] \in Nat /\ (M!Cache)'[i][p][2] \in Nat
        /\ M!Cache[i][p][2] <= (M!Cache)'[i][p][2]
    BY <1>1, <1>3, <2>1, ManagerConstants, M!CacheForward, Zenon
  <2>3. Manager!Cache = M!Cache /\ (Manager!Cache)' = (M!Cache)'
    BY DEF Manager!Cache, M!Cache
  <2>4. QED
    BY <2>2, <2>3
<1>4. QED
  BY <1>2, <1>3

\* The reply that is built from a copy.
LEMMA AnswerPad ==
    ASSUME Composed, TypeOK, Answer, reading
    PROVE  \E r \in Pad :
              /\ r = [slot |-> rd.slot, status |-> rd.status, floor |-> rd.floor]
              /\ rd.pc = "done" /\ cpc = "running" /\ rd.slot \in DOMAIN controllers
              /\ pads' = Append(pads, r) /\ Len(pads') = Len(pads) + 1
              /\ pads'[Len(pads) + 1] = r /\ \A i \in 1 .. Len(pads) : pads'[i] = pads[i]
<1>1. /\ NeedsStatus /\ rd.slot = Slot /\ rd.pc = "done" /\ buf \in Datagrams
      /\ cpc = "running"
  BY Serving DEF Composed, Handling, Answer
<1>2. /\ rd \in M!Reader /\ controllers \in Seq(M!Device)
      /\ Len(controllers) \in Nat /\ Len(controllers) <= NDevices
  BY LenProperties DEF Composed, M!IInv, M!TypeOK, M!NoMoreThanTried
<1>3. rd.slot \in Nat \ {0} /\ rd.slot <= Len(controllers)
  BY <1>1, SlotNamed DEF NeedsStatus
<1>4. rd.slot \in 1 .. NDevices /\ rd.slot \in DOMAIN controllers
  BY <1>2, <1>3, LenProperties, SystemAssumption
<1> DEFINE r == [slot |-> rd.slot, status |-> rd.status, floor |-> rd.floor]
<1>5. r \in Pad
  BY <1>2, <1>4 DEF Pad, M!Reader, M!Status, M!Report, M!Part, Manager!Status,
     Manager!Report, Manager!Part
<1>6. pads' = Append(pads, r) /\ pads \in Seq(Pad)
  BY DEF Answer, UseCopy, TypeOK
<1> HIDE DEF r
<1>7. /\ Len(pads') = Len(pads) + 1 /\ pads'[Len(pads) + 1] = r
      /\ \A i \in 1 .. Len(pads) : pads'[i] = pads[i]
  BY <1>5, <1>6, AppendProperties
<1>8. QED
  BY <1>1, <1>4, <1>5, <1>6, <1>7 DEF r

\* No other step adds a reply.
LEMMA PadsRest ==
    ASSUME [Next]_vars, ~(Answer /\ reading)
    PROVE  pads' = pads
<1>1. CASE Answer
  BY <1>1 DEF Answer, UseCopy
<1>2. CASE CopyBegin \/ Copy
  BY <1>2 DEF CopyBegin, Copy, handlerVars
<1>3. QED
  BY <1>1, <1>2, CopyAlone

LEMMA TypingStep == Composed /\ TypeOK /\ [Next]_vars => TypeOK'
<1> SUFFICES ASSUME Composed, TypeOK, [Next]_vars PROVE TypeOK'
  OBVIOUS
<1>1. pads' \in Seq(Pad)
  <2>1. CASE Answer /\ reading
    BY <2>1, AnswerPad, AppendProperties DEF TypeOK
  <2>2. CASE ~(Answer /\ reading)
    BY <2>2, PadsRest DEF TypeOK
  <2>3. Pad' = Pad
    BY DEF Pad, Manager!Status, Manager!Report, Manager!Part
  <2>4. QED
    BY <2>1, <2>2
<1>2. reading' \in BOOLEAN
  BY CopyAlone DEF TypeOK, CopyBegin, Copy, Answer, UseCopy, handlerVars
<1>3. joinable' \in BOOLEAN
  BY DEF TypeOK, Next, MainThread, Alone, Connecting, Initialized, Start, Stop, Wait,
     Destroy, Destroying, Destroyed, Listen, ListenAlone, Alive, CopyBegin, Copy, Answer,
     Throw, SelectError, Network, Report, Callback, Console, Update, Outside, processVars,
     vars
<1>4. QED
  BY <1>1, <1>2, <1>3 DEF TypeOK, Pad, Manager!Status, Manager!Report, Manager!Part

\* Each reply has what its copy had.
LEMMA FreshStep == Composed /\ Kept /\ TypeOK /\ FreshReplies /\ [Next]_vars => FreshReplies'
<1> SUFFICES ASSUME Composed, Kept, TypeOK, FreshReplies, [Next]_vars,
                    NEW i \in DOMAIN pads', NEW p \in Manager!Part
             PROVE  pads'[i].status[p][2] >= pads'[i].floor[p][2]
  BY DEF FreshReplies
<1>1. CASE Answer /\ reading
  <2>1. PICK r \in Pad :
          /\ r = [slot |-> rd.slot, status |-> rd.status, floor |-> rd.floor]
          /\ rd.pc = "done" /\ pads' = Append(pads, r) /\ Len(pads') = Len(pads) + 1
          /\ pads'[Len(pads) + 1] = r /\ \A k \in 1 .. Len(pads) : pads'[k] = pads[k]
    BY <1>1, AnswerPad
  <2>2. pads \in Seq(Pad) /\ pads' \in Seq(Pad) /\ Len(pads) \in Nat
    BY <2>1, AppendProperties, LenProperties DEF TypeOK
  <2>3. (i \in DOMAIN pads /\ i \in 1 .. Len(pads)) \/ i = Len(pads) + 1
    BY <2>1, <2>2, LenProperties
  <2>4. rd.status[p][2] >= rd.floor[p][2]
    BY <2>1 DEF Kept, M!FreshRead, M!Part, Manager!Part
  <2>5. QED
    BY <2>1, <2>3, <2>4 DEF FreshReplies
<1>2. CASE ~(Answer /\ reading)
  BY <1>2, PadsRest DEF FreshReplies
<1>3. QED
  BY <1>1, <1>2

\* A reply that is added repeats no older input than those before it.
LEMMA OlderStep == Composed /\ TypeOK /\ Behind /\ NeverOlder /\ [Next]_vars => NeverOlder'
<1> SUFFICES ASSUME Composed, TypeOK, Behind, NeverOlder, [Next]_vars,
                    NEW i \in DOMAIN pads', NEW j \in DOMAIN pads',
                    i < j, pads'[i].slot = pads'[j].slot, NEW p \in Manager!Part
             PROVE  pads'[i].status[p][2] <= pads'[j].status[p][2]
  BY DEF NeverOlder
<1>1. CASE Answer /\ reading
  <2>1. PICK r \in Pad :
          /\ r = [slot |-> rd.slot, status |-> rd.status, floor |-> rd.floor]
          /\ rd.pc = "done" /\ pads' = Append(pads, r) /\ Len(pads') = Len(pads) + 1
          /\ pads'[Len(pads) + 1] = r /\ \A k \in 1 .. Len(pads) : pads'[k] = pads[k]
    BY <1>1, AnswerPad
  <2>2. pads \in Seq(Pad) /\ pads' \in Seq(Pad) /\ Len(pads) \in Nat
    BY <2>1, AppendProperties, LenProperties DEF TypeOK
  <2>3. i \in 1 .. Len(pads) /\ i \in DOMAIN pads /\ j \in 1 .. Len(pads) + 1
    BY <2>1, <2>2, LenProperties
  <2>4. CASE j \in 1 .. Len(pads)
    <3>1. j \in DOMAIN pads
      BY <2>2, <2>4, LenProperties
    <3>2. QED
      BY <2>1, <2>3, <2>4, <3>1 DEF NeverOlder
  <2>5. CASE j = Len(pads) + 1
    <3>1. IsCopied(p) /\ pads[i].slot = rd.slot
      BY <1>1, <2>1, <2>3, <2>5 DEF IsCopied
    <3>2. pads[i].status[p][2] <= rd.status[p][2]
      BY <2>3, <3>1 DEF Behind
    <3>3. QED
      BY <2>1, <2>3, <2>5, <3>2
  <2>6. QED
    BY <2>3, <2>4, <2>5
<1>2. CASE ~(Answer /\ reading)
  BY <1>2, PadsRest DEF NeverOlder
<1>3. QED
  BY <1>1, <1>2

\* The counters in a reply and in the reader are numbers.
LEMMA ReportTypes ==
    ASSUME Composed, TypeOK, NEW p \in Manager!Part
    PROVE  /\ rd.status[p][2] \in Nat
           /\ \A i \in DOMAIN pads : pads[i] \in Pad /\ pads[i].status[p][2] \in Nat
<1>1. rd.status[p][2] \in Nat
  BY DEF Composed, M!IInv, M!TypeOK, M!Reader, M!Status, M!Part, M!Report, Manager!Part
<1>2. ASSUME NEW i \in DOMAIN pads
      PROVE  pads[i] \in Pad /\ pads[i].status[p][2] \in Nat
  <2>1. pads[i] \in Pad
    BY ElementOfSeq, LenProperties DEF TypeOK
  <2>2. QED
    BY <2>1 DEF Pad, Manager!Status, Manager!Report
<1>3. QED
  BY <1>1, <1>2

\* Only finished replies and complete caches: the steps that make no reply.
LEMMA BehindPads ==
    ASSUME Composed, Kept, TypeOK, Behind, [Next]_vars, pads' = pads,
           NEW p \in Manager!Part, NEW i \in DOMAIN pads
    PROVE  /\ controllers' = controllers /\ cpc \notin Building
           /\ pads[i].slot \in DOMAIN controllers
           /\ cpc' = "running" =>
                 /\ cpc = "running"
                 /\ pads[i].status[p][2] <= (Manager!Cache)'[pads[i].slot][p][2]
<1>1. cpc \notin Building /\ pads[i].slot \in DOMAIN controllers
  BY EmptySeq DEF Behind
<1>2. controllers' = controllers /\ (cpc' = "running" => cpc = "running")
  BY <1>1, CacheKept
<1>3. ASSUME cpc = "running"
      PROVE  pads[i].status[p][2] <= (Manager!Cache)'[pads[i].slot][p][2]
  <2>1. pads[i].status[p][2] <= Manager!Cache[pads[i].slot][p][2]
    BY <1>3 DEF Behind
  <2>2. /\ Manager!Cache[pads[i].slot][p][2] \in Nat
        /\ (Manager!Cache)'[pads[i].slot][p][2] \in Nat
        /\ Manager!Cache[pads[i].slot][p][2] <= (Manager!Cache)'[pads[i].slot][p][2]
    BY <1>1, <1>3, CacheKept
  <2>3. QED
    BY <2>1, <2>2, ReportTypes
<1>4. QED
  BY <1>1, <1>2, <1>3

\* What is copied is between the replies and the cache.
LEMMA BehindCopy ==
    ASSUME Composed, Composed', Kept, TypeOK, Behind, [Next]_vars, ~Answer,
           NEW p \in Manager!Part, IsCopied(p)'
    PROVE  /\ reading /\ rd'.slot = rd.slot
           /\ \A i \in DOMAIN pads : pads[i].slot = rd.slot =>
                 pads[i].status[p][2] <= rd'.status[p][2]
           /\ rd'.status[p][2] <= (Manager!Cache)'[rd.slot][p][2]
<1>1. reading'
  BY DEF IsCopied
<1>2. ~CopyBegin
  BY DEF IsCopied, CopyBegin
<1>3. CASE Copy
  <2>1. rd.pc \in {"first", "second"} /\ reading /\ UNCHANGED <<heap, start>> /\ Running
    BY <1>3 DEF Copy, Manager!Read, Manager!ReadFirst, Manager!ReadSecond, Composed, Handling
  <2>2. (Manager!Cache)' = Manager!Cache
    BY <2>1 DEF Manager!Cache
  <2>3. rd'.slot = rd.slot
        /\ (rd'.status[p] = Manager!Cache[rd.slot][p]
            \/ (IsCopied(p) /\ rd'.status[p] = rd.status[p]))
    BY <1>3, <2>1, CopyStep DEF Composed, IsCopied, Manager!Part
  <2>4. cpc = "running" /\ rd.slot \in DOMAIN controllers
    BY <2>1, ReadingServes DEF Composed, M!IInv, M!InRange
  <2>5. Manager!Cache[rd.slot][p][2] \in Nat
    BY <2>4, CacheKept
  <2>6. \A i \in DOMAIN pads : pads[i].slot = rd.slot =>
           pads[i].status[p][2] <= Manager!Cache[rd.slot][p][2]
    BY <2>4 DEF Behind
  <2>7. QED
    BY <2>1, <2>2, <2>3, <2>5, <2>6 DEF Behind
<1>4. CASE ~Copy
  <2>1. UNCHANGED <<rd, reading>>
    BY <1>2, <1>4, CopyAlone
  <2>2. reading /\ IsCopied(p) /\ rd.slot \in DOMAIN controllers
    BY <1>1, <2>1 DEF IsCopied, Composed, M!IInv, M!InRange
  <2>3. rd.status[p][2] <= (Manager!Cache)'[rd.slot][p][2]
    <3>1. CASE UNCHANGED vars
      <4>1. (Manager!Cache)' = Manager!Cache
        BY <3>1 DEF Manager!Cache, vars, managerVars
      <4>2. QED
        BY <2>2, <4>1 DEF Behind
    <3>2. CASE Next
      <4>1. cpc = "running"
        BY <2>2, <3>2, StepsRun, ReadingServes DEF Composed
      <4>2. rd.status[p][2] <= Manager!Cache[rd.slot][p][2]
        BY <2>2 DEF Behind
      <4>3. QED
        BY <2>2, <4>1, <4>2, CacheKept, ReportTypes
    <3>3. QED
      BY <3>1, <3>2
  <2>4. QED
    BY <2>1, <2>2, <2>3 DEF Behind
<1>5. QED
  BY <1>3, <1>4

LEMMA BehindStep ==
    Composed /\ Composed' /\ Kept /\ TypeOK /\ Behind /\ [Next]_vars => Behind'
<1> SUFFICES ASSUME Composed, Composed', Kept, TypeOK, Behind, [Next]_vars PROVE Behind'
  OBVIOUS
<1>1. Manager!Part' = Manager!Part
  BY DEF Manager!Part
<1>2. CASE Answer /\ reading
  <2>1. PICK r \in Pad :
          /\ r = [slot |-> rd.slot, status |-> rd.status, floor |-> rd.floor]
          /\ rd.pc = "done" /\ cpc = "running" /\ rd.slot \in DOMAIN controllers
          /\ pads' = Append(pads, r) /\ Len(pads') = Len(pads) + 1
          /\ pads'[Len(pads) + 1] = r /\ \A k \in 1 .. Len(pads) : pads'[k] = pads[k]
    BY <1>2, AnswerPad
  <2>2. UNCHANGED <<cpc, controllers, heap, start>> /\ ~reading'
    BY <1>2 DEF Answer, UseCopy, managerVars
  <2>3. (Manager!Cache)' = Manager!Cache
    BY <2>2 DEF Manager!Cache
  <2>4. pads \in Seq(Pad) /\ pads' \in Seq(Pad) /\ Len(pads) \in Nat
    BY <2>1, AppendProperties, LenProperties DEF TypeOK
  <2>5. ASSUME NEW p \in Manager!Part, NEW i \in DOMAIN pads'
        PROVE  /\ pads'[i].slot \in DOMAIN controllers
               /\ pads'[i].status[p][2] <= Manager!Cache[pads'[i].slot][p][2]
    <3>1. CASE i = Len(pads) + 1
      <4>1. IsCopied(p)
        BY <1>2, <2>1 DEF IsCopied
      <4>2. QED
        BY <2>1, <3>1, <4>1 DEF Behind
    <3>2. CASE i # Len(pads) + 1
      <4>1. i \in DOMAIN pads /\ i \in 1 .. Len(pads)
        BY <2>1, <2>4, <3>2, LenProperties
      <4>2. QED
        BY <2>1, <4>1 DEF Behind
    <3>3. QED
      BY <3>1, <3>2
  <2>6. QED
    BY <1>1, <2>1, <2>2, <2>3, <2>5 DEF Behind, IsCopied, Building
<1>3. CASE ~(Answer /\ reading)
  <2>1. pads' = pads
    BY <1>3, PadsRest
  <2>2. cpc' \in Building => cpc \in Building
    BY CacheKept
  <2>3. CASE Answer
    <3>1. ~reading'
      BY <2>3 DEF Answer, UseCopy
    <3>2. QED
      BY <1>1, <2>1, <2>2, <3>1, BehindPads DEF Behind, IsCopied, Building
  <2>4. CASE ~Answer
    <3>1. cpc' \in Building => pads' = <<>>
      BY <2>1, <2>2 DEF Behind
    <3>2. ASSUME NEW p \in Manager!Part, NEW i \in DOMAIN pads'
          PROVE  /\ pads'[i].slot \in DOMAIN controllers'
                 /\ cpc' = "running" =>
                       pads'[i].status[p][2] <= (Manager!Cache)'[pads'[i].slot][p][2]
                 /\ IsCopied(p)' /\ pads'[i].slot = rd'.slot =>
                       pads'[i].status[p][2] <= rd'.status[p][2]
      BY <2>1, <2>4, BehindPads, BehindCopy
    <3>3. ASSUME NEW p \in Manager!Part, IsCopied(p)'
          PROVE  rd'.status[p][2] <= (Manager!Cache)'[rd'.slot][p][2]
      BY <2>4, <3>3, BehindCopy
    <3>4. QED
      BY <1>1, <3>1, <3>2, <3>3 DEF Behind, Building
  <2>5. QED
    BY <2>3, <2>4
<1>4. QED
  BY <1>2, <1>3

-----------------------------------------------------------------------------
(***************************************************************************)
(* The theorems.                                                           *)
(***************************************************************************)

Reported == Composed /\ Kept /\ TypeOK /\ FreshReplies /\ Behind /\ NeverOlder

\* What the replies report is inductive together with what the parts keep.
THEOREM Reporting == Spec => []Reported
<1>1. Init => TypeOK /\ FreshReplies /\ Behind /\ NeverOlder
  <2> SUFFICES ASSUME Init PROVE TypeOK /\ FreshReplies /\ Behind /\ NeverOlder
    OBVIOUS
  <2>1. pads = <<>> /\ ~reading /\ joinable = FALSE /\ reading = FALSE
    BY DEF Init
  <2>2. <<>> \in Seq(Pad) /\ DOMAIN pads = {}
    BY <2>1, EmptySeq
  <2>3. QED
    BY <2>1, <2>2 DEF TypeOK, FreshReplies, Behind, NeverOlder, IsCopied
<1>2. Init => Reported
  BY <1>1, ComposedInitially, KeptInitially DEF Reported
<1>3. Reported /\ [Next]_vars => Reported'
  BY ComposedInductive, KeptInductive, TypingStep, FreshStep, OlderStep, BehindStep
     DEF Reported
<1>4. QED
  BY <1>2, <1>3, PTL DEF Spec

\* What this module adds to its components keeps its type.
THEOREM Typing == Spec => []TypeOK
<1>1. Reported => TypeOK
  BY DEF Reported
<1>2. QED
  BY <1>1, Reporting, PTL

\* A status is copied only from a complete cache that is not freed
\* (dsu_server.cpp:16, 53; main.cpp:37-43).
THEOREM CacheLivesWhileRead == Spec => []ReadsLiveCache
<1>1. Reported => ReadsLiveCache
  <2> SUFFICES ASSUME Reported, rd.pc \in {"first", "second"}
               PROVE  cpc = "running" /\ start \notin freed
    BY DEF ReadsLiveCache
  <2>1. M!IInv /\ M!Copied /\ M!Outgrown
    BY DEF Reported, Composed, Kept
  <2>2. cpc = "running"
    BY <2>1 DEF M!Copied
  <2>3. start = Len(heap) /\ \A g \in freed : g < Len(heap)
    BY <2>1, <2>2 DEF M!IInv, M!SizesAgree, M!Outgrown
  <2>4. start \in Nat
    BY <2>1, LenProperties DEF M!IInv, M!TypeOK
  <2>5. QED
    BY <2>2, <2>3, <2>4
<1>2. QED
  BY <1>1, Reporting, PTL

\* A pad data reply has, part by part, the report that was in the cache when the
\* handler began to copy, or a newer one (dsu_server.cpp:52-57).
THEOREM RepliesAreFresh == Spec => []FreshReplies
<1>1. Reported => FreshReplies
  BY DEF Reported
<1>2. QED
  BY <1>1, Reporting, PTL

\* No reply about a slot has older input than an earlier one
\* (controller_manager.cpp:46, 68).
THEOREM RepliesGoForward == Spec => []NeverOlder
<1>1. Reported => NeverOlder
  BY DEF Reported
<1>2. QED
  BY <1>1, Reporting, PTL

\* What Main proves of the shutdown holds of the whole program: no thread is in
\* its loop without the objects it uses (main.cpp:40-43).
THEOREM ObjectsOutliveThreads == Spec => []Process!NoUseAfterDestroy
<1>1. Composed => Process!NoUseAfterDestroy
  <2> SUFFICES ASSUME Composed, ~Process!Gone PROVE Process!NoUseAfterDestroy
    BY DEF Process!NoUseAfterDestroy
  <2>1. mpc \in P!MainPC /\ P!Phase /\ ~P!Gone
    BY DEF Composed, P!IInv, P!TypeOK, Process!Gone, P!Gone
  <2>2. ListenThread \in {"test", "busy"} => wsa /\ sock = "open" /\ ManagerObject = "alive"
    BY <2>1 DEF P!Phase, P!Gone
  <2>3. upc \in {"test", "busy"} => ManagerObject = "alive"
    BY <2>1 DEF P!Phase, P!Gone
  <2>4. QED
    BY <2>2, <2>3 DEF Process!NoUseAfterDestroy
<1>2. QED
  BY <1>1, Composition, PTL

\* What DsuServer proves of the loop holds of the whole program: the numbers of
\* the pad data replies are consecutive (dsu_server.cpp:50).
THEOREM NumbersConsecutive == Spec => []Server!ConsecutiveNumbers
<1>1. Composed /\ [Next]_vars => [S!Next]_(S!vars)
  BY ServerStep, LoopStep DEF Composed
<1>2. Init => S!Init
  BY ServerInitially, LoopInit
<1>3. S!Spec => []S!ConsecutiveNumbers
  BY ServerConstants, S!NumbersConsecutive
<1>4. S!ConsecutiveNumbers => Server!ConsecutiveNumbers
  BY DEF S!ConsecutiveNumbers, Server!ConsecutiveNumbers, S!Successive, Server!Successive,
     S!Numbered, Server!Numbered
<1>5. QED
  BY <1>1, <1>2, <1>3, <1>4, Composition, PTL DEF Spec, S!Spec

=============================================================================
