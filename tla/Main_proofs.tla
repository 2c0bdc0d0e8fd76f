------------------------------ MODULE Main_proofs ------------------------------
(***************************************************************************)
(* Theorems about Main, for every number of Ctrl-C events.                 *)
(*                                                                         *)
(* IInv is inductive.  NoLostWakeup alone is not: that the flag cannot be  *)
(* set between the test of the predicate and the wait (TestStillHolds)     *)
(* needs that the mutex is held by whoever is in its critical section      *)
(* (MutexOwner).  NoUseAfterDestroy follows from Phase, which says of      *)
(* every phase of main() what exists and which threads have been joined.   *)
(***************************************************************************)
EXTENDS Main, TLAPS

LEMMA Initially == Init => IInv
BY EventsAssumption
DEF Init, IInv, TypeOK, MainPC, MutexOwner, TestStillHolds, NoLostWakeup,
    OnlyOnRequest, ShuttingDown, Phase, OrderlyExit, Gone

\* The constructor: it is the only one to start threads, and no thread runs
\* before the objects it uses exist.
LEMMA ConstructStep ==
    ASSUME IInv, Construct
    PROVE  IInv'
<1> USE EventsAssumption
    DEF locking, threads, objects, IInv, TypeOK, MainPC, MutexOwner, TestStillHolds, NoLostWakeup,
        OnlyOnRequest, ShuttingDown, Phase, OrderlyExit, Gone
<1>1. CASE Install
  BY <1>1 DEF Install
<1>2. CASE Startup
  BY <1>2 DEF Startup
<1>3. CASE Socket
  BY <1>3 DEF Socket
<1>4. CASE Ioctl
  BY <1>4 DEF Ioctl
<1>5. CASE Bind
  BY <1>5 DEF Bind
<1>6. CASE Initialize
  BY <1>6 DEF Initialize
<1>7. CASE Spawn
  BY <1>7 DEF Spawn
<1>8. CASE Start
  BY <1>8 DEF Start
<1>9. QED
  BY <1>1, <1>2, <1>3, <1>4, <1>5, <1>6, <1>7, <1>8 DEF Construct

\* The wait for Ctrl-C: the predicate is tested under the mutex, so it still
\* holds when the wait begins, and the wait is left only when it is true.
LEMMA WaitStep ==
    ASSUME IInv, WaitForCtrlC \/ SpuriousWakeup
    PROVE  IInv'
<1> USE EventsAssumption
    DEF locking, threads, objects, IInv, TypeOK, MainPC, MutexOwner, TestStillHolds, NoLostWakeup,
        OnlyOnRequest, ShuttingDown, Phase, OrderlyExit, Gone
<1>1. CASE Lock
  BY <1>1 DEF Lock
<1>2. CASE Test
  BY <1>2 DEF Test
<1>3. CASE Block
  BY <1>3 DEF Block
<1>4. CASE Unlock
  BY <1>4 DEF Unlock
<1>5. CASE SpuriousWakeup
  BY <1>5 DEF SpuriousWakeup
<1>6. QED
  BY <1>1, <1>2, <1>3, <1>4, <1>5 DEF WaitForCtrlC

\* The shutdown: each thread is joined before an object it uses is destroyed.
LEMMA ShutdownStep ==
    ASSUME IInv, Shutdown
    PROVE  IInv'
<1> USE EventsAssumption
    DEF locking, threads, objects, IInv, TypeOK, MainPC, MutexOwner, TestStillHolds, NoLostWakeup,
        OnlyOnRequest, ShuttingDown, Phase, OrderlyExit, Gone
<1>1. CASE Stop
  BY <1>1 DEF Stop
<1>2. CASE Wait
  BY <1>2 DEF Wait
<1>3. CASE StopUpdate
  BY <1>3 DEF StopUpdate
<1>4. CASE JoinUpdate
  BY <1>4 DEF JoinUpdate
<1>5. CASE DestroyManager
  BY <1>5 DEF DestroyManager
<1>6. CASE CloseSocket
  BY <1>6 DEF CloseSocket
<1>7. CASE Cleanup
  BY <1>7 DEF Cleanup
<1>8. QED
  BY <1>1, <1>2, <1>3, <1>4, <1>5, <1>6, <1>7 DEF Shutdown

\* A handler thread: it sets the flag while it holds the mutex, and notifies
\* before it gives it up.
LEMMA HandlerStep ==
    ASSUME IInv, \E e \in Events : Event(e) \/ Handler(e)
    PROVE  IInv'
<1> USE EventsAssumption
    DEF locking, threads, objects, IInv, TypeOK, MainPC, MutexOwner, TestStillHolds, NoLostWakeup,
        OnlyOnRequest, ShuttingDown, Phase, OrderlyExit, Gone
<1>0. PICK e \in Events : Event(e) \/ Handler(e)
  OBVIOUS
<1>1. CASE Event(e)
  BY <1>1 DEF Event
<1>2. CASE HandlerLock(e)
  BY <1>2 DEF HandlerLock
<1>3. CASE HandlerSet(e)
  BY <1>3 DEF HandlerSet
<1>4. CASE HandlerNotify(e)
  BY <1>4 DEF HandlerNotify
<1>5. CASE HandlerUnlock(e)
  BY <1>5 DEF HandlerUnlock
<1>6. QED
  BY <1>0, <1>1, <1>2, <1>3, <1>4, <1>5 DEF Handler

\* The listen and update threads, and the end of the process.
LEMMA ThreadStep ==
    ASSUME IInv, Listen \/ ListenThrow \/ Update \/ Kill
    PROVE  IInv'
<1> USE EventsAssumption
    DEF locking, threads, objects, IInv, TypeOK, MainPC, MutexOwner, TestStillHolds, NoLostWakeup,
        OnlyOnRequest, ShuttingDown, Phase, OrderlyExit, Gone
<1>1. CASE ListenTest
  BY <1>1 DEF ListenTest
<1>2. CASE ListenTurn
  BY <1>2 DEF ListenTurn
<1>3. CASE ListenThrow
  BY <1>3 DEF ListenThrow
<1>4. CASE UpdateTest
  BY <1>4 DEF UpdateTest
<1>5. CASE UpdateTurn
  BY <1>5 DEF UpdateTurn
<1>6. CASE Kill
  BY <1>6 DEF Kill
<1>7. QED
  BY <1>1, <1>2, <1>3, <1>4, <1>5, <1>6 DEF Listen, Update

\* Every step preserves IInv, ...
LEMMA Inductive == IInv /\ [Next]_vars => IInv'
<1> SUFFICES ASSUME IInv, [Next]_vars PROVE IInv'
  OBVIOUS
<1>1. CASE Next
  BY <1>1, ConstructStep, WaitStep, ShutdownStep, HandlerStep, ThreadStep
  DEF Next, MainThread
<1>2. CASE UNCHANGED vars
  BY <1>2
  DEF vars, IInv, TypeOK, MainPC, MutexOwner, TestStillHolds, NoLostWakeup,
      OnlyOnRequest, ShuttingDown, Phase, OrderlyExit, Gone
<1>3. QED
  BY <1>1, <1>2

\* ... so it is an inductive invariant.
THEOREM Invariance == Spec => []IInv
BY Initially, Inductive, PTL DEF Spec

\* Every variable keeps its type: the threads are where main.cpp says.
THEOREM Typing == Spec => []TypeOK
<1>1. IInv => TypeOK
  BY DEF IInv
<1>2. QED
  BY Invariance, <1>1, PTL

\* No Ctrl-C is lost between the test of the predicate and the wait, however
\* many handlers run (main.cpp:16-18, 25-26).
THEOREM WakeupNotLost == Spec => []NoLostWakeup
<1>1. IInv => NoLostWakeup
  BY DEF IInv
<1>2. QED
  BY Invariance, <1>1, PTL

\* main() shuts down only on request, however often it wakes up spuriously
\* (main.cpp:26).
THEOREM OnRequest == Spec => []OnlyOnRequest
<1>1. IInv => OnlyOnRequest
  BY DEF IInv
<1>2. QED
  BY Invariance, <1>1, PTL

\* No thread is in its loop without the socket and the manager it uses
\* (main.cpp:40-43, dsu_server.cpp:28-33, udp_server.cpp:47-50).
THEOREM ObjectsOutliveThreads == Spec => []NoUseAfterDestroy
<1>1. IInv => NoUseAfterDestroy
  <2> SUFFICES ASSUME IInv, ~Gone PROVE NoUseAfterDestroy
    BY DEF NoUseAfterDestroy
  <2>1. mpc \in MainPC /\ Phase
    BY DEF IInv, TypeOK
  <2>2. lpc \in {"test", "busy"} => wsa /\ sock = "open" /\ manager = "alive"
    BY <2>1 DEF Phase, Gone
  <2>3. upc \in {"test", "busy"} => manager = "alive"
    BY <2>1 DEF Phase, Gone
  <2>4. QED
    BY <2>2, <2>3 DEF NoUseAfterDestroy
<1>2. QED
  BY Invariance, <1>1, PTL

\* When main() returns 0, everything it started and acquired is gone
\* (main.cpp:40-43, dsu_server.cpp:28-33, udp_server.cpp:47-50).
THEOREM ExitIsOrderly == Spec => []OrderlyExit
<1>1. IInv => OrderlyExit
  BY DEF IInv
<1>2. QED
  BY Invariance, <1>1, PTL

=============================================================================
