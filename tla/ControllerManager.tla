-------------------------- MODULE ControllerManager --------------------------
(***************************************************************************)
(* ControllerManager (controller_manager.cpp): the thread that constructs  *)
(* and destroys it, the receiver thread that each connected ProController  *)
(* runs, and the listen thread that reads cached statuses.  No lock orders *)
(* the accesses of these threads to lastInputStates, so an InputStatus is  *)
(* written and read here in two parts, and a vector that grows copies,     *)
(* deallocates and publishes its storage in separate steps, as push_back   *)
(* of libstdc++ does.                                                      *)
(*                                                                         *)
(* Devices are numbered in the order enumerateDevices() returns them.      *)
(* Slot i of the model is index i - 1 of the code.                         *)
(***************************************************************************)
EXTENDS Naturals, Sequences

CONSTANTS
    NDevices,   \* devices that are plugged in
    Reports     \* bound: Reports[d] input reports arrive from device d

Device == 1 .. NDevices

ASSUME ManagerAssumption == NDevices \in Nat /\ Reports \in [Device -> Nat]

VARIABLES
    cpc,          \* where the constructing and destroying thread is
    next,         \* device being connected, then controller being destroyed
    controllers,  \* the connected devices in slot order
    heap,         \* every storage lastInputStates has had, oldest first
    start,        \* its current storage (an index of heap), 0 before the first
    capacity,     \* its capacity
    freed,        \* the storages that have been deallocated
    rx,           \* the receiver threads
    rd            \* the listen thread inside getControllerInputStatus

vars == <<cpc, next, controllers, heap, start, capacity, freed, rx, rd>>

\* The n-th report of device d is <<d, n>>; a value-initialised status is
\* <<0, 0>>.  A status has two parts, each written on its own.
Report   == (0 .. NDevices) \X Nat
Default  == <<0, 0>>
Part     == 1 .. 2
Status   == [Part -> Report]
NoStatus == [p \in Part |-> Default]

\* The elements of lastInputStates, and lastInputStates.size(); the pointers
\* they are reached by survive the destructor.
Cache     == IF start = 0 THEN <<>> ELSE heap[start]
CacheSize == Len(Cache)

ManagerPC == {"connect", "setCallback", "pushController", "pushStatus",
              "growFree", "growPublish", "running",
              "destroyCache", "destroyControllers", "done"}

Receiver ==
    [pc   : {"off", "idle", "checked", "first", "second", "stopped"},
     slot : Nat,   \* the captured controller_index
     base : Nat,   \* the storage the callback writes to
     n    : Nat,   \* reports received so far
     kept : Nat]   \* last report stored whole in the final storage (history)

Reader ==
    [pc     : {"idle", "first", "second", "done"},
     slot   : Nat,
     status : Status,
     floor  : Status]  \* what the cache held when the read began (history)

Init ==
    /\ cpc = "connect"
    /\ next = 1
    /\ controllers = <<>>
    /\ heap = <<>>
    /\ start = 0
    /\ capacity = 0
    /\ freed = {}
    /\ rx = [d \in Device |-> [pc |-> "off", slot |-> 0, base |-> 0, n |-> 0, kept |-> 0]]
    /\ rd = [pc |-> "idle", slot |-> 0, status |-> NoStatus, floor |-> NoStatus]

-----------------------------------------------------------------------------
(***************************************************************************)
(* initialize() and connectController().                                   *)
(***************************************************************************)

\* ProController::Connect succeeds and starts the receiver thread.
Connect ==
    /\ cpc = "connect"
    /\ next <= NDevices
    /\ cpc' = "setCallback"
    /\ UNCHANGED <<next, controllers, heap, start, capacity, freed, rx, rd>>

\* Mutant: the status is pushed before the test for a failed connection.
Bug_PushThenTest ==
    /\ cpc = "connect"
    /\ next <= NDevices
    /\ next' = next + 1
    /\ heap' = Append(heap, Append(Cache, NoStatus))
    /\ start' = Len(heap')
    /\ capacity' = CacheSize + 1
    /\ UNCHANGED <<cpc, controllers, freed, rx, rd>>

\* Mutant: the loop over the device paths runs one too far.
Bug_LoopTooFar ==
    /\ cpc = "connect"
    /\ next <= NDevices + 1
    /\ next' = next + 1
    /\ UNCHANGED <<cpc, controllers, heap, start, capacity, freed, rx, rd>>

\* It fails: connectController returns false, the next device is tried.
ConnectFails ==
    /\ cpc = "connect"
    /\ next <= NDevices
    /\ next' = next + 1
    /\ UNCHANGED <<cpc, controllers, heap, start, capacity, freed, rx, rd>>

\* Mutant: the index is computed as if the controller had been pushed.
Bug_SlotAfterPush == Len(controllers) + 2

\* controller_index = controllers.size()
NextSlot == Len(controllers) + 1

\* SetInputStatusCallback: from here on the receiver thread calls back.
SetCallback ==
    /\ cpc = "setCallback"
    /\ rx' = [rx EXCEPT ![next] = [@ EXCEPT !.pc = "idle", !.slot = NextSlot]]
    /\ cpc' = "pushController"
    /\ UNCHANGED <<next, controllers, heap, start, capacity, freed, rd>>

\* Mutant: the first report is awaited before the controller is added.
Bug_WaitForReport ==
    /\ cpc = "pushController"
    /\ rx[next].n > 0
    /\ controllers' = Append(controllers, next)
    /\ cpc' = "pushStatus"
    /\ UNCHANGED <<next, heap, start, capacity, freed, rx, rd>>

PushController ==
    /\ cpc = "pushController"
    /\ controllers' = Append(controllers, next)
    /\ cpc' = "pushStatus"
    /\ UNCHANGED <<next, heap, start, capacity, freed, rx, rd>>

\* lastInputStates.push_back with room to spare.
PushInPlace ==
    /\ cpc = "pushStatus"
    /\ CacheSize < capacity
    /\ heap' = [heap EXCEPT ![start] = Append(@, NoStatus)]
    /\ cpc' = "connect"
    /\ next' = next + 1
    /\ UNCHANGED <<controllers, start, capacity, freed, rx, rd>>

\* lastInputStates.push_back without: twice the storage is allocated, the new
\* element constructed and the old ones copied; ...
Grow ==
    /\ cpc = "pushStatus"
    /\ CacheSize = capacity
    /\ heap' = Append(heap, Append(Cache, NoStatus))
    /\ capacity' = IF CacheSize = 0 THEN 1 ELSE 2 * CacheSize
    /\ cpc' = "growFree"
    /\ UNCHANGED <<next, controllers, start, freed, rx, rd>>

\* ... the old storage is deallocated ...
GrowFree ==
    /\ cpc = "growFree"
    /\ freed' = IF start = 0 THEN freed ELSE freed \union {start}
    /\ cpc' = "growPublish"
    /\ UNCHANGED <<next, controllers, heap, start, capacity, rx, rd>>

\* ... and the vector's pointers are set to the new one.
GrowPublish ==
    /\ cpc = "growPublish"
    /\ start' = Len(heap)
    /\ cpc' = "connect"
    /\ next' = next + 1
    /\ UNCHANGED <<controllers, heap, capacity, freed, rx, rd>>

\* initialize() returns; only after it is the listen thread started.
Initialized ==
    /\ cpc = "connect"
    /\ next > NDevices
    /\ cpc' = "running"
    /\ UNCHANGED <<next, controllers, heap, start, capacity, freed, rx, rd>>

PushStatus == PushInPlace \/ Grow \/ GrowFree \/ GrowPublish

Initialize ==
    \/ Connect \/ ConnectFails \/ SetCallback \/ PushController \/ PushStatus
    \/ Initialized

-----------------------------------------------------------------------------
(***************************************************************************)
(* ~ControllerManager(): members are destroyed in reverse order of their   *)
(* declaration, lastInputStates first.                                     *)
(***************************************************************************)

\* The destructor runs after the listen thread has been joined.
Destroy ==
    /\ cpc = "running"
    /\ rd.pc \in {"idle", "done"}
    /\ cpc' = "destroyCache"
    /\ UNCHANGED <<next, controllers, heap, start, capacity, freed, rx, rd>>

DestroyCache ==
    /\ cpc = "destroyCache"
    /\ freed' = IF start = 0 THEN freed ELSE freed \union {start}
    /\ cpc' = "destroyControllers"
    /\ next' = 1
    /\ UNCHANGED <<controllers, heap, start, capacity, rx, rd>>

\* Mutant: the next controller is never reached.
Bug_DestroyStuck ==
    /\ cpc = "destroyControllers"
    /\ next <= Len(controllers)
    /\ rx[controllers[next]].pc = "idle"
    /\ rx' = [rx EXCEPT ![controllers[next]].pc = "stopped"]
    /\ UNCHANGED <<cpc, next, controllers, heap, start, capacity, freed, rd>>

\* ~ProController joins the receiver thread, which returns from the callback
\* it may be in.
DestroyController ==
    /\ cpc = "destroyControllers"
    /\ next <= Len(controllers)
    /\ rx[controllers[next]].pc = "idle"
    /\ rx' = [rx EXCEPT ![controllers[next]].pc = "stopped"]
    /\ next' = next + 1
    /\ UNCHANGED <<cpc, controllers, heap, start, capacity, freed, rd>>

Destroyed ==
    /\ cpc = "destroyControllers"
    /\ next > Len(controllers)
    /\ cpc' = "done"
    /\ UNCHANGED <<next, controllers, heap, start, capacity, freed, rx, rd>>

Teardown == DestroyCache \/ DestroyController \/ Destroyed

-----------------------------------------------------------------------------
(***************************************************************************)
(* A receiver thread calling the lambda of connectController.              *)
(***************************************************************************)

\* Mutant: the index is not tested.
Bug_NoSizeTest(d) ==
    /\ rx[d].pc = "idle"
    /\ rx[d].n < Reports[d]
    /\ rx' = [rx EXCEPT ![d] = [@ EXCEPT !.n = rx[d].n + 1, !.pc = "checked"]]
    /\ UNCHANGED <<cpc, next, controllers, heap, start, capacity, freed, rd>>

\* A report arrives; the lambda tests the index against the cache's size.
CallbackTest(d) ==
    /\ rx[d].pc = "idle"
    /\ rx[d].n < Reports[d]
    /\ rx' = [rx EXCEPT ![d] = [@ EXCEPT
                !.n  = rx[d].n + 1,
                !.pc = IF rx[d].slot <= CacheSize THEN "checked" ELSE "idle"]]
    /\ UNCHANGED <<cpc, next, controllers, heap, start, capacity, freed, rd>>

\* Mutant: the status is cleared before the new one is assigned.
Bug_ClearFirst(d) ==
    /\ rx[d].pc = "checked"
    /\ rx' = [rx EXCEPT ![d] = [@ EXCEPT !.pc = "first", !.base = start]]
    /\ heap' = [heap EXCEPT ![start][rx[d].slot] = NoStatus]
    /\ UNCHANGED <<cpc, next, controllers, start, capacity, freed, rd>>

\* operator[] loads the address of the storage.
CallbackLoad(d) ==
    /\ rx[d].pc = "checked"
    /\ rx' = [rx EXCEPT ![d] = [@ EXCEPT !.pc = "first", !.base = start]]
    /\ UNCHANGED <<cpc, next, controllers, heap, start, capacity, freed, rd>>

\* The heap with part p of the status device d is storing.
Stored(d, p) ==
    [heap EXCEPT ![rx[d].base][rx[d].slot][p] = <<d, rx[d].n>>]

CallbackFirst(d) ==
    /\ rx[d].pc = "first"
    /\ heap' = Stored(d, 1)
    /\ rx' = [rx EXCEPT ![d].pc = "second"]
    /\ UNCHANGED <<cpc, next, controllers, start, capacity, freed, rd>>

\* What is known to be stored for good once the callback returns.
KeptAfter(d) ==
    IF cpc = "running" /\ rx[d].base = start THEN rx[d].n ELSE rx[d].kept

\* Mutant: only one part of the status is assigned.
Bug_OnePart(d) ==
    /\ rx[d].pc = "second"
    /\ rx' = [rx EXCEPT ![d] = [@ EXCEPT !.pc = "idle", !.kept = KeptAfter(d)]]
    /\ UNCHANGED <<cpc, next, controllers, heap, start, capacity, freed, rd>>

CallbackSecond(d) ==
    /\ rx[d].pc = "second"
    /\ heap' = Stored(d, 2)
    /\ rx' = [rx EXCEPT ![d] = [@ EXCEPT !.pc = "idle", !.kept = KeptAfter(d)]]
    /\ UNCHANGED <<cpc, next, controllers, start, capacity, freed, rd>>

Callback(d) ==
    CallbackLoad(d) \/ CallbackFirst(d) \/ CallbackSecond(d)

-----------------------------------------------------------------------------
(***************************************************************************)
(* The listen thread reading slot i: the two tests of                      *)
(* buildControllerDataResponse and getControllerInputStatus, then a copy.  *)
(***************************************************************************)

ReadBegin(i) ==
    /\ cpc = "running"
    /\ rd.pc \in {"idle", "done"}
    /\ i <= Len(controllers)
    /\ i <= CacheSize
    /\ rd' = [pc |-> "first", slot |-> i, status |-> NoStatus, floor |-> Cache[i]]
    /\ UNCHANGED <<cpc, next, controllers, heap, start, capacity, freed, rx>>

ReadFirst ==
    /\ rd.pc = "first"
    /\ rd' = [rd EXCEPT !.status[1] = Cache[rd.slot][1], !.pc = "second"]
    /\ UNCHANGED <<cpc, next, controllers, heap, start, capacity, freed, rx>>

ReadSecond ==
    /\ rd.pc = "second"
    /\ rd' = [rd EXCEPT !.status[2] = Cache[rd.slot][2], !.pc = "done"]
    /\ UNCHANGED <<cpc, next, controllers, heap, start, capacity, freed, rx>>

Read == ReadFirst \/ ReadSecond

Next ==
    \/ Initialize
    \/ Destroy
    \/ Teardown
    \/ \E d \in Device : CallbackTest(d) \/ Callback(d)
    \/ \E i \in Device : ReadBegin(i)
    \/ Read

Spec == Init /\ [][Next]_vars

\* The constructing and destroying thread, a thread inside a callback and a
\* thread inside a read are scheduled; reports, reads and the end of the
\* program are not owed.
FairSpec ==
    /\ Spec
    /\ WF_vars(Initialize)
    /\ WF_vars(Teardown)
    /\ WF_vars(Read)
    /\ \A d \in Device : WF_vars(Callback(d))

-----------------------------------------------------------------------------
(***************************************************************************)
(* Properties.                                                             *)
(***************************************************************************)

\* The type of every variable.
TypeOK ==
    /\ cpc \in ManagerPC
    /\ next \in 1 .. NDevices + 1
    /\ controllers \in Seq(Device)
    /\ heap \in Seq(Seq(Status))
    /\ start \in 0 .. Len(heap)
    /\ capacity \in Nat
    /\ freed \subseteq 1 .. Len(heap)
    /\ rx \in [Device -> Receiver]
    /\ rd \in Reader

\* The cache has a status for every controller whenever the listen thread may
\* run, so the second test of buildControllerDataResponse (dsu_server.cpp:53)
\* never fails after a number has been used, whichever devices failed to
\* connect.
Aligned ==
    cpc \in {"running", "destroyCache"} => CacheSize = Len(controllers)

\* A status in slot i, cached or being read, is that of the i-th controller,
\* although slots are handed out before the vectors grow and devices that fail
\* to connect leave no gap (controller_manager.cpp:41-50).
OwnSlot ==
    /\ \A g \in DOMAIN heap : \A i \in DOMAIN heap[g] :
          /\ i \in DOMAIN controllers
          /\ \A p \in Part : heap[g][i][p][1] \in {0, controllers[i]}
    /\ rd.pc # "idle" => \A p \in Part : rd.status[p][1] \in {0, controllers[rd.slot]}

\* Why they do: the sizes of the vectors and of the storage that is being
\* filled differ only while connectController is between its push_backs, ...
Pushing == cpc \in {"pushStatus", "growFree", "growPublish"}

SizesAgree ==
    /\ Len(controllers) = IF Pushing THEN CacheSize + 1 ELSE CacheSize
    /\ Pushing \/ cpc \in {"setCallback", "pushController"} => next <= NDevices
    /\ cpc \in {"growFree", "growPublish"} =>
          heap # <<>> /\ Len(heap[Len(heap)]) = CacheSize + 1
    /\ cpc \notin {"growFree", "growPublish"} =>
          start = Len(heap) /\ (start = 0 => capacity = 0)

\* ... there are no more controllers than devices tried so far, ...
NoMoreThanTried ==
    /\ cpc \in {"connect", "setCallback", "pushController"} => Len(controllers) < next
    /\ Pushing => Len(controllers) <= next
    /\ Len(controllers) <= NDevices

\* ... a callback holds the slot its controller has or is about to get, ...
Registered ==
    \A d \in Device : rx[d].pc # "off" =>
        \/ rx[d].slot \in DOMAIN controllers /\ controllers[rx[d].slot] = d
        \/ cpc = "pushController" /\ d = next /\ rx[d].slot = Len(controllers) + 1

\* ... and a callback past its test of the size (controller_manager.cpp:45), or
\* a read past its two tests, uses an index within the storage it addresses,
\* although that may be replaced between the test, the load of the address and
\* the accesses (controller_manager.cpp:46, 50, 68).
InRange ==
    /\ \A d \in Device :
          /\ rx[d].pc \in {"checked", "first", "second"} => rx[d].slot \in 1 .. CacheSize
          /\ rx[d].pc \in {"first", "second"} =>
                rx[d].base \in DOMAIN heap /\ rx[d].slot \in DOMAIN heap[rx[d].base]
    /\ rd.pc # "idle" => rd.slot \in DOMAIN controllers
    /\ rd.pc \in {"first", "second"} => rd.slot \in 1 .. CacheSize

IInv == TypeOK /\ SizesAgree /\ NoMoreThanTried /\ Registered /\ InRange /\ OwnSlot

\* A read returns, in every part, the report that was cached when it began or
\* a newer one, a default status only if nothing had been cached then, although
\* no lock orders the copy and the writes (controller_manager.cpp:46, 68).
FreshRead ==
    rd.pc = "done" => \A p \in Part : rd.status[p][2] >= rd.floor[p][2]

\* Damage heals: once initialize() has returned, a slot is whole and latest
\* again as soon as its controller's next report has been stored, whatever
\* was dropped, torn or written to a dead storage before.
SettledSlot ==
    cpc = "running" => \A i \in DOMAIN controllers :
        LET r == rx[controllers[i]] IN
        r.pc = "idle" /\ r.kept = r.n /\ r.n > 0 =>
            Cache[i] = [p \in Part |-> <<controllers[i], r.n>>]

\* Why it does: reports count up, and none is kept before initialize() has
\* returned or while its callback is still storing it; ...
KeptCounted ==
    \A d \in Device :
        /\ rx[d].kept <= rx[d].n
        /\ rx[d].pc \in {"checked", "first", "second"} => rx[d].kept < rx[d].n
        /\ cpc \in {"connect", "setCallback", "pushController", "pushStatus",
                    "growFree", "growPublish"} => rx[d].kept = 0

\* ... a callback shares its slot with no other, since the devices connect in
\* order, ...
OneSlotEach ==
    /\ \A i \in DOMAIN controllers : rx[controllers[i]].slot = i
    /\ cpc \in {"connect", "setCallback", "pushController"} =>
          \A i \in DOMAIN controllers : controllers[i] < next
    /\ Pushing => \A i \in DOMAIN controllers : controllers[i] <= next
    /\ cpc = "pushController" => rx[next].slot = Len(controllers) + 1

\* ... so that nobody else writes there, in any storage; ...
HalfWritten ==
    \A d \in Device : rx[d].pc = "second" =>
        heap[rx[d].base][rx[d].slot][1] = <<d, rx[d].n>>

\* ... and the cache never falls behind what was kept.
KeptStays ==
    cpc = "running" => \A i \in DOMAIN controllers : \A p \in Part :
        Cache[i][p][2] >= rx[controllers[i]].kept

HealInv == KeptCounted /\ OneSlotEach /\ HalfWritten /\ KeptStays /\ SettledSlot

\* No storage holds a report that has not arrived yet, so that what a callback
\* writes is never older than what it overwrites.
NotAhead ==
    \A g \in DOMAIN heap : \A i \in DOMAIN heap[g] : \A p \in Part :
        heap[g][i][p][2] <= rx[controllers[i]].n

\* Why a read is fresh: while it is under way the cache only moves on from what
\* it held when the read began, and so does what has been copied.
Copied ==
    /\ rd.pc \in {"first", "second"} =>
          /\ cpc = "running"
          /\ \A p \in Part : rd.floor[p][2] <= Cache[rd.slot][p][2]
    /\ rd.pc = "second" => rd.floor[1][2] <= rd.status[1][2]

\* Before the destructor runs, only storages that were outgrown are deallocated.
Outgrown ==
    /\ cpc \in {"growFree", "growPublish"} => start < Len(heap)
    /\ cpc \notin {"destroyControllers", "done"} => \A g \in freed : g < Len(heap)

\* initialize() returns, whichever devices connect and however their callbacks
\* interleave.
InitializeEnds == <>(cpc = "running")

\* The destructor returns: every receiver thread leaves its callback and is
\* joined.
DestroyEnds == (cpc = "destroyCache") ~> (cpc = "done")

-----------------------------------------------------------------------------
(***************************************************************************)
(* What comments of the code say and the code does not do.                 *)
(***************************************************************************)

\* controller_manager.hpp:30: "Get input status from a specific controller".
\* The copy may mix the parts of two statuses.
OneStatusPerRead ==
    rd.pc = "done" => rd.status[1] = rd.status[2]

\* controller_manager.cpp:40: the callback is there "to cache the latest
\* state".  A report that arrives before the status is pushed, or while the
\* vector grows, is lost, and until the next one the slot holds an older one.
CacheHoldsLatest ==
    cpc = "running" => \A i \in DOMAIN controllers :
        LET r == rx[controllers[i]] IN
        r.pc = "idle" /\ r.n > 0 =>
            Cache[i] = [p \in Part |-> <<controllers[i], r.n>>]

\* controller_manager.cpp:9: the controllers "will be automatically cleaned up
\* when unique_ptrs are destroyed".  They are, but after the cache their
\* receiver threads write to.
NoDanglingWrite ==
    \A d \in Device : rx[d].pc \in {"first", "second"} => rx[d].base \notin freed

=============================================================================
