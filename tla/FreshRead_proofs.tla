--------------------------- MODULE FreshRead_proofs ---------------------------
(***************************************************************************)
(* What a read of the unlocked cache returns, and that the cache heals,    *)
(* for every number of devices and any number of reports: FreshRead of     *)
(* ControllerManager, from Copied and NotAhead, and SettledSlot, from      *)
(* HealInv.                                                                *)
(***************************************************************************)
EXTENDS ControllerManager_proofs

\* The counters of a receiver are numbers.
LEMMA Counters ==
    ASSUME IInv, NEW d \in Device
    PROVE  /\ rx[d] \in Receiver
           /\ rx[d].n \in Nat /\ rx[d].kept \in Nat /\ rx[d].slot \in Nat
<1>1. rx[d] \in Receiver
  BY Shape
<1>2. QED
  BY <1>1 DEF Receiver

\* The entries of controllers are devices.
LEMMA Devices ==
    ASSUME IInv
    PROVE  \A i \in DOMAIN controllers :
              i \in Nat /\ controllers[i] \in Device /\ controllers[i] \in Nat
<1>1. \A i \in DOMAIN controllers : i \in Nat /\ controllers[i] \in Device
  BY Shape, ElementOfSeq
<1>2. QED
  BY <1>1, ManagerAssumption DEF Device

\* Outside connectController's push_backs, the listen thread's time included,
\* slots and cached statuses correspond.
LEMMA SettledShape ==
    ASSUME IInv, ~Pushing
    PROVE  /\ CacheSize = Len(controllers)
           /\ \A i \in DOMAIN controllers :
                 /\ i \in DOMAIN Cache /\ Cache[i] \in Status
                 /\ controllers[i] \in Device
                 /\ start \in DOMAIN heap /\ Cache = heap[start]
                 /\ \A p \in Part : Cache[i][p][2] \in Nat
<1>1. CacheSize = Len(controllers)
  BY DEF IInv, SizesAgree
<1>2. ASSUME NEW i \in DOMAIN controllers
      PROVE  /\ i \in DOMAIN Cache /\ Cache[i] \in Status
             /\ controllers[i] \in Device
             /\ start \in DOMAIN heap /\ Cache = heap[start]
             /\ \A p \in Part : Cache[i][p][2] \in Nat
  <2>1. i \in 1 .. Len(controllers) /\ controllers[i] \in Device
    BY Shape, ElementOfSeq
  <2>2. i \in 1 .. CacheSize /\ i \in DOMAIN Cache
    BY <1>1, <2>1, CacheType DEF IInv
  <2>3. Cache[i] \in Status
    BY <2>2, CacheType, ElementOfSeq DEF IInv, CacheSize
  <2>4. start # 0
    BY <2>2, EmptySeq DEF Cache, CacheSize
  <2>5. start \in DOMAIN heap /\ Cache = heap[start]
    BY <2>4, Shape DEF Cache
  <2>6. \A p \in Part : Cache[i][p][2] \in Nat
    BY <2>3 DEF Status, Report
  <2>7. QED
    BY <2>1, <2>2, <2>3, <2>5, <2>6
<1>3. QED
  BY <1>1, <1>2

-----------------------------------------------------------------------------
(***************************************************************************)
(* The steps of the constructing and destroying thread.                    *)
(***************************************************************************)

\* Steps that only move on.
LEMMA HealControl ==
    ASSUME IInv, HealInv,
           \/ Connect \/ ConnectFails \/ GrowFree
           \/ Destroy \/ DestroyCache \/ Destroyed \/ UNCHANGED vars
    PROVE  HealInv'
<1>1. UNCHANGED <<controllers, heap, start, rx, rd>>
  BY DEF Connect, ConnectFails, GrowFree, Destroy, DestroyCache, Destroyed, vars
<1>2. Cache' = Cache
  BY <1>1 DEF Cache
<1>3. /\ cpc' = "running" => cpc = "running"
      /\ cpc' \in {"connect", "setCallback", "pushController", "pushStatus",
                  "growFree", "growPublish"} =>
            cpc \in {"connect", "setCallback", "pushController", "pushStatus",
                     "growFree", "growPublish"}
  BY DEF Connect, ConnectFails, GrowFree, Destroy, DestroyCache, Destroyed, vars
<1>4. KeptCounted'
  BY <1>1, <1>3 DEF HealInv, KeptCounted
<1>8. OneSlotEach'
  <2>1. \A i \in DOMAIN controllers : controllers[i] \in Nat
    BY Devices
  <2>2. QED
    BY <1>1, <2>1, Shape DEF HealInv, OneSlotEach, Pushing, Connect, ConnectFails, GrowFree,
       Destroy, DestroyCache, Destroyed, vars
<1>5. HalfWritten'
  BY <1>1, <1>3 DEF HealInv, HalfWritten
<1>6. KeptStays' /\ SettledSlot'
  BY <1>1, <1>2, <1>3 DEF HealInv, KeptStays, SettledSlot
<1>7. QED
  BY <1>4, <1>5, <1>6, <1>8 DEF HealInv

\* initialize() returns: nothing has been kept, so nothing can be missing.
LEMMA HealInitialized == ASSUME IInv, HealInv, Initialized PROVE HealInv'
<1>1. UNCHANGED <<controllers, heap, start, rx, rd>> /\ cpc = "connect" /\ cpc' = "running"
  BY DEF Initialized
<1>2. \A d \in Device : rx'[d].kept = 0 /\ rx'[d].n \in Nat
  BY <1>1, Counters DEF HealInv, KeptCounted
<1>3. \A i \in DOMAIN controllers' :
         controllers'[i] \in Device /\ \A p \in Part : Cache'[i][p][2] \in Nat
  <2>1. ~Pushing /\ Cache' = Cache
    BY <1>1 DEF Pushing, Cache
  <2>2. QED
    BY <1>1, <2>1, SettledShape
<1>4. KeptCounted' /\ OneSlotEach' /\ HalfWritten'
  BY <1>1 DEF HealInv, KeptCounted, OneSlotEach, Pushing, HalfWritten
<1>5. KeptStays'
  BY <1>2, <1>3 DEF KeptStays
<1>6. SettledSlot'
  BY <1>2, <1>3 DEF SettledSlot
<1>7. QED
  BY <1>4, <1>5, <1>6 DEF HealInv

\* push_back in place leaves the statuses before the new one alone.
LEMMA PushedBehind ==
    ASSUME IInv, PushInPlace, NEW b \in 1 .. Len(heap), NEW k \in 1 .. Len(heap[b])
    PROVE  heap'[b][k] = heap[b][k]
<1>1. heap[b] \in Seq(Status) /\ b \in DOMAIN heap
  BY Shape
<1>2. heap' = [heap EXCEPT ![start] = Append(heap[start], NoStatus)]
  BY DEF PushInPlace
<1>3. CASE b # start
  BY <1>1, <1>2, <1>3
<1>4. CASE b = start
  <2>1. heap'[b] = Append(heap[b], NoStatus)
    BY <1>1, <1>2, <1>4
  <2>2. QED
    BY <1>1, <2>1, AppendProperties, NoStatusType
<1>5. QED
  BY <1>3, <1>4

\* Steps of connectController: nothing is read yet and nothing kept.
LEMMA HealConnecting ==
    ASSUME IInv, HealInv,
           SetCallback \/ PushController \/ PushInPlace \/ Grow \/ GrowPublish
    PROVE  HealInv'
<1>1. /\ cpc' # "running" /\ rd' = rd
      /\ cpc \in {"setCallback", "pushController", "pushStatus", "growPublish"}
  BY DEF SetCallback, PushController, PushInPlace, Grow, GrowPublish
<1>2. /\ rx' \in [Device -> Receiver]
      /\ \A d \in Device :
            /\ rx'[d].kept = rx[d].kept /\ rx'[d].n = rx[d].n /\ rx[d].kept = 0
            /\ rx'[d].pc \in {"checked", "first", "second"} => rx'[d] = rx[d]
  <2>1. \A d \in Device : rx[d].kept = 0 /\ rx[d] \in Receiver
    BY <1>1, Counters DEF HealInv, KeptCounted
  <2>2. CASE SetCallback
    <3>1. [rx[next] EXCEPT !.pc = "idle", !.slot = NextSlot] \in Receiver /\ next \in Device
      <4>1. next \in Device
        BY <2>2, Shape, ManagerAssumption DEF SetCallback, IInv, SizesAgree, Device
      <4>2. NextSlot \in Nat
        BY Shape DEF NextSlot
      <4>3. QED
        BY <2>1, <4>1, <4>2 DEF Receiver
    <3>2. QED
      BY <2>1, <2>2, <3>1, Shape DEF SetCallback, Receiver
  <2>3. CASE ~SetCallback
    <3>1. rx' = rx
      BY <2>3 DEF PushController, PushInPlace, Grow, GrowPublish
    <3>2. QED
      BY <2>1, <3>1, Shape
  <2>4. QED
    BY <2>2, <2>3
<1>3. KeptCounted'
  BY <1>2 DEF HealInv, KeptCounted
<1>4. HalfWritten'
  <2> SUFFICES ASSUME NEW d \in Device, rx'[d].pc = "second"
               PROVE  heap'[rx'[d].base][rx'[d].slot][1] = <<d, rx'[d].n>>
    BY DEF HalfWritten
  <2> DEFINE b == rx[d].base
             k == rx[d].slot
  <2>1. rx'[d] = rx[d] /\ rx[d].pc = "second" /\ heap[b][k][1] = <<d, rx[d].n>>
    BY <1>2 DEF HealInv, HalfWritten
  <2>2. b \in 1 .. Len(heap) /\ k \in 1 .. Len(heap[b])
    BY <2>1, Shape DEF IInv, InRange
  <2> HIDE DEF b, k
  <2>3. heap'[b][k] = heap[b][k]
    <3>1. CASE PushInPlace
      BY <2>2, <3>1, PushedBehind
    <3>2. CASE Grow
      BY <2>2, <3>2, Shape, AppendProperties, NoStatusType, CacheType DEF Grow, IInv
    <3>3. CASE SetCallback \/ PushController \/ GrowPublish
      BY <3>3 DEF SetCallback, PushController, GrowPublish
    <3>4. QED
      BY <3>1, <3>2, <3>3
  <2>4. QED
    BY <2>1, <2>3 DEF b, k
<1>5. KeptStays' /\ SettledSlot'
  BY <1>1 DEF KeptStays, SettledSlot
<1>8. OneSlotEach'
  <2>1. /\ next \in Device /\ next \in Nat
        /\ \A i \in DOMAIN controllers :
              i \in Nat /\ controllers[i] \in Device /\ controllers[i] \in Nat
    BY <1>1, Devices, Shape, ManagerAssumption DEF IInv, SizesAgree, Pushing, Device
  <2>2. CASE SetCallback
    <3>1. \A d \in Device :
             IF d = next THEN rx'[d].slot = Len(controllers) + 1 ELSE rx'[d] = rx[d]
      <4>1. rx[next] \in Receiver /\ rx \in [Device -> Receiver]
        BY <2>1, Shape
      <4>2. [rx[next] EXCEPT !.pc = "idle", !.slot = NextSlot].slot = Len(controllers) + 1
        BY <4>1 DEF Receiver, NextSlot
      <4>3. QED
        BY <2>1, <2>2, <4>1, <4>2 DEF SetCallback
    <3>2. \A i \in DOMAIN controllers : controllers[i] # next
      BY <2>1, <2>2 DEF SetCallback, HealInv, OneSlotEach
    <3>3. QED
      BY <2>1, <2>2, <3>1, <3>2 DEF SetCallback, HealInv, OneSlotEach, Pushing
  <2>3. CASE PushController
    <3>1. /\ DOMAIN controllers' = 1 .. Len(controllers) + 1
          /\ \A i \in 1 .. Len(controllers) : controllers'[i] = controllers[i]
          /\ controllers'[Len(controllers) + 1] = next
      BY <2>1, <2>3, Shape, AppendProperties, LenProperties DEF PushController
    <3>2. cpc = "pushController" /\ cpc' = "pushStatus" /\ rx' = rx /\ next' = next
      BY <2>3 DEF PushController
    <3>3. \A i \in DOMAIN controllers' : i \in 1 .. Len(controllers) \/ i = Len(controllers) + 1
      BY <3>1, Shape
    <3>4. \A i \in DOMAIN controllers' :
             rx[controllers'[i]].slot = i /\ controllers'[i] <= next
      <4>1. rx[next].slot = Len(controllers) + 1 /\ next <= next
        BY <2>1, <3>2 DEF HealInv, OneSlotEach
      <4>2. \A i \in 1 .. Len(controllers) :
               rx[controllers[i]].slot = i /\ controllers[i] <= next
        BY <2>1, <3>2, Shape DEF HealInv, OneSlotEach
      <4>3. QED
        BY <3>1, <3>3, <4>1, <4>2
    <3>5. QED
      BY <3>2, <3>4 DEF OneSlotEach
  <2>4. CASE PushInPlace \/ Grow \/ GrowPublish
    BY <2>1, <2>4 DEF PushInPlace, Grow, GrowPublish, HealInv, OneSlotEach, Pushing
  <2>5. QED
    BY <2>2, <2>3, <2>4
<1>7. QED
  BY <1>3, <1>4, <1>5, <1>8 DEF HealInv

-----------------------------------------------------------------------------
(***************************************************************************)
(* The steps of the receiver threads.                                      *)
(***************************************************************************)

\* Steps that store nothing.
LEMMA HealReceiver ==
    ASSUME IInv, HealInv, NEW d \in Device, NEW r \in Receiver,
           rx' = [rx EXCEPT ![d] = r],
           UNCHANGED <<cpc, controllers, heap, start, rd>>,
           cpc = "destroyControllers" \/ next' = next,
           r.slot = rx[d].slot, r.kept = rx[d].kept, rx[d].n <= r.n,
           r.pc # "second",
           r.pc \in {"checked", "first"} => r.kept < r.n,
           r.pc = "idle" => r.kept < r.n
    PROVE  HealInv'
<1>1. Cache' = Cache
  BY DEF Cache
<1>2. /\ \A e \in Device : rx'[e] = IF e = d THEN r ELSE rx[e]
      /\ \A e \in Device : rx'[e].kept = rx[e].kept /\ rx'[e].slot = rx[e].slot
  BY Shape
<1>3. KeptCounted'
  <2>1. rx[d].kept <= rx[d].n /\ rx[d].n \in Nat /\ rx[d].kept \in Nat /\ r.n \in Nat
    BY Counters DEF HealInv, KeptCounted, Receiver
  <2>2. QED
    BY <1>2, <2>1 DEF HealInv, KeptCounted
<1>4. \A i \in DOMAIN controllers : controllers[i] \in Device
  BY Shape, ElementOfSeq
<1>5. OneSlotEach'
  <2>1. cpc = "pushController" => next \in Device
    BY Shape, ManagerAssumption DEF IInv, SizesAgree, Device
  <2>2. QED
    BY <1>2, <1>4, <2>1 DEF HealInv, OneSlotEach, Pushing
<1>6. HalfWritten'
  <2> SUFFICES ASSUME NEW e \in Device, rx'[e].pc = "second"
               PROVE  heap[rx'[e].base][rx'[e].slot][1] = <<e, rx'[e].n>>
    BY DEF HalfWritten
  <2>1. rx'[e] = rx[e]
    BY <1>2
  <2>2. QED
    BY <2>1 DEF HealInv, HalfWritten
<1>7. KeptStays'
  BY <1>1, <1>2, <1>4 DEF HealInv, KeptStays
<1>8. SettledSlot'
  <2> SUFFICES ASSUME cpc' = "running", NEW i \in DOMAIN controllers',
                      rx'[controllers'[i]].pc = "idle",
                      rx'[controllers'[i]].kept = rx'[controllers'[i]].n,
                      rx'[controllers'[i]].n > 0
               PROVE  Cache'[i] = [p \in Part |-> <<controllers'[i], rx'[controllers'[i]].n>>]
    BY DEF SettledSlot
  <2>1. r.pc = "idle" => r.kept # r.n
    BY DEF Receiver
  <2>2. rx'[controllers[i]] = rx[controllers[i]]
    BY <1>2, <1>4, <2>1
  <2>3. /\ cpc = "running" /\ i \in DOMAIN controllers
        /\ rx[controllers[i]].pc = "idle" /\ rx[controllers[i]].kept = rx[controllers[i]].n
        /\ rx[controllers[i]].n > 0
    BY <2>2
  <2>4. Cache[i] = [p \in Part |-> <<controllers[i], rx[controllers[i]].n>>]
    BY <2>3 DEF HealInv, SettledSlot
  <2>5. QED
    BY <1>1, <2>2, <2>4
<1>9. QED
  BY <1>3, <1>5, <1>6, <1>7, <1>8 DEF HealInv

\* A report is received, its address loaded, a thread joined.
LEMMA HealNotStored ==
    ASSUME IInv, HealInv,
           DestroyController \/ \E d \in Device : CallbackTest(d) \/ CallbackLoad(d)
    PROVE  HealInv'
<1>1. CASE DestroyController
  <2> DEFINE d == controllers[next]
             r == [rx[d] EXCEPT !.pc = "stopped"]
  <2>1. d \in Device
    BY <1>1, Shape, ElementOfSeq DEF DestroyController
  <2>2. /\ r \in Receiver /\ r.pc = "stopped" /\ r.slot = rx[d].slot
        /\ r.kept = rx[d].kept /\ r.n = rx[d].n /\ r.n \in Nat
    BY <2>1, Counters DEF Receiver
  <2>3. rx' = [rx EXCEPT ![d] = r] /\ UNCHANGED <<cpc, controllers, heap, start, rd>>
        /\ cpc = "destroyControllers"
    BY <1>1 DEF DestroyController
  <2> HIDE DEF d, r
  <2>4. /\ rx' = [rx EXCEPT ![d] = r]
        /\ UNCHANGED <<cpc, controllers, heap, start, rd>>
        /\ cpc = "destroyControllers" \/ next' = next
        /\ r \in Receiver /\ r.slot = rx[d].slot /\ r.kept = rx[d].kept
        /\ rx[d].n <= r.n /\ r.pc # "second"
        /\ r.pc \in {"checked", "first"} => r.kept < r.n
        /\ r.pc = "idle" => r.kept < r.n
    BY <2>2, <2>3
  <2>5. QED
    BY <2>1, <2>4, HealReceiver, Zenon
<1>2. ASSUME NEW d \in Device, CallbackTest(d) PROVE HealInv'
  <2> DEFINE c == IF rx[d].slot <= CacheSize THEN "checked" ELSE "idle"
             r == [rx[d] EXCEPT !.n = rx[d].n + 1, !.pc = c]
  <2>1. c \in {"checked", "idle"}
    OBVIOUS
  <2> HIDE DEF c
  <2>2. rx[d] \in Receiver /\ rx[d].n + 1 \in Nat /\ rx[d].n \in Nat /\ rx[d].kept \in Nat
        /\ rx[d].kept <= rx[d].n
    BY Counters DEF HealInv, KeptCounted
  <2>3. /\ r \in Receiver /\ r.pc = c /\ r.slot = rx[d].slot
        /\ r.kept = rx[d].kept /\ r.n = rx[d].n + 1
    BY <2>1, <2>2 DEF Receiver
  <2>4. rx' = [rx EXCEPT ![d] = r] /\ UNCHANGED <<cpc, next, controllers, heap, start, rd>>
    BY <1>2 DEF CallbackTest, c
  <2> HIDE DEF r
  <2>5. /\ rx' = [rx EXCEPT ![d] = r]
        /\ UNCHANGED <<cpc, controllers, heap, start, rd>>
        /\ cpc = "destroyControllers" \/ next' = next
        /\ r \in Receiver /\ r.slot = rx[d].slot /\ r.kept = rx[d].kept
        /\ rx[d].n <= r.n /\ r.pc # "second"
        /\ r.pc \in {"checked", "first"} => r.kept < r.n
        /\ r.pc = "idle" => r.kept < r.n
    BY <2>1, <2>2, <2>3, <2>4
  <2>6. QED
    BY <2>5, HealReceiver, Zenon
<1>3. ASSUME NEW d \in Device, CallbackLoad(d) PROVE HealInv'
  <2> DEFINE r == [rx[d] EXCEPT !.pc = "first", !.base = start]
  <2>1. rx[d] \in Receiver /\ rx[d].kept < rx[d].n /\ start \in Nat
    <3>1. rx[d].pc = "checked"
      BY <1>3 DEF CallbackLoad
    <3>2. QED
      BY <3>1, Counters, Shape DEF HealInv, KeptCounted
  <2>2. /\ r \in Receiver /\ r.pc = "first" /\ r.slot = rx[d].slot
        /\ r.kept = rx[d].kept /\ r.n = rx[d].n /\ rx[d].n \in Nat
    BY <2>1 DEF Receiver
  <2>3. rx' = [rx EXCEPT ![d] = r] /\ UNCHANGED <<cpc, next, controllers, heap, start, rd>>
    BY <1>3 DEF CallbackLoad
  <2> HIDE DEF r
  <2>4. /\ rx' = [rx EXCEPT ![d] = r]
        /\ UNCHANGED <<cpc, controllers, heap, start, rd>>
        /\ cpc = "destroyControllers" \/ next' = next
        /\ r \in Receiver /\ r.slot = rx[d].slot /\ r.kept = rx[d].kept
        /\ rx[d].n <= r.n /\ r.pc # "second"
        /\ r.pc \in {"checked", "first"} => r.kept < r.n
        /\ r.pc = "idle" => r.kept < r.n
    BY <2>1, <2>2, <2>3
  <2>5. QED
    BY <2>4, HealReceiver, Zenon
<1>4. QED
  BY <1>1, <1>2, <1>3

\* A status whose parts are all the same report.
LEMMA Whole ==
    ASSUME NEW s \in Status, NEW r, \A q \in Part : s[q] = r
    PROVE  s = [p \in Part |-> r]
BY DEF Status

\* What one of the two writes of a callback does to the storages and, while
\* the listen thread runs, to the cache.
LEMMA Written ==
    ASSUME IInv, NEW d \in Device, NEW p \in Part, rx[d].pc \in {"first", "second"},
           heap' = Stored(d, p), UNCHANGED <<cpc, controllers, start>>
    PROVE  /\ rx[d].slot \in DOMAIN controllers /\ controllers[rx[d].slot] = d
           /\ heap'[rx[d].base][rx[d].slot][p] = <<d, rx[d].n>>
           /\ \A e \in Device : rx[e].pc = "second" /\ (e # d \/ p # 1) =>
                 heap'[rx[e].base][rx[e].slot][1] = heap[rx[e].base][rx[e].slot][1]
           /\ cpc = "running" =>
                 \A i \in DOMAIN controllers :
                    /\ Cache'[i] \in Status
                    /\ \A q \in Part :
                          Cache'[i][q] = IF rx[d].base = start /\ i = rx[d].slot /\ q = p
                                         THEN <<d, rx[d].n>> ELSE Cache[i][q]
<1>1. /\ heap' \in Seq(Seq(Status)) /\ Len(heap') = Len(heap)
      /\ \A g \in 1 .. Len(heap) : Len(heap'[g]) = Len(heap[g])
      /\ \A g \in 1 .. Len(heap) : \A i \in 1 .. Len(heap[g]) : \A q \in Part :
                  heap'[g][i][q] = IF g = rx[d].base /\ i = rx[d].slot /\ q = p
                                   THEN <<d, rx[d].n>> ELSE heap[g][i][q]
      /\ controllers[rx[d].slot] = d
  <2>1. /\ Stored(d, p) \in Seq(Seq(Status))
        /\ Len(Stored(d, p)) = Len(heap)
        /\ \A g \in 1 .. Len(heap) :
              /\ Len(Stored(d, p)[g]) = Len(heap[g])
              /\ \A i \in 1 .. Len(heap[g]) : \A q \in Part :
                    Stored(d, p)[g][i][q][1] \in {0, controllers[i]}
        /\ \A g \in 1 .. Len(heap) : \A i \in 1 .. Len(heap[g]) : \A q \in Part :
              Stored(d, p)[g][i][q] =
                 IF g = rx[d].base /\ i = rx[d].slot /\ q = p
                 THEN <<d, rx[d].n>> ELSE heap[g][i][q]
        /\ controllers[rx[d].slot] = d
    BY StoredOK, ZenonT(40)
  <2>2. QED
    BY <2>1, ZenonT(40)
<1>2. \A e \in Device : rx[e].pc \in {"first", "second"} =>
         /\ rx[e].base \in 1 .. Len(heap)
         /\ rx[e].slot \in 1 .. Len(heap[rx[e].base])
  BY Shape DEF IInv, InRange
<1>3. \A e \in Device : rx[e].pc \in {"first", "second"} =>
         rx[e].slot \in DOMAIN controllers /\ controllers[rx[e].slot] = e
  <2>1. \A e \in Device : rx[e].pc \in {"first", "second"} => rx[e].slot \in DOMAIN controllers
    BY <1>2, Shape DEF IInv, OwnSlot
  <2>2. QED
    BY <2>1, Shape DEF IInv, Registered
<1>4. heap'[rx[d].base][rx[d].slot][p] = <<d, rx[d].n>>
  BY <1>1, <1>2
<1>5. ASSUME NEW e \in Device, rx[e].pc = "second", e # d \/ p # 1
      PROVE  heap'[rx[e].base][rx[e].slot][1] = heap[rx[e].base][rx[e].slot][1]
  <2>1. e # d => rx[e].slot # rx[d].slot
    BY <1>3, <1>5
  <2>2. 1 \in Part
    BY DEF Part
  <2>3. QED
    BY <1>1, <1>2, <1>5, <2>1, <2>2
<1>6. ASSUME cpc = "running", NEW i \in DOMAIN controllers
      PROVE  /\ Cache'[i] \in Status
             /\ \A q \in Part :
                   Cache'[i][q] = IF rx[d].base = start /\ i = rx[d].slot /\ q = p
                                  THEN <<d, rx[d].n>> ELSE Cache[i][q]
  <2>1. start \in 1 .. Len(heap) /\ Cache = heap[start] /\ i \in 1 .. Len(heap[start])
    BY <1>6, SettledShape, Shape DEF Pushing
  <2>2. start # 0 /\ Cache' = heap'[start]
    BY <2>1, Shape DEF Cache
  <2>3. heap'[start] \in Seq(Status) /\ i \in 1 .. Len(heap'[start])
    BY <1>1, <2>1, ElementOfSeq
  <2>4. heap'[start][i] \in Status
    BY <2>3, ElementOfSeq
  <2>5. ASSUME NEW q \in Part
        PROVE  heap'[start][i][q] = IF rx[d].base = start /\ i = rx[d].slot /\ q = p
                                    THEN <<d, rx[d].n>> ELSE heap[start][i][q]
    BY <1>1, <2>1
  <2>6. QED
    BY <2>1, <2>2, <2>4, <2>5
<1>7. QED
  BY <1>2, <1>3, <1>4, <1>5, <1>6

\* The same for one slot of the cache.
LEMMA WrittenCache ==
    ASSUME IInv, NEW d \in Device, NEW p \in Part, rx[d].pc \in {"first", "second"},
           heap' = Stored(d, p), UNCHANGED <<cpc, controllers, start>>,
           cpc = "running", NEW i \in DOMAIN controllers
    PROVE  /\ Cache'[i] \in Status
           /\ \A q \in Part :
                 Cache'[i][q] = IF rx[d].base = start /\ i = rx[d].slot /\ q = p
                                THEN <<d, rx[d].n>> ELSE Cache[i][q]
<1>1. cpc = "running" =>
         \A j \in DOMAIN controllers :
            /\ Cache'[j] \in Status
            /\ \A q \in Part :
                  Cache'[j][q] = IF rx[d].base = start /\ j = rx[d].slot /\ q = p
                                 THEN <<d, rx[d].n>> ELSE Cache[j][q]
  BY Written, SMTT(40)
<1>2. QED
  BY <1>1, ZenonT(40)

\* The first part of a status is stored: newer than all that was kept.
LEMMA HealFirst ==
    ASSUME IInv, HealInv, NEW d \in Device, CallbackFirst(d) PROVE HealInv'
<1>1. /\ rx[d].pc = "first" /\ heap' = Stored(d, 1) /\ 1 \in Part
      /\ UNCHANGED <<cpc, next, controllers, start, rd>>
  BY DEF CallbackFirst, Part
<1>2. \A e \in Device :
         /\ rx'[e].n = rx[e].n /\ rx'[e].kept = rx[e].kept
         /\ rx'[e].slot = rx[e].slot /\ rx'[e].base = rx[e].base
         /\ rx'[e].pc = IF e = d THEN "second" ELSE rx[e].pc
  BY Counters, Shape DEF CallbackFirst, Receiver
<1>3. \A i \in DOMAIN controllers : controllers[i] \in Device
  BY Devices
<1>slot. /\ controllers[rx[d].slot] = d
       /\ heap'[rx[d].base][rx[d].slot][1] = <<d, rx[d].n>>
  BY <1>1, Written
<1>cache. ASSUME cpc = "running", NEW i \in DOMAIN controllers
       PROVE  /\ Cache'[i] \in Status
              /\ \A q \in Part :
                    Cache'[i][q] = IF rx[d].base = start /\ i = rx[d].slot /\ q = 1
                                   THEN <<d, rx[d].n>> ELSE Cache[i][q]
  BY <1>1, <1>cache, WrittenCache
<1>4. KeptCounted'
  BY <1>1, <1>2 DEF HealInv, KeptCounted
<1>5. OneSlotEach'
  <2>1. cpc = "pushController" => next \in Device
    BY Shape, ManagerAssumption DEF IInv, SizesAgree, Device
  <2>2. QED
    BY <1>1, <1>2, <1>3, <2>1 DEF HealInv, OneSlotEach, Pushing
<1>6. HalfWritten'
  <2> SUFFICES ASSUME NEW e \in Device, rx'[e].pc = "second"
               PROVE  heap'[rx[e].base][rx[e].slot][1] = <<e, rx[e].n>>
    BY <1>2 DEF HalfWritten
  <2>1. CASE e = d
    BY <1>slot, <2>1
  <2>2. CASE e # d
    <3>1. rx[e].pc = "second" /\ heap[rx[e].base][rx[e].slot][1] = <<e, rx[e].n>>
      BY <1>2, <2>2 DEF HealInv, HalfWritten
    <3>2. QED
      BY <1>1, <2>2, <3>1, Written
  <2>3. QED
    BY <2>1, <2>2
<1>7. KeptStays'
  <2> SUFFICES ASSUME cpc = "running", NEW i \in DOMAIN controllers, NEW q \in Part
               PROVE  Cache'[i][q][2] >= rx[controllers[i]].kept
    BY <1>1, <1>2, <1>3 DEF KeptStays
  <2>1. Cache[i][q][2] >= rx[controllers[i]].kept
    BY DEF HealInv, KeptStays
  <2>2. Cache'[i][q] = IF rx[d].base = start /\ i = rx[d].slot /\ q = 1
                       THEN <<d, rx[d].n>> ELSE Cache[i][q]
    BY <1>cache
  <2>3. controllers[rx[d].slot] = d /\ rx[d].n >= rx[d].kept
    BY <1>1, <1>slot, Counters DEF HealInv, KeptCounted
  <2>4. QED
    BY <2>1, <2>2, <2>3
<1>8. SettledSlot'
  <2> SUFFICES ASSUME cpc' = "running", NEW i \in DOMAIN controllers',
                      rx'[controllers'[i]].pc = "idle",
                      rx'[controllers'[i]].kept = rx'[controllers'[i]].n,
                      rx'[controllers'[i]].n > 0
               PROVE  Cache'[i] = [p \in Part |-> <<controllers'[i], rx'[controllers'[i]].n>>]
    BY DEF SettledSlot
  <2>1. controllers[i] # d /\ controllers[i] \in Device /\ cpc = "running"
    BY <1>1, <1>2, <1>3
  <2>2. i # rx[d].slot
    BY <1>slot, <2>1
  <2>3. Cache'[i] \in Status /\ \A q \in Part : Cache'[i][q] = Cache[i][q]
    <3>1. i \in DOMAIN controllers
      BY <1>1
    <3>2. QED
      BY <1>cache, <2>1, <2>2, <3>1
  <2>4. Cache[i] = [p \in Part |-> <<controllers[i], rx[controllers[i]].n>>]
    <3>1. /\ rx[controllers[i]].pc = "idle" /\ rx[controllers[i]].kept = rx[controllers[i]].n
          /\ rx[controllers[i]].n > 0 /\ i \in DOMAIN controllers
      BY <1>1, <1>2, <2>1
    <3>2. QED
      BY <2>1, <3>1 DEF HealInv, SettledSlot
  <2>5. \A q \in Part : Cache'[i][q] = <<controllers[i], rx[controllers[i]].n>>
    BY <2>3, <2>4
  <2>6. Cache'[i] = [p \in Part |-> <<controllers[i], rx[controllers[i]].n>>]
    BY <2>3, <2>5, Whole
  <2>7. controllers'[i] = controllers[i] /\ rx'[controllers[i]].n = rx[controllers[i]].n
    BY <1>1, <1>2, <2>1
  <2>8. QED
    BY <2>6, <2>7
<1>9. QED
  BY <1>4, <1>5, <1>6, <1>7, <1>8 DEF HealInv

\* The second part is stored: both parts are now of this report, and it is
\* kept if the cache is the storage it went to.
LEMMA HealSecond ==
    ASSUME IInv, HealInv, NEW d \in Device, CallbackSecond(d) PROVE HealInv'
<1>1. /\ rx[d].pc = "second" /\ heap' = Stored(d, 2) /\ 2 \in Part
      /\ UNCHANGED <<cpc, next, controllers, start, rd>>
  BY DEF CallbackSecond, Part
<1>2. /\ KeptAfter(d) \in Nat /\ rx[d].kept < rx[d].n
      /\ \/ KeptAfter(d) = rx[d].kept
         \/ KeptAfter(d) = rx[d].n /\ cpc = "running" /\ rx[d].base = start
  <2>1. rx[d].n \in Nat /\ rx[d].kept \in Nat
    BY Counters
  <2>2. rx[d].kept < rx[d].n
    BY <1>1 DEF HealInv, KeptCounted
  <2>3. CASE cpc = "running" /\ rx[d].base = start
    BY <2>1, <2>2, <2>3 DEF KeptAfter
  <2>4. CASE ~(cpc = "running" /\ rx[d].base = start)
    <3>1. KeptAfter(d) = rx[d].kept
      BY <2>4 DEF KeptAfter
    <3>2. QED
      BY <2>1, <2>2, <3>1
  <2>5. QED
    BY <2>3, <2>4
<1>3. \A e \in Device :
         /\ rx'[e].n = rx[e].n /\ rx'[e].slot = rx[e].slot /\ rx'[e].base = rx[e].base
         /\ rx'[e].pc = IF e = d THEN "idle" ELSE rx[e].pc
         /\ rx'[e].kept = IF e = d THEN KeptAfter(d) ELSE rx[e].kept
  <2>1. \A e \in Device : rx'[e] = IF e = d
                                    THEN [rx[d] EXCEPT !.pc = "idle", !.kept = KeptAfter(d)]
                                    ELSE rx[e]
    BY Shape DEF CallbackSecond
  <2>2. /\ [rx[d] EXCEPT !.pc = "idle", !.kept = KeptAfter(d)].n = rx[d].n
        /\ [rx[d] EXCEPT !.pc = "idle", !.kept = KeptAfter(d)].slot = rx[d].slot
        /\ [rx[d] EXCEPT !.pc = "idle", !.kept = KeptAfter(d)].base = rx[d].base
        /\ [rx[d] EXCEPT !.pc = "idle", !.kept = KeptAfter(d)].pc = "idle"
        /\ [rx[d] EXCEPT !.pc = "idle", !.kept = KeptAfter(d)].kept = KeptAfter(d)
    <3>1. rx[d] \in Receiver
      BY Counters
    <3>2. QED
      BY <3>1 DEF Receiver
  <2>3. QED
    BY <2>1, <2>2
<1>4. \A i \in DOMAIN controllers : controllers[i] \in Device
  BY Devices
<1>5. KeptCounted'
  <2>1. \A e \in Device : rx[e].n \in Nat /\ rx[e].kept \in Nat
    BY Counters
  <2>2. QED
    BY <1>1, <1>2, <1>3, <2>1 DEF HealInv, KeptCounted
<1>6. OneSlotEach'
  <2>1. cpc = "pushController" => next \in Device
    BY Shape, ManagerAssumption DEF IInv, SizesAgree, Device
  <2>2. QED
    BY <1>1, <1>3, <1>4, <2>1 DEF HealInv, OneSlotEach, Pushing
<1>7. HalfWritten'
  <2> SUFFICES ASSUME NEW e \in Device, rx'[e].pc = "second"
               PROVE  heap'[rx[e].base][rx[e].slot][1] = <<e, rx[e].n>>
    BY <1>3 DEF HalfWritten
  <2>1. rx[e].pc = "second" /\ heap[rx[e].base][rx[e].slot][1] = <<e, rx[e].n>>
    BY <1>3 DEF HealInv, HalfWritten
  <2>2. QED
    BY <1>1, <2>1, Written
<1>slot. rx[d].slot \in DOMAIN controllers /\ controllers[rx[d].slot] = d
  BY <1>1, Written
<1>8. ASSUME cpc = "running", NEW i \in DOMAIN controllers
      PROVE  /\ Cache'[i] \in Status
             /\ \A q \in Part :
                   Cache'[i][q] = IF rx[d].base = start /\ i = rx[d].slot /\ q = 2
                                  THEN <<d, rx[d].n>> ELSE Cache[i][q]
  BY <1>1, <1>8, WrittenCache
\* The slot of the callback holds its report in both parts.
<1>9. ASSUME cpc = "running", rx[d].base = start, NEW q \in Part
      PROVE  Cache'[rx[d].slot][q] = <<d, rx[d].n>>
  <2>1. rx[d].slot \in DOMAIN controllers /\ controllers[rx[d].slot] = d
    BY <1>slot
  <2>2. CASE q = 2
    BY <1>8, <1>9, <2>1, <2>2
  <2>3. CASE q = 1
    <3>1. heap[rx[d].base][rx[d].slot][1] = <<d, rx[d].n>>
      BY <1>1 DEF HealInv, HalfWritten
    <3>2. Cache = heap[start]
      BY <1>9, <2>1, SettledShape DEF Pushing
    <3>3. QED
      BY <1>8, <1>9, <2>1, <2>3, <3>1, <3>2
  <2>4. QED
    BY <2>2, <2>3 DEF Part
\* Only the controller of slot rx[d].slot is d.
<1>10. \A i \in DOMAIN controllers : controllers[i] = d => i = rx[d].slot
  BY DEF HealInv, OneSlotEach
<1>11. KeptStays'
  <2> SUFFICES ASSUME cpc = "running", NEW i \in DOMAIN controllers, NEW q \in Part
               PROVE  Cache'[i][q][2] >= rx'[controllers[i]].kept
    BY <1>1 DEF KeptStays
  <2>1. Cache[i][q][2] >= rx[controllers[i]].kept
    BY DEF HealInv, KeptStays
  <2>2. CASE controllers[i] # d
    <3>1. i # rx[d].slot
      BY <1>slot, <2>2
    <3>2. Cache'[i][q] = Cache[i][q]
      BY <1>8, <3>1
    <3>3. QED
      BY <1>3, <1>4, <2>1, <2>2, <3>2
  <2>3. CASE controllers[i] = d /\ rx[d].base = start
    <3>1. Cache'[i][q] = <<d, rx[d].n>>
      BY <1>9, <1>10, <2>3
    <3>2. rx'[d].kept <= rx[d].n
      BY <1>2, <1>3, Counters
    <3>3. QED
      BY <1>2, <2>3, <3>1, <3>2, Counters
  <2>4. CASE controllers[i] = d /\ rx[d].base # start
    <3>1. Cache'[i][q] = Cache[i][q] /\ rx'[d].kept = rx[d].kept
      BY <1>2, <1>3, <1>8, <2>4
    <3>2. QED
      BY <2>1, <2>4, <3>1
  <2>5. QED
    BY <2>2, <2>3, <2>4
<1>12. SettledSlot'
  <2> SUFFICES ASSUME cpc' = "running", NEW i \in DOMAIN controllers',
                      rx'[controllers'[i]].pc = "idle",
                      rx'[controllers'[i]].kept = rx'[controllers'[i]].n,
                      rx'[controllers'[i]].n > 0
               PROVE  Cache'[i] = [p \in Part |-> <<controllers'[i], rx'[controllers'[i]].n>>]
    BY DEF SettledSlot
  <2>1. /\ controllers[i] \in Device /\ cpc = "running" /\ i \in DOMAIN controllers
        /\ controllers'[i] = controllers[i]
        /\ rx'[controllers[i]].n = rx[controllers[i]].n /\ Cache'[i] \in Status
    BY <1>1, <1>3, <1>4, <1>8
  <2>2. \A q \in Part : Cache'[i][q] = <<controllers[i], rx[controllers[i]].n>>
    <3>1. CASE controllers[i] # d
      <4>1. i # rx[d].slot
        BY <1>slot, <3>1
      <4>2. \A q \in Part : Cache'[i][q] = Cache[i][q]
        BY <1>8, <2>1, <4>1
      <4>3. Cache[i] = [p \in Part |-> <<controllers[i], rx[controllers[i]].n>>]
        <5>1. /\ rx[controllers[i]].pc = "idle" /\ rx[controllers[i]].kept = rx[controllers[i]].n
              /\ rx[controllers[i]].n > 0
          BY <1>3, <2>1, <3>1
        <5>2. QED
          BY <2>1, <5>1 DEF HealInv, SettledSlot
      <4>4. QED
        BY <4>2, <4>3
    <3>2. CASE controllers[i] = d
      <4>1. KeptAfter(d) = rx[d].n /\ rx[d].kept \in Nat /\ rx[d].n \in Nat
        BY <1>3, <2>1, <3>2, Counters
      <4>2. rx[d].base = start
        BY <1>2, <4>1
      <4>3. QED
        BY <1>9, <1>10, <2>1, <3>2, <4>2
    <3>3. QED
      BY <3>1, <3>2
  <2>3. Cache'[i] = [p \in Part |-> <<controllers[i], rx[controllers[i]].n>>]
    BY <2>1, <2>2, Whole
  <2>4. QED
    BY <2>1, <2>3
<1>13. QED
  BY <1>5, <1>6, <1>7, <1>11, <1>12 DEF HealInv

-----------------------------------------------------------------------------
(***************************************************************************)
(* HealInv is inductive.                                                   *)
(***************************************************************************)

\* A read changes nothing that is cached.
LEMMA HealReading ==
    ASSUME IInv, HealInv, Read \/ \E i \in Device : ReadBegin(i)
    PROVE  HealInv'
<1>1. UNCHANGED <<cpc, next, controllers, heap, start, rx>>
  BY DEF Read, ReadFirst, ReadSecond, ReadBegin
<1>2. Cache' = Cache
  BY <1>1 DEF Cache
<1>3. KeptCounted'
  BY <1>1 DEF HealInv, KeptCounted
<1>4. OneSlotEach'
  BY <1>1 DEF HealInv, OneSlotEach, Pushing
<1>5. HalfWritten'
  BY <1>1 DEF HealInv, HalfWritten
<1>6. KeptStays'
  BY <1>1, <1>2 DEF HealInv, KeptStays
<1>7. SettledSlot'
  BY <1>1, <1>2 DEF HealInv, SettledSlot
<1>8. QED
  BY <1>3, <1>4, <1>5, <1>6, <1>7 DEF HealInv

\* HealInv holds initially, ...
LEMMA HealInitially == Init => HealInv
<1> SUFFICES ASSUME Init PROVE HealInv
  OBVIOUS
<1>1. DOMAIN controllers = {}
  BY EmptySeq DEF Init
<1>2. \A d \in Device : rx[d].pc = "off" /\ rx[d].kept = 0 /\ rx[d].n = 0
  BY DEF Init
<1>3. KeptCounted /\ OneSlotEach /\ HalfWritten
  BY <1>1, <1>2 DEF Init, KeptCounted, OneSlotEach, HalfWritten
<1>4. KeptStays /\ SettledSlot
  BY DEF Init, KeptStays, SettledSlot
<1>5. QED
  BY <1>3, <1>4 DEF HealInv

\* ... and every step preserves it.
LEMMA HealInductive == IInv /\ HealInv /\ [Next]_vars => HealInv'
<1> SUFFICES ASSUME IInv, HealInv, [Next]_vars PROVE HealInv'
  OBVIOUS
<1>1. CASE \/ Connect \/ ConnectFails \/ GrowFree
           \/ Destroy \/ DestroyCache \/ Destroyed \/ UNCHANGED vars
  BY <1>1, HealControl
<1>2. CASE Initialized
  BY <1>2, HealInitialized
<1>3. CASE SetCallback \/ PushController \/ PushInPlace \/ Grow \/ GrowPublish
  BY <1>3, HealConnecting
<1>4. CASE DestroyController \/ \E d \in Device : CallbackTest(d) \/ CallbackLoad(d)
  BY <1>4, HealNotStored
<1>5. CASE \E d \in Device : CallbackFirst(d) \/ CallbackSecond(d)
  BY <1>5, HealFirst, HealSecond
<1>6. CASE Read \/ \E i \in Device : ReadBegin(i)
  BY <1>6, HealReading
<1>7. QED
  BY <1>1, <1>2, <1>3, <1>4, <1>5, <1>6
     DEF Next, Initialize, PushStatus, Teardown, Callback

\* HealInv holds in every reachable state.
THEOREM Healing == Spec => []HealInv
BY HealInitially, HealInductive, Invariance, PTL DEF Spec

-----------------------------------------------------------------------------
(***************************************************************************)
(* The cache never goes back.                                              *)
(***************************************************************************)

\* Indices of storages are slots.
LEMMA SlotsOfHeap ==
    ASSUME IInv, NEW g \in DOMAIN heap, NEW i \in DOMAIN heap[g]
    PROVE  /\ g \in 1 .. Len(heap) /\ i \in 1 .. Len(heap[g])
           /\ i \in DOMAIN controllers /\ i \in 1 .. Len(controllers)
           /\ controllers[i] \in Device
           /\ \A p \in Part : heap[g][i][p][2] \in Nat
<1>1. g \in 1 .. Len(heap) /\ i \in 1 .. Len(heap[g]) /\ heap[g] \in Seq(Status)
  BY Shape
<1>2. i \in DOMAIN controllers /\ i \in 1 .. Len(controllers)
  BY Shape DEF IInv, OwnSlot
<1>3. heap[g][i] \in Status
  BY <1>1, ElementOfSeq
<1>4. QED
  BY <1>1, <1>2, <1>3, Devices DEF Status, Report

\* NotAhead holds initially, and every step preserves it.
LEMMA AheadInitially == Init => NotAhead
BY EmptySeq DEF Init, NotAhead

\* Steps that leave the storages alone: reports only count up.
LEMMA AheadUnchanged ==
    ASSUME IInv, NotAhead, heap' = heap,
           \A i \in 1 .. Len(controllers) : controllers'[i] = controllers[i],
           \A d \in Device : rx[d].n <= rx'[d].n /\ rx'[d].n \in Nat
    PROVE  NotAhead'
<1> SUFFICES ASSUME NEW g \in DOMAIN heap, NEW i \in DOMAIN heap[g], NEW p \in Part
             PROVE  heap[g][i][p][2] <= rx'[controllers'[i]].n
  BY DEF NotAhead
<1>1. controllers[i] \in Device /\ i \in 1 .. Len(controllers) /\ heap[g][i][p][2] \in Nat
  BY SlotsOfHeap
<1>2. heap[g][i][p][2] <= rx[controllers[i]].n
  BY DEF NotAhead
<1>3. controllers'[i] = controllers[i]
  BY <1>1
<1>4. QED
  BY <1>1, <1>2, <1>3, Counters

\* push_back copies statuses and adds one that was never reported.
LEMMA AheadPushed ==
    ASSUME IInv, NotAhead, PushInPlace \/ Grow
    PROVE  NotAhead'
<1>1. UNCHANGED <<controllers, rx>> /\ Pushing
  BY DEF PushInPlace, Grow, Pushing
<1> DEFINE new == Append(Cache, NoStatus)
<1>2. /\ new \in Seq(Status) /\ DOMAIN new = 1 .. CacheSize + 1 /\ CacheSize \in Nat
      /\ Len(controllers) = CacheSize + 1
      /\ \A i \in 1 .. CacheSize : new[i] = Cache[i]
      /\ new[CacheSize + 1] = NoStatus
  <2>1. Cache \in Seq(Status) /\ CacheSize \in Nat /\ CacheSize = Len(Cache)
    BY CacheType DEF IInv, CacheSize
  <2>2. QED
    BY <1>1, <2>1, Pushed, AppendProperties, NoStatusType
<1>3. ASSUME NEW i \in DOMAIN new, NEW p \in Part
      PROVE  new[i][p][2] <= rx[controllers[i]].n
  <2>1. CASE i \in 1 .. CacheSize
    <3>1. start # 0
      BY <2>1, EmptySeq DEF CacheSize, Cache
    <3>2. start \in DOMAIN heap /\ Cache = heap[start] /\ i \in DOMAIN heap[start]
      BY <2>1, <3>1, Shape, CacheType DEF Cache, IInv
    <3>3. QED
      BY <1>2, <2>1, <3>2 DEF NotAhead
  <2>2. CASE i = CacheSize + 1
    <3>1. new[i][p][2] = 0
      BY <1>2, <2>2 DEF NoStatus, Default
    <3>2. i \in DOMAIN controllers
      BY <1>2, <2>2, Shape
    <3>3. QED
      BY <3>1, <3>2, Devices, Counters
  <2>3. QED
    BY <1>2, <2>1, <2>2
<1>4. \A g \in DOMAIN heap' : \/ heap'[g] = new
                             \/ /\ g \in DOMAIN heap
                                /\ heap'[g] = heap[g]
  <2>1. CASE PushInPlace
    <3>1. start \in 1 .. Len(heap) /\ Cache = heap[start]
      <4>1. start # 0
        BY <2>1, CacheType DEF PushInPlace, IInv, SizesAgree
      <4>2. QED
        BY <4>1, Shape DEF Cache
    <3>2. heap' = [heap EXCEPT ![start] = new]
      BY <2>1, <3>1 DEF PushInPlace
    <3> HIDE DEF new
    <3>3. DOMAIN heap' = DOMAIN heap /\ heap'[start] = new
          /\ \A g \in DOMAIN heap : g # start => heap'[g] = heap[g]
      BY <3>1, <3>2, Shape
    <3>4. QED
      BY <3>3
  <2>2. CASE Grow
    <3> DEFINE S == Seq(Status)
    <3>1. heap \in Seq(S) /\ new \in S /\ heap' = Append(heap, new)
      BY <1>2, <2>2, Shape DEF Grow
    <3> HIDE DEF new, S
    <3>2. /\ DOMAIN heap' = 1 .. Len(heap) + 1 /\ heap'[Len(heap) + 1] = new
          /\ \A g \in 1 .. Len(heap) : heap'[g] = heap[g]
      BY <3>1, AppendProperties, LenProperties
    <3>3. Len(heap) \in Nat /\ DOMAIN heap = 1 .. Len(heap)
      BY <3>1, LenProperties
    <3>4. \A g \in DOMAIN heap' : g \in DOMAIN heap \/ g = Len(heap) + 1
      BY <3>2, <3>3
    <3>5. QED
      BY <3>2, <3>3, <3>4
  <2>3. QED
    BY <2>1, <2>2
<1> HIDE DEF new
<1>5. QED
  BY <1>1, <1>3, <1>4 DEF NotAhead

LEMMA AheadInductive == IInv /\ NotAhead /\ [Next]_vars => NotAhead'
<1> SUFFICES ASSUME IInv, NotAhead, [Next]_vars PROVE NotAhead'
  OBVIOUS
<1>1. CASE PushInPlace \/ Grow
  BY <1>1, AheadPushed
<1>2. CASE \E d \in Device : CallbackFirst(d) \/ CallbackSecond(d)
  <2>1. PICK d \in Device, p \in Part :
           /\ rx[d].pc \in {"first", "second"} /\ heap' = Stored(d, p)
           /\ controllers' = controllers
    BY <1>2 DEF CallbackFirst, CallbackSecond, Part
  <2>2. \A e \in Device : rx'[e].n = rx[e].n
    <3>1. ASSUME NEW c \in Device, NEW e \in Device, CallbackFirst(c) \/ CallbackSecond(c)
          PROVE  rx'[e].n = rx[e].n
      <4>1. rx[c] \in Receiver /\ rx \in [Device -> Receiver]
        BY Shape
      <4>2. CASE CallbackFirst(c)
        <5>1. rx'[e] = IF e = c THEN [rx[c] EXCEPT !.pc = "second"] ELSE rx[e]
          BY <4>1, <4>2 DEF CallbackFirst
        <5>2. QED
          BY <4>1, <5>1 DEF Receiver
      <4>3. CASE CallbackSecond(c)
        <5>1. rx'[e] = IF e = c
                       THEN [rx[c] EXCEPT !.pc = "idle", !.kept = KeptAfter(c)]
                       ELSE rx[e]
          BY <4>1, <4>3 DEF CallbackSecond
        <5>2. QED
          BY <4>1, <5>1 DEF Receiver
      <4>4. QED
        BY <3>1, <4>2, <4>3
    <3>2. QED
      BY <1>2, <3>1
  <2>3. /\ DOMAIN heap' = DOMAIN heap
        /\ \A g \in DOMAIN heap : DOMAIN heap'[g] = DOMAIN heap[g]
        /\ \A g \in 1 .. Len(heap) : \A i \in 1 .. Len(heap[g]) : \A q \in Part :
              heap'[g][i][q] = IF g = rx[d].base /\ i = rx[d].slot /\ q = p
                               THEN <<d, rx[d].n>> ELSE heap[g][i][q]
        /\ controllers[rx[d].slot] = d
    <3>1. /\ heap' \in Seq(Seq(Status)) /\ Len(heap') = Len(heap)
          /\ \A g \in 1 .. Len(heap) : Len(heap'[g]) = Len(heap[g])
          /\ \A g \in 1 .. Len(heap) : \A i \in 1 .. Len(heap[g]) : \A q \in Part :
                heap'[g][i][q] = IF g = rx[d].base /\ i = rx[d].slot /\ q = p
                                 THEN <<d, rx[d].n>> ELSE heap[g][i][q]
          /\ controllers[rx[d].slot] = d
      <4>1. heap' = Stored(d, p) /\ rx[d].pc \in {"first", "second"}
        BY <2>1
      <4>2. /\ Stored(d, p) \in Seq(Seq(Status))
            /\ Len(Stored(d, p)) = Len(heap)
            /\ \A g \in 1 .. Len(heap) :
                  /\ Len(Stored(d, p)[g]) = Len(heap[g])
                  /\ \A i \in 1 .. Len(heap[g]) : \A q \in Part :
                        Stored(d, p)[g][i][q][1] \in {0, controllers[i]}
            /\ \A g \in 1 .. Len(heap) : \A i \in 1 .. Len(heap[g]) : \A q \in Part :
                  Stored(d, p)[g][i][q] =
                     IF g = rx[d].base /\ i = rx[d].slot /\ q = p
                     THEN <<d, rx[d].n>> ELSE heap[g][i][q]
            /\ controllers[rx[d].slot] = d
        BY <4>1, StoredOK, ZenonT(40)
      <4>3. QED
        BY <4>1, <4>2, ZenonT(40)
    <3>2. DOMAIN heap' = 1 .. Len(heap) /\ \A g \in 1 .. Len(heap) :
             heap'[g] \in Seq(Status) /\ DOMAIN heap'[g] = 1 .. Len(heap[g])
      BY <3>1, ElementOfSeq, LenProperties
    <3>3. QED
      BY <3>1, <3>2, Shape
  <2>4. ASSUME NEW g \in DOMAIN heap, NEW i \in DOMAIN heap[g], NEW q \in Part
        PROVE  heap'[g][i][q][2] <= rx'[controllers[i]].n
    <3>1. controllers[i] \in Device /\ heap[g][i][q][2] <= rx[controllers[i]].n
      BY SlotsOfHeap DEF NotAhead
    <3>2. heap'[g][i][q] = IF g = rx[d].base /\ i = rx[d].slot /\ q = p
                           THEN <<d, rx[d].n>> ELSE heap[g][i][q]
      BY <2>3, SlotsOfHeap
    <3>3. rx[d].n <= rx[d].n
      BY Counters
    <3>4. QED
      BY <2>2, <2>3, <3>1, <3>2, <3>3
  <2>5. QED
    BY <2>1, <2>3, <2>4 DEF NotAhead
<1>3. CASE ~((PushInPlace \/ Grow) \/ \E d \in Device : CallbackFirst(d) \/ CallbackSecond(d))
  <2>1. heap' = heap
    BY <1>3 DEF Next, Initialize, PushStatus, Connect, ConnectFails, SetCallback,
       PushController, GrowFree, GrowPublish, Initialized, Destroy, Teardown, DestroyCache,
       DestroyController, Destroyed, CallbackTest, Callback, CallbackLoad, ReadBegin, Read,
       ReadFirst, ReadSecond, vars
  <2>2. \A i \in 1 .. Len(controllers) : controllers'[i] = controllers[i]
    <3>1. CASE PushController
      BY <3>1, Shape, AppendProperties, ManagerAssumption
         DEF PushController, IInv, SizesAgree, Device
    <3>2. CASE ~PushController
      BY <1>3, <3>2 DEF Next, Initialize, PushStatus, Connect, ConnectFails, SetCallback,
         GrowFree, GrowPublish, Initialized, Destroy, Teardown, DestroyCache,
         DestroyController, Destroyed, CallbackTest, Callback, CallbackLoad, ReadBegin, Read,
         ReadFirst, ReadSecond, vars
    <3>3. QED
      BY <3>1, <3>2
  <2>3. \A d \in Device : rx[d].n <= rx'[d].n /\ rx'[d].n \in Nat
    <3>1. CASE UNCHANGED rx
      BY <3>1, Counters
    <3>2. CASE SetCallback
      BY <3>2, Counters, Shape DEF SetCallback, Receiver
    <3>3. CASE DestroyController
      <4>1. rx \in [Device -> Receiver]
        BY Shape
      <4> SUFFICES ASSUME NEW e \in Device PROVE rx'[e].n = rx[e].n
        BY Counters
      <4>2. rx[e] \in Receiver /\ (\/ rx'[e] = rx[e] \/ rx'[e] = [rx[e] EXCEPT !.pc = "stopped"])
        BY <3>3, <4>1 DEF DestroyController
      <4>3. QED
        BY <4>2 DEF Receiver
    <3>4. ASSUME NEW c \in Device, NEW e \in Device, CallbackTest(c) \/ CallbackLoad(c)
          PROVE  rx[e].n <= rx'[e].n /\ rx'[e].n \in Nat
      <4>1. rx \in [Device -> Receiver] /\ rx[c] \in Receiver /\ rx[e] \in Receiver
            /\ rx[e].n \in Nat /\ rx[c].n \in Nat
        BY Shape, Counters
      <4>2. CASE CallbackTest(c)
        <5>1. rx'[e] = IF e = c
                       THEN [rx[c] EXCEPT
                               !.n  = rx[c].n + 1,
                               !.pc = IF rx[c].slot <= CacheSize THEN "checked" ELSE "idle"]
                       ELSE rx[e]
          BY <4>1, <4>2 DEF CallbackTest
        <5>2. rx'[e].n = IF e = c THEN rx[c].n + 1 ELSE rx[e].n
          BY <4>1, <5>1 DEF Receiver
        <5>3. QED
          BY <4>1, <5>2
      <4>3. CASE CallbackLoad(c)
        <5>1. rx'[e] = IF e = c THEN [rx[c] EXCEPT !.pc = "first", !.base = start] ELSE rx[e]
          BY <4>1, <4>3 DEF CallbackLoad
        <5>2. rx'[e].n = rx[e].n
          BY <4>1, <5>1 DEF Receiver
        <5>3. QED
          BY <4>1, <5>2
      <4>4. QED
        BY <3>4, <4>2, <4>3
    <3>5. QED
      BY <1>3, <3>1, <3>2, <3>3, <3>4 DEF Next, Initialize, PushStatus, Connect, ConnectFails,
         PushController, GrowFree, GrowPublish, Initialized, Destroy, Teardown, DestroyCache,
         Destroyed, Callback, ReadBegin, Read, ReadFirst, ReadSecond, vars
  <2>4. QED
    BY <2>1, <2>2, <2>3, AheadUnchanged
<1>4. QED
  BY <1>1, <1>2, <1>3

\* initialize() returns once, and the manager is then only destroyed.
LEMMA BuiltOnce ==
    ASSUME [Next]_vars,
           cpc \notin {"connect", "setCallback", "pushController", "pushStatus",
                      "growFree", "growPublish"}
    PROVE  /\ controllers' = controllers
           /\ cpc' \notin {"connect", "setCallback", "pushController", "pushStatus",
                           "growFree", "growPublish"}
           /\ cpc' = "running" => cpc = "running"
BY DEF Next, Initialize, PushStatus, Connect, ConnectFails, SetCallback, PushController,
   PushInPlace, Grow, GrowFree, GrowPublish, Initialized, Destroy, Teardown, DestroyCache,
   DestroyController, Destroyed, CallbackTest, Callback, CallbackLoad, CallbackFirst,
   CallbackSecond, ReadBegin, Read, ReadFirst, ReadSecond, vars

\* Once initialize() has returned, no controller is added and no status.
LEMMA Complete ==
    ASSUME IInv, [Next]_vars, IInv', cpc = "running"
    PROVE  /\ controllers' = controllers
           /\ Len(controllers) = CacheSize /\ CacheSize' = CacheSize
           /\ cpc' \in {"running", "destroyCache"}
<1>1. controllers' = controllers /\ cpc' \in {"running", "destroyCache"}
  BY DEF Next, Initialize, PushStatus, Connect, ConnectFails, SetCallback, PushController,
     PushInPlace, Grow, GrowFree, GrowPublish, Initialized, Destroy, Teardown, DestroyCache,
     DestroyController, Destroyed, CallbackTest, Callback, CallbackLoad, CallbackFirst,
     CallbackSecond, ReadBegin, Read, ReadFirst, ReadSecond, vars
<1>2. Len(controllers) = CacheSize /\ Len(controllers') = CacheSize'
  BY <1>1 DEF IInv, SizesAgree, Pushing
<1>3. QED
  BY <1>1, <1>2

\* While the listen thread runs, no part of a cached status is replaced by an
\* older one.
LEMMA CacheForward ==
    ASSUME IInv, NotAhead, [Next]_vars, cpc = "running",
           NEW i \in DOMAIN controllers, NEW q \in Part
    PROVE  /\ controllers' = controllers
           /\ Cache[i][q][2] \in Nat /\ Cache'[i][q][2] \in Nat
           /\ Cache[i][q][2] <= Cache'[i][q][2]
<1>1. /\ i \in DOMAIN Cache /\ Cache[i][q][2] \in Nat /\ controllers[i] \in Device
      /\ start \in DOMAIN heap /\ Cache = heap[start]
  BY SettledShape DEF Pushing
<1>2. CASE \E d \in Device : CallbackFirst(d) \/ CallbackSecond(d)
  <2>1. PICK d \in Device, p \in Part :
           /\ rx[d].pc \in {"first", "second"} /\ heap' = Stored(d, p)
           /\ UNCHANGED <<cpc, controllers, start>>
    BY <1>2 DEF CallbackFirst, CallbackSecond, Part
  <2>2. /\ controllers[rx[d].slot] = d
        /\ Cache'[i][q] = IF rx[d].base = start /\ i = rx[d].slot /\ q = p
                          THEN <<d, rx[d].n>> ELSE Cache[i][q]
    <3>1. controllers[rx[d].slot] = d
      BY <2>1, Written, ZenonT(40)
    <3>2. /\ Cache'[i] \in Status
          /\ \A r \in Part :
                Cache'[i][r] = IF rx[d].base = start /\ i = rx[d].slot /\ r = p
                               THEN <<d, rx[d].n>> ELSE Cache[i][r]
      BY <2>1, WrittenCache
    <3>3. QED
      BY <3>1, <3>2
  <2>3. Cache[i][q][2] <= rx[controllers[i]].n /\ rx[d].n \in Nat
    BY <1>1, Counters DEF NotAhead
  <2>4. QED
    BY <1>1, <2>1, <2>2, <2>3
<1>3. CASE ~\E d \in Device : CallbackFirst(d) \/ CallbackSecond(d)
  <2>1. UNCHANGED <<controllers, heap, start>>
    BY <1>3 DEF Next, Initialize, PushStatus, Connect, ConnectFails, SetCallback,
       PushController, PushInPlace, Grow, GrowFree, GrowPublish, Initialized, Destroy, Teardown,
       DestroyCache, DestroyController, Destroyed, CallbackTest, Callback, CallbackLoad,
       ReadBegin, Read, ReadFirst, ReadSecond, vars
  <2>2. Cache' = Cache
    BY <2>1 DEF Cache
  <2>3. QED
    BY <1>1, <2>1, <2>2
<1>4. QED
  BY <1>2, <1>3

-----------------------------------------------------------------------------
(***************************************************************************)
(* The reads.                                                              *)
(***************************************************************************)

\* What a read copies is in the cache of the slot it was asked for, ...
LEMMA Reading ==
    ASSUME IInv, Copied, rd.pc \in {"first", "second"}
    PROVE  /\ cpc = "running" /\ rd.slot \in DOMAIN controllers /\ rd \in Reader
           /\ Cache[rd.slot] \in Status
           /\ \A p \in Part : rd.floor[p][2] \in Nat /\ Cache[rd.slot][p][2] \in Nat
           /\ rd.status[1][2] \in Nat
<1>1. cpc = "running" /\ rd.slot \in DOMAIN controllers /\ rd \in Reader
  BY Shape DEF Copied, IInv, InRange
<1>2. Cache[rd.slot] \in Status /\ \A p \in Part : Cache[rd.slot][p][2] \in Nat
  BY <1>1, SettledShape DEF Pushing
<1>3. rd.floor \in Status /\ rd.status \in Status
  BY <1>1 DEF Reader
<1>4. (\A p \in Part : rd.floor[p][2] \in Nat) /\ rd.status[1][2] \in Nat
  BY <1>3 DEF Status, Report, Part
<1>5. QED
  BY <1>1, <1>2, <1>4

\* ... and nothing but a step of the read itself changes a read.
LEMMA CopiedStays ==
    ASSUME IInv, NotAhead, Copied, FreshRead, [Next]_vars, rd' = rd
    PROVE  Copied' /\ FreshRead'
<1>1. FreshRead'
  BY DEF FreshRead
<1>2. CASE rd.pc \in {"first", "second"}
  <2>1. cpc = "running" /\ rd.slot \in DOMAIN controllers
        /\ \A p \in Part : rd.floor[p][2] \in Nat
    BY <1>2, Reading
  <2>2. cpc' = "running"
    BY <1>2, <2>1 DEF Next, Initialize, PushStatus, Connect, ConnectFails, SetCallback,
       PushController, PushInPlace, Grow, GrowFree, GrowPublish, Initialized, Destroy, Teardown,
       DestroyCache, DestroyController, Destroyed, CallbackTest, Callback, CallbackLoad,
       CallbackFirst, CallbackSecond, ReadBegin, Read, ReadFirst, ReadSecond, vars
  <2>3. \A p \in Part : rd.floor[p][2] <= Cache'[rd.slot][p][2]
    <3> SUFFICES ASSUME NEW p \in Part PROVE rd.floor[p][2] <= Cache'[rd.slot][p][2]
      OBVIOUS
    <3>1. /\ Cache[rd.slot][p][2] \in Nat /\ Cache'[rd.slot][p][2] \in Nat
          /\ Cache[rd.slot][p][2] <= Cache'[rd.slot][p][2]
      BY <2>1, CacheForward
    <3>2. rd.floor[p][2] <= Cache[rd.slot][p][2] /\ rd.floor[p][2] \in Nat
      BY <1>2, <2>1 DEF Copied
    <3>3. QED
      BY <3>1, <3>2
  <2>4. QED
    BY <1>1, <1>2, <2>2, <2>3 DEF Copied
<1>3. CASE rd.pc \notin {"first", "second"}
  BY <1>1, <1>3 DEF Copied
<1>4. QED
  BY <1>2, <1>3

\* Each part is copied from a cache that is no older than when the read began.
LEMMA CopiedNext ==
    ASSUME IInv, Copied, FreshRead, Read \/ \E i \in Device : ReadBegin(i)
    PROVE  Copied' /\ FreshRead'
<1>1. UNCHANGED <<cpc, controllers, heap, start>>
  BY DEF Read, ReadFirst, ReadSecond, ReadBegin
<1>2. Cache' = Cache
  BY <1>1 DEF Cache
<1>3. CASE \E i \in Device : ReadBegin(i)
  <2>1. PICK i \in Device : ReadBegin(i)
    BY <1>3
  <2>2. i \in DOMAIN controllers /\ cpc = "running"
    BY <2>1, Shape DEF ReadBegin, Device
  <2>3. \A p \in Part : Cache[i][p][2] \in Nat
    BY <2>2, SettledShape DEF Pushing
  <2>4. rd'.pc = "first" /\ rd'.slot = i /\ rd'.floor = Cache[i]
    BY <2>1 DEF ReadBegin
  <2>5. QED
    BY <1>1, <1>2, <2>2, <2>3, <2>4 DEF Copied, FreshRead
<1>4. CASE ReadFirst
  <2>1. /\ rd.pc = "first" /\ 1 \in Part
        /\ rd' = [rd EXCEPT !.status[1] = Cache[rd.slot][1], !.pc = "second"]
    BY <1>4 DEF ReadFirst, Part
  <2>2. rd'.pc = "second" /\ rd'.slot = rd.slot /\ rd'.floor = rd.floor
        /\ rd'.status[1] = Cache[rd.slot][1]
    BY <2>1, Reading DEF Reader, Status
  <2>3. QED
    BY <1>1, <1>2, <2>1, <2>2 DEF Copied, FreshRead
<1>5. CASE ReadSecond
  <2>1. /\ rd.pc = "second" /\ 2 \in Part /\ 1 \in Part
        /\ rd' = [rd EXCEPT !.status[2] = Cache[rd.slot][2], !.pc = "done"]
    BY <1>5 DEF ReadSecond, Part
  <2>2. rd'.pc = "done" /\ rd'.floor = rd.floor
        /\ rd'.status[1] = rd.status[1] /\ rd'.status[2] = Cache[rd.slot][2]
    BY <2>1, Reading DEF Reader, Status
  <2>3. rd.status[1][2] >= rd.floor[1][2] /\ Cache[rd.slot][2][2] >= rd.floor[2][2]
    BY <2>1, Reading DEF Copied
  <2>4. QED
    BY <2>2, <2>3 DEF FreshRead, Copied, Part
<1>6. QED
  BY <1>3, <1>4, <1>5 DEF Read

LEMMA FreshInductive ==
    IInv /\ NotAhead /\ Copied /\ FreshRead /\ [Next]_vars => Copied' /\ FreshRead'
<1> SUFFICES ASSUME IInv, NotAhead, Copied, FreshRead, [Next]_vars
             PROVE  Copied' /\ FreshRead'
  OBVIOUS
<1>1. CASE Read \/ \E i \in Device : ReadBegin(i)
  BY <1>1, CopiedNext
<1>2. CASE ~(Read \/ \E i \in Device : ReadBegin(i))
  <2>1. rd' = rd
    BY <1>2 DEF Next, Initialize, PushStatus, Connect, ConnectFails, SetCallback,
       PushController, PushInPlace, Grow, GrowFree, GrowPublish, Initialized, Destroy, Teardown,
       DestroyCache, DestroyController, Destroyed, CallbackTest, Callback, CallbackLoad,
       CallbackFirst, CallbackSecond, vars
  <2>2. QED
    BY <2>1, CopiedStays
<1>3. QED
  BY <1>1, <1>2

-----------------------------------------------------------------------------
(***************************************************************************)
(* The theorems.                                                           *)
(***************************************************************************)

\* A read returns, part by part, the report that was in the cache when it began
\* or a newer one, whatever callbacks run meanwhile.
THEOREM ReadsAreFresh == Spec => []FreshRead
<1>1. Init => Copied /\ FreshRead
  BY DEF Init, Copied, FreshRead
<1>2. QED
  BY <1>1, FreshInductive, AheadInitially, AheadInductive, Invariance, PTL DEF Spec

\* A slot damaged during initialize() is whole and latest again once its
\* controller's next report has been stored.
THEOREM DamageHeals == Spec => []SettledSlot
<1>1. HealInv => SettledSlot
  BY DEF HealInv
<1>2. QED
  BY <1>1, Healing, PTL

=============================================================================
