----------------------- MODULE ControllerManager_proofs -----------------------
(***************************************************************************)
(* Theorems about ControllerManager, for every number of devices and any   *)
(* number of reports.                                                      *)
(***************************************************************************)
EXTENDS ControllerManager, SequenceTheorems, TLAPS

\* The cache is a sequence of statuses.
LEMMA CacheType ==
    ASSUME TypeOK
    PROVE  Cache \in Seq(Status) /\ CacheSize \in Nat /\ DOMAIN Cache = 1 .. CacheSize
<1>1. heap \in Seq(Seq(Status)) /\ start \in 0 .. Len(heap)
  BY DEF TypeOK
<1>2. CASE start = 0
  BY <1>2, EmptySeq DEF Cache, CacheSize
<1>3. CASE start # 0
  <2>1. start \in 1 .. Len(heap)
    BY <1>1, <1>3
  <2>2. heap[start] \in Seq(Status)
    BY <1>1, <2>1, ElementOfSeq
  <2>3. QED
    BY <1>3, <2>2, LenProperties DEF Cache, CacheSize
<1>4. QED
  BY <1>2, <1>3

\* A value-initialised status is a status of no device.
LEMMA NoStatusType ==
    NoStatus \in Status /\ Default \in Report /\ \A p \in Part : NoStatus[p][1] = 0
BY ManagerAssumption DEF NoStatus, Status, Report, Default

\* What one of the two writes of a callback leaves: storages of the same sizes,
\* in which every status is still that of its slot's controller, and in which
\* nothing but the part written has changed.
LEMMA StoredOK ==
    ASSUME IInv, NEW d \in Device, NEW p \in Part, rx[d].pc \in {"first", "second"}
    PROVE  /\ Stored(d, p) \in Seq(Seq(Status))
           /\ Len(Stored(d, p)) = Len(heap)
           /\ \A g \in 1 .. Len(heap) :
                 /\ Len(Stored(d, p)[g]) = Len(heap[g])
                 /\ \A i \in 1 .. Len(heap[g]) : \A q \in Part :
                       Stored(d, p)[g][i][q][1] \in {0, controllers[i]}
           /\ \A g \in 1 .. Len(heap) : \A i \in 1 .. Len(heap[g]) : \A q \in Part :
                 Stored(d, p)[g][i][q] =
                    IF g = rx[d].base /\ i = rx[d].slot /\ q = p
                    THEN <<d, rx[d].n>> ELSE heap[g][i][q]
           /\ controllers[rx[d].slot] = d
<1> DEFINE b == rx[d].base
           k == rx[d].slot
           v == <<d, rx[d].n>>
           st == [heap[b][k] EXCEPT ![p] = v]
           new == [heap[b] EXCEPT ![k] = st]
<1>1. heap \in Seq(Seq(Status)) /\ DOMAIN heap = 1 .. Len(heap) /\ b \in 1 .. Len(heap)
  <2>1. heap \in Seq(Seq(Status))
    BY DEF IInv, TypeOK
  <2>2. QED
    BY <2>1, LenProperties DEF IInv, InRange
<1>2. \A g \in 1 .. Len(heap) :
         heap[g] \in Seq(Status) /\ DOMAIN heap[g] = 1 .. Len(heap[g])
  BY <1>1, ElementOfSeq, LenProperties
<1>3. k \in 1 .. Len(heap[b])
  BY <1>1, <1>2 DEF IInv, InRange
<1>4. heap[b][k] \in Status
  BY <1>1, <1>2, <1>3, ElementOfSeq
<1>5. v \in Report
  <2>1. rx[d] \in Receiver
    BY DEF IInv, TypeOK
  <2>2. rx[d].n \in Nat
    BY <2>1 DEF Receiver
  <2>3. QED
    BY <2>2, ManagerAssumption DEF Report, Device
<1>6. st \in Status /\ \A q \in Part : st[q] = IF q = p THEN v ELSE heap[b][k][q]
  BY <1>4, <1>5 DEF Status
<1>7. /\ new \in Seq(Status)
      /\ Len(new) = Len(heap[b])
      /\ \A i \in 1 .. Len(heap[b]) : new[i] = IF i = k THEN st ELSE heap[b][i]
  <2> DEFINE s == heap[b]
  <2>1. s \in Seq(Status) /\ k \in 1 .. Len(s) /\ st \in Status /\ new = [s EXCEPT ![k] = st]
    BY <1>1, <1>2, <1>3, <1>6
  <2> HIDE DEF s, k, st, new
  <2>2. /\ new \in Seq(Status) /\ Len(new) = Len(s)
        /\ \A i \in 1 .. Len(s) : new[i] = IF i = k THEN st ELSE s[i]
    BY <2>1, ExceptSeq
  <2>3. QED
    BY <2>2 DEF s
<1>8. Stored(d, p) = [heap EXCEPT ![b] = new]
  BY DEF Stored
<1> HIDE DEF b, st, new
<1>9. /\ Stored(d, p) \in Seq(Seq(Status))
      /\ Len(Stored(d, p)) = Len(heap)
      /\ \A g \in 1 .. Len(heap) : Stored(d, p)[g] = IF g = b THEN new ELSE heap[g]
  <2> DEFINE S == Seq(Status)
  <2>1. heap \in Seq(S) /\ b \in 1 .. Len(heap) /\ new \in S
    BY <1>1, <1>7
  <2> HIDE DEF S
  <2>2. /\ [heap EXCEPT ![b] = new] \in Seq(S)
        /\ Len([heap EXCEPT ![b] = new]) = Len(heap)
        /\ \A g \in 1 .. Len(heap) :
              [heap EXCEPT ![b] = new][g] = IF g = b THEN new ELSE heap[g]
    BY <2>1, ExceptSeq
  <2>3. QED
    BY <1>8, <2>2 DEF S
<1>10. controllers[k] = d
  <2>1. k \in DOMAIN controllers
    BY <1>1, <1>2, <1>3 DEF IInv, OwnSlot
  <2>2. controllers \in Seq(Device) /\ DOMAIN controllers = 1 .. Len(controllers)
    BY LenProperties DEF IInv, TypeOK
  <2>3. QED
    BY <2>1, <2>2 DEF IInv, Registered
<1>11. \A g \in 1 .. Len(heap) : \A i \in 1 .. Len(heap[g]) : \A q \in Part :
          Stored(d, p)[g][i][q] =
             IF g = b /\ i = k /\ q = p THEN v ELSE heap[g][i][q]
  <2> SUFFICES ASSUME NEW g \in 1 .. Len(heap), NEW i \in 1 .. Len(heap[g]), NEW q \in Part
               PROVE  Stored(d, p)[g][i][q] =
                         IF g = b /\ i = k /\ q = p THEN v ELSE heap[g][i][q]
    OBVIOUS
  <2> HIDE DEF k, v
  <2>1. CASE g = b /\ i = k
    <3>1. Stored(d, p)[g][i] = st
      BY <1>7, <1>9, <2>1
    <3>2. QED
      BY <1>6, <2>1, <3>1
  <2>2. CASE ~(g = b /\ i = k)
    <3>1. Stored(d, p)[g][i] = heap[g][i]
      BY <1>7, <1>9, <2>2
    <3>2. QED
      BY <2>2, <3>1
  <2>3. QED
    BY <2>1, <2>2
<1>13. \A g \in 1 .. Len(heap) : \A i \in 1 .. Len(heap[g]) : \A q \in Part :
          Stored(d, p)[g][i][q][1] \in {0, controllers[i]}
  <2> SUFFICES ASSUME NEW g \in 1 .. Len(heap), NEW i \in 1 .. Len(heap[g]), NEW q \in Part
               PROVE  Stored(d, p)[g][i][q][1] \in {0, controllers[i]}
    OBVIOUS
  <2>1. heap[g][i][q][1] \in {0, controllers[i]}
    BY <1>1, <1>2 DEF IInv, OwnSlot
  <2>2. CASE g = b /\ i = k /\ q = p
    <3>1. Stored(d, p)[g][i][q] = v
      BY <1>11, <2>2
    <3>2. QED
      BY <1>10, <2>2, <3>1
  <2>3. CASE ~(g = b /\ i = k /\ q = p)
    <3>1. Stored(d, p)[g][i][q] = heap[g][i][q]
      BY <1>11, <2>3
    <3>2. QED
      BY <2>1, <3>1
  <2>4. QED
    BY <2>2, <2>3
<1>14. \A g \in 1 .. Len(heap) : Len(Stored(d, p)[g]) = Len(heap[g])
  BY <1>7, <1>9
<1>15. /\ Stored(d, p) \in Seq(Seq(Status)) /\ Len(Stored(d, p)) = Len(heap)
       /\ \A g \in 1 .. Len(heap) : \A i \in 1 .. Len(heap[g]) : \A q \in Part :
             Stored(d, p)[g][i][q] =
                IF g = rx[d].base /\ i = rx[d].slot /\ q = p
                THEN <<d, rx[d].n>> ELSE heap[g][i][q]
       /\ controllers[rx[d].slot] = d
  BY <1>9, <1>10, <1>11 DEF b
<1>12. QED
  BY <1>13, <1>14, <1>15, Zenon

-----------------------------------------------------------------------------
(***************************************************************************)
(* The steps that leave the heap alone.                                    *)
(***************************************************************************)

\* Facts about sequences that every step below uses.
LEMMA Shape ==
    ASSUME IInv
    PROVE  /\ controllers \in Seq(Device) /\ Len(controllers) \in Nat
           /\ DOMAIN controllers = 1 .. Len(controllers)
           /\ heap \in Seq(Seq(Status)) /\ Len(heap) \in Nat
           /\ DOMAIN heap = 1 .. Len(heap)
           /\ \A g \in 1 .. Len(heap) :
                 heap[g] \in Seq(Status) /\ DOMAIN heap[g] = 1 .. Len(heap[g])
           /\ rx \in [Device -> Receiver]
           /\ rd \in Reader
           /\ next \in Nat /\ next >= 1
           /\ start \in 0 .. Len(heap)
<1>1. TypeOK
  BY DEF IInv
<1>2. controllers \in Seq(Device) /\ heap \in Seq(Seq(Status))
  BY <1>1 DEF TypeOK
<1>3. \A g \in 1 .. Len(heap) :
         heap[g] \in Seq(Status) /\ DOMAIN heap[g] = 1 .. Len(heap[g])
  BY <1>2, ElementOfSeq, LenProperties
<1>4. QED
  BY <1>1, <1>2, <1>3, LenProperties, ManagerAssumption DEF TypeOK

\* Steps of the constructing and destroying thread that only move on.
LEMMA ControlStep ==
    ASSUME IInv,
           \/ Connect \/ ConnectFails \/ Initialized \/ GrowFree
           \/ Destroy \/ DestroyCache \/ Destroyed \/ UNCHANGED vars
    PROVE  IInv'
<1> USE ManagerAssumption
<1>1. UNCHANGED <<controllers, heap, start, rx, rd, capacity>>
  BY DEF Connect, ConnectFails, Initialized, GrowFree, Destroy, DestroyCache, Destroyed,
     vars
<1>2. Cache' = Cache /\ CacheSize' = CacheSize
  BY <1>1 DEF Cache, CacheSize
<1>3. TypeOK'
  <2>1. freed' \subseteq 1 .. Len(heap)
    <3>1. freed \subseteq 1 .. Len(heap) /\ start \in 0 .. Len(heap) /\ Len(heap) \in Nat
      BY Shape DEF IInv, TypeOK
    <3>2. CASE GrowFree \/ DestroyCache
      <4>1. CASE start = 0
        BY <3>1, <3>2, <4>1 DEF GrowFree, DestroyCache
      <4>2. CASE start # 0
        <5>1. start \in 1 .. Len(heap) /\ freed' = freed \union {start}
          BY <3>1, <3>2, <4>2 DEF GrowFree, DestroyCache
        <5>2. QED
          BY <3>1, <5>1
      <4>3. QED
        BY <4>1, <4>2
    <3>3. CASE \/ Connect \/ ConnectFails \/ Initialized \/ Destroy \/ Destroyed
               \/ UNCHANGED vars
      BY <3>1, <3>3 DEF Connect, ConnectFails, Initialized, Destroy, Destroyed, vars
    <3>4. QED
      BY <3>2, <3>3
  <2>2. cpc' \in ManagerPC /\ next' \in 1 .. NDevices + 1
    BY DEF IInv, TypeOK, Connect, ConnectFails, Initialized, GrowFree, Destroy,
       DestroyCache, Destroyed, vars, ManagerPC
  <2>3. QED
    BY <1>1, <2>1, <2>2 DEF IInv, TypeOK
<1>4. SizesAgree'
  BY <1>1, <1>2 DEF IInv, SizesAgree, Pushing, Connect, ConnectFails, Initialized, GrowFree,
     Destroy, DestroyCache, Destroyed, vars
<1>8. NoMoreThanTried'
  BY <1>1, Shape DEF IInv, SizesAgree, NoMoreThanTried, Pushing, Connect, ConnectFails,
     Initialized, GrowFree, Destroy, DestroyCache, Destroyed, vars
<1>5. Registered'
  BY <1>1 DEF IInv, Registered, Connect, ConnectFails, Initialized, GrowFree, Destroy,
     DestroyCache, Destroyed, vars
<1>6. InRange' /\ OwnSlot'
  BY <1>1, <1>2 DEF IInv, InRange, OwnSlot
<1>7. QED
  BY <1>3, <1>4, <1>5, <1>6, <1>8 DEF IInv

\* SetCallback: the device is promised the next slot.
LEMMA SetCallbackStep == ASSUME IInv, SetCallback PROVE IInv'
<1> USE ManagerAssumption
<1>1. UNCHANGED <<controllers, heap, start, rd, capacity, next, freed>>
      /\ cpc = "setCallback" /\ cpc' = "pushController" /\ next \in Device
  BY Shape DEF SetCallback, IInv, SizesAgree, Device
<1>2. Cache' = Cache /\ CacheSize' = CacheSize
  BY <1>1 DEF Cache, CacheSize
<1>10. rx[next] \in Receiver /\ NextSlot \in Nat
  BY <1>1, Shape DEF NextSlot
<1>3. [rx[next] EXCEPT !.pc = "idle", !.slot = NextSlot] \in Receiver
  BY <1>10 DEF Receiver
<1>4. /\ rx' \in [Device -> Receiver]
      /\ \A d \in Device :
            IF d = next THEN rx'[d].pc = "idle" /\ rx'[d].slot = Len(controllers) + 1
                        ELSE rx'[d] = rx[d]
  BY <1>1, <1>3, Shape DEF SetCallback, Receiver, NextSlot
<1>5. TypeOK'
  BY <1>1, <1>4 DEF IInv, TypeOK, ManagerPC
<1>6. SizesAgree' /\ NoMoreThanTried'
  BY <1>1, <1>2 DEF IInv, SizesAgree, NoMoreThanTried, Pushing
<1>7. Registered'
  BY <1>1, <1>4 DEF IInv, Registered
<1>8. InRange' /\ OwnSlot'
  BY <1>1, <1>2, <1>4 DEF IInv, InRange, OwnSlot
<1>9. QED
  BY <1>5, <1>6, <1>7, <1>8 DEF IInv

\* PushController: the promised slot becomes the device's.
LEMMA PushControllerStep == ASSUME IInv, PushController PROVE IInv'
<1> USE ManagerAssumption
<1>1. UNCHANGED <<heap, start, rx, rd, capacity, next, freed>>
      /\ cpc = "pushController" /\ cpc' = "pushStatus" /\ next \in Device
  BY Shape DEF PushController, IInv, SizesAgree, Device
<1>2. Cache' = Cache /\ CacheSize' = CacheSize
  BY <1>1 DEF Cache, CacheSize
<1>3. /\ controllers' \in Seq(Device)
      /\ Len(controllers') = Len(controllers) + 1
      /\ DOMAIN controllers' = 1 .. Len(controllers) + 1
      /\ \A i \in 1 .. Len(controllers) : controllers'[i] = controllers[i]
      /\ controllers'[Len(controllers) + 1] = next
  BY <1>1, Shape, AppendProperties, LenProperties DEF PushController
<1>4. TypeOK'
  BY <1>1, <1>3 DEF IInv, TypeOK, ManagerPC
<1>5. SizesAgree'
  BY <1>1, <1>2, <1>3, Shape, CacheType DEF IInv, SizesAgree, Pushing, Device
<1>6. NoMoreThanTried'
  BY <1>1, <1>3, Shape DEF IInv, NoMoreThanTried, Pushing, Device
<1>7. Registered'
  <2> SUFFICES ASSUME NEW d \in Device, rx[d].pc # "off"
               PROVE  rx[d].slot \in DOMAIN controllers' /\ controllers'[rx[d].slot] = d
    BY <1>1 DEF Registered
  <2>1. CASE rx[d].slot \in DOMAIN controllers /\ controllers[rx[d].slot] = d
    BY <1>3, <2>1, Shape
  <2>2. CASE d = next /\ rx[d].slot = Len(controllers) + 1
    BY <1>3, <2>2, Shape
  <2>3. QED
    BY <2>1, <2>2 DEF IInv, Registered
<1>8. InRange'
  <2>1. \A i \in DOMAIN controllers : i \in DOMAIN controllers'
    BY <1>3, Shape
  <2>2. QED
    BY <1>1, <1>2, <2>1 DEF IInv, InRange
<1>9. OwnSlot'
  <2>1. \A g \in DOMAIN heap : \A i \in DOMAIN heap[g] :
           i \in DOMAIN controllers /\ controllers'[i] = controllers[i]
    BY <1>3, Shape DEF IInv, OwnSlot
  <2>2. rd.pc # "idle" => controllers'[rd.slot] = controllers[rd.slot]
    BY <1>3, Shape DEF IInv, InRange
  <2>3. \A i \in DOMAIN controllers : i \in DOMAIN controllers'
    BY <1>3, Shape
  <2>4. \A g \in DOMAIN heap : \A i \in DOMAIN heap[g] :
           /\ i \in DOMAIN controllers'
           /\ \A p \in Part : heap[g][i][p][1] \in {0, controllers'[i]}
    BY <2>1, <2>3 DEF IInv, OwnSlot
  <2>5. rd.pc # "idle" => \A p \in Part : rd.status[p][1] \in {0, controllers'[rd.slot]}
    BY <2>2 DEF IInv, OwnSlot
  <2>6. QED
    BY <1>1, <2>4, <2>5 DEF OwnSlot
<1>10. QED
  BY <1>4, <1>5, <1>6, <1>7, <1>8, <1>9 DEF IInv

\* The threads' own steps leave what the constructing thread has built alone.
LEMMA ReceiverFrame ==
    ASSUME IInv, NEW d \in Device, NEW r \in Receiver,
           rx' = [rx EXCEPT ![d] = r],
           UNCHANGED <<cpc, controllers, heap, start, rd, capacity, freed>>,
           next' \in 1 .. NDevices + 1,
           cpc = "pushController" => next' = next,
           cpc \in ManagerPC \ {"destroyControllers"} => next' = next,
           r.pc # "off" => rx[d].pc # "off" /\ r.slot = rx[d].slot,
           r.pc \in {"checked", "first", "second"} => r.slot \in 1 .. CacheSize,
           r.pc \in {"first", "second"} =>
               r.base \in DOMAIN heap /\ r.slot \in DOMAIN heap[r.base]
    PROVE  IInv'
<1>1. Cache' = Cache /\ CacheSize' = CacheSize
  BY DEF Cache, CacheSize
<1>2. /\ rx' \in [Device -> Receiver]
      /\ \A e \in Device : rx'[e] = IF e = d THEN r ELSE rx[e]
  BY Shape
<1>3. TypeOK'
  BY <1>2 DEF IInv, TypeOK
<1>4. SizesAgree' /\ NoMoreThanTried'
  BY <1>1 DEF IInv, TypeOK, SizesAgree, NoMoreThanTried, Pushing, ManagerPC
<1>5. Registered'
  BY <1>2 DEF IInv, Registered
<1>6. InRange' /\ OwnSlot'
  BY <1>1, <1>2 DEF IInv, InRange, OwnSlot
<1>7. QED
  BY <1>3, <1>4, <1>5, <1>6 DEF IInv

\* ~ProController: the receiver thread is joined.
LEMMA DestroyControllerStep == ASSUME IInv, DestroyController PROVE IInv'
<1> DEFINE d == controllers[next]
           r == [rx[d] EXCEPT !.pc = "stopped"]
<1>1. d \in Device /\ next <= NDevices
  BY Shape, ElementOfSeq, ManagerAssumption DEF DestroyController, IInv, NoMoreThanTried
<1>2. rx[d] \in Receiver /\ rx[d].pc = "idle"
  BY <1>1, Shape DEF DestroyController
<1>3. r \in Receiver /\ r.pc = "stopped" /\ r.slot = rx[d].slot
  BY <1>2 DEF Receiver
<1>4. rx' = [rx EXCEPT ![d] = r]
  BY DEF DestroyController
<1>5. next' \in 1 .. NDevices + 1 /\ cpc = "destroyControllers"
      /\ UNCHANGED <<cpc, controllers, heap, start, rd, capacity, freed>>
  BY <1>1, Shape, ManagerAssumption DEF DestroyController
<1> HIDE DEF d, r
<1>6. QED
  BY <1>1, <1>2, <1>3, <1>4, <1>5, ReceiverFrame

\* A callback compares its index with the size of the cache.
LEMMA CallbackTestStep == ASSUME IInv, NEW d \in Device, CallbackTest(d) PROVE IInv'
<1> DEFINE c == IF rx[d].slot <= CacheSize THEN "checked" ELSE "idle"
           r == [rx[d] EXCEPT !.n = rx[d].n + 1, !.pc = c]
<1>1. rx[d] \in Receiver /\ rx[d].pc = "idle"
  BY Shape DEF CallbackTest
<1>2. r \in Receiver /\ r.slot = rx[d].slot /\ r.pc \in {"checked", "idle"}
      /\ (r.pc = "checked" => rx[d].slot <= CacheSize)
  <2>1. c \in {"checked", "idle"} /\ (c = "checked" => rx[d].slot <= CacheSize)
    <3>1. CASE rx[d].slot <= CacheSize
      BY <3>1
    <3>2. CASE ~(rx[d].slot <= CacheSize)
      BY <3>2
    <3>3. QED
      BY <3>1, <3>2
  <2> HIDE DEF c
  <2>2. rx[d].n + 1 \in Nat
    BY <1>1 DEF Receiver
  <2>3. \A m \in Nat : [rx[d] EXCEPT !.n = m, !.pc = c] \in Receiver
    BY <1>1, <2>1 DEF Receiver
  <2>4. r \in Receiver
    BY <2>2, <2>3
  <2>5. r.slot = rx[d].slot /\ r.pc = c
    BY <1>1 DEF Receiver
  <2>6. QED
    BY <2>1, <2>4, <2>5
<1>3. rx[d].slot >= 1 /\ rx[d].slot \in Nat /\ CacheSize \in Nat
  <2>1. rx[d].slot \in Nat
    BY <1>1 DEF Receiver
  <2>2. rx[d].slot \in DOMAIN controllers \/ rx[d].slot = Len(controllers) + 1
    BY <1>1 DEF IInv, Registered
  <2>3. CacheSize \in Nat
    BY CacheType DEF IInv
  <2>4. QED
    BY <2>1, <2>2, <2>3, Shape
<1>4. rx' = [rx EXCEPT ![d] = r]
  BY DEF CallbackTest
<1>5. next' \in 1 .. NDevices + 1 /\ next' = next
      /\ UNCHANGED <<cpc, controllers, heap, start, rd, capacity, freed>>
  BY DEF CallbackTest, IInv, TypeOK
<1> HIDE DEF r
<1>6. r.pc \in {"checked", "first", "second"} => r.slot \in 1 .. CacheSize
  BY <1>2, <1>3
<1>7. QED
  BY <1>1, <1>2, <1>4, <1>5, <1>6, ReceiverFrame

\* A callback loads the address of the current storage.
LEMMA CallbackLoadStep == ASSUME IInv, NEW d \in Device, CallbackLoad(d) PROVE IInv'
<1> DEFINE r == [rx[d] EXCEPT !.pc = "first", !.base = start]
<1>1. rx[d] \in Receiver /\ rx[d].pc = "checked"
  BY Shape DEF CallbackLoad
<1>8. start \in Nat
  BY Shape
<1>2. r \in Receiver /\ r.pc = "first" /\ r.slot = rx[d].slot /\ r.base = start
  BY <1>1, <1>8 DEF Receiver
<1>3. rx[d].slot \in 1 .. CacheSize
  BY <1>1 DEF IInv, InRange
<1>4. start \in DOMAIN heap /\ rx[d].slot \in DOMAIN heap[start]
  <2>1. start # 0
    BY <1>3, EmptySeq DEF CacheSize, Cache
  <2>2. QED
    BY <1>3, <2>1, Shape DEF CacheSize, Cache
<1>5. rx' = [rx EXCEPT ![d] = r]
  BY DEF CallbackLoad
<1>6. next' \in 1 .. NDevices + 1 /\ next' = next
      /\ UNCHANGED <<cpc, controllers, heap, start, rd, capacity, freed>>
  BY DEF CallbackLoad, IInv, TypeOK
<1> HIDE DEF r
<1>7. QED
  BY <1>1, <1>2, <1>3, <1>4, <1>5, <1>6, ReceiverFrame

-----------------------------------------------------------------------------
(***************************************************************************)
(* The steps that change the heap.                                         *)
(***************************************************************************)

\* One of the two writes of a callback.
LEMMA CallbackWriteStep ==
    ASSUME IInv, NEW d \in Device, CallbackFirst(d) \/ CallbackSecond(d)
    PROVE  IInv'
<1>1. PICK p \in Part, r \in Receiver :
         /\ rx[d].pc \in {"first", "second"}
         /\ heap' = Stored(d, p)
         /\ rx' = [rx EXCEPT ![d] = r]
         /\ r.pc \in {"second", "idle"} /\ r.slot = rx[d].slot /\ r.base = rx[d].base
  <2>1. rx[d] \in Receiver
    BY Shape
  <2>2. CASE CallbackFirst(d)
    <3> DEFINE r == [rx[d] EXCEPT !.pc = "second"]
    <3>1. r \in Receiver /\ r.pc = "second" /\ r.slot = rx[d].slot /\ r.base = rx[d].base
      BY <2>1 DEF Receiver
    <3>2. rx' = [rx EXCEPT ![d] = r] /\ heap' = Stored(d, 1) /\ rx[d].pc = "first" /\ 1 \in Part
      BY <2>2 DEF CallbackFirst, Part
    <3> HIDE DEF r
    <3>3. QED
      BY <3>1, <3>2
  <2>3. CASE CallbackSecond(d)
    <3> DEFINE r == [rx[d] EXCEPT !.pc = "idle", !.kept = KeptAfter(d)]
    <3>1. KeptAfter(d) \in Nat
      BY <2>1 DEF KeptAfter, Receiver
    <3>2. r \in Receiver /\ r.pc = "idle" /\ r.slot = rx[d].slot /\ r.base = rx[d].base
      BY <2>1, <3>1 DEF Receiver
    <3>3. rx' = [rx EXCEPT ![d] = r] /\ heap' = Stored(d, 2) /\ rx[d].pc = "second" /\ 2 \in Part
      BY <2>3 DEF CallbackSecond, Part
    <3> HIDE DEF r
    <3>4. QED
      BY <3>2, <3>3
  <2>4. QED
    BY <2>2, <2>3
<1>2. UNCHANGED <<cpc, next, controllers, start, capacity, freed, rd>>
  BY DEF CallbackFirst, CallbackSecond
<1>3. /\ rx' \in [Device -> Receiver]
      /\ \A e \in Device : rx'[e] = IF e = d THEN r ELSE rx[e]
  BY <1>1, Shape
<1>4. /\ heap' \in Seq(Seq(Status)) /\ Len(heap') = Len(heap)
      /\ DOMAIN heap' = 1 .. Len(heap)
      /\ \A g \in 1 .. Len(heap) :
            /\ Len(heap'[g]) = Len(heap[g])
            /\ \A i \in 1 .. Len(heap[g]) : \A q \in Part :
                  heap'[g][i][q][1] \in {0, controllers[i]}
  <2>1. /\ heap' \in Seq(Seq(Status)) /\ Len(heap') = Len(heap)
        /\ \A g \in 1 .. Len(heap) :
              /\ Len(heap'[g]) = Len(heap[g])
              /\ \A i \in 1 .. Len(heap[g]) : \A q \in Part :
                    heap'[g][i][q][1] \in {0, controllers[i]}
    <3>1. heap' = Stored(d, p) /\ rx[d].pc \in {"first", "second"}
      BY <1>1
    <3>2. /\ Stored(d, p) \in Seq(Seq(Status)) /\ Len(Stored(d, p)) = Len(heap)
          /\ \A g \in 1 .. Len(heap) :
                /\ Len(Stored(d, p)[g]) = Len(heap[g])
                /\ \A i \in 1 .. Len(heap[g]) : \A q \in Part :
                      Stored(d, p)[g][i][q][1] \in {0, controllers[i]}
      BY <3>1, StoredOK, ZenonT(40)
    <3>3. QED
      BY <3>1, <3>2, Zenon
  <2>2. DOMAIN heap' = 1 .. Len(heap)
    BY <2>1, LenProperties
  <2>3. QED
    BY <2>1, <2>2
<1>5. \A g \in 1 .. Len(heap) : DOMAIN heap'[g] = DOMAIN heap[g]
  <2>1. \A g \in 1 .. Len(heap) : heap'[g] \in Seq(Status)
    BY <1>4, ElementOfSeq
  <2>2. \A g \in 1 .. Len(heap) : DOMAIN heap'[g] = 1 .. Len(heap'[g])
    BY <2>1, LenProperties
  <2>3. QED
    BY <1>4, <2>2, Shape
<1>6. CacheSize' = CacheSize
  BY <1>2, <1>4, Shape DEF CacheSize, Cache
<1>7. TypeOK'
  BY <1>2, <1>3, <1>4 DEF IInv, TypeOK
<1>8. SizesAgree' /\ NoMoreThanTried'
  <2>1. heap = <<>> => heap' = <<>>
    BY <1>4, Shape
  <2>2. heap # <<>> => Len(heap) \in 1 .. Len(heap) /\ heap' # <<>>
    BY <1>4, Shape
  <2>3. QED
    BY <1>2, <1>4, <1>6, <2>2 DEF IInv, SizesAgree, NoMoreThanTried, Pushing
<1>9. Registered'
  BY <1>1, <1>2, <1>3 DEF IInv, Registered
<1>10. InRange'
  <2> SUFFICES ASSUME NEW e \in Device
               PROVE  /\ rx'[e].pc \in {"checked", "first", "second"} =>
                            rx'[e].slot \in 1 .. CacheSize
                      /\ rx'[e].pc \in {"first", "second"} =>
                            /\ rx'[e].base \in 1 .. Len(heap)
                            /\ rx'[e].slot \in DOMAIN heap[rx'[e].base]
    BY <1>2, <1>4, <1>5, <1>6 DEF IInv, InRange
  <2>1. CASE e = d
    BY <1>1, <1>3, <2>1, Shape DEF IInv, InRange
  <2>2. CASE e # d
    BY <1>3, <2>2, Shape DEF IInv, InRange
  <2>3. QED
    BY <2>1, <2>2
<1>11. OwnSlot'
  <2>1. \A g \in DOMAIN heap' : \A i \in DOMAIN heap'[g] :
           /\ i \in DOMAIN controllers
           /\ \A q \in Part : heap'[g][i][q][1] \in {0, controllers[i]}
    <3> SUFFICES ASSUME NEW g \in DOMAIN heap', NEW i \in DOMAIN heap'[g]
                 PROVE  /\ i \in DOMAIN controllers
                        /\ \A q \in Part : heap'[g][i][q][1] \in {0, controllers[i]}
      OBVIOUS
    <3>1. g \in 1 .. Len(heap) /\ i \in 1 .. Len(heap[g])
      BY <1>4, <1>5, Shape
    <3>2. i \in DOMAIN controllers
      BY <3>1, Shape DEF IInv, OwnSlot
    <3>3. QED
      BY <1>4, <3>1, <3>2
  <2>2. QED
    BY <1>2, <2>1 DEF IInv, OwnSlot
<1>12. QED
  BY <1>7, <1>8, <1>9, <1>10, <1>11 DEF IInv

\* What constructing a value-initialised status behind the cached ones gives.
LEMMA Pushed ==
    ASSUME IInv, Pushing
    PROVE  /\ Append(Cache, NoStatus) \in Seq(Status)
           /\ Len(Append(Cache, NoStatus)) = CacheSize + 1
           /\ DOMAIN Append(Cache, NoStatus) = 1 .. CacheSize + 1
           /\ Len(controllers) = CacheSize + 1 /\ CacheSize \in Nat
           /\ \A i \in 1 .. CacheSize + 1 : \A p \in Part :
                 Append(Cache, NoStatus)[i][p][1] \in {0, controllers[i]}
<1>1. Cache \in Seq(Status) /\ CacheSize \in Nat /\ DOMAIN Cache = 1 .. CacheSize
  BY CacheType DEF IInv
<1>2. Len(controllers) = CacheSize + 1
  BY DEF IInv, SizesAgree
<1>3. /\ Append(Cache, NoStatus) \in Seq(Status)
      /\ Len(Append(Cache, NoStatus)) = CacheSize + 1
      /\ \A i \in 1 .. CacheSize : Append(Cache, NoStatus)[i] = Cache[i]
      /\ Append(Cache, NoStatus)[CacheSize + 1] = NoStatus
  BY <1>1, AppendProperties, NoStatusType DEF CacheSize
<1>4. \A i \in 1 .. CacheSize : \A p \in Part : Cache[i][p][1] \in {0, controllers[i]}
  <2>1. CASE start = 0
    BY <1>1, <2>1, EmptySeq DEF Cache, CacheSize
  <2>2. CASE start # 0
    <3>1. start \in DOMAIN heap /\ Cache = heap[start]
      BY <2>2, Shape DEF Cache
    <3>2. QED
      BY <1>1, <3>1 DEF IInv, OwnSlot
  <2>3. QED
    BY <2>1, <2>2
<1>5. \A i \in 1 .. CacheSize + 1 : \A p \in Part :
         Append(Cache, NoStatus)[i][p][1] \in {0, controllers[i]}
  <2> SUFFICES ASSUME NEW i \in 1 .. CacheSize + 1, NEW p \in Part
               PROVE  Append(Cache, NoStatus)[i][p][1] \in {0, controllers[i]}
    OBVIOUS
  <2>1. CASE i = CacheSize + 1
    BY <1>3, <2>1, NoStatusType
  <2>2. CASE i \in 1 .. CacheSize
    BY <1>3, <1>4, <2>2
  <2>3. QED
    BY <1>1, <2>1, <2>2
<1>6. QED
  BY <1>1, <1>2, <1>3, <1>5, LenProperties

\* push_back with room to spare: the current storage is one status longer.
LEMMA PushInPlaceStep == ASSUME IInv, PushInPlace PROVE IInv'
<1> USE ManagerAssumption
<1> DEFINE S == Seq(Status)
           new == Append(Cache, NoStatus)
<1>1. /\ UNCHANGED <<controllers, start, capacity, freed, rx, rd>>
      /\ Pushing /\ cpc' = "connect" /\ next' = next + 1 /\ next <= NDevices
  BY DEF PushInPlace, Pushing, IInv, SizesAgree
<1>2. start \in 1 .. Len(heap) /\ Cache = heap[start] /\ start = Len(heap)
  <2>1. CacheSize \in Nat /\ CacheSize < capacity
    BY CacheType DEF IInv, PushInPlace
  <2>2. start # 0 /\ start = Len(heap)
    BY <2>1 DEF PushInPlace, IInv, SizesAgree
  <2>3. QED
    BY <2>2, Shape DEF Cache
<1>3. heap' = [heap EXCEPT ![start] = new]
  BY <1>2 DEF PushInPlace
<1>4. heap \in Seq(S) /\ new \in S
  BY <1>1, Shape, Pushed
<1> HIDE DEF S
<1>5. /\ heap' \in Seq(S) /\ Len(heap') = Len(heap) /\ DOMAIN heap' = 1 .. Len(heap)
      /\ \A g \in 1 .. Len(heap) : heap'[g] = IF g = start THEN new ELSE heap[g]
  BY <1>2, <1>3, <1>4, ExceptSeq, LenProperties
<1> HIDE DEF new
<1>6. /\ Len(new) = CacheSize + 1 /\ DOMAIN new = 1 .. CacheSize + 1
      /\ Len(controllers) = CacheSize + 1 /\ CacheSize \in Nat
      /\ \A i \in 1 .. CacheSize + 1 : \A p \in Part : new[i][p][1] \in {0, controllers[i]}
  BY <1>1, Pushed DEF new
<1>7. Cache' = new /\ CacheSize' = CacheSize + 1
  BY <1>1, <1>2, <1>5, <1>6 DEF Cache, CacheSize
<1>8. TypeOK'
  BY <1>1, <1>5, Shape DEF IInv, TypeOK, ManagerPC, S
<1>9. SizesAgree' /\ NoMoreThanTried'
  BY <1>1, <1>2, <1>5, <1>6, <1>7, Shape DEF IInv, SizesAgree, NoMoreThanTried, Pushing
<1>10. Registered'
  BY <1>1 DEF IInv, Registered, Pushing
<1>11. \A g \in 1 .. Len(heap) : \A i \in DOMAIN heap[g] : i \in DOMAIN heap'[g]
  BY <1>2, <1>5, <1>6, CacheType DEF IInv
<1>12. InRange'
  <2>1. \A j \in 1 .. CacheSize : j \in 1 .. CacheSize'
    BY <1>6, <1>7
  <2>2. \A g \in DOMAIN heap : g \in DOMAIN heap' /\ g \in 1 .. Len(heap)
    BY <1>5, Shape
  <2>3. \A e \in Device :
           /\ rx'[e].pc \in {"checked", "first", "second"} =>
                 rx'[e].slot \in 1 .. CacheSize'
           /\ rx'[e].pc \in {"first", "second"} =>
                 rx'[e].base \in DOMAIN heap' /\ rx'[e].slot \in DOMAIN heap'[rx'[e].base]
    BY <1>1, <1>11, <2>1, <2>2 DEF IInv, InRange
  <2>4. /\ rd'.pc # "idle" => rd'.slot \in DOMAIN controllers'
        /\ rd'.pc \in {"first", "second"} => rd'.slot \in 1 .. CacheSize'
    BY <1>1, <2>1 DEF IInv, InRange
  <2>5. QED
    BY <2>3, <2>4 DEF InRange
<1>13. OwnSlot'
  <2>1. \A g \in DOMAIN heap' : \A i \in DOMAIN heap'[g] :
           /\ i \in DOMAIN controllers
           /\ \A p \in Part : heap'[g][i][p][1] \in {0, controllers[i]}
    <3> SUFFICES ASSUME NEW g \in DOMAIN heap', NEW i \in DOMAIN heap'[g]
                 PROVE  /\ i \in DOMAIN controllers
                        /\ \A p \in Part : heap'[g][i][p][1] \in {0, controllers[i]}
      OBVIOUS
    <3>1. g \in 1 .. Len(heap) /\ g \in DOMAIN heap
      BY <1>5, Shape
    <3>2. CASE g = start
      <4>1. heap'[g] = new
        BY <1>5, <3>1, <3>2
      <4>2. i \in 1 .. Len(controllers) /\ i \in 1 .. CacheSize + 1
        BY <1>6, <4>1
      <4>3. QED
        BY <1>6, <4>1, <4>2, Shape
    <3>3. CASE g # start
      <4>1. heap'[g] = heap[g]
        BY <1>5, <3>1, <3>3
      <4>2. QED
        BY <3>1, <4>1 DEF IInv, OwnSlot
    <3>4. QED
      BY <3>2, <3>3
  <2>2. QED
    BY <1>1, <2>1 DEF IInv, OwnSlot
<1>14. QED
  BY <1>8, <1>9, <1>10, <1>12, <1>13 DEF IInv

\* push_back without room, first part: the new storage is filled.
LEMMA GrowStep == ASSUME IInv, Grow PROVE IInv'
<1> USE ManagerAssumption
<1> DEFINE S == Seq(Status)
           new == Append(Cache, NoStatus)
<1>1. /\ UNCHANGED <<next, controllers, start, freed, rx, rd>>
      /\ Pushing /\ cpc' = "growFree" /\ cpc = "pushStatus" /\ next <= NDevices
      /\ start = Len(heap)
  BY DEF Grow, Pushing, IInv, SizesAgree
<1>2. heap \in Seq(S) /\ new \in S /\ heap' = Append(heap, new)
  BY <1>1, Shape, Pushed DEF Grow
<1> HIDE DEF S
<1>3. /\ heap' \in Seq(S) /\ Len(heap') = Len(heap) + 1 /\ heap' # <<>>
      /\ DOMAIN heap' = 1 .. Len(heap) + 1
      /\ \A g \in 1 .. Len(heap) : heap'[g] = heap[g]
      /\ heap'[Len(heap) + 1] = new
  BY <1>2, AppendProperties, LenProperties
<1> HIDE DEF new
<1>4. /\ Len(new) = CacheSize + 1 /\ DOMAIN new = 1 .. CacheSize + 1
      /\ Len(controllers) = CacheSize + 1 /\ CacheSize \in Nat
      /\ \A i \in 1 .. CacheSize + 1 : \A p \in Part : new[i][p][1] \in {0, controllers[i]}
  BY <1>1, Pushed DEF new
<1>5. Cache' = Cache /\ CacheSize' = CacheSize
  BY <1>1, <1>3, Shape DEF Cache, CacheSize
<1>6. TypeOK'
  <2>1. capacity' \in Nat
    BY <1>4 DEF Grow
  <2>2. freed' \subseteq 1 .. Len(heap')
    BY <1>1, <1>3, Shape DEF IInv, TypeOK
  <2>3. QED
    BY <1>1, <1>3, <2>1, <2>2, Shape DEF IInv, TypeOK, ManagerPC, S
<1>7. SizesAgree' /\ NoMoreThanTried'
  BY <1>1, <1>3, <1>4, <1>5, Shape DEF IInv, SizesAgree, NoMoreThanTried, Pushing
<1>8. Registered'
  BY <1>1 DEF IInv, Registered, Pushing
<1>9. InRange'
  BY <1>1, <1>3, <1>5, Shape DEF IInv, InRange
<1>10. OwnSlot'
  <2>1. \A g \in DOMAIN heap' : \A i \in DOMAIN heap'[g] :
           /\ i \in DOMAIN controllers
           /\ \A p \in Part : heap'[g][i][p][1] \in {0, controllers[i]}
    <3> SUFFICES ASSUME NEW g \in DOMAIN heap', NEW i \in DOMAIN heap'[g]
                 PROVE  /\ i \in DOMAIN controllers
                        /\ \A p \in Part : heap'[g][i][p][1] \in {0, controllers[i]}
      OBVIOUS
    <3>1. CASE g \in 1 .. Len(heap)
      BY <1>3, <3>1, Shape DEF IInv, OwnSlot
    <3>2. CASE g = Len(heap) + 1
      BY <1>3, <1>4, <3>2, Shape
    <3>3. QED
      BY <1>3, <3>1, <3>2, Shape
  <2>2. QED
    BY <1>1, <2>1 DEF IInv, OwnSlot
<1>11. QED
  BY <1>6, <1>7, <1>8, <1>9, <1>10 DEF IInv

\* push_back without room, last part: the new storage is published.
LEMMA GrowPublishStep == ASSUME IInv, GrowPublish PROVE IInv'
<1> USE ManagerAssumption
<1>1. /\ UNCHANGED <<controllers, heap, capacity, freed, rx, rd>>
      /\ cpc = "growPublish" /\ cpc' = "connect" /\ next' = next + 1 /\ next <= NDevices
      /\ start' = Len(heap) /\ heap # <<>>
      /\ Len(heap[Len(heap)]) = CacheSize + 1 /\ Len(controllers) = CacheSize + 1
  BY DEF GrowPublish, Pushing, IInv, SizesAgree
<1>2. Len(heap) \in 1 .. Len(heap) /\ start' # 0
  BY <1>1, Shape
<1>3. CacheSize' = CacheSize + 1 /\ CacheSize \in Nat
  BY <1>1, <1>2, CacheType DEF Cache, CacheSize, IInv
<1>4. TypeOK'
  BY <1>1, <1>2, Shape DEF IInv, TypeOK, ManagerPC
<1>5. SizesAgree' /\ NoMoreThanTried'
  BY <1>1, <1>2, <1>3, Shape DEF IInv, SizesAgree, NoMoreThanTried, Pushing
<1>6. Registered'
  BY <1>1 DEF IInv, Registered
<1>7. InRange'
  <2>1. \A j \in 1 .. CacheSize : j \in 1 .. CacheSize'
    BY <1>3
  <2>2. QED
    BY <1>1, <2>1 DEF IInv, InRange
<1>8. OwnSlot'
  BY <1>1 DEF IInv, OwnSlot
<1>9. QED
  BY <1>4, <1>5, <1>6, <1>7, <1>8 DEF IInv

-----------------------------------------------------------------------------
(***************************************************************************)
(* The steps of the listen thread.                                         *)
(***************************************************************************)

\* A read never leaves its slot.
LEMMA ReadStep ==
    ASSUME IInv, Read \/ \E i \in Device : ReadBegin(i)
    PROVE  IInv'
<1>1. UNCHANGED <<cpc, next, controllers, heap, start, capacity, freed, rx>>
  BY DEF Read, ReadFirst, ReadSecond, ReadBegin
<1>2. Cache' = Cache /\ CacheSize' = CacheSize
  BY <1>1 DEF Cache, CacheSize
<1>3. /\ rd' \in Reader /\ rd'.pc # "idle"
      /\ rd'.slot \in DOMAIN controllers
      /\ rd'.pc \in {"first", "second"} => rd'.slot \in 1 .. CacheSize
      /\ \A p \in Part : rd'.status[p][1] \in {0, controllers[rd'.slot]}
  <2>1. CASE \E i \in Device : ReadBegin(i)
    <3>1. PICK i \in Device : ReadBegin(i)
      BY <2>1
    <3>2. i \in 1 .. Len(controllers) /\ i \in 1 .. CacheSize /\ i \in Nat
      BY <3>1, Shape, CacheType DEF ReadBegin, Device, IInv
    <3>3. Cache[i] \in Status
      BY <3>2, CacheType, ElementOfSeq DEF IInv, CacheSize
    <3>4. rd' = [pc |-> "first", slot |-> i, status |-> NoStatus, floor |-> Cache[i]]
      BY <3>1 DEF ReadBegin
    <3>5. QED
      BY <3>2, <3>3, <3>4, NoStatusType, Shape DEF Reader
  <2>2. CASE Read
    <3>1. PICK p \in Part, c \in {"second", "done"} :
             /\ rd.pc \in {"first", "second"}
             /\ rd' = [rd EXCEPT !.status[p] = Cache[rd.slot][p], !.pc = c]
      BY <2>2 DEF Read, ReadFirst, ReadSecond, Part
    <3>2. rd \in Reader /\ rd.slot \in DOMAIN controllers /\ rd.slot \in 1 .. CacheSize
          /\ \A q \in Part : rd.status[q][1] \in {0, controllers[rd.slot]}
      BY <3>1, Shape DEF IInv, InRange, OwnSlot
    <3>3. Cache[rd.slot] \in Status
      BY <3>2, CacheType, ElementOfSeq DEF IInv, CacheSize
    <3>4. Cache[rd.slot][p] \in Report
      BY <3>3 DEF Status
    <3>5. Cache[rd.slot][p][1] \in {0, controllers[rd.slot]}
      <4>1. start # 0
        BY <3>2, EmptySeq DEF Cache, CacheSize
      <4>2. start \in DOMAIN heap /\ Cache = heap[start]
        BY <4>1, Shape DEF Cache
      <4>3. QED
        BY <3>2, <4>2, CacheType DEF IInv, OwnSlot
    <3>6. /\ rd' \in Reader /\ rd'.slot = rd.slot /\ rd'.pc = c
          /\ \A q \in Part : rd'.status[q] = IF q = p THEN Cache[rd.slot][p] ELSE rd.status[q]
      BY <3>1, <3>2, <3>4 DEF Reader, Status
    <3>7. QED
      BY <3>2, <3>5, <3>6
  <2>3. QED
    BY <2>1, <2>2
<1>4. TypeOK'
  BY <1>1, <1>3 DEF IInv, TypeOK
<1>5. SizesAgree' /\ NoMoreThanTried'
  BY <1>1, <1>2 DEF IInv, SizesAgree, NoMoreThanTried, Pushing
<1>6. Registered'
  BY <1>1 DEF IInv, Registered
<1>7. InRange' /\ OwnSlot'
  BY <1>1, <1>2, <1>3 DEF IInv, InRange, OwnSlot
<1>8. QED
  BY <1>4, <1>5, <1>6, <1>7 DEF IInv

-----------------------------------------------------------------------------
(***************************************************************************)
(* The theorems.                                                           *)
(***************************************************************************)

\* IInv holds initially, ...
LEMMA Initially == Init => IInv
<1> SUFFICES ASSUME Init PROVE IInv
  OBVIOUS
<1> USE ManagerAssumption
<1>1. controllers \in Seq(Device) /\ Len(controllers) = 0
      /\ heap \in Seq(Seq(Status)) /\ Len(heap) = 0 /\ DOMAIN heap = {}
  BY EmptySeq DEF Init
<1>2. rx \in [Device -> Receiver] /\ rd \in Reader
  BY NoStatusType DEF Init, Receiver, Reader
<1>3. CacheSize = 0
  BY EmptySeq DEF Init, Cache, CacheSize
<1>4. TypeOK
  BY <1>1, <1>2 DEF Init, TypeOK, ManagerPC
<1>5. SizesAgree /\ NoMoreThanTried
  BY <1>1, <1>3 DEF Init, SizesAgree, NoMoreThanTried, Pushing
<1>6. Registered /\ InRange /\ OwnSlot
  BY <1>1 DEF Init, Registered, InRange, OwnSlot
<1>7. QED
  BY <1>4, <1>5, <1>6 DEF IInv

\* ... and every step preserves it.
LEMMA Inductive == IInv /\ [Next]_vars => IInv'
<1> SUFFICES ASSUME IInv, [Next]_vars PROVE IInv'
  OBVIOUS
<1>1. CASE \/ Connect \/ ConnectFails \/ Initialized \/ GrowFree
           \/ Destroy \/ DestroyCache \/ Destroyed \/ UNCHANGED vars
  BY <1>1, ControlStep
<1>2. CASE SetCallback
  BY <1>2, SetCallbackStep
<1>3. CASE PushController
  BY <1>3, PushControllerStep
<1>4. CASE PushInPlace
  BY <1>4, PushInPlaceStep
<1>5. CASE Grow
  BY <1>5, GrowStep
<1>6. CASE GrowPublish
  BY <1>6, GrowPublishStep
<1>7. CASE DestroyController
  BY <1>7, DestroyControllerStep
<1>8. CASE \E d \in Device : CallbackTest(d) \/ Callback(d)
  BY <1>8, CallbackTestStep, CallbackLoadStep, CallbackWriteStep DEF Callback
<1>9. CASE Read \/ \E i \in Device : ReadBegin(i)
  BY <1>9, ReadStep
<1>10. QED
  BY <1>1, <1>2, <1>3, <1>4, <1>5, <1>6, <1>7, <1>8, <1>9
     DEF Next, Initialize, PushStatus, Teardown

\* The inductive invariant holds in every reachable state.
THEOREM Invariance == Spec => []IInv
BY Initially, Inductive, PTL DEF Spec

\* Outgrown is inductive together with IInv: the storage in use is the last
\* one, except while the vector grows.
LEMMA OutgrownInitially == Init => Outgrown
BY DEF Init, Outgrown

LEMMA OutgrownInductive == IInv /\ Outgrown /\ [Next]_vars => Outgrown'
<1> SUFFICES ASSUME IInv, Outgrown, [Next]_vars PROVE Outgrown'
  OBVIOUS
<1>1. /\ heap \in Seq(Seq(Status)) /\ Len(heap) \in Nat /\ start \in 0 .. Len(heap)
      /\ freed \subseteq 1 .. Len(heap)
      /\ cpc \notin {"growFree", "growPublish"} => start = Len(heap)
  BY LenProperties DEF IInv, TypeOK, SizesAgree
<1>2. CASE PushInPlace
  <2>1. Len(heap') = Len(heap)
    BY <1>1, <1>2, LenProperties DEF PushInPlace
  <2>2. QED
    BY <1>1, <1>2, <2>1 DEF Outgrown, PushInPlace
<1>3. CASE Grow
  <2>1. Append(Cache, NoStatus) \in Seq(Status)
    BY CacheType, NoStatusType, AppendProperties DEF IInv
  <2>2. Len(heap') = Len(heap) + 1
    BY <1>1, <1>3, <2>1, AppendProperties DEF Grow
  <2>3. QED
    BY <1>1, <1>3, <2>2 DEF Outgrown, Grow
<1>4. CASE GrowFree
  BY <1>1, <1>4 DEF Outgrown, GrowFree
<1>5. CASE GrowPublish \/ DestroyCache
  BY <1>1, <1>5 DEF Outgrown, GrowPublish, DestroyCache
<1>6. CASE \E d \in Device : CallbackFirst(d) \/ CallbackSecond(d)
  <2>1. PICK d \in Device, p \in Part :
           /\ rx[d].pc \in {"first", "second"} /\ heap' = Stored(d, p)
           /\ UNCHANGED <<cpc, controllers, start, freed>>
    BY <1>6 DEF CallbackFirst, CallbackSecond, Part
  <2>2. Len(heap') = Len(heap)
    BY <2>1, StoredOK
  <2>3. QED
    BY <1>1, <2>1, <2>2 DEF Outgrown
<1>7. CASE ~(\/ PushInPlace \/ Grow \/ GrowFree \/ GrowPublish \/ DestroyCache
             \/ \E d \in Device : CallbackFirst(d) \/ CallbackSecond(d))
  <2>1. UNCHANGED <<heap, start, freed>>
    BY <1>7 DEF Next, Initialize, PushStatus, Connect, ConnectFails, SetCallback,
       PushController, Initialized, Destroy, Teardown, DestroyController, Destroyed,
       CallbackTest, Callback, CallbackLoad, ReadBegin, Read, ReadFirst, ReadSecond, vars
  <2>2. /\ cpc' \notin {"growFree", "growPublish"} \/ cpc' = cpc
        /\ cpc \in {"destroyControllers", "done"} => cpc' \in {"destroyControllers", "done"}
    BY <1>7 DEF Next, Initialize, PushStatus, Connect, ConnectFails, SetCallback,
       PushController, Initialized, Destroy, Teardown, DestroyController, Destroyed,
       CallbackTest, Callback, CallbackLoad, ReadBegin, Read, ReadFirst, ReadSecond, vars
  <2>3. QED
    BY <2>1, <2>2 DEF Outgrown
<1>8. QED
  BY <1>2, <1>3, <1>4, <1>5, <1>6, <1>7

\* Every variable keeps its type.
THEOREM Typing == Spec => []TypeOK
<1>1. IInv => TypeOK
  BY DEF IInv
<1>2. QED
  BY <1>1, Invariance, PTL

\* No callback and no read that has passed its test of the size uses an index
\* outside the storage it addresses, however the vector grows meanwhile.
THEOREM StaysInRange == Spec => []InRange
<1>1. IInv => InRange
  BY DEF IInv
<1>2. QED
  BY <1>1, Invariance, PTL

\* Every controller has a cached status whenever the listen thread runs, so
\* that a pad data request for an existing controller is always answered.
THEOREM CacheAligned == Spec => []Aligned
<1>1. IInv => Aligned
  BY DEF IInv, SizesAgree, Aligned, Pushing
<1>2. QED
  BY <1>1, Invariance, PTL

\* No slot ever holds, and no read ever returns, the status of another
\* controller, however callbacks, reallocation and reads interleave.
THEOREM SlotsNeverMixed == Spec => []OwnSlot
<1>1. IInv => OwnSlot
  BY DEF IInv
<1>2. QED
  BY <1>1, Invariance, PTL

=============================================================================
