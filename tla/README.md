# A formal model of ProConDSU

ProConDSU is a UDP server that answers the requests of the DSU ("cemuhook")
protocol with the input state of Nintendo Pro Controllers. This directory holds
TLA+ modules that model its threads, its protocol handling and its life cycle,
TLC configurations that check them on small instances, and proofs, checked by
TLAPS, that hold for every instance.

## 1. The system

| component | source | state | operations |
| --- | --- | --- | --- |
| process life cycle | `main.cpp`; constructors and destructors in `udp_server.cpp`, `dsu_server.cpp` | `mtx`, `cv`, `shutdown_requested`; Winsock, the socket; two `jthread`s with their stop tokens | `main`, `ConsoleCtrlHandler`, `waitForCtrlC`, `start`, `stop`, `wait`, the update thread |
| UDP listen loop | `udp_server.cpp` | the socket with its receive buffer, the datagram and the reply in hand | `listen` (select, recvfrom), `send` |
| message handler | `dsu_server.cpp`, request validation in `packet/packet.cpp`, `packet/utils.cpp` | `packetCounter` | `handleMessage`, `buildControllerDataResponse`, `buildControllersInfoResponse` |
| controller manager | `controller_manager.cpp` | `controllers`, `lastInputStates` | `initialize`, `connectController`, the input callback, `getControllerInputStatus`, the destructor |
| packet codec | `packet/packet.cpp`, `packet/utils.hpp` | none | `serialize`, `deserialize` of 17 structs |
| CRC-32 | `packet/utils.cpp` | a table, filled on first use | `compute_crc32` |
| formatters | `packet/formatters.hpp` | none | log wording; the one call is commented out |
| client record | `dsu_client.hpp` | none | not used by any code |
| ProControllerHid | `vendor/` | external | `Connect`, a receiver thread per controller, its callback |

### How the parts interact

* **main -> listen thread.** `DsuServer server(...)` builds Winsock, the socket,
  the manager and the update thread; `server.start()` creates the listen thread.
  `stop()` sets its token, `wait()` joins it.
* **console -> main.** Each Ctrl-C runs `ConsoleCtrlHandler` in a new thread. It
  shares `shutdown_requested` with `waitForCtrlC` under `mtx` and `cv`.
* **listen loop -> handler.** `listen` calls `handleMessage` through `msgHandler`,
  in its own thread, and sends what it returns to the address it received from.
* **handler -> manager.** The handler asks for the number of controllers and
  copies a cached status.
* **receiver threads -> manager.** Each connected controller has a thread inside
  the library that calls the lambda set in `connectController`, which stores the
  status in `lastInputStates`. No lock protects that vector.

### What is hard

* `lastInputStates` is written by the receiver threads, read by the listen
  thread and grown by the connecting thread, with nothing to order them. The
  callback is registered before the element it writes to exists, and the vector
  is destroyed before the threads that write to it.
* The listen loop has to notice a stop while it is blocked in `select`, and
  leaves for good on any error of `select` or `recvfrom`.
* One counter of 32 bits numbers the replies to all clients and is incremented
  on some paths of the handler only.
* The shutdown joins threads and destroys objects in an order spread over
  `main`, two destructors and the order of member declarations.
* A Ctrl-C may arrive before `main` waits, between the test of the predicate and
  the wait, or twice.

Every hazard, with its line and the properties about it, is in `PROJECT.json`.

## 2. The modules

| module | models | map |
| --- | --- | --- |
| `DsuProtocol` | requests, their validation, the replies | `Verdict` is the chain of early returns of `handleMessage` with the `deserialize` calls it makes; `InfoVerdict` is `ControllersInfoRequest::deserialize` with the `size_t` sum that wraps; `Replies` are the branches of its switch; `NextNumber` is `packetCounter++` |
| `DsuService` | the abstract promise of the server to its clients | `Arrive`, `Answer`, `Ignore`, `Halt` |
| `DsuServer` | the listen thread, the socket, the stop request | one action per outcome of the loop test, of `select`, `recvfrom` and `handleMessage`, and `send`; `lpc` is the place in the loop |
| `ControllerManager` | the manager, the receiver threads, the reading listen thread | one action per access to shared memory |
| `Main` | the process | one action per call in `main`, the constructors and the destructors; the console handler and the two threads |
| `PacketCodec` | the structs of the protocol, `serialize`, `deserialize`, `BinaryReader` | `Layout` is what each `serialize` writes; `SizeVerdict` the size test, `TestVerdict` that and `isValidMessage`, and `Reads` the reads of each `deserialize`; one action per read and per way it fails |
| `Crc32` | `init_crc32_table`, `compute_crc32` | a word is the set of its bits; `BitStep` is a round of the loop over `j`, `Update` a round of the loop over `data`; `IeeeCrc` is the reference |
| `DsuSystem` | the whole program | `DsuServer`, `ControllerManager` and `Main` on shared variables, their steps joined where one component calls another |
| `MC...` | small instances | values for the constants |
| `..._proofs` | theorems; `Induction_proofs` is about sequences and functions, the others each about one module | see section 5 |

`DsuServer` uses `DsuProtocol` and implements `DsuService`. `PacketCodec` uses `Crc32`;
`DsuProtocol` takes from it what a request of each size is worth, without the bytes; that the
bytes come to the same is a property of `PacketCodec` (`VerdictOfSize`, which instantiates `DsuProtocol`).

Each of `DsuServer`, `ControllerManager` and `Main` takes something of the others
for granted. `DsuServer` takes the number of controllers and of cached statuses
for constants that are equal (`CachedAssumption` in `DsuProtocol`).
`ControllerManager` takes it that its reader comes between construction and
destruction. `Main` takes the construction and the destruction of the manager
for single steps and the listen loop for a thread that tests its token and uses
the socket. `DsuSystem` instantiates all three and replaces these assumptions by the code:

* the main thread's `initialize` step is the steps of `Manager!Connect` to
  `Manager!Initialized`, its `destroyManager` step those of the destructor, and its
  `start`, `stop` and `wait` act on the listen thread's own variables;
* the handler reads the length of the manager's two vectors (`Handler` is
  `DsuProtocol` with these in place of the constants), and the pad data reply is
  built from a copy that the handler makes part by part (`CopyBegin`, `Copy`,
  `UseCopy`) while receiver threads write;
* `ImplementsServer`, `ImplementsManager` and `ImplementsMain` say that what comes out
  is, seen from each component, that component's specification. All that is
  checked and proved of a component's safety then holds of the program.

### Abstractions

* A datagram is a record of what the control flow reads of it: sender, size,
  whether it starts with `DSUC`, type, `ports` and slot bytes. A reply keeps its
  addressee, type, slots, connected flag and number. Button, stick, sensor and
  battery values are left out: no property tells them apart.
* The response for a slot without a controller (`dsu_server.cpp:39-42`) is a local
  whose fields other than `connected` were never assigned; its slot and number
  are any value.
* An `InputStatus` is a report number of a device, in two parts that are written
  and read separately. Two parts are enough to see a mixed copy.
* A growing `push_back` copies, deallocates and publishes in three steps, in the
  order of libstdc++, which the build uses (the vendored library is a `.a`).
  The copy of the elements is one step, and so is publishing the pointers of
  begin and end: a `size()` that mixes the old end with the new begin, and would let a
  callback pass its test with an index beyond the storage, is outside the model, and
  `InRange` says nothing of it. What a write to deallocated storage does to other objects is not
  modelled: such writes go to the old storage, and `NoDanglingWrite` says that
  they happen.
* In `PacketCodec` a byte is named by the member it belongs to, so a member that is read
  from the wrong place shows. Values are left out, the value of `ports` apart, which
  is the number of slots (`DsuProtocol` has the other values), and of `header.magic`, which is `DSUC`
  or `DSUS` (`DsuProtocol` has any other). The bytes of a packet
  have values too, any (`Content`), for the CRC is computed from them; which bytes it was computed
  over is kept beside it. The
  `memcpy` to a null pointer with which `ControllersDataResponse::deserialize` moves its
  reader on is undefined: it crashes or moves on.
* `sendto` has no result in the model because the code ignores it; a reply the
  network loses leaves the server in the same state as one it delivers.
* In `DsuSystem` which devices connect is a constant, so that the number of
  controllers is one. It leaves out `Main!Kill`, after which nothing is promised, and
  `DsuServer!Bounce`, which would only be one more way for the loop to end.
* A negative `ports` makes `resize` throw in the listen thread, which ends the process
  (`HandleThrows`). The model has the wrapped sum that leads there, but takes the end for one more
  way to halt: nothing says what the server should do instead, so no property reports it. The
  same holds of an error of `recvfrom`, after which the loop ends for good.
* `Main` starts its handler threads only for Ctrl-C and Ctrl-Break. Any other
  console event, or one before the handler is installed, is `Kill`.

## 3. The runs

| run | question | result |
| --- | --- | --- |
| `server` | Does the loop with its handler keep the promise of `DsuService`, number its replies consecutively, drain its buffer, handle at most one message after the stop and end? | holds |
| `server_slot` | Does a reply report only about slots that were asked for (`packet.hpp:83`)? | violated |
| `server_client` | Are the numbers one client sees consecutive (`packet.hpp:190`)? | violated |
| `manager` | Do slots never mix, do callbacks and reads stay within the storage, are reads fresh, does a slot heal with the next report, do construction and destruction end? | holds |
| `manager_torn` | Does a read return one status (`controller_manager.hpp:30`)? | violated |
| `manager_latest` | Does the cache hold the latest state (`controller_manager.cpp:40`)? | violated |
| `manager_teardown` | Does destruction clean up without a write to freed storage (`controller_manager.cpp:9`)? | violated |
| `lifecycle` | Is no Ctrl-C lost, does every thread end before the objects it uses, does Ctrl-C end the process? | holds |
| `codec` | Is no accepted buffer misread, does every struct but three read back what it writes, unless it is a reply, has a packet and a request the verdict of its size and magic, is the checksum the CRC-32 of the whole packet? | holds |
| `codec_padding` | Is an entry of an info response followed by one byte (`packet.cpp:271`)? | violated |
| `codec_length` | Has an accepted packet the length it announces (`packet.hpp:17`)? | violated |
| `system` | Do the components meet each other's assumptions from construction to exit, do replies only go forward, does Ctrl-C end the program whatever its threads are doing? | holds |

The violated ones are the findings in `PROJECT.json`:

* **Torn reads.** With one controller and two reports, the reader copies the
  first part of the old status and the second part of the new one.
* **Reports lost during construction.** A report between `SetInputStatusCallback`
  and the `push_back` of the status fails the size test and is dropped. Until the
  next report the server sends a default status. `SettledSlot` says that the
  damage ends there.
* **Write after destruction.** `lastInputStates` is declared after `controllers` and
  is destroyed first, while receiver threads run.
* **Slots not asked for.** The reply for a slot without a controller has a slot nobody
  assigned. (The reply to an info request ignores the slots listed, too: it reports about every
  controller, as `InfoReplies` of `DsuProtocol` says. No run is about that.)
* **Fifteen bytes per info entry.** `writer.write(0)` writes an `int`. The struct's own
  `deserialize`, and any client of the protocol, expects twelve.
* **The length field is ignored**: a request is neither dropped when it is shorter
  than it announces nor truncated when it is longer.
* **Gaps in the numbers of a client**, because all clients share one counter.

### Bounds

* `server`: two clients; 22 datagrams, one for each way through `recvfrom` and
  `handleMessage` (a wrong magic, an unknown type, each request, a wrapping sum) and one on
  each side of every size that is tested (19 and 20 bytes, 512 and 513, and the sizes of the
  bodies of the data, info, motors and rumble requests); a receive buffer of
  two, so that it overflows; three arrivals; a counter modulo two, so that it wraps
  after two replies; one controller, and one slot without. `SizeMod` is
  1024: only the wrap of the sum with a negative `ports` needs it.
* `manager`: four devices, since `lastInputStates` reallocates for its first,
  second and third element and has room for the fourth; the first two devices
  report, twice and once, so that callbacks run during every kind of `push_back`
  and two receiver threads overlap; any device may fail to connect.
* `lifecycle`: two events, so that two handlers compete for the mutex and one
  comes after the wait has ended.
* `codec`: every struct, packets with the magic of either side; vectors of up to five elements, one more than an info
  request may have; every prefix of what was serialized, and up to three
  bytes more, which is past every size test that has an upper end. `SizeMod` only has to be
  greater than any size that occurs. The values of the bytes are spread over the whole
  range, and six lengths of packet are enough to put every one of them through the table.
* `system`: two devices of which the first fails to connect, so that slot and device
  differ; the second reports twice, so that old and new status meet in a copy; two
  arrivals, so that there are two replies to compare; three requests: pad data, which reads the
  cache, info, which reads the vectors' lengths, and one whose handling
  throws; one Ctrl-C at any time. The components' own runs have the larger instances.

### Fairness

* The listen thread is scheduled and `select` returns after its timeout of one
  second at the latest (`udp_server.cpp:78`): weak fairness of `Listen`. An error of
  `select` is outside `Listen`: it may always happen and is never owed. Arrivals,
  bounced replies and the stop are not owed either.
* The connecting and destroying thread runs, and a thread inside a callback or a
  read leaves it: weak fairness of `Initialize`, `Teardown`, `Callback(d)` and
  `Read`. Reports, reads and the end of the program are not owed.
* In `Main`, each thread that can take a step takes one: weak fairness of
  `MainThread`, of each `Handler(e)`, of `Listen` and of `Update`. A spurious
  wake-up, a Ctrl-C and any other console event are not owed. Weak fairness is
  enough for the mutex because only the finitely many handlers compete for it.

* In `DsuSystem`, the same of every thread: `MainThread`, `Listen`, `Update`, each
  `Callback(d)` and each `Console(e)`. Arrivals, reports, errors of `select` and Ctrl-C
  are not owed.

`PacketCodec` has no liveness property and no fairness. Deadlock is not checked:
each of the systems ends.

## 4. The properties

* `ImplementsService` (refinement): datagrams are taken in the order of arrival,
  each well-formed one is answered once, to its sender, with the type it asked for,
  malformed ones are not answered, the pad data replies have consecutive
  numbers, and after the end nothing is sent. The mapping keeps a datagram in the
  abstract inbox until its reply is sent, and counts its number only then.
* `ConsecutiveNumbers`: no path of the handler uses up a number without sending
  it, across the wrap of the counter.
* `AtMostOneAfterStop`, `StopEndsListening`: the stop is noticed, although the
  thread may be blocked or flooded.
* `BufferDrains`: what has arrived is read, unless the loop has ended.
* `OwnSlot`: a slot of any storage, and any copy of it, holds only reports of its own
  controller, although slots are numbered before the vectors grow and failed
  devices leave no gap. `Aligned`: the two vectors agree when it matters.
* `InRange`: a callback past its size test, or a read past its two, uses an index within
  the storage it has the address of, whatever `push_back` does in between.
* `FreshRead`: a read returns, in each part, the report that was in the cache when it began or
  a newer one; a default status only if the cache still held one. `SettledSlot`: the next report after construction repairs a slot.
* `InitializeEnds`, `DestroyEnds`: construction and destruction return.
* `NoLostWakeup`, `OnlyOnRequest`: the condition variable neither loses a
  Ctrl-C nor invents one.
* `NoUseAfterDestroy`, `OrderlyExit`, `CtrlCEnds`: the shutdown.
* `Sound`: a buffer of any length that is accepted leaves no member unset and none
  with the bytes of another. `RoundTrip`: what is written is read back, except
  that a packet with the magic `DSUS`, which all the server's own replies have, is refused by
  `Packet::deserialize`, and by all structs but `Lossy`: the info response (above); `PacketHeader`, whose
  `deserialize` asks for the 20 bytes of header and type where `serialize`
  writes 16; and `ControllersDataResponse`, whose touches are written with six bytes
  and read from slices of four. The server deserializes none of the three.
* `VerdictOfSize`: the verdict that `DsuProtocol` has for a packet, by its size and magic, and for a
  request, by its size and `ports`, is what
  the tests and the reads of its `deserialize` come to, with the same error. It ties the
  two models of the same code together. Its `ports` are not negative: what `resize` makes of those
  is in `DsuProtocol` only.
* `CrcCovers`: the CRC is computed over the packet as sent, with its own bytes zero.
  `CrcIsIeee`: what the table-driven loop computes is the remainder of long division
  by the IEEE polynomial, with the inversions and the order of bits of CRC-32. The
  reference shares with the code only the shape of a word.
* `ReadsLiveCache`: nobody copies from the cache before `initialize` has returned or
  after its destructor began. `FreshReplies`: a reply reports, in each part, what the cache held when
  the handler began to copy or something newer, and so a default status only if the cache held one:
  then the controller has not reported yet, or its report was dropped during construction. `NeverOlder`: a later reply about a slot is not older, in any
  part, than an earlier one; torn copies do not break this, because the parts
  go forward one by one.
* `ImplementsServer`, `ImplementsManager`, `ImplementsMain` (refinements): the composition
  keeps what each component takes for granted.
* `CtrlCEnds` starts when the handler of a Ctrl-C has set `shutdown_requested`, not at the
  key press: how Windows starts the handler's thread is not the program's. In `DsuSystem`: the same as in `Main`, with callbacks, copies and
  replies under way.

## 5. The proofs

All theorems hold for every value of the constants that satisfies the named
assumptions. Those about a specification rest on an inductive invariant, `IInv` for
a component.

* **`DsuServer_proofs`** (`ServerAssumption`, `ProtocolAssumption`,
  `CachedAssumption`, `OneSlotAssumption`). `ConsecutiveNumbers` is not inductive: it
  says nothing of the counter. `LastNumber` ties the last number sent to the pending
  reply or the counter, `PendingNumber` ties the pending reply to the counter.
  `LateMessage` says where the thread is after a late message, and `AnswersRequest`
  what the reply in hand answers. `Implements` shows that every step of
  `DsuServer` is one of `DsuService` or a stutter. `OneSlotAssumption` says that the
  8-byte body of a data or motors request holds one slot byte.
* **`ControllerManager_proofs`** (`ManagerAssumption`). `OwnSlot` needs that a callback
  holds the index its controller has or is about to get (`Registered`), that the
  vectors differ only inside `connectController` (`SizesAgree`), that there are no
  more controllers than devices tried (`NoMoreThanTried`) and that a callback or read past its
  test stays within a storage (`InRange`, a property of its own: theorem `StaysInRange`).
* **`Main_proofs`** (`EventsAssumption`). `NoLostWakeup` needs that the mutex is
  held by whoever is in its section (`MutexOwner`), hence that the flag cannot
  be set between the test and the wait (`TestStillHolds`). `NoUseAfterDestroy` and
  `OrderlyExit` follow from `Phase`, which says of each phase of `main` what
  exists and which threads have been joined.

* **`FreshRead_proofs`** (`ManagerAssumption`). `SettledSlot` needs what the unlocked cache keeps
  whatever interleaves. `HealInv` says it: the published cache never falls behind what was
  stored after construction (`KeptStays`), a controller has a slot to itself in every storage
  (`OneSlotEach`), and between the two parts of a write the first is the new one (`HalfWritten`).
  `FreshRead` compares a copy with the cache as it was when the copying began: while that goes on
  the cache only moves forward (`Copied`), because no write is older than what it overwrites
  (`NotAhead`: no part is ahead of its controller's reports). `NotAhead` and `Outgrown` (until the
  destructor runs, the storage in use is not freed) are also used by the composition.
* **`DsuSystem_proofs`** (`SystemAssumption`, `RequestAssumption`, from which the
  assumptions of the three components follow). The components' invariants are not proved again:
  where a step of the program is a step of a component or a stutter of it, the component's own
  `Inductive` lemma, cited through the instance, carries its invariant over. `Composed` adds what
  links them: `Threads` (the main thread starts the listen thread once, stops it before it joins it,
  and destroys the manager only after), `Counted` (every device that connects has its
  controller when its turn is over) and `Handling` (a copy is made only for the request in hand).
  From `Composed` follow the three refinements and `ReadsLiveCache`. For the replies,
  `Behind` says that no reply so far is ahead of the cache nor of what is being copied for the next;
  `FreshReplies` and `NeverOlder` follow from it and from `Copied`, `FreshRead`, `NotAhead` and
  `Outgrown` of the manager.
* **`Induction_proofs`** (no assumption; about sequences and functions). The induction
  theorems of the library take a predicate, and the provers at hand are first-order.
  `NatSetInduction` says the same of a set: a set of counterexamples would have a least element
  (`WFMin`). A recursive function has to be shown to exist before it can be used
  (`PrimitiveRecursion`, for recursion over numbers). `FlattenDef` and the lemmas after it then
  say for every sequence of sequences what `FlattenSeq` returns: its type, that it goes over
  concatenation, its elements.
* **`Crc32_proofs`** (no assumption; about operators). A round of the bit loop is linear
  (`BitStepLinear`), loses nothing (`BitStepInjective`) and only shifts when the low bits are
  zero. So are and do eight. Splitting the register into low byte and rest
  gives `OneLookUpIsEightSteps`, and injectivity gives `DamageStays`. Neither expands the
  polynomial but for its highest bit. `FoldIsLoop` turns the fold over a message into its chain of
  registers. On the chain two inductions rest. `DamageDetected` follows the
  difference of two runs, which by linearity is a run of its own from zero: after the
  last of at most four damaged bytes it is not zero, and then it stays so. `CrcIsPolynomial` shows that
  after i bytes the register is, place by place, what long division has left when it has come down to the
  place of byte i + 1, less the bytes not read yet; one `Cancel` of the division is one `BitStep`
  of the code (`CancelIsBitStep`), with `Generator` reflected to `Poly`.
* **`PacketCodec_proofs`** (`CodecAssumption`, `ContentAssumption`). First, without states:
  what `serialize` writes against what `deserialize` reads. `Faithful` says of a struct and a size
  of buffer that passes its test that either a read must fail (`Lossy` structs only) or the reads,
  put together, store to exactly the members the struct has for that size, in the order in which they
  were written, and take no more bytes than there are; `AllFaithful` proves
  it for all 17 structs and every size, `OwnSize` that a struct's own size passes its test. Then the
  inductive invariant. `Sound` and `RoundTrip` speak of the end only; `Progress` says of the
  middle that the bytes stored so far are the first `pos` of them and the reads to come
  continue there, `Sent` and `Arrived` what is in the buffer, and `Reading` ties them to the place in
  the code. `Progress` gives `Sound` when no read is left, and with `OwnSize` that `RoundTrip` cannot
  be broken by a read past the end (`ReadsBack`), so that of a struct that is not `Lossy` only the
  test of the magic can refuse what was sent (`TestFailsInv`). `SizeDecides` is a second induction
  on top: a packet is judged by its test alone (`PacketTested`, `PacketFits`); of a request, the
  bytes stored and those to come exceed the buffer exactly when `ports` asks for
  too many (`RequestReads`), which is when `DsuProtocol` says so (`PromisedVerdict`). `CrcIsIeee` follows from `CrcIsPolynomial` for the
  bytes of the packet.

Every invariant, action property and refinement that a passing run checks is proved. Only
model-checked are the liveness properties (`StopEndsListening`, `BufferDrains`, `InitializeEnds`,
`DestroyEnds`, `CtrlCEnds`), which are out of the prover's reach. What the `violation` runs
refute has no proof, being false.

## 6. What is not modelled, and the plan

Not modelled: formatters (wording), `dsu_client.hpp` (unused), build files, the inside
of the vendored library, `update`, `setPlayerLed` and `setRumble` (the first does
nothing, the others are never called), and the default message handler, which the
constructor of `DsuServer` replaces.

Of the vendored library only what `controller_manager.cpp` relies on is there: `Connect`, one
receiver thread per controller with its callback, and the join in its destructor.

### The plan

1. Done: `DsuProtocol`, `DsuService`, `DsuServer`, `ControllerManager`, `Main`, `PacketCodec`
   and the theorems of the first five.
2. Done: `DsuSystem`, the composition, with the theorems that it implements its components
   and that replies go forward; `FreshRead` and `SettledSlot`; `Crc32` with its theorems.
3. Done: the theorems about `PacketCodec` for every size, that `compute_crc32` is CRC-32 for
   every message and detects damage to four bytes in a row, and the induction they rest on.
