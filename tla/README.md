# sparkcan: specifications and proofs

TLA+ specifications of sparkcan, the C++ library that drives REV Spark MAX and
Spark FLEX motor controllers over SocketCAN, with TLC configurations and TLAPS
proofs. Paths are relative to the repository (`src/src/SparkBase.cpp` and
`src/include/SparkBase.hpp` are written `cpp` and `hpp`).

## 1. The system

A `SparkBase` object stands for one controller (its CAN id, 0..62) on one CAN
interface. It opens a raw CAN socket, installs a receive filter for that device
id and starts a *reader thread* that handles every frame. All application
threads use the same socket. An object is built for one of two protocols,
`Classic` or `Spark25x` (`protocol_`), and cannot tell which firmware the
controller runs until it asks.

| Component | State | Operations | Talks to |
|---|---|---|---|
| Object lifecycle | `soc_`, `run_`, `thread_`, O_NONBLOCK | constructor (socket, ioctl, bind, filter, thread), destructor (flag, close, join) | the process's descriptor table, the reader thread |
| Reader thread and telemetry caches | `period0_` .. `period4_`, `status5_`, their time stamps, `fw_resp_`, `param_resp_`, `mutex_` | `ReadPeriodicMessages`; the value getters, `StatusNAgeMs` | socket; every other component through the caches and slots |
| Verified parameter write (25.x) | `param_resp_` | `WriteParameterVerified`, `SendRawFrame` | reader thread through the slot; controller |
| Classic parameter query | the socket itself | `ReadParameter`, `SetParameter` | competes with the reader thread for frames |
| Parameter interface | none; the controller's table | some 65 setters and as many getters, `GetParamAs`, `GetPIDParam` | `SetParameter`, `ReadParameter` |
| Arbitration ids and filter | none | `CreateArbId`, `CreateParamArbId`, `MakeArbId`, `CAN_RAW_FILTER` | all senders and the reader thread |
| Firmware query, protocol check | `fw_resp_` | `ReadFirmwareVersion`, `VerifyProtocol` | reader thread; verified write |
| Motor control commands | `velocity_slot_`, `position_slot_` (no lock) | `SetSetpoint` .. `SetSmartMotion`, `SendSetpointWithCtrlType`, `SetVelocitySlot`, `SetPositionSlot`, `Heartbeat`, maintenance and period commands | `SendRawFrame`, the transmit queue, codec |
| Frame codec | none | pack and unpack of the 25.x payloads (`Spark25xFrames.cpp`) and of the classic ones (`cpp`) | reader thread, senders |
| `SparkMax`, `SparkFlex`, examples, tests, scripts | none | forward, call, configure | - |

What is hard here:

* **many threads, one socket.** `select` and `read` are separate calls, the
  reader thread and every querying thread make them, and a frame goes to
  whichever reads first.
* **one slot per kind of answer.** `param_resp_` and `fw_resp_` are single
  optionals under a mutex; requests carry no sequence number, so a late answer,
  an answer to somebody else, and an answer to this call look alike.
* **a bus.** Frames are lost; the transmit queue fills; sibling sockets on the
  same host see each other's transmissions looped back, with the same ids.
* **two protocols in one dispatch.** Class-6 and firmware frames are handled in
  both modes, so a controller with other firmware than expected feeds the same
  caches.
* **one transmit queue, no lock.** Commands of all threads wait for it, fail at
  it and overtake each other at it; the slot in a setpoint is read unprotected.
* **tables by hand.** About 130 accessors name a parameter, a type and a range;
  some thirty payloads are packed or unpacked by shifts and masks.
* **shutdown.** The descriptor is closed before the thread that uses it is joined.

For each component, correctness means: a lifecycle in which no thread outlives
its object and no descriptor is used by a stranger; caches in which an age is
the age of the value it is meant for and time goes forward; a write that says
"true" only for an answer of its own and always ends in bounded time; a query
that never returns another parameter's value nor hangs; accessors that agree
with each other; ids that are unambiguous; payloads out of which comes
what was put in; a protocol check that cannot be fooled by what was left behind;
commands that happen once or not at all, and controllers that end up doing what
was asked last.

## 2. Modules

| Module | Models | Run(s) |
|---|---|---|
| `WriteContract` | what a verified write promises, without slot, attempts or queues | refined by `VerifiedWrite`, used by `ProtocolCheck` |
| `VerifiedWrite` | `WriteParameterVerified`, `SendRawFrame`, the reader's class-14 branch, a lossy bus and other writers | `VerifiedWrite.cfg` |
| `VerifiedWriteProofs` | proofs about it | - |
| `ParamRead` | `ReadParameter` in any number of threads, racing each other and `ReadPeriodicMessages` for frames | `ParamRead.cfg`, `ParamReadNull.cfg` |
| `ParamReadProofs` | proofs about it | - |
| `Telemetry` | the dispatch into the caches; ages and values as an application reads them | `Telemetry.cfg`, `TelemetryMarker.cfg` |
| `TelemetryProofs` | proofs about it | - |
| `ProtocolCheck` | `ReadFirmwareVersion`, `VerifyProtocol`; INSTANCEs `WriteContract` for the 25.x write | `ProtocolCheck.cfg` |
| `ProtocolCheckProofs` | proofs about it | - |
| `Lifecycle` | constructor, destructor, reader thread, descriptor numbers | `Lifecycle.cfg`, `LifecycleStray.cfg` |
| `LifecycleProofs` | proofs about it | - |
| `ParamCatalog` | every setter and getter, `SetParameter`, `GetParamAs`, `GetPIDParam` | `ParamCatalog.cfg`, `ParamCatalogSlots.cfg` |
| `ParamCatalogProofs` | proofs about it | - |
| `ArbIds` | arbitration ids and the receive filter | `Wire.cfg` |
| `FrameCodec` | the encoders and decoders of all payloads | `Wire.cfg` |
| `Wire` | `ArbIds` and `FrameCodec` put together: each frame as sent, filtered, recognised and decoded; refines `ArbIds` | `Wire.cfg` |
| `WireProofs` | proofs about `ArbIds` and `Wire` | - |
| `CommandContract` | what a command promises: once, or thrown and never | refined by `Control` |
| `Control` | the motor commands of several threads to several objects, down to the transmit queue and the controllers | `Control.cfg` |
| `ControlProofs` | proofs about it | - |
| `MC...` | model values for TLC | |

The operators whose names extend that of another (`BeginAttemptKeepsSlot`
before `BeginAttempt`) and whose comment begins with *Mutant of* are plausible
bugs of the code. They belong to no specification; each shows that a property
would notice.

Each module has a type invariant `TypeOK`. It is checked as a part of a larger
invariant, whose parts have names of their own: of the inductive `IndInv` in
`VerifiedWrite` and `Control`, of `AnswersSafe` (`ReadIsAuthentic` and `ReadIsFresh`
in `ParamRead`, `AnswerIsNew` in `ProtocolCheck`), `AgesTrue` (`AgeIsThatOfValue`),
`ReadsBack` (`ReadBack`, `GettersTyped`), `WellFormed` (`OrdersAsLaidOut`) and
`Ownership` (`ReaderWithinLife`, `DescriptorsOwned`). `HeardAsSaid` is `ReportsHeard` and
`AnswersHeard`.

### How state and actions correspond to the code

**VerifiedWrite.** `pc` is where the thread is in `WriteParameterVerified`
(cpp:562-601): *attempt* the loop head, *send* inside `SendRawFrame`
(cpp:96-125), *poll* the inner loop. `slot` is `param_resp_`, `lastCode` is
`*lastResultCode`, `slept` adds up the `sleep_for` calls. One access to the slot
is one step, since the code makes each under `mutex_`. `BeginAttempt` resets
the slot; `SendBusy` is ENOBUFS/EAGAIN, sleeping after every failed write, the
last one included, and throwing after `MaxAttempts`; `SendFailed` is any other
errno; the exceptions leave the function uncaught (`"thrown"`). `PollSuccess`,
`PollRetry`, `PollSleep` and `PollTimeout` are the outcomes of one look at the slot:
a response for another parameter ends the attempt just as a rejection does
(the `break` after the comparison), without touching the out-parameter.
`ReaderStores` is the class-14 branch of the dispatch: it overwrites. The poll
loop's wall clock is counted in sleeps: the thread's other steps take no time.

**ParamRead.** `ReadParameter` (cpp:219-265) of each thread: `write` once (no
retry), `select` with 20 ms, `read` once, decode. The reader thread has its own
`select`/`read` pair and sets O_NONBLOCK when it starts (cpp:379-381). Until then
a `read` of an emptied queue blocks (`ReadBlocks`), and since the kernel looks at
the flag when the call begins, setting it later wakes nobody: `"blocked"` ends
only with a frame. One thread alone cannot get there, because the reader thread
takes no frame before it has set the flag; `crowded` records that two queries ran
at once before that, the one case in which a thread can wait for a frame another
thread took. A request and a setting of another client have the same id as a
response; the decoder looks at the id and the type byte only. A frame about class
48 that the reader thread takes is dropped. `query` keeps the history of a call
that the properties need; `Take` is the return to the caller.

**Telemetry.** One `Dispatch` is one frame under the mutex: `Handled` is the chain
of conditions, `Writes` and `Stamps` are the assignments of each branch. Values
are abstracted to their origin (kind, time received, time handled), which is
what the properties tell apart. The window between the reader's `read` and its
lock is merged with the queue head: nobody else can see a frame in it.

**ProtocolCheck.** Like VerifiedWrite, for `fw_resp_`. A remote frame looped back
arrives with length 8 and no data and passes the reader's length test; it is the
arrival `"zeros"`. The 25.x branch of `VerifyProtocol` is a call of the verified
write, of which only the contract is used.

**Lifecycle.** The constructor and the destructor statement by statement
(cpp:12-84), with the failure of each: `socket`, `ioctl` and `bind` throw and clean
up, a failing `std::thread` throws and leaves the socket open (`"leaked"`), and a
failing `setsockopt` goes unnoticed (`filtered` stays FALSE). An object knows a
descriptor *number*; the table `open` says which socket is behind it now; the
kernel assigns the lowest free one. The reader thread's test of `run_`, its entry into
`select` and its `read` are steps of their own, so that all of the destructor can happen in
between. A `select` or a `read` that already waits
keeps the socket it started with.

**ParamCatalog.** `Parameter` is the enum, built from its runs of consecutive
numbers. `SetterTarget`/`GetterTarget`, `SetType`/`GetType` and `Ranges` are the
accessors' arguments; the arguments tried are those of the C++ type, of an enum its enumerators. `Verdict` is the range test of `SetParameter`, which only
floats reach, because every other type is integral and takes the first branch.

**ArbIds.** Ids as sums; `SumsAreJoins`, an assumption of `MCWire`, compares them with the code's `|`. A
parameter number above 15 carries into the class bits: ids of class 48 run
through 57.

**FrameCodec and Wire.** A payload is its sequence of bytes. `Bits`, `FloatAt` and
`RawByte` are the code's shifts and masks on the assembled 64-bit value, one
operator per decoder and encoder follows the code field by field. `Wire` states
the layouts a second time, as a table of first bit and width per field
(`ReportLayout`, `OrderLayout`, in part `SingleLayout`: the ones quoted in the comments of
`Spark25xFrames.cpp`), and a sender that obeys the table bit by bit (`Packed`: each
bit is that of the field that owns it, or else the sender's fill). What a field
can hold are the constants `Words` and `Numbers`, by its width, any contents at all.
The two are compared on every frame: what a decoder returns with what was packed,
what an encoder produces with the packed order. `Understand` is the reader
thread's whole chain of conditions: the filter, length, id, protocol. A float and
a uint32 are four bytes; a scaled quantity is its count, so the constant factors
do not appear. The frames quoted by the repository's codec tests are assumptions
of `MCWire` (`TestedIds`, `TestedOrders`, `TestedReports`).

**Control.** `pc`: *encode* is the point where a 25.x `SetVelocity` or
`SetPosition` reads its slot (cpp:697, without the mutex), *send* is inside
`SendRawFrame`. `Begin` is a call with valid arguments up to there, `Refuse` one
whose arguments throw (`Verdict`: `SendControlMessage`'s tests and those of the
25.x branches), `SetSlot` and `RefuseSlot` are the slot setters. A frame is its name, the
controller it is for, its value, slot and enable mask; `Wire` shows that ids and
payloads say this much. `txQueue` is the interface's queue, shared by all objects;
`Deliver`, `Lose` and `Lapse` are the bus and the controllers: a controller follows
the last setpoint it got and is enabled by heartbeats. `final` is the history
`ObeysLastWord` is about: calls that completed and were not followed by a call
begun after they returned. The counters of refused calls, attempts and lapses are
bounds. Controllers of both protocols are assumed to obey any setpoint addressed to
them in the protocol of their object.

## 3. Runs

Bounds are the constants marked "bound" in each module and are given in the cfg.

| Run | States | What it shows |
|---|---|---|
| `verified_write` | 3.3 M | `TrueIsAnswered`, `TrueMeansStored`, `CodeExplainsOutcome`, `BlockingBounded`, the inductive invariant, refinement of `WriteContract`, and that each call ends, with loss, late answers, full queues and a write by another node |
| `param_read` | 2.3 M | with two querying threads, no query returns another parameter's value or a stale one; nobody hangs in `read` unless two queries ran before O_NONBLOCK was set; each query ends |
| `param_read_null` (violation) | | the controller answers and the query says "no response" |
| `telemetry` | 0.4 M | an age is that of its value, also when the reader runs between the two getters; caches only move forward; a matched object has each value from the frame that owns it; queued positions arrive |
| `telemetry_marker` (violation) | | a classic frame stamps the Status-2 marker of a 25.x object |
| `param_catalog` | all pairs of settings | what is set reads back and nothing else moves |
| `param_catalog_slots` (violation) | | `GetP(1)` reads what `SetI(0)` wrote |
| `wire` | 38.5 K | ids are unique, the filter is exact, sums are joins; objects of the right device and protocol hear exactly what a controller reported; orders are laid out as specified and none but the period settings and the remote query passes for a report |
| `control` | 0.57 M | a controller ends up with the last call's setpoint, with a slot in force during that call; no invalid setpoint gets out; heartbeats disable nobody; calls happen once or throw (`CommandContract`), and end; the inductive invariant of the proofs |
| `protocol_check` | 0.12 M | no old answer is taken; verification is sound when nobody else asks, and always for 25.x; queries end within their budget |
| `lifecycle` | 1.2 M | with construction failing anywhere, no thread outlives its object, descriptors stay with their owners and foreign frames do not hold up an object's own; if objects come and go in turn no reader strays and each destructor ends |
| `lifecycle_stray` (violation) | | the early `close` lets a reader read a socket opened meanwhile |

**Why the bounds are enough.** Two parameters and two values tell "mine" from
"another"; two calls leave answers of the first for the second; two attempts
make a late answer of the first meet the second; one foreign write is one
overwritten slot; a queue of two has a front and something behind it and can be
full. `MaxAttempts` = 2, `PollSleeps` = 1 and `PollStep` = 1 keep the relation
WaitTime <= PollSleeps * PollStep of the real numbers (50, 10, 5 ms), which is
the only thing the budget needs; the theorems hold for the real ones. In
`ParamRead` three calls of two threads are an old answer, a setting and a query, or
two queries that take each other's answer and a third. In `Telemetry`
two frames are a value and its replacement, two clock readings an age. In
`Lifecycle` one socket must take over the number of another: two objects, and two
numbers so that they can also coexist. `ParamCatalog` is a table: pairs cover
interference. `Wire` enumerates every command, parameter and message for the first, second and
last device, each field at zero, one, both sides of its top bit and the maximum
(32-bit fields at five words, of floats and of all byte patterns; bytes at 0 to 3 and
255, which are the type bytes), independently of the others, and the bits between
the fields all clear and all set. In `Control`
two threads, two objects of any protocols, two calls and a change of a slot are an
overtaken setpoint and a slot that changes between its reading and its use; a
queue of two fills, and two attempts exhaust the retries; one lapse is what a
heartbeat repairs. What more calls, threads, objects, frames and longer queues could do is covered by the
theorems, in every module.

**Deadlock** is not checked where a model ends by its bounds (every run with
calls or frames that are counted). In those, hanging is what the liveness
properties are about: `CallEnds` (of `VerifiedWrite` and of `Control`), `ReadEnds`, `QueryEnds`, `PositionArrives`,
`DestroyEnds` and `FramesHeard`.

**Fairness.** Weak fairness of the thread that is in a call (the operating
system runs it: each step is enabled until taken, since every loop has a
deadline) and of the reader thread (it runs until `run_` is cleared). Nothing is
assumed about controllers, other nodes or the bus. `ProtocolCheck` assumes that a
verified write ends: that is `CallEnds` of `VerifiedWrite`. In `Control` a thread in
a call is fair, `Deliver` is not: calls end even if the queue never drains. In
`ParamRead` a `read` that blocks is a fair step only once a frame is there. In `Lifecycle` a
destructor that has begun is fair; nobody is obliged to begin one. No run uses
symmetry, as symmetry is unsound for liveness.

## 4. Proofs

Every safety property that a passing run checks, invariant, action property or
refinement, is a theorem for all values of the constants. `IndInv` is the inductive invariant, in the proof module or, for
`VerifiedWrite` and `Control`, in the module itself: the properties and what they
lack, part by part, with a comment on each. There is one lemma per action; `InitInv`,
`NextInv` and `Inductive` put them together. (A frame of `Wire` does not depend on
the one before: there `Meant` takes the place of `IndInv`, and the work is in what
follows from it.) The bounds are any natural numbers and the sets any sets, within the
assumptions named in the modules.

`VerifiedWriteProofs`, for every set of parameters, values and codes, every
number of retries and every timing with `TimingAssumption`:

* `Inductive`, `Typing` - `IndInv` is an invariant, with the types.
* `TrueAnswered` - `[]TrueIsAnswered`.
* `TrueStored` - `[]TrueMeansStored`.
* `CodeExplained` - `[]CodeExplainsOutcome`.
* `Blocking` - `[]BlockingBounded`: at most Retries * ((MaxAttempts - 1) *
  WaitTime + PollSleeps * PollStep) ms of sleeping, given that one wait for the
  queue is no longer than a poll.
* `Refinement` - `Spec => Contract!Spec`.

None of the properties is inductive alone. `IndInv` adds: what a poll sees was
stored after the reset (`SlotIsFresh`); the sleeping so far, attempt by attempt
(`Budget`: a failed last transmission throws, so its wait is paid from the polls
it will not make); result and out-parameter move together (`CodeAgrees`); on a
quiet bus every frame in flight belongs to the call and every success in flight
means that the value is already stored (`QuietBus`). There is one lemma per
action and under it one step per conjunct.

`ControlProofs`, for all sets of threads, controllers, commands and values, any number
of attempts, any length of the queue and any number of calls:

* `Inductive`, `Typing` - `IndInv` of `Control`, with the types.
* `SlotChosen` - `[]SlotAsChosen`. Needs that the slot a thread is about to read
  is already among those it has seen (`SlotInForce`): `SetSlot` adds to what
  running calls have seen.
* `SafeOrders` - `[]SafeSetpoints`, from the checks of the calls (`CallsValid`)
  through the queue to the controllers (`OrdersValid`).
* `Heartbeats` - `HeartbeatReachesAll`, an action property: broadcasts in the
  queue carry the full mask.
* `LastWordObeyed` - `[]ObeysLastWord`. Its own invariant `LastWord` is about what
  a controller will follow in the end: the last setpoint under way to it, or what
  it follows now if there is none, was asked for by a call in `final`. Accepting
  a frame makes its call the newest; delivering shifts the queue; nothing else
  touches either.
* `Refinement` - `Spec => Contract!Spec`: the frame queued for a call is the
  effect the call was made for (`OneEffect`), a return ends one call (`OneDoing`).

The proofs assume that the commands are those of the code (`OpsAssumption`), that
slots are bytes (`SlotsAssumption`) and that the bounds are numbers.

`ParamReadProofs`, for all sets of threads, parameters and values:

* `Answers` - `[]AnswersSafe`. The history `said` covers the table and every value
  in the queue (`Truthful`); for a query that is left alone its history `during`
  does so too, for its own parameter (`Timely`).
* `NeverStuck` - `[]NeverStuckInRead`. As long as no two queries have met and
  O_NONBLOCK is not set, at most one thread is in a call and the reader thread
  takes nothing, so what `select` saw is still there at the `read` (`OneAtATime`).

`TelemetryProofs`, for every queue, any frames and any clock:

* `TrueAges` - `[]AgesTrue`, and `SafeOrder` - `[]AgeThenValueIsSafe`: nothing is
  stamped in the future (`PastOnly`), and while the application holds an age, its
  cache can only get younger (`Patient`).
* `Owned` - `[]OwnedWhenMatched`: a matched controller without siblings has no
  class-6 frame of its device in the queue (`QueuedWhenMatched`).
* `Newer` - `OnlyNewer`, an action property: the queue is ordered by arrival and
  lies behind everything cached (`InOrder`).

`ProtocolCheckProofs`, for every timing (`TimingAssumption`) and every pair of protocol
and firmware:

* `NewAnswers` - `[]AnswersSafe`: in the polls a full slot was filled since the
  reset (`Phases`).
* `Alone` - `[]SoundWhenAlone`: with nobody else asking, every version in the queue
  or in the slot is an honest one (`Undisturbed`, `Honest`).
* `Sound` - `[]Sound25x`: only 25.x firmware says that a write succeeded (`Heard25x`),
  and the write returns true only for one it heard.
* `Blocking` - `[]BlockingBounded`, from the sleeping so far (`Budget`).

`LifecycleProofs`, for any objects with any devices, any descriptor numbers and
frames, with construction failing anywhere. `NamesAssumption` keeps the names of
objects apart from the places of a thread:

* `Owns` - `[]Ownership`: what a thread may do follows from where its object is in
  its life (`Threads`), and a socket is behind one descriptor only, the one its object
  remembers (`Held`). That the lowest free number exists is well-foundedness of
  the numbers (`LowestFacts`).
* `InTurn` - `[]OwnsSocketInTurn`: without overlap only one object is under
  construction or destruction, so a descriptor closed before the join is not
  assigned again until the thread has ended (`OneByOne`).

`ParamCatalogProofs`, for any number of settings:

* `Disjoint` - `[]SettersDisjoint`: distinct setters, or slots, address distinct
  numbers (`NumbersDiffer`). `Parameter` is built from runs of enumerators; the proof first
  shows which number each name has (`Base`, `EntryNumbers`) and then that no two
  slots of the families, which are 8, 5 and 4 numbers long, meet.
* `Readable` - `[]ReadsBack`: what was accepted lies in the table under its number
  with the type of the setter (`Kept`) and within the width the getter casts to
  (`Fitting`), and slotted parameters are floats (`SlottedFloats`), which is all a
  slotted getter with its wrong number can meet.

`WireProofs`, for every set of device ids in 0..62 and every set of foreign ids
that differ from ours in device type or manufacturer: `Identification`
(`[]IdIdentifies`) and `Filtering` (`[]FilterExact`). The argument: an id is a base plus 64 times
a number below 1024 plus the device (`IdShape`), the number determines the kind
and the code (`NumberIdentifies`, from the actual lists of commands and
messages), and a foreign id that passed the filter would have our quotients
(`AliensRefused`). For `Wire`:

* `IdsOnWire` - `IdIdentifies` and `FilterExact` hold of every frame of `Wire`, as each
  report, order, release and foreign frame is a step of `ArbIds` (the lemma `OnBus`).
  `BroadcastAssumption` says that 0, the device number of the broadcast heartbeat, is
  among those whose ids are considered.
* `FormedWell` - `[]WellFormed`: every encoder writes, bit for bit, the frame that the
  layout describes.
* `HeardRight` - `[]HeardAsSaid`: every decoder takes out what was put in, whatever
  stands between the fields, and only objects of that device and protocol hear it.
* `Unmistaken` - `[]OrdersAreNotReports`: the ids of the reports are a short list
  (`LookedFor`), and of the orders only period settings and remote queries have one
  of them.

The last three rest on `Meant`: the frame, the message and the bytes on the bus
are those of one sender and one content. The argument for the payloads, from the bits up:

1. Each layout of the table is sound (`OrdersLaid`, `ReportsLaid`): no two of
   its fields share a bit (`Laid`), and each has a width the codec knows and holds
   contents of that width (`Plain`). So a bit of a packed payload is that of the one field that owns it
   (`FieldBit`) or the fill (`FillBit`).
2. A byte is the sum of its bits (`ByteOfBits`), hence what a field leaves in the bytes it
   covers: a whole byte (`FullByte`, `HeldByte`), a byte of a word (`WordField`), or parts
   of two or three bytes where a field of 10, 12 or 22 bits begins or ends in the middle
   of one (`Parts`).
3. `Bits(data, first, width)` depends on those bytes only (`Cuts`, `BitsOfBytes`). Together:
   reading a field of a packed payload gives its content, one lemma per width
   (`GetByte`, `GetHalf`, `GetLow`, `GetHigh`, `GetBit`, `GetWord`, `GetTen`,
   `GetTwentyTwo`), and from them one lemma per decoder (`Status0Read` to `AnswerRead`);
   `SignedShort` is the sign of the duty cycle.
4. The other way round, two payloads of one length are equal if they have the same
   bytes (`WrittenOut`, with `PutWord`, `PutHalf`, `PutByte`, `PutTwo`, `PutNothing` for what a
   packed byte is): one lemma per encoder (`ControlWritten` to `MaskWritten`), put
   together in `OrderWritten`.
5. Of the reader thread's chain of conditions exactly one branch applies to a report,
   by its id and its length (`Dispatch`, `ReportShape`); ids differ (`IdsDiffer`), and
   the filter keeps other devices out (`Unheard`).

The assumptions are about the data only: a 32-bit field holds four bytes
(`WordsAssumption`), a field of w bits a number below 2^w (`NumbersAssumption`), and
parameter numbers are those of the enum (`SomeIdsAssumption`). As `Words` and `Numbers` may list every
word and every number, the theorems cover each frame that can be sent.

Model-checked only:

* liveness (`CallEnds` of two modules, `ReadEnds`, `QueryEnds`, `PositionArrives`,
  `DestroyEnds`, `FramesHeard`): out of this prover's reach, like ENABLED;
* `SumsAreJoins`, as `Bitwise` is recursive, and the frames of the codec tests
  (`TestedIds`, `TestedOrders`, `TestedReports`), which are single values.

## 5. Findings

The four violation runs; `PROJECT.json` quotes the lines. Two are bugs: `GetPIDParam` adds the
slot to an enumerator of a family that is laid out by slot first (cpp:325), and
the destructor closes the descriptor before joining its user (cpp:80). Two are
places where the code does less than its documentation says: `nullopt` does not
mean silence (hpp:509), and class-6 frames stamp the Status-2 marker (hpp:890).

Also met while modelling, without a run of their own:

* A verified write can be stored and still return false: the success arrives
  after the deadline, or another response overwrites it before it is polled. The
  documentation's "iff" (hpp:600) holds in one direction, `TrueIsAnswered`.
* With three retries a call sleeps up to 3 * (49 + 50) = 297 ms on a full
  transmit queue, where hpp:603 says about 150; a firmware query up to 99 where
  hpp:578 says about 50.
* `SetParameter` tests ranges of floats only (cpp:206), where hpp:496 promises the
  exception for all types: `SetEncoderAverageDepth(255)` is sent although its range is
  1..64. `Verdict` models it so; no property promises ranges of integers.
* An answer to the classic firmware query does not prove classic firmware, as
  cpp:618 has it: another client's remote frame loops back with the same id and
  passes for an answer. `SoundWhenAlone` is what remains true.
* Two queries on a new object, before its reader thread has set O_NONBLOCK, can
  leave one of them in `read` until the next frame (`crowded` in `ParamRead`).
* If `std::thread` throws, the constructor leaves its socket open (`"leaked"`).
* `GetDutyCycle` promises [-1, 1] (hpp:816); the 25.x scale reaches 1.01 at the
  ends of the 16-bit field.
* In 25.x mode no frame writes what `IsInverted`, `GetIdleMode` and `IsFollower`
  return: they stay at their initial values.
* A two-byte `SetPeriodicStatusNPeriod` of another object on the host has the id of
  the status frame and is decoded as one (the exception in `OrdersAreNotReports`).
* `SendSetpointWithCtrlType` and `SetPrimaryEncoderPosition` send NaN and infinities
  (the exception in `SafeSetpoints`).
* `ResetFaults` and `ClearStickyFaults` transmit the same frame (cpp:668, cpp:674).
* The classic analog velocity is decoded as unsigned (cpp:443).

## 6. Not modelled

* `SparkMax`, `SparkFlex` forward to `SparkBase`; examples, build files, macOS
  headers and the adapter script have no behaviour of the library's.
* Values that belong together, read through two getters (cpp:848-872): nothing promises
  a snapshot, so there is nothing to state.
* Float arithmetic: the scale factors of the decoders and rounding. Payloads of
  `Telemetry` and `Control` are by origin and by name; their bits are in `Wire`.
* What a controller does with an order beyond following it: motion, limits,
  follower mode, flash.
* Real time, except as counted sleeps; 20 ms and 50 ms are the steps that may be
  taken when nothing has arrived.

## 7. Plan

Done, in this order: VerifiedWrite with its contract and proofs (the most
intricate handshake), ParamRead, Telemetry, ParamCatalog, ArbIds with proofs,
ProtocolCheck on the contract, Lifecycle; then FrameCodec and Wire over ArbIds,
Control with its contract and proofs, several querying threads in ParamRead, the
failures of construction in Lifecycle.

Then the proofs of ParamRead, Telemetry, ProtocolCheck, Lifecycle, ParamCatalog
and of Wire's refinement of ArbIds; last those of the codec, bit by bit, with which
every safety property has its theorem.

What could follow: a second object and its siblings in `Telemetry`, so that the frames one
object orders are those another one caches; the scale factors of the decoders, as
rationals; and a controller with a parameter table behind `ParamRead` and `ParamCatalog` at
once.
