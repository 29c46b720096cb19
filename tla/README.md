# Serial GPIO Extension: specification and proofs

TLA+ models of the serial GPIO bridge in `src/`: a Teensy firmware (C++ on
FreeRTOS) that drives pins on behalf of text frames on USB serial, and a ROS 2
action server (Python) that turns action goals into those frames.  TLC checks
the models on small instances; TLAPS proves every safety property the runs check
for every size: of the parser and the firmware's tasks, of the host's receive
path, of the action server, of the client library and of the bench script; and
that firmware and server take no step their abstract specifications forbid.  The
path of an operation is covered from the node that starts it, over the client
library, the action server and the host's receive buffer, to the parser and the
tasks of the board, and so is the bench script that talks to the board without
all that.

## 1. The system

```
 clients --goal--> GpioServer --queue--> sender --@W,7,D,L,13,1;\n--> SerialRxTask
 (SGPIO)           execute_callback                                    (parser)
    ^                 ^  serial_id_map                                   | request queue
    |                 |                                                  v
    +----result-------+<--- matcher <--queue-- receiver           CommandDispatcherTask
                                                  ^               | pin queues, one per slot
                                                  |               v
                                    SerialTxTask <-- response queue <-- workers
```

| Component | Source | State | Operations |
|---|---|---|---|
| Request frame parser | `request_frame_parser.cpp` | `inFrame_`, `awaitingLineEnd_`, payload buffer, statistics | one byte at a time: start, store, end, resynchronise, decode, offer to the request queue |
| Command dispatcher | `request_dispatcher.cpp` | the request in hand | receive, reject, create a session, route, clear a pin queue, enqueue, send an error |
| Pin registry, session factory | `pin_registry.h`, `pin_session_factory.*` | two arrays of sessions | find, store, create with queue and task |
| Pin sessions and drivers | `pin_session.cpp`, `*_pin.cpp` | mode, pin queue, worker task, pin level | init, receive, read or drive, answer |
| Tasks and queues | `app_task.cpp` | request queue, response queue | RX, dispatcher, TX |
| Action server | `API/sgpio_server.py` | serial ids, `serial_id_map`, per-goal event and response | execute a goal, match a response, shut down |
| Sender, receiver | `API/sgpio_frame_sender.py`, `API/sgpio_frame_receiver.py` | the two frame queues, stop token | serialise and send; receive and decode |
| Serial port handler | `API/teensy_serial_handler.py` | port, receive buffer | connect, send, receive, disconnect |
| Host frame codec | `API/sgpio_frame_handler.py`, `API/frame_codec.py` | none | frame to text and back |
| Client library | `API/sgpio_lib.py` | `_req_id`, pending callbacks | operations, callback chain |
| Example and test nodes | `API/ping_node.py`, `API/node_example.py`, `API/brust_test.py` | in-flight flags, `start_time`, `led_state`, burst counters | timers that start operations, callbacks |
| Bench script | `scripts/send_test_frames.py` | line queue, read buffer, stop event | send frames, drain and collect lines, validate |

Components interact only through queues (FreeRTOS queues on the board, Python
queues on the host), the serial line, the session registry (written by the
dispatcher only), and on the host `serial_id_map`, goal handles and the stop
token.

What is hard: a worker and the dispatcher drain the same pin queue; senders block
for good on a full response queue while the RX task does not block at all;
requests are cancelled while others are being carried out; a goal's timeout races
its answer; ids are reused; threads are joined with timeouts; a burst of answers
meets a receive call that returns one frame; a callback may come inside the call
that starts its operation, late, or never.  `PROJECT.json`
lists each hazard with its line and the properties that cover it.

What makes each component correct:

- parser: exactly the well-formed lines become requests, whatever surrounds them;
- dispatcher and workers: each request is in one place and is answered once;
  requests go to the session of their pin and mode; effects keep their order; a
  high-priority request overtakes all that is pending; an answer tells the truth;
- tasks and queues: no task waits for ever;
- action server: a goal ends, and with its own answer; nothing of it stays behind;
  threads that read the port stop before it is closed; to its clients a success
  means done, a refusal never, a timeout neither;
- receive path: exactly the answers the board wrote are handed on, in order, and
  none stays in the buffer for ever;
- client library: one callback per operation, told the truth, unless the server
  dies under it; nodes: their flags keep requests apart and agree with the pin;
- bench script: no line is lost between its threads, and its verdict is true.

## 2. Modules

| Module | What it is |
|---|---|
| `GpioFrames` | protocol vocabulary, request semantics, registry bounds, driver decision tables; pure operators |
| `FirmwareRuntime` | RX, dispatcher, workers and TX around the three kinds of queue |
| `FirmwareSafety` | type invariant, safety, order and liveness properties of the runtime |
| `GpioDevice` | abstract specification: the board as one object that loses, refuses, or carries out and confirms |
| `FirmwareRefinement` | the refinement mapping from the runtime to `GpioDevice` |
| `FirmwareProofs` | theorems: types, priority, routing and order of requests |
| `FirmwareCustodyProofs` | theorems: where a request is, and what its answer means |
| `FirmwareRefinementProofs` | theorem: every step of the runtime is one of `GpioDevice` |
| `RequestFrameParser` | the framing state machine and the one-scan decoder |
| `HostLine` | the line the host writes for a request |
| `ParserSafety` | reference definitions of lines and payloads, parser properties |
| `ParserProofs` | theorems: the decoder against its reference, framing, the host's lines |
| `GpioServer` | action server with its executor, sender, receiver, matcher and main threads |
| `GpioServerSafety` | properties of the server |
| `ActionContract` | abstract specification: what a client may rely on when it sends a goal |
| `ServerRefinement` | the refinement mapping from `GpioServer` to `ActionContract` |
| `ServerProofs` | theorems about the server and its contract |
| `SerialReceive` | the receiver thread, `TeensySerialHandler.receive` and its buffer, the decoding of answers |
| `ReceiveSafety` | which answers a stream holds, and what becomes of them |
| `ReceiveProofs` | theorems about the receive buffer and the answers handed on |
| `SgpioClient` | one operation of the client library, over `ActionContract` |
| `ClientNodes` | the three kinds of node on top of `SgpioClient` |
| `ClientSafety` | properties of the library and the nodes; the module of run `client` |
| `ClientProofs` | theorems about the library, the latency test, the LED blinker and the burst |
| `BenchScript` | the main thread and the line reader of the bench script, and the validation |
| `BenchSafety` | what the script's verdict means |
| `BenchProofs` | theorems about the lines and the verdict |
| `MCFirmware`, `MCParser`, `MCServer`, `MCReceive`, `MCBench` | workloads and streams for TLC |

`ActionContract` is used twice: `ServerRefinement` shows that the server implements
it, and `SgpioClient` takes it in place of the server, so that the nodes are
checked against the contract and not against five threads.

Operators called "Mutant" in a comment belong to no specification: each is a
plausible bug in the definition below it and shows that some property notices.

### FirmwareRuntime

One action is what a task does between two operations on a queue, a session or a
pin.  `dispPc`, `workerPc[s]` and `txPc` are the program counters of the tasks.
A slot `<<bank, n>>` is an element of `pinSessions` or `i2cSessions`.

- The RX task hands over what the parser decoded (`RxQueues`) or drops it when
  the queue is full (`RxDrops`); `Workload` is what the host sends.
- `DispatcherReceives`, then `DispatchRejects`, or `CreatesSession` /
  `CreateSessionFails`, then `RoutesRequest`.  A high-priority request goes
  through `ClearsOne` / `SendsCancelled` until `ClearsNothing`, and everything
  through `EnqueuesPinRequest`; errors leave by `SendsError`.
- `WorkerInits`, then `WorkerReceives`, `WorkerHandles`, `WorkerResponds` for ever.
- `TxReceives`, `TxWrites`.

Abstractions:

- The ten writes of the TX task are one step: it is the only writer of the port.
- Creating a session and storing it are one step: a worker started in between can
  only initialise its pin, and its queue is empty until the dispatcher enqueues.
- `kBadFunction` is in the model but never sent, as the parser has refused such
  frames before.  The second lookup after creating a session cannot fail.
- `applyPinConfig`, `startWorkerTask` and `stopWorkerTask` are called by nothing.
- `Undriven` (65536, no `uint16_t`) is the level of an output before its first
  write.  Level and reported value are the ones handed to the servo, analog and
  DAC libraries.
- A task's local frame is reset to `EmptyRequest` when it is dead.
- `executed` and `notCreated` (the requests whose session could not be created) are
  history; what a failed creation frees is left out.

### RequestFrameParser

A step is one iteration of the loop over the bytes read.  `stream` is what
arrives, chosen in the initial state; how it is cut into reads does not matter, as
the parser keeps its state between them.  `ConstructFrame` is the one scan over the
payload, with its `fieldIndex`, `fieldLength` and `numericValue`: `Scans` gives the
scan after each byte.  The reference (`ReferenceFrame`) cuts the payload at its
first six delimiters and judges each field by itself; the two share only the
codecs, the limits and the value of a digit.  `consumed` and `offered` are history variables:
the properties are stated over them and not over the parser's own state.

### GpioServer

A goal is what its `execute_callback` does between two accesses to something
shared: `StartsGoal` (or `FailsConversion`), `AllocatesId`, `RegistersGoal`,
`QueuesFrame`, then `Wakes` and `CollectsResponse`, or `TimesOut`, then
`EndsGoal`.  The matcher is `GpioServer._receiver_loop`: `MatcherLooksUp` holds
the lock, `MatcherAttaches` and `MatcherSetsEvent` do not.  The board and the
line are external: a frame may be lost, served, refused, answered in any order.
A timeout may expire whenever what it waits for has not happened.  The joins of
`destroy_node` follow the durations in the code: the receiver and the matcher
come round faster than their joins give up, as long as a read returns within
its second; the sender's join gives up whatever the sender does, which may be a
write, and that has no timeout.

A goal's result reaches the client when `execute_callback` has returned it, so
`ServerRefinement` counts it then: a goal whose answer is attached is still
`accepted`.  `Apply` of the contract is what the board does, which may come after
the goal was abandoned.

### SerialReceive

One action is a turn of the receiver loop: `Receives(count)` reads the `count`
tokens that have arrived (or waits for one; 0 is a wait that took the whole read
timeout of one second), bounds the buffer, drops what stands before the first
frame start, takes out one frame and decodes it.  A token is a delimiter or what
stands between two, so both limits of the buffer count tokens.  `lost`, `held`
are history: what a full buffer threw away, and how many read timeouts a frame
has waited.  A frame decodes to something (`ResponsesIn`) when it is one of the texts
of `Responses`, which are the ones whose `split(",")` has four parts that their
conversions accept.  `GpioServer` has the same thread with its answers whole; the answers
this module shows to be lost or late are among those its `BoardLoses` loses and
its timeouts outrun.

### SgpioClient and ClientNodes

Operations are numbered by the ids `_next_id` gives them.  An action is one
callback of the node's executor, which runs one at a time; an operation that
fails at once calls its callback inside the timer's action (`FailsAtOnce`), as in
the code.  `stage` is the future the library waits for.  `ServerDies` orphans the
operations under way: their futures never complete.  `RaisesOnId` is the
exception a request id beyond `uint16` raises out of the timer callback, which
ends the spin (`alive`); it stays possible that the generated message does not
check the range, so `SendsGoal` is not excluded.  `ClientNodes` adds the latency
test (`PingTimer`, `PingDone`), the LED blinker (`LedTimer`, `LedDone`), the
timers without a guard (`PollTimer`) and the burst test (`Burst...`); one node
runs, chosen in the initial state.  `BurstShutsDown` is `rclpy.shutdown()` taking
effect; callbacks that are ready by then may still run, which is what the
`finished` tests in the code are for.  A write of the LED whose goal has ended had
its frame in the sender's queue before the next was sent, and the board keeps that
order (`ExecutedInOrder` of the firmware); one whose future failed may still wait
for a thread of the server and be overtaken there (`CarriesOutInOrder`).  `latest`,
the operation the board carried out last, is history.  A failed callback counts as a completed request in the burst
test, as in the code.

### BenchScript

`Main` is the main thread, one step per write, flush, queue operation, deadline
and join; `Reader` is `SerialLineReader.run`, whose `readline` returns a line or, at
its timeout, the beginning of one.  A line arrives in up to three pieces.  The
board answers in any order, with success, an error or not at all, and may send
debug lines.  `leftover` is an answer of an earlier run, whole or its rest, that
arrives after the buffers were reset; ids start from one in every run, so a whole
one can be taken for the answer to the frame with its id (`StaleIds`).  `longReads`
says that a `readline` may outlast the second that `join` waits: with a `--timeout`
beyond it, or with bytes that keep coming, each of which restarts the timeout.  The pauses between batches and the printed statistics
are left out; the counts that make the verdict are `Failures`.

## 3. Runs

| Run | Question | Bounds |
|---|---|---|
| `fw_priority` | custody, order, priority and truth of answers when queues fill | one output, 5 requests of either priority, queues 2 / 1 / 2 |
| `fw_routing` | slots, modes and reported values; does anybody wait for ever; does the runtime implement `GpioDevice` | 3 requests out of 7: one number in three pin types and two modes, pin 0, two frames the parser refuses; all queues of length 1 |
| `fw_backpressure` | violation: a full request queue loses frames | as `fw_priority` |
| `parser` | framing and decoding against the reference; do the host's lines arrive unchanged | every sequence of 3 out of 12 fragments; one line with up to two fields replaced by 17 tokens each; host requests from the corners of every field, up to the 21-byte payload |
| `receive` | which answers are handed on, and when | three lines of 7 kinds each, cut at the beginning, a burst of four answers, and more text between two answers than an unframed buffer may hold; reads of any size, buffer of 24 tokens |
| `receive_backlog` | violation: answers that have arrived are kept until their goals time out | one burst of four answers |
| `server_results` | own answers only, nothing thrown away too early, readers stop first; does the server implement `ActionContract` | two goals, one malformed goal, two ids, two threads, any failure, any shutdown |
| `server_wraparound` | the same machinery when ids repeat | two goals, one id |
| `server_liveness` | goals end, the server ends | one malformed goal, one goal, one thread |
| `server_shutdown` | violation: a worker outlives the port | two goals |
| `client` | one true callback per operation; the nodes' flags; the burst test ends | each node, three operations, ids up to 2, one death of the server, a burst of two |
| `bench` | lines survive the two threads, the verdict is true both ways, the script ends unless a flush never returns | one pin, no or one blink cycle (two frames), one debug line, three kinds of leftover, refused pins |

Why the bounds are enough.  *Firmware*: the phenomena need a request being
handled, others pending behind it, one being dispatched and one still queued;
five requests give all of these at once, with the pin queue able to fill, be
cleared and fill again.  Queues of length one make every blocking send block.
Two sessions are enough for contention, as workers share nothing but the response
queue.  *Parser*: its state is what came since the last `@`, so three fragments
(two that meet and one after) reach every transition from every kind of state;
the payload limit is the real one.  *Receive path*: the buffer is what came since
the last frame end, so three lines (a broken one, the one it swallows, the next)
show what happens to each; 24 tokens are two lines and a half, less than the
burst, so the buffer overflows at every place of a line.  *Server*: two goals are enough for
one to take the other's mapping, event or thread; id reuse depends only on two
goals having equal ids, so the id space shrinks with the goals.  *Client*: the
flags look one operation back, so three operations (one abandoned, one in flight,
one after) reach every relation between flag, answer and pin; with ids up to 2
the third is the one beyond `uint16`.  *Bench*: the verdict quantifies over
requests one by one; two let answers come in either order and one be missing.

Deadlock checking is off but in `bench`: a behaviour ends when the bounded number
of requests, bytes, operations or goals is used up, and the server stops by
design.  In `bench` a script that has returned stutters (`Ended`), and nothing
else may stop.

Fairness.  All firmware tasks have priority `configMAX_PRIORITIES - 1` and are
time-sliced, so each ready task runs again and again: weak fairness for each
task.  The host need not send anything.  With a bounded number of requests a task
blocked on a full queue is enabled for good once the queue has been drained, so
weak fairness is enough.  On the host every thread that is not blocked runs; a
serial write may block for ever (`SenderSends` and `SenderFails` are not fair),
the board owes nothing, nobody has to interrupt.  The receiver thread runs and a
read ends after its timeout (`Receives(0)`); streams are finite, so the line falls
silent in the end.  A node's executor runs what is ready and its timers fire;
the server ends the goals it has while it lives, which is `EveryGoalEnds`, but
need not live nor come back; futures need not fail.  Both threads of the bench
script run, `readline` returns after its timeout, and so does `write`, or it
raises; `flush` has no timeout and need not return (`Main /\ pc # "flush"`).  The
board owes nothing.

## 4. Proofs

Every theorem is about `Spec`, without the fairness of `FairSpec`, and for all
values of the constants its assumptions allow.  A proof has a lemma for the initial
states and one for the step, with a case per action; what taking the head of a
queue or appending to one does is stated once.  The strengthenings below
were checked by TLC on the constants of the runs before they were proved.

### Firmware

For every workload over `uint8_t` pins and `uint16_t` values, every number of
requests and all positive queue lengths (`WorkloadAssumption`,
`CapacityAssumption`):

| Theorem | Statement |
|---|---|
| `TypeCorrect` | `Spec => []TypeOK` |
| `HighPriorityFirst` | `Spec => []HighPriorityGoesFirst` |
| `RequestsRoutedToOwnSession` | `Spec => []RoutedToOwnSession` |
| `PinOrder` | `Spec => ExecutedInOrder` |
| `RequestPath` | `Spec => []RequestPathInv` |
| `OneHolderAlways` | `Spec => []OneHolder` |
| `AnswersAreJustified` | `Spec => []AnswersJustified` |
| `WritesReport` | `Spec => []WritesReportAppliedValue` |
| `FirmwareIsADevice` | `Spec => Device!DeviceInit /\ [][Device!DeviceNext]_(Device!deviceVars)` |

`HighPriorityGoesFirst` is not inductive: `PriorityInv` adds that the dispatcher
still finds the pin queue empty when it gets from clearing it to enqueueing.
`RoutedToOwnSession` needs `RoutingInv`: what the dispatcher checked of a session
stays true until it enqueues.  `ExecutedInOrder` is an action property; `OrderInv`
carries it: along the request queue, the dispatcher's hand, the pin queue and
the worker's hand, ids only decrease, down to the last id carried out.  The three
together are `RequestPathInv`, which `fw_routing` also checks.

`OneHolder` is inductive once it is seen as a function: `Held` gives the ids at
each place, `Custody` says that these sets are disjoint and cover what was
received, and every action moves one id from one place to another, brings a new
one, or moves none (`MovingKeepsCustody`, `ArrivingKeepsCustody`,
`StayingKeepsCustody`).

What an answer means follows from four invariants on top of that.  `RecordsInv`: a
request is, wherever it is, what the parser decoded.  `RefusalInv`: the dispatcher
still has the reason for which it refuses, and a reason once there stays, as a
session is never replaced (`SessionsStay`).  `ExecutedInv`: a request that was
carried out has an answer or a worker about to give it, so with `OneHolder` it is
nowhere it could be refused.  `ReportInv`: a worker about to answer a write holds
the value its pin has.

The refinement is proved step by step: a request that arrives becomes pending or
lost (`RxReceives`), a worker's operation is the device's (`WorkerCarriesOut`), a
written answer is the device's answer (`TxAnswers`), and the rest stutters
(`RestStutters`).  `HistoryInv` (what was carried out is at most the last id of its
slot) shows that the device carries nothing out twice or out of order.
`DeviceImplemented`, which the runs check, also says that the device answers in the
end; that part is not proved.

### Parser

For any streams of characters (`StreamsAssumption`) and any set of requests within
the widths of their fields (`HostFramesAssumption`):

| Theorem | Statement |
|---|---|
| `TypeCorrect` | `Spec => []TypeOK` |
| `EveryStartCounted` | `Spec => []StatisticsAccountForEveryStart` |
| `DecoderIsReference` | `ConstructFrame(payload) = ReferenceFrame(payload)`, for every payload |
| `ExactlyTheWellFormedLines` | `Spec => []OffersExactlyTheWellFormedLines` |
| `HostRequestsOffered` | `Spec => []HostRequestsArriveUnchanged` |

The counts are inductive over the types: the set of frame starts grows by one
exactly when a `@` is read, and each step that ends a frame counts it.

`ExactlyTheWellFormedLines` has two halves.  *Framing*: `FramingInv` says what the
parser's state means in terms of the bytes consumed: it is in a frame exactly when
a frame start is followed by payload bytes that fit, or by a payload, `;` and
carriage returns only; the buffer is what stands in between.  So a line feed
completes a line of the reference exactly when `EndsLine` is taken, and the payload
of that line is the buffer (`WellFormedLinesGrow`).  *Decoding*: `DecoderIsReference`
says that `ConstructFrame` and `ReferenceFrame` agree on every payload, of any
length over any characters.  Its invariant `Scanned` is carried along the scan: the
completed fields are the reference's, each good for its place and with its value in
the frame, and the open one is a good beginning (`FieldEnds`, `FieldContinues`); a
scan that rejects leaves a field that the reference refuses, whatever follows.
That a recursive function satisfies its own equation, and what holds along the
positions of a text, is shown by induction over a set of numbers (`SetInduction`,
from the least element of a set), as the library's induction theorems are out of
reach.

`HostRequestsOffered` adds the other direction of the wire: the digits of a number
spell it (`DecimalIs`), the six fields of a text joined from six fields are those
(`SixFields`), so the payload the host writes has at most 21 bytes and stands for
the request it was written from (`HostPayloadIs`).

### Receive path

For any streams of tokens and any limits of the buffer (`StreamsAssumption`,
`LimitsAssumption`):

| Theorem | Statement |
|---|---|
| `TypeCorrect` | `Spec => []TypeOK` |
| `AnswersInOrder` | `Spec => []HandsOnExactlyTheAnswers` |
| `AnswersWaitBehindOthers` | `Spec => []HeldOnlyBehindOthers` |

`BoardAssumption` is needed for the second: a text of four fields that the host
would take for a response is one the board writes as an answer, as `SerialTxTask`
writes nothing else (a debug frame is sent by functions nothing calls).  TLC
evaluates it on the streams of the runs.

The inductive invariant is `ReceiveInv`: the buffer is the part of the stream behind
`Gone`, all that a full buffer lost stands before that (`GoneInv`), and a frame start
that has left the buffer left it with a frame end, or was lost (`CutInv`).  So what
is due is never taken apart, and the frame a turn takes out is an answer of the
board that was due and not handed on yet, or brings nothing (`NewAnswer`); the list
grows by just that one.  `HeldInv` bounds the read timeouts a frame end has waited by
the frame ends before it, and by those that have left the buffer, one less while
its frame is still there: each timeout takes one of them out.

### Action server

For any set of goals, finite or not, any id space and any number of threads
(`GoalsAssumption`, `SizesAssumption`), also when serial ids repeat:

| Theorem | Statement |
|---|---|
| `TypeCorrect` | `Spec => []TypeOK` |
| `MappingsLive` | `Spec => []MappingsAreLive` |
| `WokenWithResponse` | `Spec => []WokenGoalsHaveResponse` |
| `ReadersStopBeforeClose` | `Spec => []ReadersStopFirst` |

and under `IdsDoNotRepeat`, at most as many well-formed goals as ids:

| Theorem | Statement |
|---|---|
| `ResultsOwn` | `Spec => []ResultsAreOwn` |
| `DiscardsGivenUp` | `Spec => []DiscardsOnlyGivenUp` |
| `ImplementsContract` | `Spec => ContractImplemented` |

The hypothesis is needed: `_allocate_serial_id` wraps and looks at nothing, so once
two goals have had the same id a late answer to the older can reach the newer, and
the three statements are false (section 6).  It holds for the first 65536 goals of
a server, and in the runs that check the three properties.

`WokenGoalsHaveResponse` needs `WakingInv`: the matcher attaches before it sets, so
an event that is set has a response.  `ReadersStopFirst` needs that `main` gets past
a join only when the thread has stopped (`ShutdownInv`).  For the other three the
inductive invariant is `ServerInv`.  Its parts: goals that have an id have
different ones, all below the counter (`IdsInv`); a registered goal is found under
its id until it removes itself (`RegisteredInv`); every frame and every answer
carries the id of its goal, and an answer says whether the goal was carried out
(`TokensInv`); a goal has at most one of them, in one of six places
(`OnceInv`); a response that is attached is the goal's own (`ResponsesInv`); and what
a goal ended with fits its state (`OutcomeInv`).  `ImplementsContract` then goes
through the actions: only the board carrying out a frame and a goal's ending
change what the contract sees.

### Client library and nodes

For every number of operations, largest request id, number of server deaths and
burst size (`ClientAssumption`, `BurstAssumption`):

| Theorem | Statement |
|---|---|
| `ClientTypeCorrect` | `Spec => []TypeOK` |
| `CallbacksOnce` | `Spec => []CallbackOnce` |
| `PingsMeasured` | `Spec => []PingMeasuresItsRequest` |
| `LedStateFollowsPin` | `Spec => []LedStateIsLevel` |
| `BurstsReportOnce` | `Spec => []BurstReportsOnce` |

`CallbackOnce` is not inductive: an operation that starts must find no callback
behind its id (`FreshIds`: an id beyond `_req_id` has no future), a pending future
must not have told anything yet (`ToldOnlyWhenCalled`), and a goal that succeeded
must stay carried out (`SuccessMeansDone`, which comes from `ActionContract`).
With the part of the typing they need these are `LibraryInv`.  `StepKinds` reduces
the node's steps to four kinds (an operation starts, one of its futures turns, the
server moves, nothing of the library changes) and there is a lemma for each of the
first three.  `PingMeasuresItsRequest` is inductive on top of `LibraryInv`.

The types need that the server knows only what was sent (`OnlySentIds`).
For `LedStateIsLevel`: the node waits for one write at a time, the one it started
last (`OneWriteAtATime`), and when that was confirmed, its callback set
`led_state` (`FollowsLastWrite`) and the board carried it out.  A write carried out
after a later one is one whose future failed (`OvertakenByFailed`), so the level of
the pin is that of the last write, or of such a one (`LastWriteIsLevel`).  `BurstReportsOnce` needs that every callback is counted while
the burst lasts (`EveryCallbackCounted`).

### Bench script

For all pins, blink counts and numbers of debug lines (`BenchAssumption`):

| Theorem | Statement |
|---|---|
| `BenchTypeCorrect` | `Spec => []TypeOK` |
| `EveryLineArrives` | `Spec => []EveryLineReceived` |
| `LinesAreWhole` | `Spec => []OnlyEndsAreCut` |
| `PassesAreDeserved` | `Spec => []PassMeansAnswered` |
| `FailuresAreDeserved` | `Spec => []FailMeansFailed` |

`EveryLineReceived` needs that a reader that was joined puts nothing more
(`JoinedInv`).  For whole lines the proof looks at `Coming`, the reader's buffer, the
wire and the rest of the line the board is writing, in one sequence: front, back
and line feed of a line follow one another in it (`Linked`), the buffer holds no
line feed (`NoLineFeed`), and it begins with a line or with what an earlier run left
(`BeginsWithLine`); so what is cut off at a line feed is whole.  For the verdict,
what an answer whose id is not stale says is what the board decided (`TruthInv`), no
request has a verdict before the board answers it (`NoVerdictYet`), and no two such
answers are for the same request, put or coming (`OneAnswerEach`).  `PassIsNoFailure` brings the validation's
five counts down to these.

### Only model-checked

- All liveness properties and the fairness part of `DeviceImplemented`: out of the
  prover's reach.
- The server when serial ids repeat, beyond the first four theorems.

## 5. Disagreements between the source and its comments

- `app_task.cpp:127` says RX does not lose bytes to backpressure; a frame that
  meets a full request queue is dropped unanswered (`fw_backpressure`).
- `documentation/README.md:160` says workers stop before the transport is closed;
  the sender's join may give up during a write (`server_shutdown`).
- `documentation/README.md:153` says a missing response within 2 seconds is a
  timeout; so are answers of a burst that have arrived, as `receive()` hands on one
  frame per call and waits for new input before the next (`receive_backlog`).

Read off the models, without a run of their own:

- `pin_session.cpp:53` expects workers to be created suspended; `xTaskCreate` makes
  them ready (`CreatesSession`).
- `request_frame_parser.cpp:88` says only CRLF is accepted; a line feed after any
  number of carriage returns is, and a bare one is what the host sends
  (`EndsLine`).
- `sgpio_server.py:141` gives a timeout the error code 255, which the codec calls
  `NONE`; a client can only go by `success`.
- After 65535 operations a node's next one is beyond its goal's `uint16`
  (`RaisesOnId`); the bench script does not wrap its ids either, and the firmware
  refuses what does not fit.
- A latency test whose server dies under a request stays in flight for ever and
  does not measure again.
- `teensy_serial_handler.py:179` says that only the latest plausible frame start is
  kept; the code keeps the first one in the buffer (`Ingest`).
- When the result future of an LED write fails and the write is carried out after a
  later one that was confirmed, `led_state` and the pin disagree until the next
  confirmed write.
- `connection.flush()` (`send_test_frames.py:478`) is not covered by `write_timeout`:
  a board that stops reading keeps the bench script from ever ending.
- The servo and DAC callbacks of the example node log the newest value and not
  the one their request wrote.

## 6. Not modelled

- Choosing and opening the serial port, logging, printed statistics and the debug
  helpers: I/O without state of its own.
- `setup`, and the failure paths of `createQueues` and `createTasks`: straight-line
  code that runs before the scheduler, when there is no other task to meet.
- The pin libraries, USB itself, and what rclpy does inside.
- `applyPinConfig`, `startWorkerTask`, `stopWorkerTask`, the host's decoding of
  requests and encoding of responses: called by nothing.
- The 32-bit parser statistics do not wrap in the model.
- What a session whose creation failed half-way leaves behind in memory.
- Answers to an earlier run of the action server, whose ids started from 0 as well:
  the model begins with an empty line.
- Integrity of answers: lines have no checksum, so bytes lost across a frame start
  can spell an answer the board did not write.  `receive` loses the end of a line,
  and the beginning of the first, not such a stretch.
- When serial ids repeat, neither `ResultsAreOwn` nor `ContractImplemented` is
  claimed: nothing in the code keeps a late answer from reaching a newer goal with
  the same id.

## 7. State of the plan

Done: every module of the table in section 2 with its properties, the refinements
of `GpioDevice` and `ActionContract`, and the proofs of section 4.  Every safety
property of a passing run, invariant or action property, is a theorem.

Left to TLC: liveness (`EveryQueuedRequestAnswered`, `EveryGoalEnds`,
`InterruptEndsServer`, `NoAnswerStays`, `EveryOperationAnswered`, `BurstEnds`,
`ScriptReturns`) and the fair part of `DeviceImplemented`.  Not covered by a
property: the hazards of `PROJECT.json` that name none and say why in a note.
