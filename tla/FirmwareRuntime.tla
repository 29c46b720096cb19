-------------------------- MODULE FirmwareRuntime --------------------------
(***************************************************************************)
(* The running firmware: the serial RX task, the command dispatcher, one   *)
(* worker task per pin session and the serial TX task, coupled by the      *)
(* global request queue, one request queue per session and the global      *)
(* response queue.                                                         *)
(*                                                                         *)
(* All tasks have priority configMAX_PRIORITIES - 1, so any ready task may *)
(* take the next step: a step is what a task does between two operations   *)
(* on a queue, a session or a pin.  A send with portMAX_DELAY is a step    *)
(* that waits for space; a send with timeout 0 is a step that fails.       *)
(***************************************************************************)
EXTENDS GpioFrames, Naturals, Sequences, FiniteSets

CONSTANTS
    Workload,            \* request bodies the host may send
    PinNumbers,          \* the pin_number values they use
    Values,              \* the value fields they use
    Samples,             \* what digitalRead / analogRead may return
    MaxRequests,         \* bound on the requests of one behaviour
    RequestQueueLength,  \* ApplicationQueues::kRequestQueueLength
    ResponseQueueLength, \* ApplicationQueues::kResponseQueueLength
    PinQueueDepth        \* kRequestQueueDepth of the pin drivers

ASSUME WorkloadAssumption ==
    /\ PinNumbers \subseteq UInt8
    /\ Values \subseteq UInt16
    /\ Samples \subseteq UInt16
    /\ Workload \subseteq RequestBody(PinNumbers, Values)

ASSUME CapacityAssumption ==
    /\ MaxRequests \in Nat
    /\ RequestQueueLength \in Nat \ {0}
    /\ ResponseQueueLength \in Nat \ {0}
    /\ PinQueueDepth \in Nat \ {0}

Slots == Bank \X PinNumbers
Ids   == 1 .. MaxRequests

\* Frame::RequestFrame request{}: the value-initialised frame of a task that
\* has not received anything yet.
EmptyRequest ==
    [request_id |-> 0, value |-> 0, type |-> "kZero", priority |-> "kZero",
     pin_type |-> "kZero", pin_number |-> 0]

\* The level of an output nobody has driven since power-up: no uint16 value.
Undriven == 65536

VARIABLES
    requestQueue,     \* GlobalRequestQueue
    dispPc,           \* where the dispatcher task is
    dispRequest,      \* the request it is dispatching
    dispDiscarded,    \* discardedRequest of clearPendingRequests
    dispError,        \* the error it is about to send
    session,          \* PinRegistry: slot -> its session's config
    pinQueue,         \* slot -> the session's request queue
    workerPc,         \* slot -> where the worker task is
    workerRequest,    \* slot -> the request it is handling
    workerValue,      \* slot -> the value it is about to report
    level,            \* slot -> the output level the hardware has
    responseQueue,    \* GlobalResponseQueue
    txPc,             \* where the TX task is
    txResponse,       \* the response it is writing
    serialOut,        \* response frames written to the USB serial port
    received,         \* history: every request the parser decoded
    dropped,          \* history: ids the RX task could not queue
    notCreated,       \* history: ids whose session could not be created
    executed,         \* history: ids whose pin operation was done
    lastExecuted      \* history: slot -> the last of them on that slot

rxVars     == <<received, dropped, notCreated>>
dispVars   == <<dispPc, dispRequest, dispDiscarded, dispError>>
workerVars == <<workerPc, workerRequest, workerValue, level, executed,
                lastExecuted>>
txVars     == <<txPc, txResponse, serialOut>>
vars == <<requestQueue, dispVars, session, pinQueue, workerVars,
          responseQueue, txVars, rxVars>>

Init ==
    /\ requestQueue = <<>>
    /\ dispPc = "receive"
    /\ dispRequest = EmptyRequest
    /\ dispDiscarded = EmptyRequest
    /\ dispError = "kNone"
    /\ session = [s \in Slots |-> NoSession]
    /\ pinQueue = [s \in Slots |-> <<>>]
    /\ workerPc = [s \in Slots |-> "none"]
    /\ workerRequest = [s \in Slots |-> EmptyRequest]
    /\ workerValue = [s \in Slots |-> 0]
    /\ level = [s \in Slots |-> Undriven]
    /\ responseQueue = <<>>
    /\ txPc = "receive"
    /\ txResponse = ErrorResponse(0, "kNone")
    /\ serialOut = <<>>
    /\ received = <<>>
    /\ dropped = {}
    /\ notCreated = {}
    /\ executed = {}
    /\ lastExecuted = [s \in Slots |-> 0]

---------------------------------------------------------------------------
(* Serial RX.  The parser hands over only what constructFrame accepted, and *)
(* its xQueueSend does not wait: a full request queue loses the frame.      *)

NextRequest(body) == WithId(Len(received) + 1, body)

RxArrives(body) ==
    /\ Len(received) < MaxRequests
    /\ IsValidRequest(body.type, body.pin_type)
    /\ received' = Append(received, NextRequest(body))
    /\ UNCHANGED <<dispVars, session, pinQueue, workerVars, responseQueue,
                   txVars, notCreated>>

RxQueues(body) ==
    /\ RxArrives(body)
    /\ Len(requestQueue) < RequestQueueLength
    /\ requestQueue' = Append(requestQueue, NextRequest(body))
    /\ UNCHANGED dropped

RxDrops(body) ==
    /\ RxArrives(body)
    /\ Len(requestQueue) >= RequestQueueLength
    /\ dropped' = dropped \cup {Len(received) + 1}
    /\ UNCHANGED requestQueue

---------------------------------------------------------------------------
(* Command dispatcher.                                                     *)

DispSlot == SlotOf(dispRequest)

\* run(): xQueueReceive(globalRequestQueue_, ..., portMAX_DELAY)
DispatcherReceives ==
    /\ dispPc = "receive"
    /\ requestQueue # <<>>
    /\ dispRequest' = Head(requestQueue)
    /\ requestQueue' = Tail(requestQueue)
    /\ dispPc' = "dispatch"
    /\ UNCHANGED <<dispDiscarded, dispError, session, pinQueue, workerVars,
                   responseQueue, txVars, rxVars>>

Rejection(request) ==
    IF ~IsValidPinNumber(request.pin_type, request.pin_number)
    THEN "kBadPin"
    ELSE IF ~IsValidRequest(request.type, request.pin_type)
         THEN "kBadFunction" ELSE "kNone"

\* The dispatcher turns to sendErrorResponse(dispRequest.request_id, error).
RaiseError(error) == dispPc' = "error" /\ dispError' = error

DispatchRejects ==
    /\ dispPc = "dispatch"
    /\ Rejection(dispRequest) # "kNone"
    /\ RaiseError(Rejection(dispRequest))
    /\ UNCHANGED <<requestQueue, dispRequest, dispDiscarded, session, pinQueue,
                   workerVars, responseQueue, txVars, rxVars>>

\* Mutant: a session is created again although the slot has one.
MustCreateAlways ==
    /\ dispPc = "dispatch"
    /\ Rejection(dispRequest) = "kNone"

MustCreate ==
    /\ dispPc = "dispatch"
    /\ Rejection(dispRequest) = "kNone"
    /\ session[DispSlot] = NoSession

\* createPinSession: the queue, the session object and the worker task are
\* allocated.  xTaskCreate makes the worker ready at once; dispatching
\* resumes with the session found.
CreatesSession ==
    /\ MustCreate
    /\ FactoryAccepts(dispRequest)
    /\ session' = [session EXCEPT ![DispSlot] = FactoryConfig(dispRequest)]
    /\ workerPc' = [workerPc EXCEPT ![DispSlot] = "ready"]
    /\ UNCHANGED <<requestQueue, dispVars, pinQueue, workerRequest,
                   workerValue, level, executed, lastExecuted, responseQueue,
                   txVars, rxVars>>

\* xQueueCreate, the config builder or xTaskCreate fails; what was allocated
\* before is released and no session is stored.
CreateSessionFails ==
    /\ MustCreate
    /\ RaiseError("kUnsupported")
    /\ notCreated' = notCreated \cup {dispRequest.request_id}
    /\ UNCHANGED <<requestQueue, dispRequest, dispDiscarded, session, pinQueue,
                   workerVars, responseQueue, txVars, received, dropped>>

\* Mutant: a high-priority request is enqueued behind what is pending.
RoutesRequestUncleared ==
    /\ dispPc = "dispatch"
    /\ Rejection(dispRequest) = "kNone"
    /\ session[DispSlot] # NoSession
    /\ SupportsRequest(session[DispSlot], dispRequest)
    /\ dispPc' = "enqueue"
    /\ UNCHANGED <<requestQueue, dispRequest, dispDiscarded, dispError, session,
                   pinQueue, workerVars, responseQueue, txVars, rxVars>>

\* Mutant: the session is not asked whether it supports the request.
RoutesRequestUnchecked ==
    /\ dispPc = "dispatch"
    /\ Rejection(dispRequest) = "kNone"
    /\ session[DispSlot] # NoSession
    /\ dispPc' = IF dispRequest.priority = "kHigh" THEN "clear" ELSE "enqueue"
    /\ UNCHANGED <<requestQueue, dispRequest, dispDiscarded, dispError, session,
                   pinQueue, workerVars, responseQueue, txVars, rxVars>>

\* handleRuntimeRequest with a session at hand.
RoutesRequest ==
    /\ dispPc = "dispatch"
    /\ Rejection(dispRequest) = "kNone"
    /\ session[DispSlot] # NoSession
    /\ IF ~SupportsRequest(session[DispSlot], dispRequest)
       THEN RaiseError("kUnsupported")
       ELSE /\ dispPc' = IF dispRequest.priority = "kHigh"
                         THEN "clear" ELSE "enqueue"
            /\ UNCHANGED dispError
    /\ UNCHANGED <<requestQueue, dispRequest, dispDiscarded, session, pinQueue,
                   workerVars, responseQueue, txVars, rxVars>>

\* Mutant: a cleared request is thrown away without an answer.
ClearsOneSilently ==
    /\ dispPc = "clear"
    /\ pinQueue[DispSlot] # <<>>
    /\ pinQueue' = [pinQueue EXCEPT ![DispSlot] = Tail(@)]
    /\ UNCHANGED <<requestQueue, dispVars, session, workerVars, responseQueue,
                   txVars, rxVars>>

\* Mutant: clearing peeks at the queue and leaves the request in it.
ClearsOnePeeking ==
    /\ dispPc = "clear"
    /\ pinQueue[DispSlot] # <<>>
    /\ dispDiscarded' = Head(pinQueue[DispSlot])
    /\ dispPc' = "cancel"
    /\ UNCHANGED <<requestQueue, dispRequest, dispError, session, pinQueue,
                   workerVars, responseQueue, txVars, rxVars>>

\* clearPendingRequests: one xQueueReceive(requestQueue, ..., 0).
ClearsOne ==
    /\ dispPc = "clear"
    /\ pinQueue[DispSlot] # <<>>
    /\ dispDiscarded' = Head(pinQueue[DispSlot])
    /\ pinQueue' = [pinQueue EXCEPT ![DispSlot] = Tail(@)]
    /\ dispPc' = "cancel"
    /\ UNCHANGED <<requestQueue, dispRequest, dispError, session, workerVars,
                   responseQueue, txVars, rxVars>>

\* Mutant: clearing may stop before the pin queue is empty.
ClearsNothingYet ==
    /\ dispPc = "clear"
    /\ dispPc' = "enqueue"
    /\ UNCHANGED <<requestQueue, dispRequest, dispDiscarded, dispError,
                   session, pinQueue, workerVars, responseQueue, txVars,
                   rxVars>>

ClearsNothing ==
    /\ dispPc = "clear"
    /\ pinQueue[DispSlot] = <<>>
    /\ dispPc' = "enqueue"
    /\ UNCHANGED <<requestQueue, dispRequest, dispDiscarded, dispError,
                   session, pinQueue, workerVars, responseQueue, txVars,
                   rxVars>>

\* xQueueSend(responseQueue, ..., portMAX_DELAY), the part every sender shares.
SendResponse(response) ==
    /\ Len(responseQueue) < ResponseQueueLength
    /\ responseQueue' = Append(responseQueue, response)

SendsCancelled ==
    /\ dispPc = "cancel"
    /\ SendResponse(ErrorResponse(dispDiscarded.request_id, "kCancelled"))
    /\ dispDiscarded' = EmptyRequest
    /\ dispPc' = "clear"
    /\ UNCHANGED <<requestQueue, dispRequest, dispError, session, pinQueue,
                   workerVars, txVars, rxVars>>

DispatchDone ==
    /\ dispPc' = "receive"
    /\ dispRequest' = EmptyRequest
    /\ dispError' = "kNone"
    /\ UNCHANGED dispDiscarded

\* Mutant: xQueueSendToFront.
EnqueuesPinRequestAtFront ==
    /\ dispPc = "enqueue"
    /\ Len(pinQueue[DispSlot]) < PinQueueDepth
    /\ pinQueue' = [pinQueue EXCEPT ![DispSlot] = <<dispRequest>> \o @]
    /\ DispatchDone
    /\ UNCHANGED <<requestQueue, session, workerVars, responseQueue, txVars,
                   rxVars>>

\* Mutant: a request that finds the pin queue full is dropped unanswered.
EnqueuesPinRequestDropping ==
    /\ dispPc = "enqueue"
    /\ pinQueue' = IF Len(pinQueue[DispSlot]) < PinQueueDepth
                   THEN [pinQueue EXCEPT ![DispSlot] = Append(@, dispRequest)]
                   ELSE pinQueue
    /\ DispatchDone
    /\ UNCHANGED <<requestQueue, session, workerVars, responseQueue, txVars,
                   rxVars>>

\* enqueuePinRequest: xQueueSend(requestQueue, ..., 0).
EnqueuesPinRequest ==
    /\ dispPc = "enqueue"
    /\ IF Len(pinQueue[DispSlot]) < PinQueueDepth
       THEN /\ pinQueue' = [pinQueue EXCEPT
                              ![DispSlot] = Append(@, dispRequest)]
            /\ DispatchDone
       ELSE /\ RaiseError("kQueueFull")
            /\ UNCHANGED <<pinQueue, dispRequest, dispDiscarded>>
    /\ UNCHANGED <<requestQueue, session, workerVars, responseQueue, txVars,
                   rxVars>>

SendsError ==
    /\ dispPc = "error"
    /\ SendResponse(ErrorResponse(dispRequest.request_id, dispError))
    /\ DispatchDone
    /\ UNCHANGED <<requestQueue, session, pinQueue, workerVars, txVars, rxVars>>

Dispatcher ==
    \/ DispatcherReceives \/ DispatchRejects
    \/ CreatesSession \/ CreateSessionFails \/ RoutesRequest
    \/ ClearsOne \/ ClearsNothing \/ SendsCancelled
    \/ EnqueuesPinRequest \/ SendsError

---------------------------------------------------------------------------
(* Pin session workers.                                                    *)

\* workerLoop() up to its loop: init() of the driver.  Digital and analog
\* outputs start low; a servo and a DAC keep the level they have.
WorkerInits(s) ==
    /\ workerPc[s] = "ready"
    /\ workerPc' = [workerPc EXCEPT ![s] = "receive"]
    /\ level' = IF /\ session[s].pinMode = "kOutput"
                   /\ session[s].pinType \in {"kDigital", "kAnalog"}
                THEN [level EXCEPT ![s] = 0] ELSE level
    /\ UNCHANGED <<requestQueue, dispVars, session, pinQueue, workerRequest,
                   workerValue, executed, lastExecuted, responseQueue, txVars,
                   rxVars>>

\* Mutant: the worker looks without waiting, and handles request{} when the
\* queue had nothing for it.
WorkerReceivesUnchecked(s) ==
    /\ workerPc[s] = "receive"
    /\ IF pinQueue[s] = <<>> THEN UNCHANGED <<workerRequest, pinQueue>>
       ELSE /\ workerRequest' = [workerRequest EXCEPT ![s] = Head(pinQueue[s])]
            /\ pinQueue' = [pinQueue EXCEPT ![s] = Tail(@)]
    /\ workerPc' = [workerPc EXCEPT ![s] = "handle"]
    /\ UNCHANGED <<requestQueue, dispVars, session, workerValue, level,
                   executed, lastExecuted, responseQueue, txVars, rxVars>>

\* xQueueReceive(requestQueue_, ..., portMAX_DELAY), which has a request
\* when it returns.
WorkerReceives(s) ==
    /\ workerPc[s] = "receive"
    /\ pinQueue[s] # <<>>
    /\ workerRequest' = [workerRequest EXCEPT ![s] = Head(pinQueue[s])]
    /\ pinQueue' = [pinQueue EXCEPT ![s] = Tail(@)]
    /\ workerPc' = [workerPc EXCEPT ![s] = "handle"]
    /\ UNCHANGED <<requestQueue, dispVars, session, workerValue, level,
                   executed, lastExecuted, responseQueue, txVars, rxVars>>

\* Mutant: the driver reports the value asked for, not the one it applied.
WorkerHandlesUnclamped(s) ==
    /\ workerPc[s] = "handle"
    /\ level' = IF session[s].pinMode = "kInput" THEN level
                ELSE [level EXCEPT ![s] = AppliedValue(session[s].pinType,
                                                       workerRequest[s].value)]
    /\ workerValue' = [workerValue EXCEPT ![s] = workerRequest[s].value]
    /\ executed' = executed \cup {workerRequest[s].request_id}
    /\ lastExecuted' = [lastExecuted EXCEPT ![s] = workerRequest[s].request_id]
    /\ workerPc' = [workerPc EXCEPT ![s] = "respond"]
    /\ UNCHANGED <<requestQueue, dispVars, session, pinQueue, workerRequest,
                   responseQueue, txVars, rxVars>>

\* handleRequest() up to sendOkResponse: the pin is read or driven.
WorkerHandles(s) ==
    /\ workerPc[s] = "handle"
    /\ \/ /\ session[s].pinMode = "kInput"
          /\ \E sample \in Samples :
                workerValue' = [workerValue EXCEPT ![s] = sample]
          /\ UNCHANGED level
       \/ /\ session[s].pinMode = "kOutput"
          /\ LET applied == AppliedValue(session[s].pinType,
                                         workerRequest[s].value)
             IN /\ level' = [level EXCEPT ![s] = applied]
                /\ workerValue' = [workerValue EXCEPT ![s] = applied]
    /\ executed' = executed \cup {workerRequest[s].request_id}
    /\ lastExecuted' = [lastExecuted EXCEPT ![s] = workerRequest[s].request_id]
    /\ workerPc' = [workerPc EXCEPT ![s] = "respond"]
    /\ UNCHANGED <<requestQueue, dispVars, session, pinQueue, workerRequest,
                   responseQueue, txVars, rxVars>>

\* sendOkResponse(): xQueueSend(responseQueue_, ..., portMAX_DELAY)
WorkerResponds(s) ==
    /\ workerPc[s] = "respond"
    /\ SendResponse(OkResponse(workerRequest[s].request_id, workerValue[s]))
    /\ workerPc' = [workerPc EXCEPT ![s] = "receive"]
    /\ workerRequest' = [workerRequest EXCEPT ![s] = EmptyRequest]
    /\ workerValue' = [workerValue EXCEPT ![s] = 0]
    /\ UNCHANGED <<requestQueue, dispVars, session, pinQueue, level, executed,
                   lastExecuted, txVars, rxVars>>

Worker(s) ==
    WorkerInits(s) \/ WorkerReceives(s) \/ WorkerHandles(s) \/ WorkerResponds(s)

---------------------------------------------------------------------------
(* Serial TX, the only writer of the port once the scheduler runs.         *)

TxReceives ==
    /\ txPc = "receive"
    /\ responseQueue # <<>>
    /\ txResponse' = Head(responseQueue)
    /\ responseQueue' = Tail(responseQueue)
    /\ txPc' = "write"
    /\ UNCHANGED <<requestQueue, dispVars, session, pinQueue, workerVars,
                   serialOut, rxVars>>

TxWrites ==
    /\ txPc = "write"
    /\ serialOut' = Append(serialOut, txResponse)
    /\ txResponse' = ErrorResponse(0, "kNone")
    /\ txPc' = "receive"
    /\ UNCHANGED <<requestQueue, dispVars, session, pinQueue, workerVars,
                   responseQueue, rxVars>>

Tx == TxReceives \/ TxWrites

---------------------------------------------------------------------------
Next ==
    \/ \E body \in Workload : RxQueues(body) \/ RxDrops(body)
    \/ Dispatcher
    \/ \E s \in Slots : Worker(s)
    \/ Tx

Spec == Init /\ [][Next]_vars

\* Time slicing among tasks of equal priority gives every ready task the CPU
\* again and again.  Nothing obliges the host to send.
Fairness ==
    /\ WF_vars(Dispatcher)
    /\ \A s \in Slots : WF_vars(Worker(s))
    /\ WF_vars(Tx)

FairSpec == Spec /\ Fairness
===========================================================================
