-------------------------- MODULE FirmwareSafety --------------------------
(***************************************************************************)
(* What the running firmware promises about every request it decodes:      *)
(* where it is, in which order requests of one pin take effect, what a     *)
(* high-priority request may overtake, and what an answer means.           *)
(***************************************************************************)
EXTENDS FirmwareRuntime

Request  == RequestFrame(Ids, PinNumbers, Values)
NoRequest == EmptyRequest
Response == ResponseFrame(Ids, UInt16)
Level == UInt16 \cup {Undriven}

DispatcherState == {"receive", "dispatch", "clear", "cancel", "enqueue", "error"}
WorkerState     == {"none", "suspended", "ready", "receive", "handle", "respond"}

Holds(s) == workerPc[s] \in {"handle", "respond"}

QueuesTypeOK ==
    /\ requestQueue \in Seq(Request)
    /\ Len(requestQueue) <= RequestQueueLength
    /\ pinQueue \in [Slots -> Seq(Request)]
    /\ \A s \in Slots : Len(pinQueue[s]) <= PinQueueDepth
    /\ responseQueue \in Seq(Response)
    /\ Len(responseQueue) <= ResponseQueueLength

DispatcherTypeOK ==
    /\ dispPc \in DispatcherState
    /\ dispRequest \in Request \cup {NoRequest}
    /\ dispPc # "receive" => dispRequest \in Request
    /\ dispDiscarded \in Request \cup {NoRequest}
    /\ dispPc = "cancel" => dispDiscarded \in Request
    /\ dispError \in ErrorCode

WorkersTypeOK ==
    /\ session \in [Slots -> Config \cup {NoSession}]
    /\ workerPc \in [Slots -> WorkerState]
    /\ workerRequest \in [Slots -> Request \cup {NoRequest}]
    /\ \A s \in Slots : Holds(s) => workerRequest[s] \in Request
    /\ workerValue \in [Slots -> UInt16]
    /\ level \in [Slots -> Level]
    /\ executed \subseteq Ids
    /\ lastExecuted \in [Slots -> 0 .. MaxRequests]

SerialTypeOK ==
    /\ received \in Seq(Request)
    /\ Len(received) <= MaxRequests
    /\ dropped \subseteq Ids
    /\ notCreated \subseteq Ids
    /\ txPc \in {"receive", "write"}
    /\ txPc = "write" => txResponse \in Response
    /\ serialOut \in Seq(Response)

\* The queues hold decoded requests and answers to them, within the lengths
\* they were created with, and a task that uses a request has received one:
\* it never works on the empty frame its local variable starts as.
TypeOK == QueuesTypeOK /\ DispatcherTypeOK /\ WorkersTypeOK /\ SerialTypeOK

---------------------------------------------------------------------------
(* Custody of requests.                                                    *)

IdsIn(queue) == {queue[i].request_id : i \in DOMAIN queue}

NoRepeats(queue) ==
    \A i, j \in DOMAIN queue :
        queue[i].request_id = queue[j].request_id => i = j

Places ==
    { <<"requestQueue">>, <<"dispatcher">>, <<"discarded">>,
      <<"responseQueue">>, <<"tx">>, <<"serialOut">>, <<"dropped">> }
    \cup ({"pinQueue", "worker"} \X Slots)

\* The ids of the requests, or of the answers to them, that are at a place.
Holding(place) ==
    CASE place[1] = "requestQueue"  -> IdsIn(requestQueue)
      [] place[1] = "dispatcher"    -> IF dispPc = "receive" THEN {}
                                       ELSE {dispRequest.request_id}
      [] place[1] = "discarded"     -> IF dispPc = "cancel"
                                       THEN {dispDiscarded.request_id} ELSE {}
      [] place[1] = "responseQueue" -> IdsIn(responseQueue)
      [] place[1] = "tx"            -> IF txPc = "write"
                                       THEN {txResponse.request_id} ELSE {}
      [] place[1] = "serialOut"     -> IdsIn(serialOut)
      [] place[1] = "dropped"       -> dropped
      [] place[1] = "pinQueue"      -> IdsIn(pinQueue[place[2]])
      [] place[1] = "worker"        -> IF Holds(place[2])
                                       THEN {workerRequest[place[2]].request_id}
                                       ELSE {}

\* Every decoded request, or its answer, is in exactly one place: the
\* dispatcher, the workers and the clearing of a pin queue that a worker
\* drains at the same time never lose a request, and never answer one twice.
OneHolder ==
    /\ \A id \in 1 .. Len(received) : \E p \in Places :
          /\ id \in Holding(p)
          /\ \A q \in Places \ {p} : id \notin Holding(q)
    /\ \A p \in Places : Holding(p) \subseteq 1 .. Len(received)
    /\ NoRepeats(requestQueue) /\ NoRepeats(responseQueue)
    /\ NoRepeats(serialOut)
    /\ \A s \in Slots : NoRepeats(pinQueue[s])

---------------------------------------------------------------------------
(* Routing, order and priority.                                            *)

RequestsAt(s) ==
    {pinQueue[s][i] : i \in DOMAIN pinQueue[s]}
        \cup (IF Holds(s) THEN {workerRequest[s]} ELSE {})

\* A session only ever gets requests of its own slot that match the mode its
\* driver initialised the pin for (handleRequest does not look at the frame
\* type again), and a live session's slot is inside its registry array.
RoutedToOwnSession ==
    \A s \in Slots :
        /\ \A r \in RequestsAt(s) :
              SlotOf(r) = s /\ SupportsRequest(session[s], r)
        /\ session[s] # NoSession => s[2] \in 1 .. RegistrySize[s[1]] - 1

\* A high-priority request waits for nothing but the request its worker is
\* already handling: it is never queued behind another one.
HighPriorityGoesFirst ==
    \A s \in Slots : \A i \in DOMAIN pinQueue[s] :
        pinQueue[s][i].priority = "kHigh" => i = 1

\* Requests of one pin take effect in the order they were received, whatever
\* was cancelled or refused in between.
ExecutedInOrder ==
    [][\A s \in Slots : lastExecuted'[s] # lastExecuted[s] =>
           lastExecuted'[s] > lastExecuted[s]]_vars

---------------------------------------------------------------------------
(* What is invariant about one request on its way: the inductive invariant *)
(* behind the properties above.                                            *)

\* The dispatcher finds the pin queue still empty when it gets from clearing
\* it to enqueueing a high-priority request: only workers use it meanwhile.
PriorityInv ==
    /\ HighPriorityGoesFirst
    /\ dispPc = "enqueue" /\ dispRequest.priority = "kHigh" =>
          pinQueue[DispSlot] = <<>>

\* What the dispatcher checked of the session stays true until it enqueues:
\* a session is never replaced or removed.
RoutingInv ==
    /\ RoutedToOwnSession
    /\ dispPc \in {"clear", "cancel", "enqueue"} =>
          SupportsRequest(session[DispSlot], dispRequest)

Increasing(queue) ==
    \A i, j \in DOMAIN queue :
        i < j => queue[i].request_id < queue[j].request_id

\* id is older than whatever the dispatcher has not passed on yet.
Older(id) ==
    /\ id <= Len(received)
    /\ dispPc # "receive" => id < dispRequest.request_id
    /\ \A i \in DOMAIN requestQueue : id < requestQueue[i].request_id

OrderAt(s) ==
    /\ Increasing(pinQueue[s])
    /\ Older(lastExecuted[s])
    /\ Holds(s) => Older(workerRequest[s].request_id)
    /\ workerPc[s] = "handle" => lastExecuted[s] < workerRequest[s].request_id
    /\ \A i \in DOMAIN pinQueue[s] :
          /\ Older(pinQueue[s][i].request_id)
          /\ lastExecuted[s] < pinQueue[s][i].request_id
          /\ Holds(s) =>
                workerRequest[s].request_id < pinQueue[s][i].request_id

OrderInv ==
    /\ Increasing(requestQueue)
    /\ \A i \in DOMAIN requestQueue :
          requestQueue[i].request_id <= Len(received)
    /\ dispPc # "receive" =>
          /\ dispRequest.request_id <= Len(received)
          /\ \A i \in DOMAIN requestQueue :
                dispRequest.request_id < requestQueue[i].request_id
    /\ \A s \in Slots : OrderAt(s)

\* Priority, routing and order together: from the request queue through the
\* dispatcher and a pin queue to a worker, requests keep their order, stay
\* with the session they were matched with and are overtaken only by
\* cancellation.
RequestPathInv == PriorityInv /\ RoutingInv /\ OrderInv

---------------------------------------------------------------------------
(* The meaning of an answer.                                               *)

\* Answers that left the task that decided them.
Emitted ==
    {responseQueue[i] : i \in DOMAIN responseQueue}
        \cup {serialOut[i] : i \in DOMAIN serialOut}
        \cup (IF txPc = "write" THEN {txResponse} ELSE {})

\* Why the firmware may refuse the request with this id.  kBadFunction can
\* only repeat a check the parser has already made, so it is never sent.
Justifies(error, id) ==
    LET request == received[id] IN
    CASE error = "kBadPin" ->
            ~IsValidPinNumber(request.pin_type, request.pin_number)
      [] error = "kQueueFull" -> request.priority = "kLow"
      [] error = "kCancelled" ->
            \E later \in id + 1 .. Len(received) :
                /\ SlotOf(received[later]) = SlotOf(request)
                /\ received[later].priority = "kHigh"
      [] error = "kUnsupported" ->
            \/ id \in notCreated
            \/ /\ session[SlotOf(request)] # NoSession
               /\ ~SupportsRequest(session[SlotOf(request)], request)
      [] OTHER -> FALSE

\* A success answers a request whose pin operation was done; an error answers
\* one whose operation was not and never will be done, and for its reason: a
\* high-priority request never finds its pin queue full, and a request is only
\* unsupported when its pin has another mode for good or its own attempt to
\* create the session failed.
AnswersJustified ==
    \A answer \in Emitted :
        IF answer.type = "kResponse"
        THEN answer.request_id \in executed
        ELSE /\ answer.request_id \notin executed
             /\ Justifies(answer.error, answer.request_id)

\* The answer to a write reports the value the session applied, and the pin
\* still has it as long as no later request of the pin was carried out.
WritesReportAppliedValue ==
    \A answer \in Emitted :
        LET request == received[answer.request_id]
            s == SlotOf(request)
        IN (answer.type = "kResponse" /\ request.type = "kWrite") =>
              /\ answer.value = AppliedValue(request.pin_type, request.value)
              /\ lastExecuted[s] = answer.request_id =>
                    level[s] = answer.value

\* Every request the RX task could queue is answered on the serial port: no
\* task waits for ever on a full queue, however small the queues are.
EveryQueuedRequestAnswered ==
    \A id \in Ids :
        (id \in DOMAIN received /\ id \notin dropped)
            ~> (id \in IdsIn(serialOut))

---------------------------------------------------------------------------
(* What comments of the source say and the code does not do.               *)

\* app_task.cpp, createTasks: RX "does not lose bytes to backpressure".
NothingLostToBackpressure == dropped = {}
===========================================================================
