--------------------------- MODULE FirmwareProofs ---------------------------
(***************************************************************************)
(* Proofs about the running firmware, for every workload, every number of  *)
(* requests and every queue length.                                        *)
(***************************************************************************)
EXTENDS FirmwareSafety, SequenceTheorems, TLAPS

---------------------------------------------------------------------------
(* Frames and queues.                                                      *)

LEMMA SlotOfRequest ==
    ASSUME NEW r \in Request
    PROVE  /\ SlotOf(r) \in Slots
           /\ FactoryConfig(r) \in Config
           /\ r.request_id \in Ids
           /\ r.value \in UInt16
           /\ r.priority \in Priority
  BY WorkloadAssumption
     DEF Request, RequestFrame, SlotOf, Slots, Bank, FactoryConfig, Config,
         ModeOf, PinMode, FrameType

LEMMA SomeValues ==
    0 \in UInt16 /\ 1 \in UInt16 /\ kMcp4725MaxMillivolts \in UInt16
  BY DEF UInt16, kMcp4725MaxMillivolts

LEMMA AnswersAreResponses ==
    ASSUME NEW id \in Ids, NEW v \in UInt16, NEW e \in ErrorCode
    PROVE  /\ OkResponse(id, v) \in Response
           /\ ErrorResponse(id, e) \in Response
  BY SomeValues DEF Response, ResponseFrame, OkResponse, ErrorResponse, ErrorCode

LEMMA AppliedIsAValue ==
    ASSUME NEW p, NEW v \in UInt16
    PROVE  AppliedValue(p, v) \in UInt16
  BY SomeValues DEF AppliedValue

LEMMA NextRequestIsRequest ==
    ASSUME received \in Seq(Request), NEW body \in Workload,
           Len(received) < MaxRequests
    PROVE  NextRequest(body) \in Request
  <1>1. body \in RequestBody(PinNumbers, Values)
    BY WorkloadAssumption
  <1>2. Len(received) + 1 \in Ids
    BY LenProperties, CapacityAssumption DEF Ids
  <1> QED
    BY <1>1, <1>2 DEF NextRequest, WithId, Request, RequestFrame, RequestBody

---------------------------------------------------------------------------
(* Type correctness.                                                       *)

LEMMA TypeInit == Init => TypeOK
  <1> SUFFICES ASSUME Init PROVE TypeOK
    OBVIOUS
  <1> USE DEF Init
  <1>1. QueuesTypeOK
    BY EmptySeq, CapacityAssumption DEF QueuesTypeOK
  <1>2. DispatcherTypeOK
    BY DEF DispatcherTypeOK, DispatcherState, NoRequest, ErrorCode
  <1>3. WorkersTypeOK
    BY SomeValues, CapacityAssumption
       DEF WorkersTypeOK, WorkerState, Holds, NoRequest, Level
  <1>4. SerialTypeOK
    BY EmptySeq, CapacityAssumption DEF SerialTypeOK
  <1> QED BY <1>1, <1>2, <1>3, <1>4 DEF TypeOK

LEMMA TypeRx ==
    ASSUME TypeOK, NEW body \in Workload, RxQueues(body) \/ RxDrops(body)
    PROVE  TypeOK'
  <1> USE DEF TypeOK, RxArrives, rxVars, dispVars, workerVars, txVars
  <1>1. RxArrives(body)
    BY DEF RxQueues, RxDrops
  <1>2. NextRequest(body) \in Request
    BY <1>1, NextRequestIsRequest DEF SerialTypeOK
  <1>3. QueuesTypeOK'
    <2>1. CASE RxQueues(body)
      BY <1>1, <1>2, <2>1, AppendProperties, LenProperties, CapacityAssumption
         DEF RxQueues, QueuesTypeOK
    <2>2. CASE RxDrops(body)
      BY <1>1, <2>2 DEF RxDrops, QueuesTypeOK
    <2> QED BY <2>1, <2>2
  <1>4. DispatcherTypeOK'
    BY <1>1 DEF DispatcherTypeOK
  <1>5. WorkersTypeOK'
    BY <1>1 DEF WorkersTypeOK, Holds
  <1>6. SerialTypeOK'
    <2>1. received' \in Seq(Request) /\ Len(received') <= MaxRequests
      BY <1>1, <1>2, AppendProperties, LenProperties, CapacityAssumption
         DEF SerialTypeOK
    <2>2. Len(received) + 1 \in Ids
      BY <1>1, LenProperties, CapacityAssumption DEF SerialTypeOK, Ids
    <2>3. dropped' \subseteq Ids
      BY <2>2 DEF SerialTypeOK, RxQueues, RxDrops
    <2> QED BY <1>1, <2>1, <2>3 DEF SerialTypeOK
  <1> QED BY <1>3, <1>4, <1>5, <1>6

LEMMA TypeDispatcherQueues ==
    ASSUME TypeOK, Dispatcher
    PROVE  QueuesTypeOK'
  <1> USE DEF TypeOK, dispVars, workerVars, txVars, rxVars
  <1>1. CASE DispatcherReceives
    BY <1>1, HeadTailProperties, LenProperties, CapacityAssumption
       DEF DispatcherReceives, QueuesTypeOK
  <1>2. CASE DispatchRejects \/ CreatesSession \/ CreateSessionFails
                \/ RoutesRequest \/ ClearsNothing
    BY <1>2 DEF DispatchRejects, CreatesSession, CreateSessionFails,
                RoutesRequest, ClearsNothing, QueuesTypeOK
  <1>3. CASE ClearsOne
    <2>1. DispSlot \in Slots
      BY <1>3, SlotOfRequest DEF ClearsOne, DispatcherTypeOK, DispSlot
    <2>2. /\ Tail(pinQueue[DispSlot]) \in Seq(Request)
          /\ Len(Tail(pinQueue[DispSlot])) <= PinQueueDepth
      BY <1>3, <2>1, HeadTailProperties, LenProperties, CapacityAssumption
         DEF ClearsOne, QueuesTypeOK
    <2> QED BY <1>3, <2>1, <2>2 DEF ClearsOne, QueuesTypeOK
  <1>4. CASE SendsCancelled
    <2>1. ErrorResponse(dispDiscarded.request_id, "kCancelled") \in Response
      BY <1>4, SlotOfRequest, AnswersAreResponses, SomeValues
         DEF SendsCancelled, DispatcherTypeOK, ErrorCode
    <2> QED
      BY <1>4, <2>1, AppendProperties, LenProperties, CapacityAssumption
         DEF SendsCancelled, SendResponse, QueuesTypeOK
  <1>5. CASE EnqueuesPinRequest
    <2>1. DispSlot \in Slots /\ dispRequest \in Request
      BY <1>5, SlotOfRequest DEF EnqueuesPinRequest, DispatcherTypeOK, DispSlot
    <2>2. Len(pinQueue[DispSlot]) < PinQueueDepth =>
            /\ Append(pinQueue[DispSlot], dispRequest) \in Seq(Request)
            /\ Len(Append(pinQueue[DispSlot], dispRequest)) <= PinQueueDepth
      BY <2>1, AppendProperties, LenProperties, CapacityAssumption
         DEF QueuesTypeOK
    <2> QED BY <1>5, <2>1, <2>2 DEF EnqueuesPinRequest, QueuesTypeOK
  <1>6. CASE SendsError
    <2>1. ErrorResponse(dispRequest.request_id, dispError) \in Response
      BY <1>6, SlotOfRequest, AnswersAreResponses, SomeValues
         DEF SendsError, DispatcherTypeOK
    <2> QED
      BY <1>6, <2>1, AppendProperties, LenProperties, CapacityAssumption
         DEF SendsError, SendResponse, QueuesTypeOK
  <1> QED BY <1>1, <1>2, <1>3, <1>4, <1>5, <1>6 DEF Dispatcher

LEMMA TypeDispatcherRest ==
    ASSUME TypeOK, Dispatcher
    PROVE  DispatcherTypeOK' /\ WorkersTypeOK' /\ SerialTypeOK'
  <1> USE DEF TypeOK, dispVars, workerVars, txVars, rxVars
  <1>1. DispatcherTypeOK'
    <2> USE DEF DispatcherTypeOK, DispatcherState, DispatchDone, RaiseError,
                NoRequest, ErrorCode
    <2>1. CASE DispatcherReceives
      BY <2>1, HeadTailProperties DEF DispatcherReceives, QueuesTypeOK
    <2>2. CASE DispatchRejects
      BY <2>2 DEF DispatchRejects, Rejection
    <2>3. CASE CreatesSession
      BY <2>3 DEF CreatesSession, MustCreate
    <2>4. CASE CreateSessionFails
      BY <2>4 DEF CreateSessionFails, MustCreate
    <2>5. CASE RoutesRequest
      BY <2>5 DEF RoutesRequest
    <2>6. CASE ClearsOne
      <3>1. DispSlot \in Slots
        BY <2>6, SlotOfRequest DEF ClearsOne, DispSlot
      <3>2. Head(pinQueue[DispSlot]) \in Request
        BY <2>6, <3>1, HeadTailProperties DEF ClearsOne, QueuesTypeOK
      <3> QED BY <2>6, <3>2 DEF ClearsOne
    <2>7. CASE ClearsNothing
      BY <2>7 DEF ClearsNothing
    <2>8. CASE SendsCancelled
      BY <2>8 DEF SendsCancelled
    <2>9. CASE EnqueuesPinRequest
      BY <2>9 DEF EnqueuesPinRequest
    <2>10. CASE SendsError
      BY <2>10 DEF SendsError
    <2> QED BY <2>1, <2>2, <2>3, <2>4, <2>5, <2>6, <2>7, <2>8, <2>9, <2>10
            DEF Dispatcher
  <1>2. WorkersTypeOK'
    <2>1. CASE CreatesSession
      <3>1. DispSlot \in Slots /\ FactoryConfig(dispRequest) \in Config
        BY <2>1, SlotOfRequest
           DEF CreatesSession, MustCreate, DispatcherTypeOK, DispSlot
      <3> QED
        BY <2>1, <3>1
           DEF CreatesSession, WorkersTypeOK, WorkerState, Holds
    <2>2. CASE ~CreatesSession
      <3>1. UNCHANGED <<session, workerVars>>
        BY <2>2 DEF Dispatcher, DispatcherReceives, DispatchRejects,
              CreateSessionFails, RoutesRequest, ClearsOne, ClearsNothing,
              SendsCancelled, EnqueuesPinRequest, SendsError
      <3> QED BY <3>1 DEF WorkersTypeOK, Holds
    <2> QED BY <2>1, <2>2
  <1>3. SerialTypeOK'
    <2>1. UNCHANGED <<received, dropped, txVars>>
      BY DEF Dispatcher, DispatcherReceives, DispatchRejects, CreatesSession,
             CreateSessionFails, RoutesRequest, ClearsOne, ClearsNothing,
             SendsCancelled, EnqueuesPinRequest, SendsError
    <2>2. notCreated' \subseteq Ids
      <3>1. CASE CreateSessionFails
        <4>1. dispRequest.request_id \in Ids
          BY <3>1, SlotOfRequest DEF CreateSessionFails, MustCreate, DispatcherTypeOK
        <4> QED BY <3>1, <4>1 DEF CreateSessionFails, SerialTypeOK
      <3>2. CASE UNCHANGED notCreated
        BY <3>2 DEF SerialTypeOK
      <3> QED
        BY <3>1, <3>2 DEF Dispatcher, DispatcherReceives, DispatchRejects,
           CreatesSession, RoutesRequest, ClearsOne, ClearsNothing,
           SendsCancelled, EnqueuesPinRequest, SendsError
    <2> QED BY <2>1, <2>2 DEF SerialTypeOK
  <1> QED BY <1>1, <1>2, <1>3

LEMMA TypeWorker ==
    ASSUME TypeOK, NEW s \in Slots, Worker(s)
    PROVE  TypeOK'
  <1> USE DEF TypeOK, dispVars, workerVars, txVars, rxVars
  <1>1. DispatcherTypeOK' /\ SerialTypeOK'
    <2>1. UNCHANGED <<dispVars, rxVars, txVars>>
      BY DEF Worker, WorkerInits, WorkerReceives, WorkerHandles, WorkerResponds
    <2> QED BY <2>1 DEF DispatcherTypeOK, SerialTypeOK
  <1>2. QueuesTypeOK'
    <2>1. CASE WorkerInits(s) \/ WorkerHandles(s)
      BY <2>1 DEF WorkerInits, WorkerHandles, QueuesTypeOK
    <2>2. CASE WorkerReceives(s)
      <3>1. /\ Tail(pinQueue[s]) \in Seq(Request)
            /\ Len(Tail(pinQueue[s])) <= PinQueueDepth
        BY <2>2, HeadTailProperties, LenProperties, CapacityAssumption
           DEF WorkerReceives, QueuesTypeOK
      <3> QED BY <2>2, <3>1 DEF WorkerReceives, QueuesTypeOK
    <2>3. CASE WorkerResponds(s)
      <3>1. OkResponse(workerRequest[s].request_id, workerValue[s]) \in Response
        BY <2>3, SlotOfRequest, AnswersAreResponses
           DEF WorkerResponds, WorkersTypeOK, Holds, ErrorCode
      <3> QED
        BY <2>3, <3>1, AppendProperties, LenProperties, CapacityAssumption
           DEF WorkerResponds, SendResponse, QueuesTypeOK
    <2> QED BY <2>1, <2>2, <2>3 DEF Worker
  <1>3. WorkersTypeOK'
    <2> USE DEF WorkersTypeOK, WorkerState, Holds
    <2>1. CASE WorkerInits(s)
      BY <2>1, SomeValues DEF WorkerInits, Level
    <2>2. CASE WorkerReceives(s)
      <3>1. Head(pinQueue[s]) \in Request
        BY <2>2, HeadTailProperties DEF WorkerReceives, QueuesTypeOK
      <3> QED BY <2>2, <3>1 DEF WorkerReceives
    <2>3. CASE WorkerHandles(s)
      <3>1. workerRequest[s] \in Request
        BY <2>3 DEF WorkerHandles
      <3>2. /\ workerRequest[s].request_id \in Ids
            /\ workerRequest[s].request_id \in 0 .. MaxRequests
        BY <3>1, SlotOfRequest, CapacityAssumption DEF Ids
      <3>3. AppliedValue(session[s].pinType, workerRequest[s].value) \in UInt16
        BY <3>1, SlotOfRequest, AppliedIsAValue
      <3>4. workerValue' \in [Slots -> UInt16]
            /\ level' \in [Slots -> Level]
        BY <2>3, <3>3, WorkloadAssumption DEF WorkerHandles, Level
      <3>5. executed' \subseteq Ids /\ lastExecuted' \in [Slots -> 0 .. MaxRequests]
        BY <2>3, <3>2 DEF WorkerHandles
      <3> QED BY <2>3, <3>1, <3>4, <3>5 DEF WorkerHandles
    <2>4. CASE WorkerResponds(s)
      BY <2>4, SomeValues DEF WorkerResponds, NoRequest
    <2> QED BY <2>1, <2>2, <2>3, <2>4 DEF Worker
  <1> QED BY <1>1, <1>2, <1>3

LEMMA TypeTx ==
    ASSUME TypeOK, Tx
    PROVE  TypeOK'
  <1> USE DEF TypeOK, dispVars, workerVars, txVars, rxVars
  <1>1. DispatcherTypeOK' /\ WorkersTypeOK'
    <2>1. UNCHANGED <<dispVars, session, workerVars>>
      BY DEF Tx, TxReceives, TxWrites
    <2> QED BY <2>1 DEF DispatcherTypeOK, WorkersTypeOK, Holds
  <1>2. QueuesTypeOK'
    <2>1. CASE TxReceives
      BY <2>1, HeadTailProperties, LenProperties, CapacityAssumption
         DEF TxReceives, QueuesTypeOK
    <2>2. CASE TxWrites
      BY <2>2 DEF TxWrites, QueuesTypeOK
    <2> QED BY <2>1, <2>2 DEF Tx
  <1>3. SerialTypeOK'
    <2>1. CASE TxReceives
      BY <2>1, HeadTailProperties DEF TxReceives, QueuesTypeOK, SerialTypeOK
    <2>2. CASE TxWrites
      BY <2>2, AppendProperties DEF TxWrites, SerialTypeOK
    <2> QED BY <2>1, <2>2 DEF Tx
  <1> QED BY <1>1, <1>2, <1>3

LEMMA TypeStep == TypeOK /\ [Next]_vars => TypeOK'
  <1> SUFFICES ASSUME TypeOK, [Next]_vars PROVE TypeOK'
    OBVIOUS
  <1>1. CASE \E body \in Workload : RxQueues(body) \/ RxDrops(body)
    BY <1>1, TypeRx
  <1>2. CASE Dispatcher
    BY <1>2, TypeDispatcherQueues, TypeDispatcherRest DEF TypeOK
  <1>3. CASE \E s \in Slots : Worker(s)
    BY <1>3, TypeWorker
  <1>4. CASE Tx
    BY <1>4, TypeTx
  <1>5. CASE UNCHANGED vars
    BY <1>5 DEF vars, dispVars, workerVars, txVars, rxVars, TypeOK,
         QueuesTypeOK, DispatcherTypeOK, WorkersTypeOK, SerialTypeOK, Holds
  <1> QED BY <1>1, <1>2, <1>3, <1>4, <1>5 DEF Next

\* Whatever the workload and the queue lengths, no queue outgrows the length
\* it was created with and no task uses a frame it has not received.
THEOREM TypeCorrect == Spec => []TypeOK
  BY TypeInit, TypeStep, PTL DEF Spec

---------------------------------------------------------------------------
(* Priority.  Only the dispatcher adds to a pin queue, and it adds a       *)
(* high-priority request to an empty one.                                  *)

LEMMA PriorityInit == Init => PriorityInv
  BY DEF Init, PriorityInv, HighPriorityGoesFirst

\* Taking the head of a queue moves every other request one place up.
LEMMA TailKeepsPriority ==
    ASSUME NEW q \in Seq(Request), q # <<>>,
           \A i \in DOMAIN q : q[i].priority = "kHigh" => i = 1
    PROVE  \A i \in DOMAIN Tail(q) : Tail(q)[i].priority = "kHigh" => i = 1
  <1> SUFFICES ASSUME NEW i \in DOMAIN Tail(q), Tail(q)[i].priority = "kHigh"
               PROVE  i = 1
    OBVIOUS
  <1>1. i \in 1 .. Len(Tail(q)) /\ Len(Tail(q)) = Len(q) - 1
    BY HeadTailProperties, LenProperties
  <1>2. Tail(q)[i] = q[i + 1] /\ i + 1 \in DOMAIN q
    BY <1>1, HeadTailProperties, LenProperties
  <1>3. i + 1 = 1
    BY <1>2
  <1> QED BY <1>1, <1>3, LenProperties

\* Requests are only taken from pin queues.
LEMMA PriorityTake ==
    ASSUME TypeOK, PriorityInv, NEW s \in Slots, pinQueue[s] # <<>>,
           pinQueue' = [pinQueue EXCEPT ![s] = Tail(@)]
    PROVE  HighPriorityGoesFirst'
  <1>1. \A i \in DOMAIN pinQueue'[s] :
            pinQueue'[s][i].priority = "kHigh" => i = 1
    BY TailKeepsPriority
       DEF TypeOK, QueuesTypeOK, PriorityInv, HighPriorityGoesFirst
  <1> QED
    BY <1>1 DEF TypeOK, QueuesTypeOK, PriorityInv, HighPriorityGoesFirst

LEMMA PriorityStep ==
    TypeOK /\ PriorityInv /\ [Next]_vars => PriorityInv'
  <1> SUFFICES ASSUME TypeOK, PriorityInv, [Next]_vars PROVE PriorityInv'
    OBVIOUS
  <1> USE DEF dispVars, workerVars, txVars, rxVars
  <1>a. dispPc # "receive" => DispSlot \in Slots /\ dispRequest \in Request
    BY SlotOfRequest DEF TypeOK, DispatcherTypeOK, DispSlot
  <1>1. CASE UNCHANGED <<pinQueue, dispPc, dispRequest>>
    BY <1>1 DEF PriorityInv, HighPriorityGoesFirst, DispSlot
  <1>2. CASE DispatcherReceives \/ DispatchRejects \/ CreatesSession
             \/ CreateSessionFails \/ SendsCancelled \/ SendsError
    <2>1. dispPc' # "enqueue" /\ UNCHANGED pinQueue
      BY <1>2 DEF DispatcherReceives, DispatchRejects, CreatesSession,
            CreateSessionFails, MustCreate, RaiseError, SendsCancelled,
            SendsError, DispatchDone
    <2> QED BY <2>1 DEF PriorityInv, HighPriorityGoesFirst
  <1>3. CASE RoutesRequest
    BY <1>3 DEF RoutesRequest, RaiseError, PriorityInv, HighPriorityGoesFirst
  <1>4. CASE ClearsOne
    <2>1. HighPriorityGoesFirst'
      BY <1>4, <1>a, PriorityTake DEF ClearsOne
    <2> QED BY <1>4, <2>1 DEF ClearsOne, PriorityInv
  <1>5. CASE ClearsNothing
    BY <1>5 DEF ClearsNothing, PriorityInv, HighPriorityGoesFirst, DispSlot
  <1>6. CASE EnqueuesPinRequest
    <2>1. CASE UNCHANGED pinQueue
      BY <1>6, <2>1 DEF EnqueuesPinRequest, RaiseError, DispatchDone,
            PriorityInv, HighPriorityGoesFirst
    <2>2. CASE pinQueue' # pinQueue
      <3> DEFINE q == pinQueue[DispSlot]
      <3>1. /\ pinQueue' = [pinQueue EXCEPT ![DispSlot] = Append(q, dispRequest)]
            /\ dispPc' = "receive"
        BY <1>6, <2>2 DEF EnqueuesPinRequest, DispatchDone
      <3>2. q \in Seq(Request) /\ DispSlot \in Slots /\ dispRequest \in Request
        BY <1>6, <1>a DEF EnqueuesPinRequest, TypeOK, QueuesTypeOK
      <3>3. ASSUME NEW i \in DOMAIN Append(q, dispRequest),
                   Append(q, dispRequest)[i].priority = "kHigh"
            PROVE  i = 1
        <4>1. i \in 1 .. Len(q) + 1
          BY <3>2, AppendProperties, LenProperties
        <4>2. CASE i = Len(q) + 1
          <5>1. dispRequest.priority = "kHigh"
            BY <3>2, <3>3, <4>2, AppendProperties
          <5>2. q = <<>>
            BY <1>6, <5>1 DEF EnqueuesPinRequest, PriorityInv
          <5> QED BY <4>2, <5>2
        <4>3. CASE i # Len(q) + 1
          <5>1. i \in DOMAIN q /\ Append(q, dispRequest)[i] = q[i]
            BY <3>2, <4>1, <4>3, AppendProperties, LenProperties
          <5> QED BY <3>2, <3>3, <5>1 DEF PriorityInv, HighPriorityGoesFirst
        <4> QED BY <4>2, <4>3
      <3> QED
        BY <3>1, <3>2, <3>3
           DEF TypeOK, QueuesTypeOK, PriorityInv, HighPriorityGoesFirst
    <2> QED BY <2>1, <2>2
  <1>7. ASSUME NEW s \in Slots, WorkerReceives(s) PROVE PriorityInv'
    <2>1. HighPriorityGoesFirst'
      BY <1>7, PriorityTake DEF WorkerReceives
    <2>2. /\ pinQueue' = [pinQueue EXCEPT ![s] = Tail(@)]
          /\ UNCHANGED <<dispPc, dispRequest>> /\ pinQueue[s] # <<>>
      BY <1>7 DEF WorkerReceives
    <2>3. dispPc' = "enqueue" /\ dispRequest'.priority = "kHigh" =>
             pinQueue'[DispSlot'] = <<>>
      BY <1>a, <2>2 DEF PriorityInv, DispSlot, TypeOK, QueuesTypeOK
    <2> QED BY <2>1, <2>3 DEF PriorityInv
  <1>8. ASSUME NEW s \in Slots,
               WorkerInits(s) \/ WorkerHandles(s) \/ WorkerResponds(s)
        PROVE  PriorityInv'
    BY <1>1, <1>8 DEF WorkerInits, WorkerHandles, WorkerResponds
  <1>9. CASE Tx \/ (\E body \in Workload : RxQueues(body) \/ RxDrops(body))
    BY <1>1, <1>9 DEF Tx, TxReceives, TxWrites, RxQueues, RxDrops, RxArrives
  <1> QED
    BY <1>1, <1>2, <1>3, <1>4, <1>5, <1>6, <1>7, <1>8, <1>9
       DEF Next, Dispatcher, Worker, vars

\* On every pin and with every queue length, a high-priority request is never
\* queued behind another request (clearPendingRequests and enqueuePinRequest
\* with a worker that drains the queue between them).
THEOREM HighPriorityFirst == Spec => []HighPriorityGoesFirst
  <1>1. PriorityInv => HighPriorityGoesFirst
    BY DEF PriorityInv
  <1> QED BY <1>1, TypeCorrect, PriorityInit, PriorityStep, PTL DEF Spec

---------------------------------------------------------------------------
(* Routing.  A session is stored once and never replaced, so what the      *)
(* dispatcher checked against it stays true.                               *)

\* No request fits a slot without a session.
LEMMA NoSessionSupportsNothing ==
    ASSUME NEW r PROVE ~SupportsRequest(NoSession, r)
  BY DEF SupportsRequest, PinConfigFromRequest, NoSession, EmptyConfig, ModeOf

LEMMA RoutingInit == Init => RoutingInv
  BY DEF Init, RoutingInv, RoutedToOwnSession, RequestsAt, Holds, NoSession

\* The registry arrays have an element for every number isValidPinNumber
\* accepts.
LEMMA ValidSlotInBounds ==
    ASSUME NEW r \in Request, IsValidPinNumber(r.pin_type, r.pin_number)
    PROVE  SlotOf(r)[2] \in 1 .. RegistrySize[SlotOf(r)[1]] - 1
  <1>1. CASE IsI2cPinType(r.pin_type)
    BY <1>1 DEF IsValidPinNumber, SlotOf, RegistrySize, kMinI2cAddress,
         kMaxI2cAddress
  <1>2. CASE ~IsI2cPinType(r.pin_type)
    BY <1>2 DEF IsValidPinNumber, SlotOf, RegistrySize, kMinPhysicalPinNumber,
         kMaxPhysicalPinNumber
  <1> QED BY <1>1, <1>2

\* What holds of every request of a slot still holds when sessions stay and
\* the slot gets no new request.
LEMMA RoutingKept ==
    ASSUME TypeOK, RoutingInv, UNCHANGED session,
           \A s \in Slots : RequestsAt(s)' \subseteq RequestsAt(s)
    PROVE  RoutedToOwnSession'
  BY DEF RoutingInv, RoutedToOwnSession

LEMMA TailElements ==
    ASSUME NEW q \in Seq(Request), q # <<>>
    PROVE  /\ Head(q) \in {q[i] : i \in DOMAIN q}
           /\ {Tail(q)[i] : i \in DOMAIN Tail(q)} \subseteq {q[i] : i \in DOMAIN q}
  <1>1. Head(q) = q[1] /\ 1 \in DOMAIN q
    BY EmptySeq, LenProperties
  <1>2. ASSUME NEW i \in DOMAIN Tail(q)
        PROVE  i + 1 \in DOMAIN q /\ Tail(q)[i] = q[i + 1]
    BY HeadTailProperties, LenProperties
  <1> QED BY <1>1, <1>2

LEMMA RoutingStep ==
    TypeOK /\ TypeOK' /\ RoutingInv /\ [Next]_vars => RoutingInv'
  <1> SUFFICES ASSUME TypeOK, TypeOK', RoutingInv, [Next]_vars
               PROVE  RoutingInv'
    OBVIOUS
  <1> USE DEF dispVars, workerVars, txVars, rxVars
  <1>a. dispPc # "receive" => DispSlot \in Slots /\ dispRequest \in Request
    BY SlotOfRequest DEF TypeOK, DispatcherTypeOK, DispSlot
  <1>b. \A s \in Slots : pinQueue[s] \in Seq(Request)
    BY DEF TypeOK, QueuesTypeOK
  <1>1. CASE UNCHANGED <<session, pinQueue, workerPc, workerRequest, dispPc,
                         dispRequest>>
    BY <1>1 DEF RoutingInv, RoutedToOwnSession, RequestsAt, Holds, DispSlot
  <1>2. CASE DispatcherReceives \/ DispatchRejects \/ CreateSessionFails
             \/ SendsError \/ RoutesRequest \/ ClearsNothing \/ SendsCancelled
    <2>1. RoutedToOwnSession'
      <3>1. UNCHANGED <<session, pinQueue, workerPc, workerRequest>>
        BY <1>2 DEF DispatcherReceives, DispatchRejects, CreateSessionFails,
              SendsError, RoutesRequest, ClearsNothing, SendsCancelled
      <3> QED
        BY <3>1, RoutingKept DEF RequestsAt, Holds
    <2>2. dispPc' \in {"clear", "cancel", "enqueue"} =>
             SupportsRequest(session'[DispSlot'], dispRequest')
      BY <1>2 DEF DispatcherReceives, DispatchRejects, CreateSessionFails,
            MustCreate, SendsError, DispatchDone, RaiseError, RoutesRequest,
            ClearsNothing, SendsCancelled, RoutingInv, DispSlot
    <2> QED BY <2>1, <2>2 DEF RoutingInv
  <1>3. CASE CreatesSession
    <2>1. /\ DispSlot \in Slots /\ dispRequest \in Request
          /\ session[DispSlot] = NoSession
          /\ session' = [session EXCEPT ![DispSlot] = FactoryConfig(dispRequest)]
          /\ workerPc' = [workerPc EXCEPT ![DispSlot] = "ready"]
          /\ UNCHANGED <<pinQueue, workerRequest, dispPc, dispRequest>>
          /\ dispPc = "dispatch"
      BY <1>3, <1>a DEF CreatesSession, MustCreate
    <2>2. RequestsAt(DispSlot) = {}
      BY <2>1, NoSessionSupportsNothing DEF RoutingInv, RoutedToOwnSession
    <2>3. \A s \in Slots : RequestsAt(s)' \subseteq RequestsAt(s)
      BY <2>1 DEF RequestsAt, Holds, TypeOK, WorkersTypeOK
    <2>4. \A s \in Slots : s # DispSlot => session'[s] = session[s]
      BY <2>1 DEF TypeOK, WorkersTypeOK
    <2>5. IsValidPinNumber(dispRequest.pin_type, dispRequest.pin_number)
      BY <1>3 DEF CreatesSession, MustCreate, Rejection
    <2>6. DispSlot[2] \in 1 .. RegistrySize[DispSlot[1]] - 1
      BY <2>1, <2>5, ValidSlotInBounds DEF DispSlot
    <2>7. RoutedToOwnSession'
      BY <2>2, <2>3, <2>4, <2>6 DEF RoutingInv, RoutedToOwnSession
    <2> QED BY <2>1, <2>7 DEF RoutingInv
  <1>4. CASE ClearsOne
    <2>1. /\ DispSlot \in Slots /\ pinQueue[DispSlot] # <<>>
          /\ pinQueue' = [pinQueue EXCEPT ![DispSlot] = Tail(@)]
          /\ UNCHANGED <<session, workerPc, workerRequest, dispRequest>>
          /\ dispPc = "clear" /\ dispPc' = "cancel"
      BY <1>4, <1>a DEF ClearsOne
    <2>2. \A s \in Slots : RequestsAt(s)' \subseteq RequestsAt(s)
      BY <1>b, <2>1, TailElements DEF RequestsAt, Holds, TypeOK, QueuesTypeOK
    <2> QED BY <2>1, <2>2, RoutingKept DEF RoutingInv, DispSlot
  <1>5. CASE EnqueuesPinRequest
    <2>1. CASE UNCHANGED pinQueue
      BY <1>5, <2>1 DEF EnqueuesPinRequest, RaiseError, DispatchDone,
           RoutingInv, RoutedToOwnSession, RequestsAt, Holds
    <2>2. CASE pinQueue' # pinQueue
      <3> DEFINE q == pinQueue[DispSlot]
      <3>1. /\ pinQueue' = [pinQueue EXCEPT ![DispSlot] = Append(q, dispRequest)]
            /\ dispPc' = "receive" /\ dispPc = "enqueue"
            /\ UNCHANGED <<session, workerPc, workerRequest>>
        BY <1>5, <2>2 DEF EnqueuesPinRequest, DispatchDone
      <3>2. q \in Seq(Request) /\ DispSlot \in Slots /\ dispRequest \in Request
        BY <1>a, <1>b, <3>1
      <3>3. \A i \in DOMAIN Append(q, dispRequest) :
               Append(q, dispRequest)[i] \in {q[j] : j \in DOMAIN q} \cup {dispRequest}
        BY <3>2, AppendProperties, LenProperties
      <3>4. \A s \in Slots : \A r \in RequestsAt(s)' :
               r \in RequestsAt(s) \/ (s = DispSlot /\ r = dispRequest)
        <4> SUFFICES ASSUME NEW s \in Slots, NEW r \in RequestsAt(s)'
                     PROVE  r \in RequestsAt(s) \/ (s = DispSlot /\ r = dispRequest)
          OBVIOUS
        <4>1. CASE s = DispSlot
          <5>1. pinQueue'[s] = Append(q, dispRequest)
            BY <3>1, <3>2, <4>1 DEF TypeOK, QueuesTypeOK
          <5> QED BY <3>1, <3>3, <4>1, <5>1 DEF RequestsAt, Holds
        <4>2. CASE s # DispSlot
          BY <3>1, <3>2, <4>2 DEF RequestsAt, Holds, TypeOK, QueuesTypeOK
        <4> QED BY <4>1, <4>2
      <3>6. RoutedToOwnSession'
        <4>1. /\ SlotOf(dispRequest) = DispSlot
              /\ SupportsRequest(session[DispSlot], dispRequest)
          BY <3>1 DEF RoutingInv, DispSlot
        <4>2. \A s \in Slots : \A r \in RequestsAt(s)' :
                 SlotOf(r) = s /\ SupportsRequest(session[s], r)
          BY <3>4, <4>1 DEF RoutingInv, RoutedToOwnSession
        <4> QED BY <3>1, <4>2 DEF RoutingInv, RoutedToOwnSession
      <3> QED BY <3>1, <3>6 DEF RoutingInv
    <2> QED BY <2>1, <2>2
  <1>6. ASSUME NEW s \in Slots, Worker(s) PROVE RoutingInv'
    <2>1. UNCHANGED <<session, dispPc, dispRequest>>
      BY <1>6 DEF Worker, WorkerInits, WorkerReceives, WorkerHandles,
           WorkerResponds
    <2>2. \A t \in Slots : RequestsAt(t)' \subseteq RequestsAt(t)
      <3>1. CASE WorkerInits(s) \/ WorkerHandles(s) \/ WorkerResponds(s)
        BY <3>1 DEF WorkerInits, WorkerHandles, WorkerResponds, RequestsAt,
             Holds, TypeOK, WorkersTypeOK
      <3>2. CASE WorkerReceives(s)
        BY <1>b, <3>2, TailElements DEF WorkerReceives, RequestsAt, Holds,
             TypeOK, WorkersTypeOK, QueuesTypeOK
      <3> QED BY <1>6, <3>1, <3>2 DEF Worker
    <2> QED BY <2>1, <2>2, RoutingKept DEF RoutingInv, DispSlot
  <1>7. CASE Tx \/ (\E body \in Workload : RxQueues(body) \/ RxDrops(body))
    BY <1>1, <1>7 DEF Tx, TxReceives, TxWrites, RxQueues, RxDrops, RxArrives
  <1> QED
    BY <1>1, <1>2, <1>3, <1>4, <1>5, <1>6, <1>7 DEF Next, Dispatcher, vars

\* Every request a session holds is for its own pin or address and fits the
\* mode the pin was initialised for, and no session is stored outside its
\* array (PinRegistry, supportsRequest, findSession).
THEOREM RequestsRoutedToOwnSession == Spec => []RoutedToOwnSession
  <1>1. RoutingInv => RoutedToOwnSession
    BY DEF RoutingInv
  <1> QED BY <1>1, TypeCorrect, RoutingInit, RoutingStep, PTL DEF Spec

---------------------------------------------------------------------------
(* Order.  Ids grow along the path request queue - dispatcher - pin queue  *)
(* - worker - lastExecuted, read backwards.                                *)

LEMMA IdsAreNaturals == \A r \in Request : r.request_id \in Nat
  BY SlotOfRequest, CapacityAssumption DEF Ids

LEMMA TailIncreasing ==
    ASSUME NEW q \in Seq(Request), q # <<>>, Increasing(q)
    PROVE  /\ Increasing(Tail(q))
           /\ \A i \in DOMAIN Tail(q) : Head(q).request_id < Tail(q)[i].request_id
  <1>1. Head(q) = q[1] /\ 1 \in DOMAIN q
    BY EmptySeq, LenProperties
  <1>2. \A i \in DOMAIN Tail(q) :
           i \in Nat \ {0} /\ i + 1 \in DOMAIN q /\ Tail(q)[i] = q[i + 1]
    BY HeadTailProperties, LenProperties
  <1>3. ASSUME NEW i \in DOMAIN Tail(q), NEW j \in DOMAIN Tail(q), i < j
        PROVE  Tail(q)[i].request_id < Tail(q)[j].request_id
    <2>1. i + 1 < j + 1
      BY <1>2, <1>3
    <2> QED BY <1>2, <2>1 DEF Increasing
  <1>4. ASSUME NEW i \in DOMAIN Tail(q)
        PROVE  Head(q).request_id < Tail(q)[i].request_id
    <2>1. 1 < i + 1
      BY <1>2
    <2> QED BY <1>1, <1>2, <2>1 DEF Increasing
  <1> QED BY <1>3, <1>4 DEF Increasing

LEMMA AppendIncreasing ==
    ASSUME NEW q \in Seq(Request), NEW r \in Request, Increasing(q),
           \A i \in DOMAIN q : q[i].request_id < r.request_id
    PROVE  /\ Increasing(Append(q, r))
           /\ \A i \in DOMAIN Append(q, r) :
                 Append(q, r)[i] = r \/ \E j \in DOMAIN q : Append(q, r)[i] = q[j]
  <1>1. /\ DOMAIN q = 1 .. Len(q) /\ Len(q) \in Nat
        /\ DOMAIN Append(q, r) = 1 .. Len(q) + 1
    BY AppendProperties, LenProperties
  <1>2. \A i \in 1 .. Len(q) : Append(q, r)[i] = q[i]
    BY AppendProperties
  <1>3. Append(q, r)[Len(q) + 1] = r
    BY AppendProperties
  <1>4. ASSUME NEW i \in DOMAIN Append(q, r), NEW j \in DOMAIN Append(q, r), i < j
        PROVE  Append(q, r)[i].request_id < Append(q, r)[j].request_id
    <2>1. i \in 1 .. Len(q) /\ (j \in 1 .. Len(q) \/ j = Len(q) + 1)
      BY <1>1, <1>4
    <2>2. CASE j \in 1 .. Len(q)
      BY <1>1, <1>2, <1>4, <2>1, <2>2 DEF Increasing
    <2>3. CASE j = Len(q) + 1
      BY <1>1, <1>2, <1>3, <2>1, <2>3
    <2> QED BY <2>1, <2>2, <2>3
  <1>5. ASSUME NEW i \in DOMAIN Append(q, r)
        PROVE  Append(q, r)[i] = r \/ \E j \in DOMAIN q : Append(q, r)[i] = q[j]
    <2>1. i \in 1 .. Len(q) \/ i = Len(q) + 1
      BY <1>1
    <2> QED BY <1>1, <1>2, <1>3, <2>1
  <1> QED BY <1>4, <1>5 DEF Increasing

LEMMA OrderInit == Init => OrderInv
  BY EmptySeq, CapacityAssumption
     DEF Init, OrderInv, OrderAt, Older, Increasing, Holds

\* A step that leaves the sessions alone keeps their order if whatever was
\* older than the dispatcher's work still is.
LEMMA OrderKeptAtSlots ==
    ASSUME TypeOK, OrderInv,
           UNCHANGED <<pinQueue, workerPc, workerRequest, lastExecuted>>,
           \A id \in Nat : Older(id) => Older(id)'
    PROVE  \A s \in Slots : OrderAt(s)'
  <1> SUFFICES ASSUME NEW s \in Slots PROVE OrderAt(s)'
    OBVIOUS
  <1>1. OrderAt(s)
    BY DEF OrderInv
  <1>2. /\ pinQueue[s] \in Seq(Request) /\ lastExecuted[s] \in Nat
        /\ Holds(s) => workerRequest[s].request_id \in Nat
    BY IdsAreNaturals, CapacityAssumption
       DEF TypeOK, QueuesTypeOK, WorkersTypeOK
  <1>3. \A i \in DOMAIN pinQueue[s] : pinQueue[s][i].request_id \in Nat
    BY <1>2, IdsAreNaturals, LenProperties, ElementOfSeq
  <1>4. Older(lastExecuted[s])' /\ (Holds(s)' => Older(workerRequest[s].request_id)')
    BY <1>1, <1>2 DEF OrderAt, Older, Holds
  <1>5. \A i \in DOMAIN pinQueue[s] : Older(pinQueue[s][i].request_id)'
    BY <1>1, <1>3 DEF OrderAt, Older
  <1> QED BY <1>1, <1>4, <1>5 DEF OrderAt, Increasing, Holds

LEMMA OrderRx ==
    ASSUME TypeOK, OrderInv, NEW body \in Workload,
           RxQueues(body) \/ RxDrops(body)
    PROVE  OrderInv'
  <1> USE DEF RxArrives, rxVars, dispVars, workerVars, txVars
  <1> DEFINE r == NextRequest(body)
  <1>1. /\ RxArrives(body)
        /\ received \in Seq(Request) /\ requestQueue \in Seq(Request)
        /\ Len(received) \in Nat
    BY LenProperties DEF RxQueues, RxDrops, TypeOK, QueuesTypeOK, SerialTypeOK
  <1>2. r \in Request /\ r.request_id = Len(received) + 1
    BY <1>1, NextRequestIsRequest DEF NextRequest, WithId
  <1>3. Len(received') = Len(received) + 1
    BY <1>1, <1>2, AppendProperties
  <1>4. \A i \in DOMAIN requestQueue :
           /\ requestQueue[i].request_id \in Nat
           /\ requestQueue[i].request_id <= Len(received)
    BY <1>1, IdsAreNaturals, LenProperties, ElementOfSeq DEF OrderInv
  <1>5. /\ Increasing(requestQueue)'
        /\ \A i \in DOMAIN requestQueue' :
              \/ requestQueue'[i] = r
              \/ \E j \in DOMAIN requestQueue : requestQueue'[i] = requestQueue[j]
    <2>1. CASE RxQueues(body)
      <3>1. requestQueue' = Append(requestQueue, r)
        BY <2>1 DEF RxQueues
      <3>2. \A i \in DOMAIN requestQueue :
               requestQueue[i].request_id < r.request_id
        BY <1>1, <1>2, <1>4
      <3>3. Increasing(Append(requestQueue, r))
            /\ \A i \in DOMAIN Append(requestQueue, r) :
                  \/ Append(requestQueue, r)[i] = r
                  \/ \E j \in DOMAIN requestQueue :
                        Append(requestQueue, r)[i] = requestQueue[j]
        BY <1>1, <1>2, <3>2, AppendIncreasing DEF OrderInv
      <3> QED BY <3>1, <3>3 DEF Increasing
    <2>2. CASE RxDrops(body)
      BY <2>2 DEF RxDrops, OrderInv, Increasing
    <2> QED BY <2>1, <2>2
  <1>6. ASSUME NEW id \in Nat, Older(id) PROVE Older(id)'
    <2>1. id <= Len(received)
      BY <1>6 DEF Older
    <2>2. id <= Len(received') /\ id < r.request_id
      BY <1>1, <1>2, <1>3, <2>1
    <2> QED BY <1>1, <1>5, <1>6, <2>2 DEF Older
  <1>7. \A s \in Slots : OrderAt(s)'
    BY <1>1, <1>6, OrderKeptAtSlots
  <1>8. \A i \in DOMAIN requestQueue' :
           requestQueue'[i].request_id <= Len(received')
    BY <1>1, <1>2, <1>3, <1>4, <1>5
  <1>9. dispPc' # "receive" =>
           /\ dispRequest'.request_id <= Len(received')
           /\ \A i \in DOMAIN requestQueue' :
                 dispRequest'.request_id < requestQueue'[i].request_id
    <2> SUFFICES ASSUME dispPc' # "receive"
                 PROVE  /\ dispRequest.request_id <= Len(received')
                        /\ \A i \in DOMAIN requestQueue' :
                             dispRequest.request_id < requestQueue'[i].request_id
      BY <1>1
    <2>1. /\ dispRequest.request_id \in Nat
          /\ dispRequest.request_id <= Len(received)
          /\ \A j \in DOMAIN requestQueue :
                dispRequest.request_id < requestQueue[j].request_id
      BY <1>1, IdsAreNaturals DEF TypeOK, DispatcherTypeOK, OrderInv
    <2>2. /\ dispRequest.request_id <= Len(received')
          /\ dispRequest.request_id < r.request_id
      BY <1>1, <1>2, <1>3, <2>1
    <2> QED BY <1>5, <2>1, <2>2
  <1> QED BY <1>5, <1>7, <1>8, <1>9 DEF OrderInv

LEMMA OrderReceive ==
    ASSUME TypeOK, OrderInv, DispatcherReceives
    PROVE  OrderInv'
  <1> USE DEF dispVars, workerVars, txVars, rxVars
  <1>1. /\ requestQueue \in Seq(Request) /\ requestQueue # <<>>
        /\ dispRequest' = Head(requestQueue) /\ requestQueue' = Tail(requestQueue)
        /\ dispPc = "receive"
        /\ UNCHANGED <<received, pinQueue, workerPc, workerRequest, lastExecuted>>
    BY DEF DispatcherReceives, TypeOK, QueuesTypeOK
  <1>2. Head(requestQueue) = requestQueue[1] /\ 1 \in DOMAIN requestQueue
    BY <1>1, EmptySeq, LenProperties
  <1>3. \A i \in DOMAIN Tail(requestQueue) :
           \E j \in DOMAIN requestQueue : Tail(requestQueue)[i] = requestQueue[j]
    BY <1>1, HeadTailProperties, LenProperties
  <1>4. /\ Increasing(requestQueue)'
        /\ \A i \in DOMAIN requestQueue' :
              dispRequest'.request_id < requestQueue'[i].request_id
    BY <1>1, TailIncreasing DEF OrderInv, Increasing
  <1>5. /\ dispRequest'.request_id <= Len(received')
        /\ \A i \in DOMAIN requestQueue' :
              requestQueue'[i].request_id <= Len(received')
    BY <1>1, <1>2, <1>3 DEF OrderInv
  <1>6. ASSUME NEW id \in Nat, Older(id) PROVE Older(id)'
    BY <1>1, <1>2, <1>3, <1>6 DEF Older
  <1>7. \A s \in Slots : OrderAt(s)'
    BY <1>1, <1>6, OrderKeptAtSlots
  <1> QED BY <1>4, <1>5, <1>7 DEF OrderInv

\* Every dispatcher step that touches no pin queue.
LEMMA OrderDecide ==
    ASSUME TypeOK, OrderInv,
           DispatchRejects \/ CreateSessionFails \/ RoutesRequest
              \/ ClearsNothing \/ SendsCancelled \/ SendsError
    PROVE  OrderInv'
  <1> USE DEF dispVars, workerVars, txVars, rxVars
  <1>1. /\ UNCHANGED <<requestQueue, received, pinQueue, workerPc,
                       workerRequest, lastExecuted>>
        /\ dispPc # "receive"
        /\ dispPc' = "receive" \/ dispRequest' = dispRequest
    BY DEF DispatchRejects, CreateSessionFails, MustCreate, RaiseError,
           RoutesRequest, ClearsNothing, SendsCancelled, SendsError,
           DispatchDone
  <1>2. ASSUME NEW id \in Nat, Older(id) PROVE Older(id)'
    BY <1>1, <1>2 DEF Older
  <1>3. \A s \in Slots : OrderAt(s)'
    BY <1>1, <1>2, OrderKeptAtSlots
  <1> QED BY <1>1, <1>3 DEF OrderInv, Increasing

LEMMA OrderCreate ==
    ASSUME TypeOK, OrderInv, CreatesSession
    PROVE  OrderInv'
  <1> USE DEF dispVars, workerVars, txVars, rxVars
  <1>1. /\ UNCHANGED <<requestQueue, received, pinQueue, workerRequest,
                       lastExecuted, dispPc, dispRequest>>
        /\ workerPc' = [workerPc EXCEPT ![DispSlot] = "ready"]
    BY DEF CreatesSession
  <1>2. ASSUME NEW s \in Slots PROVE OrderAt(s)'
    <2>1. /\ OrderAt(s)
          /\ workerPc'[s] = workerPc[s] \/ workerPc'[s] = "ready"
      BY <1>1 DEF OrderInv, TypeOK, WorkersTypeOK
    <2> QED BY <1>1, <2>1 DEF OrderAt, Older, Increasing, Holds
  <1> QED BY <1>1, <1>2 DEF OrderInv, Increasing

LEMMA OrderClear ==
    ASSUME TypeOK, OrderInv, ClearsOne
    PROVE  OrderInv'
  <1> USE DEF dispVars, workerVars, txVars, rxVars
  <1>1. /\ UNCHANGED <<requestQueue, received, workerPc, workerRequest,
                       lastExecuted, dispRequest>>
        /\ dispPc = "clear" /\ dispPc' = "cancel"
        /\ DispSlot \in Slots /\ pinQueue[DispSlot] # <<>>
        /\ pinQueue' = [pinQueue EXCEPT ![DispSlot] = Tail(@)]
    BY SlotOfRequest DEF ClearsOne, TypeOK, DispatcherTypeOK, DispSlot
  <1>2. ASSUME NEW s \in Slots PROVE OrderAt(s)'
    <2>1. OrderAt(s) /\ pinQueue[s] \in Seq(Request)
      BY DEF OrderInv, TypeOK, QueuesTypeOK
    <2>2. /\ Increasing(pinQueue'[s])
          /\ \A i \in DOMAIN pinQueue'[s] :
                \E j \in DOMAIN pinQueue[s] : pinQueue'[s][i] = pinQueue[s][j]
      <3>1. CASE s = DispSlot
        <4>1. pinQueue'[s] = Tail(pinQueue[s])
          BY <1>1, <3>1 DEF TypeOK, QueuesTypeOK
        <4>2. Increasing(Tail(pinQueue[s]))
          BY <1>1, <2>1, <3>1, TailIncreasing DEF OrderAt
        <4>3. \A i \in DOMAIN Tail(pinQueue[s]) :
                 \E j \in DOMAIN pinQueue[s] :
                    Tail(pinQueue[s])[i] = pinQueue[s][j]
          BY <1>1, <2>1, <3>1, HeadTailProperties, LenProperties
        <4> QED BY <4>1, <4>2, <4>3
      <3>2. CASE s # DispSlot
        BY <1>1, <2>1, <3>2 DEF OrderAt, TypeOK, QueuesTypeOK
      <3> QED BY <3>1, <3>2
    <2>3. \A id : Older(id) => Older(id)'
      BY <1>1 DEF Older
    <2> QED BY <1>1, <2>1, <2>2, <2>3 DEF OrderAt, Older, Holds, Increasing
  <1> QED BY <1>1, <1>2 DEF OrderInv, Increasing

LEMMA OrderEnqueue ==
    ASSUME TypeOK, OrderInv, EnqueuesPinRequest
    PROVE  OrderInv'
  <1> USE DEF dispVars, workerVars, txVars, rxVars
  <1>1. /\ UNCHANGED <<requestQueue, received, workerPc, workerRequest,
                       lastExecuted>>
        /\ dispPc = "enqueue"
        /\ dispPc' = "receive" \/ dispRequest' = dispRequest
        /\ DispSlot \in Slots /\ dispRequest \in Request
    BY SlotOfRequest DEF EnqueuesPinRequest, RaiseError, DispatchDone, TypeOK,
       DispatcherTypeOK, DispSlot
  <1>2. ASSUME NEW id, Older(id) PROVE Older(id)'
    BY <1>1, <1>2 DEF Older
  <1>3. CASE UNCHANGED pinQueue
    <2>1. \A s \in Slots : OrderAt(s)'
      BY <1>1, <1>2, <1>3, OrderKeptAtSlots
    <2> QED BY <1>1, <2>1 DEF OrderInv, Increasing
  <1>4. CASE pinQueue' # pinQueue
    <2> DEFINE q == pinQueue[DispSlot]
    <2>0. PICK r \in Request : r = dispRequest
      BY <1>1
    <2>1. /\ pinQueue' = [pinQueue EXCEPT ![DispSlot] = Append(q, r)]
          /\ dispPc' = "receive"
      BY <1>4, <2>0 DEF EnqueuesPinRequest, DispatchDone
    <2>2. Older(r.request_id)'
      BY <1>1, <2>0, <2>1 DEF OrderInv, Older
    <2>3. ASSUME NEW s \in Slots, s # DispSlot PROVE OrderAt(s)'
      <3>1. pinQueue'[s] = pinQueue[s] /\ OrderAt(s)
        BY <2>1, <2>3 DEF OrderInv, TypeOK, QueuesTypeOK
      <3> QED BY <1>1, <1>2, <3>1 DEF OrderAt, Older, Holds, Increasing
    <2>4. ASSUME NEW s \in Slots, s = DispSlot PROVE OrderAt(s)'
      <3>1. /\ q \in Seq(Request) /\ OrderAt(s)
            /\ pinQueue'[s] = Append(q, r)
        BY <2>1, <2>4 DEF OrderInv, TypeOK, QueuesTypeOK
      <3>2. /\ Increasing(q)
            /\ \A i \in DOMAIN q : q[i].request_id < r.request_id
            /\ lastExecuted[s] < r.request_id
            /\ Holds(s) => workerRequest[s].request_id < r.request_id
        BY <1>1, <2>0, <2>4, <3>1 DEF OrderAt, Older
      <3>3. /\ Increasing(Append(q, r))
            /\ \A i \in DOMAIN Append(q, r) :
                  \/ Append(q, r)[i] = r
                  \/ \E j \in DOMAIN q : Append(q, r)[i] = q[j]
        BY <1>1, <3>1, <3>2, AppendIncreasing
      <3>4. ASSUME NEW i \in DOMAIN pinQueue'[s]
            PROVE  /\ Older(pinQueue[s][i].request_id)'
                   /\ lastExecuted[s] < pinQueue'[s][i].request_id
                   /\ Holds(s) =>
                         workerRequest[s].request_id < pinQueue'[s][i].request_id
        <4>1. CASE pinQueue'[s][i] = r
          BY <2>2, <3>2, <4>1 DEF Older
        <4>2. ASSUME NEW j \in DOMAIN q, pinQueue'[s][i] = q[j]
              PROVE  /\ Older(pinQueue[s][i].request_id)'
                     /\ lastExecuted[s] < pinQueue'[s][i].request_id
                     /\ Holds(s) =>
                         workerRequest[s].request_id < pinQueue'[s][i].request_id
          BY <1>1, <2>1, <2>4, <3>1, <4>2 DEF OrderAt, Older
        <4> QED BY <3>1, <3>3, <4>1, <4>2
      <3>5. /\ Older(lastExecuted[s])'
            /\ (Holds(s) => Older(workerRequest[s].request_id))'
            /\ Increasing(pinQueue[s])'
        BY <1>1, <2>1, <3>1, <3>3 DEF OrderAt, Older, Holds, Increasing
      <3>6. workerPc'[s] = "handle" =>
               lastExecuted'[s] < workerRequest'[s].request_id
        BY <1>1, <3>1 DEF OrderAt
      <3> QED BY <1>1, <3>4, <3>5, <3>6 DEF OrderAt, Holds
    <2> QED BY <1>1, <2>1, <2>3, <2>4 DEF OrderInv, Increasing
  <1> QED BY <1>3, <1>4

LEMMA OrderWorker ==
    ASSUME TypeOK, OrderInv, NEW s \in Slots, Worker(s)
    PROVE  OrderInv'
  <1> USE DEF dispVars, workerVars, txVars, rxVars
  <1>1. /\ UNCHANGED <<requestQueue, received, dispPc, dispRequest>>
        /\ \A id : Older(id) => Older(id)'
    BY DEF Worker, WorkerInits, WorkerReceives, WorkerHandles, WorkerResponds,
           Older
  <1>2. ASSUME NEW t \in Slots, t # s PROVE OrderAt(t)'
    <2>1. /\ pinQueue'[t] = pinQueue[t] /\ workerPc'[t] = workerPc[t]
          /\ workerRequest'[t] = workerRequest[t]
          /\ lastExecuted'[t] = lastExecuted[t]
      BY <1>2 DEF Worker, WorkerInits, WorkerReceives, WorkerHandles,
           WorkerResponds, TypeOK, QueuesTypeOK, WorkersTypeOK
    <2>2. OrderAt(t)
      BY DEF OrderInv
    <2> QED BY <1>1, <2>1, <2>2 DEF OrderAt, Older, Holds, Increasing
  <1>3. OrderAt(s)'
    <2>1. OrderAt(s) /\ pinQueue[s] \in Seq(Request)
      BY DEF OrderInv, TypeOK, QueuesTypeOK
    <2>2. CASE WorkerInits(s) \/ WorkerResponds(s)
      <3>1. /\ UNCHANGED <<pinQueue, lastExecuted>>
            /\ workerPc'[s] = "receive"
        BY <2>2 DEF WorkerInits, WorkerResponds, TypeOK, WorkersTypeOK
      <3> QED BY <1>1, <2>1, <3>1 DEF OrderAt, Older, Holds, Increasing
    <2>3. CASE WorkerReceives(s)
      <3>1. /\ workerRequest'[s] = Head(pinQueue[s]) /\ pinQueue[s] # <<>>
            /\ pinQueue'[s] = Tail(pinQueue[s]) /\ workerPc'[s] = "handle"
            /\ UNCHANGED lastExecuted
        BY <2>3 DEF WorkerReceives, TypeOK, QueuesTypeOK, WorkersTypeOK
      <3>2. Head(pinQueue[s]) = pinQueue[s][1] /\ 1 \in DOMAIN pinQueue[s]
        BY <2>1, <3>1, EmptySeq, LenProperties
      <3>3. /\ Increasing(Tail(pinQueue[s]))
            /\ \A i \in DOMAIN Tail(pinQueue[s]) :
                  Head(pinQueue[s]).request_id < Tail(pinQueue[s])[i].request_id
        BY <2>1, <3>1, TailIncreasing DEF OrderAt
      <3>4. \A i \in DOMAIN Tail(pinQueue[s]) :
               \E j \in DOMAIN pinQueue[s] : Tail(pinQueue[s])[i] = pinQueue[s][j]
        BY <2>1, <3>1, HeadTailProperties, LenProperties
      <3>5. ASSUME NEW i \in DOMAIN pinQueue'[s]
            PROVE  /\ Older(pinQueue[s][i].request_id)'
                   /\ lastExecuted'[s] < pinQueue'[s][i].request_id
                   /\ workerRequest'[s].request_id < pinQueue'[s][i].request_id
        BY <1>1, <2>1, <3>1, <3>3, <3>4 DEF OrderAt, Older
      <3>6. /\ Older(lastExecuted[s])' /\ Older(workerRequest[s].request_id)'
            /\ lastExecuted'[s] < workerRequest'[s].request_id
        BY <1>1, <2>1, <3>1, <3>2 DEF OrderAt, Older
      <3>7. Increasing(pinQueue[s])'
        BY <3>1, <3>3 DEF Increasing
      <3> QED BY <3>5, <3>6, <3>7 DEF OrderAt, Holds
    <2>4. CASE WorkerHandles(s)
      <3>1. /\ lastExecuted'[s] = workerRequest[s].request_id
            /\ workerPc[s] = "handle" /\ workerPc'[s] = "respond"
            /\ UNCHANGED <<pinQueue, workerRequest>>
        BY <2>4 DEF WorkerHandles, TypeOK, WorkersTypeOK
      <3> QED BY <1>1, <2>1, <3>1 DEF OrderAt, Older, Holds, Increasing
    <2> QED BY <2>2, <2>3, <2>4 DEF Worker
  <1>4. \A t \in Slots : OrderAt(t)'
    BY <1>2, <1>3
  <1> QED BY <1>1, <1>4 DEF OrderInv, Increasing

LEMMA OrderStep == TypeOK /\ OrderInv /\ [Next]_vars => OrderInv'
  <1> SUFFICES ASSUME TypeOK, OrderInv, [Next]_vars PROVE OrderInv'
    OBVIOUS
  <1>1. CASE \E body \in Workload : RxQueues(body) \/ RxDrops(body)
    BY <1>1, OrderRx
  <1>2. CASE Dispatcher
    BY <1>2, OrderReceive, OrderDecide, OrderCreate, OrderClear, OrderEnqueue
       DEF Dispatcher
  <1>3. CASE \E s \in Slots : Worker(s)
    BY <1>3, OrderWorker
  <1>4. CASE Tx \/ UNCHANGED vars
    <2>1. UNCHANGED <<requestQueue, received, dispPc, dispRequest, pinQueue,
                      workerPc, workerRequest, lastExecuted>>
      BY <1>4 DEF Tx, TxReceives, TxWrites, vars, dispVars, workerVars, rxVars
    <2>2. \A s \in Slots : OrderAt(s)'
      BY <2>1 DEF OrderInv, OrderAt, Older, Holds, Increasing
    <2> QED BY <2>1, <2>2 DEF OrderInv, Increasing
  <1> QED BY <1>1, <1>2, <1>3, <1>4 DEF Next

\* Only a worker that handles its request moves the history of its pin, and
\* it moves it forward.
LEMMA OrderAction ==
    ASSUME TypeOK, OrderInv, [Next]_vars, NEW s \in Slots,
           lastExecuted'[s] # lastExecuted[s]
    PROVE  lastExecuted'[s] > lastExecuted[s]
  <1> USE DEF dispVars, workerVars, txVars, rxVars
  <1>1. \E t \in Slots : WorkerHandles(t)
    BY DEF Next, RxQueues, RxDrops, RxArrives, Dispatcher, DispatcherReceives,
       DispatchRejects, CreatesSession, CreateSessionFails, RoutesRequest,
       ClearsOne, ClearsNothing, SendsCancelled, EnqueuesPinRequest,
       SendsError, Worker, WorkerInits, WorkerReceives, WorkerResponds, Tx,
       TxReceives, TxWrites, vars
  <1>2. /\ workerPc[s] = "handle"
        /\ lastExecuted'[s] = workerRequest[s].request_id
    BY <1>1 DEF WorkerHandles, TypeOK, WorkersTypeOK
  <1>3. lastExecuted[s] \in Nat /\ workerRequest[s].request_id \in Nat
    BY <1>2, IdsAreNaturals, CapacityAssumption DEF TypeOK, WorkersTypeOK, Holds
  <1> QED BY <1>2, <1>3 DEF OrderInv, OrderAt

\* Requests of one pin take effect in the order they were received, for every
\* workload and every queue length.
THEOREM PinOrder == Spec => ExecutedInOrder
  <1>1. TypeOK /\ OrderInv /\ [Next]_vars =>
           [\A s \in Slots : lastExecuted'[s] # lastExecuted[s] =>
               lastExecuted'[s] > lastExecuted[s]]_vars
    BY OrderAction
  <1> QED
    BY <1>1, TypeCorrect, OrderInit, OrderStep, PTL DEF Spec, ExecutedInOrder

\* The three invariants together, as the runs check them.
THEOREM RequestPath == Spec => []RequestPathInv
  BY TypeCorrect, PriorityInit, PriorityStep, RoutingInit, RoutingStep,
     OrderInit, OrderStep, PTL DEF Spec, RequestPathInv

=============================================================================
