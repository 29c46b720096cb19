---------------------- MODULE FirmwareRefinementProofs ----------------------
(***************************************************************************)
(* Every step of the firmware is a step of the device the host relies on,  *)
(* or changes nothing of it, for every workload, every number of requests  *)
(* and every queue length.                                                 *)
(***************************************************************************)
EXTENDS FirmwareRefinement, FirmwareCustodyProofs

\* The abstract state: what became of each request, the answers given.
Outcomes == [id \in 1 .. Len(received) |-> OutcomeOf(id)]
Answers == [i \in 1 .. Len(serialOut) |->
              [id |-> serialOut[i].request_id,
               ok |-> serialOut[i].type = "kResponse"]]

\* What was carried out on a slot is not newer than the last of it.
HistoryInv ==
    \A id \in executed :
        /\ id \in DOMAIN received
        /\ id <= lastExecuted[SlotOf(received[id])]

\* What the refinement needs of the firmware.
RefinedInv ==
    /\ TypeOK /\ OneHolder /\ RequestPathInv /\ RecordsInv
    /\ ExecutedInv /\ AnswersJustified /\ HistoryInv

LEMMA MappedState ==
    /\ Device!deviceVars = <<received, Outcomes, Answers>>
    /\ Device!DeviceInit <=> received = <<>> /\ Outcomes = <<>> /\ Answers = <<>>
    /\ \A request : Device!Receive(request) <=>
          /\ Len(received) + 1 \in Ids
          /\ received' = Append(received, request)
          /\ \E first \in {"pending", "lost"} :
                Outcomes' = Append(Outcomes, first)
          /\ Answers' = Answers
    /\ \A id : Device!CarryOut(id) <=>
          /\ id \in DOMAIN Outcomes /\ Outcomes[id] = "pending"
          /\ Outcomes' = [Outcomes EXCEPT ![id] = "done"]
          /\ received' = received
          /\ \A later \in id + 1 .. Len(received) :
                SlotOf(received[later]) = SlotOf(received[id]) =>
                   Outcomes[later] \notin {"done", "confirmed"}
          /\ Answers' = Answers
    /\ \A id : Device!Confirm(id) <=>
          /\ id \in DOMAIN Outcomes /\ Outcomes[id] = "done"
          /\ Outcomes' = [Outcomes EXCEPT ![id] = "confirmed"]
          /\ received' = received
          /\ Answers' = Append(Answers, [id |-> id, ok |-> TRUE])
    /\ \A id : Device!Refuse(id) <=>
          /\ id \in DOMAIN Outcomes /\ Outcomes[id] = "pending"
          /\ Outcomes' = [Outcomes EXCEPT ![id] = "refused"]
          /\ received' = received
          /\ Answers' = Append(Answers, [id |-> id, ok |-> FALSE])
  BY DEF Device!deviceVars, Device!DeviceInit, Device!Receive, Device!CarryOut,
         Device!Confirm, Device!Refuse, Device!Becomes, Outcomes, Answers

---------------------------------------------------------------------------
(* What became of a request.                                               *)

LEMMA AnswerFound ==
    /\ \A id \in IdsIn(serialOut) :
          AnswerTo(id) \in Emitted /\ AnswerTo(id).request_id = id
    /\ NoRepeats(serialOut) =>
          \A i \in DOMAIN serialOut :
              AnswerTo(serialOut[i].request_id) = serialOut[i]
  <1>1. ASSUME NEW id \in IdsIn(serialOut)
        PROVE  \E i \in DOMAIN serialOut : /\ AnswerTo(id) = serialOut[i]
                                           /\ serialOut[i].request_id = id
    BY DEF IdsIn, AnswerTo
  <1>2. ASSUME NEW i \in DOMAIN serialOut, NoRepeats(serialOut)
        PROVE  AnswerTo(serialOut[i].request_id) = serialOut[i]
    <2>1. serialOut[i].request_id \in IdsIn(serialOut)
      BY DEF IdsIn
    <2> QED BY <1>1, <1>2, <2>1 DEF NoRepeats
  <1> QED BY <1>1, <1>2 DEF Emitted

\* Ids at the two ends of the device, lost and answered, are at no task.
LEMMA EndsApart ==
    ASSUME TypeOK, OneHolder
    PROVE  /\ DOMAIN received = 1 .. Len(received) /\ Len(received) \in Nat
           /\ dropped \subseteq DOMAIN received
           /\ IdsIn(serialOut) \subseteq DOMAIN received
           /\ dropped \cap IdsIn(serialOut) = {}
           /\ \A s \in Slots : Holds(s) =>
                 /\ workerRequest[s].request_id \in DOMAIN received
                 /\ workerRequest[s].request_id \notin dropped
                 /\ workerRequest[s].request_id \notin IdsIn(serialOut)
           /\ txPc = "write" =>
                 /\ txResponse.request_id \in DOMAIN received
                 /\ txResponse.request_id \notin dropped
                 /\ txResponse.request_id \notin IdsIn(serialOut)
  <1>0. DOMAIN received = 1 .. Len(received) /\ Len(received) \in Nat
    BY LenProperties DEF TypeOK, SerialTypeOK
  <1>1. Custody(Held, Len(received))
    BY OneHolderIsCustody
  <1>2. /\ Held[<<"dropped">>] \subseteq DOMAIN received
        /\ Held[<<"serialOut">>] \subseteq DOMAIN received
        /\ Held[<<"tx">>] \subseteq DOMAIN received
        /\ \A s \in Slots : Held[<<"worker", s>>] \subseteq DOMAIN received
    BY <1>0, <1>1, PlaceCases DEF Custody
  <1>3. /\ Held[<<"dropped">>] \cap Held[<<"serialOut">>] = {}
        /\ Held[<<"tx">>] \cap Held[<<"dropped">>] = {}
        /\ Held[<<"tx">>] \cap Held[<<"serialOut">>] = {}
    <2>1. /\ <<"dropped">> # <<"serialOut">> /\ <<"tx">> # <<"dropped">>
          /\ <<"tx">> # <<"serialOut">>
      OBVIOUS
    <2> QED BY <1>1, <2>1, PlaceCases DEF Custody
  <1>4. \A s \in Slots :
           /\ Held[<<"worker", s>>] \cap Held[<<"dropped">>] = {}
           /\ Held[<<"worker", s>>] \cap Held[<<"serialOut">>] = {}
    BY <1>1, PlaceCases, PlacesDiffer DEF Custody, FixedPlaces
  <1>5. /\ Held[<<"dropped">>] = dropped
        /\ Held[<<"serialOut">>] = IdsIn(serialOut)
        /\ txPc = "write" => txResponse.request_id \in Held[<<"tx">>]
        /\ \A s \in Slots :
              Holds(s) => workerRequest[s].request_id \in Held[<<"worker", s>>]
    BY HeldPlaces
  <1>6. /\ \A s \in Slots : Holds(s) =>
              /\ workerRequest[s].request_id \in DOMAIN received
              /\ workerRequest[s].request_id \notin dropped
              /\ workerRequest[s].request_id \notin IdsIn(serialOut)
        /\ txPc = "write" =>
              /\ txResponse.request_id \in DOMAIN received
              /\ txResponse.request_id \notin dropped
              /\ txResponse.request_id \notin IdsIn(serialOut)
    BY <1>2, <1>3, <1>4, <1>5
  <1> QED BY <1>0, <1>2, <1>3, <1>5, <1>6

LEMMA OutcomeKept ==
    ASSUME NEW id, id \in dropped' <=> id \in dropped,
           id \in executed' <=> id \in executed, UNCHANGED serialOut
    PROVE  OutcomeOf(id)' = OutcomeOf(id)
  BY DEF OutcomeOf, AnswerTo, IdsIn

\* A request done, or confirmed, was carried out.
LEMMA EffectMeansExecuted ==
    ASSUME AnswersJustified, NEW id, OutcomeOf(id) \in {"done", "confirmed"}
    PROVE  id \in executed
  <1>1. CASE id \in IdsIn(serialOut)
    <2>1. AnswerTo(id) \in Emitted /\ AnswerTo(id).request_id = id
      BY <1>1, AnswerFound
    <2>2. AnswerTo(id).type = "kResponse"
      BY <1>1 DEF OutcomeOf
    <2> QED BY <2>1, <2>2 DEF AnswersJustified
  <1>2. CASE id \notin IdsIn(serialOut)
    BY <1>2 DEF OutcomeOf
  <1> QED BY <1>1, <1>2

LEMMA OutcomesDomain ==
    /\ DOMAIN Outcomes = 1 .. Len(received)
    /\ \A id \in 1 .. Len(received) : Outcomes[id] = OutcomeOf(id)
    /\ DOMAIN Outcomes' = 1 .. Len(received')
    /\ \A id \in 1 .. Len(received') : Outcomes'[id] = OutcomeOf(id)'
    /\ Outcomes = [id \in 1 .. Len(received) |-> Outcomes[id]]
    /\ Outcomes' = [id \in 1 .. Len(received') |-> Outcomes'[id]]
  BY DEF Outcomes

\* A function on 1 .. n is a sequence; one more value appends to it.
LEMMA FunctionAppends ==
    ASSUME NEW n \in Nat, NEW f, NEW g, NEW x,
           f = [i \in 1 .. n |-> f[i]], g = [i \in 1 .. n + 1 |-> g[i]],
           \A i \in 1 .. n : g[i] = f[i], g[n + 1] = x
    PROVE  g = Append(f, x)
  <1> DEFINE S == {f[i] : i \in 1 .. n} \cup {x}
  <1>1. f \in [1 .. n -> S]
    OBVIOUS
  <1>2. f \in Seq(S)
    BY <1>1, SeqDef
  <1>3. Len(f) = n
    BY <1>1, <1>2, LenProperties
  <1>4. g \in [1 .. n + 1 -> S]
    OBVIOUS
  <1>5. g \in Seq(S)
    BY <1>4, SeqDef
  <1>6. Len(g) = n + 1
    BY <1>4, <1>5, LenProperties
  <1>7. /\ Append(f, x) \in Seq(S) /\ Len(Append(f, x)) = n + 1
        /\ \A i \in 1 .. n : Append(f, x)[i] = f[i]
        /\ Append(f, x)[n + 1] = x
    BY <1>2, <1>3, AppendProperties
  <1>8. \A i \in 1 .. n + 1 : i \in 1 .. n \/ i = n + 1
    OBVIOUS
  <1>9. \A i \in 1 .. n + 1 : g[i] = Append(f, x)[i]
    BY <1>7, <1>8
  <1> HIDE DEF S
  <1> QED BY <1>5, <1>6, <1>7, <1>9, SeqEqual

\* One outcome changes.
LEMMA OutcomeBecomes ==
    ASSUME NEW id \in 1 .. Len(received), UNCHANGED received, NEW to,
           OutcomeOf(id)' = to,
           \A other \in 1 .. Len(received) :
              other # id => OutcomeOf(other)' = OutcomeOf(other)
    PROVE  Outcomes' = [Outcomes EXCEPT ![id] = to]
  BY OutcomesDomain

---------------------------------------------------------------------------
(* What a step of the firmware is to the device.                           *)

LEMMA RxReceives ==
    ASSUME RefinedInv, NEW body \in Workload, RxQueues(body) \/ RxDrops(body)
    PROVE  Device!DeviceNext
  <1> USE DEF rxVars, dispVars, workerVars, txVars
  <1>a. PICK n \in Nat : n = Len(received)
    BY LenProperties DEF RefinedInv, TypeOK, SerialTypeOK
  <1>1. /\ TypeOK /\ OneHolder /\ HistoryInv /\ RxArrives(body)
        /\ n = Len(received) /\ n < MaxRequests
        /\ received \in Seq(Request) /\ NextRequest(body) \in Request
        /\ received' = Append(received, NextRequest(body))
        /\ UNCHANGED <<serialOut, executed>>
    BY <1>a, NextRequestIsRequest
       DEF RefinedInv, RxQueues, RxDrops, RxArrives, TypeOK, SerialTypeOK
  <1>2. Len(received') = n + 1 /\ n + 1 \in Ids
    BY <1>1, AppendProperties, CapacityAssumption DEF Ids
  <1>3. /\ n + 1 \notin dropped /\ n + 1 \notin IdsIn(serialOut)
        /\ n + 1 \notin executed
    BY <1>1, EndsApart DEF HistoryInv
  <1>4. dropped' = dropped \/ dropped' = dropped \cup {n + 1}
    BY <1>a DEF RxQueues, RxDrops
  <1>5. \A id \in 1 .. n : OutcomeOf(id)' = OutcomeOf(id)
    <2> SUFFICES ASSUME NEW id \in 1 .. n PROVE OutcomeOf(id)' = OutcomeOf(id)
      OBVIOUS
    <2>1. id # n + 1
      BY <1>1
    <2>2. id \in dropped' <=> id \in dropped
      BY <1>4, <2>1
    <2> QED BY <1>1, <2>2, OutcomeKept
  <1>6. PICK first \in {"pending", "lost"} : first = Outcomes'[n + 1]
    <2>1. Outcomes'[n + 1] = OutcomeOf(n + 1)'
      BY <1>1, <1>2, OutcomesDomain
    <2>2. n + 1 \notin IdsIn(serialOut') /\ n + 1 \notin executed'
      BY <1>1, <1>3
    <2>3. OutcomeOf(n + 1)' \in {"pending", "lost"}
      BY <2>2 DEF OutcomeOf, IdsIn
    <2> QED BY <2>1, <2>3
  <1>7. Outcomes' = Append(Outcomes, first)
    <2>1. \A i \in 1 .. n : Outcomes'[i] = Outcomes[i]
      BY <1>1, <1>2, <1>5, OutcomesDomain
    <2> QED BY <1>1, <1>2, <1>6, <2>1, OutcomesDomain, FunctionAppends
  <1>8. Answers' = Answers
    BY <1>1 DEF Answers
  <1>9. Device!Receive(NextRequest(body))
    BY <1>1, <1>2, <1>7, <1>8, MappedState
  <1> QED BY <1>1, <1>9 DEF Device!DeviceNext

LEMMA WorkerCarriesOut ==
    ASSUME RefinedInv, NEW s \in Slots, WorkerHandles(s)
    PROVE  Device!DeviceNext
  <1> USE DEF rxVars, dispVars, workerVars, txVars
  <1>0. TypeOK /\ OneHolder /\ RequestPathInv /\ RecordsInv /\ ExecutedInv
        /\ AnswersJustified /\ HistoryInv
    BY DEF RefinedInv
  <1>1. /\ workerPc[s] = "handle" /\ Holds(s) /\ workerRequest[s] \in Request
        /\ executed' = executed \cup {workerRequest[s].request_id}
        /\ UNCHANGED <<received, dropped, serialOut>>
    BY <1>0 DEF WorkerHandles, Holds, TypeOK, WorkersTypeOK
  <1>2. PICK id \in Ids : id = workerRequest[s].request_id
    BY <1>1, SlotOfRequest
  <1>3. /\ id \in 1 .. Len(received) /\ id \notin dropped
        /\ id \notin IdsIn(serialOut) /\ id \notin executed
        /\ DOMAIN received = 1 .. Len(received)
    BY <1>0, <1>1, <1>2, EndsApart, WaitingIsNotExecuted
  <1>4. OutcomeOf(id) = "pending" /\ OutcomeOf(id)' = "done"
    <2>1. /\ id \in executed' /\ id \notin dropped'
          /\ id \notin IdsIn(serialOut)'
      BY <1>1, <1>2, <1>3 DEF IdsIn
    <2> QED BY <1>3, <2>1 DEF OutcomeOf
  <1>5. \A other \in 1 .. Len(received) :
           other # id => OutcomeOf(other)' = OutcomeOf(other)
    BY <1>1, <1>2, OutcomeKept
  <1>6. Outcomes' = [Outcomes EXCEPT ![id] = "done"]
    BY <1>1, <1>3, <1>4, <1>5, OutcomeBecomes
  <1>7. SlotOf(received[id]) = s
    <2>1. received[id] = workerRequest[s]
      BY <1>0, <1>1, <1>2 DEF RecordsInv, AsReceived
    <2>2. SlotOf(workerRequest[s]) = s
      BY <1>0, <1>1 DEF RequestPathInv, RoutingInv, RoutedToOwnSession, RequestsAt
    <2> QED BY <2>1, <2>2
  <1>8. lastExecuted[s] < id /\ lastExecuted[s] \in Nat
    BY <1>0, <1>1, <1>2, CapacityAssumption
       DEF RequestPathInv, OrderInv, OrderAt, TypeOK, WorkersTypeOK
  <1>9. ASSUME NEW later \in id + 1 .. Len(received),
               SlotOf(received[later]) = SlotOf(received[id])
        PROVE  Outcomes[later] \notin {"done", "confirmed"}
    <2>1. later \in 1 .. Len(received) /\ later > id
      BY <1>3
    <2>2. later \notin executed
      BY <1>0, <1>7, <1>8, <1>9, <2>1 DEF HistoryInv, Ids
    <2>3. OutcomeOf(later) \notin {"done", "confirmed"}
      BY <1>0, <2>2, EffectMeansExecuted
    <2> QED BY <2>1, <2>3, OutcomesDomain
  <1>10. Answers' = Answers
    BY <1>1 DEF Answers
  <1>11. Device!CarryOut(id)
    BY <1>1, <1>3, <1>4, <1>6, <1>9, <1>10, OutcomesDomain, MappedState
  <1> QED BY <1>11 DEF Device!DeviceNext, Device!Settle

LEMMA TxAnswers ==
    ASSUME RefinedInv, TxWrites, OneHolder'
    PROVE  Device!DeviceNext
  <1> USE DEF rxVars, dispVars, workerVars, txVars
  <1>0. TypeOK /\ OneHolder /\ AnswersJustified
    BY DEF RefinedInv
  <1>1. /\ txPc = "write" /\ txResponse \in Response
        /\ serialOut \in Seq(Response)
        /\ serialOut' = Append(serialOut, txResponse)
        /\ UNCHANGED <<received, dropped, executed>>
    BY <1>0 DEF TxWrites, TypeOK, SerialTypeOK
  <1>2. PICK answer \in Response : answer = txResponse
    BY <1>1
  <1>3. PICK id \in Ids : id = answer.request_id
    BY DEF Response, ResponseFrame
  <1>4. /\ id \in 1 .. Len(received) /\ id \notin dropped
        /\ id \notin IdsIn(serialOut)
    BY <1>0, <1>1, <1>2, <1>3, EndsApart
  <1>5. PICK n \in Nat : n = Len(serialOut)
    BY <1>1, LenProperties
  <1>6. /\ DOMAIN serialOut = 1 .. n /\ DOMAIN serialOut' = 1 .. n + 1
        /\ Len(serialOut') = n + 1
        /\ \A i \in 1 .. n : serialOut'[i] = serialOut[i]
        /\ serialOut'[n + 1] = answer
    BY <1>1, <1>2, <1>5, AppendProperties, LenProperties
  <1>7. /\ \A other : other # id =>
              (other \in IdsIn(serialOut)' <=> other \in IdsIn(serialOut))
        /\ id \in IdsIn(serialOut)'
    <2>1. /\ \A i : i \in 1 .. n + 1 <=> i \in 1 .. n \/ i = n + 1
          /\ n + 1 \in 1 .. n + 1
      OBVIOUS
    <2> QED BY <1>3, <1>6, <2>1 DEF IdsIn
  <1>a. (\A i \in DOMAIN serialOut :
            AnswerTo(serialOut[i].request_id) = serialOut[i])'
    <2>1. (NoRepeats(serialOut) =>
              \A i \in DOMAIN serialOut :
                  AnswerTo(serialOut[i].request_id) = serialOut[i])'
      BY AnswerFound, PTL
    <2>2. NoRepeats(serialOut)'
      BY DEF OneHolder
    <2> QED BY <2>1, <2>2
  <1>8. AnswerTo(id)' = answer
    <2>1. n + 1 \in DOMAIN serialOut' /\ serialOut'[n + 1].request_id = id
      BY <1>3, <1>6
    <2> QED BY <1>6, <1>a, <2>1
  <1>9. ASSUME NEW other \in IdsIn(serialOut)
        PROVE  AnswerTo(other)' = AnswerTo(other)
    <2>1. PICK i \in 1 .. n : serialOut[i].request_id = other
      BY <1>6 DEF IdsIn
    <2>2. AnswerTo(other) = serialOut[i]
      BY <1>0, <1>6, <2>1, AnswerFound DEF OneHolder
    <2>3. i \in DOMAIN serialOut' /\ serialOut'[i] = serialOut[i]
      BY <1>6
    <2> QED BY <1>a, <2>1, <2>2, <2>3
  <1>10. \A other \in 1 .. Len(received) :
            other # id => OutcomeOf(other)' = OutcomeOf(other)
    BY <1>1, <1>7, <1>9 DEF OutcomeOf
  <1>11. Answers' = Append(Answers, [id |-> id, ok |-> answer.type = "kResponse"])
    <2>1. /\ Answers = [i \in 1 .. n |-> Answers[i]]
          /\ Answers' = [i \in 1 .. n + 1 |-> Answers'[i]]
          /\ \A i \in 1 .. n : Answers'[i] = Answers[i]
          /\ Answers'[n + 1] = [id |-> id, ok |-> answer.type = "kResponse"]
      BY <1>3, <1>5, <1>6 DEF Answers
    <2> QED BY <2>1, FunctionAppends
  <1>12. CASE answer.type = "kResponse"
    <2>1. id \in executed
      BY <1>0, <1>1, <1>2, <1>3, <1>12 DEF AnswersJustified, Emitted
    <2>2. OutcomeOf(id) = "done" /\ OutcomeOf(id)' = "confirmed"
      BY <1>1, <1>4, <1>7, <1>8, <1>12, <2>1 DEF OutcomeOf
    <2>3. Outcomes' = [Outcomes EXCEPT ![id] = "confirmed"]
      BY <1>1, <1>4, <1>10, <2>2, OutcomeBecomes
    <2>4. Answers' = Append(Answers, [id |-> id, ok |-> TRUE])
      BY <1>11, <1>12
    <2>5. Device!Confirm(id)
      BY <1>1, <1>4, <2>2, <2>3, <2>4, OutcomesDomain, MappedState
    <2> QED BY <2>5 DEF Device!DeviceNext, Device!Settle
  <1>13. CASE answer.type # "kResponse"
    <2>1. id \notin executed
      BY <1>0, <1>1, <1>2, <1>3, <1>13 DEF AnswersJustified, Emitted
    <2>2. OutcomeOf(id) = "pending" /\ OutcomeOf(id)' = "refused"
      BY <1>1, <1>4, <1>7, <1>8, <1>13, <2>1 DEF OutcomeOf
    <2>3. Outcomes' = [Outcomes EXCEPT ![id] = "refused"]
      BY <1>1, <1>4, <1>10, <2>2, OutcomeBecomes
    <2>4. Answers' = Append(Answers, [id |-> id, ok |-> FALSE])
      BY <1>11, <1>13
    <2>5. Device!Refuse(id)
      BY <1>1, <1>4, <2>2, <2>3, <2>4, OutcomesDomain, MappedState
    <2> QED BY <2>5 DEF Device!DeviceNext, Device!Settle
  <1> QED BY <1>12, <1>13

\* Whatever else the tasks do, the host cannot tell.
LEMMA RestStutters ==
    ASSUME UNCHANGED <<received, dropped, executed, serialOut>>
    PROVE  UNCHANGED Device!deviceVars
  <1>1. Outcomes' = Outcomes
    BY DEF Outcomes, OutcomeOf, AnswerTo, IdsIn
  <1>2. Answers' = Answers
    BY DEF Answers
  <1> QED BY <1>1, <1>2 DEF Device!deviceVars, Outcomes, Answers

LEMMA DeviceStep ==
    ASSUME RefinedInv, OneHolder', [Next]_vars
    PROVE  [Device!DeviceNext]_(Device!deviceVars)
  <1> USE DEF rxVars, dispVars, workerVars, txVars
  <1>1. CASE \E body \in Workload : RxQueues(body) \/ RxDrops(body)
    BY <1>1, RxReceives
  <1>2. CASE \E s \in Slots : WorkerHandles(s)
    BY <1>2, WorkerCarriesOut
  <1>3. CASE TxWrites
    BY <1>3, TxAnswers
  <1>4. CASE UNCHANGED <<received, dropped, executed, serialOut>>
    BY <1>4, RestStutters
  <1> QED
    BY <1>1, <1>2, <1>3, <1>4 DEF Next, Dispatcher, DispatcherReceives,
       DispatchRejects, CreatesSession, CreateSessionFails, RoutesRequest,
       ClearsOne, ClearsNothing, SendsCancelled, EnqueuesPinRequest,
       SendsError, Worker, WorkerInits, WorkerReceives, WorkerResponds, Tx,
       TxReceives, vars

LEMMA DeviceStart == Init => Device!DeviceInit
  <1> SUFFICES ASSUME Init PROVE Device!DeviceInit
    OBVIOUS
  <1>1. /\ received = <<>> /\ serialOut = <<>>
        /\ Len(received) = 0 /\ Len(serialOut) = 0
    BY EmptySeq DEF Init
  <1>2. Outcomes = <<>> /\ Answers = <<>>
    BY <1>1 DEF Outcomes, Answers
  <1> QED BY <1>1, <1>2, MappedState

LEMMA HistoryInit == Init => HistoryInv
  BY DEF Init, HistoryInv

LEMMA HistoryStep ==
    ASSUME TypeOK, RequestPathInv, RecordsInv, HistoryInv, [Next]_vars
    PROVE  HistoryInv'
  <1> USE DEF rxVars, dispVars, workerVars, txVars
  <1>0. \A id \in DOMAIN received :
           id \in DOMAIN received' /\ received'[id] = received[id]
    BY ReceivedGrows
  <1>1. CASE UNCHANGED <<executed, lastExecuted>>
    BY <1>0, <1>1 DEF HistoryInv
  <1>2. ASSUME NEW s \in Slots, WorkerHandles(s)
        PROVE  HistoryInv'
    <2>1. /\ workerPc[s] = "handle" /\ Holds(s)
          /\ workerRequest[s] \in Request
          /\ executed' = executed \cup {workerRequest[s].request_id}
          /\ lastExecuted'[s] = workerRequest[s].request_id
          /\ \A t \in Slots \ {s} : lastExecuted'[t] = lastExecuted[t]
          /\ UNCHANGED received
      BY <1>2 DEF WorkerHandles, Holds, TypeOK, WorkersTypeOK
    <2>2. PICK n \in Nat : n = workerRequest[s].request_id
      BY <2>1, IdsAreNaturals
    <2>3. /\ n \in DOMAIN received /\ received[n] = workerRequest[s]
          /\ SlotOf(received[n]) = s
      BY <2>1, <2>2 DEF RecordsInv, AsReceived, RequestPathInv, RoutingInv,
         RoutedToOwnSession, RequestsAt
    <2>4. lastExecuted[s] < n /\ lastExecuted[s] \in Nat
      BY <2>1, <2>2, CapacityAssumption
         DEF RequestPathInv, OrderInv, OrderAt, TypeOK, WorkersTypeOK
    <2>5. ASSUME NEW id \in executed
          PROVE  id <= lastExecuted'[SlotOf(received[id])]
      <3>1. PICK t \in Slots : t = SlotOf(received[id])
        BY SlotOfRequest, ElementOfSeq, LenProperties
           DEF HistoryInv, TypeOK, SerialTypeOK
      <3>2. id <= lastExecuted[t] /\ id \in Nat /\ lastExecuted[t] \in Nat
        BY <3>1, CapacityAssumption
           DEF HistoryInv, TypeOK, WorkersTypeOK, Ids
      <3>3. CASE t = s
        BY <2>1, <2>2, <2>4, <3>1, <3>2, <3>3
      <3>4. CASE t # s
        BY <2>1, <3>1, <3>2, <3>4
      <3> QED BY <3>3, <3>4
    <2> QED BY <2>1, <2>2, <2>3, <2>5 DEF HistoryInv
  <1> QED
    BY <1>1, <1>2 DEF Next, RxQueues, RxDrops, RxArrives, Dispatcher,
       DispatcherReceives, DispatchRejects, CreatesSession,
       CreateSessionFails, RoutesRequest, ClearsOne, ClearsNothing,
       SendsCancelled, EnqueuesPinRequest, SendsError, Worker, WorkerInits,
       WorkerReceives, WorkerResponds, Tx, TxReceives, TxWrites, vars

\* For every workload and every queue length, the tasks and queues of the
\* firmware do step by step what the device promises the host: a request is
\* lost at once or pending, carried out in order on its pin, confirmed only
\* after that, refused only without it.  That it does not stop on the way,
\* the fairness part of DeviceImplemented, is for the runs.
THEOREM FirmwareIsADevice ==
    Spec => Device!DeviceInit /\ [][Device!DeviceNext]_(Device!deviceVars)
  <1>1. RefinedInv /\ OneHolder' /\ [Next]_vars =>
           [Device!DeviceNext]_(Device!deviceVars)
    BY DeviceStep
  <1>2. TypeOK /\ RequestPathInv /\ RecordsInv /\ HistoryInv /\ [Next]_vars
           => HistoryInv'
    BY HistoryStep
  <1>3. TypeOK /\ OneHolder /\ RequestPathInv /\ RecordsInv /\ ExecutedInv
           /\ AnswersJustified /\ HistoryInv => RefinedInv
    BY DEF RefinedInv
  <1>4. RequestPathInv => RoutingInv
    BY DEF RequestPathInv
  <1> QED
    BY <1>1, <1>2, <1>3, <1>4, TypeCorrect, RequestPath, OneHolderAlways,
       AnswersAreJustified, RecordsInit, RecordsStep, ExecutedInit,
       ExecutedStep, HistoryInit, DeviceStart, PTL DEF Spec
=============================================================================
