----------------------- MODULE FirmwareCustodyProofs -----------------------
(***************************************************************************)
(* Where every request is and what its answer means, for every workload,   *)
(* every number of requests and every queue length.                        *)
(***************************************************************************)
EXTENDS FirmwareProofs

---------------------------------------------------------------------------
(* Queues of requests and of answers.                                      *)

LEMMA TailIds ==
    ASSUME NEW S, NEW q \in Seq(S), q # <<>>, NoRepeats(q)
    PROVE  /\ Head(q).request_id \in IdsIn(q)
           /\ IdsIn(Tail(q)) = IdsIn(q) \ {Head(q).request_id}
           /\ NoRepeats(Tail(q))
  <1>1. /\ Len(q) \in Nat \ {0} /\ DOMAIN q = 1 .. Len(q)
        /\ Head(q) = q[1] /\ 1 \in DOMAIN q
    BY EmptySeq, LenProperties
  <1>2. /\ DOMAIN Tail(q) = 1 .. Len(q) - 1
        /\ \A i \in DOMAIN Tail(q) : Tail(q)[i] = q[i + 1]
    BY HeadTailProperties, LenProperties
  <1>3. \A i \in DOMAIN Tail(q) : i \in Int /\ i + 1 \in DOMAIN q /\ i + 1 # 1
    BY <1>1, <1>2
  <1>4. ASSUME NEW j \in DOMAIN q, j # 1
        PROVE  \E i \in DOMAIN Tail(q) : Tail(q)[i] = q[j]
    <2>1. j - 1 \in DOMAIN Tail(q) /\ (j - 1) + 1 = j
      BY <1>1, <1>2, <1>4
    <2>2. Tail(q)[j - 1] = q[j]
      BY <1>2, <2>1
    <2> QED BY <2>1, <2>2
  <1>5. IdsIn(Tail(q)) \subseteq IdsIn(q) \ {Head(q).request_id}
    BY <1>1, <1>2, <1>3 DEF IdsIn, NoRepeats
  <1>6. IdsIn(q) \ {Head(q).request_id} \subseteq IdsIn(Tail(q))
    BY <1>1, <1>4 DEF IdsIn
  <1>7. ASSUME NEW i \in DOMAIN Tail(q), NEW j \in DOMAIN Tail(q),
               Tail(q)[i].request_id = Tail(q)[j].request_id
        PROVE  i = j
    <2>1. q[i + 1].request_id = q[j + 1].request_id
      BY <1>2, <1>7
    <2>2. i + 1 = j + 1
      BY <1>3, <2>1 DEF NoRepeats
    <2> QED BY <1>3, <2>2
  <1> QED BY <1>1, <1>5, <1>6, <1>7 DEF IdsIn, NoRepeats

LEMMA AppendIds ==
    ASSUME NEW S, NEW q \in Seq(S), NEW x \in S
    PROVE  /\ IdsIn(Append(q, x)) = IdsIn(q) \cup {x.request_id}
           /\ NoRepeats(q) /\ x.request_id \notin IdsIn(q) =>
                 NoRepeats(Append(q, x))
  <1> DEFINE t == Append(q, x)
  <1>1. /\ Len(q) \in Nat /\ DOMAIN q = 1 .. Len(q)
        /\ DOMAIN t = 1 .. Len(q) + 1
        /\ \A i \in 1 .. Len(q) : t[i] = q[i]
        /\ t[Len(q) + 1] = x
    BY AppendProperties, LenProperties
  <1> HIDE DEF t
  <1>2. \A i : i \in DOMAIN t <=> i \in DOMAIN q \/ i = Len(q) + 1
    BY <1>1
  <1>3. IdsIn(t) = IdsIn(q) \cup {x.request_id}
    BY <1>1, <1>2 DEF IdsIn
  <1>4. NoRepeats(q) /\ x.request_id \notin IdsIn(q) => NoRepeats(t)
    BY <1>1, <1>2 DEF IdsIn, NoRepeats
  <1> QED BY <1>3, <1>4 DEF t

---------------------------------------------------------------------------
(* Places.                                                                 *)

Held == [p \in Places |-> Holding(p)]

\* The places there is one of; a session has the other two.
FixedPlaces ==
    { <<"requestQueue">>, <<"dispatcher">>, <<"discarded">>,
      <<"responseQueue">>, <<"tx">>, <<"serialOut">>, <<"dropped">> }

LEMMA PlaceCases ==
    /\ FixedPlaces \subseteq Places
    /\ <<"requestQueue">> \in Places /\ <<"dispatcher">> \in Places
    /\ <<"discarded">> \in Places /\ <<"responseQueue">> \in Places
    /\ <<"tx">> \in Places /\ <<"serialOut">> \in Places
    /\ <<"dropped">> \in Places
    /\ \A s \in Slots : <<"pinQueue", s>> \in Places /\ <<"worker", s>> \in Places
    /\ \A p \in Places :
          \/ p \in FixedPlaces
          \/ \E s \in Slots : p = <<"pinQueue", s>> \/ p = <<"worker", s>>
  BY DEF Places, FixedPlaces

LEMMA HeldPlaces ==
    /\ Held[<<"requestQueue">>] = IdsIn(requestQueue)
    /\ Held[<<"dispatcher">>] =
          IF dispPc = "receive" THEN {} ELSE {dispRequest.request_id}
    /\ Held[<<"discarded">>] =
          IF dispPc = "cancel" THEN {dispDiscarded.request_id} ELSE {}
    /\ Held[<<"responseQueue">>] = IdsIn(responseQueue)
    /\ Held[<<"tx">>] = IF txPc = "write" THEN {txResponse.request_id} ELSE {}
    /\ Held[<<"serialOut">>] = IdsIn(serialOut)
    /\ Held[<<"dropped">>] = dropped
    /\ \A s \in Slots :
          /\ Held[<<"pinQueue", s>>] = IdsIn(pinQueue[s])
          /\ Held[<<"worker", s>>] =
                IF Holds(s) THEN {workerRequest[s].request_id} ELSE {}
  <1>1. \A p \in Places : Held[p] = Holding(p)
    BY DEF Held
  <1>2. \A s \in Slots :
          /\ Holding(<<"pinQueue", s>>) = IdsIn(pinQueue[s])
          /\ Holding(<<"worker", s>>) =
                IF Holds(s) THEN {workerRequest[s].request_id} ELSE {}
    BY DEF Holding
  <1>3. /\ Holding(<<"requestQueue">>) = IdsIn(requestQueue)
        /\ Holding(<<"dispatcher">>) =
              IF dispPc = "receive" THEN {} ELSE {dispRequest.request_id}
        /\ Holding(<<"discarded">>) =
              IF dispPc = "cancel" THEN {dispDiscarded.request_id} ELSE {}
        /\ Holding(<<"responseQueue">>) = IdsIn(responseQueue)
        /\ Holding(<<"tx">>) = IF txPc = "write" THEN {txResponse.request_id} ELSE {}
        /\ Holding(<<"serialOut">>) = IdsIn(serialOut)
        /\ Holding(<<"dropped">>) = dropped
    BY DEF Holding
  <1> QED BY <1>1, <1>2, <1>3, PlaceCases

LEMMA HeldPlacesNext ==
    /\ Held'[<<"requestQueue">>] = IdsIn(requestQueue')
    /\ Held'[<<"dispatcher">>] =
          IF dispPc' = "receive" THEN {} ELSE {dispRequest'.request_id}
    /\ Held'[<<"discarded">>] =
          IF dispPc' = "cancel" THEN {dispDiscarded'.request_id} ELSE {}
    /\ Held'[<<"responseQueue">>] = IdsIn(responseQueue')
    /\ Held'[<<"tx">>] = IF txPc' = "write" THEN {txResponse'.request_id} ELSE {}
    /\ Held'[<<"serialOut">>] = IdsIn(serialOut')
    /\ Held'[<<"dropped">>] = dropped'
    /\ \A s \in Slots :
          /\ Held'[<<"pinQueue", s>>] = IdsIn(pinQueue'[s])
          /\ Held'[<<"worker", s>>] =
                IF workerPc'[s] \in {"handle", "respond"}
                THEN {workerRequest'[s].request_id} ELSE {}
  <1>1. \A p \in Places : Held'[p] = Holding(p)'
    BY DEF Held
  <1>2. \A s \in Slots :
          /\ Holding(<<"pinQueue", s>>)' = IdsIn(pinQueue'[s])
          /\ Holding(<<"worker", s>>)' =
                IF workerPc'[s] \in {"handle", "respond"}
                THEN {workerRequest'[s].request_id} ELSE {}
    BY DEF Holding, Holds, IdsIn
  <1>3. /\ Holding(<<"requestQueue">>)' = IdsIn(requestQueue')
        /\ Holding(<<"dispatcher">>)' =
              IF dispPc' = "receive" THEN {} ELSE {dispRequest'.request_id}
        /\ Holding(<<"discarded">>)' =
              IF dispPc' = "cancel" THEN {dispDiscarded'.request_id} ELSE {}
        /\ Holding(<<"responseQueue">>)' = IdsIn(responseQueue')
        /\ Holding(<<"tx">>)' =
              IF txPc' = "write" THEN {txResponse'.request_id} ELSE {}
        /\ Holding(<<"serialOut">>)' = IdsIn(serialOut')
        /\ Holding(<<"dropped">>)' = dropped'
    BY DEF Holding, IdsIn
  <1> QED BY <1>1, <1>2, <1>3, PlaceCases

LEMMA PlacesDiffer ==
    /\ \A s \in Slots :
          /\ <<"pinQueue", s>> # <<"worker", s>>
          /\ \A p \in FixedPlaces : p # <<"pinQueue", s>> /\ p # <<"worker", s>>
    /\ \A s, t \in Slots : s # t => /\ <<"pinQueue", s>> # <<"pinQueue", t>>
                                    /\ <<"worker", s>> # <<"worker", t>>
    /\ \A s, t \in Slots : <<"pinQueue", s>> # <<"worker", t>>
  BY DEF FixedPlaces

\* A place keeps what it holds when its part of the state is untouched.
LEMMA StillHeld ==
    /\ requestQueue' = requestQueue =>
          Held'[<<"requestQueue">>] = Held[<<"requestQueue">>]
    /\ dispPc # "receive" /\ dispPc' # "receive" /\ dispRequest' = dispRequest =>
          Held'[<<"dispatcher">>] = Held[<<"dispatcher">>]
    /\ dispPc # "cancel" /\ dispPc' # "cancel" =>
          Held'[<<"discarded">>] = Held[<<"discarded">>]
    /\ dispPc' = dispPc /\ dispRequest' = dispRequest
          /\ dispDiscarded' = dispDiscarded =>
             /\ Held'[<<"dispatcher">>] = Held[<<"dispatcher">>]
             /\ Held'[<<"discarded">>] = Held[<<"discarded">>]
    /\ responseQueue' = responseQueue =>
          Held'[<<"responseQueue">>] = Held[<<"responseQueue">>]
    /\ txPc' = txPc /\ txResponse' = txResponse =>
          Held'[<<"tx">>] = Held[<<"tx">>]
    /\ serialOut' = serialOut =>
          Held'[<<"serialOut">>] = Held[<<"serialOut">>]
    /\ dropped' = dropped => Held'[<<"dropped">>] = Held[<<"dropped">>]
    /\ \A s \in Slots :
          /\ pinQueue'[s] = pinQueue[s] =>
                Held'[<<"pinQueue", s>>] = Held[<<"pinQueue", s>>]
          /\ workerPc'[s] = workerPc[s] /\ workerRequest'[s] = workerRequest[s] =>
                Held'[<<"worker", s>>] = Held[<<"worker", s>>]
          /\ ~Holds(s) /\ workerPc'[s] \notin {"handle", "respond"} =>
                Held'[<<"worker", s>>] = Held[<<"worker", s>>]
          /\ Holds(s) /\ workerPc'[s] \in {"handle", "respond"}
                /\ workerRequest'[s] = workerRequest[s] =>
                   Held'[<<"worker", s>>] = Held[<<"worker", s>>]
  <1>1. /\ requestQueue' = requestQueue =>
              Held'[<<"requestQueue">>] = Held[<<"requestQueue">>]
        /\ responseQueue' = responseQueue =>
              Held'[<<"responseQueue">>] = Held[<<"responseQueue">>]
        /\ serialOut' = serialOut =>
              Held'[<<"serialOut">>] = Held[<<"serialOut">>]
        /\ dropped' = dropped => Held'[<<"dropped">>] = Held[<<"dropped">>]
    BY HeldPlaces, HeldPlacesNext
  <1>2. /\ dispPc # "receive" /\ dispPc' # "receive" /\ dispRequest' = dispRequest =>
              Held'[<<"dispatcher">>] = Held[<<"dispatcher">>]
        /\ dispPc # "cancel" /\ dispPc' # "cancel" =>
              Held'[<<"discarded">>] = Held[<<"discarded">>]
        /\ dispPc' = dispPc /\ dispRequest' = dispRequest
              /\ dispDiscarded' = dispDiscarded =>
                 /\ Held'[<<"dispatcher">>] = Held[<<"dispatcher">>]
                 /\ Held'[<<"discarded">>] = Held[<<"discarded">>]
    BY HeldPlaces, HeldPlacesNext
  <1>3. txPc' = txPc /\ txResponse' = txResponse =>
           Held'[<<"tx">>] = Held[<<"tx">>]
    BY HeldPlaces, HeldPlacesNext
  <1>4. ASSUME NEW s \in Slots
        PROVE  /\ pinQueue'[s] = pinQueue[s] =>
                     Held'[<<"pinQueue", s>>] = Held[<<"pinQueue", s>>]
               /\ workerPc'[s] = workerPc[s] /\ workerRequest'[s] = workerRequest[s] =>
                     Held'[<<"worker", s>>] = Held[<<"worker", s>>]
               /\ ~Holds(s) /\ workerPc'[s] \notin {"handle", "respond"} =>
                     Held'[<<"worker", s>>] = Held[<<"worker", s>>]
               /\ Holds(s) /\ workerPc'[s] \in {"handle", "respond"}
                     /\ workerRequest'[s] = workerRequest[s] =>
                        Held'[<<"worker", s>>] = Held[<<"worker", s>>]
    <2>1. /\ Held[<<"pinQueue", s>>] = IdsIn(pinQueue[s])
          /\ Held'[<<"pinQueue", s>>] = IdsIn(pinQueue'[s])
      BY HeldPlaces, HeldPlacesNext
    <2>2. /\ Held[<<"worker", s>>] =
                IF Holds(s) THEN {workerRequest[s].request_id} ELSE {}
          /\ Held'[<<"worker", s>>] =
                IF workerPc'[s] \in {"handle", "respond"}
                THEN {workerRequest'[s].request_id} ELSE {}
      BY HeldPlaces, HeldPlacesNext
    <2> QED BY <2>1, <2>2 DEF Holds
  <1> QED BY <1>1, <1>2, <1>3, <1>4

LEMMA PlacesKept ==
    ASSUME NEW X, \A p \in FixedPlaces \ X : Held'[p] = Held[p],
           \A s \in Slots :
              /\ <<"pinQueue", s>> \notin X =>
                    Held'[<<"pinQueue", s>>] = Held[<<"pinQueue", s>>]
              /\ <<"worker", s>> \notin X =>
                    Held'[<<"worker", s>>] = Held[<<"worker", s>>]
    PROVE  \A p \in Places \ X : Held'[p] = Held[p]
  BY PlaceCases

---------------------------------------------------------------------------
(* One holder.                                                             *)

\* Every id up to n is at exactly one place.
Custody(H, n) ==
    /\ \A id \in 1 .. n : \E p \in Places : id \in H[p]
    /\ \A p, q \in Places : p # q => H[p] \cap H[q] = {}
    /\ \A p \in Places : H[p] \subseteq 1 .. n

QueuesNoRepeats ==
    /\ NoRepeats(requestQueue) /\ NoRepeats(responseQueue)
    /\ NoRepeats(serialOut)
    /\ \A s \in Slots : NoRepeats(pinQueue[s])

LEMMA OneHolderIsCustody ==
    OneHolder <=> Custody(Held, Len(received)) /\ QueuesNoRepeats
  <1>1. \A p \in Places : Held[p] = Holding(p)
    BY DEF Held
  <1>2. OneHolder => Custody(Held, Len(received)) /\ QueuesNoRepeats
    BY <1>1 DEF OneHolder, Custody, QueuesNoRepeats
  <1>3. Custody(Held, Len(received)) /\ QueuesNoRepeats => OneHolder
    BY <1>1 DEF OneHolder, Custody, QueuesNoRepeats
  <1> QED BY <1>2, <1>3

\* Handing one id from place p to place q keeps every id at one place.
LEMMA MovingKeepsCustody ==
    ASSUME NEW H, NEW G, NEW n, Custody(H, n),
           NEW p \in Places, NEW q \in Places, p # q,
           NEW id \in H[p],
           G[p] = H[p] \ {id}, G[q] = H[q] \cup {id},
           \A r \in Places \ {p, q} : G[r] = H[r]
    PROVE  Custody(G, n)
  BY DEF Custody

LEMMA ArrivingKeepsCustody ==
    ASSUME NEW H, NEW G, NEW n \in Nat, Custody(H, n), NEW q \in Places,
           G[q] = H[q] \cup {n + 1},
           \A r \in Places \ {q} : G[r] = H[r]
    PROVE  Custody(G, n + 1)
  <1>1. /\ \A id : id \in 1 .. n + 1 <=> id \in 1 .. n \/ id = n + 1
        /\ n + 1 \notin 1 .. n
    OBVIOUS
  <1>2. \A p \in Places : H[p] \subseteq 1 .. n /\ n + 1 \notin H[p]
    BY <1>1 DEF Custody
  <1>3. \A id \in 1 .. n + 1 : \E p \in Places : id \in G[p]
    BY <1>1 DEF Custody
  <1>4. \A p, r \in Places : p # r => G[p] \cap G[r] = {}
    BY <1>2 DEF Custody
  <1>5. \A p \in Places : G[p] \subseteq 1 .. n + 1
    BY <1>1, <1>2
  <1> QED BY <1>3, <1>4, <1>5 DEF Custody

LEMMA StayingKeepsCustody ==
    ASSUME NEW H, NEW G, NEW n, Custody(H, n), \A r \in Places : G[r] = H[r]
    PROVE  Custody(G, n)
  BY DEF Custody

LEMMA CustodyInit == Init => Custody(Held, Len(received)) /\ QueuesNoRepeats
  <1> SUFFICES ASSUME Init PROVE Custody(Held, Len(received)) /\ QueuesNoRepeats
    OBVIOUS
  <1>1. IdsIn(<<>>) = {} /\ NoRepeats(<<>>)
    BY DEF IdsIn, NoRepeats
  <1>2. \A p \in Places : Held[p] = {}
    BY <1>1, HeldPlaces, PlaceCases DEF Init, Holds, FixedPlaces
  <1>3. Len(received) = 0
    BY EmptySeq DEF Init
  <1> QED BY <1>1, <1>2, <1>3 DEF Init, Custody, QueuesNoRepeats

\* The parser hands a new request over, to the request queue or to nobody.
LEMMA CustodyRx ==
    ASSUME TypeOK, Custody(Held, Len(received)), QueuesNoRepeats,
           NEW body \in Workload, RxQueues(body) \/ RxDrops(body)
    PROVE  Custody(Held', Len(received')) /\ QueuesNoRepeats'
  <1> USE DEF RxArrives, rxVars, dispVars, workerVars, txVars
  <1> DEFINE r == NextRequest(body)
             n == Len(received)
  <1>1. /\ RxArrives(body) /\ received \in Seq(Request) /\ n \in Nat
        /\ requestQueue \in Seq(Request)
    BY LenProperties DEF RxQueues, RxDrops, TypeOK, SerialTypeOK, QueuesTypeOK
  <1>2. r \in Request /\ r.request_id = n + 1
    BY <1>1, NextRequestIsRequest DEF NextRequest, WithId
  <1>3. Len(received') = n + 1
    BY <1>1, <1>2, AppendProperties
  <1>4. n + 1 \notin IdsIn(requestQueue)
    BY <1>1, HeldPlaces, PlaceCases DEF Custody
  <1>5. /\ UNCHANGED <<pinQueue, responseQueue, serialOut, dispPc, dispRequest,
                       dispDiscarded, txPc, txResponse, workerPc, workerRequest>>
    BY <1>1
  <1> HIDE DEF r, n
  <1>6. CASE RxQueues(body)
    <2>1. requestQueue' = Append(requestQueue, r) /\ dropped' = dropped
      BY <1>6 DEF RxQueues, r
    <2>2. IdsIn(requestQueue') = IdsIn(requestQueue) \cup {n + 1}
          /\ NoRepeats(requestQueue')
      BY <1>1, <1>2, <1>4, <2>1, AppendIds DEF QueuesNoRepeats
    <2>3. /\ Held'[<<"requestQueue">>] = Held[<<"requestQueue">>] \cup {n + 1}
          /\ \A p \in Places \ {<<"requestQueue">>} : Held'[p] = Held[p]
      <3>1. Held'[<<"requestQueue">>] = Held[<<"requestQueue">>] \cup {n + 1}
        BY <1>5, <2>1, <2>2, HeldPlaces, HeldPlacesNext
      <3>2. \A p \in FixedPlaces \ {<<"requestQueue">>} : Held'[p] = Held[p]
        BY <1>5, <2>1, StillHeld DEF FixedPlaces
      <3>3. \A s \in Slots : /\ Held'[<<"pinQueue", s>>] = Held[<<"pinQueue", s>>]
                             /\ Held'[<<"worker", s>>] = Held[<<"worker", s>>]
        BY <1>5, StillHeld
      <3>4. \A p \in Places \ {<<"requestQueue">>} : Held'[p] = Held[p]
        BY <3>2, <3>3, PlacesKept
      <3> QED BY <3>1, <3>4
    <2>4. Custody(Held', n + 1)
      BY <1>1, <2>3, PlaceCases, ArrivingKeepsCustody DEF n
    <2> QED BY <1>3, <1>5, <2>2, <2>4 DEF QueuesNoRepeats
  <1>7. CASE RxDrops(body)
    <2>1. dropped' = dropped \cup {n + 1} /\ requestQueue' = requestQueue
      BY <1>7 DEF RxDrops, n
    <2>2. /\ Held'[<<"dropped">>] = Held[<<"dropped">>] \cup {n + 1}
          /\ \A p \in Places \ {<<"dropped">>} : Held'[p] = Held[p]
      <3>1. Held'[<<"dropped">>] = Held[<<"dropped">>] \cup {n + 1}
        BY <1>5, <2>1, HeldPlaces, HeldPlacesNext
      <3>2. \A p \in FixedPlaces \ {<<"dropped">>} : Held'[p] = Held[p]
        BY <1>5, <2>1, StillHeld DEF FixedPlaces
      <3>3. \A s \in Slots : /\ Held'[<<"pinQueue", s>>] = Held[<<"pinQueue", s>>]
                             /\ Held'[<<"worker", s>>] = Held[<<"worker", s>>]
        BY <1>5, StillHeld
      <3>4. \A p \in Places \ {<<"dropped">>} : Held'[p] = Held[p]
        BY <3>2, <3>3, PlacesKept
      <3> QED BY <3>1, <3>4
    <2>3. Custody(Held', n + 1)
      BY <1>1, <2>2, PlaceCases, ArrivingKeepsCustody DEF n
    <2> QED BY <1>3, <1>5, <2>1, <2>3 DEF QueuesNoRepeats
  <1> QED BY <1>6, <1>7

\* A sender hands the id it holds on to the response queue.
LEMMA CustodySend ==
    ASSUME TypeOK, Custody(Held, Len(received)), QueuesNoRepeats,
           NEW p \in Places, p # <<"responseQueue">>,
           NEW answer \in Response, SendResponse(answer),
           answer.request_id \in Held[p],
           Held'[p] = Held[p] \ {answer.request_id},
           \A r \in Places \ {p, <<"responseQueue">>} : Held'[r] = Held[r],
           UNCHANGED <<requestQueue, pinQueue, serialOut, received>>
    PROVE  Custody(Held', Len(received')) /\ QueuesNoRepeats'
  <1> DEFINE id == answer.request_id
  <1>1. responseQueue' = Append(responseQueue, answer)
        /\ responseQueue \in Seq(Response)
    BY DEF SendResponse, TypeOK, QueuesTypeOK
  <1>2. id \notin IdsIn(responseQueue)
    BY HeldPlaces, PlaceCases DEF Custody
  <1>3. IdsIn(responseQueue') = IdsIn(responseQueue) \cup {id}
        /\ NoRepeats(responseQueue')
    BY <1>1, <1>2, AppendIds DEF QueuesNoRepeats
  <1>4. Held'[<<"responseQueue">>] = Held[<<"responseQueue">>] \cup {id}
    BY <1>3, HeldPlaces, HeldPlacesNext
  <1>5. Custody(Held', Len(received))
    BY <1>4, PlaceCases, MovingKeepsCustody
  <1> QED BY <1>3, <1>5 DEF QueuesNoRepeats

LEMMA CustodyDispatcher ==
    ASSUME TypeOK, RoutingInv, Custody(Held, Len(received)), QueuesNoRepeats,
           Dispatcher
    PROVE  Custody(Held', Len(received')) /\ QueuesNoRepeats'
  <1> USE DEF rxVars, dispVars, workerVars, txVars
  <1>1. /\ dispPc # "receive" =>
              /\ DispSlot \in Slots /\ dispRequest \in Request
              /\ dispRequest.request_id \in Ids
        /\ dispPc = "cancel" => dispDiscarded \in Request
                                /\ dispDiscarded.request_id \in Ids
    BY SlotOfRequest DEF TypeOK, DispatcherTypeOK, DispSlot
  <1>2. CASE DispatcherReceives
    <2> DEFINE id == Head(requestQueue).request_id
    <2>1. /\ requestQueue' = Tail(requestQueue) /\ dispRequest'.request_id = id
          /\ dispPc = "receive" /\ dispPc' = "dispatch"
          /\ requestQueue # <<>>
          /\ UNCHANGED <<pinQueue, responseQueue, serialOut, dispDiscarded, txPc,
                         txResponse, workerPc, workerRequest, dropped, received>>
      BY <1>2 DEF DispatcherReceives
    <2>2. /\ id \in IdsIn(requestQueue)
          /\ IdsIn(requestQueue') = IdsIn(requestQueue) \ {id}
          /\ NoRepeats(requestQueue')
      BY <2>1, TailIds DEF QueuesNoRepeats, TypeOK, QueuesTypeOK
    <2> HIDE DEF id
    <2>3. /\ id \in Held[<<"requestQueue">>]
          /\ Held'[<<"requestQueue">>] = Held[<<"requestQueue">>] \ {id}
          /\ Held'[<<"dispatcher">>] = Held[<<"dispatcher">>] \cup {id}
      BY <2>1, <2>2, HeldPlaces, HeldPlacesNext
    <2>4. \A r \in Places \ {<<"requestQueue">>, <<"dispatcher">>} :
             Held'[r] = Held[r]
      BY <2>1, StillHeld, PlaceCases DEF FixedPlaces
    <2>5. Custody(Held', Len(received))
      BY <2>3, <2>4, PlaceCases, MovingKeepsCustody
    <2> QED BY <2>1, <2>2, <2>5 DEF QueuesNoRepeats
  <1>3. CASE DispatchRejects \/ CreateSessionFails \/ RoutesRequest \/ ClearsNothing
    <2>1. /\ UNCHANGED <<requestQueue, pinQueue, responseQueue, serialOut,
                         dispRequest, dispDiscarded, txPc, txResponse, workerPc,
                         workerRequest, dropped, received>>
          /\ dispPc \in {"dispatch", "clear"}
          /\ dispPc' \in {"error", "clear", "enqueue"}
      BY <1>3 DEF DispatchRejects, CreateSessionFails, MustCreate, RoutesRequest,
         RaiseError, ClearsNothing
    <2>2. \A r \in Places : Held'[r] = Held[r]
      BY <2>1, StillHeld, PlaceCases DEF FixedPlaces
    <2> QED BY <2>1, <2>2, StayingKeepsCustody DEF QueuesNoRepeats
  <1>4. CASE CreatesSession
    <2>1. /\ UNCHANGED <<requestQueue, pinQueue, responseQueue, serialOut, dispPc,
                         dispRequest, dispDiscarded, txPc, txResponse,
                         workerRequest, dropped, received>>
          /\ workerPc' = [workerPc EXCEPT ![DispSlot] = "ready"]
          /\ DispSlot \in Slots /\ session[DispSlot] = NoSession
      BY <1>1, <1>4 DEF CreatesSession, MustCreate
    <2>2. ~Holds(DispSlot)
      BY <2>1, NoSessionSupportsNothing DEF RoutingInv, RoutedToOwnSession, RequestsAt
    <2>3. \A s \in Slots :
             workerPc'[s] \in {"handle", "respond"} <=> Holds(s)
      BY <2>1, <2>2 DEF Holds, TypeOK, WorkersTypeOK
    <2>4. \A r \in Places : Held'[r] = Held[r]
      <3>1. \A p \in FixedPlaces : Held'[p] = Held[p]
        BY <2>1, StillHeld DEF FixedPlaces
      <3>2. \A s \in Slots : /\ Held'[<<"pinQueue", s>>] = Held[<<"pinQueue", s>>]
                             /\ Held'[<<"worker", s>>] = Held[<<"worker", s>>]
        BY <2>1, <2>3, StillHeld
      <3> QED BY <3>1, <3>2, PlaceCases
    <2> QED BY <2>1, <2>4, StayingKeepsCustody DEF QueuesNoRepeats
  <1>5. CASE ClearsOne
    <2> DEFINE id == Head(pinQueue[DispSlot]).request_id
    <2>1. /\ DispSlot \in Slots /\ pinQueue[DispSlot] # <<>>
          /\ pinQueue' = [pinQueue EXCEPT ![DispSlot] = Tail(@)]
          /\ dispDiscarded'.request_id = id
          /\ dispPc = "clear" /\ dispPc' = "cancel"
          /\ UNCHANGED <<requestQueue, responseQueue, serialOut, dispRequest, txPc,
                         txResponse, workerPc, workerRequest, dropped, received>>
      BY <1>1, <1>5 DEF ClearsOne
    <2>2. PICK s \in Slots : s = DispSlot
      BY <2>1
    <2>3. /\ pinQueue'[s] = Tail(pinQueue[s])
          /\ \A t \in Slots \ {s} : pinQueue'[t] = pinQueue[t]
          /\ pinQueue[s] \in Seq(Request)
      BY <2>1, <2>2 DEF TypeOK, QueuesTypeOK
    <2>4. /\ id \in IdsIn(pinQueue[s])
          /\ IdsIn(pinQueue'[s]) = IdsIn(pinQueue[s]) \ {id}
          /\ NoRepeats(pinQueue'[s])
      BY <2>1, <2>2, <2>3, TailIds DEF QueuesNoRepeats
    <2> HIDE DEF id
    <2>5. /\ id \in Held[<<"pinQueue", s>>]
          /\ Held'[<<"pinQueue", s>>] = Held[<<"pinQueue", s>>] \ {id}
          /\ Held'[<<"discarded">>] = Held[<<"discarded">>] \cup {id}
      BY <2>1, <2>4, HeldPlaces, HeldPlacesNext
    <2>6. \A r \in Places \ {<<"pinQueue", s>>, <<"discarded">>} :
             Held'[r] = Held[r]
      <3>1. \A r \in FixedPlaces \ {<<"discarded">>} : Held'[r] = Held[r]
        BY <2>1, StillHeld DEF FixedPlaces
      <3>2. \A t \in Slots :
               /\ t # s => Held'[<<"pinQueue", t>>] = Held[<<"pinQueue", t>>]
               /\ Held'[<<"worker", t>>] = Held[<<"worker", t>>]
        BY <2>1, <2>3, StillHeld
      <3> QED BY <3>1, <3>2, PlaceCases
    <2>7. Custody(Held', Len(received))
      <3>1. <<"pinQueue", s>> \in Places /\ <<"discarded">> \in Places
            /\ <<"pinQueue", s>> # <<"discarded">>
        BY PlaceCases, PlacesDiffer DEF FixedPlaces
      <3> QED BY <2>5, <2>6, <3>1, MovingKeepsCustody
    <2> QED BY <2>1, <2>3, <2>4, <2>7 DEF QueuesNoRepeats
  <1>6. CASE SendsCancelled
    <2>0. ErrorResponse(dispDiscarded.request_id, "kCancelled") \in Response
      BY <1>1, <1>6, AnswersAreResponses, SomeValues DEF SendsCancelled, ErrorCode
    <2>a. PICK answer \in Response :
             answer = ErrorResponse(dispDiscarded.request_id, "kCancelled")
      BY <2>0
    <2>1. /\ SendResponse(answer)
          /\ answer.request_id = dispDiscarded.request_id
          /\ dispPc = "cancel" /\ dispPc' = "clear"
          /\ UNCHANGED <<requestQueue, pinQueue, serialOut, dispRequest, txPc,
                         txResponse, workerPc, workerRequest, dropped, received>>
      BY <1>6, <2>a DEF SendsCancelled, ErrorResponse
    <2>2. /\ Held[<<"discarded">>] = {answer.request_id}
          /\ Held'[<<"discarded">>] = {}
      BY <2>1, HeldPlaces, HeldPlacesNext
    <2>3. \A r \in Places \ {<<"discarded">>, <<"responseQueue">>} :
             Held'[r] = Held[r]
      BY <2>1, StillHeld, PlaceCases DEF FixedPlaces
    <2>4. /\ answer.request_id \in Held[<<"discarded">>]
          /\ Held'[<<"discarded">>] = Held[<<"discarded">>] \ {answer.request_id}
          /\ <<"discarded">> \in Places /\ <<"discarded">> # <<"responseQueue">>
      BY <2>2, PlaceCases DEF FixedPlaces
    <2> QED BY <2>1, <2>3, <2>4, CustodySend
  <1>7. CASE SendsError
    <2>0. ErrorResponse(dispRequest.request_id, dispError) \in Response
      BY <1>1, <1>7, AnswersAreResponses, SomeValues
         DEF SendsError, TypeOK, DispatcherTypeOK
    <2>a. PICK answer \in Response :
             answer = ErrorResponse(dispRequest.request_id, dispError)
      BY <2>0
    <2>1. /\ SendResponse(answer)
          /\ answer.request_id = dispRequest.request_id
          /\ dispPc = "error" /\ dispPc' = "receive"
          /\ UNCHANGED <<requestQueue, pinQueue, serialOut, dispDiscarded, txPc,
                         txResponse, workerPc, workerRequest, dropped, received>>
      BY <1>7, <2>a DEF SendsError, DispatchDone, ErrorResponse
    <2>2. /\ Held[<<"dispatcher">>] = {answer.request_id}
          /\ Held'[<<"dispatcher">>] = {}
      BY <2>1, HeldPlaces, HeldPlacesNext
    <2>3. \A r \in Places \ {<<"dispatcher">>, <<"responseQueue">>} :
             Held'[r] = Held[r]
      BY <2>1, StillHeld, PlaceCases DEF FixedPlaces
    <2>4. /\ answer.request_id \in Held[<<"dispatcher">>]
          /\ Held'[<<"dispatcher">>] = Held[<<"dispatcher">>] \ {answer.request_id}
          /\ <<"dispatcher">> \in Places /\ <<"dispatcher">> # <<"responseQueue">>
      BY <2>2, PlaceCases DEF FixedPlaces
    <2> QED BY <2>1, <2>3, <2>4, CustodySend
  <1>8. CASE EnqueuesPinRequest
    <2>1. /\ UNCHANGED <<requestQueue, responseQueue, serialOut, dispDiscarded,
                         txPc, txResponse, workerPc, workerRequest, dropped,
                         received>>
          /\ DispSlot \in Slots /\ dispRequest \in Request /\ dispPc = "enqueue"
      BY <1>1, <1>8 DEF EnqueuesPinRequest, DispatchDone
    <2>2. CASE Len(pinQueue[DispSlot]) < PinQueueDepth
      <3>0. PICK s \in Slots, r \in Request : s = DispSlot /\ r = dispRequest
        BY <2>1
      <3>1. /\ pinQueue' = [pinQueue EXCEPT ![s] = Append(@, r)]
            /\ dispPc' = "receive"
        BY <1>8, <2>2, <3>0 DEF EnqueuesPinRequest, DispatchDone
      <3>2. /\ pinQueue'[s] = Append(pinQueue[s], r)
            /\ \A t \in Slots \ {s} : pinQueue'[t] = pinQueue[t]
            /\ pinQueue[s] \in Seq(Request)
        BY <3>1 DEF TypeOK, QueuesTypeOK
      <3>3. r.request_id \in Held[<<"dispatcher">>]
            /\ Held[<<"dispatcher">>] = {r.request_id}
            /\ Held'[<<"dispatcher">>] = {}
        BY <2>1, <3>0, <3>1, HeldPlaces, HeldPlacesNext
      <3>a. <<"pinQueue", s>> \in Places /\ <<"dispatcher">> \in Places
            /\ <<"pinQueue", s>> # <<"dispatcher">>
        BY PlaceCases, PlacesDiffer DEF FixedPlaces
      <3>4. r.request_id \notin IdsIn(pinQueue[s])
        <4>1. Held[<<"pinQueue", s>>] \cap Held[<<"dispatcher">>] = {}
          BY <3>a DEF Custody
        <4>2. Held[<<"pinQueue", s>>] = IdsIn(pinQueue[s])
          BY HeldPlaces
        <4> QED BY <3>3, <4>1, <4>2
      <3>5. IdsIn(pinQueue'[s]) = IdsIn(pinQueue[s]) \cup {r.request_id}
            /\ NoRepeats(pinQueue'[s])
        BY <3>2, <3>4, AppendIds DEF QueuesNoRepeats
      <3>6. Held'[<<"pinQueue", s>>] = Held[<<"pinQueue", s>>] \cup {r.request_id}
        BY <3>5, HeldPlaces, HeldPlacesNext
      <3>7. \A p \in Places \ {<<"dispatcher">>, <<"pinQueue", s>>} :
               Held'[p] = Held[p]
        <4>1. \A p \in FixedPlaces \ {<<"dispatcher">>} : Held'[p] = Held[p]
          BY <2>1, <3>1, StillHeld DEF FixedPlaces
        <4>2. \A t \in Slots :
                 /\ t # s => Held'[<<"pinQueue", t>>] = Held[<<"pinQueue", t>>]
                 /\ Held'[<<"worker", t>>] = Held[<<"worker", t>>]
          BY <2>1, <3>2, StillHeld
        <4> QED BY <4>1, <4>2, PlaceCases
      <3>b. Held'[<<"dispatcher">>] = Held[<<"dispatcher">>] \ {r.request_id}
        BY <3>3
      <3>8. Custody(Held', Len(received))
        <4>1. PICK id \in Held[<<"dispatcher">>] : id = r.request_id
          BY <3>3
        <4>2. /\ Held'[<<"dispatcher">>] = Held[<<"dispatcher">>] \ {id}
              /\ Held'[<<"pinQueue", s>>] = Held[<<"pinQueue", s>>] \cup {id}
          BY <3>6, <3>b, <4>1
        <4> QED BY <3>7, <3>a, <4>2, MovingKeepsCustody
      <3> QED BY <2>1, <3>2, <3>5, <3>8 DEF QueuesNoRepeats
    <2>3. CASE ~(Len(pinQueue[DispSlot]) < PinQueueDepth)
      <3>1. UNCHANGED <<pinQueue, dispRequest>> /\ dispPc' = "error"
        BY <1>8, <2>3 DEF EnqueuesPinRequest, RaiseError
      <3>2. \A r \in Places : Held'[r] = Held[r]
        BY <2>1, <3>1, StillHeld, PlaceCases DEF FixedPlaces
      <3> QED BY <2>1, <3>1, <3>2, StayingKeepsCustody DEF QueuesNoRepeats
    <2> QED BY <2>2, <2>3
  <1> QED BY <1>2, <1>3, <1>4, <1>5, <1>6, <1>7, <1>8 DEF Dispatcher

\* A worker takes a request from its queue, and gives its answer away.
LEMMA CustodyWorker ==
    ASSUME TypeOK, Custody(Held, Len(received)), QueuesNoRepeats,
           NEW s \in Slots, Worker(s)
    PROVE  Custody(Held', Len(received')) /\ QueuesNoRepeats'
  <1> USE DEF rxVars, dispVars, workerVars, txVars
  <1>0. /\ UNCHANGED <<requestQueue, dispPc, dispRequest, dispDiscarded, txPc,
                       txResponse, serialOut, received, dropped>>
        /\ <<"pinQueue", s>> \in Places /\ <<"worker", s>> \in Places
        /\ <<"pinQueue", s>> # <<"worker", s>>
        /\ <<"worker", s>> # <<"responseQueue">>
    BY PlaceCases, PlacesDiffer
       DEF Worker, WorkerInits, WorkerReceives, WorkerHandles, WorkerResponds,
           FixedPlaces
  <1>1. \A p \in FixedPlaces \ {<<"responseQueue">>} : Held'[p] = Held[p]
    BY <1>0, StillHeld DEF FixedPlaces
  <1>2. \A t \in Slots \ {s} :
           /\ Held'[<<"pinQueue", t>>] = Held[<<"pinQueue", t>>]
           /\ Held'[<<"worker", t>>] = Held[<<"worker", t>>]
    <2>1. \A t \in Slots \ {s} :
             /\ pinQueue'[t] = pinQueue[t] /\ workerPc'[t] = workerPc[t]
             /\ workerRequest'[t] = workerRequest[t]
      BY DEF Worker, WorkerInits, WorkerReceives, WorkerHandles, WorkerResponds,
             TypeOK, QueuesTypeOK, WorkersTypeOK
    <2> QED BY <2>1, StillHeld
  <1>3. CASE WorkerInits(s) \/ WorkerHandles(s)
    <2>1. /\ UNCHANGED <<pinQueue, responseQueue>>
          /\ workerRequest'[s] = workerRequest[s]
          /\ Holds(s) <=> workerPc'[s] \in {"handle", "respond"}
      BY <1>3 DEF WorkerInits, WorkerHandles, Holds, TypeOK, WorkersTypeOK
    <2>2. /\ Held'[<<"responseQueue">>] = Held[<<"responseQueue">>]
          /\ Held'[<<"pinQueue", s>>] = Held[<<"pinQueue", s>>]
          /\ Held'[<<"worker", s>>] = Held[<<"worker", s>>]
      BY <2>1, StillHeld
    <2>3. \A p \in Places : Held'[p] = Held[p]
      BY <1>1, <1>2, <2>2, PlaceCases
    <2> QED BY <1>0, <2>1, <2>3, StayingKeepsCustody DEF QueuesNoRepeats
  <1>4. CASE WorkerReceives(s)
    <2>1. /\ pinQueue[s] # <<>> /\ pinQueue[s] \in Seq(Request)
          /\ pinQueue'[s] = Tail(pinQueue[s])
          /\ workerRequest'[s] = Head(pinQueue[s])
          /\ workerPc[s] = "receive" /\ workerPc'[s] = "handle"
          /\ UNCHANGED responseQueue
          /\ \A t \in Slots \ {s} : pinQueue'[t] = pinQueue[t]
      BY <1>4 DEF WorkerReceives, TypeOK, QueuesTypeOK, WorkersTypeOK
    <2>2. /\ Head(pinQueue[s]).request_id \in IdsIn(pinQueue[s])
          /\ IdsIn(pinQueue'[s]) =
                IdsIn(pinQueue[s]) \ {Head(pinQueue[s]).request_id}
          /\ NoRepeats(pinQueue'[s])
      BY <2>1, TailIds DEF QueuesNoRepeats
    <2>3. PICK id \in IdsIn(pinQueue[s]) : id = Head(pinQueue[s]).request_id
      BY <2>2
    <2>4. /\ Held[<<"pinQueue", s>>] = IdsIn(pinQueue[s])
          /\ Held'[<<"pinQueue", s>>] = IdsIn(pinQueue[s]) \ {id}
      BY <2>2, <2>3, HeldPlaces, HeldPlacesNext
    <2>5. Held[<<"worker", s>>] = {} /\ Held'[<<"worker", s>>] = {id}
      BY <2>1, <2>3, HeldPlaces, HeldPlacesNext DEF Holds
    <2>6. Held'[<<"responseQueue">>] = Held[<<"responseQueue">>]
      BY <2>1, StillHeld
    <2>7. \A p \in Places \ {<<"pinQueue", s>>, <<"worker", s>>} :
             Held'[p] = Held[p]
      BY <1>1, <1>2, <2>6, PlaceCases
    <2>8. Custody(Held', Len(received))
      BY <1>0, <2>4, <2>5, <2>7, MovingKeepsCustody
    <2> QED BY <1>0, <2>1, <2>2, <2>8 DEF QueuesNoRepeats
  <1>5. CASE WorkerResponds(s)
    <2>0. /\ workerPc[s] = "respond" /\ workerPc'[s] = "receive"
          /\ workerRequest[s] \in Request /\ workerValue[s] \in UInt16
          /\ UNCHANGED pinQueue
          /\ SendResponse(OkResponse(workerRequest[s].request_id, workerValue[s]))
      BY <1>5 DEF WorkerResponds, TypeOK, WorkersTypeOK, Holds
    <2>1. OkResponse(workerRequest[s].request_id, workerValue[s]) \in Response
      BY <2>0, SlotOfRequest, AnswersAreResponses DEF ErrorCode
    <2>2. PICK answer \in Response :
             answer = OkResponse(workerRequest[s].request_id, workerValue[s])
      BY <2>1
    <2>3. SendResponse(answer) /\ answer.request_id = workerRequest[s].request_id
      BY <2>0, <2>2 DEF OkResponse
    <2>4. /\ answer.request_id \in Held[<<"worker", s>>]
          /\ Held'[<<"worker", s>>] = Held[<<"worker", s>>] \ {answer.request_id}
      BY <2>0, <2>3, HeldPlaces, HeldPlacesNext DEF Holds
    <2>5. Held'[<<"pinQueue", s>>] = Held[<<"pinQueue", s>>]
      BY <2>0, StillHeld
    <2>6. \A p \in Places \ {<<"worker", s>>, <<"responseQueue">>} :
             Held'[p] = Held[p]
      BY <1>1, <1>2, <2>5, PlaceCases
    <2> QED BY <1>0, <2>0, <2>3, <2>4, <2>6, CustodySend
  <1> QED BY <1>3, <1>4, <1>5 DEF Worker

\* The TX task takes an answer from the response queue and writes it.
LEMMA CustodyTx ==
    ASSUME TypeOK, Custody(Held, Len(received)), QueuesNoRepeats, Tx
    PROVE  Custody(Held', Len(received')) /\ QueuesNoRepeats'
  <1> USE DEF rxVars, dispVars, workerVars, txVars
  <1>0. /\ UNCHANGED <<requestQueue, dispPc, dispRequest, dispDiscarded, pinQueue,
                       workerPc, workerRequest, received, dropped>>
        /\ <<"responseQueue">> \in Places /\ <<"tx">> \in Places
        /\ <<"serialOut">> \in Places
        /\ <<"responseQueue">> # <<"tx">> /\ <<"tx">> # <<"serialOut">>
    BY PlaceCases DEF Tx, TxReceives, TxWrites
  <1>1. \A p \in FixedPlaces \ {<<"responseQueue">>, <<"tx">>, <<"serialOut">>} :
           Held'[p] = Held[p]
    BY <1>0, StillHeld DEF FixedPlaces
  <1>2. \A s \in Slots :
           /\ Held'[<<"pinQueue", s>>] = Held[<<"pinQueue", s>>]
           /\ Held'[<<"worker", s>>] = Held[<<"worker", s>>]
    BY <1>0, StillHeld
  <1>3. CASE TxReceives
    <2>1. /\ responseQueue # <<>> /\ responseQueue \in Seq(Response)
          /\ responseQueue' = Tail(responseQueue)
          /\ txResponse' = Head(responseQueue)
          /\ txPc = "receive" /\ txPc' = "write"
          /\ UNCHANGED serialOut
      BY <1>3 DEF TxReceives, TypeOK, QueuesTypeOK
    <2>2. /\ Head(responseQueue).request_id \in IdsIn(responseQueue)
          /\ IdsIn(responseQueue') =
                IdsIn(responseQueue) \ {Head(responseQueue).request_id}
          /\ NoRepeats(responseQueue')
      BY <2>1, TailIds DEF QueuesNoRepeats
    <2>3. PICK id \in IdsIn(responseQueue) : id = Head(responseQueue).request_id
      BY <2>2
    <2>4. /\ Held[<<"responseQueue">>] = IdsIn(responseQueue)
          /\ Held'[<<"responseQueue">>] = IdsIn(responseQueue) \ {id}
          /\ Held[<<"tx">>] = {} /\ Held'[<<"tx">>] = {id}
      BY <2>1, <2>2, <2>3, HeldPlaces, HeldPlacesNext
    <2>5. Held'[<<"serialOut">>] = Held[<<"serialOut">>]
      BY <2>1, StillHeld
    <2>6. \A p \in Places \ {<<"responseQueue">>, <<"tx">>} : Held'[p] = Held[p]
      BY <1>1, <1>2, <2>5, PlaceCases
    <2>7. Custody(Held', Len(received))
      BY <1>0, <2>4, <2>6, MovingKeepsCustody
    <2> QED BY <1>0, <2>1, <2>2, <2>7 DEF QueuesNoRepeats
  <1>4. CASE TxWrites
    <2>0. /\ txResponse \in Response /\ serialOut \in Seq(Response)
          /\ serialOut' = Append(serialOut, txResponse)
          /\ txPc = "write" /\ txPc' = "receive"
          /\ UNCHANGED responseQueue
      BY <1>4 DEF TxWrites, TypeOK, SerialTypeOK
    <2>1. PICK answer \in Response : answer = txResponse
      BY <2>0
    <2>2. /\ answer.request_id \in Held[<<"tx">>]
          /\ Held[<<"tx">>] = {answer.request_id} /\ Held'[<<"tx">>] = {}
          /\ Held[<<"serialOut">>] = IdsIn(serialOut)
      BY <2>0, <2>1, HeldPlaces, HeldPlacesNext
    <2>3. answer.request_id \notin IdsIn(serialOut)
      <3>1. Held[<<"tx">>] \cap Held[<<"serialOut">>] = {}
        BY <1>0 DEF Custody
      <3> QED BY <2>2, <3>1
    <2>4. /\ IdsIn(serialOut') = IdsIn(serialOut) \cup {answer.request_id}
          /\ NoRepeats(serialOut')
      BY <2>0, <2>1, <2>3, AppendIds DEF QueuesNoRepeats
    <2>5. /\ Held'[<<"serialOut">>] =
                Held[<<"serialOut">>] \cup {answer.request_id}
          /\ Held'[<<"tx">>] = Held[<<"tx">>] \ {answer.request_id}
      BY <2>2, <2>4, HeldPlacesNext
    <2>6. Held'[<<"responseQueue">>] = Held[<<"responseQueue">>]
      BY <2>0, StillHeld
    <2>7. \A p \in Places \ {<<"tx">>, <<"serialOut">>} : Held'[p] = Held[p]
      BY <1>1, <1>2, <2>6, PlaceCases
    <2>8. PICK id \in Held[<<"tx">>] : id = answer.request_id
      BY <2>2
    <2>9. Custody(Held', Len(received))
      BY <1>0, <2>5, <2>7, <2>8, MovingKeepsCustody
    <2> QED BY <1>0, <2>0, <2>4, <2>9 DEF QueuesNoRepeats
  <1> QED BY <1>3, <1>4 DEF Tx

LEMMA OneHolderStep ==
    TypeOK /\ RoutingInv /\ OneHolder /\ [Next]_vars => OneHolder'
  <1> SUFFICES ASSUME TypeOK, RoutingInv, OneHolder, [Next]_vars
               PROVE  OneHolder'
    OBVIOUS
  <1>1. Custody(Held, Len(received)) /\ QueuesNoRepeats
    BY OneHolderIsCustody
  <1>2. Custody(Held', Len(received')) /\ QueuesNoRepeats'
    <2>1. CASE \E body \in Workload : RxQueues(body) \/ RxDrops(body)
      BY <1>1, <2>1, CustodyRx
    <2>2. CASE Dispatcher
      BY <1>1, <2>2, CustodyDispatcher
    <2>3. CASE \E s \in Slots : Worker(s)
      BY <1>1, <2>3, CustodyWorker
    <2>4. CASE Tx
      BY <1>1, <2>4, CustodyTx
    <2>5. CASE UNCHANGED vars
      <3>1. /\ UNCHANGED <<requestQueue, dispPc, dispRequest, dispDiscarded,
                           pinQueue, workerPc, workerRequest, responseQueue,
                           txPc, txResponse, serialOut, received, dropped>>
        BY <2>5 DEF vars, rxVars, dispVars, workerVars, txVars
      <3>2. \A p \in FixedPlaces : Held'[p] = Held[p]
        BY <3>1, StillHeld DEF FixedPlaces
      <3>3. \A s \in Slots :
               /\ Held'[<<"pinQueue", s>>] = Held[<<"pinQueue", s>>]
               /\ Held'[<<"worker", s>>] = Held[<<"worker", s>>]
        BY <3>1, StillHeld
      <3>4. \A p \in Places : Held'[p] = Held[p]
        BY <3>2, <3>3, PlaceCases
      <3> QED BY <1>1, <3>1, <3>4, StayingKeepsCustody DEF QueuesNoRepeats
    <2> QED BY <2>1, <2>2, <2>3, <2>4, <2>5 DEF Next
  <1>3. (OneHolder <=> Custody(Held, Len(received)) /\ QueuesNoRepeats)'
    BY OneHolderIsCustody, PTL
  <1> QED BY <1>2, <1>3 DEF Custody

\* For every workload and every queue length, a decoded request, or its answer,
\* is always at exactly one place: the dispatcher, the workers that drain the
\* queue it clears and the TX task never lose a request and never answer one
\* twice.
THEOREM OneHolderAlways == Spec => []OneHolder
  <1>1. Init => OneHolder
    BY CustodyInit, OneHolderIsCustody
  <1> QED
    BY <1>1, TypeCorrect, RoutingInit, RoutingStep, OneHolderStep, PTL DEF Spec

---------------------------------------------------------------------------
(* The meaning of an answer.  The parts of the inductive invariant: a      *)
(* request stays what the parser decoded; the dispatcher refuses only for  *)
(* the reason it found; an executed request has left for good everything   *)
(* that refuses requests; a worker reports what its pin has.               *)

AsReceived(r) ==
    r.request_id \in DOMAIN received /\ received[r.request_id] = r

RecordsInv ==
    /\ \A id \in DOMAIN received :
          /\ received[id].request_id = id
          /\ IsValidRequest(received[id].type, received[id].pin_type)
    /\ \A i \in DOMAIN requestQueue : AsReceived(requestQueue[i])
    /\ dispPc # "receive" => AsReceived(dispRequest)
    /\ dispPc = "cancel" => AsReceived(dispDiscarded)
    /\ \A s \in Slots :
          /\ \A i \in DOMAIN pinQueue[s] : AsReceived(pinQueue[s][i])
          /\ Holds(s) => AsReceived(workerRequest[s])

RefusalInv ==
    /\ dispPc = "error" => Justifies(dispError, dispRequest.request_id)
    /\ dispPc \in {"clear", "cancel"} => dispRequest.priority = "kHigh"
    /\ dispPc = "cancel" =>
          /\ SlotOf(dispDiscarded) = DispSlot
          /\ dispDiscarded.request_id < dispRequest.request_id

ExecutedInv ==
    /\ \A s \in Slots :
          workerPc[s] = "respond" => workerRequest[s].request_id \in executed
    /\ \A id \in executed :
          \/ \E s \in Slots : /\ workerPc[s] = "respond"
                              /\ workerRequest[s].request_id = id
          \/ \E answer \in Emitted : answer.request_id = id

ReportInv ==
    \A s \in Slots :
        /\ session[s] = NoSession => workerPc[s] = "none"
        /\ workerPc[s] \in {"none", "ready"} => lastExecuted[s] = 0
        /\ workerPc[s] = "respond" /\ workerRequest[s].type = "kWrite" =>
              /\ workerValue[s] = AppliedValue(workerRequest[s].pin_type,
                                               workerRequest[s].value)
              /\ lastExecuted[s] = workerRequest[s].request_id
              /\ level[s] = workerValue[s]

---------------------------------------------------------------------------
(* Requests stay what the parser decoded.                                  *)

LEMMA TailMembers ==
    ASSUME NEW S, NEW q \in Seq(S), q # <<>>
    PROVE  /\ 1 \in DOMAIN q /\ Head(q) = q[1]
           /\ \A i \in DOMAIN Tail(q) : \E j \in DOMAIN q : Tail(q)[i] = q[j]
           /\ \A j \in DOMAIN q :
                 q[j] = Head(q) \/ \E i \in DOMAIN Tail(q) : Tail(q)[i] = q[j]
  <1>1. /\ Len(q) \in Nat \ {0} /\ DOMAIN q = 1 .. Len(q)
        /\ Head(q) = q[1] /\ 1 \in DOMAIN q
    BY EmptySeq, LenProperties
  <1>2. /\ DOMAIN Tail(q) = 1 .. Len(q) - 1
        /\ \A i \in DOMAIN Tail(q) : Tail(q)[i] = q[i + 1]
    BY HeadTailProperties, LenProperties
  <1>3. ASSUME NEW i \in DOMAIN Tail(q) PROVE \E j \in DOMAIN q : Tail(q)[i] = q[j]
    BY <1>1, <1>2
  <1>4. ASSUME NEW j \in DOMAIN q, j # 1
        PROVE  \E i \in DOMAIN Tail(q) : Tail(q)[i] = q[j]
    <2>1. j - 1 \in DOMAIN Tail(q) /\ (j - 1) + 1 = j
      BY <1>1, <1>2, <1>4
    <2> QED BY <1>2, <2>1
  <1> QED BY <1>1, <1>3, <1>4

LEMMA AppendMembers ==
    ASSUME NEW S, NEW q \in Seq(S), NEW x \in S
    PROVE  /\ \A i \in DOMAIN Append(q, x) :
                 Append(q, x)[i] = x \/ \E j \in DOMAIN q : Append(q, x)[i] = q[j]
           /\ \A j \in DOMAIN q : /\ j \in DOMAIN Append(q, x)
                                  /\ Append(q, x)[j] = q[j]
           /\ Len(Append(q, x)) \in DOMAIN Append(q, x)
           /\ Append(q, x)[Len(Append(q, x))] = x
  <1> DEFINE t == Append(q, x)
  <1>1. /\ Len(q) \in Nat /\ DOMAIN q = 1 .. Len(q)
        /\ DOMAIN t = 1 .. Len(q) + 1 /\ Len(t) = Len(q) + 1
        /\ \A i \in 1 .. Len(q) : t[i] = q[i]
        /\ t[Len(q) + 1] = x
    BY AppendProperties, LenProperties
  <1> HIDE DEF t
  <1>2. \A i \in DOMAIN t : t[i] = x \/ \E j \in DOMAIN q : t[i] = q[j]
    BY <1>1
  <1> QED BY <1>1, <1>2 DEF t

\* What has been received is never forgotten or changed.
LEMMA ReceivedGrows ==
    ASSUME TypeOK, [Next]_vars
    PROVE  /\ \A id \in DOMAIN received :
                 id \in DOMAIN received' /\ received'[id] = received[id]
           /\ received \in Seq(Request) /\ received' \in Seq(Request)
           /\ Len(received) \in Nat /\ Len(received') \in Nat
           /\ Len(received) <= Len(received')
           /\ \A r : AsReceived(r) => AsReceived(r)'
  <1>0. received \in Seq(Request)
    BY DEF TypeOK, SerialTypeOK
  <1>1. CASE \E body \in Workload : RxQueues(body) \/ RxDrops(body)
    <2>1. PICK body \in Workload : RxArrives(body)
      BY <1>1 DEF RxQueues, RxDrops
    <2>2. /\ NextRequest(body) \in Request
          /\ received' = Append(received, NextRequest(body))
      BY <1>0, <2>1, NextRequestIsRequest DEF RxArrives
    <2> QED BY <1>0, <2>2, AppendMembers, AppendProperties, LenProperties
            DEF AsReceived
  <1>2. CASE UNCHANGED received
    BY <1>0, <1>2, LenProperties DEF AsReceived
  <1> QED
    BY <1>1, <1>2 DEF Next, Dispatcher, DispatcherReceives, DispatchRejects,
       CreatesSession, CreateSessionFails, RoutesRequest, ClearsOne,
       ClearsNothing, SendsCancelled, EnqueuesPinRequest, SendsError, Worker,
       WorkerInits, WorkerReceives, WorkerHandles, WorkerResponds, Tx,
       TxReceives, TxWrites, vars, rxVars

\* A queue of received requests stays one when it loses its head or gets
\* another received request.
LEMMA QueueAsReceived ==
    ASSUME TypeOK, [Next]_vars, NEW q \in Seq(Request), NEW t,
           \A i \in DOMAIN q : AsReceived(q[i]),
           \/ t = q
           \/ q # <<>> /\ t = Tail(q)
           \/ \E x \in Request : AsReceived(x)' /\ t = Append(q, x)
    PROVE  \A i \in DOMAIN t : t[i].request_id \in DOMAIN received'
                               /\ received'[t[i].request_id] = t[i]
  <1> DEFINE Good(r) == /\ r.request_id \in DOMAIN received'
                        /\ received'[r.request_id] = r
  <1>1. \A i \in DOMAIN q : Good(q[i])
    BY ReceivedGrows DEF AsReceived
  <1>2. \A r : AsReceived(r)' => Good(r)
    BY DEF AsReceived
  <1> HIDE DEF Good
  <1>3. CASE t = q
    BY <1>1, <1>3 DEF Good
  <1>4. CASE q # <<>> /\ t = Tail(q)
    <2>1. \A i \in DOMAIN t : \E j \in DOMAIN q : t[i] = q[j]
      BY <1>4, TailMembers
    <2>2. \A i \in DOMAIN t : Good(t[i])
      BY <1>1, <2>1
    <2> QED BY <2>2 DEF Good
  <1>5. ASSUME NEW x \in Request, AsReceived(x)', t = Append(q, x)
        PROVE  \A i \in DOMAIN t : Good(t[i])
    <2>1. \A i \in DOMAIN t : t[i] = x \/ \E j \in DOMAIN q : t[i] = q[j]
      BY <1>5, AppendMembers
    <2> QED BY <1>1, <1>2, <1>5, <2>1
  <1> QED BY <1>3, <1>4, <1>5 DEF Good

LEMMA RecordsInit == Init => RecordsInv
  BY DEF Init, RecordsInv, Holds

LEMMA RecordsStep == TypeOK /\ RecordsInv /\ [Next]_vars => RecordsInv'
  <1> SUFFICES ASSUME TypeOK, RecordsInv, [Next]_vars PROVE RecordsInv'
    OBVIOUS
  <1> USE DEF rxVars, dispVars, workerVars, txVars
  <1>1. \A r : AsReceived(r) => AsReceived(r)'
    BY ReceivedGrows
  <1>2. \A id \in DOMAIN received' :
           /\ received'[id].request_id = id
           /\ IsValidRequest(received'[id].type, received'[id].pin_type)
    <2>1. CASE \E body \in Workload : RxArrives(body)
      <3>1. PICK body \in Workload : RxArrives(body)
        BY <2>1
      <3>2. /\ received \in Seq(Request) /\ NextRequest(body) \in Request
            /\ received' = Append(received, NextRequest(body))
        BY <3>1, NextRequestIsRequest DEF RxArrives, TypeOK, SerialTypeOK
      <3>3. /\ NextRequest(body).request_id = Len(received) + 1
            /\ IsValidRequest(NextRequest(body).type, NextRequest(body).pin_type)
        BY <3>1 DEF RxArrives, NextRequest, WithId
      <3>4. /\ Len(received) \in Nat /\ DOMAIN received = 1 .. Len(received)
            /\ DOMAIN received' = 1 .. Len(received) + 1
            /\ \A i \in 1 .. Len(received) : received'[i] = received[i]
            /\ received'[Len(received) + 1] = NextRequest(body)
        BY <3>2, AppendProperties, LenProperties
      <3> QED BY <3>3, <3>4 DEF RecordsInv
    <2>2. CASE UNCHANGED received
      BY <2>2 DEF RecordsInv
    <2> QED
      BY <2>1, <2>2 DEF Next, RxQueues, RxDrops, Dispatcher,
         DispatcherReceives, DispatchRejects, CreatesSession,
         CreateSessionFails, RoutesRequest, ClearsOne, ClearsNothing,
         SendsCancelled, EnqueuesPinRequest, SendsError, Worker, WorkerInits,
         WorkerReceives, WorkerHandles, WorkerResponds, Tx, TxReceives,
         TxWrites, vars
  <1>3. \A i \in DOMAIN requestQueue' : AsReceived(requestQueue[i])'
    <2>1. requestQueue \in Seq(Request)
      BY DEF TypeOK, QueuesTypeOK
    <2>2. \/ UNCHANGED requestQueue
          \/ DispatcherReceives
          \/ \E body \in Workload : RxQueues(body)
      BY DEF Next, RxDrops, Dispatcher, DispatchRejects, CreatesSession,
         CreateSessionFails, RoutesRequest, ClearsOne, ClearsNothing,
         SendsCancelled, EnqueuesPinRequest, SendsError, Worker, WorkerInits,
         WorkerReceives, WorkerHandles, WorkerResponds, Tx, TxReceives,
         TxWrites, vars
    <2>3. ASSUME NEW body \in Workload, RxQueues(body)
          PROVE  \E x \in Request :
                    AsReceived(x)' /\ requestQueue' = Append(requestQueue, x)
      <3>1. /\ received \in Seq(Request) /\ NextRequest(body) \in Request
            /\ received' = Append(received, NextRequest(body))
            /\ requestQueue' = Append(requestQueue, NextRequest(body))
        BY <2>3, NextRequestIsRequest DEF RxQueues, RxArrives, TypeOK, SerialTypeOK
      <3>2. /\ NextRequest(body).request_id = Len(received')
            /\ Len(received') \in DOMAIN received'
            /\ received'[Len(received')] = NextRequest(body)
        BY <3>1, AppendMembers, AppendProperties DEF NextRequest, WithId
      <3> QED BY <3>1, <3>2 DEF AsReceived
    <2>4. \/ requestQueue' = requestQueue
          \/ requestQueue # <<>> /\ requestQueue' = Tail(requestQueue)
          \/ \E x \in Request :
                AsReceived(x)' /\ requestQueue' = Append(requestQueue, x)
      BY <2>2, <2>3 DEF DispatcherReceives
    <2>5. \A i \in DOMAIN requestQueue : AsReceived(requestQueue[i])
      BY DEF RecordsInv
    <2> QED BY <2>1, <2>4, <2>5, QueueAsReceived DEF AsReceived
  <1>4. dispPc' # "receive" => AsReceived(dispRequest)'
    <2>1. CASE DispatcherReceives
      <3>1. /\ requestQueue \in Seq(Request) /\ requestQueue # <<>>
            /\ dispRequest' = Head(requestQueue) /\ UNCHANGED received
        BY <2>1 DEF DispatcherReceives, TypeOK, QueuesTypeOK
      <3>2. AsReceived(Head(requestQueue))
        BY <3>1, TailMembers DEF RecordsInv
      <3> QED BY <3>1, <3>2 DEF AsReceived
    <2>2. CASE ~DispatcherReceives
      <3>1. dispPc' = "receive" \/ (dispPc # "receive" /\ UNCHANGED dispRequest)
               \/ UNCHANGED <<dispPc, dispRequest>>
        BY <2>2 DEF Next, RxQueues, RxDrops, RxArrives, Dispatcher,
           DispatchRejects, CreatesSession, CreateSessionFails, RoutesRequest,
           ClearsOne, ClearsNothing, SendsCancelled, EnqueuesPinRequest,
           SendsError, DispatchDone, MustCreate, RaiseError, Worker,
           WorkerInits, WorkerReceives, WorkerHandles, WorkerResponds, Tx,
           TxReceives, TxWrites, vars
      <3> QED BY <1>1, <3>1 DEF RecordsInv, AsReceived
    <2> QED BY <2>1, <2>2
  <1>5. dispPc' = "cancel" => AsReceived(dispDiscarded)'
    <2>1. CASE ClearsOne
      <3>1. /\ DispSlot \in Slots /\ pinQueue[DispSlot] \in Seq(Request)
            /\ pinQueue[DispSlot] # <<>>
            /\ dispDiscarded' = Head(pinQueue[DispSlot]) /\ UNCHANGED received
        BY <2>1, SlotOfRequest
           DEF ClearsOne, TypeOK, QueuesTypeOK, DispatcherTypeOK, DispSlot
      <3>2. AsReceived(Head(pinQueue[DispSlot]))
        BY <3>1, TailMembers DEF RecordsInv
      <3> QED BY <3>1, <3>2 DEF AsReceived
    <2>2. CASE ~ClearsOne
      <3>1. dispPc' # "cancel" \/ UNCHANGED <<dispPc, dispDiscarded>>
        BY <2>2 DEF Next, RxQueues, RxDrops, RxArrives, Dispatcher,
           DispatcherReceives, DispatchRejects, CreatesSession,
           CreateSessionFails, RoutesRequest, ClearsNothing, SendsCancelled,
           EnqueuesPinRequest, SendsError, DispatchDone, MustCreate,
           RaiseError, Worker, WorkerInits, WorkerReceives, WorkerHandles,
           WorkerResponds, Tx, TxReceives, TxWrites, vars
      <3> QED BY <1>1, <3>1 DEF RecordsInv, AsReceived
    <2> QED BY <2>1, <2>2
  <1>6. ASSUME NEW s \in Slots
        PROVE  \A i \in DOMAIN pinQueue'[s] : AsReceived(pinQueue[s][i])'
    <2>1. /\ pinQueue[s] \in Seq(Request)
          /\ \A i \in DOMAIN pinQueue[s] : AsReceived(pinQueue[s][i])
      BY DEF TypeOK, QueuesTypeOK, RecordsInv
    <2>2. \/ UNCHANGED pinQueue
          \/ ClearsOne \/ EnqueuesPinRequest
          \/ \E t \in Slots : WorkerReceives(t)
      BY DEF Next, RxQueues, RxDrops, RxArrives, Dispatcher,
         DispatcherReceives, DispatchRejects, CreatesSession,
         CreateSessionFails, RoutesRequest, ClearsNothing, SendsCancelled,
         SendsError, Worker, WorkerInits, WorkerHandles, WorkerResponds, Tx,
         TxReceives, TxWrites, vars
    <2>3. CASE EnqueuesPinRequest
      <3>1. PICK x \in Request : x = dispRequest
        BY <2>3 DEF EnqueuesPinRequest, TypeOK, DispatcherTypeOK
      <3>2. AsReceived(x) /\ UNCHANGED received
        BY <2>3, <3>1 DEF EnqueuesPinRequest, RecordsInv
      <3>3. pinQueue'[s] = pinQueue[s] \/ pinQueue'[s] = Append(pinQueue[s], x)
        BY <2>3, <3>1 DEF EnqueuesPinRequest, TypeOK, QueuesTypeOK
      <3>4. AsReceived(x)'
        BY <3>2 DEF AsReceived
      <3>5. \A i \in DOMAIN pinQueue'[s] :
               /\ pinQueue'[s][i].request_id \in DOMAIN received'
               /\ received'[pinQueue'[s][i].request_id] = pinQueue'[s][i]
        BY <2>1, <3>3, <3>4, QueueAsReceived
      <3> QED BY <3>5 DEF AsReceived
    <2>4. CASE UNCHANGED pinQueue \/ ClearsOne \/ \E t \in Slots : WorkerReceives(t)
      <3>1. \/ pinQueue'[s] = pinQueue[s]
            \/ pinQueue[s] # <<>> /\ pinQueue'[s] = Tail(pinQueue[s])
        BY <2>4 DEF ClearsOne, WorkerReceives, TypeOK, QueuesTypeOK
      <3>2. \A i \in DOMAIN pinQueue'[s] :
               /\ pinQueue'[s][i].request_id \in DOMAIN received'
               /\ received'[pinQueue'[s][i].request_id] = pinQueue'[s][i]
        BY <2>1, <3>1, QueueAsReceived
      <3> QED BY <3>2 DEF AsReceived
    <2> QED BY <2>2, <2>3, <2>4
  <1>7. ASSUME NEW s \in Slots, workerPc'[s] \in {"handle", "respond"}
        PROVE  AsReceived(workerRequest[s])'
    <2>1. CASE WorkerReceives(s)
      <3>1. /\ pinQueue[s] \in Seq(Request) /\ pinQueue[s] # <<>>
            /\ workerRequest'[s] = Head(pinQueue[s]) /\ UNCHANGED received
        BY <2>1 DEF WorkerReceives, TypeOK, QueuesTypeOK, WorkersTypeOK
      <3>2. AsReceived(Head(pinQueue[s]))
        BY <3>1, TailMembers DEF RecordsInv
      <3> QED BY <3>1, <3>2 DEF AsReceived
    <2>2. CASE ~WorkerReceives(s)
      <3>1. Holds(s) /\ workerRequest'[s] = workerRequest[s]
        <4>1. CASE Dispatcher
          <5>1. /\ UNCHANGED workerRequest
                /\ workerPc'[s] = workerPc[s] \/ workerPc'[s] = "ready"
            BY <4>1 DEF Dispatcher, DispatcherReceives, DispatchRejects,
               CreatesSession, CreateSessionFails, RoutesRequest, ClearsOne,
               ClearsNothing, SendsCancelled, EnqueuesPinRequest, SendsError,
               TypeOK, WorkersTypeOK
          <5> QED BY <1>7, <5>1 DEF Holds
        <4>2. ASSUME NEW t \in Slots, Worker(t)
              PROVE  Holds(s) /\ workerRequest'[s] = workerRequest[s]
          BY <1>7, <2>2, <4>2 DEF Worker, WorkerInits, WorkerReceives,
             WorkerHandles, WorkerResponds, Holds, TypeOK, WorkersTypeOK
        <4>3. CASE UNCHANGED <<workerPc, workerRequest>>
          BY <1>7, <4>3 DEF Holds
        <4> QED
          BY <4>1, <4>2, <4>3 DEF Next, RxQueues, RxDrops, RxArrives, Tx,
             TxReceives, TxWrites, vars
      <3> QED BY <1>1, <3>1 DEF RecordsInv, AsReceived
    <2> QED BY <2>1, <2>2
  <1> QED BY <1>2, <1>3, <1>4, <1>5, <1>6, <1>7 DEF RecordsInv, Holds

---------------------------------------------------------------------------
(* Why the dispatcher refuses.                                             *)

\* A session is never replaced or removed, and a failure to create one is
\* remembered.
LEMMA SessionsStay ==
    ASSUME TypeOK, [Next]_vars
    PROVE  /\ \A s \in Slots : session[s] # NoSession => session'[s] = session[s]
           /\ notCreated \subseteq notCreated'
  <1> USE DEF rxVars
  <1>1. CASE CreatesSession
    BY <1>1 DEF CreatesSession, MustCreate, TypeOK, WorkersTypeOK
  <1>2. CASE CreateSessionFails
    BY <1>2 DEF CreateSessionFails
  <1>3. CASE UNCHANGED <<session, notCreated>>
    BY <1>3
  <1> QED
    BY <1>1, <1>2, <1>3 DEF Next, RxQueues, RxDrops, RxArrives, Dispatcher,
       DispatcherReceives, DispatchRejects, RoutesRequest, ClearsOne,
       ClearsNothing, SendsCancelled, EnqueuesPinRequest, SendsError, Worker,
       WorkerInits, WorkerReceives, WorkerHandles, WorkerResponds, Tx,
       TxReceives, TxWrites, vars

\* A reason to refuse a request stays one, whatever is received later.
LEMMA JustifiesStays ==
    ASSUME TypeOK, [Next]_vars, NEW e, NEW id \in DOMAIN received,
           Justifies(e, id)
    PROVE  Justifies(e, id)'
  <1>1. /\ Len(received) \in Nat /\ Len(received') \in Nat
        /\ Len(received) <= Len(received')
        /\ DOMAIN received = 1 .. Len(received)
        /\ \A i \in DOMAIN received : received'[i] = received[i]
    BY ReceivedGrows, LenProperties
  <1>2. received'[id] = received[id] /\ id \in Nat
    BY <1>1
  <1>3. CASE e = "kCancelled"
    <2>1. PICK later \in id + 1 .. Len(received) :
             /\ SlotOf(received[later]) = SlotOf(received[id])
             /\ received[later].priority = "kHigh"
      BY <1>3 DEF Justifies
    <2>2. /\ later \in id + 1 .. Len(received')
          /\ received'[later] = received[later]
      BY <1>1, <1>2, <2>1
    <2> QED BY <1>2, <1>3, <2>1, <2>2 DEF Justifies
  <1>4. CASE e = "kUnsupported"
    <2>1. SlotOf(received[id]) \in Slots
      BY ElementOfSeq, SlotOfRequest, <1>1 DEF TypeOK, SerialTypeOK
    <2> QED BY <1>2, <1>4, <2>1, SessionsStay DEF Justifies
  <1>5. CASE e \notin {"kCancelled", "kUnsupported"}
    BY <1>2, <1>5 DEF Justifies
  <1> QED BY <1>3, <1>4, <1>5

LEMMA RefusalInit == Init => RefusalInv
  BY DEF Init, RefusalInv

LEMMA RefusalStep ==
    TypeOK /\ RequestPathInv /\ RecordsInv /\ RefusalInv /\ [Next]_vars
        => RefusalInv'
  <1> SUFFICES ASSUME TypeOK, RequestPathInv, RecordsInv, RefusalInv, [Next]_vars
               PROVE  RefusalInv'
    OBVIOUS
  <1> USE DEF rxVars, dispVars, workerVars, txVars
  <1>0. dispPc # "receive" =>
           /\ dispRequest \in Request /\ DispSlot \in Slots
           /\ dispRequest.request_id \in DOMAIN received
           /\ received[dispRequest.request_id] = dispRequest
           /\ dispRequest.priority \in Priority
           /\ IsValidRequest(dispRequest.type, dispRequest.pin_type)
    BY SlotOfRequest
       DEF TypeOK, DispatcherTypeOK, DispSlot, RecordsInv, AsReceived
  <1>1. CASE UNCHANGED dispVars
    <2>1. dispPc = "error" =>
             Justifies(dispError, dispRequest.request_id)'
      <3> SUFFICES ASSUME dispPc = "error"
                   PROVE  Justifies(dispError, dispRequest.request_id)'
        OBVIOUS
      <3>1. PICK e \in ErrorCode, id \in DOMAIN received :
               e = dispError /\ id = dispRequest.request_id
        BY <1>0 DEF TypeOK, DispatcherTypeOK
      <3>2. Justifies(e, id)'
        BY <3>1, JustifiesStays DEF RefusalInv
      <3> QED BY <1>1, <3>1, <3>2 DEF Justifies
    <2> QED BY <1>1, <2>1 DEF RefusalInv, DispSlot
  <1>2. CASE Dispatcher
    <2>0. UNCHANGED received
      BY <1>2 DEF Dispatcher, DispatcherReceives, DispatchRejects,
         CreatesSession, CreateSessionFails, RoutesRequest, ClearsOne,
         ClearsNothing, SendsCancelled, EnqueuesPinRequest, SendsError
    <2>1. CASE DispatcherReceives \/ SendsError \/ ClearsNothing
      BY <2>1 DEF DispatcherReceives, SendsError, DispatchDone, ClearsNothing,
         RefusalInv
    <2>2. CASE DispatchRejects
      <3>1. dispPc' = "error" /\ dispError' = "kBadPin" /\ UNCHANGED dispRequest
            /\ ~IsValidPinNumber(dispRequest.pin_type, dispRequest.pin_number)
        BY <1>0, <2>2 DEF DispatchRejects, RaiseError, Rejection
      <3>2. dispPc # "receive"
        BY <2>2 DEF DispatchRejects
      <3> QED BY <1>0, <2>0, <3>1, <3>2 DEF RefusalInv, Justifies
    <2>3. CASE CreatesSession
      BY <2>0, <2>3 DEF CreatesSession, MustCreate, RefusalInv
    <2>4. CASE CreateSessionFails
      BY <2>0, <2>4 DEF CreateSessionFails, RaiseError, RefusalInv, Justifies
    <2>5. CASE RoutesRequest
      <3>1. dispPc # "receive" /\ UNCHANGED <<session, dispRequest>>
        BY <2>5 DEF RoutesRequest
      <3> QED
        BY <1>0, <2>0, <2>5, <3>1
           DEF RoutesRequest, RaiseError, RefusalInv, Justifies, DispSlot
    <2>6. CASE ClearsOne
      <3>1. /\ dispPc = "clear" /\ dispPc' = "cancel" /\ UNCHANGED dispRequest
            /\ DispSlot \in Slots
            /\ pinQueue[DispSlot] \in Seq(Request) /\ pinQueue[DispSlot] # <<>>
            /\ dispDiscarded' = Head(pinQueue[DispSlot])
        BY <1>0, <2>6 DEF ClearsOne, TypeOK, QueuesTypeOK
      <3>2. 1 \in DOMAIN pinQueue[DispSlot]
            /\ dispDiscarded' = pinQueue[DispSlot][1]
        BY <3>1, TailMembers
      <3>3. /\ SlotOf(dispDiscarded') = DispSlot
            /\ dispDiscarded'.request_id < dispRequest.request_id
        BY <3>1, <3>2 DEF RequestPathInv, RoutingInv, RoutedToOwnSession,
           RequestsAt, OrderInv, OrderAt, Older
      <3> QED BY <3>1, <3>3 DEF RefusalInv, DispSlot
    <2>7. CASE SendsCancelled
      BY <2>7 DEF SendsCancelled, RefusalInv
    <2>8. CASE EnqueuesPinRequest
      <3>1. CASE Len(pinQueue[DispSlot]) < PinQueueDepth
        BY <2>8, <3>1 DEF EnqueuesPinRequest, DispatchDone, RefusalInv
      <3>2. CASE ~(Len(pinQueue[DispSlot]) < PinQueueDepth)
        <4>1. /\ dispPc = "enqueue" /\ dispPc' = "error"
              /\ dispError' = "kQueueFull" /\ UNCHANGED dispRequest
          BY <2>8, <3>2 DEF EnqueuesPinRequest, RaiseError
        <4>2. pinQueue[DispSlot] # <<>>
          BY <3>2, EmptySeq, CapacityAssumption
        <4>3. dispRequest.priority = "kLow"
          BY <1>0, <4>1, <4>2 DEF RequestPathInv, PriorityInv, Priority
        <4> QED BY <1>0, <2>0, <4>1, <4>3 DEF RefusalInv, Justifies
      <3> QED BY <3>1, <3>2
    <2> QED BY <1>2, <2>1, <2>2, <2>3, <2>4, <2>5, <2>6, <2>7, <2>8
            DEF Dispatcher
  <1> QED
    BY <1>1, <1>2 DEF Next, RxQueues, RxDrops, RxArrives, Worker, WorkerInits,
       WorkerReceives, WorkerHandles, WorkerResponds, Tx, TxReceives, TxWrites,
       vars

---------------------------------------------------------------------------
(* Answers.                                                                *)

EmittedIds == {answer.request_id : answer \in Emitted}

\* What leaves a sender joins the answers; the TX task only moves them.
LEMMA EmittedNext ==
    ASSUME TypeOK, [Next]_vars
    PROVE  /\ \A answer \in Response :
                 SendResponse(answer) /\ UNCHANGED txVars =>
                    Emitted' = Emitted \cup {answer}
           /\ UNCHANGED <<responseQueue, txVars>> => Emitted' = Emitted
           /\ Tx => Emitted' = Emitted
  <1> USE DEF txVars
  <1>1. ASSUME NEW answer \in Response, SendResponse(answer), UNCHANGED txVars
        PROVE  Emitted' = Emitted \cup {answer}
    <2>1. /\ responseQueue \in Seq(Response)
          /\ responseQueue' = Append(responseQueue, answer)
      BY <1>1 DEF SendResponse, TypeOK, QueuesTypeOK
    <2>2. {responseQueue'[i] : i \in DOMAIN responseQueue'}
             = {responseQueue[i] : i \in DOMAIN responseQueue} \cup {answer}
      BY <2>1, AppendMembers
    <2> QED BY <1>1, <2>2 DEF Emitted
  <1>2. UNCHANGED <<responseQueue, txVars>> => Emitted' = Emitted
    BY DEF Emitted
  <1>3. CASE TxReceives
    <2>1. /\ responseQueue \in Seq(Response) /\ responseQueue # <<>>
          /\ responseQueue' = Tail(responseQueue)
          /\ txResponse' = Head(responseQueue)
          /\ txPc = "receive" /\ txPc' = "write" /\ UNCHANGED serialOut
      BY <1>3 DEF TxReceives, TypeOK, QueuesTypeOK
    <2>2. {responseQueue[i] : i \in DOMAIN responseQueue}
             = {responseQueue'[i] : i \in DOMAIN responseQueue'} \cup {txResponse'}
      BY <2>1, TailMembers
    <2> QED BY <2>1, <2>2 DEF Emitted
  <1>4. CASE TxWrites
    <2>1. /\ serialOut \in Seq(Response) /\ txResponse \in Response
          /\ serialOut' = Append(serialOut, txResponse)
          /\ txPc = "write" /\ txPc' = "receive" /\ UNCHANGED responseQueue
      BY <1>4 DEF TxWrites, TypeOK, SerialTypeOK
    <2>2. {serialOut'[i] : i \in DOMAIN serialOut'}
             = {serialOut[i] : i \in DOMAIN serialOut} \cup {txResponse}
      BY <2>1, AppendMembers
    <2> QED BY <2>1, <2>2 DEF Emitted
  <1> QED BY <1>1, <1>2, <1>3, <1>4 DEF Tx

\* A request whose answer has been given is with no task that could still act
\* on it, and it has been received.
LEMMA EmittedIsNotHeld ==
    ASSUME TypeOK, OneHolder
    PROVE  /\ EmittedIds \subseteq DOMAIN received
           /\ \A id \in EmittedIds :
                 /\ dispPc # "receive" => id # dispRequest.request_id
                 /\ dispPc = "cancel" => id # dispDiscarded.request_id
                 /\ \A s \in Slots :
                       Holds(s) => id # workerRequest[s].request_id
  <1>1. Custody(Held, Len(received))
    BY OneHolderIsCustody
  <1>2. DOMAIN received = 1 .. Len(received)
    BY LenProperties DEF TypeOK, SerialTypeOK
  <1> SUFFICES ASSUME NEW id \in EmittedIds
               PROVE  /\ id \in 1 .. Len(received)
                      /\ dispPc # "receive" => id # dispRequest.request_id
                      /\ dispPc = "cancel" => id # dispDiscarded.request_id
                      /\ \A s \in Slots :
                            Holds(s) => id # workerRequest[s].request_id
    BY <1>2
  <1>3. id \in Held[<<"responseQueue">>] \/ id \in Held[<<"tx">>]
           \/ id \in Held[<<"serialOut">>]
    BY HeldPlaces DEF EmittedIds, Emitted, IdsIn
  <1>4. PICK p \in {<<"responseQueue">>, <<"tx">>, <<"serialOut">>} : id \in Held[p]
    BY <1>3
  <1>5. /\ p \in Places /\ p # <<"dispatcher">> /\ p # <<"discarded">>
        /\ \A s \in Slots : p # <<"worker", s>>
    BY <1>4, PlaceCases, PlacesDiffer DEF FixedPlaces
  <1>6. \A q \in Places : q # p => id \notin Held[q]
    BY <1>1, <1>4, <1>5 DEF Custody
  <1>7. /\ id \notin Held[<<"dispatcher">>] /\ id \notin Held[<<"discarded">>]
        /\ \A s \in Slots : id \notin Held[<<"worker", s>>]
    BY <1>5, <1>6, PlaceCases
  <1>8. id \in 1 .. Len(received)
    BY <1>1, <1>4, <1>5 DEF Custody
  <1> QED BY <1>7, <1>8, HeldPlaces

\* Nor is what the dispatcher refuses held by a worker.
LEMMA RefusedIsNotHandled ==
    ASSUME TypeOK, OneHolder
    PROVE  \A s \in Slots : Holds(s) =>
              /\ dispPc # "receive" =>
                    dispRequest.request_id # workerRequest[s].request_id
              /\ dispPc = "cancel" =>
                    dispDiscarded.request_id # workerRequest[s].request_id
              /\ \A t \in Slots : t # s /\ Holds(t) =>
                    workerRequest[t].request_id # workerRequest[s].request_id
  <1>1. Custody(Held, Len(received))
    BY OneHolderIsCustody
  <1>2. ASSUME NEW s \in Slots, Holds(s)
        PROVE  /\ dispPc # "receive" =>
                     dispRequest.request_id # workerRequest[s].request_id
               /\ dispPc = "cancel" =>
                     dispDiscarded.request_id # workerRequest[s].request_id
               /\ \A t \in Slots : t # s /\ Holds(t) =>
                     workerRequest[t].request_id # workerRequest[s].request_id
    <2>1. /\ Held[<<"dispatcher">>] \cap Held[<<"worker", s>>] = {}
          /\ Held[<<"discarded">>] \cap Held[<<"worker", s>>] = {}
          /\ \A t \in Slots \ {s} :
                Held[<<"worker", t>>] \cap Held[<<"worker", s>>] = {}
      BY <1>1, PlaceCases, PlacesDiffer DEF Custody, FixedPlaces
    <2> QED BY <1>2, <2>1, HeldPlaces
  <1> QED BY <1>2

\* So whatever waits to be refused, or to be carried out, has not been.
LEMMA WaitingIsNotExecuted ==
    ASSUME TypeOK, OneHolder, ExecutedInv
    PROVE  /\ dispPc # "receive" => dispRequest.request_id \notin executed
           /\ dispPc = "cancel" => dispDiscarded.request_id \notin executed
           /\ \A s \in Slots :
                 workerPc[s] = "handle" => workerRequest[s].request_id \notin executed
  <1>1. \A id \in executed :
           \/ \E s \in Slots : /\ workerPc[s] = "respond" /\ Holds(s)
                               /\ workerRequest[s].request_id = id
           \/ id \in EmittedIds
    BY DEF ExecutedInv, EmittedIds, Holds
  <1>2. dispPc # "receive" => dispRequest.request_id \notin executed
    BY <1>1, EmittedIsNotHeld, RefusedIsNotHandled
  <1>3. dispPc = "cancel" => dispDiscarded.request_id \notin executed
    BY <1>1, EmittedIsNotHeld, RefusedIsNotHandled
  <1>4. ASSUME NEW s \in Slots, workerPc[s] = "handle"
        PROVE  workerRequest[s].request_id \notin executed
    <2>1. Holds(s)
      BY <1>4 DEF Holds
    <2>2. \A t \in Slots : workerPc[t] = "respond" /\ Holds(t) =>
             workerRequest[t].request_id # workerRequest[s].request_id
      BY <1>4, <2>1, RefusedIsNotHandled
    <2>3. workerRequest[s].request_id \notin EmittedIds
      BY <2>1, EmittedIsNotHeld
    <2> QED BY <1>1, <2>2, <2>3
  <1> QED BY <1>2, <1>3, <1>4

\* How a step changes the answers given and the requests carried out.
LEMMA AnswerSteps ==
    ASSUME TypeOK, [Next]_vars
    PROVE  \/ /\ Emitted' = Emitted /\ UNCHANGED executed
              /\ ~(\E s \in Slots : WorkerHandles(s) \/ WorkerResponds(s))
           \/ /\ SendsCancelled /\ dispDiscarded \in Request
              /\ Emitted' = Emitted \cup
                    {ErrorResponse(dispDiscarded.request_id, "kCancelled")}
           \/ /\ SendsError /\ dispRequest \in Request
              /\ Emitted' = Emitted \cup
                    {ErrorResponse(dispRequest.request_id, dispError)}
           \/ \E s \in Slots : WorkerHandles(s) /\ Emitted' = Emitted
           \/ \E s \in Slots :
                 /\ WorkerResponds(s) /\ Holds(s)
                 /\ Emitted' = Emitted \cup
                       {OkResponse(workerRequest[s].request_id, workerValue[s])}
  <1> USE DEF rxVars, dispVars, workerVars
  <1>1. CASE SendsCancelled
    <2>1. dispDiscarded \in Request
      BY <1>1 DEF SendsCancelled, TypeOK, DispatcherTypeOK
    <2>2. ErrorResponse(dispDiscarded.request_id, "kCancelled") \in Response
      BY <2>1, SlotOfRequest, AnswersAreResponses, SomeValues DEF ErrorCode
    <2> QED BY <1>1, <2>1, <2>2, EmittedNext DEF SendsCancelled
  <1>2. CASE SendsError
    <2>1. dispRequest \in Request /\ dispError \in ErrorCode
      BY <1>2 DEF SendsError, TypeOK, DispatcherTypeOK
    <2>2. ErrorResponse(dispRequest.request_id, dispError) \in Response
      BY <2>1, SlotOfRequest, AnswersAreResponses, SomeValues
    <2> QED BY <1>2, <2>1, <2>2, EmittedNext DEF SendsError
  <1>3. ASSUME NEW s \in Slots, WorkerHandles(s)
        PROVE  Emitted' = Emitted
    BY <1>3, EmittedNext DEF WorkerHandles
  <1>4. ASSUME NEW s \in Slots, WorkerResponds(s)
        PROVE  /\ Holds(s)
               /\ Emitted' = Emitted \cup
                     {OkResponse(workerRequest[s].request_id, workerValue[s])}
    <2>1. /\ Holds(s) /\ workerRequest[s] \in Request
          /\ workerValue[s] \in UInt16
      BY <1>4 DEF WorkerResponds, TypeOK, WorkersTypeOK, Holds
    <2>2. OkResponse(workerRequest[s].request_id, workerValue[s]) \in Response
      BY <2>1, SlotOfRequest, AnswersAreResponses DEF ErrorCode
    <2> QED BY <1>4, <2>1, <2>2, EmittedNext DEF WorkerResponds
  <1>5. CASE ~SendsCancelled /\ ~SendsError
               /\ ~(\E s \in Slots : WorkerHandles(s) \/ WorkerResponds(s))
    <2>1. UNCHANGED executed /\ (Tx \/ UNCHANGED <<responseQueue, txVars>>)
      BY <1>5 DEF Next, RxQueues, RxDrops, RxArrives, Dispatcher,
         DispatcherReceives, DispatchRejects, CreatesSession,
         CreateSessionFails, RoutesRequest, ClearsOne, ClearsNothing,
         EnqueuesPinRequest, Worker, WorkerInits, WorkerReceives, Tx,
         TxReceives, TxWrites, vars, txVars
    <2> QED BY <1>5, <2>1, EmittedNext
  <1> QED BY <1>1, <1>2, <1>3, <1>4, <1>5

LEMMA ExecutedInit == Init => ExecutedInv
  BY DEF Init, ExecutedInv

LEMMA ExecutedStep ==
    TypeOK /\ RoutingInv /\ ExecutedInv /\ [Next]_vars => ExecutedInv'
  <1> SUFFICES ASSUME TypeOK, RoutingInv, ExecutedInv, [Next]_vars
               PROVE  ExecutedInv'
    OBVIOUS
  <1> USE DEF rxVars, dispVars, workerVars, txVars
  <1>0. Emitted \subseteq Emitted'
    BY AnswerSteps
  <1>1. ASSUME NEW s \in Slots, WorkerHandles(s)
        PROVE  ExecutedInv'
    <2>1. /\ executed' = executed \cup {workerRequest[s].request_id}
          /\ workerPc' = [workerPc EXCEPT ![s] = "respond"]
          /\ workerPc[s] = "handle" /\ UNCHANGED workerRequest
      BY <1>1 DEF WorkerHandles
    <2>2. /\ workerPc'[s] = "respond"
          /\ \A t \in Slots \ {s} : workerPc'[t] = workerPc[t]
      BY <2>1 DEF TypeOK, WorkersTypeOK
    <2> QED BY <1>0, <2>1, <2>2 DEF ExecutedInv
  <1>2. ASSUME NEW s \in Slots, WorkerResponds(s),
               Emitted' = Emitted \cup
                  {OkResponse(workerRequest[s].request_id, workerValue[s])}
        PROVE  ExecutedInv'
    <2>1. /\ workerPc[s] = "respond" /\ workerPc'[s] = "receive"
          /\ \A t \in Slots \ {s} : /\ workerPc'[t] = workerPc[t]
                                    /\ workerRequest'[t] = workerRequest[t]
          /\ UNCHANGED executed
      BY <1>2 DEF WorkerResponds, TypeOK, WorkersTypeOK
    <2>2. \E answer \in Emitted' : answer.request_id = workerRequest[s].request_id
      <3>1. OkResponse(workerRequest[s].request_id, workerValue[s]).request_id
               = workerRequest[s].request_id
        BY DEF OkResponse
      <3>2. OkResponse(workerRequest[s].request_id, workerValue[s]) \in Emitted'
        BY <1>2
      <3> QED BY <3>1, <3>2
    <2> QED BY <1>0, <2>1, <2>2 DEF ExecutedInv
  <1>3. CASE /\ UNCHANGED executed
             /\ ~(\E s \in Slots : WorkerHandles(s) \/ WorkerResponds(s))
    <2>1. \A s \in Slots :
             /\ workerPc'[s] = "respond" <=> workerPc[s] = "respond"
             /\ workerPc[s] = "respond" => workerRequest'[s] = workerRequest[s]
      <3>1. CASE Dispatcher
        <4>1. /\ UNCHANGED workerRequest
              /\ \/ UNCHANGED workerPc
                 \/ CreatesSession
          BY <3>1 DEF Dispatcher, DispatcherReceives, DispatchRejects,
             CreatesSession, CreateSessionFails, RoutesRequest, ClearsOne,
             ClearsNothing, SendsCancelled, EnqueuesPinRequest, SendsError
        <4>2. CASE CreatesSession
          <5>1. /\ DispSlot \in Slots /\ session[DispSlot] = NoSession
                /\ workerPc' = [workerPc EXCEPT ![DispSlot] = "ready"]
            BY <4>2, SlotOfRequest
               DEF CreatesSession, MustCreate, TypeOK, DispatcherTypeOK, DispSlot
          <5>2. workerPc[DispSlot] # "respond"
            BY <5>1, NoSessionSupportsNothing
               DEF RoutingInv, RoutedToOwnSession, RequestsAt, Holds
          <5>3. \A s \in Slots :
                   workerPc'[s] = "respond" <=> workerPc[s] = "respond"
            BY <5>1, <5>2 DEF TypeOK, WorkersTypeOK
          <5> QED BY <4>1, <5>3
        <4> QED BY <4>1, <4>2
      <3>2. ASSUME NEW t \in Slots, WorkerInits(t) \/ WorkerReceives(t)
            PROVE  \A s \in Slots :
                      /\ workerPc'[s] = "respond" <=> workerPc[s] = "respond"
                      /\ workerPc[s] = "respond" =>
                            workerRequest'[s] = workerRequest[s]
        BY <3>2 DEF WorkerInits, WorkerReceives, TypeOK, WorkersTypeOK
      <3> QED
        BY <1>3, <3>1, <3>2 DEF Next, RxQueues, RxDrops, RxArrives, Worker, Tx,
           TxReceives, TxWrites, vars
    <2> QED BY <1>0, <1>3, <2>1 DEF ExecutedInv
  <1>4. CASE SendsCancelled \/ SendsError
    BY <1>0, <1>4 DEF SendsCancelled, SendsError, ExecutedInv
  <1> QED BY <1>1, <1>2, <1>3, <1>4, AnswerSteps

Justified(answer) ==
    IF answer.type = "kResponse"
    THEN answer.request_id \in executed
    ELSE /\ answer.request_id \notin executed
         /\ Justifies(answer.error, answer.request_id)

LEMMA JustifiedInit == Init => AnswersJustified
  <1> SUFFICES ASSUME Init PROVE Emitted = {}
    BY DEF AnswersJustified
  <1> QED BY DEF Init, Emitted

LEMMA JustifiedStep ==
    ASSUME TypeOK, OneHolder, RecordsInv, RefusalInv, ExecutedInv,
           AnswersJustified, [Next]_vars
    PROVE  AnswersJustified'
  <1> USE DEF rxVars, dispVars, workerVars, txVars
  <1>0. \A answer \in Emitted : Justified(answer)
    BY DEF AnswersJustified, Justified
  <1>1. ASSUME NEW answer \in Emitted,
               \/ executed' = executed
               \/ \E s \in Slots : /\ Holds(s)
                     /\ executed' = executed \cup {workerRequest[s].request_id}
        PROVE  Justified(answer)'
    <2>1. /\ answer.request_id \in EmittedIds
          /\ answer.request_id \in DOMAIN received
          /\ \A s \in Slots :
                Holds(s) => answer.request_id # workerRequest[s].request_id
      BY EmittedIsNotHeld DEF EmittedIds
    <2>2. answer.request_id \in executed' <=> answer.request_id \in executed
      BY <1>1, <2>1
    <2>3. Justifies(answer.error, answer.request_id) =>
             Justifies(answer.error, answer.request_id)'
      BY <2>1, JustifiesStays
    <2> QED BY <1>0, <2>2, <2>3 DEF Justified
  <1>2. ASSUME Emitted' = Emitted,
               \/ executed' = executed
               \/ \E s \in Slots : /\ Holds(s)
                     /\ executed' = executed \cup {workerRequest[s].request_id}
        PROVE  AnswersJustified'
    BY <1>1, <1>2 DEF AnswersJustified, Justified
  <1>3. ASSUME NEW id \in DOMAIN received, NEW e \in ErrorCode,
               id \notin executed, Justifies(e, id), UNCHANGED executed,
               Emitted' = Emitted \cup {ErrorResponse(id, e)}
        PROVE  AnswersJustified'
    <2>1. Justifies(e, id)'
      BY <1>3, JustifiesStays
    <2>2. PICK answer : answer = ErrorResponse(id, e)
      OBVIOUS
    <2>3. /\ answer.type = "kError" /\ answer.request_id = id
          /\ answer.error = e
      BY <2>2 DEF ErrorResponse
    <2>4. Justified(answer)'
      BY <1>3, <2>1, <2>3 DEF Justified
    <2>5. \A other \in Emitted : Justified(other)'
      BY <1>1, <1>3
    <2> QED BY <1>3, <2>2, <2>4, <2>5 DEF AnswersJustified, Justified
  <1>4. CASE SendsCancelled /\ dispDiscarded \in Request
               /\ Emitted' = Emitted \cup
                     {ErrorResponse(dispDiscarded.request_id, "kCancelled")}
    <2>1. /\ dispPc = "cancel" /\ UNCHANGED executed
          /\ AsReceived(dispDiscarded) /\ AsReceived(dispRequest)
          /\ SlotOf(dispDiscarded) = DispSlot
          /\ dispDiscarded.request_id < dispRequest.request_id
          /\ dispRequest.priority = "kHigh"
      BY <1>4 DEF SendsCancelled, RecordsInv, RefusalInv
    <2>2. PICK id \in DOMAIN received : id = dispDiscarded.request_id
      BY <2>1 DEF AsReceived
    <2>3. Justifies("kCancelled", id)
      <3>1. PICK later \in DOMAIN received : later = dispRequest.request_id
        BY <2>1 DEF AsReceived
      <3>2. later \in id + 1 .. Len(received)
        BY <2>1, <2>2, <3>1, LenProperties DEF TypeOK, SerialTypeOK
      <3>3. received[later] = dispRequest /\ received[id] = dispDiscarded
        BY <2>1, <2>2, <3>1 DEF AsReceived
      <3> QED BY <2>1, <3>2, <3>3 DEF Justifies, DispSlot
    <2>4. id \notin executed /\ "kCancelled" \in ErrorCode
      BY <2>1, <2>2, WaitingIsNotExecuted DEF ErrorCode
    <2> QED BY <1>3, <1>4, <2>1, <2>2, <2>3, <2>4
  <1>5. CASE SendsError /\ dispRequest \in Request
               /\ Emitted' = Emitted \cup
                     {ErrorResponse(dispRequest.request_id, dispError)}
    <2>1. /\ dispPc = "error" /\ UNCHANGED executed
          /\ AsReceived(dispRequest) /\ dispError \in ErrorCode
          /\ Justifies(dispError, dispRequest.request_id)
      BY <1>5 DEF SendsError, RecordsInv, RefusalInv, TypeOK, DispatcherTypeOK
    <2>2. PICK id \in DOMAIN received, e \in ErrorCode :
             id = dispRequest.request_id /\ e = dispError
      BY <2>1 DEF AsReceived
    <2>3. id \notin executed
      BY <2>1, <2>2, WaitingIsNotExecuted
    <2> QED BY <1>3, <1>5, <2>1, <2>2, <2>3
  <1>6. ASSUME NEW s \in Slots, WorkerHandles(s), Emitted' = Emitted
        PROVE  AnswersJustified'
    BY <1>2, <1>6 DEF WorkerHandles, Holds
  <1>7. ASSUME NEW s \in Slots, WorkerResponds(s),
               Emitted' = Emitted \cup
                  {OkResponse(workerRequest[s].request_id, workerValue[s])}
        PROVE  AnswersJustified'
    <2>1. PICK answer :
             answer = OkResponse(workerRequest[s].request_id, workerValue[s])
      OBVIOUS
    <2>2. /\ answer.type = "kResponse"
          /\ answer.request_id = workerRequest[s].request_id
      BY <2>1 DEF OkResponse
    <2>3. UNCHANGED executed /\ workerRequest[s].request_id \in executed
      BY <1>7 DEF WorkerResponds, ExecutedInv
    <2>4. Justified(answer)'
      BY <2>2, <2>3 DEF Justified
    <2>5. \A other \in Emitted : Justified(other)'
      BY <1>1, <2>3
    <2> QED BY <1>7, <2>1, <2>4, <2>5 DEF AnswersJustified, Justified
  <1> QED BY <1>2, <1>4, <1>5, <1>6, <1>7, AnswerSteps

\* For every workload and every queue length, a success answers a request that
\* was carried out, and a refusal one that was not and never will be, for a
\* reason that holds: a cancelled request has a later urgent one of its pin, an
\* urgent one is never refused for a full queue, kBadFunction is never sent.
THEOREM AnswersAreJustified == Spec => []AnswersJustified
  <1>1. TypeOK /\ OneHolder /\ RecordsInv /\ RefusalInv /\ ExecutedInv
           /\ AnswersJustified /\ [Next]_vars => AnswersJustified'
    BY JustifiedStep
  <1>2. RequestPathInv => RoutingInv
    BY DEF RequestPathInv
  <1> QED
    BY <1>1, <1>2, TypeCorrect, RequestPath, OneHolderAlways, RecordsInit,
       RecordsStep, RefusalInit, RefusalStep, ExecutedInit, ExecutedStep,
       JustifiedInit, PTL DEF Spec

---------------------------------------------------------------------------
(* What the answer to a write says.                                        *)

LEMMA ReportInit == Init => ReportInv
  BY DEF Init, ReportInv

LEMMA ReportStep ==
    TypeOK /\ RoutingInv /\ ReportInv /\ [Next]_vars => ReportInv'
  <1> SUFFICES ASSUME TypeOK, RoutingInv, ReportInv, [Next]_vars
               PROVE  ReportInv'
    OBVIOUS
  <1> USE DEF rxVars, dispVars, workerVars, txVars
  <1>1. CASE UNCHANGED <<session, workerVars>>
    BY <1>1 DEF ReportInv
  <1>2. CASE CreatesSession
    <2>1. /\ DispSlot \in Slots /\ session[DispSlot] = NoSession
          /\ session' = [session EXCEPT ![DispSlot] = FactoryConfig(dispRequest)]
          /\ FactoryConfig(dispRequest) \in Config
          /\ workerPc' = [workerPc EXCEPT ![DispSlot] = "ready"]
          /\ UNCHANGED <<workerRequest, workerValue, level, executed, lastExecuted>>
      BY <1>2, SlotOfRequest
         DEF CreatesSession, MustCreate, TypeOK, DispatcherTypeOK, DispSlot
    <2>2. /\ workerPc[DispSlot] = "none" /\ lastExecuted[DispSlot] = 0
          /\ workerPc'[DispSlot] = "ready"
          /\ session'[DispSlot] = FactoryConfig(dispRequest)
      BY <2>1 DEF ReportInv, TypeOK, WorkersTypeOK
    <2>3. session'[DispSlot] # NoSession
      BY <2>1, <2>2 DEF Config, NoSession, PinType
    <2>4. \A t \in Slots \ {DispSlot} : /\ workerPc'[t] = workerPc[t]
                                        /\ session'[t] = session[t]
      BY <2>1 DEF TypeOK, WorkersTypeOK
    <2> QED BY <2>1, <2>2, <2>3, <2>4 DEF ReportInv
  <1>3. ASSUME NEW s \in Slots, Worker(s)
        PROVE  ReportInv'
    <2>1. /\ UNCHANGED session
          /\ \A t \in Slots \ {s} :
                /\ workerPc'[t] = workerPc[t] /\ workerRequest'[t] = workerRequest[t]
                /\ workerValue'[t] = workerValue[t] /\ level'[t] = level[t]
                /\ lastExecuted'[t] = lastExecuted[t]
      BY <1>3 DEF Worker, WorkerInits, WorkerReceives, WorkerHandles,
         WorkerResponds, TypeOK, WorkersTypeOK
    <2>2. /\ workerPc[s] # "none"
          /\ workerPc'[s] \in {"receive", "handle", "respond"}
      BY <1>3 DEF Worker, WorkerInits, WorkerReceives, WorkerHandles,
         WorkerResponds, TypeOK, WorkersTypeOK
    <2>3. workerPc'[s] = "respond" /\ workerRequest'[s].type = "kWrite" =>
             /\ workerValue'[s] = AppliedValue(workerRequest'[s].pin_type,
                                               workerRequest'[s].value)
             /\ lastExecuted'[s] = workerRequest'[s].request_id
             /\ level'[s] = workerValue'[s]
      <3> SUFFICES ASSUME workerPc'[s] = "respond",
                          workerRequest'[s].type = "kWrite"
                   PROVE  /\ workerValue'[s] =
                                AppliedValue(workerRequest'[s].pin_type,
                                             workerRequest'[s].value)
                          /\ lastExecuted'[s] = workerRequest'[s].request_id
                          /\ level'[s] = workerValue'[s]
        OBVIOUS
      <3>1. /\ WorkerHandles(s) /\ UNCHANGED workerRequest
            /\ workerPc[s] = "handle" /\ workerRequest[s].type = "kWrite"
        BY <1>3 DEF Worker, WorkerInits, WorkerReceives, WorkerHandles,
           WorkerResponds, TypeOK, WorkersTypeOK
      <3>2. SupportsRequest(session[s], workerRequest[s])
        BY <3>1 DEF RoutingInv, RoutedToOwnSession, RequestsAt, Holds
      <3>3. /\ session[s].pinType = workerRequest[s].pin_type
            /\ session[s].pinMode # "kInput"
        <4>1. session[s] \in Config \cup {NoSession}
          BY DEF TypeOK, WorkersTypeOK
        <4>2. session[s] # EmptyConfig
          BY <4>1 DEF Config, PinType, PinMode, NoSession, EmptyConfig
        <4>3. session[s] = [pinType |-> workerRequest[s].pin_type,
                            pinMode |-> ModeOf(workerRequest[s].type)]
          BY <3>2, <4>2 DEF SupportsRequest, PinConfigFromRequest
        <4> QED BY <3>1, <4>3 DEF ModeOf
      <3>4. PICK applied : applied = AppliedValue(session[s].pinType,
                                                  workerRequest[s].value)
        OBVIOUS
      <3>5. /\ level' = [level EXCEPT ![s] = applied]
            /\ workerValue' = [workerValue EXCEPT ![s] = applied]
            /\ lastExecuted' = [lastExecuted EXCEPT
                                  ![s] = workerRequest[s].request_id]
        BY <3>1, <3>3, <3>4 DEF WorkerHandles
      <3>6. /\ level'[s] = applied /\ workerValue'[s] = applied
            /\ lastExecuted'[s] = workerRequest[s].request_id
        BY <3>5 DEF TypeOK, WorkersTypeOK
      <3> QED BY <3>1, <3>3, <3>4, <3>6
    <2>4. session[s] # NoSession
      BY <2>2 DEF ReportInv
    <2> QED BY <2>1, <2>2, <2>3, <2>4 DEF ReportInv
  <1> QED
    BY <1>1, <1>2, <1>3 DEF Next, RxQueues, RxDrops, RxArrives, Dispatcher,
       DispatcherReceives, DispatchRejects, CreateSessionFails, RoutesRequest,
       ClearsOne, ClearsNothing, SendsCancelled, EnqueuesPinRequest,
       SendsError, Tx, TxReceives, TxWrites, vars

\* The part of WritesReportAppliedValue that is about one answer, given the
\* request it answers.
Reports(answer, request) ==
    answer.type = "kResponse" /\ request.type = "kWrite" =>
        /\ answer.value = AppliedValue(request.pin_type, request.value)
        /\ lastExecuted[SlotOf(request)] = answer.request_id =>
              level[SlotOf(request)] = answer.value

LEMMA WritesInit == Init => WritesReportAppliedValue
  <1> SUFFICES ASSUME Init PROVE Emitted = {}
    BY DEF WritesReportAppliedValue
  <1> QED BY DEF Init, Emitted

LEMMA WritesStep ==
    ASSUME TypeOK, OneHolder, RoutingInv, RecordsInv, ReportInv,
           WritesReportAppliedValue, [Next]_vars
    PROVE  WritesReportAppliedValue'
  <1> USE DEF rxVars, dispVars, workerVars, txVars
  <1>0. \A answer \in Emitted : Reports(answer, received[answer.request_id])
    BY DEF WritesReportAppliedValue, Reports
  <1>1. ASSUME NEW answer \in Emitted
        PROVE  Reports(answer, received[answer.request_id])'
    <2>1. /\ answer.request_id \in EmittedIds
          /\ answer.request_id \in DOMAIN received
          /\ \A s \in Slots :
                Holds(s) => answer.request_id # workerRequest[s].request_id
      BY EmittedIsNotHeld DEF EmittedIds
    <2>2. received'[answer.request_id] = received[answer.request_id]
      BY <2>1, ReceivedGrows
    <2>3. PICK r \in Request : r = received[answer.request_id]
      BY <2>1, ElementOfSeq, LenProperties DEF TypeOK, SerialTypeOK
    <2>4. SlotOf(r) \in Slots /\ answer.request_id # 0
      BY <2>1, SlotOfRequest, LenProperties DEF TypeOK, SerialTypeOK
    <2>5. ASSUME NEW t \in Slots, lastExecuted'[t] = answer.request_id
          PROVE  /\ lastExecuted[t] = answer.request_id
                 /\ level'[t] = level[t]
      <3>1. CASE UNCHANGED <<level, lastExecuted>>
        BY <2>5, <3>1
      <3>2. ASSUME NEW s \in Slots, WorkerInits(s)
            PROVE  /\ lastExecuted[t] = answer.request_id
                   /\ level'[t] = level[t]
        <4>1. /\ workerPc[s] = "ready" /\ UNCHANGED lastExecuted
              /\ level' = level \/ level' = [level EXCEPT ![s] = 0]
          BY <3>2 DEF WorkerInits
        <4>2. lastExecuted[s] = 0
          BY <4>1 DEF ReportInv
        <4>3. t # s
          BY <2>4, <2>5, <4>1, <4>2
        <4> QED BY <2>5, <4>1, <4>3 DEF TypeOK, WorkersTypeOK
      <3>3. ASSUME NEW s \in Slots, WorkerHandles(s)
            PROVE  /\ lastExecuted[t] = answer.request_id
                   /\ level'[t] = level[t]
        <4>1. /\ Holds(s)
              /\ lastExecuted'[s] = workerRequest[s].request_id
              /\ t # s => /\ lastExecuted'[t] = lastExecuted[t]
                          /\ level'[t] = level[t]
          BY <3>3 DEF WorkerHandles, Holds, TypeOK, WorkersTypeOK
        <4> QED BY <2>1, <2>5, <4>1
      <3> QED
        BY <3>1, <3>2, <3>3 DEF Next, RxQueues, RxDrops, RxArrives, Dispatcher,
           DispatcherReceives, DispatchRejects, CreatesSession,
           CreateSessionFails, RoutesRequest, ClearsOne, ClearsNothing,
           SendsCancelled, EnqueuesPinRequest, SendsError, Worker,
           WorkerReceives, WorkerResponds, Tx, TxReceives, TxWrites, vars
    <2>6. Reports(answer, r)
      BY <1>0, <2>3
    <2>7. Reports(answer, r)'
      BY <2>4, <2>5, <2>6 DEF Reports
    <2> QED BY <2>2, <2>3, <2>7 DEF Reports
  <1>2. CASE Emitted' = Emitted
    BY <1>1, <1>2 DEF WritesReportAppliedValue, Reports
  <1>3. ASSUME NEW id, NEW e, Emitted' = Emitted \cup {ErrorResponse(id, e)}
        PROVE  WritesReportAppliedValue'
    <2>1. PICK answer : answer = ErrorResponse(id, e)
      OBVIOUS
    <2>2. answer.type = "kError"
      BY <2>1 DEF ErrorResponse
    <2>3. Reports(answer, received[answer.request_id])'
      BY <2>2 DEF Reports
    <2> QED BY <1>1, <1>3, <2>1, <2>3 DEF WritesReportAppliedValue, Reports
  <1>4. ASSUME NEW s \in Slots, WorkerResponds(s), Holds(s),
               Emitted' = Emitted \cup
                  {OkResponse(workerRequest[s].request_id, workerValue[s])}
        PROVE  WritesReportAppliedValue'
    <2>1. PICK answer :
             answer = OkResponse(workerRequest[s].request_id, workerValue[s])
      OBVIOUS
    <2>2. /\ answer.request_id = workerRequest[s].request_id
          /\ answer.value = workerValue[s]
      BY <2>1 DEF OkResponse
    <2>3. /\ workerPc[s] = "respond" /\ UNCHANGED <<received, level, lastExecuted>>
          /\ SlotOf(workerRequest[s]) = s
          /\ received'[answer.request_id] = workerRequest[s]
      BY <1>4, <2>2 DEF WorkerResponds, RoutingInv, RoutedToOwnSession,
         RequestsAt, RecordsInv, AsReceived
    <2>4. PICK r : r = workerRequest[s]
      OBVIOUS
    <2>5. r.type = "kWrite" =>
             /\ answer.value = AppliedValue(r.pin_type, r.value)
             /\ level[s] = answer.value
      BY <2>2, <2>3, <2>4 DEF ReportInv
    <2>6. Reports(answer, received[answer.request_id])'
      BY <2>3, <2>4, <2>5 DEF Reports
    <2> QED BY <1>1, <1>4, <2>1, <2>6 DEF WritesReportAppliedValue, Reports
  <1> QED BY <1>2, <1>3, <1>4, AnswerSteps

\* For every workload, the answer to a write says what the driver applied, the
\* value asked for or its clamp, and the pin has that level until a later
\* request of the pin is carried out.
THEOREM WritesReport == Spec => []WritesReportAppliedValue
  <1>1. TypeOK /\ OneHolder /\ RoutingInv /\ RecordsInv /\ ReportInv
           /\ WritesReportAppliedValue /\ [Next]_vars => WritesReportAppliedValue'
    BY WritesStep
  <1>2. RequestPathInv => RoutingInv
    BY DEF RequestPathInv
  <1> QED
    BY <1>1, <1>2, TypeCorrect, RequestPath, OneHolderAlways, RecordsInit,
       RecordsStep, ReportInit, ReportStep, WritesInit, PTL DEF Spec
=============================================================================
