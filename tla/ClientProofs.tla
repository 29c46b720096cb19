---------------------------- MODULE ClientProofs ----------------------------
(***************************************************************************)
(* For any number of operations, deaths of the server and size of a burst: *)
(* an operation's callback is called at most once and told the truth, and  *)
(* the latency test measures each request from its own start.              *)
(***************************************************************************)
EXTENDS ClientSafety, FiniteSetTheorems, TLAPS

\* What of the state the library's promise is about.
LibraryType ==
    /\ status \in [Operations -> {"unknown", "accepted", "succeeded", "refused", "abandoned"}]
    /\ applied \subseteq Operations
    /\ reqId \in Nat
    /\ stage \in [Operations -> {"none", "goal", "result", "called"}]
    /\ calls \in [Operations -> Nat]
    /\ outcome \in [Operations -> {"none", "nothing", "success", "failure"}]

\* The contract of the server that a callback told "success" relies on.
SuccessMeansDone == \A r \in Operations : status[r] = "succeeded" => r \in applied

\* An id that was not given out yet has no future and no callback.
FreshIds == \A r \in Operations : r > reqId => stage[r] = "none"

\* What was told stays what was told only after the call.
ToldOnlyWhenCalled ==
    \A r \in Operations : outcome[r] # "none" => stage[r] = "called"

LibraryInv ==
    LibraryType /\ SuccessMeansDone /\ FreshIds /\ ToldOnlyWhenCalled /\ CallbackOnce

---------------------------------------------------------------------------
(* The steps that change what LibraryInv is about.                         *)

\* Every step starts an operation, turns one of its futures, is one of the
\* server's, or leaves the operations alone.
Starts(r) == SendsGoal(r) \/ FailsAtOnce(r) \/ RaisesOnId(r)
Turns(r) ==
    AcceptedGoal(r) \/ FailsGoalResponse(r) \/ FailsResult(r) \/ DeliversResult(r)
Rests == UNCHANGED <<status, applied, reqId, stage, calls, outcome>>

LEMMA StepKinds ==
    ASSUME [Next]_vars
    PROVE  \/ \E r \in Operations : Starts(r) \/ Turns(r) \/ Serves(r) \/ CarriesOut(r)
           \/ Rests
<1>1. CASE \E r \in Operations : Timer(r)
  BY <1>1 DEF Timer, PingTimer, LedTimer, PollTimer, BurstSends, StartsAsync, Starts
<1>2. CASE \E r \in Operations : FutureCompletes(r)
  BY <1>2 DEF FutureCompletes, Turns
<1>3. CASE \E r \in Operations : FutureFails(r)
  BY <1>3 DEF FutureFails, Turns
<1>4. CASE \E r \in Operations : CarriesOutInOrder(r) \/ Serves(r)
  BY <1>4 DEF CarriesOutInOrder
<1>5. CASE BurstStarts \/ BurstSent \/ BurstTimesOut \/ BurstShutsDown
  BY <1>5 DEF BurstStarts, BurstSent, BurstTimesOut, BurstShutsDown, Rests,
              clientVars, serverVars, libraryVars
<1>6. CASE ServerDies \/ ServerStarts
  BY <1>6 DEF ServerDies, ServerStarts, Rests, libraryVars
<1>7. CASE UNCHANGED vars
  BY <1>7 DEF vars, Rests, clientVars, serverVars, libraryVars
<1>8. QED
  BY <1>1, <1>2, <1>3, <1>4, <1>5, <1>6, <1>7 DEF Next

\* Taking an id and sending the goal, or failing at it, keeps the invariant.
LEMMA StartsKeepsInv ==
    ASSUME LibraryInv, NEW r \in Operations, Starts(r)
    PROVE  LibraryInv'
<1>1. /\ r = reqId + 1 /\ reqId' = r /\ r \in Nat /\ stage[r] = "none"
      /\ calls[r] = 0 /\ outcome[r] = "none"
      /\ UNCHANGED <<status, applied>>
  BY ClientAssumption DEF LibraryInv, LibraryType, FreshIds, ToldOnlyWhenCalled,
     CallbackOnce, Starts, SendsGoal, FailsAtOnce, RaisesOnId, TakesId, Operations,
     serverVars
<1>2. \/ /\ stage' = [stage EXCEPT ![r] = "goal"]
         /\ UNCHANGED <<calls, outcome>>
      \/ UNCHANGED <<stage, calls, outcome>>
      \/ CallsBack(r, "nothing")
  BY DEF Starts, SendsGoal, FailsAtOnce, RaisesOnId
<1>3. LibraryType' /\ SuccessMeansDone'
  BY <1>1, <1>2 DEF LibraryInv, LibraryType, SuccessMeansDone, CallsBack
<1>4. FreshIds' /\ ToldOnlyWhenCalled'
  <2>1. \A s \in Operations : s > reqId' => s > reqId /\ s # r
    BY <1>1, ClientAssumption DEF LibraryInv, LibraryType, Operations
  <2>2. FreshIds'
    BY <1>1, <1>2, <2>1 DEF LibraryInv, LibraryType, FreshIds, CallsBack
  <2>3. ToldOnlyWhenCalled'
    BY <1>1, <1>2 DEF LibraryInv, LibraryType, ToldOnlyWhenCalled, CallsBack
  <2>4. QED
    BY <2>2, <2>3
<1>5. CallbackOnce'
  BY <1>1, <1>2 DEF LibraryInv, LibraryType, CallbackOnce, CallsBack
<1>6. QED
  BY <1>3, <1>4, <1>5 DEF LibraryInv

\* What the goal and result futures do when they complete or fail keeps it.
LEMMA TurnsKeepsInv ==
    ASSUME LibraryInv, NEW r \in Operations, Turns(r)
    PROVE  LibraryInv'
<1>1. /\ stage[r] \in {"goal", "result"}
      /\ calls[r] = 0 /\ outcome[r] = "none"
      /\ UNCHANGED <<status, applied, reqId>>
  BY DEF LibraryInv, LibraryType, ToldOnlyWhenCalled, CallbackOnce, Turns, Completes,
     AcceptedGoal, FailsGoalResponse, FailsResult, DeliversResult, serverVars
<1>2. \/ /\ stage' = [stage EXCEPT ![r] = "result"]
         /\ UNCHANGED <<calls, outcome>>
      \/ CallsBack(r, "nothing")
      \/ status[r] = "succeeded" /\ CallsBack(r, "success")
      \/ status[r] \in {"refused", "abandoned"} /\ CallsBack(r, "failure")
  BY DEF Turns, AcceptedGoal, FailsGoalResponse, FailsResult, DeliversResult,
     Server!Ended
<1>3. LibraryType' /\ SuccessMeansDone'
  BY <1>1, <1>2 DEF LibraryInv, LibraryType, SuccessMeansDone, CallsBack
<1>4. FreshIds' /\ ToldOnlyWhenCalled'
  BY <1>1, <1>2 DEF LibraryInv, LibraryType, FreshIds, ToldOnlyWhenCalled, CallsBack
<1>5. CallbackOnce'
  BY <1>1, <1>2 DEF LibraryInv, LibraryType, SuccessMeansDone, CallbackOnce, CallsBack
<1>6. QED
  BY <1>3, <1>4, <1>5 DEF LibraryInv

\* The server's steps only end operations that were carried out or given up.
LEMMA ServerKeepsInv ==
    ASSUME LibraryInv, NEW r \in Operations, Serves(r) \/ CarriesOut(r)
    PROVE  LibraryInv'
<1>1. UNCHANGED <<reqId, stage, calls, outcome>>
  BY DEF Serves, CarriesOut, libraryVars
<1>2. CASE CarriesOut(r)
  <2>1. applied' = applied \cup {r} /\ UNCHANGED status
    BY <1>2 DEF CarriesOut, Server!Apply
  <2>2. QED
    BY <1>1, <2>1 DEF LibraryInv, LibraryType, SuccessMeansDone, FreshIds,
       ToldOnlyWhenCalled, CallbackOnce
<1>3. CASE Serves(r)
  <2>1. \E to \in {"accepted", "succeeded", "refused", "abandoned"} :
           /\ status' = [status EXCEPT ![r] = to]
           /\ to = "succeeded" => r \in applied
    BY <1>3 DEF Serves, Server!Accept, Server!Succeed, Server!Refuse, Server!Abandon,
       Server!Turns
  <2>2. status[r] \in {"unknown", "accepted"} /\ UNCHANGED applied
    BY <1>3 DEF Serves, Server!Accept, Server!Succeed, Server!Refuse, Server!Abandon,
       Server!Turns
  <2>3. LibraryType' /\ SuccessMeansDone' /\ FreshIds' /\ ToldOnlyWhenCalled'
    BY <1>1, <2>1, <2>2 DEF LibraryInv, LibraryType, SuccessMeansDone, FreshIds,
       ToldOnlyWhenCalled
  <2>4. CallbackOnce'
    BY <1>1, <2>1, <2>2 DEF LibraryInv, LibraryType, CallbackOnce
  <2>5. QED
    BY <2>3, <2>4 DEF LibraryInv
<1>4. QED
  BY <1>2, <1>3

\* Nothing has been sent: the invariant holds at the start.
LEMMA LibraryInit == Init => LibraryInv
  BY DEF Init, ClientInit, Server!Init, LibraryInv, LibraryType, SuccessMeansDone,
     FreshIds, ToldOnlyWhenCalled, CallbackOnce

\* Every step of the timers, futures, server and processes keeps it.
LEMMA LibraryStep == LibraryInv /\ [Next]_vars => LibraryInv'
<1> SUFFICES ASSUME LibraryInv, [Next]_vars PROVE LibraryInv'
  OBVIOUS
<1>1. CASE Rests
  BY <1>1 DEF Rests, LibraryInv, LibraryType, SuccessMeansDone, FreshIds,
     ToldOnlyWhenCalled, CallbackOnce
<1>2. CASE \E r \in Operations : Starts(r)
  BY <1>2, StartsKeepsInv
<1>3. CASE \E r \in Operations : Turns(r)
  BY <1>3, TurnsKeepsInv
<1>4. CASE \E r \in Operations : Serves(r) \/ CarriesOut(r)
  BY <1>4, ServerKeepsInv
<1>5. QED
  BY <1>1, <1>2, <1>3, <1>4, StepKinds

\* Whatever the timers, the futures and the server do, and whichever of the
\* library's failure paths is taken, a callback is called at most once.
THEOREM CallbacksOnce == Spec => []CallbackOnce
<1>1. LibraryInv => CallbackOnce
  BY DEF LibraryInv
<1>2. QED
  BY LibraryInit, LibraryStep, <1>1, PTL DEF Spec

---------------------------------------------------------------------------
(* The latency test.                                                       *)

PingInv == LibraryInv /\ PingMeasuresItsRequest

\* Every step keeps the latency test on the request it measures.
LEMMA PingStep == PingInv /\ [Next]_vars => PingInv'
<1> SUFFICES ASSUME PingInv, [Next]_vars PROVE PingMeasuresItsRequest'
  BY LibraryStep DEF PingInv
<1> USE DEF PingInv
<1>1. CASE \E r \in Operations : Timer(r)
  <2>1. PICK r \in Operations : Timer(r)
    BY <1>1
  <2>2. CASE PingTimer(r)
    <3>1. /\ ~inFlight /\ startedBy' = r /\ program = "ping" /\ UNCHANGED program
          /\ SendsGoal(r) \/ RaisesOnId(r) => inFlight'
      BY <2>2 DEF PingTimer, StartsAsync, FailsAtOnce, SendsGoal, RaisesOnId, CallsBack,
         LibraryInv, LibraryType, FreshIds, TakesId
    <3>2. \A s \in Operations : ~Pending(s)
      BY <3>1 DEF PingMeasuresItsRequest
    <3>3. \A s \in Operations : stage'[s] # stage[s] => s = r
      BY <2>2 DEF PingTimer, StartsAsync, FailsAtOnce, SendsGoal, RaisesOnId, CallsBack,
         LibraryInv, LibraryType
    <3>4. stage'[r] = "goal" => inFlight'
      BY <2>2 DEF PingTimer, StartsAsync, FailsAtOnce, CallsBack, LibraryInv, LibraryType
    <3>5. stage'[r] # "result"
      BY <2>2, <3>2 DEF PingTimer, StartsAsync, FailsAtOnce, SendsGoal, RaisesOnId,
         CallsBack, LibraryInv, LibraryType, Pending
    <3>6. QED
      BY <3>1, <3>2, <3>3, <3>4, <3>5 DEF PingMeasuresItsRequest, Pending
  <2>3. CASE LedTimer(r) \/ PollTimer(r) \/ BurstSends(r)
    BY <2>3 DEF LedTimer, PollTimer, BurstSends, PingMeasuresItsRequest
  <2>4. QED
    BY <2>1, <2>2, <2>3 DEF Timer
<1>2. CASE \E r \in Operations : FutureCompletes(r) \/ FutureFails(r)
  <2>1. PICK r \in Operations : FutureCompletes(r) \/ FutureFails(r)
    BY <1>2
  <2>2. CASE AcceptedGoal(r) /\ UNCHANGED <<program, nodeVars>>
    BY <2>2 DEF AcceptedGoal, Completes, PingMeasuresItsRequest, Pending, nodeVars,
       LibraryInv, LibraryType
  <2>3. CASE \E result \in {"nothing", outcome'[r]} :
                /\ NodeCallback(r, result)
                /\ FailsGoalResponse(r) \/ FailsResult(r) \/ DeliversResult(r)
    <3>1. /\ Pending(r) /\ UNCHANGED program
          /\ stage' = [stage EXCEPT ![r] = "called"]
      BY <2>3 DEF NodeCallback, FailsGoalResponse, FailsResult, DeliversResult,
         Completes, Pending, CallsBack
    <3>2. QED
      BY <3>1 DEF PingMeasuresItsRequest, Pending, LibraryInv, LibraryType
  <2>4. QED
    BY <2>1, <2>2, <2>3 DEF FutureCompletes, FutureFails
<1>3. CASE \E r \in Operations :
               CarriesOutInOrder(r) \/ (Serves(r) /\ UNCHANGED <<program, nodeVars>>)
  BY <1>3 DEF CarriesOutInOrder, CarriesOut, Serves, PingMeasuresItsRequest, Pending,
     libraryVars, nodeVars
<1>4. CASE BurstStarts \/ BurstSent \/ BurstTimesOut \/ BurstShutsDown
  BY <1>4 DEF BurstStarts, BurstSent, BurstTimesOut, BurstShutsDown,
     PingMeasuresItsRequest, Pending, clientVars, libraryVars, nodeVars
<1>5. CASE (ServerDies \/ ServerStarts) /\ UNCHANGED <<program, nodeVars>>
  BY <1>5 DEF ServerDies, ServerStarts, PingMeasuresItsRequest, Pending, libraryVars,
     nodeVars
<1>6. CASE UNCHANGED vars
  BY <1>6 DEF vars, PingMeasuresItsRequest, Pending, clientVars, libraryVars, nodeVars
<1>7. QED
  BY <1>1, <1>2, <1>3, <1>4, <1>5, <1>6 DEF Next

\* However timers, answers and failures follow each other, start_time belongs
\* to the one request that is pending.
THEOREM PingsMeasured == Spec => []PingMeasuresItsRequest
<1>1. Init => PingInv
  BY LibraryInit DEF PingInv, PingMeasuresItsRequest, Pending, Init, ClientInit
<1>2. PingInv => PingMeasuresItsRequest
  BY DEF PingInv
<1>3. QED
  BY <1>1, <1>2, PingStep, PTL DEF Spec

---------------------------------------------------------------------------
(* The ids the server knows, and the LED.                                  *)

\* The server has only what was sent.
OnlySentIds ==
    \A r \in Operations :
        status[r] # "unknown" \/ r \in applied \/ r \in orphans => r <= reqId

\* The history names an operation that was carried out, if any was.
LatestIsCarriedOut == (latest = 0 /\ applied = {}) \/ latest \in applied

SentInv ==
    LibraryInv /\ OnlySentIds /\ orphans \subseteq Operations /\ LatestIsCarriedOut

LEMMA SentStep == SentInv /\ [Next]_vars => SentInv'
<1> SUFFICES ASSUME SentInv, [Next]_vars
             PROVE  /\ OnlySentIds' /\ (orphans \subseteq Operations)'
                    /\ LatestIsCarriedOut'
  BY LibraryStep DEF SentInv
<1> USE DEF SentInv
<1>1. LibraryInv'
  BY LibraryStep
<1>2. CASE Rests /\ UNCHANGED <<orphans, latest>>
  BY <1>2 DEF Rests, OnlySentIds, LatestIsCarriedOut
<1>3. CASE \E r \in Operations : Starts(r)
  <2>1. reqId' = reqId + 1 /\ UNCHANGED <<status, applied, orphans, latest>>
    BY <1>3 DEF Starts, SendsGoal, FailsAtOnce, RaisesOnId, TakesId, serverVars
  <2>2. reqId \in Nat /\ Operations \subseteq Nat
    BY ClientAssumption DEF LibraryInv, LibraryType, Operations
  <2>3. QED
    BY <2>1, <2>2 DEF OnlySentIds, LatestIsCarriedOut
<1>4. CASE \E r \in Operations : Turns(r)
  BY <1>4 DEF Turns, AcceptedGoal, FailsGoalResponse, FailsResult, DeliversResult,
     serverVars, OnlySentIds, LatestIsCarriedOut
<1>5. CASE \E r \in Operations : CarriesOut(r)
  <2>1. PICK r \in Operations : CarriesOut(r)
    BY <1>5
  <2>2. /\ status[r] # "unknown" /\ applied' = applied \cup {r}
        /\ UNCHANGED <<status, orphans, reqId>> /\ latest' = r
    BY <2>1 DEF CarriesOut, Server!Apply, libraryVars
  <2>3. QED
    BY <2>2 DEF OnlySentIds, LatestIsCarriedOut
<1>6. CASE \E r \in Operations : Serves(r)
  <2>1. PICK r \in Operations : Serves(r)
    BY <1>6
  <2>2. /\ stage[r] # "none" /\ UNCHANGED <<applied, orphans, reqId, latest>>
        /\ \A s \in Operations : s # r => status'[s] = status[s]
    BY <2>1 DEF Serves, Server!Accept, Server!Succeed, Server!Refuse, Server!Abandon,
       Server!Turns, libraryVars, LibraryInv, LibraryType
  <2>3. r <= reqId
    BY <2>2, ClientAssumption DEF LibraryInv, LibraryType, FreshIds, Operations
  <2>4. QED
    BY <2>2, <2>3 DEF OnlySentIds, LatestIsCarriedOut
<1>7. CASE ServerDies
  <2>1. /\ UNCHANGED <<status, applied, reqId, latest>>
        /\ orphans' = orphans \cup {r \in Operations : stage[r] # "none"}
    BY <1>7 DEF ServerDies, libraryVars
  <2>2. \A r \in Operations : stage[r] # "none" => r <= reqId
    BY ClientAssumption DEF LibraryInv, LibraryType, FreshIds, Operations
  <2>3. QED
    BY <2>1, <2>2 DEF OnlySentIds, LatestIsCarriedOut
<1>8. QED
  <2>1. \/ \E r \in Operations : Starts(r) \/ Turns(r) \/ Serves(r) \/ CarriesOut(r)
        \/ ServerDies
        \/ Rests /\ UNCHANGED <<orphans, latest>>
    <3>1. CASE \E r \in Operations : Starts(r) \/ Turns(r) \/ Serves(r) \/ CarriesOut(r)
      BY <3>1
    <3>2. CASE BurstStarts \/ BurstSent \/ BurstTimesOut \/ BurstShutsDown \/ ServerStarts
      BY <3>2 DEF BurstStarts, BurstSent, BurstTimesOut, BurstShutsDown, ServerStarts,
         Rests, clientVars, serverVars, libraryVars
    <3>3. CASE UNCHANGED vars
      BY <3>3 DEF vars, Rests, clientVars, serverVars, libraryVars
    <3>4. CASE \E r \in Operations :
                  Timer(r) \/ FutureCompletes(r) \/ FutureFails(r) \/ CarriesOutInOrder(r)
      BY <3>4 DEF Timer, PingTimer, LedTimer, PollTimer, BurstSends, StartsAsync, Starts,
         FutureCompletes, FutureFails, Turns, CarriesOutInOrder
    <3>5. QED
      BY <3>1, <3>2, <3>3, <3>4 DEF Next
  <2>2. QED
    BY <2>1, <1>2, <1>3, <1>4, <1>5, <1>6, <1>7

---------------------------------------------------------------------------
(* What every node's steps have in common, and types.                      *)

\* A step of Next as the nodes see it.
LEMMA NodeSteps ==
    ASSUME LibraryInv, [Next]_vars
    PROVE  \/ \E r \in Operations : Timer(r)
           \/ \E r \in Operations : AcceptedGoal(r) /\ UNCHANGED <<program, nodeVars>>
           \/ \E r \in Operations, result \in {"nothing", "success", "failure"} :
                 /\ Pending(r) /\ CallsBack(r, result) /\ NodeCallback(r, result)
                 /\ UNCHANGED <<reqId, serverVars, alive>>
           \/ BurstStarts \/ BurstSent \/ BurstTimesOut \/ BurstShutsDown
           \/ UNCHANGED <<program, nodeVars, libraryVars, alive>>
<1>1. CASE \E r \in Operations : Timer(r)
  BY <1>1
<1>2. CASE \E r \in Operations : FutureCompletes(r) \/ FutureFails(r)
  <2>1. PICK r \in Operations : FutureCompletes(r) \/ FutureFails(r)
    BY <1>2
  <2>2. CASE AcceptedGoal(r) /\ UNCHANGED <<program, nodeVars>>
    BY <2>2
  <2>3. CASE DeliversResult(r) /\ NodeCallback(r, outcome'[r])
    <3>1. PICK result \in {"success", "failure"} : CallsBack(r, result)
      BY <2>3 DEF DeliversResult
    <3>2. outcome'[r] = result
      BY <3>1 DEF CallsBack, LibraryInv, LibraryType
    <3>3. Pending(r) /\ UNCHANGED <<reqId, serverVars, alive>>
      BY <2>3 DEF DeliversResult, Completes, Pending
    <3>4. QED
      BY <2>3, <3>1, <3>2, <3>3
  <2>4. CASE FutureFails(r)
    BY <2>4 DEF FutureFails, FailsGoalResponse, FailsResult, Completes, Pending
  <2>5. QED
    BY <2>1, <2>2, <2>3, <2>4 DEF FutureCompletes
<1>3. CASE \E r \in Operations :
               CarriesOutInOrder(r) \/ (Serves(r) /\ UNCHANGED <<program, nodeVars>>)
  BY <1>3 DEF CarriesOutInOrder, CarriesOut, Serves
<1>4. CASE BurstStarts \/ BurstSent \/ BurstTimesOut \/ BurstShutsDown
  BY <1>4
<1>5. CASE (ServerDies \/ ServerStarts) /\ UNCHANGED <<program, nodeVars>>
  BY <1>5 DEF ServerDies, ServerStarts
<1>6. CASE UNCHANGED vars
  BY <1>6 DEF vars, clientVars
<1>7. QED
  BY <1>1, <1>2, <1>3, <1>4, <1>5, <1>6 DEF Next

\* A burst with all its answers is finished.
AllAnsweredEnds == completed = BurstSize => burst = "finished"

TypeInv == SentInv /\ TypeOK /\ AllAnsweredEnds

\* What TypeOK says of the server and of the library.
LEMMA LibraryTypes ==
    ASSUME SentInv, TypeOK, [Next]_vars
    PROVE  /\ reqId' \in 0 .. MaxOperations
           /\ serverUp' \in BOOLEAN /\ alive' \in BOOLEAN
           /\ deaths' \in 0 .. MaxServerDeaths
           /\ reqId' >= reqId
<1>0. /\ MaxOperations \in Nat /\ MaxServerDeaths \in Nat
      /\ reqId \in 0 .. MaxOperations /\ deaths \in 0 .. MaxServerDeaths
      /\ serverUp \in BOOLEAN /\ alive \in BOOLEAN
  BY ClientAssumption DEF TypeOK
<1>1. CASE \E r \in Operations : Starts(r)
  <2>1. /\ reqId < MaxOperations /\ reqId' = reqId + 1
        /\ deaths' = deaths /\ serverUp' \in BOOLEAN /\ alive' \in BOOLEAN
    BY <1>0, <1>1 DEF Starts, SendsGoal, FailsAtOnce, RaisesOnId, TakesId, serverVars
  <2>2. reqId' \in 0 .. MaxOperations /\ reqId' >= reqId
    BY <1>0, <2>1
  <2>3. QED
    BY <1>0, <2>1, <2>2
<1>2. CASE \E r \in Operations : Turns(r)
  BY <1>0, <1>2 DEF Turns, AcceptedGoal, FailsGoalResponse, FailsResult,
     DeliversResult, serverVars
<1>3. CASE \E r \in Operations : Serves(r) \/ CarriesOut(r)
  BY <1>0, <1>3 DEF Serves, CarriesOut, libraryVars
<1>4. CASE ServerDies \/ ServerStarts
  <2>1. /\ serverUp' \in BOOLEAN /\ UNCHANGED <<reqId, alive>>
        /\ deaths' = deaths \/ (deaths < MaxServerDeaths /\ deaths' = deaths + 1)
    BY <1>4 DEF ServerDies, ServerStarts, libraryVars
  <2>2. QED
    BY <1>0, <2>1
<1>5. CASE BurstStarts \/ BurstSent \/ BurstTimesOut \/ BurstShutsDown \/ UNCHANGED vars
  <2>1. /\ reqId' = reqId /\ deaths' = deaths
        /\ serverUp' \in BOOLEAN /\ alive' \in BOOLEAN
    BY <1>0, <1>5 DEF BurstStarts, BurstSent, BurstTimesOut, BurstShutsDown, vars, clientVars,
       serverVars, libraryVars
  <2>2. QED
    BY <1>0, <2>1
<1>6. QED
  <2>1. CASE \E r \in Operations :
                Timer(r) \/ FutureCompletes(r) \/ FutureFails(r) \/ CarriesOutInOrder(r)
    BY <2>1, <1>1, <1>2, <1>3 DEF Timer, PingTimer, LedTimer, PollTimer, BurstSends,
       StartsAsync, Starts, FutureCompletes, FutureFails, Turns, CarriesOutInOrder
  <2>2. QED
    BY <2>1, <1>3, <1>4, <1>5 DEF Next

\* What TypeOK says of the nodes.
NodeTypes ==
    /\ program \in Programs
    /\ inFlight \in BOOLEAN
    /\ startedBy \in 0 .. reqId
    /\ ledState \in BOOLEAN
    /\ written \in [Operations -> BOOLEAN]
    /\ burst \in {"before", "sending", "waiting", "finished"}
    /\ completed \in 0 .. BurstSize
    /\ printed \in Nat
    /\ AllAnsweredEnds

\* Counting an answer keeps the counters in their ranges.
LEMMA BurstDoneTypes ==
    ASSUME NodeTypes, BurstDone, UNCHANGED <<program, reqId>>
    PROVE  NodeTypes'
  BY BurstAssumption, ClientAssumption DEF NodeTypes, BurstDone, AllAnsweredEnds

LEMMA NodeTypesStep ==
    ASSUME TypeInv, [Next]_vars
    PROVE  NodeTypes'
<1> USE ClientAssumption, BurstAssumption DEF TypeInv
<1>0. NodeTypes /\ reqId \in Nat /\ reqId' \in Nat /\ reqId' >= reqId
  BY LibraryTypes DEF TypeOK, NodeTypes
<1>1. CASE \E r \in Operations : Timer(r)
  <2>1. PICK r \in Operations : Timer(r)
    BY <1>1
  <2>2. r = reqId'
    BY <2>1 DEF Timer, PingTimer, LedTimer, PollTimer, BurstSends, StartsAsync,
       SendsGoal, FailsAtOnce, RaisesOnId, TakesId
  <2>3. CASE PingTimer(r) \/ LedTimer(r) \/ PollTimer(r)
    <3>1. /\ UNCHANGED <<program, ledState, burst, completed, printed>>
          /\ inFlight' \in BOOLEAN
          /\ startedBy' \in {r, startedBy}
          /\ written' \in [Operations -> BOOLEAN]
      BY <2>3, <1>0 DEF PingTimer, LedTimer, PollTimer, nodeVars, NodeTypes
    <3>2. startedBy' \in 0 .. reqId'
      BY <3>1, <2>2, <1>0 DEF NodeTypes
    <3>3. QED
      BY <3>1, <3>2, <1>0 DEF NodeTypes, AllAnsweredEnds
  <2>4. CASE BurstSends(r) /\ UNCHANGED nodeVars
    BY <2>4, <1>0 DEF BurstSends, nodeVars, NodeTypes, AllAnsweredEnds
  <2>5. CASE BurstDone /\ UNCHANGED program
    BY <2>5, <1>0 DEF BurstDone, NodeTypes, AllAnsweredEnds
  <2>6. QED
    BY <2>1, <2>3, <2>4, <2>5 DEF Timer, BurstSends
<1>2. CASE \E r \in Operations : AcceptedGoal(r) /\ UNCHANGED <<program, nodeVars>>
  BY <1>0, <1>2 DEF AcceptedGoal, nodeVars, NodeTypes, AllAnsweredEnds
<1>3. CASE \E r \in Operations, result \in {"nothing", "success", "failure"} :
              /\ Pending(r) /\ CallsBack(r, result) /\ NodeCallback(r, result)
              /\ UNCHANGED <<reqId, serverVars, alive>>
  <2>1. PICK r \in Operations, result \in {"nothing", "success", "failure"} :
              NodeCallback(r, result) /\ UNCHANGED reqId
    BY <1>3
  <2>2. CASE program = "burst"
    BY <1>0, <2>1, <2>2, BurstDoneTypes DEF NodeCallback
  <2>3. CASE program \in {"ping", "led", "poll"}
    BY <1>0, <2>1, <2>3 DEF NodeCallback, PingDone, LedDone, nodeVars, NodeTypes,
       AllAnsweredEnds
  <2>4. QED
    BY <1>0, <2>2, <2>3 DEF NodeTypes, Programs
<1>4. CASE BurstStarts \/ BurstSent \/ BurstTimesOut \/ BurstShutsDown
  BY <1>0, <1>4 DEF BurstStarts, BurstSent, BurstTimesOut, BurstShutsDown, clientVars,
     libraryVars, nodeVars, NodeTypes, AllAnsweredEnds
<1>5. CASE UNCHANGED <<program, nodeVars, libraryVars, alive>>
  BY <1>0, <1>5 DEF nodeVars, libraryVars, NodeTypes, AllAnsweredEnds
<1>6. QED
  BY <1>1, <1>2, <1>3, <1>4, <1>5, NodeSteps DEF SentInv

LEMMA TypeStep == TypeInv /\ [Next]_vars => TypeInv'
<1> SUFFICES ASSUME TypeInv, [Next]_vars PROVE TypeInv'
  OBVIOUS
<1>1. SentInv'
  BY SentStep DEF TypeInv
<1>2. NodeTypes' /\ AllAnsweredEnds'
  BY NodeTypesStep DEF NodeTypes
<1>3. /\ reqId' \in 0 .. MaxOperations
      /\ serverUp' \in BOOLEAN /\ alive' \in BOOLEAN
      /\ deaths' \in 0 .. MaxServerDeaths
  BY LibraryTypes DEF TypeInv
<1>4. Server!TypeOK'
  BY <1>1 DEF SentInv, LibraryInv, LibraryType, Server!TypeOK, Server!Ended
<1>5. (orphans \subseteq 1 .. reqId)'
  BY <1>1, <1>3, ClientAssumption DEF SentInv, OnlySentIds, Operations
<1>6. (latest \in 0 .. reqId)'
  <2>1. latest' = 0 \/ latest' \in applied'
    BY <1>1 DEF SentInv, LatestIsCarriedOut
  <2>2. applied' \subseteq Operations /\ \A r \in applied' : r <= reqId'
    BY <1>1 DEF SentInv, OnlySentIds, LibraryInv, LibraryType
  <2>3. reqId' \in Nat /\ \A r \in Operations : r \in Nat
    BY <1>3, ClientAssumption DEF Operations
  <2>4. latest' \in Nat /\ latest' <= reqId'
    BY <2>1, <2>2, <2>3
  <2>5. QED
    BY <2>3, <2>4
<1>7. QED
  BY <1>1, <1>2, <1>3, <1>4, <1>5, <1>6
     DEF TypeInv, TypeOK, NodeTypes, SentInv, LibraryInv, LibraryType

LEMMA TypeInit == Init => TypeInv
<1> SUFFICES ASSUME Init PROVE TypeInv
  OBVIOUS
<1> USE ClientAssumption, BurstAssumption DEF Init, ClientInit, Server!Init
<1>1. SentInv
  BY LibraryInit DEF SentInv, OnlySentIds, LatestIsCarriedOut
<1>2. TypeOK
  <2>1. Server!TypeOK
    BY DEF Server!TypeOK
  <2>2. /\ reqId \in 0 .. MaxOperations /\ deaths \in 0 .. MaxServerDeaths
        /\ startedBy \in 0 .. reqId /\ completed \in 0 .. BurstSize
        /\ latest \in 0 .. reqId
    OBVIOUS
  <2>3. QED
    BY <2>1, <2>2 DEF TypeOK
<1>3. AllAnsweredEnds
  BY DEF AllAnsweredEnds
<1>4. QED
  BY <1>1, <1>2, <1>3 DEF TypeInv

\* The variables of the library and of the nodes keep their types.
THEOREM ClientTypeCorrect == Spec => []TypeOK
<1>1. TypeInv => TypeOK
  BY DEF TypeInv
<1>2. QED
  BY TypeInit, TypeStep, <1>1, PTL DEF Spec

---------------------------------------------------------------------------
(* The LED blinker.                                                        *)

\* The node waits for one write at a time, the one it started last.
OneWriteAtATime ==
    program = "led" => \A r \in Operations : Pending(r) => r = reqId /\ inFlight

\* A last write that was confirmed is what led_state says.
FollowsLastWrite ==
    program = "led" /\ reqId > 0 /\ outcome[reqId] = "success"
        => ledState = written[reqId]

LedInv == TypeInv /\ OneWriteAtATime /\ FollowsLastWrite

\* The timer starts a write only when none is pending.
LEMMA LedTimerKeeps ==
    ASSUME LedInv, NEW r \in Operations, LedTimer(r)
    PROVE  OneWriteAtATime' /\ FollowsLastWrite'
<1> USE DEF LedInv, TypeInv, SentInv
<1>1. /\ program = "led" /\ ~inFlight /\ UNCHANGED <<program, ledState>>
      /\ written' = [written EXCEPT ![r] = ~ledState]
      /\ reqId' = r /\ r > 0 /\ r = reqId + 1
      /\ SendsGoal(r) \/ RaisesOnId(r) => inFlight'
  BY ClientAssumption DEF LedTimer, StartsAsync, FailsAtOnce, SendsGoal, RaisesOnId,
     TakesId, Operations, CallsBack, LibraryInv, LibraryType, FreshIds
<1>2. stage[r] = "none" /\ outcome[r] = "none"
  BY <1>1, ClientAssumption DEF LibraryInv, LibraryType, FreshIds, ToldOnlyWhenCalled,
     Operations
<1>3. \A s \in Operations : ~Pending(s)
  BY <1>1 DEF OneWriteAtATime
<1>4. \/ /\ stage' = [stage EXCEPT ![r] = "goal"]
         /\ UNCHANGED outcome /\ inFlight'
      \/ UNCHANGED <<stage, outcome>> /\ inFlight'
      \/ CallsBack(r, "nothing")
  BY <1>1 DEF LedTimer, StartsAsync, FailsAtOnce, SendsGoal, RaisesOnId
<1>6. OneWriteAtATime'
  BY <1>1, <1>2, <1>3, <1>4 DEF OneWriteAtATime, Pending, CallsBack, LibraryInv, LibraryType
<1>7. FollowsLastWrite'
  BY <1>1, <1>2, <1>4 DEF FollowsLastWrite, CallsBack, LibraryInv, LibraryType
<1>8. QED
  BY <1>6, <1>7

\* The callback of the pending write sets led_state only to what it wrote.
LEMMA LedAnswerKeeps ==
    ASSUME LedInv, program = "led", NEW r \in Operations,
           NEW result \in {"nothing", "success", "failure"},
           Pending(r), CallsBack(r, result), NodeCallback(r, result), UNCHANGED reqId
    PROVE  OneWriteAtATime' /\ FollowsLastWrite'
<1> USE DEF LedInv, TypeInv, SentInv
<1>1. LedDone(r, result) /\ UNCHANGED program
  BY DEF NodeCallback
<1>2. /\ r = reqId
      /\ \A s \in Operations : s # r => ~Pending(s)
  BY DEF OneWriteAtATime
<1>4. OneWriteAtATime'
  BY <1>1, <1>2 DEF OneWriteAtATime, Pending, CallsBack, LibraryInv, LibraryType
<1>5. FollowsLastWrite'
  BY <1>1, <1>2 DEF FollowsLastWrite, LedDone, CallsBack, LibraryInv, LibraryType
<1>6. QED
  BY <1>4, <1>5

LEMMA LedStep == LedInv /\ [Next]_vars => LedInv'
<1> SUFFICES ASSUME LedInv, [Next]_vars
             PROVE  OneWriteAtATime' /\ FollowsLastWrite'
  BY TypeStep DEF LedInv
<1> USE DEF LedInv, TypeInv, SentInv
<1>1. CASE \E r \in Operations : Timer(r)
  <2>1. PICK r \in Operations : Timer(r)
    BY <1>1
  <2>2. CASE LedTimer(r)
    BY <2>2, LedTimerKeeps
  <2>3. CASE PingTimer(r) \/ PollTimer(r) \/ BurstSends(r)
    BY <2>3 DEF PingTimer, PollTimer, BurstSends, OneWriteAtATime, FollowsLastWrite
  <2>4. QED
    BY <2>1, <2>2, <2>3 DEF Timer
<1>2. CASE \E r \in Operations : AcceptedGoal(r) /\ UNCHANGED <<program, nodeVars>>
  BY <1>2 DEF AcceptedGoal, Completes, nodeVars, OneWriteAtATime, FollowsLastWrite, Pending, LibraryInv, LibraryType
<1>3. CASE \E r \in Operations, result \in {"nothing", "success", "failure"} :
              /\ Pending(r) /\ CallsBack(r, result) /\ NodeCallback(r, result)
              /\ UNCHANGED reqId
  <2>1. PICK r \in Operations, result \in {"nothing", "success", "failure"} :
              /\ Pending(r) /\ CallsBack(r, result) /\ NodeCallback(r, result)
              /\ UNCHANGED reqId
    BY <1>3
  <2>2. CASE program = "led"
    BY <2>1, <2>2, LedAnswerKeeps
  <2>3. CASE program # "led"
    BY <2>1, <2>3 DEF NodeCallback, OneWriteAtATime, FollowsLastWrite
  <2>4. QED
    BY <2>2, <2>3
<1>4. CASE UNCHANGED <<program, inFlight, ledState, written, libraryVars>>
  BY <1>4 DEF libraryVars, OneWriteAtATime, FollowsLastWrite, Pending
<1>5. CASE BurstStarts \/ BurstSent \/ BurstTimesOut \/ BurstShutsDown
  BY <1>4, <1>5 DEF BurstStarts, BurstSent, BurstTimesOut, BurstShutsDown, clientVars,
     nodeVars
<1>6. QED
  BY <1>1, <1>2, <1>3, <1>4, <1>5, NodeSteps DEF nodeVars

LEMMA LedInit == Init => LedInv
  BY TypeInit DEF LedInv, OneWriteAtATime, FollowsLastWrite, Init, ClientInit, Pending

\* A write that was overtaken was overtaken by one whose future failed.
OvertakenByFailed ==
    program = "led" =>
        \A r \in applied : r <= latest \/ outcome[latest] = "nothing"

OrderInv == SentInv /\ OvertakenByFailed

\* What a step does to the writes that were carried out and to their outcomes.
LEMMA OrderSteps ==
    ASSUME [Next]_vars
    PROVE  \/ \E r \in Operations : Starts(r) /\ UNCHANGED program
           \/ \E r \in Operations : Turns(r) /\ UNCHANGED program
           \/ \E r \in Operations : CarriesOutInOrder(r)
           \/ UNCHANGED <<program, applied, latest, outcome>>
<1>1. CASE \E r \in Operations : Timer(r)
  BY <1>1 DEF Timer, PingTimer, LedTimer, PollTimer, BurstSends, StartsAsync, Starts
<1>2. CASE \E r \in Operations : FutureCompletes(r) \/ FutureFails(r)
  BY <1>2 DEF FutureCompletes, FutureFails, NodeCallback, Turns
<1>3. CASE \E r \in Operations : CarriesOutInOrder(r)
  BY <1>3
<1>4. CASE \E r \in Operations : Serves(r) /\ UNCHANGED <<program, nodeVars>>
  BY <1>4 DEF Serves, Server!Accept, Server!Succeed, Server!Refuse, Server!Abandon,
     Server!Turns, libraryVars
<1>5. CASE BurstStarts \/ BurstSent \/ BurstTimesOut \/ BurstShutsDown
  BY <1>5 DEF BurstStarts, BurstSent, BurstTimesOut, BurstShutsDown, clientVars,
     serverVars, libraryVars
<1>6. CASE (ServerDies \/ ServerStarts) /\ UNCHANGED <<program, nodeVars>>
  BY <1>6 DEF ServerDies, ServerStarts, libraryVars
<1>7. CASE UNCHANGED vars
  BY <1>7 DEF vars, clientVars, serverVars, libraryVars
<1>8. QED
  BY <1>1, <1>2, <1>3, <1>4, <1>5, <1>6, <1>7 DEF Next

LEMMA OrderStep == OrderInv /\ [Next]_vars => OrderInv'
<1> SUFFICES ASSUME OrderInv, [Next]_vars, program' = "led"
             PROVE  \A r \in applied' : r <= latest' \/ outcome'[latest'] = "nothing"
  BY SentStep DEF OrderInv, OvertakenByFailed
<1> USE DEF OrderInv, SentInv
<1>1. \A r \in applied : r \in Nat /\ r <= reqId /\ r \in Operations
  BY ClientAssumption DEF LibraryInv, LibraryType, OnlySentIds, Operations
<1>2. ASSUME NEW r \in Operations, Starts(r) \/ Turns(r), UNCHANGED program
      PROVE  /\ UNCHANGED <<applied, latest>>
             /\ latest \in applied /\ outcome[latest] = "nothing"
                   => outcome'[latest] = "nothing"
  <2>1. UNCHANGED <<applied, latest>>
    BY <1>2 DEF Starts, SendsGoal, FailsAtOnce, RaisesOnId, Turns, AcceptedGoal,
       FailsGoalResponse, FailsResult, DeliversResult, serverVars
  <2>2. UNCHANGED outcome \/ \E result : CallsBack(r, result)
    BY <1>2 DEF Starts, SendsGoal, FailsAtOnce, RaisesOnId, Turns, AcceptedGoal,
       FailsGoalResponse, FailsResult, DeliversResult
  <2>3. CASE Starts(r)
    <3>1. r = reqId + 1 /\ reqId \in Nat
      BY <2>3 DEF Starts, SendsGoal, FailsAtOnce, RaisesOnId, TakesId, LibraryInv,
         LibraryType
    <3>2. latest \in applied => latest # r
      BY <1>1, <3>1
    <3>3. QED
      BY <1>1, <2>1, <2>2, <3>2 DEF CallsBack, LibraryInv, LibraryType
  <2>4. CASE Turns(r)
    <3>1. outcome[r] = "none"
      BY <2>4 DEF Turns, Completes, AcceptedGoal, FailsGoalResponse, FailsResult,
         DeliversResult, LibraryInv, ToldOnlyWhenCalled
    <3>2. QED
      BY <1>1, <2>1, <2>2, <3>1 DEF CallsBack, LibraryInv, LibraryType
  <2>5. QED
    BY <1>2, <2>3, <2>4
<1>3. CASE \E r \in Operations : (Starts(r) \/ Turns(r)) /\ UNCHANGED program
  BY <1>1, <1>2, <1>3 DEF OvertakenByFailed, LatestIsCarriedOut
<1>4. CASE \E r \in Operations : CarriesOutInOrder(r)
  <2>1. PICK r \in Operations : CarriesOutInOrder(r)
    BY <1>4
  <2>2. /\ applied' = applied \cup {r} /\ latest' = r /\ UNCHANGED <<program, outcome>>
        /\ outcome[r] # "nothing" => \A earlier \in applied : earlier < r
    BY <2>1 DEF CarriesOutInOrder, CarriesOut, Server!Apply, libraryVars
  <2>3. r \in Nat
    BY DEF Operations
  <2>4. QED
    BY <1>1, <2>2, <2>3
<1>5. CASE UNCHANGED <<program, applied, latest, outcome>>
  BY <1>5 DEF OvertakenByFailed
<1>6. QED
  BY <1>3, <1>4, <1>5, OrderSteps

\* The last write, once it was confirmed, is the last that was carried out,
\* unless one whose future failed came after it.
LEMMA LastWriteIsLevel ==
    ASSUME LedInv, OrderInv, program = "led", reqId > 0, outcome[reqId] = "success",
           outcome[latest] # "nothing"
    PROVE  Level = written[reqId]
<1> USE DEF LedInv, TypeInv, SentInv
<1>1. reqId \in Operations
  BY ClientAssumption DEF TypeOK, Operations
<1>2. reqId \in applied
  BY <1>1 DEF LibraryInv, CallbackOnce
<1>3. reqId <= latest
  BY <1>2 DEF OrderInv, OvertakenByFailed
<1>4. latest = reqId /\ reqId # 0
  BY <1>3, ClientAssumption DEF TypeOK
<1>5. QED
  BY <1>4 DEF Level

\* Although writes before it may have failed, been refused or been carried out
\* after they were given up, a confirmed last write leaves led_state at the
\* level of the pin, until a write whose future failed is carried out.
THEOREM LedStateFollowsPin == Spec => []LedStateIsLevel
<1>1. LedInv /\ OrderInv => LedStateIsLevel
  BY LastWriteIsLevel DEF LedInv, FollowsLastWrite, LedStateIsLevel
<1>2. Init => OrderInv
  BY TypeInit DEF OrderInv, TypeInv, OvertakenByFailed, Init, ClientInit, Server!Init
<1>3. QED
  BY LedInit, LedStep, OrderStep, <1>1, <1>2, PTL DEF Spec

---------------------------------------------------------------------------
(* The burst test.                                                         *)

\* The operations whose callback was called.
Called == {r \in Operations : stage[r] = "called"}

\* Until the burst ends, every callback is counted.
EveryCallbackCounted ==
    program = "burst" =>
        /\ printed = (IF burst = "finished" THEN 1 ELSE 0)
        /\ completed <= Cardinality(Called)
        /\ burst # "finished" => completed = Cardinality(Called)

BurstInv == TypeInv /\ EveryCallbackCounted

LEMMA CalledIsFinite == IsFiniteSet(Called) /\ Cardinality(Called) \in Nat
<1>1. IsFiniteSet(Operations)
  BY ClientAssumption, FS_Interval DEF Operations
<1>2. Called \in SUBSET Operations
  BY DEF Called
<1>3. IsFiniteSet(Called)
  BY <1>1, <1>2, FS_Subset
<1>4. QED
  BY <1>3, FS_CardinalityType

\* A callback is counted at most once because it is called at most once.
LEMMA OneMoreCalled ==
    ASSUME LibraryInv, NEW r \in Operations, NEW result,
           stage[r] # "called", CallsBack(r, result)
    PROVE  Cardinality(Called') = Cardinality(Called) + 1
<1>1. Called' = Called \cup {r} /\ r \notin Called
  BY DEF Called, CallsBack, LibraryInv, LibraryType
<1>2. QED
  BY <1>1, CalledIsFinite, FS_AddElement

\* Counting an answer together with its callback.
LEMMA BurstDoneCounts ==
    ASSUME BurstInv, NEW r \in Operations, NEW result,
           stage[r] # "called", CallsBack(r, result), BurstDone, UNCHANGED program
    PROVE  EveryCallbackCounted'
<1>1. Cardinality(Called') = Cardinality(Called) + 1
  BY OneMoreCalled DEF BurstInv, TypeInv, SentInv
<1>2. completed \in Nat /\ Cardinality(Called) \in Nat
  BY CalledIsFinite, BurstAssumption DEF BurstInv, TypeInv, TypeOK
<1>3. CASE burst = "finished"
  BY <1>1, <1>2, <1>3 DEF BurstInv, EveryCallbackCounted, BurstDone
<1>4. CASE burst # "finished"
  BY <1>1, <1>2, <1>4 DEF BurstInv, EveryCallbackCounted, BurstDone
<1>5. QED
  BY <1>3, <1>4

LEMMA BurstStep == BurstInv /\ [Next]_vars => BurstInv'
<1> SUFFICES ASSUME BurstInv, [Next]_vars PROVE EveryCallbackCounted'
  BY TypeStep DEF BurstInv
<1> USE DEF BurstInv, TypeInv, SentInv
<1>1. CASE \E r \in Operations : Timer(r)
  <2>1. PICK r \in Operations : Timer(r)
    BY <1>1
  <2>2. CASE BurstSends(r) /\ StartsAsync(r) /\ UNCHANGED nodeVars
    <3>1. stage[r] = "none"
      BY <2>2, ClientAssumption DEF StartsAsync, SendsGoal, RaisesOnId, TakesId,
         LibraryInv, LibraryType, FreshIds, Operations
    <3>2. Called' = Called
      BY <2>2, <3>1 DEF StartsAsync, SendsGoal, RaisesOnId, Called, LibraryInv, LibraryType
    <3>3. QED
      BY <2>2, <3>2 DEF BurstSends, EveryCallbackCounted, nodeVars
  <2>3. CASE BurstSends(r) /\ FailsAtOnce(r) /\ BurstDone
    <3>1. stage[r] = "none"
      BY <2>3, ClientAssumption DEF FailsAtOnce, TakesId, LibraryInv, LibraryType,
         FreshIds, Operations
    <3>2. CallsBack(r, "nothing") /\ UNCHANGED program
      BY <2>3 DEF FailsAtOnce, BurstSends
    <3>3. QED
      BY <2>3, <3>1, <3>2, BurstDoneCounts
  <2>4. CASE PingTimer(r) \/ LedTimer(r) \/ PollTimer(r)
    BY <2>4 DEF PingTimer, LedTimer, PollTimer, EveryCallbackCounted
  <2>5. QED
    BY <2>1, <2>2, <2>3, <2>4 DEF Timer, BurstSends
<1>2. CASE \E r \in Operations : AcceptedGoal(r) /\ UNCHANGED <<program, nodeVars>>
  <2>1. Called' = Called
    BY <1>2 DEF AcceptedGoal, Completes, Called, LibraryInv, LibraryType
  <2>2. QED
    BY <1>2, <2>1 DEF EveryCallbackCounted, nodeVars
<1>3. CASE \E r \in Operations, result \in {"nothing", "success", "failure"} :
              /\ Pending(r) /\ CallsBack(r, result) /\ NodeCallback(r, result)
              /\ UNCHANGED <<reqId, serverVars, alive>>
  <2>1. PICK r \in Operations, result \in {"nothing", "success", "failure"} :
              Pending(r) /\ CallsBack(r, result) /\ NodeCallback(r, result)
    BY <1>3
  <2>2. CASE program = "burst"
    <3>1. BurstDone /\ UNCHANGED program /\ stage[r] # "called"
      BY <2>1, <2>2 DEF NodeCallback, Pending
    <3>2. QED
      BY <2>1, <3>1, BurstDoneCounts
  <2>3. CASE program # "burst"
    BY <2>1, <2>3 DEF NodeCallback, EveryCallbackCounted
  <2>4. QED
    BY <2>2, <2>3
<1>4. CASE BurstStarts \/ BurstSent \/ BurstTimesOut \/ BurstShutsDown
  <2>1. Called' = Called /\ UNCHANGED <<program, completed>>
    BY <1>4 DEF BurstStarts, BurstSent, BurstTimesOut, BurstShutsDown, clientVars,
       libraryVars, nodeVars, Called
  <2>2. \/ UNCHANGED <<burst, printed>>
        \/ burst # "finished" /\ burst' # "finished" /\ UNCHANGED printed
        \/ burst # "finished" /\ burst' = "finished" /\ printed' = printed + 1
    BY <1>4 DEF BurstStarts, BurstSent, BurstTimesOut, BurstShutsDown, nodeVars
  <2>3. QED
    BY <2>1, <2>2 DEF EveryCallbackCounted
<1>5. CASE UNCHANGED <<program, nodeVars, libraryVars, alive>>
  BY <1>5 DEF libraryVars, nodeVars, EveryCallbackCounted, Called
<1>6. QED
  BY <1>1, <1>2, <1>3, <1>4, <1>5, NodeSteps

LEMMA BurstInit == Init => BurstInv
<1> SUFFICES ASSUME Init PROVE EveryCallbackCounted
  BY TypeInit DEF BurstInv
<1>1. Called = {}
  BY DEF Called, Init, ClientInit
<1>2. Cardinality(Called) = 0
  BY <1>1, FS_EmptySet
<1>3. QED
  BY <1>2 DEF EveryCallbackCounted, Init

\* Whether the last answer, the timeout or both end the burst, it prints its
\* statistics once, and counts no answer that did not come.
THEOREM BurstsReportOnce == Spec => []BurstReportsOnce
<1>1. BurstInv => BurstReportsOnce
  BY DEF BurstInv, EveryCallbackCounted, BurstReportsOnce, Called
<1>2. QED
  BY BurstInit, BurstStep, <1>1, PTL DEF Spec
=============================================================================
