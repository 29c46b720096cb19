---------------------------- MODULE ServerProofs ----------------------------
(***************************************************************************)
(* Proofs about the action server, for any set of goals and any number of  *)
(* executor threads: how it shuts down and which goals serial_id_map names *)
(* for every size of the id space, and whose answer a goal ends with and   *)
(* the contract of ActionContract while serial ids do not repeat.          *)
(***************************************************************************)
EXTENDS ServerRefinement, FiniteSetTheorems, SequenceTheorems, TLAPS

---------------------------------------------------------------------------
(* The inductive invariants.                                               *)

\* A woken goal was given its response first: MatcherAttaches comes before
\* MatcherSetsEvent.
WakingInv ==
    /\ \A g \in Goals : completed[g] => serialResponse[g] # NoResponse
    /\ matcher.pc = "set" => serialResponse[matcher.goal] # NoResponse
    /\ WokenGoalsHaveResponse

\* main() reaches each step of the shutdown after the joins before it.
ShutdownInv ==
    /\ mainPc \in {"joinMatcher", "disconnect", "destroyed"} =>
          receiverPc = "stopped"
    /\ mainPc \in {"disconnect", "destroyed"} => matcher.pc = "stopped"
    /\ ~portOpen => mainPc = "destroyed"

\* No more goals than serial ids ever ask for one.
IdsDoNotRepeat ==
    /\ IsFiniteSet(Goals \ MalformedGoals)
    /\ Cardinality(Goals \ MalformedGoals) <= IdSpace

\* Goals that have a serial id.
Allocated ==
    {g \in Goals :
        \/ goalPc[g] \in {"register", "put", "wait", "collect", "unmap"}
        \/ goalPc[g] = "done" /\ result[g].why # "exception"}

\* Goals that have queued their request.
Sent == {g \in Allocated : goalPc[g] \notin {"register", "put"}}

\* How a goal's result goes with where its execute_callback is.
OutcomeInv ==
    \A g \in Goals :
        /\ goalPc[g] = "unmap" => result[g].why \in {"response", "timeout"}
        /\ goalPc[g] = "done" => result[g].why # "none"
        /\ goalPc[g] \notin {"unmap", "done"} => result[g].why = "none"
        /\ g \in MalformedGoals =>
              \/ goalPc[g] \in {"idle", "accepted"}
              \/ goalPc[g] = "done" /\ result[g].why = "exception"
        /\ result[g].why = "exception" => goalPc[g] = "done" /\ g \in MalformedGoals

\* The counter has passed the id of every goal that has one.
IdsInv ==
    /\ Cardinality(Allocated) < IdSpace => nextSerialId = Cardinality(Allocated)
    /\ \A g \in Allocated : sid[g] < Cardinality(Allocated)
    /\ \A g, h \in Allocated : sid[g] = sid[h] => g = h

\* A registered goal is found under its id until it removes itself.
RegisteredInv ==
    \A g \in Goals : goalPc[g] \in {"put", "wait", "collect", "unmap"} =>
        serialIdMap[sid[g]] = g

InSeq(s) == {s[i] : i \in 1 .. Len(s)}

\* Requests that have not been carried out, refused or lost.
FramesUnderway ==
    InSeq(senderQueue) \cup device
    \cup (IF sender.pc = "send" THEN {sender.frame} ELSE {})

\* Answers that have been attached to no goal.
AnswersUnderway ==
    InSeq(line) \cup InSeq(receiverQueue)
    \cup (IF matcher.pc \in {"lookup", "attach"} THEN {matcher.response} ELSE {})

FrameIsOwn(f) ==
    /\ f.goal \in Sent
    /\ f.request_id = sid[f.goal]
    /\ serialResponse[f.goal] = NoResponse
    /\ f.goal \notin applied

AnswerIsOwn(r) ==
    /\ r.goal \in Sent
    /\ r.request_id = sid[r.goal]
    /\ serialResponse[r.goal] = NoResponse
    /\ r.ok <=> r.goal \in applied

\* Every frame and every answer carries the id of its goal, whose response
\* is still to come.
TokensInv ==
    /\ \A f \in FramesUnderway : FrameIsOwn(f)
    /\ \A r \in AnswersUnderway : AnswerIsOwn(r)
    /\ matcher.pc = "attach" => matcher.goal = matcher.response.goal

Places == {"queued", "sending", "board", "line", "received", "matching"}

GoalsIn(s) == {s[i].goal : i \in 1 .. Len(s)}

\* The goals whose request or answer is at each place.
GoalsAt ==
    [p \in Places |->
        CASE p = "queued"   -> GoalsIn(senderQueue)
          [] p = "sending"  -> IF sender.pc = "send" THEN {sender.frame.goal} ELSE {}
          [] p = "board"    -> {f.goal : f \in device}
          [] p = "line"     -> GoalsIn(line)
          [] p = "received" -> GoalsIn(receiverQueue)
          [] p = "matching" -> IF matcher.pc \in {"lookup", "attach"}
                               THEN {matcher.response.goal} ELSE {}]

NoRepeats(s) == \A i, j \in 1 .. Len(s) : s[i].goal = s[j].goal => i = j

\* A goal's request or its answer is in one place, once.
OnceInv ==
    /\ NoRepeats(senderQueue) /\ NoRepeats(line) /\ NoRepeats(receiverQueue)
    /\ \A p, q \in Places : p # q => GoalsAt[p] \cap GoalsAt[q] = {}

\* A response that was attached is the answer to the goal's own frame, and a
\* goal that ends with a response ends with the one attached.
ResponsesInv ==
    /\ applied \subseteq Sent
    /\ \A g \in Goals : serialResponse[g] # NoResponse =>
          /\ g \in Sent
          /\ serialResponse[g].goal = g
          /\ serialResponse[g].ok <=> g \in applied
    /\ \A g \in Goals : result[g].why = "response" =>
          /\ serialResponse[g] # NoResponse
          /\ result[g].response = serialResponse[g]

---------------------------------------------------------------------------
(* Type correctness.                                                       *)

LEMMA NextIdInRange ==
    ASSUME NEW i \in SerialIds
    PROVE  /\ (i + 1) % IdSpace \in SerialIds
           /\ i + 1 < IdSpace => (i + 1) % IdSpace = i + 1
  BY SizesAssumption DEF SerialIds

LEMMA NothingIsNoGoal ==
    /\ NoResponse \notin Response
    /\ NoFrame \notin Frame
    /\ 0 \in SerialIds
  <1>1. NoResponse.goal \notin Goals /\ NoFrame.goal \notin Goals
    BY GoalsAssumption DEF NoResponse, NoFrame
  <1>2. 0 \in SerialIds
    BY SizesAssumption DEF SerialIds
  <1> QED BY <1>1, <1>2 DEF Response, Frame

LEMMA TypeInit == Init => TypeOK
  <1> SUFFICES ASSUME Init PROVE TypeOK
    OBVIOUS
  <1>1. GoalsTypeOK
    <2> DEFINE Empty == [why |-> "none", response |-> NoResponse]
    <2>1. Empty \in [why: {"none", "response", "timeout", "exception"},
                    response: Response \cup {NoResponse}]
      OBVIOUS
    <2>2. result = [g \in Goals |-> Empty]
      BY DEF Init
    <2> HIDE DEF Empty
    <2> QED BY <2>1, <2>2, NothingIsNoGoal DEF Init, GoalsTypeOK
  <1>2. FramesTypeOK
    BY EmptySeq DEF Init, FramesTypeOK
  <1>3. ThreadsTypeOK
    BY DEF Init, ThreadsTypeOK
  <1> QED BY <1>1, <1>2, <1>3 DEF TypeOK

\* execute_callback and the acceptance of its goal.
LEMMA TypeCallback ==
    ASSUME TypeOK, NEW g \in Goals, AcceptsGoal(g) \/ Callback(g)
    PROVE  TypeOK'
  <1> USE DEF TypeOK, GoalAt, threadVars, boardVars
  <1>1. ThreadsTypeOK'
    <2>1. UNCHANGED <<stopToken, portOpen, threadVars>>
      BY DEF AcceptsGoal, Callback, StartsGoal, FailsConversion, AllocatesId,
         RegistersGoal, QueuesFrame, Wakes, TimesOut, CollectsResponse, EndsGoal
    <2> QED BY <2>1 DEF ThreadsTypeOK
  <1>2. FramesTypeOK'
    <2>1. CASE QueuesFrame(g)
      <3>1. [request_id |-> sid[g], goal |-> g] \in Frame
        BY DEF Frame, GoalsTypeOK
      <3>2. senderQueue' \in Seq(Frame)
        BY <2>1, <3>1, AppendProperties DEF QueuesFrame, FramesTypeOK
      <3> QED BY <2>1, <3>2 DEF QueuesFrame, FramesTypeOK
    <2>2. CASE ~QueuesFrame(g)
      BY <2>2 DEF AcceptsGoal, Callback, StartsGoal, FailsConversion, AllocatesId,
         RegistersGoal, Wakes, TimesOut, CollectsResponse, EndsGoal, FramesTypeOK
    <2> QED BY <2>1, <2>2
  <1>3. GoalsTypeOK'
    <2> USE DEF GoalsTypeOK, idVars
    <2>1. CASE AcceptsGoal(g) \/ StartsGoal(g) \/ Wakes(g) \/ QueuesFrame(g)
      BY <2>1 DEF AcceptsGoal, StartsGoal, Wakes, QueuesFrame
    <2>2. CASE FailsConversion(g) \/ TimesOut(g)
      <3>1. PICK why \in {"timeout", "exception"} :
               result' = [result EXCEPT ![g].why = why]
        BY <2>2 DEF FailsConversion, TimesOut
      <3> DEFINE new == [why |-> why, response |-> result[g].response]
      <3>2. [result[g] EXCEPT !.why = why] = new
        <4>1. result[g] \in [why: {"none", "response", "timeout", "exception"},
                             response: Response \cup {NoResponse}]
          OBVIOUS
        <4> QED BY <4>1
      <3>3. result' = [result EXCEPT ![g] = new]
        BY <3>1, <3>2
      <3> QED BY <2>2, <3>3 DEF FailsConversion, TimesOut
    <2>3. CASE AllocatesId(g)
      BY <2>3, NextIdInRange DEF AllocatesId
    <2>4. CASE RegistersGoal(g) \/ EndsGoal(g)
      BY <2>4 DEF RegistersGoal, EndsGoal
    <2>5. CASE CollectsResponse(g)
      BY <2>5 DEF CollectsResponse
    <2> QED BY <2>1, <2>2, <2>3, <2>4, <2>5 DEF Callback
  <1> QED BY <1>1, <1>2, <1>3

\* The four other threads of the server.
LEMMA TypeThreads ==
    ASSUME TypeOK, Sender \/ Receiver \/ Matcher \/ Interrupts \/ Shutdown
    PROVE  TypeOK'
  <1> USE DEF TypeOK, idVars, boardVars
  <1>1. GoalsTypeOK'
    <2> USE DEF GoalsTypeOK
    <2>1. CASE MatcherAttaches
      BY <2>1 DEF MatcherAttaches, ThreadsTypeOK
    <2>2. CASE MatcherSetsEvent
      BY <2>2 DEF MatcherSetsEvent
    <2>3. CASE ~MatcherAttaches /\ ~MatcherSetsEvent
      <3>1. UNCHANGED <<goalVars, idVars>>
        BY <2>3 DEF Sender, SenderChecks, SenderGets, SenderSends, SenderFails,
           Receiver, ReceiverChecks, ReceiverReads, ReceiverFails, Matcher,
           MatcherChecks, MatcherGets, MatcherLooksUp, Interrupts, Shutdown,
           SetsStopToken, JoinsSender, JoinsReceiver, JoinsMatcher, Disconnects
      <3> QED BY <3>1 DEF goalVars
    <2> QED BY <2>1, <2>2, <2>3
  <1>2. FramesTypeOK'
    <2> USE DEF FramesTypeOK
    <2>1. CASE SenderGets
      BY <2>1, HeadTailProperties DEF SenderGets
    <2>2. CASE SenderSends
      BY <2>2 DEF SenderSends, ThreadsTypeOK
    <2>3. CASE ReceiverReads
      <3>1. line # <<>> => /\ Append(receiverQueue, Head(line)) \in Seq(Response)
                           /\ Tail(line) \in Seq(Response)
        BY HeadTailProperties, AppendProperties
      <3> QED BY <2>3, <3>1 DEF ReceiverReads
    <2>4. CASE MatcherGets
      <3>1. receiverQueue # <<>> => Tail(receiverQueue) \in Seq(Response)
        BY HeadTailProperties
      <3>2. receiverQueue' \in Seq(Response)
        BY <2>4, <3>1 DEF MatcherGets
      <3> QED BY <2>4, <3>2 DEF MatcherGets
    <2>5. CASE MatcherLooksUp
      <3>1. matcher.response.goal \in Goals
        BY <2>5 DEF MatcherLooksUp, Response, ThreadsTypeOK
      <3> QED BY <2>5, <3>1 DEF MatcherLooksUp
    <2>6. CASE UNCHANGED <<senderQueue, receiverQueue, boardVars, unsolicited>>
      BY <2>6
    <2> QED
      BY <2>1, <2>2, <2>3, <2>4, <2>5, <2>6
         DEF Sender, SenderChecks, SenderFails, Receiver, ReceiverChecks,
             ReceiverFails, Matcher, MatcherChecks, MatcherAttaches,
             MatcherSetsEvent, Interrupts, Shutdown, SetsStopToken, JoinsSender,
             JoinsReceiver, JoinsMatcher, Disconnects
  <1>3. ThreadsTypeOK'
    <2> USE DEF ThreadsTypeOK
    <2>1. CASE SenderGets
      <3>1. senderQueue # <<>> => Head(senderQueue) \in Frame
        BY HeadTailProperties DEF FramesTypeOK
      <3>2. \/ sender' = [pc |-> "check", frame |-> sender.frame]
            \/ /\ Head(senderQueue) \in Frame
               /\ sender' = [pc |-> "send", frame |-> Head(senderQueue)]
        BY <2>1, <3>1 DEF SenderGets
      <3>3. sender' \in [pc: {"check", "get", "send", "stopped"},
                         frame: Frame \cup {NoFrame}]
            /\ (sender'.pc = "send" => sender'.frame \in Frame)
        BY <3>2
      <3> QED BY <2>1, <3>3 DEF SenderGets
    <2>2. CASE SenderChecks \/ SenderSends \/ SenderFails
      <3>1. \E pc \in {"get", "stopped", "check"} :
               \/ sender' = [pc |-> pc, frame |-> sender.frame]
               \/ sender' = [pc |-> pc, frame |-> NoFrame]
        BY <2>2 DEF SenderChecks, SenderSends, SenderFails
      <3>2. sender' \in [pc: {"check", "get", "send", "stopped"},
                         frame: Frame \cup {NoFrame}]
            /\ sender'.pc # "send"
        BY <3>1
      <3> QED BY <2>2, <3>2 DEF SenderChecks, SenderSends, SenderFails
    <2>3. CASE Receiver
      BY <2>3 DEF Receiver, ReceiverChecks, ReceiverReads, ReceiverFails
    <2>4. CASE MatcherGets
      <3>1. receiverQueue # <<>> => Head(receiverQueue) \in Response
        BY HeadTailProperties DEF FramesTypeOK
      <3>2. /\ matcher' \in [pc: {"check", "lookup"},
                             response: Response \cup {NoResponse},
                             goal: Goals \cup {NoGoal}]
            /\ matcher'.pc = "lookup" => matcher'.response \in Response
        BY <2>4, <3>1 DEF MatcherGets
      <3> QED BY <2>4, <3>2 DEF MatcherGets
    <2>5. CASE MatcherLooksUp
      <3>1. matcher.response \in Response
        BY <2>5 DEF MatcherLooksUp
      <3>2. serialIdMap[matcher.response.request_id] \in Goals \cup {NoGoal}
        BY <3>1 DEF Response, GoalsTypeOK
      <3>3. \/ matcher' = MatcherIdle
            \/ /\ serialIdMap[matcher.response.request_id] \in Goals
               /\ matcher' = [pc |-> "attach", response |-> matcher.response,
                              goal |-> serialIdMap[matcher.response.request_id]]
        BY <2>5, <3>2 DEF MatcherLooksUp
      <3> QED BY <2>5, <3>1, <3>3 DEF MatcherLooksUp, MatcherIdle
    <2>6. CASE MatcherChecks \/ MatcherAttaches \/ MatcherSetsEvent
      BY <2>6 DEF MatcherChecks, MatcherAttaches, MatcherSetsEvent, MatcherIdle
    <2>7. CASE Interrupts \/ Shutdown
      BY <2>7 DEF Interrupts, Shutdown, SetsStopToken, JoinsSender, JoinsReceiver,
         JoinsMatcher, Disconnects, MainAt
    <2> QED BY <2>1, <2>2, <2>3, <2>4, <2>5, <2>6, <2>7 DEF Sender, Matcher
  <1> QED BY <1>1, <1>2, <1>3

LEMMA TypeBoard == ASSUME TypeOK, Board PROVE TypeOK'
  <1> USE DEF TypeOK, threadVars
  <1>1. PICK frame \in device :
           \/ BoardLoses(frame)
           \/ \E ok, lost \in BOOLEAN : BoardAnswers(frame, ok, lost)
    BY DEF Board
  <1>2. frame \in Frame /\ frame.goal \in Goals /\ frame.request_id \in SerialIds
    BY DEF Frame, FramesTypeOK
  <1>3. GoalsTypeOK' /\ ThreadsTypeOK'
    <2>1. UNCHANGED <<goalVars, idVars, threadVars, stopToken, portOpen>>
      BY <1>1 DEF BoardLoses, BoardAnswers
    <2> QED BY <2>1 DEF goalVars, idVars, GoalsTypeOK, ThreadsTypeOK
  <1>4. FramesTypeOK'
    <2> USE DEF FramesTypeOK
    <2>1. CASE BoardLoses(frame)
      BY <2>1 DEF BoardLoses
    <2>2. ASSUME NEW ok \in BOOLEAN, NEW lost \in BOOLEAN,
                 BoardAnswers(frame, ok, lost)
          PROVE  FramesTypeOK'
      <3> DEFINE answer == [request_id |-> frame.request_id, goal |-> frame.goal,
                            ok |-> ok]
      <3>1. answer \in Response
        BY <1>2 DEF Response
      <3>2. Append(line, answer) \in Seq(Response)
        BY <3>1, AppendProperties
      <3>3. line' \in Seq(Response)
        BY <2>2, <3>2 DEF BoardAnswers
      <3> QED BY <1>2, <2>2, <3>3 DEF BoardAnswers
    <2> QED BY <1>1, <2>1, <2>2
  <1> QED BY <1>3, <1>4

LEMMA TypeStep == TypeOK /\ [Next]_vars => TypeOK'
  <1> SUFFICES ASSUME TypeOK, [Next]_vars PROVE TypeOK'
    OBVIOUS
  <1>1. CASE UNCHANGED vars
    BY <1>1 DEF TypeOK, GoalsTypeOK, FramesTypeOK, ThreadsTypeOK, vars, goalVars,
       idVars, threadVars, boardVars
  <1> QED BY <1>1, TypeCallback, TypeThreads, TypeBoard DEF Next

\* Every thread holds a frame, a response or a goal exactly in the states
\* where its code uses one, and serial ids stay within their 16 bits.
THEOREM TypeCorrect == Spec => []TypeOK
  BY TypeInit, TypeStep, PTL DEF Spec

---------------------------------------------------------------------------
(* Which steps leave what alone.                                           *)

\* Only execute_callback moves a goal, writes its result or uses the ids.
LEMMA OthersLeaveGoals ==
    ASSUME Sender \/ Receiver \/ Matcher \/ Interrupts \/ Shutdown \/ Board
    PROVE  UNCHANGED <<goalPc, sid, result, idVars>>
  <1> USE DEF goalVars
  <1>1. CASE Sender \/ Receiver
    BY <1>1 DEF Sender, SenderChecks, SenderGets, SenderSends, SenderFails,
       Receiver, ReceiverChecks, ReceiverReads, ReceiverFails
  <1>2. CASE Matcher
    BY <1>2 DEF Matcher, MatcherChecks, MatcherGets, MatcherLooksUp,
       MatcherAttaches, MatcherSetsEvent
  <1>3. CASE Interrupts \/ Shutdown \/ Board
    BY <1>3 DEF Interrupts, Shutdown, SetsStopToken, JoinsSender, JoinsReceiver,
       JoinsMatcher, Disconnects, Board, BoardLoses, BoardAnswers
  <1> QED BY <1>1, <1>2, <1>3

\* Only the matcher attaches responses, wakes goals and discards answers.
LEMMA OthersLeaveResponses ==
    ASSUME \/ Sender \/ Receiver \/ Interrupts \/ Shutdown \/ Board
           \/ \E g \in Goals : AcceptsGoal(g) \/ Callback(g)
    PROVE  UNCHANGED <<completed, serialResponse, matcher, unsolicited>>
  <1> USE DEF goalVars, threadVars
  <1>1. CASE Sender \/ Receiver
    BY <1>1 DEF Sender, SenderChecks, SenderGets, SenderSends, SenderFails,
       Receiver, ReceiverChecks, ReceiverReads, ReceiverFails
  <1>2. CASE \E g \in Goals : AcceptsGoal(g) \/ Callback(g)
    BY <1>2 DEF AcceptsGoal, Callback, StartsGoal, FailsConversion, AllocatesId,
       RegistersGoal, QueuesFrame, Wakes, TimesOut, CollectsResponse, EndsGoal
  <1>3. CASE Interrupts \/ Shutdown \/ Board
    BY <1>3 DEF Interrupts, Shutdown, SetsStopToken, JoinsSender, JoinsReceiver,
       JoinsMatcher, Disconnects, Board, BoardLoses, BoardAnswers
  <1> QED BY <1>1, <1>2, <1>3

\* Where each step takes the matcher, and with which response and goal.
LEMMA MatcherMoves ==
    ASSUME TypeOK
    PROVE  /\ MatcherChecks => matcher'.pc \in {"get", "stopped"}
           /\ MatcherGets /\ receiverQueue = <<>> => matcher'.pc = "check"
           /\ MatcherGets /\ receiverQueue # <<>> =>
                 matcher'.pc = "lookup" /\ matcher'.response = Head(receiverQueue)
           /\ MatcherLooksUp =>
                 LET mapping == serialIdMap[matcher.response.request_id]
                 IN  \/ mapping = NoGoal /\ matcher'.pc = "check"
                     \/ /\ mapping # NoGoal
                        /\ matcher'.pc = "attach"
                        /\ matcher'.response = matcher.response
                        /\ matcher'.goal = mapping
           /\ MatcherAttaches => matcher'.pc = "set" /\ matcher'.goal = matcher.goal
           /\ MatcherSetsEvent => matcher'.pc = "check"
  <1>1. matcher = [pc |-> matcher.pc, response |-> matcher.response,
                   goal |-> matcher.goal]
    BY DEF TypeOK, ThreadsTypeOK
  <1>2. MatcherChecks => matcher'.pc \in {"get", "stopped"}
    BY <1>1 DEF MatcherChecks
  <1>3. MatcherGets /\ receiverQueue = <<>> => matcher'.pc = "check"
    BY <1>1 DEF MatcherGets
  <1>4. MatcherGets /\ receiverQueue # <<>> =>
           matcher'.pc = "lookup" /\ matcher'.response = Head(receiverQueue)
    BY <1>1 DEF MatcherGets
  <1>5. MatcherLooksUp =>
           LET mapping == serialIdMap[matcher.response.request_id]
           IN  \/ mapping = NoGoal /\ matcher'.pc = "check"
               \/ /\ mapping # NoGoal
                  /\ matcher'.pc = "attach"
                  /\ matcher'.response = matcher.response
                  /\ matcher'.goal = mapping
    <2> DEFINE mapping == serialIdMap[matcher.response.request_id]
    <2>1. MatcherLooksUp /\ mapping = NoGoal => matcher'.pc = "check"
      BY DEF MatcherLooksUp, MatcherIdle
    <2>2. MatcherLooksUp /\ mapping # NoGoal =>
             matcher' = [pc |-> "attach", response |-> matcher.response,
                         goal |-> mapping]
      BY <1>1 DEF MatcherLooksUp
    <2> HIDE DEF mapping
    <2>3. MatcherLooksUp /\ mapping # NoGoal =>
             /\ matcher'.pc = "attach"
             /\ matcher'.response = matcher.response
             /\ matcher'.goal = mapping
      BY <2>2
    <2> QED BY <2>1, <2>3 DEF mapping
  <1>6. MatcherAttaches => matcher'.pc = "set" /\ matcher'.goal = matcher.goal
    BY <1>1 DEF MatcherAttaches
  <1>7. MatcherSetsEvent => matcher'.pc = "check"
    BY DEF MatcherSetsEvent, MatcherIdle
  <1> QED BY <1>2, <1>3, <1>4, <1>5, <1>6, <1>7

---------------------------------------------------------------------------
(* The mappings.                                                           *)

LEMMA MappingsInit == Init => MappingsAreLive
  BY DEF Init, MappingsAreLive

LEMMA MappingsStep ==
    ASSUME TypeOK, MappingsAreLive, [Next]_vars PROVE MappingsAreLive'
  <1> USE DEF TypeOK, GoalsTypeOK, MappingsAreLive, idVars
  <1>1. CASE UNCHANGED <<goalPc, sid, serialIdMap>>
    BY <1>1
  <1>2. ASSUME NEW g \in Goals, AcceptsGoal(g) \/ Callback(g)
        PROVE  MappingsAreLive'
    <2> USE DEF GoalAt
    <2>1. CASE \/ AcceptsGoal(g) \/ StartsGoal(g) \/ FailsConversion(g)
               \/ AllocatesId(g)
      BY <2>1 DEF AcceptsGoal, StartsGoal, FailsConversion, AllocatesId
    <2>2. CASE RegistersGoal(g)
      BY <2>2 DEF RegistersGoal
    <2>3. CASE \/ QueuesFrame(g) \/ Wakes(g) \/ TimesOut(g)
               \/ CollectsResponse(g)
      BY <2>3 DEF QueuesFrame, Wakes, TimesOut, CollectsResponse
    <2>4. CASE EndsGoal(g)
      BY <2>4, GoalsAssumption DEF EndsGoal
    <2> QED BY <1>2, <2>1, <2>2, <2>3, <2>4 DEF Callback
  <1> QED BY <1>1, <1>2, OthersLeaveGoals DEF Next, vars, goalVars

\* serial_id_map only has entries of goals that are executing, however
\* many goals share one serial id: _receiver_loop never hands a response to
\* a goal that has ended.
THEOREM MappingsLive == Spec => []MappingsAreLive
  BY TypeCorrect, MappingsInit, MappingsStep, PTL DEF Spec

---------------------------------------------------------------------------
(* Waking up.                                                              *)

LEMMA WakingInit == Init => WakingInv
  BY DEF Init, WakingInv, WokenGoalsHaveResponse

LEMMA WakingStep == ASSUME TypeOK, WakingInv, [Next]_vars PROVE WakingInv'
  <1> USE DEF TypeOK, GoalsTypeOK, WakingInv, WokenGoalsHaveResponse
  <1>1. CASE UNCHANGED <<goalPc, completed, serialResponse, matcher>>
    BY <1>1
  <1>2. ASSUME NEW g \in Goals, AcceptsGoal(g) \/ Callback(g)
        PROVE  WakingInv'
    <2>1. UNCHANGED <<completed, serialResponse, matcher>>
      BY <1>2, OthersLeaveResponses
    <2>2. ASSUME NEW h \in Goals, goalPc'[h] = "collect"
          PROVE  goalPc[h] = "collect" \/ completed[h]
      BY <1>2, <2>2 DEF Callback, AcceptsGoal, StartsGoal, FailsConversion,
         AllocatesId, RegistersGoal, QueuesFrame, Wakes, TimesOut,
         CollectsResponse, EndsGoal, GoalAt
    <2> QED BY <2>1, <2>2
  <1>3. CASE Matcher
    <2>1. goalPc' = goalPc
      BY <1>3, OthersLeaveGoals
    <2>2. CASE MatcherChecks \/ MatcherGets \/ MatcherLooksUp
      <3>1. matcher'.pc # "set"
        BY <2>2, MatcherMoves
      <3> QED BY <2>1, <2>2, <3>1
             DEF MatcherChecks, MatcherGets, MatcherLooksUp, goalVars
    <2>3. CASE MatcherAttaches
      <3>1. matcher.goal \in Goals /\ matcher.response \in Response
        BY <2>3 DEF MatcherAttaches, ThreadsTypeOK
      <3>2. matcher'.goal = matcher.goal
        BY <2>3, MatcherMoves
      <3>3. serialResponse' = [serialResponse EXCEPT ![matcher.goal] =
                                                        matcher.response]
            /\ completed' = completed
        BY <2>3 DEF MatcherAttaches
      <3> QED BY <2>1, <3>1, <3>2, <3>3, NothingIsNoGoal
    <2>4. CASE MatcherSetsEvent
      BY <2>1, <2>4 DEF MatcherSetsEvent, MatcherIdle
    <2> QED BY <1>3, <2>2, <2>3, <2>4 DEF Matcher
  <1> QED BY <1>1, <1>2, <1>3, OthersLeaveGoals, OthersLeaveResponses
         DEF Next, vars, goalVars, threadVars

\* execute_callback's "No response attached" is dead code: a goal that was
\* woken finds the response that was attached before its event was set.
THEOREM WokenWithResponse == Spec => []WokenGoalsHaveResponse
  <1>1. Spec => []WakingInv
    BY TypeCorrect, WakingInit, WakingStep, PTL DEF Spec
  <1>2. WakingInv => WokenGoalsHaveResponse
    BY DEF WakingInv
  <1> QED BY <1>1, <1>2, PTL

---------------------------------------------------------------------------
(* The shutdown.                                                           *)

LEMMA ShutdownInit == Init => ShutdownInv
  BY DEF Init, ShutdownInv

LEMMA ShutdownStep == ASSUME TypeOK, ShutdownInv, [Next]_vars PROVE ShutdownInv'
  <1> USE DEF ShutdownInv
  <1>1. CASE UNCHANGED <<receiverPc, matcher, mainPc, portOpen>>
    BY <1>1
  <1>2. CASE Sender
    BY <1>1, <1>2
       DEF Sender, SenderChecks, SenderGets, SenderSends, SenderFails
  <1>3. CASE Receiver
    BY <1>3 DEF Receiver, ReceiverChecks, ReceiverReads, ReceiverFails
  <1>4. CASE Matcher
    <2>1. matcher.pc # "stopped" /\ UNCHANGED <<receiverPc, mainPc, portOpen>>
      BY <1>4 DEF Matcher, MatcherChecks, MatcherGets, MatcherLooksUp,
         MatcherAttaches, MatcherSetsEvent
    <2> QED BY <2>1
  <1>5. CASE Interrupts \/ Shutdown
    BY <1>5 DEF Interrupts, Shutdown, SetsStopToken, JoinsSender, JoinsReceiver,
       JoinsMatcher, Disconnects, MainAt
  <1>6. CASE Board
    BY <1>1, <1>6 DEF Board, BoardLoses, BoardAnswers, threadVars
  <1>7. ASSUME NEW g \in Goals, AcceptsGoal(g) \/ Callback(g)
        PROVE  ShutdownInv'
    BY <1>1, <1>7 DEF AcceptsGoal, Callback, StartsGoal, FailsConversion,
       AllocatesId, RegistersGoal, QueuesFrame, Wakes, TimesOut,
       CollectsResponse, EndsGoal, threadVars
  <1> QED BY <1>1, <1>2, <1>3, <1>4, <1>5, <1>6, <1>7
         DEF Next, vars, threadVars

\* destroy_node closes the serial port only when the two threads that read
\* have stopped, whatever the sender does meanwhile.
THEOREM ReadersStopBeforeClose == Spec => []ReadersStopFirst
  <1>1. Spec => []ShutdownInv
    BY TypeCorrect, ShutdownInit, ShutdownStep, PTL DEF Spec
  <1>2. ShutdownInv => ReadersStopFirst
    BY DEF ShutdownInv, ReadersStopFirst
  <1> QED BY <1>1, <1>2, PTL

---------------------------------------------------------------------------
(* execute_callback, seen from its goal.                                   *)

\* A step of a goal leaves every other goal alone and touches none of the
\* other threads.
LEMMA CallbackIsLocal ==
    ASSUME TypeOK, NEW g \in Goals, AcceptsGoal(g) \/ Callback(g)
    PROVE  /\ \A h \in Goals \ {g} : /\ goalPc'[h] = goalPc[h]
                                     /\ result'[h] = result[h]
                                     /\ sid'[h] = sid[h]
           /\ UNCHANGED <<completed, serialResponse, receiverQueue, threadVars,
                          boardVars, unsolicited>>
  BY DEF TypeOK, GoalsTypeOK, AcceptsGoal, Callback, StartsGoal, FailsConversion,
     AllocatesId, RegistersGoal, QueuesFrame, Wakes, TimesOut, CollectsResponse,
     EndsGoal, GoalAt

\* Where each step takes the goal, and with which result.
LEMMA CallbackMoves ==
    ASSUME TypeOK, NEW g \in Goals, AcceptsGoal(g) \/ Callback(g)
    PROVE  \/ /\ goalPc[g] = "idle" /\ goalPc'[g] = "accepted"
              /\ UNCHANGED <<result, sid>>
           \/ /\ goalPc[g] = "accepted" /\ goalPc'[g] = "allocate"
              /\ g \notin MalformedGoals
              /\ UNCHANGED <<result, sid>>
           \/ /\ goalPc[g] = "accepted" /\ goalPc'[g] = "done"
              /\ g \in MalformedGoals
              /\ result'[g].why = "exception"
              /\ UNCHANGED sid
           \/ /\ goalPc[g] = "allocate" /\ goalPc'[g] = "register"
              /\ AllocatesId(g)
              /\ UNCHANGED result
           \/ /\ goalPc[g] = "register" /\ goalPc'[g] = "put"
              /\ RegistersGoal(g)
              /\ UNCHANGED <<result, sid>>
           \/ /\ goalPc[g] = "put" /\ goalPc'[g] = "wait"
              /\ QueuesFrame(g)
              /\ UNCHANGED <<result, sid>>
           \/ /\ goalPc[g] = "wait" /\ goalPc'[g] = "collect"
              /\ UNCHANGED <<result, sid>>
           \/ /\ goalPc[g] = "wait" /\ goalPc'[g] = "unmap"
              /\ result'[g].why = "timeout"
              /\ UNCHANGED sid
           \/ /\ goalPc[g] = "collect" /\ goalPc'[g] = "unmap"
              /\ result'[g].why = "response"
              /\ result'[g].response = serialResponse[g]
              /\ UNCHANGED sid
           \/ /\ goalPc[g] = "unmap" /\ goalPc'[g] = "done"
              /\ EndsGoal(g)
              /\ UNCHANGED <<result, sid>>
  <1> USE DEF TypeOK, GoalsTypeOK, GoalAt
  <1>1. \A to : goalPc' = [goalPc EXCEPT ![g] = to] => goalPc'[g] = to
    OBVIOUS
  <1>2. CASE FailsConversion(g) \/ TimesOut(g)
    <2>1. PICK why \in {"timeout", "exception"} :
             /\ result' = [result EXCEPT ![g].why = why]
             /\ why = "timeout" <=> TimesOut(g)
      BY <1>2 DEF FailsConversion, TimesOut
    <2>2. result[g] \in [why: {"none", "response", "timeout", "exception"},
                         response: Response \cup {NoResponse}]
      OBVIOUS
    <2>3. result'[g].why = why
      BY <2>1, <2>2
    <2> QED BY <1>2, <2>1, <2>3 DEF FailsConversion, TimesOut
  <1>3. CASE CollectsResponse(g)
    BY <1>3 DEF CollectsResponse
  <1>4. CASE ~FailsConversion(g) /\ ~TimesOut(g) /\ ~CollectsResponse(g)
    BY <1>1, <1>4 DEF AcceptsGoal, Callback, StartsGoal, AllocatesId,
       RegistersGoal, QueuesFrame, Wakes, EndsGoal
  <1> QED BY <1>2, <1>3, <1>4

LEMMA OutcomeInit == Init => OutcomeInv
  BY DEF Init, OutcomeInv

LEMMA OutcomeStep == ASSUME TypeOK, OutcomeInv, [Next]_vars PROVE OutcomeInv'
  <1> USE DEF OutcomeInv
  <1>1. CASE UNCHANGED <<goalPc, result>>
    BY <1>1
  <1>2. ASSUME NEW g \in Goals, AcceptsGoal(g) \/ Callback(g)
        PROVE  OutcomeInv'
    <2>1. \A h \in Goals \ {g} : goalPc'[h] = goalPc[h] /\ result'[h] = result[h]
      BY <1>2, CallbackIsLocal
    <2>2. /\ goalPc'[g] = "unmap" => result'[g].why \in {"response", "timeout"}
          /\ goalPc'[g] = "done" => result'[g].why # "none"
          /\ goalPc'[g] \notin {"unmap", "done"} => result'[g].why = "none"
          /\ g \in MalformedGoals =>
                \/ goalPc'[g] \in {"idle", "accepted"}
                \/ goalPc'[g] = "done" /\ result'[g].why = "exception"
          /\ result'[g].why = "exception" =>
                goalPc'[g] = "done" /\ g \in MalformedGoals
      BY <1>2, CallbackMoves
    <2> QED BY <2>1, <2>2
  <1> QED BY <1>1, <1>2, OthersLeaveGoals DEF Next, vars, goalVars

---------------------------------------------------------------------------
(* Serial ids that do not repeat.                                          *)

\* The goals that have an id, before and after a step.
LEMMA AllocatedStep ==
    ASSUME TypeOK, OutcomeInv, NEW g \in Goals, AcceptsGoal(g) \/ Callback(g)
    PROVE  IF AllocatesId(g)
           THEN Allocated' = Allocated \cup {g} /\ g \notin Allocated
           ELSE Allocated' = Allocated /\ UNCHANGED <<sid, nextSerialId>>
  <1>1. \A h \in Goals \ {g} : h \in Allocated' <=> h \in Allocated
    BY CallbackIsLocal DEF Allocated
  <1>2. IF AllocatesId(g) THEN g \in Allocated' /\ g \notin Allocated
        ELSE g \in Allocated' <=> g \in Allocated
    BY CallbackMoves DEF Allocated, OutcomeInv, AllocatesId, GoalAt
  <1>3. ~AllocatesId(g) => UNCHANGED <<sid, nextSerialId>>
    BY DEF AcceptsGoal, Callback, StartsGoal, FailsConversion, RegistersGoal,
       QueuesFrame, Wakes, TimesOut, CollectsResponse, EndsGoal, idVars
  <1>4. Allocated \subseteq Goals /\ Allocated' \subseteq Goals
    BY DEF Allocated
  <1> QED BY <1>1, <1>2, <1>3, <1>4

LEMMA AllocatedIsFinite ==
    ASSUME IdsDoNotRepeat, OutcomeInv
    PROVE  /\ IsFiniteSet(Allocated)
           /\ Cardinality(Allocated) \in 0 .. IdSpace
           /\ \A g \in Goals : g \notin Allocated /\ g \notin MalformedGoals =>
                 Cardinality(Allocated) < IdSpace
  <1> DEFINE Askers == Goals \ MalformedGoals
  <1>1. Allocated \subseteq Askers
    BY DEF Allocated, OutcomeInv
  <1>2. IsFiniteSet(Askers) /\ Cardinality(Askers) <= IdSpace
    BY DEF IdsDoNotRepeat
  <1> HIDE DEF Askers
  <1>3. /\ IsFiniteSet(Allocated)
        /\ Cardinality(Allocated) <= Cardinality(Askers)
        /\ Cardinality(Allocated) = Cardinality(Askers) => Allocated = Askers
    BY <1>1, <1>2, FS_Subset
  <1>4. Cardinality(Allocated) \in Nat /\ Cardinality(Askers) \in Nat
    BY <1>2, <1>3, FS_CardinalityType
  <1>5. \A g \in Goals : g \notin Allocated /\ g \notin MalformedGoals =>
           Allocated # Askers
    BY DEF Askers
  <1> QED BY <1>2, <1>3, <1>4, <1>5, SizesAssumption

LEMMA IdsInit == Init => IdsInv
  <1> SUFFICES ASSUME Init PROVE IdsInv
    OBVIOUS
  <1>1. Allocated = {}
    BY DEF Init, Allocated
  <1> QED BY <1>1, FS_EmptySet DEF Init, IdsInv

LEMMA IdsStep ==
    ASSUME IdsDoNotRepeat, TypeOK, OutcomeInv, IdsInv, [Next]_vars
    PROVE  IdsInv'
  <1>1. CASE UNCHANGED <<goalPc, result, sid, nextSerialId>>
    BY <1>1 DEF IdsInv, Allocated
  <1>2. ASSUME NEW g \in Goals, AcceptsGoal(g) \/ Callback(g)
        PROVE  IdsInv'
    <2>1. CASE AllocatesId(g)
      <3> DEFINE n == Cardinality(Allocated)
      <3>1. Allocated' = Allocated \cup {g} /\ g \notin Allocated
        BY <1>2, <2>1, AllocatedStep
      <3>2. g \notin MalformedGoals
        BY <2>1 DEF AllocatesId, GoalAt, OutcomeInv
      <3>3. /\ IsFiniteSet(Allocated) /\ n \in Nat /\ n < IdSpace
        BY <3>1, <3>2, AllocatedIsFinite
      <3>4. Cardinality(Allocated)' = n + 1
        BY <3>1, <3>3, FS_AddElement
      <3>5. nextSerialId = n
        BY <3>3 DEF IdsInv
      <3>6. sid'[g] = n /\ \A h \in Goals \ {g} : sid'[h] = sid[h]
        BY <2>1, <3>5 DEF AllocatesId, TypeOK, GoalsTypeOK
      <3>7. \A h \in Allocated : h \in Goals /\ h # g /\ sid[h] \in Nat /\ sid[h] < n
        BY <3>1 DEF Allocated, IdsInv, TypeOK, GoalsTypeOK, SerialIds
      <3>8. nextSerialId' = (n + 1) % IdSpace
        BY <2>1, <3>5 DEF AllocatesId
      <3>9. n + 1 < IdSpace => nextSerialId' = n + 1
        BY <3>3, <3>5, <3>8, NextIdInRange DEF TypeOK, GoalsTypeOK
      <3>10. \A h \in Allocated' : sid'[h] < n + 1
        BY <3>1, <3>3, <3>6, <3>7
      <3>11. \A h, k \in Allocated' : sid'[h] = sid'[k] => h = k
        BY <3>1, <3>3, <3>6, <3>7 DEF IdsInv
      <3> HIDE DEF n
      <3> QED BY <3>4, <3>9, <3>10, <3>11 DEF IdsInv
    <2>2. CASE ~AllocatesId(g)
      BY <1>2, <2>2, AllocatedStep DEF IdsInv
    <2> QED BY <2>1, <2>2
  <1> QED BY <1>1, <1>2, OthersLeaveGoals DEF Next, vars, goalVars, idVars

LEMMA RegisteredInit == Init => RegisteredInv
  BY DEF Init, RegisteredInv

LEMMA RegisteredStep ==
    ASSUME TypeOK, OutcomeInv, IdsInv, RegisteredInv, [Next]_vars
    PROVE  RegisteredInv'
  <1>1. CASE UNCHANGED <<goalPc, sid, serialIdMap>>
    BY <1>1 DEF RegisteredInv
  <1>2. ASSUME NEW g \in Goals, AcceptsGoal(g) \/ Callback(g), NEW h \in Goals,
               goalPc'[h] \in {"put", "wait", "collect", "unmap"}
        PROVE  serialIdMap'[sid'[h]] = h
    <2> USE DEF TypeOK, GoalsTypeOK
    <2>1. CASE RegistersGoal(g)
      <3>1. serialIdMap' = [serialIdMap EXCEPT ![sid[g]] = g] /\ sid' = sid
        BY <2>1 DEF RegistersGoal
      <3>2. h # g => sid[h] # sid[g] /\ serialIdMap[sid[h]] = h
        BY <1>2, <2>1, CallbackIsLocal
           DEF RegistersGoal, GoalAt, IdsInv, Allocated, RegisteredInv
      <3> QED BY <3>1, <3>2
    <2>2. CASE EndsGoal(g)
      <3>1. serialIdMap' = [serialIdMap EXCEPT ![sid[g]] = NoGoal] /\ sid' = sid
        BY <2>2 DEF EndsGoal
      <3>2. h # g /\ sid[h] # sid[g] /\ serialIdMap[sid[h]] = h
        BY <1>2, <2>2, CallbackIsLocal
           DEF EndsGoal, GoalAt, IdsInv, Allocated, RegisteredInv
      <3> QED BY <3>1, <3>2
    <2>3. CASE ~RegistersGoal(g) /\ ~EndsGoal(g)
      <3>1. serialIdMap' = serialIdMap
        BY <1>2, <2>3 DEF AcceptsGoal, Callback, StartsGoal, FailsConversion,
           AllocatesId, QueuesFrame, Wakes, TimesOut, CollectsResponse, idVars
      <3>2. goalPc[h] \in {"put", "wait", "collect", "unmap"} /\ sid'[h] = sid[h]
        BY <1>2, <2>3, CallbackIsLocal, CallbackMoves
      <3> QED BY <3>1, <3>2 DEF RegisteredInv
    <2> QED BY <2>1, <2>2, <2>3
  <1> QED BY <1>1, <1>2, OthersLeaveGoals
         DEF Next, vars, goalVars, idVars, RegisteredInv

---------------------------------------------------------------------------
(* Requests and answers underway.                                          *)

LEMMA TailTokens ==
    ASSUME NEW S, NEW s \in Seq(S), s # <<>>
    PROVE  /\ Head(s) \in InSeq(s)
           /\ InSeq(Tail(s)) \subseteq InSeq(s)
           /\ Head(s).goal \in GoalsIn(s)
           /\ NoRepeats(s) => /\ NoRepeats(Tail(s))
                              /\ GoalsIn(Tail(s)) \subseteq GoalsIn(s) \ {Head(s).goal}
  <1>1. /\ Len(s) \in Nat \ {0} /\ Head(s) = s[1]
        /\ Len(Tail(s)) = Len(s) - 1
        /\ \A i \in 1 .. Len(Tail(s)) : Tail(s)[i] = s[i + 1]
    BY HeadTailProperties, EmptySeq
  <1>2. \A i \in 1 .. Len(Tail(s)) : i + 1 \in 1 .. Len(s) /\ i + 1 # 1
    BY <1>1
  <1>3. 1 \in 1 .. Len(s)
    BY <1>1
  <1>4. Head(s) \in InSeq(s) /\ Head(s).goal \in GoalsIn(s)
    BY <1>1, <1>3 DEF InSeq, GoalsIn
  <1>5. InSeq(Tail(s)) \subseteq InSeq(s)
    BY <1>1, <1>2 DEF InSeq
  <1>6. ASSUME NoRepeats(s)
        PROVE  GoalsIn(Tail(s)) \subseteq GoalsIn(s) \ {Head(s).goal}
    BY <1>1, <1>2, <1>3, <1>6 DEF GoalsIn, NoRepeats
  <1>7. ASSUME NoRepeats(s), NEW i \in 1 .. Len(Tail(s)), NEW j \in 1 .. Len(Tail(s)),
               Tail(s)[i].goal = Tail(s)[j].goal
        PROVE  i = j
    <2>1. s[i + 1].goal = s[j + 1].goal
      BY <1>1, <1>7
    <2>2. i + 1 = j + 1
      BY <1>2, <1>7, <2>1 DEF NoRepeats
    <2> QED BY <1>1, <2>2
  <1> QED BY <1>4, <1>5, <1>6, <1>7 DEF NoRepeats

LEMMA AppendTokens ==
    ASSUME NEW S, NEW s \in Seq(S), NEW x \in S
    PROVE  /\ InSeq(Append(s, x)) = InSeq(s) \cup {x}
           /\ GoalsIn(Append(s, x)) = GoalsIn(s) \cup {x.goal}
           /\ NoRepeats(s) /\ x.goal \notin GoalsIn(s) => NoRepeats(Append(s, x))
  <1> DEFINE t == Append(s, x)
  <1>1. /\ Len(s) \in Nat /\ Len(t) = Len(s) + 1
        /\ \A i \in 1 .. Len(s) : t[i] = s[i]
        /\ t[Len(s) + 1] = x
    BY AppendProperties, LenProperties
  <1> HIDE DEF t
  <1>2. \A i : i \in 1 .. Len(t) <=> i \in 1 .. Len(s) \/ i = Len(s) + 1
    BY <1>1
  <1>3. InSeq(t) = InSeq(s) \cup {x}
    BY <1>1, <1>2 DEF InSeq
  <1>4. GoalsIn(t) = GoalsIn(s) \cup {x.goal}
    BY <1>1, <1>2 DEF GoalsIn
  <1>5. NoRepeats(s) /\ x.goal \notin GoalsIn(s) => NoRepeats(t)
    BY <1>1, <1>2 DEF GoalsIn, NoRepeats
  <1> QED BY <1>3, <1>4, <1>5 DEF t

\* A queue holds the goals of its elements.
LEMMA GoalsOfElements ==
    ASSUME NEW s
    PROVE  /\ \A x \in InSeq(s) : x.goal \in GoalsIn(s)
           /\ \A g \in GoalsIn(s) : \E x \in InSeq(s) : x.goal = g
  BY DEF InSeq, GoalsIn

\* Where each step takes the sender, and with which frame.
LEMMA SenderMoves ==
    ASSUME TypeOK
    PROVE  /\ SenderChecks \/ SenderSends \/ SenderFails => sender'.pc # "send"
           /\ SenderGets /\ senderQueue = <<>> =>
                 sender'.pc # "send" /\ senderQueue' = senderQueue
           /\ SenderGets /\ senderQueue # <<>> =>
                 /\ sender'.pc = "send" /\ sender'.frame = Head(senderQueue)
                 /\ senderQueue' = Tail(senderQueue)
  <1>1. sender = [pc |-> sender.pc, frame |-> sender.frame]
    BY DEF TypeOK, ThreadsTypeOK
  <1>2. SenderChecks \/ SenderSends \/ SenderFails => sender'.pc # "send"
    BY <1>1 DEF SenderChecks, SenderSends, SenderFails
  <1>3. SenderGets /\ senderQueue = <<>> =>
           sender'.pc # "send" /\ senderQueue' = senderQueue
    BY <1>1 DEF SenderGets
  <1>4. SenderGets /\ senderQueue # <<>> =>
           /\ sender'.pc = "send" /\ sender'.frame = Head(senderQueue)
           /\ senderQueue' = Tail(senderQueue)
    BY DEF SenderGets
  <1> QED BY <1>2, <1>3, <1>4

\* The server's threads hand frames and answers on and make none.
LEMMA UnderwayShrinks ==
    ASSUME TypeOK, Sender \/ Receiver \/ Matcher \/ Interrupts \/ Shutdown
    PROVE  /\ FramesUnderway' \subseteq FramesUnderway
           /\ AnswersUnderway' \subseteq AnswersUnderway
           /\ UNCHANGED applied
  <1> USE DEF FramesUnderway, AnswersUnderway, boardVars
  <1>1. CASE Sender
    <2>1. AnswersUnderway' = AnswersUnderway /\ applied' = applied
      BY <1>1 DEF Sender, SenderChecks, SenderGets, SenderSends, SenderFails
    <2>2. CASE SenderChecks \/ SenderFails
      BY <2>1, <2>2, SenderMoves DEF SenderChecks, SenderFails
    <2>3. CASE SenderSends
      BY <2>1, <2>3, SenderMoves DEF SenderSends
    <2>4. CASE SenderGets
      <3>1. device' = device /\ sender.pc # "send"
        BY <2>4 DEF SenderGets
      <3>2. senderQueue # <<>> => /\ Head(senderQueue) \in InSeq(senderQueue)
                                  /\ InSeq(Tail(senderQueue)) \subseteq InSeq(senderQueue)
        BY TailTokens DEF TypeOK, FramesTypeOK
      <3> QED BY <2>1, <2>4, <3>1, <3>2, SenderMoves
    <2> QED BY <1>1, <2>2, <2>3, <2>4 DEF Sender
  <1>2. CASE Receiver
    <2>1. FramesUnderway' = FramesUnderway /\ UNCHANGED <<applied, matcher>>
      BY <1>2 DEF Receiver, ReceiverChecks, ReceiverReads, ReceiverFails
    <2>2. CASE /\ line # <<>>
               /\ receiverQueue' = Append(receiverQueue, Head(line))
               /\ line' = Tail(line)
      <3>1. /\ Head(line) \in Response /\ Head(line) \in InSeq(line)
            /\ InSeq(Tail(line)) \subseteq InSeq(line)
        BY <2>2, TailTokens, HeadTailProperties DEF TypeOK, FramesTypeOK
      <3>2. InSeq(Append(receiverQueue, Head(line))) =
               InSeq(receiverQueue) \cup {Head(line)}
        BY <3>1, AppendTokens DEF TypeOK, FramesTypeOK
      <3>3. InSeq(line') \cup InSeq(receiverQueue') \subseteq
               InSeq(line) \cup InSeq(receiverQueue)
        BY <2>2, <3>1, <3>2
      <3> QED BY <2>1, <3>3
    <2>3. CASE UNCHANGED <<line, receiverQueue>>
      BY <2>1, <2>3
    <2> QED BY <1>2, <2>1, <2>2, <2>3
           DEF Receiver, ReceiverChecks, ReceiverReads, ReceiverFails
  <1>3. CASE Matcher
    <2>1. FramesUnderway' = FramesUnderway /\ UNCHANGED <<applied, line>>
      BY <1>3 DEF Matcher, MatcherChecks, MatcherGets, MatcherLooksUp,
         MatcherAttaches, MatcherSetsEvent
    <2>2. CASE MatcherGets /\ receiverQueue # <<>>
      <3>1. /\ Head(receiverQueue) \in InSeq(receiverQueue)
            /\ InSeq(Tail(receiverQueue)) \subseteq InSeq(receiverQueue)
        BY <2>2, TailTokens DEF TypeOK, FramesTypeOK
      <3>2. /\ matcher'.response = Head(receiverQueue)
            /\ receiverQueue' = Tail(receiverQueue)
        BY <2>2, MatcherMoves DEF MatcherGets
      <3> QED BY <2>1, <3>1, <3>2
    <2>3. CASE MatcherGets /\ receiverQueue = <<>>
      BY <2>1, <2>3, MatcherMoves DEF MatcherGets
    <2>4. CASE MatcherLooksUp
      <3>1. /\ matcher.pc = "lookup" /\ receiverQueue' = receiverQueue
            /\ \/ matcher'.pc = "check"
               \/ matcher'.response = matcher.response
        BY <2>4, MatcherMoves DEF MatcherLooksUp
      <3> QED BY <2>1, <3>1
    <2>5. CASE MatcherChecks \/ MatcherAttaches \/ MatcherSetsEvent
      <3>1. matcher'.pc \notin {"lookup", "attach"} /\ receiverQueue' = receiverQueue
        BY <2>5, MatcherMoves DEF MatcherChecks, MatcherAttaches, MatcherSetsEvent
      <3> QED BY <2>1, <3>1
    <2> QED BY <1>3, <2>2, <2>3, <2>4, <2>5 DEF Matcher
  <1>4. CASE Interrupts \/ Shutdown
    BY <1>4 DEF Interrupts, Shutdown, SetsStopToken, JoinsSender, JoinsReceiver,
       JoinsMatcher, Disconnects
  <1> QED BY <1>1, <1>2, <1>3, <1>4

\* A goal that has queued its request keeps its id, and has for good.
LEMMA SentStep ==
    ASSUME TypeOK, OutcomeInv, [Next]_vars
    PROVE  /\ Sent \subseteq Sent'
           /\ \A h \in Sent : sid'[h] = sid[h]
  <1>1. CASE UNCHANGED <<goalPc, result, sid>>
    BY <1>1 DEF Sent, Allocated
  <1>2. ASSUME NEW g \in Goals, AcceptsGoal(g) \/ Callback(g), NEW h \in Sent
        PROVE  h \in Sent' /\ sid'[h] = sid[h]
    <2>1. h \in Goals
      BY DEF Sent, Allocated
    <2>2. CASE h # g
      BY <1>2, <2>1, <2>2, CallbackIsLocal DEF Sent, Allocated
    <2>3. CASE h = g
      <3>1. goalPc[g] \in {"wait", "collect", "unmap", "done"}
        BY <2>3 DEF Sent, Allocated
      <3>2. goalPc'[g] \in {"collect", "unmap", "done"} /\ sid' = sid
        BY <1>2, <3>1, CallbackMoves
      <3>3. ~AllocatesId(g)
        BY <3>1 DEF AllocatesId, GoalAt
      <3>4. Allocated' = Allocated
        BY <1>2, <3>3, AllocatedStep
      <3> QED BY <2>3, <3>2, <3>4 DEF Sent
    <2> QED BY <2>2, <2>3
  <1> QED BY <1>1, <1>2, OthersLeaveGoals DEF Next, vars, goalVars

LEMMA PlacesOfGoals ==
    /\ GoalsAt["queued"] = GoalsIn(senderQueue)
    /\ GoalsAt["sending"] = IF sender.pc = "send" THEN {sender.frame.goal} ELSE {}
    /\ GoalsAt["board"] = {f.goal : f \in device}
    /\ GoalsAt["line"] = GoalsIn(line)
    /\ GoalsAt["received"] = GoalsIn(receiverQueue)
    /\ GoalsAt["matching"] = IF matcher.pc \in {"lookup", "attach"}
                             THEN {matcher.response.goal} ELSE {}
  BY DEF GoalsAt, Places

LEMMA PlacesOfGoalsNext ==
    /\ GoalsAt'["queued"] = GoalsIn(senderQueue')
    /\ GoalsAt'["sending"] = IF sender'.pc = "send" THEN {sender'.frame.goal} ELSE {}
    /\ GoalsAt'["board"] = {f.goal : f \in device'}
    /\ GoalsAt'["line"] = GoalsIn(line')
    /\ GoalsAt'["received"] = GoalsIn(receiverQueue')
    /\ GoalsAt'["matching"] = IF matcher'.pc \in {"lookup", "attach"}
                              THEN {matcher'.response.goal} ELSE {}
  BY DEF GoalsAt, Places, GoalsIn

\* A goal whose request or answer is somewhere has sent it.
LEMMA PlacedGoalsAreSent ==
    ASSUME TokensInv, NEW p \in Places, NEW g \in GoalsAt[p]
    PROVE  g \in Sent /\ serialResponse[g] = NoResponse
  <1>1. \/ \E f \in FramesUnderway : f.goal = g
        \/ \E r \in AnswersUnderway : r.goal = g
    BY PlacesOfGoals, GoalsOfElements DEF Places, FramesUnderway, AnswersUnderway
  <1> QED BY <1>1 DEF TokensInv, FrameIsOwn, AnswerIsOwn

\* A step that moves goal g to place q, from wherever it was, and brings in
\* no other goal keeps the places apart.
LEMMA MovingKeepsApart ==
    ASSUME NEW H, NEW G, NEW g, NEW q \in Places,
           \A p, r \in Places : p # r => H[p] \cap H[r] = {},
           \A p \in Places \ {q} : G[p] \subseteq H[p] \ {g},
           G[q] \subseteq H[q] \cup {g}
    PROVE  \A p, r \in Places : p # r => G[p] \cap G[r] = {}
  OBVIOUS

LEMMA OnceInit == Init => OnceInv
  <1> SUFFICES ASSUME Init PROVE OnceInv
    OBVIOUS
  <1>1. \A p \in Places : GoalsAt[p] = {}
    BY PlacesOfGoals DEF Init, Places, GoalsIn
  <1>2. NoRepeats(<<>>)
    BY DEF NoRepeats
  <1> QED BY <1>1, <1>2 DEF Init, OnceInv

LEMMA OnceUnmoved ==
    ASSUME OnceInv,
           UNCHANGED <<senderQueue, sender, device, line, receiverQueue, matcher>>
    PROVE  OnceInv'
  <1>1. \A p \in Places : GoalsAt'[p] = GoalsAt[p]
    BY PlacesOfGoals, PlacesOfGoalsNext DEF Places
  <1> QED BY <1>1 DEF OnceInv

\* The sender hands a goal on to the board.
LEMMA OnceSender ==
    ASSUME TypeOK, TokensInv, OnceInv, Sender
    PROVE  OnceInv'
  <1>1. UNCHANGED <<line, receiverQueue, matcher>>
    BY DEF Sender, SenderChecks, SenderGets, SenderSends, SenderFails, boardVars
  <1>2. /\ NoRepeats(line') /\ NoRepeats(receiverQueue')
        /\ \A p \in {"line", "received", "matching"} : GoalsAt'[p] = GoalsAt[p]
    BY <1>1, PlacesOfGoals, PlacesOfGoalsNext DEF OnceInv
  <1>3. CASE SenderGets /\ senderQueue # <<>>
    <2> DEFINE g == Head(senderQueue).goal
    <2>1. /\ g \in GoalsIn(senderQueue)
          /\ NoRepeats(Tail(senderQueue))
          /\ GoalsIn(Tail(senderQueue)) \subseteq GoalsIn(senderQueue) \ {g}
      BY <1>3, TailTokens DEF OnceInv, TypeOK, FramesTypeOK
    <2>2. /\ senderQueue' = Tail(senderQueue) /\ device' = device
          /\ sender.pc # "send" /\ sender'.pc = "send" /\ sender'.frame.goal = g
      BY <1>3, SenderMoves DEF SenderGets, boardVars
    <2> HIDE DEF g
    <2>3. /\ GoalsAt'["queued"] \subseteq GoalsAt["queued"] \ {g}
          /\ GoalsAt'["sending"] = {g}
          /\ GoalsAt'["board"] = GoalsAt["board"]
          /\ g \in GoalsAt["queued"]
      BY <2>1, <2>2, PlacesOfGoals, PlacesOfGoalsNext
    <2>4. \A p \in Places \ {"sending"} : GoalsAt'[p] \subseteq GoalsAt[p] \ {g}
      BY <1>2, <2>3 DEF OnceInv, Places
    <2>5. \A p, q \in Places : p # q => GoalsAt'[p] \cap GoalsAt'[q] = {}
      BY <2>3, <2>4, MovingKeepsApart DEF OnceInv, Places
    <2> QED BY <1>2, <2>1, <2>2, <2>5 DEF OnceInv
  <1>4. CASE SenderSends
    <2> DEFINE g == sender.frame.goal
    <2>1. /\ senderQueue' = senderQueue /\ device' = device \cup {sender.frame}
          /\ sender.pc = "send" /\ sender'.pc # "send"
      BY <1>4, SenderMoves DEF SenderSends
    <2>2. /\ GoalsAt'["queued"] = GoalsAt["queued"]
          /\ GoalsAt'["sending"] = {}
          /\ GoalsAt'["board"] = GoalsAt["board"] \cup {g}
          /\ g \in GoalsAt["sending"]
      BY <2>1, PlacesOfGoals, PlacesOfGoalsNext
    <2> HIDE DEF g
    <2>3. \A p \in Places \ {"board"} : GoalsAt'[p] \subseteq GoalsAt[p] \ {g}
      BY <1>2, <2>2 DEF OnceInv, Places
    <2>4. \A p, q \in Places : p # q => GoalsAt'[p] \cap GoalsAt'[q] = {}
      BY <2>2, <2>3, MovingKeepsApart DEF OnceInv, Places
    <2> QED BY <1>2, <2>1, <2>4 DEF OnceInv
  <1>5. CASE SenderChecks \/ SenderFails \/ (SenderGets /\ senderQueue = <<>>)
    <2>1. senderQueue' = senderQueue /\ device' = device /\ sender'.pc # "send"
      BY <1>5, SenderMoves DEF SenderChecks, SenderFails, SenderGets, boardVars
    <2>2. \A p \in Places : GoalsAt'[p] \subseteq GoalsAt[p]
      BY <1>2, <2>1, PlacesOfGoals, PlacesOfGoalsNext DEF Places
    <2> QED BY <1>2, <2>1, <2>2 DEF OnceInv
  <1> QED BY <1>3, <1>4, <1>5 DEF Sender

\* The receiver hands a goal on to the matcher's queue, the matcher takes it
\* from there and lets go of it.
LEMMA OnceReaders ==
    ASSUME TypeOK, TokensInv, OnceInv, Receiver \/ Matcher
    PROVE  OnceInv'
  <1>1. UNCHANGED <<senderQueue, sender, device>>
    BY DEF Receiver, ReceiverChecks, ReceiverReads, ReceiverFails, Matcher,
       MatcherChecks, MatcherGets, MatcherLooksUp, MatcherAttaches,
       MatcherSetsEvent, boardVars
  <1>2. /\ NoRepeats(senderQueue')
        /\ \A p \in {"queued", "sending", "board"} : GoalsAt'[p] = GoalsAt[p]
    BY <1>1, PlacesOfGoals, PlacesOfGoalsNext DEF OnceInv
  <1>3. CASE /\ line # <<>> /\ matcher' = matcher
             /\ receiverQueue' = Append(receiverQueue, Head(line))
             /\ line' = Tail(line)
    <2> DEFINE g == Head(line).goal
    <2>1. /\ g \in GoalsIn(line)
          /\ NoRepeats(Tail(line))
          /\ GoalsIn(Tail(line)) \subseteq GoalsIn(line) \ {g}
      BY <1>3, TailTokens DEF OnceInv, TypeOK, FramesTypeOK
    <2>2. g \notin GoalsIn(receiverQueue)
      BY <2>1, PlacesOfGoals DEF OnceInv, Places
    <2>3. Head(line) \in Response
      BY <1>3, HeadTailProperties DEF TypeOK, FramesTypeOK
    <2>4. /\ GoalsIn(receiverQueue') = GoalsIn(receiverQueue) \cup {g}
          /\ NoRepeats(receiverQueue')
      BY <1>3, <2>2, <2>3, AppendTokens DEF OnceInv, TypeOK, FramesTypeOK
    <2> HIDE DEF g
    <2>5. /\ GoalsAt'["line"] \subseteq GoalsAt["line"] \ {g}
          /\ GoalsAt'["received"] = GoalsAt["received"] \cup {g}
          /\ GoalsAt'["matching"] = GoalsAt["matching"]
          /\ g \in GoalsAt["line"]
      BY <1>3, <2>1, <2>4, PlacesOfGoals, PlacesOfGoalsNext
    <2>6. \A p \in Places \ {"received"} : GoalsAt'[p] \subseteq GoalsAt[p] \ {g}
      BY <1>2, <2>5 DEF OnceInv, Places
    <2>7. \A p, q \in Places : p # q => GoalsAt'[p] \cap GoalsAt'[q] = {}
      BY <2>5, <2>6, MovingKeepsApart DEF OnceInv, Places
    <2> QED BY <1>2, <1>3, <2>1, <2>4, <2>7 DEF OnceInv
  <1>4. CASE UNCHANGED <<line, receiverQueue, matcher>>
    BY <1>1, <1>4, OnceUnmoved
  <1>5. CASE MatcherGets /\ receiverQueue # <<>>
    <2> DEFINE g == Head(receiverQueue).goal
    <2>1. /\ g \in GoalsIn(receiverQueue)
          /\ NoRepeats(Tail(receiverQueue))
          /\ GoalsIn(Tail(receiverQueue)) \subseteq GoalsIn(receiverQueue) \ {g}
      BY <1>5, TailTokens DEF OnceInv, TypeOK, FramesTypeOK
    <2>2. /\ receiverQueue' = Tail(receiverQueue) /\ line' = line
          /\ matcher.pc \notin {"lookup", "attach"}
          /\ matcher'.pc = "lookup" /\ matcher'.response.goal = g
      BY <1>5, MatcherMoves DEF MatcherGets, boardVars
    <2> HIDE DEF g
    <2>3. /\ GoalsAt'["received"] \subseteq GoalsAt["received"] \ {g}
          /\ GoalsAt'["matching"] = {g}
          /\ GoalsAt'["line"] = GoalsAt["line"]
          /\ g \in GoalsAt["received"]
      BY <2>1, <2>2, PlacesOfGoals, PlacesOfGoalsNext
    <2>4. \A p \in Places \ {"matching"} : GoalsAt'[p] \subseteq GoalsAt[p] \ {g}
      BY <1>2, <2>3 DEF OnceInv, Places
    <2>5. \A p, q \in Places : p # q => GoalsAt'[p] \cap GoalsAt'[q] = {}
      BY <2>3, <2>4, MovingKeepsApart DEF OnceInv, Places
    <2> QED BY <1>2, <2>1, <2>2, <2>5 DEF OnceInv
  <1>6. CASE Matcher /\ ~(MatcherGets /\ receiverQueue # <<>>)
    <2>1. UNCHANGED <<line, receiverQueue>>
      BY <1>6 DEF Matcher, MatcherChecks, MatcherGets, MatcherLooksUp,
         MatcherAttaches, MatcherSetsEvent, boardVars
    <2>2. \/ matcher'.pc \notin {"lookup", "attach"}
          \/ matcher.pc = "lookup" /\ matcher'.response = matcher.response
      <3>1. CASE MatcherLooksUp
        BY <3>1, MatcherMoves DEF MatcherLooksUp
      <3>2. CASE ~MatcherLooksUp
        BY <1>6, <3>2, MatcherMoves DEF Matcher
      <3> QED BY <3>1, <3>2
    <2>3. \A p \in Places : GoalsAt'[p] \subseteq GoalsAt[p]
      BY <1>2, <2>1, <2>2, PlacesOfGoals, PlacesOfGoalsNext DEF Places
    <2> QED BY <1>2, <2>1, <2>3 DEF OnceInv
  <1> QED BY <1>3, <1>4, <1>5, <1>6
         DEF Receiver, ReceiverChecks, ReceiverReads, ReceiverFails, boardVars

\* The goal of a frame on the board has its request there and nowhere else,
\* and no other frame of its own.
LEMMA BoardFrameIsAlone ==
    ASSUME TypeOK, TokensInv, OnceInv, NEW frame \in device
    PROVE  /\ frame \in Frame /\ FrameIsOwn(frame)
           /\ \A p \in Places \ {"board"} : frame.goal \notin GoalsAt[p]
           /\ \A f \in device \ {frame} : f.goal # frame.goal
  <1>1. \A f \in device : f \in Frame /\ FrameIsOwn(f)
    BY DEF TypeOK, FramesTypeOK, TokensInv, FramesUnderway
  <1>2. \A f \in device : f = [request_id |-> sid[f.goal], goal |-> f.goal]
    BY <1>1 DEF Frame, FrameIsOwn
  <1>3. \A f \in device : f.goal = frame.goal => f = frame
    BY <1>2
  <1>4. frame.goal \in GoalsAt["board"]
    BY PlacesOfGoals
  <1> QED BY <1>1, <1>3, <1>4 DEF OnceInv, Places

\* The board keeps a goal, puts it on the line or loses it.
LEMMA OnceBoard ==
    ASSUME TypeOK, TokensInv, OnceInv, Board
    PROVE  OnceInv'
  <1>1. PICK frame \in device :
           \/ BoardLoses(frame)
           \/ \E ok, lost \in BOOLEAN : BoardAnswers(frame, ok, lost)
    BY DEF Board
  <1> DEFINE g == frame.goal
  <1>2. UNCHANGED <<senderQueue, sender, receiverQueue, matcher>>
        /\ device' = device \ {frame}
    BY <1>1 DEF BoardLoses, BoardAnswers, threadVars
  <1>3. /\ \A p \in Places \ {"board"} : g \notin GoalsAt[p]
        /\ \A f \in device \ {frame} : f.goal # g
    BY BoardFrameIsAlone
  <1>4. /\ \A p \in {"queued", "sending", "received", "matching"} :
              GoalsAt'[p] = GoalsAt[p]
        /\ GoalsAt'["board"] \subseteq GoalsAt["board"] \ {g}
    BY <1>2, <1>3, PlacesOfGoals, PlacesOfGoalsNext
  <1>5. NoRepeats(line') /\ GoalsIn(line') \subseteq GoalsIn(line) \cup {g}
    <2>1. CASE line' = line
      BY <2>1 DEF OnceInv
    <2>2. ASSUME NEW ok \in BOOLEAN,
                 line' = Append(line, [request_id |-> frame.request_id,
                                       goal |-> frame.goal, ok |-> ok])
          PROVE  NoRepeats(line') /\ GoalsIn(line') \subseteq GoalsIn(line) \cup {g}
      <3> DEFINE answer == [request_id |-> frame.request_id, goal |-> frame.goal,
                            ok |-> ok]
      <3>1. answer \in Response /\ answer.goal = g
        BY BoardFrameIsAlone DEF Frame, Response
      <3>2. g \notin GoalsIn(line)
        BY <1>3, PlacesOfGoals DEF Places
      <3> HIDE DEF g
      <3> QED BY <2>2, <3>1, <3>2, AppendTokens DEF OnceInv, TypeOK, FramesTypeOK
    <2> QED BY <1>1, <2>1, <2>2 DEF BoardLoses, BoardAnswers
  <1> HIDE DEF g
  <1>6. GoalsAt'["line"] \subseteq GoalsAt["line"] \cup {g}
    BY <1>5, PlacesOfGoals, PlacesOfGoalsNext
  <1>7. \A p \in Places \ {"line"} : GoalsAt'[p] \subseteq GoalsAt[p] \ {g}
    BY <1>3, <1>4 DEF Places
  <1>8. \A p, q \in Places : p # q => GoalsAt'[p] \cap GoalsAt'[q] = {}
    BY <1>6, <1>7, MovingKeepsApart DEF OnceInv, Places
  <1> QED BY <1>2, <1>5, <1>8 DEF OnceInv

\* A goal queues its request once.
LEMMA OnceCallback ==
    ASSUME TypeOK, TokensInv, OnceInv, NEW g \in Goals, AcceptsGoal(g) \/ Callback(g)
    PROVE  OnceInv'
  <1>1. UNCHANGED <<receiverQueue, sender, matcher, device, line>>
    BY CallbackIsLocal DEF threadVars, boardVars
  <1>2. CASE QueuesFrame(g)
    <2> DEFINE frame == [request_id |-> sid[g], goal |-> g]
    <2>1. senderQueue' = Append(senderQueue, frame) /\ frame \in Frame
          /\ frame.goal = g
      BY <1>2 DEF QueuesFrame, Frame, TypeOK, GoalsTypeOK
    <2>2. \A p \in Places : g \notin GoalsAt[p]
      <3>1. g \notin Sent
        BY <1>2 DEF QueuesFrame, GoalAt, Sent
      <3> QED BY <3>1, PlacedGoalsAreSent
    <2>3. g \notin GoalsIn(senderQueue)
      BY <2>2, PlacesOfGoals DEF Places
    <2>4. GoalsIn(senderQueue') = GoalsIn(senderQueue) \cup {g}
          /\ NoRepeats(senderQueue')
      BY <2>1, <2>3, AppendTokens DEF OnceInv, TypeOK, FramesTypeOK
    <2>5. /\ GoalsAt'["queued"] = GoalsAt["queued"] \cup {g}
          /\ \A p \in Places \ {"queued"} : GoalsAt'[p] = GoalsAt[p]
      BY <1>1, <2>4, PlacesOfGoals, PlacesOfGoalsNext DEF Places
    <2>6. \A p, q \in Places : p # q => GoalsAt'[p] \cap GoalsAt'[q] = {}
      BY <2>2, <2>5, MovingKeepsApart DEF OnceInv, Places
    <2> QED BY <1>1, <2>4, <2>6 DEF OnceInv
  <1>3. CASE ~QueuesFrame(g)
    <2>1. senderQueue' = senderQueue
      BY <1>3 DEF AcceptsGoal, Callback, StartsGoal, FailsConversion, AllocatesId,
         RegistersGoal, Wakes, TimesOut, CollectsResponse, EndsGoal
    <2> QED BY <1>1, <2>1, OnceUnmoved
  <1> QED BY <1>2, <1>3

LEMMA OnceStep ==
    ASSUME TypeOK, TokensInv, OnceInv, [Next]_vars
    PROVE  OnceInv'
  <1>1. CASE UNCHANGED <<senderQueue, sender, device, line, receiverQueue, matcher>>
    BY <1>1, OnceUnmoved
  <1>2. CASE Interrupts \/ Shutdown
    BY <1>1, <1>2 DEF Interrupts, Shutdown, SetsStopToken, JoinsSender,
       JoinsReceiver, JoinsMatcher, Disconnects, boardVars
  <1> QED BY <1>1, <1>2, OnceCallback, OnceSender, OnceReaders, OnceBoard
         DEF Next, vars, threadVars, boardVars

---------------------------------------------------------------------------
(* Whose frames and answers they are.                                      *)

\* The matcher finds the goal of the answer it looks up, or none.
LEMMA LookupFindsOwner ==
    ASSUME TypeOK, OutcomeInv, IdsInv, RegisteredInv, MappingsAreLive, TokensInv,
           MatcherLooksUp
    PROVE  LET owner == matcher.response.goal
               mapping == serialIdMap[matcher.response.request_id]
           IN  /\ owner \in Sent /\ serialResponse[owner] = NoResponse
               /\ mapping # NoGoal => mapping = owner
               /\ mapping = NoGoal => goalPc[owner] = "done"
  <1> DEFINE owner == matcher.response.goal
             mapping == serialIdMap[matcher.response.request_id]
  <1>1. AnswerIsOwn(matcher.response)
    BY DEF MatcherLooksUp, AnswersUnderway, TokensInv
  <1>2. /\ owner \in Sent /\ owner \in Goals /\ owner \in Allocated
        /\ mapping = serialIdMap[sid[owner]]
        /\ sid[owner] \in SerialIds /\ serialResponse[owner] = NoResponse
    BY <1>1 DEF AnswerIsOwn, Sent, Allocated, TypeOK, GoalsTypeOK
  <1> HIDE DEF owner, mapping
  <1>3. goalPc[owner] \in {"wait", "collect", "unmap", "done"}
    BY <1>2 DEF Sent, Allocated
  <1>4. goalPc[owner] # "done" => mapping = owner
    BY <1>2, <1>3 DEF RegisteredInv
  <1>5. ASSUME mapping # NoGoal PROVE mapping = owner
    <2>1. /\ mapping \in Goals /\ sid[mapping] = sid[owner]
          /\ goalPc[mapping] \in {"put", "wait", "collect", "unmap"}
      BY <1>2, <1>5 DEF MappingsAreLive, TypeOK, GoalsTypeOK
    <2>2. mapping \in Allocated
      BY <2>1 DEF Allocated
    <2> QED BY <1>2, <2>1, <2>2 DEF IdsInv
  <1> QED BY <1>2, <1>4, <1>5, GoalsAssumption DEF owner, mapping

LEMMA TokensInit == Init => TokensInv
  BY DEF Init, TokensInv, FramesUnderway, AnswersUnderway, InSeq

\* Handing frames and answers on leaves them their goals'.
LEMMA TokensKept ==
    ASSUME TypeOK, OutcomeInv, [Next]_vars, TokensInv,
           FramesUnderway' \subseteq FramesUnderway,
           AnswersUnderway' \subseteq AnswersUnderway,
           UNCHANGED <<serialResponse, applied>>,
           matcher'.pc = "attach" => matcher'.goal = matcher'.response.goal
    PROVE  TokensInv'
  BY SentStep DEF TokensInv, FrameIsOwn, AnswerIsOwn

LEMMA TokensCallback ==
    ASSUME TypeOK, OutcomeInv, TokensInv, ResponsesInv,
           NEW g \in Goals, AcceptsGoal(g) \/ Callback(g)
    PROVE  TokensInv'
  <1>1. UNCHANGED <<serialResponse, receiverQueue, sender, matcher, device, line,
                    applied>>
    BY CallbackIsLocal DEF threadVars, boardVars
  <1>2. AnswersUnderway' = AnswersUnderway
    BY <1>1 DEF AnswersUnderway
  <1>3. CASE ~QueuesFrame(g)
    <2>1. senderQueue' = senderQueue
      BY <1>3 DEF AcceptsGoal, Callback, StartsGoal, FailsConversion, AllocatesId,
         RegistersGoal, Wakes, TimesOut, CollectsResponse, EndsGoal
    <2>2. FramesUnderway' = FramesUnderway
      BY <1>1, <2>1 DEF FramesUnderway
    <2>3. [Next]_vars
      BY DEF Next
    <2> QED BY <1>1, <1>2, <2>2, <2>3, TokensKept DEF TokensInv
  <1>4. CASE QueuesFrame(g)
    <2>1. PICK frame \in Frame :
             /\ senderQueue' = Append(senderQueue, frame)
             /\ frame.goal = g /\ frame.request_id = sid[g] /\ sid' = sid
      BY <1>4 DEF QueuesFrame, Frame, TypeOK, GoalsTypeOK
    <2>2. InSeq(senderQueue') = InSeq(senderQueue) \cup {frame}
      BY <2>1, AppendTokens DEF TypeOK, FramesTypeOK
    <2>3. FramesUnderway' = FramesUnderway \cup {frame}
      BY <1>1, <2>2 DEF FramesUnderway
    <2>4. goalPc[g] = "put" /\ goalPc'[g] = "wait" /\ g \notin Sent
      BY <1>4 DEF QueuesFrame, GoalAt, Sent, TypeOK, GoalsTypeOK
    <2>5. g \in Sent'
      BY <2>4 DEF Sent, Allocated
    <2>6. g \notin applied /\ serialResponse[g] = NoResponse
      BY <2>4 DEF ResponsesInv
    <2>7. FrameIsOwn(frame)'
      BY <1>1, <2>1, <2>5, <2>6 DEF FrameIsOwn
    <2>8. Sent \subseteq Sent' /\ \A h \in Sent : sid'[h] = sid[h]
      BY SentStep DEF Next
    <2>9. \A f \in FramesUnderway : FrameIsOwn(f)'
      BY <1>1, <2>8 DEF TokensInv, FrameIsOwn
    <2>10. \A r \in AnswersUnderway : AnswerIsOwn(r)'
      BY <1>1, <2>8 DEF TokensInv, AnswerIsOwn
    <2> QED BY <1>1, <1>2, <2>3, <2>7, <2>9, <2>10 DEF TokensInv
  <1> QED BY <1>3, <1>4

LEMMA TokensBoard ==
    ASSUME TypeOK, OutcomeInv, TokensInv, OnceInv, Board
    PROVE  TokensInv'
  <1>1. PICK frame \in device :
           \/ BoardLoses(frame)
           \/ \E ok, lost \in BOOLEAN : BoardAnswers(frame, ok, lost)
    BY DEF Board
  <1> DEFINE g == frame.goal
  <1>2. /\ UNCHANGED <<senderQueue, sender, receiverQueue, matcher, serialResponse>>
        /\ device' = device \ {frame}
    BY <1>1 DEF BoardLoses, BoardAnswers, threadVars, goalVars
  <1>3. Sent \subseteq Sent' /\ \A h \in Sent : sid'[h] = sid[h]
    BY SentStep DEF Next
  <1>4. /\ frame \in Frame /\ FrameIsOwn(frame)
        /\ \A p \in Places \ {"board"} : g \notin GoalsAt[p]
        /\ \A f \in device \ {frame} : f.goal # g
    BY BoardFrameIsAlone
  <1>5. \A f \in FramesUnderway' : f \in FramesUnderway /\ f.goal # g
    <2>1. \A f \in InSeq(senderQueue) : f.goal # g
      BY <1>4, PlacesOfGoals, GoalsOfElements DEF Places
    <2>2. sender.pc = "send" => sender.frame.goal # g
      BY <1>4, PlacesOfGoals DEF Places
    <2> QED BY <1>2, <1>4, <2>1, <2>2 DEF FramesUnderway
  <1>6. \A r \in AnswersUnderway : r.goal # g
    <2>1. \A r \in InSeq(line) : r.goal # g
      BY <1>4, PlacesOfGoals, GoalsOfElements DEF Places
    <2>2. \A r \in InSeq(receiverQueue) : r.goal # g
      BY <1>4, PlacesOfGoals, GoalsOfElements DEF Places
    <2>3. matcher.pc \in {"lookup", "attach"} => matcher.response.goal # g
      BY <1>4, PlacesOfGoals DEF Places
    <2> QED BY <2>1, <2>2, <2>3 DEF AnswersUnderway
  <1>7. ASSUME NEW ok \in BOOLEAN, NEW lost \in BOOLEAN,
               BoardAnswers(frame, ok, lost)
        PROVE  TokensInv'
    <2> DEFINE answer == [request_id |-> frame.request_id, goal |-> frame.goal,
                          ok |-> ok]
    <2>1. /\ answer \in Response /\ answer.goal = g
          /\ answer.request_id = frame.request_id /\ answer.ok = ok
      BY <1>4 DEF Frame, Response
    <2>2. /\ applied' = (IF ok THEN applied \cup {g} ELSE applied)
          /\ line' = IF lost THEN line ELSE Append(line, answer)
      BY <1>7 DEF BoardAnswers
    <2> HIDE DEF answer
    <2>3. InSeq(line') \subseteq InSeq(line) \cup {answer}
      BY <2>1, <2>2, AppendTokens DEF TypeOK, FramesTypeOK
    <2>4. AnswersUnderway' \subseteq AnswersUnderway \cup {answer}
      BY <1>2, <2>3 DEF AnswersUnderway
    <2> HIDE DEF g
    <2>5. g = frame.goal
      BY DEF g
    <2>6. AnswerIsOwn(answer)'
      BY <1>2, <1>3, <1>4, <2>1, <2>2, <2>5 DEF FrameIsOwn, AnswerIsOwn
    <2>7. \A h : h # g => (h \in applied' <=> h \in applied)
      BY <2>2
    <2>8. \A f \in FramesUnderway' : FrameIsOwn(f)'
      BY <1>2, <1>3, <1>5, <2>7 DEF TokensInv, FrameIsOwn
    <2>9. \A r \in AnswersUnderway : AnswerIsOwn(r)'
      BY <1>2, <1>3, <1>6, <2>7 DEF TokensInv, AnswerIsOwn
    <2> QED BY <1>2, <2>4, <2>6, <2>8, <2>9 DEF TokensInv
  <1>8. CASE BoardLoses(frame)
    <2>1. UNCHANGED <<line, applied>>
      BY <1>8 DEF BoardLoses
    <2>2. AnswersUnderway' = AnswersUnderway
      BY <1>2, <2>1 DEF AnswersUnderway
    <2> QED BY <1>2, <1>5, <2>1, <2>2, TokensKept DEF Next, TokensInv
  <1> QED BY <1>1, <1>7, <1>8

LEMMA TokensMatcher ==
    ASSUME TypeOK, OutcomeInv, IdsInv, RegisteredInv, MappingsAreLive,
           TokensInv, OnceInv, Matcher
    PROVE  TokensInv'
  <1>1. /\ FramesUnderway' \subseteq FramesUnderway
        /\ AnswersUnderway' \subseteq AnswersUnderway
        /\ applied' = applied
    BY UnderwayShrinks
  <1>2. [Next]_vars
    BY DEF Next
  <1>3. CASE MatcherLooksUp
    <2>1. serialResponse' = serialResponse
      BY <1>3 DEF MatcherLooksUp, goalVars
    <2>2. matcher'.pc = "attach" => matcher'.goal = matcher'.response.goal
      BY <1>3, MatcherMoves, LookupFindsOwner
    <2> QED BY <1>1, <1>2, <2>1, <2>2, TokensKept
  <1>4. CASE MatcherAttaches
    <2> DEFINE g == matcher.goal
    <2>1. /\ serialResponse' = [serialResponse EXCEPT ![g] = matcher.response]
          /\ matcher.pc = "attach" /\ g = matcher.response.goal
          /\ matcher'.pc = "set"
          /\ UNCHANGED <<senderQueue, sender, device, line, receiverQueue>>
      BY <1>4, MatcherMoves DEF MatcherAttaches, TokensInv, boardVars
    <2>2. \A p \in Places \ {"matching"} : g \notin GoalsAt[p]
      BY <2>1, PlacesOfGoals DEF OnceInv, Places
    <2>3. \A f \in FramesUnderway' : f.goal # g
      BY <2>1, <2>2, PlacesOfGoals, GoalsOfElements DEF Places, FramesUnderway
    <2>4. \A r \in AnswersUnderway' : r.goal # g
      BY <2>1, <2>2, PlacesOfGoals, GoalsOfElements DEF Places, AnswersUnderway
    <2>5. \A h \in Goals : h # g => serialResponse'[h] = serialResponse[h]
      BY <2>1 DEF TypeOK, GoalsTypeOK
    <2> HIDE DEF g
    <2>6. Sent \subseteq Sent' /\ Sent \subseteq Goals
          /\ \A h \in Sent : sid'[h] = sid[h]
      BY <1>2, SentStep DEF Sent, Allocated
    <2>7. \A f \in FramesUnderway' : FrameIsOwn(f)'
      BY <1>1, <2>3, <2>5, <2>6 DEF TokensInv, FrameIsOwn
    <2>8. \A r \in AnswersUnderway' : AnswerIsOwn(r)'
      BY <1>1, <2>4, <2>5, <2>6 DEF TokensInv, AnswerIsOwn
    <2> QED BY <2>1, <2>7, <2>8 DEF TokensInv
  <1>5. CASE MatcherChecks \/ MatcherGets \/ MatcherSetsEvent
    <2>1. serialResponse' = serialResponse /\ matcher'.pc # "attach"
      BY <1>5, MatcherMoves DEF MatcherChecks, MatcherGets, MatcherSetsEvent, goalVars
    <2> QED BY <1>1, <1>2, <2>1, TokensKept
  <1> QED BY <1>3, <1>4, <1>5 DEF Matcher

LEMMA TokensStep ==
    ASSUME TypeOK, OutcomeInv, IdsInv, RegisteredInv, MappingsAreLive,
           TokensInv, OnceInv, ResponsesInv, [Next]_vars
    PROVE  TokensInv'
  <1>1. CASE UNCHANGED vars
    BY <1>1 DEF vars, goalVars, idVars, threadVars, boardVars, TokensInv,
       FramesUnderway, AnswersUnderway, FrameIsOwn, AnswerIsOwn, Sent, Allocated
  <1>2. CASE Sender \/ Receiver \/ Interrupts \/ Shutdown
    BY <1>2, OthersLeaveResponses, UnderwayShrinks, TokensKept DEF TokensInv
  <1> QED BY <1>1, <1>2, TokensCallback, TokensBoard, TokensMatcher DEF Next

LEMMA ResponsesInit == Init => ResponsesInv
  BY DEF Init, ResponsesInv

LEMMA ResponsesStep ==
    ASSUME TypeOK, OutcomeInv, IdsInv, RegisteredInv, MappingsAreLive, WakingInv,
           TokensInv, OnceInv, ResponsesInv, [Next]_vars
    PROVE  ResponsesInv'
  <1> USE DEF ResponsesInv
  <1>1. Sent \subseteq Sent'
    BY SentStep
  <1>2. CASE UNCHANGED <<serialResponse, result, applied>>
    BY <1>1, <1>2
  <1>3. ASSUME NEW g \in Goals, AcceptsGoal(g) \/ Callback(g)
        PROVE  ResponsesInv'
    <2>1. /\ UNCHANGED <<serialResponse, applied>>
          /\ \A h \in Goals \ {g} : result'[h] = result[h]
      BY <1>3, CallbackIsLocal DEF boardVars
    <2>2. result'[g].why = "response" => /\ serialResponse[g] # NoResponse
                                         /\ result'[g].response = serialResponse[g]
      BY <1>3, CallbackMoves DEF WakingInv, WokenGoalsHaveResponse
    <2> QED BY <1>1, <2>1, <2>2
  <1>4. CASE Board
    <2>1. PICK frame \in device :
             \/ BoardLoses(frame)
             \/ \E ok, lost \in BOOLEAN : BoardAnswers(frame, ok, lost)
      BY <1>4 DEF Board
    <2>2. UNCHANGED <<serialResponse, result>>
          /\ applied' \in {applied, applied \cup {frame.goal}}
      BY <2>1 DEF BoardLoses, BoardAnswers, goalVars
    <2>3. FrameIsOwn(frame)
      BY BoardFrameIsAlone
    <2> QED BY <1>1, <2>2, <2>3 DEF FrameIsOwn
  <1>5. CASE MatcherAttaches
    <2> DEFINE g == matcher.goal
    <2>1. /\ serialResponse' = [serialResponse EXCEPT ![g] = matcher.response]
          /\ UNCHANGED <<result, applied>>
          /\ matcher.pc = "attach" /\ g \in Goals
          /\ matcher.response.goal = g
      BY <1>5 DEF MatcherAttaches, TypeOK, ThreadsTypeOK, TokensInv, boardVars
    <2>2. AnswerIsOwn(matcher.response)
      BY <2>1 DEF TokensInv, AnswersUnderway
    <2>3. /\ serialResponse'[g] = matcher.response
          /\ \A h \in Goals \ {g} : serialResponse'[h] = serialResponse[h]
      BY <2>1 DEF TypeOK, GoalsTypeOK
    <2> HIDE DEF g
    <2>4. result[g].why # "response"
      BY <2>1, <2>2 DEF AnswerIsOwn
    <2> QED BY <1>1, <2>1, <2>2, <2>3, <2>4 DEF AnswerIsOwn
  <1>6. CASE Matcher /\ ~MatcherAttaches
    BY <1>2, <1>6 DEF Matcher, MatcherChecks, MatcherGets, MatcherLooksUp,
       MatcherSetsEvent, goalVars, boardVars
  <1>7. CASE Sender \/ Receiver \/ Interrupts \/ Shutdown
    BY <1>2, <1>7, OthersLeaveGoals, OthersLeaveResponses, UnderwayShrinks
  <1> QED BY <1>2, <1>3, <1>4, <1>5, <1>6, <1>7 DEF Next, vars, goalVars, boardVars

LEMMA DiscardsInit == Init => DiscardsOnlyGivenUp
  BY DEF Init, DiscardsOnlyGivenUp

LEMMA DiscardsStep ==
    ASSUME TypeOK, OutcomeInv, IdsInv, RegisteredInv, MappingsAreLive,
           TokensInv, ResponsesInv, DiscardsOnlyGivenUp, [Next]_vars
    PROVE  DiscardsOnlyGivenUp'
  <1> USE DEF DiscardsOnlyGivenUp
  <1>1. CASE UNCHANGED <<goalPc, result, unsolicited>>
    BY <1>1
  <1>2. ASSUME NEW g \in Goals, AcceptsGoal(g) \/ Callback(g)
        PROVE  DiscardsOnlyGivenUp'
    <2>1. /\ unsolicited' = unsolicited /\ unsolicited \subseteq Goals
          /\ \A h \in Goals \ {g} : goalPc'[h] = goalPc[h] /\ result'[h] = result[h]
      BY <1>2, CallbackIsLocal DEF TypeOK, FramesTypeOK
    <2>2. goalPc[g] # "done"
      BY <1>2, CallbackMoves
    <2> QED BY <2>1, <2>2
  <1>3. CASE MatcherLooksUp
    <2> DEFINE owner == matcher.response.goal
               mapping == serialIdMap[matcher.response.request_id]
    <2>1. UNCHANGED <<goalPc, result>>
      BY <1>3 DEF MatcherLooksUp, goalVars
    <2>2. unsolicited' = IF mapping = NoGoal THEN unsolicited \cup {owner}
                         ELSE unsolicited
      BY <1>3 DEF MatcherLooksUp
    <2>3. /\ owner \in Sent /\ serialResponse[owner] = NoResponse
          /\ mapping = NoGoal => goalPc[owner] = "done"
      BY <1>3, LookupFindsOwner
    <2> HIDE DEF owner, mapping
    <2>4. owner \in Goals /\ owner \in Allocated
      BY <2>3 DEF Sent, Allocated
    <2>5. result[owner].why # "response"
      BY <2>3, <2>4 DEF ResponsesInv
    <2>6. goalPc[owner] = "done" => result[owner].why = "timeout"
      BY <2>4, <2>5 DEF OutcomeInv, Allocated, TypeOK, GoalsTypeOK
    <2> QED BY <2>1, <2>2, <2>3, <2>6
  <1>4. CASE Matcher /\ ~MatcherLooksUp
    BY <1>1, <1>4 DEF Matcher, MatcherChecks, MatcherGets, MatcherAttaches,
       MatcherSetsEvent, goalVars
  <1> QED BY <1>1, <1>2, <1>3, <1>4, OthersLeaveGoals, OthersLeaveResponses
         DEF Next, vars, goalVars

---------------------------------------------------------------------------
(* What the clients may rely on while serial ids do not repeat.            *)

\* Everything above, together.
ServerInv ==
    /\ TypeOK /\ OutcomeInv /\ MappingsAreLive /\ WakingInv
    /\ IdsInv /\ RegisteredInv
    /\ TokensInv /\ OnceInv /\ ResponsesInv /\ DiscardsOnlyGivenUp

LEMMA ServerInit == Init => ServerInv
  BY TypeInit, OutcomeInit, MappingsInit, WakingInit, IdsInit, RegisteredInit,
     TokensInit, OnceInit, ResponsesInit, DiscardsInit DEF ServerInv

LEMMA ServerStep ==
    ASSUME IdsDoNotRepeat, ServerInv, [Next]_vars
    PROVE  ServerInv'
  <1> USE DEF ServerInv
  <1>1. TypeOK' /\ OutcomeInv' /\ MappingsAreLive' /\ WakingInv'
    BY TypeStep, OutcomeStep, MappingsStep, WakingStep
  <1>2. IdsInv' /\ RegisteredInv'
    BY IdsStep, RegisteredStep
  <1>3. TokensInv' /\ OnceInv' /\ ResponsesInv' /\ DiscardsOnlyGivenUp'
    BY TokensStep, OnceStep, ResponsesStep, DiscardsStep
  <1> QED BY <1>1, <1>2, <1>3

LEMMA ServerInvariant == ASSUME IdsDoNotRepeat PROVE Spec => []ServerInv
  <1>1. ASSUME ServerInv, [Next]_vars PROVE ServerInv'
    BY <1>1, ServerStep
  <1> QED BY <1>1, ServerInit, PTL DEF Spec

LEMMA EndedGoalsAreOwn ==
    ASSUME ServerInv, NEW g \in Goals, result[g].why = "response"
    PROVE  /\ result[g].response.goal = g
           /\ result[g].response.ok <=> g \in applied
  BY DEF ServerInv, ResponsesInv

\* A goal that ends with a response ends with the board's answer to its own
\* frame: a success says that its operation was carried out, a refusal that
\* it was not, whatever is lost, late or shut down.  execute_callback and
\* _receiver_loop meet over serial_id_map alone.
THEOREM ResultsOwn == ASSUME IdsDoNotRepeat PROVE Spec => []ResultsAreOwn
  <1>1. Spec => []ServerInv
    BY ServerInvariant
  <1>2. ServerInv => ResultsAreOwn
    BY EndedGoalsAreOwn DEF ResultsAreOwn
  <1> QED BY <1>1, <1>2, PTL

\* _receiver_loop's "unsolicited" answers are answers to goals whose wait
\* timed out, and no others.
THEOREM DiscardsGivenUp == ASSUME IdsDoNotRepeat PROVE Spec => []DiscardsOnlyGivenUp
  <1>1. Spec => []ServerInv
    BY ServerInvariant
  <1>2. ServerInv => DiscardsOnlyGivenUp
    BY DEF ServerInv
  <1> QED BY <1>1, <1>2, PTL

---------------------------------------------------------------------------
(* The contract.                                                           *)

LEMMA ContractInit == Init => Contract!Init
  BY DEF Init, Contract!Init, StatusOf

\* What a step of goal g does to the status its client sees.
LEMMA StatusMoves ==
    ASSUME ServerInv, NEW g \in Goals, AcceptsGoal(g) \/ Callback(g)
    PROVE  \/ StatusOf(g)' = StatusOf(g)
           \/ StatusOf(g) = "unknown" /\ StatusOf(g)' = "accepted"
           \/ /\ StatusOf(g) = "accepted"
              /\ \/ StatusOf(g)' = "succeeded" /\ g \in applied
                 \/ StatusOf(g)' = "refused" /\ g \notin applied
                 \/ StatusOf(g)' = "abandoned"
  <1>1. goalPc \in [Goals -> {"idle", "accepted", "allocate", "register", "put",
                              "wait", "collect", "unmap", "done"}]
    BY DEF ServerInv, TypeOK, GoalsTypeOK
  <1>2. CASE goalPc[g] = "idle"
    <2>1. goalPc'[g] = "accepted"
      BY <1>2, CallbackMoves DEF ServerInv
    <2> QED BY <1>2, <2>1 DEF StatusOf
  <1>3. CASE goalPc[g] # "idle" /\ goalPc'[g] # "done"
    <2>1. goalPc[g] # "done" /\ goalPc'[g] # "idle"
      BY <1>3, CallbackMoves DEF ServerInv
    <2> QED BY <1>3, <2>1 DEF StatusOf
  <1>4. CASE goalPc[g] = "accepted" /\ goalPc'[g] = "done"
    <2>1. result'[g].why = "exception"
      BY <1>4, CallbackMoves DEF ServerInv
    <2>2. g \notin applied
      BY <1>4 DEF ServerInv, ResponsesInv, OutcomeInv, Sent, Allocated
    <2> QED BY <1>4, <2>1, <2>2 DEF StatusOf
  <1>5. CASE goalPc[g] = "unmap" /\ goalPc'[g] = "done"
    <2>1. result' = result
      BY <1>5, CallbackMoves DEF ServerInv
    <2>2. result[g].why \in {"response", "timeout"}
      BY <1>5 DEF ServerInv, OutcomeInv
    <2>3. result[g].why = "response" => (result[g].response.ok <=> g \in applied)
      BY EndedGoalsAreOwn
    <2> QED BY <1>5, <2>1, <2>2, <2>3 DEF StatusOf
  <1>6. goalPc'[g] = "done" => goalPc[g] \in {"accepted", "unmap"}
    BY CallbackMoves DEF ServerInv
  <1> QED BY <1>2, <1>3, <1>4, <1>5, <1>6

LEMMA ContractStep ==
    ASSUME ServerInv, [Next]_vars
    PROVE  [Contract!Next]_(Contract!vars)
  <1> DEFINE Status == [g \in Goals |-> StatusOf(g)]
  <1>1. CASE UNCHANGED <<goalPc, result, applied>>
    BY <1>1 DEF Contract!vars, StatusOf
  <1>2. ASSUME NEW g \in Goals, AcceptsGoal(g) \/ Callback(g)
        PROVE  [Contract!Next]_(Contract!vars)
    <2>1. /\ applied' = applied
          /\ \A h \in Goals \ {g} : goalPc'[h] = goalPc[h] /\ result'[h] = result[h]
      BY <1>2, CallbackIsLocal DEF ServerInv, boardVars
    <2>2. \A h \in Goals \ {g} : StatusOf(h)' = StatusOf(h)
      BY <2>1 DEF StatusOf
    <2>3. Status' = [Status EXCEPT ![g] = StatusOf(g)']
      BY <2>2
    <2>4. Status[g] = StatusOf(g)
      OBVIOUS
    <2>5. StatusOf(g)' = StatusOf(g) => Status' = Status
      BY <2>2
    <2> HIDE DEF Status
    <2>6. CASE StatusOf(g)' = StatusOf(g)
      BY <2>1, <2>5, <2>6 DEF Contract!vars, Status
    <2>7. CASE StatusOf(g) = "unknown" /\ StatusOf(g)' = "accepted"
      <3>1. Contract!Accept(g)
        BY <2>1, <2>3, <2>4, <2>7 DEF Contract!Accept, Contract!Turns, Status
      <3> QED BY <3>1 DEF Contract!Next
    <2>8. CASE StatusOf(g) = "accepted" /\ StatusOf(g)' = "succeeded" /\ g \in applied
      <3>1. Contract!Succeed(g)
        BY <2>1, <2>3, <2>4, <2>8 DEF Contract!Succeed, Contract!Turns, Status
      <3> QED BY <3>1 DEF Contract!Next
    <2>9. CASE StatusOf(g) = "accepted" /\ StatusOf(g)' = "refused" /\ g \notin applied
      <3>1. Contract!Refuse(g)
        BY <2>1, <2>3, <2>4, <2>9 DEF Contract!Refuse, Contract!Turns, Status
      <3> QED BY <3>1 DEF Contract!Next
    <2>10. CASE StatusOf(g) = "accepted" /\ StatusOf(g)' = "abandoned"
      <3>1. Contract!Abandon(g)
        BY <2>1, <2>3, <2>4, <2>10 DEF Contract!Abandon, Contract!Turns, Status
      <3> QED BY <3>1 DEF Contract!Next
    <2> QED BY <1>2, <2>6, <2>7, <2>8, <2>9, <2>10, StatusMoves
  <1>3. CASE Board
    <2>1. PICK frame \in device :
             \/ BoardLoses(frame)
             \/ \E ok, lost \in BOOLEAN : BoardAnswers(frame, ok, lost)
      BY <1>3 DEF Board
    <2>2. UNCHANGED <<goalPc, result>>
          /\ applied' \in {applied, applied \cup {frame.goal}}
      BY <2>1 DEF BoardLoses, BoardAnswers, goalVars
    <2>3. CASE applied' = applied
      BY <1>1, <2>2, <2>3
    <2>4. CASE applied' = applied \cup {frame.goal}
      <3> DEFINE g == frame.goal
      <3>1. FrameIsOwn(frame)
        BY BoardFrameIsAlone DEF ServerInv
      <3>2. /\ g \in Goals /\ g \in Sent /\ g \in Allocated /\ g \notin applied
            /\ serialResponse[g] = NoResponse
        BY <3>1 DEF FrameIsOwn, Sent, Allocated
      <3>3. g \notin MalformedGoals /\ goalPc[g] # "idle"
        BY <3>2 DEF ServerInv, OutcomeInv, Allocated
      <3>4. goalPc[g] = "done" => result[g].why = "timeout"
        BY <3>2 DEF ServerInv, ResponsesInv, OutcomeInv, Allocated, TypeOK, GoalsTypeOK
      <3>5. StatusOf(g) \in {"accepted", "abandoned"}
        BY <3>3, <3>4 DEF StatusOf
      <3>6. Status' = Status /\ Status[g] = StatusOf(g)
        BY <2>2, <3>2 DEF StatusOf
      <3> HIDE DEF g, Status
      <3>7. Contract!Apply(g)
        BY <2>4, <3>2, <3>3, <3>5, <3>6 DEF Contract!Apply, Status, g
      <3> QED BY <3>2, <3>7 DEF Contract!Next
    <2> QED BY <2>2, <2>3, <2>4
  <1>4. CASE Sender \/ Receiver \/ Matcher \/ Interrupts \/ Shutdown
    BY <1>1, <1>4, OthersLeaveGoals, UnderwayShrinks DEF ServerInv
  <1> QED BY <1>1, <1>2, <1>3, <1>4 DEF Next, vars, goalVars, boardVars

\* The action server implements ActionContract: a success means done, a
\* refusal means never, a timeout means neither, and nothing is carried out
\* twice or for a goal nobody sent.
THEOREM ImplementsContract == ASSUME IdsDoNotRepeat PROVE Spec => ContractImplemented
  <1>1. Spec => []ServerInv
    BY ServerInvariant
  <1> QED
    BY <1>1, ContractInit, ContractStep, PTL DEF Spec, ContractImplemented, Contract!Spec
=============================================================================
