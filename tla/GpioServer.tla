----------------------------- MODULE GpioServer -----------------------------
(***************************************************************************)
(* The host's action server: executor threads that run execute_callback,   *)
(* the sender, receiver and response-matching threads, and the main thread *)
(* that shuts them down.  They share two unbounded queues, serial_id_map,  *)
(* the serial port and the stop token.                                     *)
(*                                                                         *)
(* A request is what is told apart of it: the goal it was made for.  The   *)
(* board and the line are one external actor, which may carry a request    *)
(* out or refuse it, answer late, or lose the request or its answer.  A    *)
(* timeout may expire whenever what it waits for has not happened.         *)
(***************************************************************************)
EXTENDS Naturals, Sequences, FiniteSets

CONSTANTS
    Goals,           \* goal handles
    MalformedGoals,  \* those whose type codes are in no table
    NoGoal,          \* None
    IdSpace,         \* number of serial ids, 65536 in the code
    Threads          \* threads of the MultiThreadedExecutor

ASSUME GoalsAssumption == MalformedGoals \subseteq Goals /\ NoGoal \notin Goals
ASSUME SizesAssumption == IdSpace \in Nat \ {0} /\ Threads \in Nat \ {0}

SerialIds == 0 .. IdSpace - 1

NoFrame == [request_id |-> 0, goal |-> NoGoal]
NoResponse == [request_id |-> 0, goal |-> NoGoal, ok |-> FALSE]

VARIABLES
    goalPc,          \* goal -> where its execute_callback is
    sid,             \* goal -> its serial id
    completed,       \* goal -> its completion_event
    serialResponse,  \* goal -> goal_handle._serial_response
    result,          \* goal -> [why, response] it is aborted or succeeds with
    nextSerialId,    \* _next_serial_id
    serialIdMap,     \* serial_id_map, NoGoal where there is no entry
    senderQueue,     \* sender_frames_queue
    receiverQueue,   \* receiver_frames_queue
    stopToken,       \* stop_token
    portOpen,        \* serial_handler.serial_port is open
    sender,          \* sender_thread: [pc, frame]
    receiverPc,      \* receiver_thread
    matcher,         \* receiver_loop: [pc, response, goal]
    mainPc,          \* main()
    device,          \* requests on their way to the board or being served
    line,            \* answers on their way to receiver_frames_queue
    applied,         \* history: goals whose request the board carried out
    unsolicited      \* history: goals whose answer found no mapping

goalVars   == <<goalPc, sid, completed, serialResponse, result>>
idVars     == <<nextSerialId, serialIdMap>>
threadVars == <<sender, receiverPc, matcher, mainPc>>
boardVars  == <<device, line, applied>>
vars == <<goalVars, idVars, senderQueue, receiverQueue, stopToken, portOpen,
          threadVars, boardVars, unsolicited>>

Init ==
    /\ goalPc = [g \in Goals |-> "idle"]
    /\ sid = [g \in Goals |-> 0]
    /\ completed = [g \in Goals |-> FALSE]
    /\ serialResponse = [g \in Goals |-> NoResponse]
    /\ result = [g \in Goals |-> [why |-> "none", response |-> NoResponse]]
    /\ nextSerialId = 0
    /\ serialIdMap = [i \in SerialIds |-> NoGoal]
    /\ senderQueue = <<>>
    /\ receiverQueue = <<>>
    /\ stopToken = FALSE
    /\ portOpen = TRUE
    /\ sender = [pc |-> "check", frame |-> NoFrame]
    /\ receiverPc = "check"
    /\ matcher = [pc |-> "check", response |-> NoResponse, goal |-> NoGoal]
    /\ mainPc = "spin"
    /\ device = {}
    /\ line = <<>>
    /\ applied = {}
    /\ unsolicited = {}

---------------------------------------------------------------------------
(* execute_callback, one instance per goal.                                *)

GoalAt(g, from, to) ==
    /\ goalPc[g] = from
    /\ goalPc' = [goalPc EXCEPT ![g] = to]

Executing == {g \in Goals : goalPc[g] \notin {"idle", "accepted", "done"}}

\* The action server accepts the goal and its execution waits for a thread.
AcceptsGoal(g) ==
    /\ mainPc = "spin"
    /\ GoalAt(g, "idle", "accepted")
    /\ UNCHANGED <<sid, completed, serialResponse, result, idVars, senderQueue,
                   receiverQueue, stopToken, portOpen, threadVars, boardVars,
                   unsolicited>>

StartsGoal(g) ==
    /\ mainPc = "spin"
    /\ Cardinality(Executing) < Threads
    /\ g \notin MalformedGoals
    /\ GoalAt(g, "accepted", "allocate")
    /\ UNCHANGED <<sid, completed, serialResponse, result, idVars, senderQueue,
                   receiverQueue, stopToken, portOpen, threadVars, boardVars,
                   unsolicited>>

\* A lookup in the INT_TO_ tables raises and rclpy aborts the goal.
FailsConversion(g) ==
    /\ mainPc = "spin"
    /\ Cardinality(Executing) < Threads
    /\ g \in MalformedGoals
    /\ GoalAt(g, "accepted", "done")
    /\ result' = [result EXCEPT ![g].why = "exception"]
    /\ UNCHANGED <<sid, completed, serialResponse, idVars, senderQueue,
                   receiverQueue, stopToken, portOpen, threadVars, boardVars,
                   unsolicited>>

\* Mutant: the next id is not wrapped to 16 bits.
AllocatesIdUnwrapped(g) ==
    /\ GoalAt(g, "allocate", "register")
    /\ sid' = [sid EXCEPT ![g] = nextSerialId]
    /\ nextSerialId' = nextSerialId + 1
    /\ UNCHANGED <<completed, serialResponse, result, serialIdMap, senderQueue,
                   receiverQueue, stopToken, portOpen, threadVars, boardVars,
                   unsolicited>>

\* Mutant: the counter is read and not advanced.
AllocatesIdAgain(g) ==
    /\ GoalAt(g, "allocate", "register")
    /\ sid' = [sid EXCEPT ![g] = nextSerialId]
    /\ UNCHANGED <<completed, serialResponse, result, idVars, senderQueue,
                   receiverQueue, stopToken, portOpen, threadVars, boardVars,
                   unsolicited>>

\* _allocate_serial_id, under serial_id_lock.
AllocatesId(g) ==
    /\ GoalAt(g, "allocate", "register")
    /\ sid' = [sid EXCEPT ![g] = nextSerialId]
    /\ nextSerialId' = (nextSerialId + 1) % IdSpace
    /\ UNCHANGED <<completed, serialResponse, result, serialIdMap, senderQueue,
                   receiverQueue, stopToken, portOpen, threadVars, boardVars,
                   unsolicited>>

\* Under serial_id_map_lock; an entry that is there already is replaced.
RegistersGoal(g) ==
    /\ GoalAt(g, "register", "put")
    /\ serialIdMap' = [serialIdMap EXCEPT ![sid[g]] = g]
    /\ UNCHANGED <<sid, completed, serialResponse, result, nextSerialId,
                   senderQueue, receiverQueue, stopToken, portOpen, threadVars,
                   boardVars, unsolicited>>

\* put_nowait; the queue is unbounded, so queue.Full is never raised.
QueuesFrame(g) ==
    /\ GoalAt(g, "put", "wait")
    /\ senderQueue' = Append(senderQueue, [request_id |-> sid[g], goal |-> g])
    /\ UNCHANGED <<sid, completed, serialResponse, result, idVars,
                   receiverQueue, stopToken, portOpen, threadVars, boardVars,
                   unsolicited>>

\* completion_event.wait(timeout=2.0) returns True, or False.
Wakes(g) ==
    /\ completed[g]
    /\ GoalAt(g, "wait", "collect")
    /\ UNCHANGED <<sid, completed, serialResponse, result, idVars, senderQueue,
                   receiverQueue, stopToken, portOpen, threadVars, boardVars,
                   unsolicited>>

\* Mutant: the wait has no timeout.
TimesOutNever(g) ==
    /\ ~completed[g] /\ goalPc[g] = "forever"
    /\ UNCHANGED vars

TimesOut(g) ==
    /\ ~completed[g]
    /\ GoalAt(g, "wait", "unmap")
    /\ result' = [result EXCEPT ![g].why = "timeout"]
    /\ UNCHANGED <<sid, completed, serialResponse, idVars, senderQueue,
                   receiverQueue, stopToken, portOpen, threadVars, boardVars,
                   unsolicited>>

\* Mutant: any response is taken for a success.
CollectsUnchecked(g) ==
    /\ GoalAt(g, "collect", "unmap")
    /\ result' = [result EXCEPT ![g] = [why |-> "response",
                           response |-> [serialResponse[g] EXCEPT !.ok = TRUE]]]
    /\ UNCHANGED <<sid, completed, serialResponse, idVars, senderQueue,
                   receiverQueue, stopToken, portOpen, threadVars, boardVars,
                   unsolicited>>

CollectsResponse(g) ==
    /\ GoalAt(g, "collect", "unmap")
    /\ result' = [result EXCEPT ![g] = [why |-> "response",
                                        response |-> serialResponse[g]]]
    /\ UNCHANGED <<sid, completed, serialResponse, idVars, senderQueue,
                   receiverQueue, stopToken, portOpen, threadVars, boardVars,
                   unsolicited>>

\* Mutant: the goal ends and leaves its mapping behind.
EndsGoalMapped(g) ==
    /\ GoalAt(g, "unmap", "done")
    /\ UNCHANGED <<sid, completed, serialResponse, result, idVars,
                   senderQueue, receiverQueue, stopToken, portOpen, threadVars,
                   boardVars, unsolicited>>

\* Mutant: the map is cleared when a goal ends.
EndsGoalClearing(g) ==
    /\ GoalAt(g, "unmap", "done")
    /\ serialIdMap' = [i \in SerialIds |-> NoGoal]
    /\ UNCHANGED <<sid, completed, serialResponse, result, nextSerialId,
                   senderQueue, receiverQueue, stopToken, portOpen, threadVars,
                   boardVars, unsolicited>>

\* serial_id_map.pop(sid, None) under its lock, then abort() or succeed().
EndsGoal(g) ==
    /\ GoalAt(g, "unmap", "done")
    /\ serialIdMap' = [serialIdMap EXCEPT ![sid[g]] = NoGoal]
    /\ UNCHANGED <<sid, completed, serialResponse, result, nextSerialId,
                   senderQueue, receiverQueue, stopToken, portOpen, threadVars,
                   boardVars, unsolicited>>

Callback(g) ==
    \/ StartsGoal(g) \/ FailsConversion(g) \/ AllocatesId(g) \/ RegistersGoal(g)
    \/ QueuesFrame(g) \/ Wakes(g) \/ TimesOut(g) \/ CollectsResponse(g)
    \/ EndsGoal(g)

---------------------------------------------------------------------------
(* SGPIOFrameSender._sender_loop                                           *)

SenderChecks ==
    /\ sender.pc = "check"
    /\ sender' = [sender EXCEPT !.pc = IF stopToken THEN "stopped" ELSE "get"]
    /\ UNCHANGED <<goalVars, idVars, senderQueue, receiverQueue, stopToken,
                   portOpen, receiverPc, matcher, mainPc, boardVars, unsolicited>>

SenderGets ==
    /\ sender.pc = "get"
    /\ IF senderQueue = <<>>
       THEN /\ sender' = [sender EXCEPT !.pc = "check"]
            /\ UNCHANGED senderQueue
       ELSE /\ sender' = [pc |-> "send", frame |-> Head(senderQueue)]
            /\ senderQueue' = Tail(senderQueue)
    /\ UNCHANGED <<goalVars, idVars, receiverQueue, stopToken, portOpen,
                   receiverPc, matcher, mainPc, boardVars, unsolicited>>

SenderSends ==
    /\ sender.pc = "send"
    /\ portOpen
    /\ device' = device \cup {sender.frame}
    /\ sender' = [pc |-> "check", frame |-> NoFrame]
    /\ UNCHANGED <<goalVars, idVars, senderQueue, receiverQueue, stopToken,
                   portOpen, receiverPc, matcher, mainPc, line, applied,
                   unsolicited>>

\* A SerialPortError: a failed or short write, or a port that was closed.
SenderFails ==
    /\ sender.pc = "send"
    /\ stopToken' = TRUE
    /\ sender' = [pc |-> "stopped", frame |-> NoFrame]
    /\ UNCHANGED <<goalVars, idVars, senderQueue, receiverQueue, portOpen,
                   receiverPc, matcher, mainPc, boardVars, unsolicited>>

---------------------------------------------------------------------------
(* SGPIOFrameReceiver._receiver_loop                                       *)

ReceiverChecks ==
    /\ receiverPc = "check"
    /\ receiverPc' = IF stopToken THEN "stopped" ELSE "receive"
    /\ UNCHANGED <<goalVars, idVars, senderQueue, receiverQueue, stopToken,
                   portOpen, sender, matcher, mainPc, boardVars, unsolicited>>

\* receive() returns a frame, or None: nothing, an incomplete frame, garbage.
ReceiverReads ==
    /\ receiverPc = "receive"
    /\ portOpen
    /\ receiverPc' = "check"
    /\ \/ UNCHANGED <<line, receiverQueue>>
       \/ /\ line # <<>>
          /\ receiverQueue' = Append(receiverQueue, Head(line))
          /\ line' = Tail(line)
    /\ UNCHANGED <<goalVars, idVars, senderQueue, stopToken, portOpen, sender,
                   matcher, mainPc, device, applied, unsolicited>>

ReceiverFails ==
    /\ receiverPc = "receive"
    /\ stopToken' = TRUE
    /\ receiverPc' = "stopped"
    /\ UNCHANGED <<goalVars, idVars, senderQueue, receiverQueue, portOpen,
                   sender, matcher, mainPc, boardVars, unsolicited>>

---------------------------------------------------------------------------
(* GpioServer._receiver_loop                                               *)

MatcherChecks ==
    /\ matcher.pc = "check"
    /\ matcher' = [matcher EXCEPT !.pc = IF stopToken THEN "stopped" ELSE "get"]
    /\ UNCHANGED <<goalVars, idVars, senderQueue, receiverQueue, stopToken,
                   portOpen, sender, receiverPc, mainPc, boardVars, unsolicited>>

MatcherGets ==
    /\ matcher.pc = "get"
    /\ IF receiverQueue = <<>>
       THEN /\ matcher' = [matcher EXCEPT !.pc = "check"]
            /\ UNCHANGED receiverQueue
       ELSE /\ matcher' = [matcher EXCEPT !.pc = "lookup",
                                          !.response = Head(receiverQueue)]
            /\ receiverQueue' = Tail(receiverQueue)
    /\ UNCHANGED <<goalVars, idVars, senderQueue, stopToken, portOpen, sender,
                   receiverPc, mainPc, boardVars, unsolicited>>

MatcherIdle == [pc |-> "check", response |-> NoResponse, goal |-> NoGoal]

\* serial_id_map.get(serial_id), the only part that holds the lock.
MatcherLooksUp ==
    LET mapping == serialIdMap[matcher.response.request_id]
    IN /\ matcher.pc = "lookup"
       /\ IF mapping = NoGoal
          THEN /\ matcher' = MatcherIdle
               /\ unsolicited' = unsolicited \cup {matcher.response.goal}
          ELSE /\ matcher' = [matcher EXCEPT !.pc = "attach", !.goal = mapping]
               /\ UNCHANGED unsolicited
       /\ UNCHANGED <<goalVars, idVars, senderQueue, receiverQueue, stopToken,
                      portOpen, sender, receiverPc, mainPc, boardVars>>

\* Mutant: the event is set before the response is attached.
MatcherAttachesLate ==
    /\ matcher.pc = "attach"
    /\ completed' = [completed EXCEPT ![matcher.goal] = TRUE]
    /\ matcher' = [matcher EXCEPT !.pc = "set"]
    /\ UNCHANGED <<goalPc, sid, serialResponse, result, idVars, senderQueue,
                   receiverQueue, stopToken, portOpen, sender, receiverPc,
                   mainPc, boardVars, unsolicited>>

MatcherAttaches ==
    /\ matcher.pc = "attach"
    /\ serialResponse' = [serialResponse EXCEPT ![matcher.goal] = matcher.response]
    /\ matcher' = [matcher EXCEPT !.pc = "set"]
    /\ UNCHANGED <<goalPc, sid, completed, result, idVars, senderQueue,
                   receiverQueue, stopToken, portOpen, sender, receiverPc,
                   mainPc, boardVars, unsolicited>>

MatcherSetsEvent ==
    /\ matcher.pc = "set"
    /\ completed' = [completed EXCEPT ![matcher.goal] = TRUE]
    /\ matcher' = MatcherIdle
    /\ UNCHANGED <<goalPc, sid, serialResponse, result, idVars, senderQueue,
                   receiverQueue, stopToken, portOpen, sender, receiverPc,
                   mainPc, boardVars, unsolicited>>

---------------------------------------------------------------------------
(* main() and destroy_node().                                              *)

MainAt(from, to) == mainPc = from /\ mainPc' = to

\* KeyboardInterrupt and executor.shutdown(): no goal starts any more.
Interrupts ==
    /\ MainAt("spin", "stop")
    /\ UNCHANGED <<goalVars, idVars, senderQueue, receiverQueue, stopToken,
                   portOpen, sender, receiverPc, matcher, boardVars, unsolicited>>

\* Mutant: destroy_node joins nobody.
SetsStopTokenOnly ==
    /\ MainAt("stop", "disconnect")
    /\ stopToken' = TRUE
    /\ UNCHANGED <<goalVars, idVars, senderQueue, receiverQueue, portOpen,
                   sender, receiverPc, matcher, boardVars, unsolicited>>

SetsStopToken ==
    /\ MainAt("stop", "joinSender")
    /\ stopToken' = TRUE
    /\ UNCHANGED <<goalVars, idVars, senderQueue, receiverQueue, portOpen,
                   sender, receiverPc, matcher, boardVars, unsolicited>>

\* Mutant: the sender is joined without a timeout.
JoinsSenderForGood ==
    /\ sender.pc = "stopped"
    /\ MainAt("joinSender", "joinReceiver")
    /\ UNCHANGED <<goalVars, idVars, senderQueue, receiverQueue, stopToken,
                   portOpen, sender, receiverPc, matcher, boardVars, unsolicited>>

\* sender.join(timeout=1.0), which gives up whatever the sender does.
JoinsSender ==
    /\ MainAt("joinSender", "joinReceiver")
    /\ UNCHANGED <<goalVars, idVars, senderQueue, receiverQueue, stopToken,
                   portOpen, sender, receiverPc, matcher, boardVars, unsolicited>>

\* receiver.join(timeout=1.5); a read takes a second at most.
JoinsReceiver ==
    /\ receiverPc = "stopped"
    /\ MainAt("joinReceiver", "joinMatcher")
    /\ UNCHANGED <<goalVars, idVars, senderQueue, receiverQueue, stopToken,
                   portOpen, sender, receiverPc, matcher, boardVars, unsolicited>>

\* receiver_thread.join(timeout=1.0); a get takes half a second at most.
JoinsMatcher ==
    /\ matcher.pc = "stopped"
    /\ MainAt("joinMatcher", "disconnect")
    /\ UNCHANGED <<goalVars, idVars, senderQueue, receiverQueue, stopToken,
                   portOpen, sender, receiverPc, matcher, boardVars, unsolicited>>

Disconnects ==
    /\ MainAt("disconnect", "destroyed")
    /\ portOpen' = FALSE
    /\ UNCHANGED <<goalVars, idVars, senderQueue, receiverQueue, stopToken,
                   sender, receiverPc, matcher, boardVars, unsolicited>>

---------------------------------------------------------------------------
(* The board and the line.                                                 *)

BoardLoses(frame) ==
    /\ frame \in device
    /\ device' = device \ {frame}
    /\ UNCHANGED <<goalVars, idVars, senderQueue, receiverQueue, stopToken,
                   portOpen, threadVars, line, applied, unsolicited>>

BoardAnswers(frame, ok, lost) ==
    /\ frame \in device
    /\ device' = device \ {frame}
    /\ applied' = IF ok THEN applied \cup {frame.goal} ELSE applied
    /\ line' = IF lost THEN line
               ELSE Append(line, [request_id |-> frame.request_id,
                                  goal |-> frame.goal, ok |-> ok])
    /\ UNCHANGED <<goalVars, idVars, senderQueue, receiverQueue, stopToken,
                   portOpen, threadVars, unsolicited>>

---------------------------------------------------------------------------
Sender   == SenderChecks \/ SenderGets \/ SenderSends \/ SenderFails
Receiver == ReceiverChecks \/ ReceiverReads \/ ReceiverFails
Matcher  ==
    \/ MatcherChecks \/ MatcherGets \/ MatcherLooksUp \/ MatcherAttaches
    \/ MatcherSetsEvent
Shutdown ==
    SetsStopToken \/ JoinsSender \/ JoinsReceiver \/ JoinsMatcher \/ Disconnects
Board ==
    \E frame \in device :
        \/ BoardLoses(frame)
        \/ \E ok, lost \in BOOLEAN : BoardAnswers(frame, ok, lost)

Next ==
    \/ \E g \in Goals : AcceptsGoal(g) \/ Callback(g)
    \/ Sender \/ Receiver \/ Matcher
    \/ Interrupts \/ Shutdown
    \/ Board

Spec == Init /\ [][Next]_vars

\* The operating system runs every thread that is not blocked.  A write may
\* block for good, the board owes nothing, nobody has to press Ctrl-C.
Fairness ==
    /\ \A g \in Goals : WF_vars(Callback(g))
    /\ WF_vars(SenderChecks \/ SenderGets)
    /\ WF_vars(Receiver)
    /\ WF_vars(Matcher)
    /\ WF_vars(Shutdown)

FairSpec == Spec /\ Fairness
=============================================================================
