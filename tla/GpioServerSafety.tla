-------------------------- MODULE GpioServerSafety --------------------------
(***************************************************************************)
(* What the action server promises to its clients, and how it shuts down.  *)
(***************************************************************************)
EXTENDS GpioServer

Frame == [request_id: SerialIds, goal: Goals]
Response == [request_id: SerialIds, goal: Goals, ok: BOOLEAN]

GoalsTypeOK ==
    /\ goalPc \in [Goals -> {"idle", "accepted", "allocate", "register", "put",
                             "wait", "collect", "unmap", "done"}]
    /\ sid \in [Goals -> SerialIds]
    /\ completed \in [Goals -> BOOLEAN]
    /\ serialResponse \in [Goals -> Response \cup {NoResponse}]
    /\ result \in [Goals -> [why: {"none", "response", "timeout", "exception"},
                             response: Response \cup {NoResponse}]]
    /\ nextSerialId \in SerialIds
    /\ serialIdMap \in [SerialIds -> Goals \cup {NoGoal}]

FramesTypeOK ==
    /\ senderQueue \in Seq(Frame)
    /\ receiverQueue \in Seq(Response)
    /\ device \subseteq Frame
    /\ line \in Seq(Response)
    /\ applied \subseteq Goals
    /\ unsolicited \subseteq Goals

ThreadsTypeOK ==
    /\ stopToken \in BOOLEAN
    /\ portOpen \in BOOLEAN
    /\ sender \in [pc: {"check", "get", "send", "stopped"},
                   frame: Frame \cup {NoFrame}]
    /\ sender.pc = "send" => sender.frame \in Frame
    /\ receiverPc \in {"check", "receive", "stopped"}
    /\ matcher \in [pc: {"check", "get", "lookup", "attach", "set", "stopped"},
                    response: Response \cup {NoResponse},
                    goal: Goals \cup {NoGoal}]
    /\ matcher.pc \in {"lookup", "attach", "set"} => matcher.response \in Response
    /\ matcher.pc \in {"attach", "set"} => matcher.goal \in Goals
    /\ mainPc \in {"spin", "stop", "joinSender", "joinReceiver", "joinMatcher",
                   "disconnect", "destroyed"}

\* A thread that uses a frame, a response or a goal has got one, and every id
\* is one of the id space.
TypeOK == GoalsTypeOK /\ FramesTypeOK /\ ThreadsTypeOK

\* A goal that ends with a response ends with the board's answer to its own
\* frame, so a success means its operation was carried out; a refusal that
\* it was not.  A timeout tells nothing.
ResultsAreOwn ==
    \A g \in Goals : goalPc[g] = "done" /\ result[g].why = "response" =>
        /\ result[g].response.goal = g
        /\ result[g].response.ok <=> g \in applied

\* An answer the matcher finds no mapping for is the answer to a goal that
\* has given up: no answer overtakes the registration of its goal, and no
\* goal's mapping is removed by another.
DiscardsOnlyGivenUp ==
    \A g \in unsolicited : goalPc[g] = "done" /\ result[g].why = "timeout"

\* serial_id_map only has entries of goals that are executing, even when
\* serial ids come round again while older goals still wait.
MappingsAreLive ==
    \A i \in SerialIds : serialIdMap[i] # NoGoal =>
        /\ goalPc[serialIdMap[i]] \in {"put", "wait", "collect", "unmap"}
        /\ sid[serialIdMap[i]] = i

\* execute_callback's "No response attached" never happens: a goal that was
\* woken finds a response, whoever else was answered meanwhile.
WokenGoalsHaveResponse ==
    \A g \in Goals : goalPc[g] = "collect" => serialResponse[g] # NoResponse

\* The threads that read from the port have stopped before it is closed.
ReadersStopFirst ==
    ~portOpen => receiverPc = "stopped" /\ matcher.pc = "stopped"

\* Whatever the board, the line and the other threads do, a goal that was
\* accepted ends, also when the server is shut down meanwhile: only one that no
\* thread had taken up when main left spin is never executed.
EveryGoalEnds ==
    \A g \in Goals :
        goalPc[g] = "accepted" ~>
            (goalPc[g] = "done" \/ (goalPc[g] = "accepted" /\ mainPc # "spin"))

\* Ctrl-C ends the server although a write may be blocked for ever: whatever
\* its threads do, main gets to the end of destroy_node.
InterruptEndsServer == (mainPc # "spin") ~> (mainPc = "destroyed")

\* documentation/README.md: "background workers stop before the serial
\* transport is closed".  So the readers have stopped, and the sender is not
\* left with a frame that it is writing or about to write.
WorkersStopFirst == ReadersStopFirst /\ (~portOpen => sender.pc # "send")
=============================================================================
