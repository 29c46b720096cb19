---------------------------- MODULE BenchSafety ----------------------------
(***************************************************************************)
(* What the verdict of the bench script means.                             *)
(***************************************************************************)
EXTENDS BenchScript

Lines == [type: {"S", "E", "B"}, request_id: 0 .. Len(frames) + 1,
          error: {0, 3, SUCCESS_ERROR_CODE}]
Pieces == [line: Lines, part: {"front", "back", "LF"}]

TypeOK ==
    /\ pc \in {"args", "send", "flush", "drain", "wait", "join", "last", "returned"}
    /\ returned \in 0 .. 3
    /\ sent \in 0 .. Len(frames)
    /\ \A lines \in {received, queue, put} :
          \A i \in DOMAIN lines : lines[i] # <<>> /\ lines[i] \in Seq(Pieces)
    /\ stopEvent \in BOOLEAN
    /\ reader \in {"off", "checks", "reads", "done", "died"}
    /\ {buffer, wire, writing} \subseteq Seq(Pieces)
    /\ waiting \subseteq 1 .. sent
    /\ verdicts \in [1 .. Len(frames) -> {"none", "success", "error", "lost"}]
    /\ debugLines \in 0 .. MaxDebugLines
    /\ longReads \in BOOLEAN

\* However a read is cut short by its timeout, the reader neither splits nor
\* joins the board's lines: only the first line can be the rest of one that
\* began before the script did, and only the last one cut by the stop.
OnlyEndsAreCut ==
    \A i \in DOMAIN put :
        Parses(put[i]) \/ (i = 1 /\ leftover # <<>>) \/ (i = Len(put) /\ reader = "done")

\* main receives every line the reader puts, in order, and none is left in
\* the queue when it validates, unless the join could time out first.
EveryLineReceived ==
    /\ received \o queue = put
    /\ pc = "returned" /\ stopEvent /\ ~longReads =>
          received = put /\ reader \in {"done", "died"}

\* The id of an answer to a request of an earlier run, whose ids were the
\* same, that comes in whole.
StaleIds ==
    IF leftover # <<>> /\ Head(leftover).part = "front"
    THEN {Head(leftover).line.request_id} ELSE {}

\* The script only reports success when the board answered every frame with
\* success.  An answer left over from an earlier run can stand in for one that
\* is lost or late, but only for the one with its own id.
PassMeansAnswered ==
    returned = 0 =>
        /\ sent = Len(frames)
        /\ \A id \in DOMAIN verdicts \ StaleIds : verdicts[id] = "success"

\* The answers that were whole when they were put.
AnsweredInTime(id) ==
    \E i \in DOMAIN received :
        /\ Parses(received[i])
        /\ received[i][1].line = Answer("S", id, SUCCESS_ERROR_CODE)

\* When every frame was answered with success in time, no answer was left over
\* and no line was cut off, the script does not report a failure, however many
\* debug frames the board sends between the answers.
FailMeansFailed ==
    returned = 1 /\ stopEvent /\ frames # <<>> /\ StaleIds = {} =>
        \/ \E id \in DOMAIN verdicts : ~AnsweredInTime(id)
        \/ \E i \in DOMAIN received : ~Parses(received[i])

\* Whatever the board answers, the script ends, unless a flush never returns
\* because the board has stopped taking bytes.
ScriptReturns == <>(pc = "returned") \/ <>[](pc = "flush")
=============================================================================
