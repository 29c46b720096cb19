---------------------------- MODULE BenchScript ----------------------------
(***************************************************************************)
(* scripts/send_test_frames.py: the main thread sends blink frames and     *)
(* drains the line queue, the SerialLineReader thread puts together the    *)
(* lines the board sends, and at the end the answers are validated.        *)
(*                                                                         *)
(* A line on the wire is three pieces that may arrive one at a time: its   *)
(* front, its back and the line feed.  The board answers each frame with   *)
(* success or an error, or loses it, in any order and at any time.         *)
(***************************************************************************)
EXTENDS Naturals, Sequences, FiniteSets

CONSTANTS
    PinChoices,     \* sequences of pins given with --pin
    BlinkCounts,    \* values of --blink-count
    MaxDebugLines   \* bound on the debug lines the board sends

ASSUME BenchAssumption ==
    /\ \A pins \in PinChoices : pins # <<>> /\ pins \in Seq(Nat)
    /\ BlinkCounts \subseteq Nat
    /\ MaxDebugLines \in Nat

MIN_PHYSICAL_PIN == 1
MAX_PHYSICAL_PIN == 41
SUCCESS_ERROR_CODE == 255

Answer(type, id, error) == [type |-> type, request_id |-> id, error |-> error]
DebugLine == Answer("B", 0, 0)

Piece(line, part) == [line |-> line, part |-> part]
LineFeed == Piece(DebugLine, "LF")
PiecesOf(line) == <<Piece(line, "front"), Piece(line, "back"), LineFeed>>

\* What may still come from before the script opened the port: nothing, an
\* answer to a request of an earlier run, or the rest of one.
Leftovers ==
    LET earlier == PiecesOf(Answer("S", 1, SUCCESS_ERROR_CODE))
    IN {<<>>, earlier, Tail(earlier), <<LineFeed>>}

---------------------------------------------------------------------------
(* The frames of a run.                                                    *)

\* Does normalize_pins accept the pins.
ValidPins(pins) ==
    /\ pins # <<>>
    /\ \A i \in DOMAIN pins : pins[i] \in MIN_PHYSICAL_PIN .. MAX_PHYSICAL_PIN
    /\ \A i, j \in DOMAIN pins : pins[i] = pins[j] => i = j

\* The frames of build_blink_batches in a row: for each cycle a batch that
\* sets every pin and one that clears it, with ids from one.
BlinkFrames(pins, count) ==
    [id \in 1 .. 2 * count * Len(pins) |->
        [request_id |-> id,
         pin_number |-> pins[((id - 1) % Len(pins)) + 1],
         value |-> IF ((id - 1) \div Len(pins)) % 2 = 0 THEN 1 ELSE 0]]

ExpectedRequestIds(frames) == {frames[i].request_id : i \in DOMAIN frames}

---------------------------------------------------------------------------
(* parse_response_line and validate_responses.  A received line is the     *)
(* sequence of the pieces it was put together from.                        *)

Parses(pieces) ==
    /\ Len(pieces) = 2
    /\ pieces[1].part = "front" /\ pieces[2].part = "back"
    /\ pieces[1].line = pieces[2].line

\* Mutant: debug frames are taken for answers.
AllParsed(lines) == {i \in DOMAIN lines : Parses(lines[i])}

\* The lines that go into responses_by_id.
AnswersIn(lines) ==
    {i \in DOMAIN lines : Parses(lines[i]) /\ lines[i][1].line.type # "B"}

MatchingResponses(lines, id) ==
    {i \in AnswersIn(lines) : lines[i][1].line.request_id = id}

\* Mutant: an error frame counts as the answer to its request.
FailuresWithoutErrors(ids, lines) ==
    [malformed  |-> Cardinality({i \in DOMAIN lines : ~Parses(lines[i])}),
     error      |-> 0,
     missing    |-> Cardinality({id \in ids : MatchingResponses(lines, id) = {}}),
     duplicate  |-> Cardinality({id \in ids :
                        Cardinality(MatchingResponses(lines, id)) > 1}),
     unexpected |-> Cardinality({lines[i][1].line.request_id : i \in AnswersIn(lines)} \ ids)]

\* The failure counts of validate_responses.
Failures(ids, lines) ==
    [malformed  |-> Cardinality({i \in DOMAIN lines : ~Parses(lines[i])}),
     error      |-> Cardinality({i \in AnswersIn(lines) :
                        LET answer == lines[i][1].line
                        IN answer.type # "S" \/ answer.error # SUCCESS_ERROR_CODE}),
     missing    |-> Cardinality({id \in ids : MatchingResponses(lines, id) = {}}),
     duplicate  |-> Cardinality({id \in ids :
                        Cardinality(MatchingResponses(lines, id)) > 1}),
     unexpected |-> Cardinality({lines[i][1].line.request_id : i \in AnswersIn(lines)} \ ids)]

\* What main returns once the lines are in.
ReturnCode(ids, lines) ==
    IF lines # <<>> /\ \A kind \in {"malformed", "error", "missing", "duplicate", "unexpected"} :
                           Failures(ids, lines)[kind] = 0
    THEN 0 ELSE 1

---------------------------------------------------------------------------
VARIABLES
    pins, frames, \* --pin and the frames made of it
    longReads,    \* a readline may take longer than the join waits
    pc,           \* main: "args", "send", "flush", "drain", "wait", "join", "last",
                  \* "returned"
    returned,     \* main: its return code, 3 before it returns
    sent,         \* main: frames written
    received,     \* main: received_lines
    queue,        \* response_queue
    stopEvent,    \* stop_event
    reader,       \* line reader: "off", "checks", "reads", "done", "died"
    buffer,       \* line reader: buffer
    wire,         \* pieces that have arrived and are not read
    writing,      \* pieces of the line the board is sending
    waiting,      \* board: ids of requests it has not answered
    verdicts,     \* board, history: id -> how it was answered
    debugLines,   \* board: debug lines sent
    leftover,     \* history: the line from before
    put           \* history: all lines the reader has put

mainVars == <<pc, returned, sent, received, stopEvent>>
readerVars == <<reader, buffer, put>>
boardVars == <<writing, waiting, verdicts, debugLines>>
argVars == <<pins, frames, longReads, leftover>>
vars == <<mainVars, queue, readerVars, wire, boardVars, argVars>>

Init ==
    /\ pins \in PinChoices
    /\ \E count \in BlinkCounts : frames = BlinkFrames(pins, count)
    /\ longReads \in BOOLEAN
    /\ leftover \in Leftovers
    /\ pc = "args" /\ returned = 3
    /\ sent = 0
    /\ received = <<>> /\ queue = <<>>
    /\ stopEvent = FALSE
    /\ reader = "off" /\ buffer = <<>> /\ put = <<>>
    /\ wire = <<>>
    /\ writing = leftover
    /\ waiting = {}
    /\ verdicts = [id \in ExpectedRequestIds(frames) |-> "none"]
    /\ debugLines = 0

Returns(code) == pc' = "returned" /\ returned' = code

---------------------------------------------------------------------------
(* main                                                                    *)

RefusesPins ==
    /\ pc = "args" /\ ~ValidPins(pins)
    /\ Returns(2)
    /\ UNCHANGED <<sent, received, stopEvent, queue, readerVars, wire, boardVars, argVars>>

\* No port, or it cannot be opened.
PortFails ==
    /\ pc = "args" /\ ValidPins(pins)
    /\ Returns(1)
    /\ UNCHANGED <<sent, received, stopEvent, queue, readerVars, wire, boardVars, argVars>>

\* The port is opened and the reader started.
StartsReader ==
    /\ pc = "args" /\ ValidPins(pins)
    /\ pc' = IF frames = <<>> THEN "wait" ELSE "send"
    /\ reader' = "checks"
    /\ UNCHANGED <<returned, sent, received, stopEvent, queue, buffer, put, wire,
                   boardVars, argVars>>

\* connection.write, which has a timeout.
WritesFrame ==
    /\ pc = "send"
    /\ sent' = sent + 1
    /\ waiting' = waiting \cup {frames[sent'].request_id}
    /\ pc' = "flush"
    /\ UNCHANGED <<returned, received, stopEvent, queue, readerVars, wire, writing,
                   verdicts, debugLines, argVars>>

\* connection.flush, which has none: it waits until the board has taken the
\* frame.
Flushes ==
    /\ pc = "flush"
    /\ pc' = "drain"
    /\ UNCHANGED <<returned, sent, received, stopEvent, queue, readerVars, wire,
                   boardVars, argVars>>

\* write or flush raises.
WriteFails ==
    /\ pc \in {"send", "flush"}
    /\ Returns(1)
    /\ UNCHANGED <<sent, received, stopEvent, queue, readerVars, wire, boardVars, argVars>>

\* response_queue.get and get_nowait, in the three loops that drain it.
TakesLine ==
    /\ pc \in {"drain", "wait", "last"}
    /\ queue # <<>>
    /\ received' = Append(received, Head(queue))
    /\ queue' = Tail(queue)
    /\ UNCHANGED <<pc, returned, sent, stopEvent, readerVars, wire, boardVars, argVars>>

\* Mutant: the loop waits for the answer to the frame.
QueueEmptyWaits ==
    /\ pc = "drain" /\ queue = <<>>
    /\ pc' = IF Len(received) < sent THEN "drain"
             ELSE IF sent < Len(frames) THEN "send" ELSE "wait"
    /\ UNCHANGED <<returned, sent, received, stopEvent, queue, readerVars, wire,
                   boardVars, argVars>>

QueueEmpty ==
    /\ pc = "drain" /\ queue = <<>>
    /\ pc' = IF sent < Len(frames) THEN "send" ELSE "wait"
    /\ UNCHANGED <<returned, sent, received, stopEvent, queue, readerVars, wire,
                   boardVars, argVars>>

\* wait_seconds are over.
Deadline ==
    /\ pc = "wait"
    /\ pc' = "join"
    /\ stopEvent' = TRUE
    /\ UNCHANGED <<returned, sent, received, queue, readerVars, wire, boardVars, argVars>>

\* Mutant: the join does not wait for the reader.
JoinAtOnce ==
    /\ pc = "join"
    /\ pc' = "last"
    /\ UNCHANGED <<returned, sent, received, stopEvent, queue, readerVars, wire,
                   boardVars, argVars>>

\* line_reader.join(timeout=1.0).  A reader that was told to stop has ended
\* within the second, unless its readline takes longer: with a --timeout that
\* long, or with bytes that keep coming, each of which restarts the timeout.
Join ==
    /\ pc = "join"
    /\ stopEvent /\ ~longReads => reader \in {"done", "died"}
    /\ pc' = "last"
    /\ UNCHANGED <<returned, sent, received, stopEvent, queue, readerVars, wire,
                   boardVars, argVars>>

Validates ==
    /\ pc = "last" /\ queue = <<>>
    /\ Returns(ReturnCode(ExpectedRequestIds(frames), received))
    /\ UNCHANGED <<sent, received, stopEvent, queue, readerVars, wire, boardVars, argVars>>

---------------------------------------------------------------------------
(* SerialLineReader.run                                                    *)

Running == pc # "returned"

ChecksStop ==
    /\ Running /\ reader = "checks" /\ ~stopEvent
    /\ reader' = "reads"
    /\ UNCHANGED <<mainVars, queue, buffer, put, wire, boardVars, argVars>>

\* Mutant: blank lines are put too.
PutsAny(line) == queue' = Append(queue, line) /\ put' = Append(put, line)

Puts(line) ==
    IF line = <<>> THEN UNCHANGED <<queue, put>>
    ELSE queue' = Append(queue, line) /\ put' = Append(put, line)

\* The loop ends, and what is left in the buffer is put as a line.
Stops ==
    /\ Running /\ reader = "checks" /\ stopEvent
    /\ reader' = "done"
    /\ Puts(buffer)
    /\ UNCHANGED <<mainVars, buffer, wire, boardVars, argVars>>

\* Mutant: what readline returns replaces the buffer.
BuffersOnly(raw) == raw

\* self.buffer += raw_line
Buffers(raw) == buffer \o raw

LineFeedsAt == {i \in DOMAIN wire : wire[i] = LineFeed}

\* readline returns a line, with its line feed.
ReadsLine ==
    /\ Running /\ reader = "reads"
    /\ LineFeedsAt # {}
    /\ \E i \in LineFeedsAt : \E line \in {Buffers(SubSeq(wire, 1, i - 1))} :
          /\ \A j \in LineFeedsAt : i <= j
          /\ wire' = SubSeq(wire, i + 1, Len(wire))
          /\ Puts(line)
    /\ buffer' = <<>>
    /\ reader' = "checks"
    /\ UNCHANGED <<mainVars, boardVars, argVars>>

\* readline times out, with nothing or with the beginning of a line.
ReadTimesOut ==
    /\ Running /\ reader = "reads"
    /\ LineFeedsAt = {}
    /\ buffer' = IF wire = <<>> THEN buffer ELSE Buffers(wire)
    /\ wire' = <<>>
    /\ reader' = "checks"
    /\ UNCHANGED <<mainVars, queue, put, boardVars, argVars>>

\* readline raises SerialException, which nothing in the thread handles.
ReaderDies ==
    /\ Running /\ reader = "reads"
    /\ reader' = "died"
    /\ UNCHANGED <<mainVars, queue, buffer, put, wire, boardVars, argVars>>

---------------------------------------------------------------------------
(* The board.                                                              *)

BoardAnswers ==
    /\ Running /\ writing = <<>>
    /\ \E id \in waiting :
          /\ waiting' = waiting \ {id}
          /\ \/ /\ writing' = PiecesOf(Answer("S", id, SUCCESS_ERROR_CODE))
                /\ verdicts' = [verdicts EXCEPT ![id] = "success"]
             \/ /\ writing' = PiecesOf(Answer("E", id, 3))
                /\ verdicts' = [verdicts EXCEPT ![id] = "error"]
             \/ /\ verdicts' = [verdicts EXCEPT ![id] = "lost"]
                /\ UNCHANGED writing
    /\ UNCHANGED <<mainVars, queue, readerVars, wire, debugLines, argVars>>

BoardReports ==
    /\ Running /\ writing = <<>> /\ reader # "off"
    /\ debugLines < MaxDebugLines
    /\ debugLines' = debugLines + 1
    /\ writing' = PiecesOf(DebugLine)
    /\ UNCHANGED <<mainVars, queue, readerVars, wire, waiting, verdicts, argVars>>

PieceArrives ==
    /\ Running /\ writing # <<>> /\ reader # "off"
    /\ wire' = Append(wire, Head(writing))
    /\ writing' = Tail(writing)
    /\ UNCHANGED <<mainVars, queue, readerVars, waiting, verdicts, debugLines, argVars>>

---------------------------------------------------------------------------
Main == \/ RefusesPins \/ PortFails \/ StartsReader
        \/ WritesFrame \/ Flushes \/ WriteFails \/ TakesLine \/ QueueEmpty
        \/ Deadline \/ Join \/ Validates

Reader == ChecksStop \/ Stops \/ ReadsLine \/ ReadTimesOut \/ ReaderDies

Board == BoardAnswers \/ BoardReports \/ PieceArrives

\* The process has ended.
Ended == pc = "returned" /\ UNCHANGED vars

Next == Main \/ Reader \/ Board \/ Ended

Spec == Init /\ [][Next]_vars

\* Both threads run, readline returns after its timeout and time passes; the
\* board may stop at any point, and a flush need not return.
Fairness ==
    /\ WF_vars(Main /\ pc # "flush")
    /\ WF_vars(Reader)

FairSpec == Spec /\ Fairness
=============================================================================
