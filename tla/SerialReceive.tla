--------------------------- MODULE SerialReceive ---------------------------
(***************************************************************************)
(* How an answer gets from the serial port into receiver_frames_queue:     *)
(* TeensySerialHandler.receive with its _rx_buffer, the decoding of the    *)
(* frame it returns, and the receiver thread that calls both in a loop.    *)
(*                                                                         *)
(* A token is a delimiter or what stands between two of them, so a field   *)
(* is one token unless a broken line was joined to the next one.  The two  *)
(* limits of the buffer count tokens where the code counts bytes.          *)
(* The board and the line are external: they deliver a stream in pieces of *)
(* any size, with pauses.                                                  *)
(***************************************************************************)
EXTENDS Naturals, Sequences, FiniteSetsExt

CONSTANTS
    Streams,      \* token sequences one of which arrives
    Numbers,      \* tokens that int() accepts
    MaxBuffer,    \* 4096 in the code: a longer buffer is thrown away
    MaxGarbage    \* 1024 in the code: the same without a frame start

ASSUME LimitsAssumption ==
    MaxBuffer \in Nat /\ MaxGarbage \in Nat /\ MaxGarbage <= MaxBuffer

Start == "@"
End   == ";"
Comma == ","

\* int() accepts no delimiter.
ASSUME StreamsAssumption ==
    Streams \subseteq Seq(STRING) /\ Numbers \subseteq STRING \ {Start, End, Comma}

FrameType == {"N", "R", "W", "S", "E", "B"}
ErrorCode == {"0", "1", "2", "3", "4", "5", "6", "7", "8", "255"} \cap Numbers

\* What SerialTxTask writes for a response, up to the line feed.
AnswerText(type, id, value, error) ==
    <<Start, type, Comma, id, Comma, value, Comma, error, End>>

---------------------------------------------------------------------------
(* SGPIOFrameHandler.frameFromString                                       *)

\* Mutant: a frame of any length is read by its last three fields.
ResponsesByLastFields(frame) ==
    {id \in Numbers : \E value \in Numbers, error \in ErrorCode, n \in DOMAIN frame :
        SubSeq(frame, n, Len(frame)) = <<id, Comma, value, Comma, error, End>>}

\* The texts whose content.split(",") has four parts, each of them a token its
\* conversion accepts.
Responses ==
    {AnswerText(type, id, value, error) :
        type \in FrameType, id \in Numbers, value \in Numbers, error \in ErrorCode}

\* The request id of the ResponseFrame a frame decodes to.  None where the
\* code raises ValueError, and none for the six parts of a request, which
\* the receiver ignores.
ResponsesIn(frame) == IF frame \in Responses THEN {frame[4]} ELSE {}

---------------------------------------------------------------------------
(* What receive() does with the buffer once it has read: what is left of   *)
(* the buffer, the frame it returns (empty for None), and how much it lost *)
(* because the buffer was too long.                                        *)

Outcome(left, frame, lost) == [left |-> left, frame |-> frame, lost |-> lost]

\* bytearray.find(token, from), with 0 where the code has -1.
Find(buffer, token, from) ==
    LET found == {i \in from .. Len(buffer) : buffer[i] = token}
    IN IF found = {} THEN 0 ELSE Min(found)

From(buffer, i) == SubSeq(buffer, i, Len(buffer))

\* _extract_frame, whose frame start is at start: up to the first frame end.
Extract(buffer, start) ==
    LET end == Find(buffer, End, start + 1)
    IN IF end = 0 THEN Outcome(From(buffer, start), <<>>, 0)
       ELSE Outcome(From(buffer, end + 1), SubSeq(buffer, start, end), 0)

\* Mutant: only a buffer without a frame start is bounded.
IngestUnbounded(buffer) ==
    LET start == Find(buffer, Start, 1)
    IN IF start = 0
       THEN Outcome(IF Len(buffer) > MaxGarbage THEN <<>> ELSE buffer, <<>>, 0)
       ELSE Extract(buffer, start)

Ingest(buffer) ==
    LET start == Find(buffer, Start, 1)
    IN IF Len(buffer) > MaxBuffer THEN Outcome(<<>>, <<>>, Len(buffer))
       ELSE IF start = 0
       THEN Outcome(IF Len(buffer) > MaxGarbage THEN <<>> ELSE buffer, <<>>, 0)
       ELSE Extract(buffer, start)

---------------------------------------------------------------------------
VARIABLES
    stream,     \* everything the host will find on the line
    taken,      \* how much of it was read
    rxBuffer,   \* _rx_buffer
    frames,     \* request ids put into receiver_frames_queue
    running,    \* the receiver thread has met no serial error
    lost,       \* history: positions of stream that a full buffer lost
    held        \* history: position of a frame's end -> read timeouts it waited

vars == <<stream, taken, rxBuffer, frames, running, lost, held>>

Init ==
    /\ stream \in Streams
    /\ taken = 0
    /\ rxBuffer = <<>>
    /\ frames = <<>>
    /\ running = TRUE
    /\ lost = {}
    /\ held = [i \in DOMAIN stream |-> 0]

\* Positions of stream that are in the buffer.
Buffered == taken - Len(rxBuffer) + 1 .. taken

\* Another read timeout passes for the complete frames in the buffer.
Aged ==
    [i \in DOMAIN held |->
        IF stream[i] = End /\ \E b \in Buffered : b < i /\ stream[b] = Start
                           /\ i \in Buffered
        THEN held[i] + 1 ELSE held[i]]

\* The buffer after count tokens were read into it.
Extended(count) == rxBuffer \o SubSeq(stream, taken + 1, taken + count)

\* _receiver_loop puts what the frame decodes to; receive's None and a frame
\* that is no response bring nothing.
HandsOn(frame) ==
    \/ ResponsesIn(frame) = {} /\ UNCHANGED frames
    \/ \E id \in ResponsesIn(frame) : frames' = Append(frames, id)

\* Mutant: a read that brought nothing returns at once.
ReceivesOnlyNews(count) ==
    /\ running
    /\ taken + count <= Len(stream)
    /\ taken' = taken + count
    /\ \E outcome \in {IF count = 0 THEN Outcome(rxBuffer, <<>>, 0)
                       ELSE Ingest(Extended(count))} :
          /\ rxBuffer' = outcome.left
          /\ HandsOn(outcome.frame)
          /\ lost' = lost \cup taken' - outcome.lost + 1 .. taken'
    /\ UNCHANGED <<stream, running, held>>

\* Mutant: a read that brought something leaves the frames to the next one.
ReceivesThenExtracts(count) ==
    /\ running
    /\ taken + count <= Len(stream)
    /\ taken' = taken + count
    /\ \E outcome \in {IF count = 0 THEN Ingest(rxBuffer)
                       ELSE Outcome(Extended(count), <<>>, 0)} :
          /\ rxBuffer' = outcome.left
          /\ HandsOn(outcome.frame)
    /\ held' = IF count = 0 THEN Aged ELSE held
    /\ UNCHANGED <<stream, running, lost>>

\* One turn of the receiver loop.  receive() reads the count tokens that have
\* arrived, or waits for one; with count = 0 the wait took the whole second
\* of the read timeout.
Receives(count) ==
    /\ running
    /\ taken + count <= Len(stream)
    /\ taken' = taken + count
    /\ \E outcome \in {Ingest(Extended(count))} :
          /\ rxBuffer' = outcome.left
          /\ HandsOn(outcome.frame)
          /\ lost' = lost \cup taken' - outcome.lost + 1 .. taken'
    /\ held' = IF count = 0 THEN Aged ELSE held
    /\ UNCHANGED <<stream, running>>

\* A SerialPortError sets the stop token and ends the loop.
Fails ==
    /\ running
    /\ running' = FALSE
    /\ UNCHANGED <<stream, taken, rxBuffer, frames, lost, held>>

Next ==
    \/ \E count \in 0 .. Len(stream) : Receives(count)
    \/ Fails

Spec == Init /\ [][Next]_vars

\* The thread runs, and a read ends after a second at the latest.  A stream
\* is finite, so the line falls silent and reads that bring nothing follow.
FairSpec == Spec /\ WF_vars(Receives(0))
=============================================================================
