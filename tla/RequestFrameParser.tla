------------------------- MODULE RequestFrameParser -------------------------
(***************************************************************************)
(* The firmware's serial ingress: RequestFrameParser consumes the bytes of *)
(* the USB stream one by one, recognises the @...;\n envelope, decodes the *)
(* payload and offers the frame to the global request queue.               *)
(*                                                                         *)
(* A byte is a one-character string; LF and CR are the line ending ones.   *)
(* The parser keeps its state between calls of parse(), so how the stream  *)
(* is cut into reads of 64 and calls of 256 bytes is left out: a step is   *)
(* one iteration of the loop over the bytes read.                          *)
(***************************************************************************)
EXTENDS GpioFrames, Sequences

CONSTANT Streams    \* byte sequences that may arrive

kStartFrame == "@"
kEndFrame   == ";"
kDelimiter  == ","
kEndLine    == "LF"
CarriageReturn == "CR"

kRequestFrameFieldCount == 6
\* Mutant: the buffer is one byte shorter than the longest request.
kRequestFramePayloadMaxCharsShort == 20
kRequestFramePayloadMaxChars == 21

ASSUME StreamsAssumption == Streams \subseteq Seq(STRING)

---------------------------------------------------------------------------
(* constructFrame: one scan over the payload and a final delimiter.        *)

Digits == {DigitName[n] : n \in 1 .. 10}
DigitValue(c) == (CHOOSE n \in 1 .. 10 : DigitName[n] = c) - 1

FieldName == <<"type", "request_id", "pin_type", "priority", "pin_number", "value">>

\* Codecs of the three one-character fields; "kNone" is what the codec
\* returns for any other character.
CodeOf(name, c) ==
    CASE name = "type"     -> (CASE c = "R" -> "kRead" [] c = "W" -> "kWrite"
                                 [] c = "B" -> "kDebug" [] OTHER -> "kNone")
      [] name = "pin_type" -> (CASE c = "D" -> "kDigital" [] c = "A" -> "kAnalog"
                                 [] c = "S" -> "kServo" [] c = "G" -> "kMCP4725"
                                 [] OTHER -> "kNone")
      [] name = "priority" -> (CASE c = "L" -> "kLow" [] c = "H" -> "kHigh"
                                 [] OTHER -> "kNone")

IsCode(name) == name \in {"type", "pin_type", "priority"}
NumberLimit(name) == IF name = "pin_number" THEN 255 ELSE 65535

EmptyFrame ==
    [request_id |-> 0, value |-> 0, type |-> "kZero", priority |-> "kZero",
     pin_type |-> "kZero", pin_number |-> 0]

\* fieldIndex counts completed fields; last is buffer_[index - 1].
ScanStart ==
    [ok |-> TRUE, fieldIndex |-> 0, fieldLength |-> 0, numericValue |-> 0,
     last |-> "", frame |-> EmptyFrame]

Reject(scan) == [scan EXCEPT !.ok = FALSE]

EndField(scan) ==
    LET name == FieldName[scan.fieldIndex + 1]
        value == IF IsCode(name) THEN CodeOf(name, scan.last)
                 ELSE scan.numericValue
    IN IF \/ scan.fieldLength = 0
          \/ scan.fieldIndex >= kRequestFrameFieldCount
          \/ IsCode(name) /\ value = "kNone"
       THEN Reject(scan)
       ELSE [ok |-> TRUE, fieldIndex |-> scan.fieldIndex + 1, fieldLength |-> 0,
             numericValue |-> 0, last |-> kDelimiter,
             frame |-> [scan.frame EXCEPT ![name] = value]]

FieldByte(scan, c) ==
    LET name == FieldName[scan.fieldIndex + 1]
        number == scan.numericValue * 10 + DigitValue(c)
    IN IF scan.fieldIndex >= kRequestFrameFieldCount THEN Reject(scan)
       ELSE IF IsCode(name)
       THEN IF scan.fieldLength # 0 THEN Reject(scan)
            ELSE [scan EXCEPT !.fieldLength = 1, !.last = c]
       ELSE IF c \notin Digits \/ number > NumberLimit(name) THEN Reject(scan)
            ELSE [scan EXCEPT !.fieldLength = @ + 1, !.numericValue = number,
                              !.last = c]

ScanByte(scan, c) ==
    IF ~scan.ok THEN scan
    ELSE IF c = kDelimiter THEN EndField(scan) ELSE FieldByte(scan, c)

\* The scan after each byte of text.
Scans(text) ==
    LET scan[n \in 0 .. Len(text)] ==
            IF n = 0 THEN ScanStart ELSE ScanByte(scan[n - 1], text[n])
    IN scan

\* The frame a payload decodes to, as a set with at most one member.
ConstructFrame(payload) ==
    LET scan == Scans(Append(payload, kDelimiter))[Len(payload) + 1]
    IN IF /\ payload # <<>>
          /\ scan.ok
          /\ scan.fieldIndex = kRequestFrameFieldCount
          /\ IsValidRequest(scan.frame.type, scan.frame.pin_type)
       THEN {scan.frame} ELSE {}

---------------------------------------------------------------------------
(* fillBuffer: the framing state machine.                                  *)

VARIABLES
    stream,           \* bytes that were not read yet
    inFrame,          \* inFrame_
    awaitingLineEnd,  \* awaitingLineEnd_
    buffer,           \* buffer_[0 .. bufferLength_ - 1]
    statistics,       \* statistics_
    consumed,         \* history: every byte read
    offered           \* history: <<position of its line feed, frame>>

parserVars == <<inFrame, awaitingLineEnd, buffer>>
vars == <<stream, parserVars, statistics, consumed, offered>>

Init ==
    /\ stream \in Streams
    /\ inFrame = FALSE
    /\ awaitingLineEnd = FALSE
    /\ buffer = <<>>
    /\ statistics = [frames_queued |-> 0, malformed_frames |-> 0,
                     overflow_drops |-> 0, queue_send_failures |-> 0]
    /\ consumed = <<>>
    /\ offered = {}

\* What every step shares: byte c is read from the stream.
Reads(c) ==
    /\ stream # <<>>
    /\ c = Head(stream)
    /\ stream' = Tail(stream)
    /\ consumed' = Append(consumed, c)

Count(counter) == statistics' = [statistics EXCEPT ![counter] = @ + 1]

\* The parser drops what it has and is in a frame again iff still is.
Restart(still) ==
    /\ buffer' = <<>>
    /\ awaitingLineEnd' = FALSE
    /\ inFrame' = still

OutsideFrame(c) ==
    /\ ~inFrame
    /\ IF c = kStartFrame THEN Restart(TRUE) ELSE UNCHANGED parserVars
    /\ UNCHANGED <<statistics, offered>>

\* ';' was seen and the line ends.  The queue belongs to the dispatcher too,
\* so the send may find it full at any time.
EndsLine(c) ==
    /\ inFrame /\ awaitingLineEnd
    /\ c = kEndLine
    /\ \/ /\ ConstructFrame(buffer) = {}
          /\ Count("malformed_frames")
          /\ UNCHANGED offered
       \/ \E frame \in ConstructFrame(buffer) :
             /\ Count("frames_queued") \/ Count("queue_send_failures")
             /\ offered' = offered \cup {<<Len(consumed) + 1, frame>>}
    /\ Restart(FALSE)

SkipsCarriageReturn(c) ==
    /\ inFrame /\ awaitingLineEnd
    /\ c = CarriageReturn
    /\ UNCHANGED <<parserVars, statistics, offered>>

\* Mutant: a line broken after its ';' is not counted.
BreaksLineEndUncounted(c) ==
    /\ inFrame /\ awaitingLineEnd
    /\ c \notin {kEndLine, CarriageReturn}
    /\ Restart(c = kStartFrame)
    /\ UNCHANGED <<statistics, offered>>

BreaksLineEnd(c) ==
    /\ inFrame /\ awaitingLineEnd
    /\ c \notin {kEndLine, CarriageReturn}
    /\ Count("malformed_frames")
    /\ Restart(c = kStartFrame)
    /\ UNCHANGED offered

\* Mutant: a '@' inside the payload does not start the next frame.
BreaksPayloadForgetful(c) ==
    /\ inFrame /\ ~awaitingLineEnd
    /\ c \in {kStartFrame, kEndLine, CarriageReturn}
    /\ Count("malformed_frames")
    /\ Restart(FALSE)
    /\ UNCHANGED offered

\* A '@' or a line ending inside the payload.
BreaksPayload(c) ==
    /\ inFrame /\ ~awaitingLineEnd
    /\ c \in {kStartFrame, kEndLine, CarriageReturn}
    /\ Count("malformed_frames")
    /\ Restart(c = kStartFrame)
    /\ UNCHANGED offered

EndsPayload(c) ==
    /\ inFrame /\ ~awaitingLineEnd
    /\ c = kEndFrame
    /\ awaitingLineEnd' = TRUE
    /\ UNCHANGED <<inFrame, buffer, statistics, offered>>

\* Mutant: one byte too many fits the buffer.
StoresByteUnchecked(c) ==
    /\ inFrame /\ ~awaitingLineEnd
    /\ c \notin {kStartFrame, kEndFrame, kEndLine, CarriageReturn}
    /\ IF Len(buffer) > kRequestFramePayloadMaxChars
       THEN Count("overflow_drops") /\ Restart(FALSE)
       ELSE /\ buffer' = Append(buffer, c)
            /\ UNCHANGED <<inFrame, awaitingLineEnd, statistics>>
    /\ UNCHANGED offered

StoresByte(c) ==
    /\ inFrame /\ ~awaitingLineEnd
    /\ c \notin {kStartFrame, kEndFrame, kEndLine, CarriageReturn}
    /\ IF Len(buffer) >= kRequestFramePayloadMaxChars
       THEN Count("overflow_drops") /\ Restart(FALSE)
       ELSE /\ buffer' = Append(buffer, c)
            /\ UNCHANGED <<inFrame, awaitingLineEnd, statistics>>
    /\ UNCHANGED offered

ParsesByte(c) ==
    /\ Reads(c)
    /\ \/ OutsideFrame(c)
       \/ EndsLine(c) \/ SkipsCarriageReturn(c) \/ BreaksLineEnd(c)
       \/ BreaksPayload(c) \/ EndsPayload(c) \/ StoresByte(c)

Next == stream # <<>> /\ ParsesByte(Head(stream))

Spec == Init /\ [][Next]_vars
=============================================================================
