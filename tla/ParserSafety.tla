---------------------------- MODULE ParserSafety ----------------------------
(***************************************************************************)
(* What the parser accepts, stated over the bytes it consumed and without  *)
(* its state: a reference definition of lines and of payloads, and the     *)
(* host's own lines.                                                       *)
(***************************************************************************)
EXTENDS RequestFrameParser, HostLine, FiniteSetsExt

CONSTANT HostFrames    \* requests the host may write

\* The host's numbers fit the fields of the firmware's frame.
ASSUME HostFramesAssumption == HostFrames \subseteq RequestFrame(UInt16, UInt8, UInt16)

Byte == {kStartFrame, kEndFrame, kDelimiter, kEndLine, CarriageReturn}
PayloadByte(c) == c \notin Byte \ {kDelimiter}

TypeOK ==
    /\ stream \in Seq(STRING)
    /\ inFrame \in BOOLEAN
    /\ awaitingLineEnd \in BOOLEAN
    /\ awaitingLineEnd => inFrame
    /\ buffer \in Seq(STRING)
    /\ Len(buffer) <= kRequestFramePayloadMaxChars
    /\ statistics \in [{"frames_queued", "malformed_frames", "overflow_drops",
                        "queue_send_failures"} -> Nat]
    /\ consumed \in Seq(STRING)

---------------------------------------------------------------------------
(* Reference: payloads.                                                    *)

\* Where the field that begins behind position i ends, if one does.
FieldEnd(text, i) ==
    LET ends == {e \in i + 1 .. Len(text) : text[e] = kDelimiter}
    IN IF ends = {} THEN i ELSE Min(ends)

\* The ends of the first six fields of a text in which each has a delimiter.
Cuts(text) ==
    LET cut[n \in 0 .. kRequestFrameFieldCount] ==
            IF n = 0 THEN 0 ELSE FieldEnd(text, cut[n - 1])
    IN cut

Field(text, n) == SubSeq(text, Cuts(text)[n - 1] + 1, Cuts(text)[n] - 1)

\* The numbers that the beginnings of a field spell.
Spelled(field) ==
    LET number[n \in 0 .. Len(field)] ==
            IF n = 0 THEN 0 ELSE 10 * number[n - 1] + DigitValue(field[n])
    IN number

NumberOf(field) == Spelled(field)[Len(field)]

GoodField(name, field) ==
    IF IsCode(name)
    THEN Len(field) = 1 /\ CodeOf(name, field[1]) # "kNone"
    ELSE /\ field # <<>>
         /\ \A i \in DOMAIN field : field[i] \in Digits
         /\ NumberOf(field) <= NumberLimit(name)

ValueOf(name, field) ==
    IF IsCode(name) THEN CodeOf(name, field[1]) ELSE NumberOf(field)

\* Six fields, each good for its place, and a request the firmware serves.
ReferenceFrame(payload) ==
    LET text == Append(payload, kDelimiter)
        value(n) == ValueOf(FieldName[n], Field(text, n))
    IN IF /\ Cuts(text)[kRequestFrameFieldCount] = Len(text)
          /\ \A n \in 1 .. kRequestFrameFieldCount :
                GoodField(FieldName[n], Field(text, n))
          /\ IsValidRequest(value(1), value(3))
       THEN {[request_id |-> value(2), value |-> value(6), type |-> value(1),
              priority |-> value(4), pin_type |-> value(3),
              pin_number |-> value(5)]}
       ELSE {}

---------------------------------------------------------------------------
(* Reference: lines.                                                       *)

\* From the '@' at i to the line feed at j: a payload that fits, ';' at k and
\* nothing but carriage returns after it.
IsLine(i, k, j) ==
    /\ \A n \in i + 1 .. k - 1 : PayloadByte(consumed[n])
    /\ k - i - 1 <= kRequestFramePayloadMaxChars
    /\ \A n \in k + 1 .. j - 1 : consumed[n] = CarriageReturn

At(c) == {i \in DOMAIN consumed : consumed[i] = c}

Lines ==
    {line \in At(kStartFrame) \X At(kEndFrame) \X At(kEndLine) :
        line[1] < line[2] /\ line[2] < line[3] /\ IsLine(line[1], line[2], line[3])}

WellFormedLines ==
    UNION {{<<line[3], frame>> :
              frame \in ReferenceFrame(SubSeq(consumed, line[1] + 1, line[2] - 1))} :
           line \in Lines}

\* Whatever came before, a well-formed line is offered to the request queue,
\* with the fields it spells, and nothing else is: garbage, truncated and
\* overlong lines neither reach the queue nor take a good line with them.
OffersExactlyTheWellFormedLines == offered = WellFormedLines

\* Every frame start is accounted for once: queued, refused by the queue,
\* malformed, overflowed, or the frame being received.
StatisticsAccountForEveryStart ==
    Cardinality(At(kStartFrame)) =
        statistics.frames_queued + statistics.queue_send_failures
        + statistics.malformed_frames + statistics.overflow_drops
        + (IF inFrame THEN 1 ELSE 0)

---------------------------------------------------------------------------
(* The host's lines.                                                       *)

HostLines == [frame \in HostFrames |-> LineOf(frame)]

EndsWith(line) ==
    /\ Len(consumed) >= Len(line)
    /\ SubSeq(consumed, Len(consumed) - Len(line) + 1, Len(consumed)) = line

\* When a line feed completes a request the host wrote, the same request is
\* offered: the longest line fits the buffer and no field is cut or wrapped.
HostRequestsArriveUnchanged ==
    Len(consumed) \in At(kEndLine) =>
        \A frame \in HostFrames :
            EndsWith(HostLines[frame]) /\ IsValidRequest(frame.type, frame.pin_type) =>
                <<Len(consumed), frame>> \in offered
=============================================================================
