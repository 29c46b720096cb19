--------------------------- MODULE ReceiveSafety ---------------------------
(***************************************************************************)
(* What becomes of the answers in a stream, stated over the stream and     *)
(* without looking for frames in the buffer.                               *)
(***************************************************************************)
EXTENDS SerialReceive

TypeOK ==
    /\ taken \in 0 .. Len(stream)
    /\ rxBuffer = SubSeq(stream, taken - Len(rxBuffer) + 1, taken)
    /\ Len(rxBuffer) <= MaxBuffer
    /\ frames \in Seq(Numbers)
    /\ running \in BOOLEAN
    /\ lost \subseteq DOMAIN stream
    /\ held \in [DOMAIN stream -> Nat]

AnswerLength == 9

\* What the board writes: a success or an error.
Answers ==
    {AnswerText(type, id, value, error) :
        type \in {"S", "E"}, id \in Numbers, value \in Numbers, error \in ErrorCode}

\* The board writes no other text with four fields: SerialTxTask has no other
\* types of frames to write, since nothing calls the debug helpers.
ASSUME BoardAssumption ==
    \A text \in Streams :
        \A i \in 1 .. Len(text) - AnswerLength + 1 :
            SubSeq(text, i, i + AnswerLength - 1) \notin Responses \ Answers

\* An answer as the board writes it begins at position i.
IsAnswer(i) ==
    /\ i + AnswerLength - 1 <= Len(stream)
    /\ SubSeq(stream, i, i + AnswerLength - 1) \in Answers

\* A line that lost its end stands before position i and is still there.
BehindBrokenLine(i) ==
    \E b \in (1 .. i - 1) \ lost :
        stream[b] = Start /\ \A n \in b .. i - 1 : stream[n] # End

Due(i) ==
    /\ IsAnswer(i)
    /\ i + AnswerLength - 1 <= taken
    /\ lost \cap i .. i + AnswerLength - 1 = {}
    /\ ~BehindBrokenLine(i)

\* The answers that have left the buffer.
Passed == {i \in DOMAIN stream : Due(i) /\ i \notin Buffered}

\* Every answer that was read completely is handed on, once, in the order of
\* the line, however it was cut into reads and whatever stands between the
\* answers; but for those a full buffer lost, the one right behind a line
\* without an end, and those that wait in the buffer.  Nothing else is
\* handed on: no two lines make an answer the board did not write.
HandsOnExactlyTheAnswers ==
    LET passed == Passed
    IN /\ Len(frames) = Cardinality(passed)
       /\ \A i \in passed :
             frames[Cardinality({j \in passed : j <= i})] = stream[i + 3]

\* A read timeout is only spent on an answer that came with others before
\* it, one for each: the first answer of a burst is handed on by the read
\* that completes it.
HeldOnlyBehindOthers ==
    \A i \in DOMAIN stream : Due(i) =>
        held[i + AnswerLength - 1]
          <= Cardinality({e \in 1 .. i - 1 : stream[e] = End})

\* An answer does not stay in the buffer for ever, even when the line falls
\* silent behind it.
NoAnswerStays ==
    (\E i \in Buffered : Due(i)) ~> (~running \/ \A i \in Buffered : ~Due(i))

\* documentation/README.md:153: "A missing response within 2 seconds is
\* treated as a timeout"; so one that has arrived is not kept for so long.
ArrivedAnswersAreNotMissing ==
    \A i \in DOMAIN stream :
        Due(i) /\ i \in Buffered => held[i + AnswerLength - 1] < 2
=============================================================================
