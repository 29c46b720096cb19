---------------------------- MODULE BenchProofs ----------------------------
(***************************************************************************)
(* For any pins, blink counts and number of debug lines: the bench script  *)
(* receives the board's lines whole, and its verdict is right in both      *)
(* directions.                                                             *)
(***************************************************************************)
EXTENDS BenchSafety, SequenceTheorems, FiniteSetTheorems, TLAPS

ReceivedLines == Seq(Pieces) \ {<<>>}

\* The frames of a run are numbered from one.
FramesInv ==
    /\ frames \in Seq({frames[i] : i \in DOMAIN frames})
    /\ \A i \in DOMAIN frames : frames[i].request_id = i

SequenceTypes ==
    /\ received \in Seq(ReceivedLines)
    /\ queue \in Seq(ReceivedLines)
    /\ put \in Seq(ReceivedLines)
    /\ buffer \in Seq(Pieces)
    /\ wire \in Seq(Pieces)
    /\ writing \in Seq(Pieces)

ControlTypes ==
    /\ pc \in {"args", "send", "flush", "drain", "wait", "join", "last", "returned"}
    /\ returned \in 0 .. 3
    /\ sent \in 0 .. Len(frames)
    /\ stopEvent \in BOOLEAN
    /\ reader \in {"off", "checks", "reads", "done", "died"}
    /\ waiting \subseteq 1 .. sent
    /\ verdicts \in [1 .. Len(frames) -> {"none", "success", "error", "lost"}]
    /\ debugLines \in 0 .. MaxDebugLines
    /\ longReads \in BOOLEAN

\* Where main is tells what it has done.
PhaseInv ==
    /\ pc = "args" => sent = 0
    /\ pc = "send" => sent < Len(frames)
    /\ pc \in {"wait", "join", "last"} => sent = Len(frames)
    /\ stopEvent => pc \in {"join", "last", "returned"}
    /\ pc \in {"join", "last"} => stopEvent
    /\ pc = "returned" <=> returned # 3
    /\ reader = "done" => stopEvent

TypeInv == FramesInv /\ SequenceTypes /\ ControlTypes /\ PhaseInv

LEMMA TypesSuffice == TypeInv => TypeOK
<1> SUFFICES ASSUME TypeInv PROVE TypeOK
  OBVIOUS
<1>1. ASSUME NEW lines \in Seq(ReceivedLines), NEW i \in DOMAIN lines
      PROVE  lines[i] # <<>> /\ lines[i] \in Seq(Pieces)
  <2>1. lines[i] \in ReceivedLines
    BY <1>1, LenProperties, ElementOfSeq
  <2>2. QED
    BY <2>1 DEF ReceivedLines
<1>2. QED
  BY <1>1 DEF TypeInv, SequenceTypes, ControlTypes, TypeOK

---------------------------------------------------------------------------
(* The frames of a run.                                                    *)

LEMMA FramesLength ==
    ASSUME FramesInv
    PROVE  /\ Len(frames) \in Nat /\ DOMAIN frames = 1 .. Len(frames)
           /\ ExpectedRequestIds(frames) = 1 .. Len(frames)
           /\ frames # <<>> <=> Len(frames) > 0
<1>1. Len(frames) \in Nat /\ DOMAIN frames = 1 .. Len(frames)
  BY LenProperties DEF FramesInv
<1>2. ExpectedRequestIds(frames) = {i : i \in DOMAIN frames}
  BY DEF FramesInv, ExpectedRequestIds
<1>3. ExpectedRequestIds(frames) = 1 .. Len(frames)
  BY <1>1, <1>2
<1>4. frames # <<>> <=> Len(frames) > 0
  BY <1>1, EmptySeq DEF FramesInv
<1>5. QED
  BY <1>1, <1>3, <1>4

\* build_blink_batches numbers the frames from one without a gap.
LEMMA BlinkFramesNumbered ==
    ASSUME NEW somePins \in Seq(Nat), NEW count \in Nat,
           frames = BlinkFrames(somePins, count)
    PROVE  FramesInv
<1> DEFINE n == 2 * count * Len(somePins)
<1>1. Len(somePins) \in Nat
  BY LenProperties
<1>2. n \in Nat
  BY <1>1
<1>3. DOMAIN frames = 1 .. n /\ \A i \in 1 .. n : frames[i].request_id = i
  BY DEF BlinkFrames
<1>4. frames \in [1 .. n -> {frames[i] : i \in DOMAIN frames}]
  BY <1>3 DEF BlinkFrames
<1>5. frames \in Seq({frames[i] : i \in DOMAIN frames})
  BY <1>2, <1>4
<1>6. QED
  BY <1>3, <1>5 DEF FramesInv

LEMMA LinesHavePieces ==
    ASSUME FramesInv, NEW line \in Lines
    PROVE  /\ PiecesOf(line) \in Seq(Pieces) /\ Len(PiecesOf(line)) = 3
           /\ PiecesOf(line)[1] = Piece(line, "front")
           /\ PiecesOf(line)[2] = Piece(line, "back")
           /\ PiecesOf(line)[3] = LineFeed
<1>1. DebugLine \in Lines
  BY FramesLength DEF DebugLine, Lines, Answer
<1>2. {Piece(line, "front"), Piece(line, "back"), LineFeed} \subseteq Pieces
  BY <1>1 DEF Piece, Pieces, LineFeed
<1>3. QED
  BY <1>2 DEF PiecesOf

---------------------------------------------------------------------------
(* Types.                                                                  *)

LEMMA TypeInit == Init => TypeInv
<1> SUFFICES ASSUME Init PROVE TypeInv
  OBVIOUS
<1>1. FramesInv
  <2>1. PICK count \in BlinkCounts : frames = BlinkFrames(pins, count)
    BY DEF Init
  <2>2. pins \in Seq(Nat) /\ count \in Nat
    BY BenchAssumption DEF Init
  <2>3. QED
    BY <2>1, <2>2, BlinkFramesNumbered
<1>2. Answer("S", 1, SUCCESS_ERROR_CODE) \in Lines /\ DebugLine \in Lines
  BY <1>1, FramesLength DEF Answer, DebugLine, Lines, SUCCESS_ERROR_CODE
<1>3. leftover \in Seq(Pieces)
  <2> DEFINE earlier == PiecesOf(Answer("S", 1, SUCCESS_ERROR_CODE))
  <2>1. earlier \in Seq(Pieces) /\ earlier # <<>>
    BY <1>1, <1>2, LinesHavePieces, EmptySeq
  <2>2. Tail(earlier) \in Seq(Pieces)
    BY <2>1, HeadTailProperties
  <2>3. LineFeed \in Pieces
    BY <1>2 DEF LineFeed, Piece, Pieces
  <2>4. <<LineFeed>> \in Seq(Pieces) /\ <<>> \in Seq(Pieces)
    BY <2>3
  <2>5. leftover \in {<<>>, earlier, Tail(earlier), <<LineFeed>>}
    BY DEF Init, Leftovers
  <2>6. QED
    BY <2>1, <2>2, <2>4, <2>5
<1>4. SequenceTypes
  BY <1>3, EmptySeq DEF Init, SequenceTypes
<1>5. ControlTypes
  <2>1. Len(frames) \in Nat /\ ExpectedRequestIds(frames) = 1 .. Len(frames)
    BY <1>1, FramesLength
  <2>2. sent \in 0 .. Len(frames) /\ debugLines \in 0 .. MaxDebugLines
    BY <2>1, BenchAssumption DEF Init
  <2>3. verdicts \in [1 .. Len(frames) -> {"none", "success", "error", "lost"}]
    BY <2>1 DEF Init
  <2>4. /\ pc = "args" /\ returned = 3 /\ reader = "off" /\ waiting = {}
        /\ stopEvent = FALSE
    BY DEF Init
  <2>5. longReads \in BOOLEAN
    BY DEF Init
  <2>6. returned \in 0 .. 3
    BY <2>4
  <2>7. QED
    BY <2>2, <2>3, <2>4, <2>5, <2>6 DEF ControlTypes
<1>6. PhaseInv
  BY DEF Init, PhaseInv
<1>7. QED
  BY <1>1, <1>4, <1>5, <1>6 DEF TypeInv

\* What a step leaves of the frames.
LEMMA FramesStay ==
    ASSUME [Next]_vars
    PROVE  UNCHANGED argVars /\ Pieces' = Pieces /\ Lines' = Lines
<1>1. UNCHANGED argVars
  BY DEF Next, Main, Reader, Board, Ended, RefusesPins, PortFails, StartsReader,
     WritesFrame, Flushes, WriteFails, TakesLine, QueueEmpty, Deadline, Join, Validates,
     ChecksStop, Stops, ReadsLine, ReadTimesOut, ReaderDies, BoardAnswers, BoardReports,
     PieceArrives, vars
<1>2. QED
  BY <1>1 DEF argVars, Pieces, Lines

\* A line that is put, unless it is blank, is a line of pieces.
LEMMA PutsLines ==
    ASSUME SequenceTypes, NEW line \in Seq(Pieces), Puts(line)
    PROVE  queue' \in Seq(ReceivedLines) /\ put' \in Seq(ReceivedLines)
<1>1. CASE line = <<>>
  BY <1>1 DEF Puts, SequenceTypes
<1>2. CASE line # <<>>
  <2>1. line \in ReceivedLines
    BY <1>2 DEF ReceivedLines
  <2>2. /\ Append(queue, line) \in Seq(ReceivedLines)
        /\ Append(put, line) \in Seq(ReceivedLines)
    BY <2>1, AppendProperties DEF SequenceTypes
  <2>3. QED
    BY <1>2, <2>2 DEF Puts
<1>3. QED
  BY <1>1, <1>2

\* readline takes everything up to the first line feed.
LEMMA LinesRead ==
    ASSUME SequenceTypes, ReadsLine
    PROVE  \E i \in 1 .. Len(wire) :
              /\ wire[i] = LineFeed
              /\ \A j \in 1 .. i - 1 : wire[j] # LineFeed
              /\ wire' = SubSeq(wire, i + 1, Len(wire))
              /\ wire' \in Seq(Pieces)
              /\ SubSeq(wire, 1, i - 1) \in Seq(Pieces)
              /\ buffer \o SubSeq(wire, 1, i - 1) \in Seq(Pieces)
              /\ Puts(buffer \o SubSeq(wire, 1, i - 1))
<1>1. PICK i \in LineFeedsAt :
         /\ \A j \in LineFeedsAt : i <= j
         /\ wire' = SubSeq(wire, i + 1, Len(wire))
         /\ Puts(buffer \o SubSeq(wire, 1, i - 1))
  BY DEF ReadsLine, Buffers
<1>2. i \in 1 .. Len(wire) /\ DOMAIN wire = 1 .. Len(wire) /\ Len(wire) \in Nat
      /\ wire[i] = LineFeed
  BY LenProperties DEF LineFeedsAt, SequenceTypes
<1>3. \A j \in 1 .. i - 1 : wire[j] # LineFeed
  BY <1>1, <1>2 DEF LineFeedsAt
<1>4. SubSeq(wire, i + 1, Len(wire)) \in Seq(Pieces)
      /\ SubSeq(wire, 1, i - 1) \in Seq(Pieces)
  BY <1>2 DEF SequenceTypes
<1>5. buffer \o SubSeq(wire, 1, i - 1) \in Seq(Pieces)
  BY <1>4, ConcatProperties DEF SequenceTypes
<1>6. QED
  BY <1>1, <1>2, <1>3, <1>4, <1>5

LEMMA SequenceTypesStep ==
    ASSUME TypeInv, [Next]_vars
    PROVE  SequenceTypes'
<1> USE DEF TypeInv, mainVars, readerVars, boardVars
<1>0. Pieces' = Pieces /\ ReceivedLines' = ReceivedLines
  BY FramesStay DEF ReceivedLines
<1>1. CASE TakesLine
  <2>1. /\ Head(queue) \in ReceivedLines /\ Tail(queue) \in Seq(ReceivedLines)
    BY <1>1, HeadTailProperties DEF TakesLine, SequenceTypes
  <2>2. received' \in Seq(ReceivedLines)
    BY <1>1, <2>1, AppendProperties DEF TakesLine, SequenceTypes
  <2>3. QED
    BY <1>0, <1>1, <2>1, <2>2 DEF TakesLine, SequenceTypes
<1>2. CASE RefusesPins \/ PortFails \/ StartsReader \/ WritesFrame \/ Flushes \/ WriteFails
           \/ QueueEmpty \/ Deadline \/ Join \/ Validates \/ ChecksStop \/ ReaderDies
           \/ UNCHANGED vars
  BY <1>0, <1>2 DEF RefusesPins, PortFails, StartsReader, WritesFrame, Flushes, WriteFails,
     QueueEmpty, Deadline, Join, Validates, ChecksStop, ReaderDies, vars, SequenceTypes
<1>3. CASE Stops
  BY <1>0, <1>3, PutsLines DEF Stops, SequenceTypes
<1>4. CASE ReadsLine
  <2>1. queue' \in Seq(ReceivedLines) /\ put' \in Seq(ReceivedLines) /\ wire' \in Seq(Pieces)
    BY <1>4, LinesRead, PutsLines
  <2>2. buffer' \in Seq(Pieces) /\ UNCHANGED <<received, writing>>
    BY <1>4, EmptySeq DEF ReadsLine
  <2>3. QED
    BY <1>0, <2>1, <2>2 DEF SequenceTypes
<1>5. CASE ReadTimesOut
  BY <1>0, <1>5, ConcatProperties DEF ReadTimesOut, Buffers, SequenceTypes
<1>6. CASE BoardAnswers \/ BoardReports
  <2>1. writing' \in Seq(Pieces)
    <3>1. Len(frames) \in Nat
      BY FramesLength
    <3>2. DebugLine \in Lines
      BY <3>1 DEF Lines, DebugLine, Answer
    <3>3. ASSUME NEW id \in waiting
          PROVE  {Answer("S", id, SUCCESS_ERROR_CODE), Answer("E", id, 3)} \subseteq Lines
      <4>1. id \in 1 .. Len(frames)
        BY <3>1, <3>3 DEF ControlTypes
      <4>2. id \in 0 .. Len(frames) + 1
        BY <3>1, <4>1
      <4>3. QED
        BY <4>2 DEF Lines, Answer, SUCCESS_ERROR_CODE
    <3>4. CASE BoardAnswers
      <4>1. PICK id \in waiting :
               writing' \in {PiecesOf(Answer("S", id, SUCCESS_ERROR_CODE)),
                             PiecesOf(Answer("E", id, 3)), writing}
        BY <3>4 DEF BoardAnswers
      <4>2. QED
        BY <3>3, <4>1, LinesHavePieces DEF SequenceTypes
    <3>5. CASE BoardReports
      BY <3>2, <3>5, LinesHavePieces DEF BoardReports
    <3>6. QED
      BY <1>6, <3>4, <3>5
  <2>2. QED
    BY <1>0, <1>6, <2>1 DEF BoardAnswers, BoardReports, SequenceTypes
<1>7. CASE PieceArrives
  <2>1. Head(writing) \in Pieces /\ Tail(writing) \in Seq(Pieces)
    BY <1>7, HeadTailProperties DEF PieceArrives, SequenceTypes
  <2>2. Append(wire, Head(writing)) \in Seq(Pieces)
    BY <2>1, AppendProperties DEF SequenceTypes
  <2>3. QED
    BY <1>0, <1>7, <2>1, <2>2 DEF PieceArrives, SequenceTypes
<1>8. QED
  BY <1>1, <1>2, <1>3, <1>4, <1>5, <1>6, <1>7 DEF Next, Main, Reader, Board, Ended

LEMMA ControlTypesStep ==
    ASSUME TypeInv, [Next]_vars
    PROVE  ControlTypes' /\ PhaseInv'
<1> USE DEF TypeInv, mainVars, readerVars, boardVars, argVars
<1>0. /\ Len(frames) \in Nat /\ UNCHANGED <<frames, longReads>>
      /\ frames = <<>> <=> Len(frames) = 0
      /\ MaxDebugLines \in Nat /\ DOMAIN frames = 1 .. Len(frames)
      /\ ExpectedRequestIds(frames) = 1 .. Len(frames)
  BY FramesLength, FramesStay, BenchAssumption
<1>1. CASE RefusesPins \/ PortFails \/ WriteFails \/ Validates
  <2>1. /\ returned' \in {0, 1, 2} /\ pc' = "returned"
        /\ UNCHANGED <<sent, stopEvent, reader, waiting, verdicts, debugLines>>
    BY <1>1 DEF RefusesPins, PortFails, WriteFails, Validates, Returns, ReturnCode
  <2>2. returned' \in 0 .. 3 /\ returned' # 3
    BY <2>1
  <2>3. PhaseInv'
    BY <2>1, <2>2 DEF PhaseInv
  <2>4. ControlTypes'
    BY <1>0, <2>1, <2>2 DEF ControlTypes
  <2>5. QED
    BY <2>3, <2>4
<1>2. CASE StartsReader \/ QueueEmpty \/ Deadline \/ Join
  <2>1. /\ UNCHANGED <<returned, sent, waiting, verdicts, debugLines>>
        /\ pc # "returned" /\ reader' \in {reader, "checks"}
    BY <1>2 DEF StartsReader, QueueEmpty, Deadline, Join
  <2>2. \/ pc' = "send" /\ sent < Len(frames) /\ ~stopEvent /\ stopEvent' = stopEvent
        \/ pc' = "wait" /\ sent = Len(frames) /\ ~stopEvent /\ stopEvent' = stopEvent
        \/ pc' \in {"join", "last"} /\ sent = Len(frames) /\ stopEvent' = TRUE
    <3>1. CASE StartsReader
      <4>1. sent = 0 /\ ~stopEvent
        BY <3>1 DEF StartsReader, PhaseInv
      <4>2. QED
        BY <1>0, <3>1, <4>1 DEF StartsReader
    <3>2. CASE QueueEmpty
      <4>1. ~stopEvent /\ stopEvent' = stopEvent
        BY <3>2 DEF QueueEmpty, PhaseInv
      <4>2. Len(frames) \in Nat /\ sent \in 0 .. Len(frames)
        BY FramesLength DEF ControlTypes
      <4>3. sent < Len(frames) \/ sent = Len(frames)
        BY <4>2
      <4>4. QED
        BY <3>2, <4>1, <4>3 DEF QueueEmpty
    <3>3. CASE Deadline \/ Join
      BY <3>3 DEF Deadline, Join, ControlTypes, PhaseInv
    <3>4. QED
      BY <1>2, <3>1, <3>2, <3>3
  <2>3. PhaseInv'
    BY <1>0, <2>1, <2>2 DEF PhaseInv
  <2>4. ControlTypes'
    BY <1>0, <2>1, <2>2 DEF ControlTypes
  <2>5. QED
    BY <2>3, <2>4
<1>3. CASE WritesFrame
  <2>1. sent' = sent + 1 /\ sent' \in 0 .. Len(frames) /\ frames[sent'].request_id = sent'
    BY <1>0, <1>3 DEF WritesFrame, ControlTypes, PhaseInv, FramesInv
  <2>2. waiting' \subseteq 1 .. sent'
    BY <1>0, <1>3, <2>1 DEF WritesFrame, ControlTypes
  <2>3. PhaseInv'
    BY <1>0, <1>3, <2>1 DEF WritesFrame, ControlTypes, PhaseInv
  <2>4. ControlTypes'
    BY <1>0, <1>3, <2>1, <2>2 DEF WritesFrame, ControlTypes
  <2>5. QED
    BY <2>3, <2>4
<1>4. CASE Flushes
  <2>1. /\ pc = "flush" /\ pc' = "drain"
        /\ UNCHANGED <<returned, sent, stopEvent, reader, waiting, verdicts, debugLines>>
    BY <1>4 DEF Flushes
  <2>2. PhaseInv'
    BY <1>0, <2>1 DEF PhaseInv
  <2>3. ControlTypes'
    BY <1>0, <2>1 DEF ControlTypes
  <2>4. QED
    BY <2>2, <2>3
<1>5. CASE ChecksStop \/ Stops \/ ReadsLine \/ ReadTimesOut \/ ReaderDies
  <2>1. /\ UNCHANGED <<pc, returned, sent, stopEvent, waiting, verdicts, debugLines>>
        /\ reader' \in {"checks", "reads", "done", "died"}
        /\ reader' = "done" => stopEvent
    BY <1>5 DEF ChecksStop, Stops, ReadsLine, ReadTimesOut, ReaderDies
  <2>2. PhaseInv'
    BY <1>0, <2>1 DEF PhaseInv
  <2>3. ControlTypes'
    BY <1>0, <2>1 DEF ControlTypes
  <2>4. QED
    BY <2>2, <2>3
<1>6. CASE BoardAnswers \/ BoardReports \/ PieceArrives \/ TakesLine \/ UNCHANGED vars
  <2>1. UNCHANGED <<pc, returned, sent, stopEvent, reader>>
    BY <1>6 DEF BoardAnswers, BoardReports, PieceArrives, TakesLine, vars
  <2>2. /\ waiting' \subseteq waiting
        /\ verdicts' \in [1 .. Len(frames) -> {"none", "success", "error", "lost"}]
    BY <1>6 DEF BoardAnswers, BoardReports, PieceArrives, TakesLine, vars, ControlTypes
  <2>3. debugLines' \in 0 .. MaxDebugLines
    <3>1. \/ debugLines' = debugLines
          \/ debugLines < MaxDebugLines /\ debugLines' = debugLines + 1
      BY <1>6 DEF BoardAnswers, BoardReports, PieceArrives, TakesLine, vars
    <3>2. QED
      BY <1>0, <3>1 DEF ControlTypes
  <2>4. PhaseInv'
    BY <1>0, <2>1 DEF PhaseInv
  <2>5. ControlTypes'
    BY <1>0, <2>1, <2>2, <2>3 DEF ControlTypes
  <2>6. QED
    BY <2>4, <2>5
<1>7. QED
  BY <1>1, <1>2, <1>3, <1>4, <1>5, <1>6 DEF Next, Main, Reader, Board, Ended

LEMMA TypeStep == TypeInv /\ [Next]_vars => TypeInv'
<1>1. TypeInv /\ [Next]_vars => FramesInv'
  BY FramesStay DEF TypeInv, FramesInv, argVars
<1>2. QED
  BY <1>1, SequenceTypesStep, ControlTypesStep DEF TypeInv

\* The variables of the script, its reader and the board keep their types.
THEOREM BenchTypeCorrect == Spec => []TypeOK
  BY TypeInit, TypeStep, TypesSuffice, PTL DEF Spec

---------------------------------------------------------------------------
(* How the process ends.                                                   *)

\* Nothing moves once main has returned.
LEMMA ReturnedIsStill ==
    ASSUME [Next]_vars, pc = "returned"
    PROVE  UNCHANGED vars
  BY DEF Next, Main, Reader, Board, Ended, RefusesPins, PortFails, StartsReader,
     WritesFrame, Flushes, WriteFails, TakesLine, QueueEmpty, Deadline, Join, Validates,
     ChecksStop, Stops, ReadsLine, ReadTimesOut, ReaderDies, BoardAnswers, BoardReports,
     PieceArrives, Running

\* A reader that was joined puts no more lines.
JoinedInv ==
    pc = "last" /\ ~longReads => reader \in {"done", "died"}

ReceiveInv == TypeInv /\ JoinedInv /\ EveryLineReceived

\* main takes the lines the reader puts, and no other step moves a line.
LEMMA LinesMove ==
    ASSUME ReceiveInv, [Next]_vars
    PROVE  (received \o queue = put)'
<1> USE DEF ReceiveInv, TypeInv
<1>0. received \o queue = put
  BY DEF EveryLineReceived
<1>1. CASE TakesLine
  <2>1. queue = <<Head(queue)>> \o Tail(queue)
    BY <1>1 DEF TakesLine, SequenceTypes
  <2>2. Append(received, Head(queue)) = received \o <<Head(queue)>>
    BY <1>1, HeadTailProperties, AppendIsConcat DEF TakesLine, SequenceTypes
  <2>3. Head(queue) \in ReceivedLines /\ Tail(queue) \in Seq(ReceivedLines)
    BY <1>1, HeadTailProperties DEF TakesLine, SequenceTypes
  <2>4. (received \o <<Head(queue)>>) \o Tail(queue)
          = received \o (<<Head(queue)>> \o Tail(queue))
    BY <2>3, ConcatAssociative DEF SequenceTypes
  <2>5. UNCHANGED put
    BY <1>1 DEF TakesLine, readerVars
  <2>6. QED
    BY <1>0, <1>1, <2>1, <2>2, <2>4, <2>5 DEF TakesLine
<1>2. CASE \E line \in Seq(Pieces) : Puts(line) /\ UNCHANGED received
  <2>1. PICK line \in Seq(Pieces) : Puts(line) /\ UNCHANGED received
    BY <1>2
  <2>2. CASE line = <<>>
    BY <1>0, <2>1, <2>2 DEF Puts
  <2>3. CASE line # <<>>
    <3>1. line \in ReceivedLines
      BY <2>3 DEF ReceivedLines
    <3>2. Append(queue, line) = queue \o <<line>> /\ Append(put, line) = put \o <<line>>
      BY <3>1, AppendIsConcat DEF SequenceTypes
    <3>3. received \o (queue \o <<line>>) = (received \o queue) \o <<line>>
      <4>1. <<line>> \in Seq(ReceivedLines)
        BY <3>1
      <4>2. QED
        BY <4>1, ConcatAssociative DEF SequenceTypes
    <3>4. QED
      BY <1>0, <2>1, <2>3, <3>2, <3>3 DEF Puts
  <2>4. QED
    BY <2>2, <2>3
<1>3. CASE UNCHANGED <<received, queue, put>>
  BY <1>0, <1>3
<1>4. CASE Stops
  BY <1>2, <1>4 DEF Stops, SequenceTypes, mainVars
<1>5. CASE ReadsLine
  BY <1>2, <1>5, LinesRead DEF mainVars, ReadsLine
<1>6. QED
  BY <1>1, <1>3, <1>4, <1>5 DEF Next, Main, Reader, Board, Ended, RefusesPins, PortFails,
     StartsReader, WritesFrame, Flushes, WriteFails, QueueEmpty, Deadline, Join, Validates,
     ChecksStop, ReadTimesOut, ReaderDies, BoardAnswers, BoardReports, PieceArrives, vars,
     mainVars, readerVars

LEMMA ReceiveStep == ReceiveInv /\ [Next]_vars => ReceiveInv'
<1> SUFFICES ASSUME ReceiveInv, [Next]_vars
             PROVE  JoinedInv' /\ EveryLineReceived'
  BY TypeStep DEF ReceiveInv
<1> USE DEF ReceiveInv
<1>0. (received \o queue = put)' /\ UNCHANGED longReads
  BY LinesMove, FramesStay DEF argVars
<1>1. CASE pc = "returned"
  <2>1. UNCHANGED <<pc, stopEvent, longReads, received, queue, put, reader>>
    BY <1>1, ReturnedIsStill DEF vars, mainVars, readerVars, argVars
  <2>2. QED
    BY <1>1, <2>1 DEF JoinedInv, EveryLineReceived
<1>2. CASE pc # "returned" /\ pc' = "returned"
  <2>1. CASE Validates
    <3>1. queue = <<>> /\ UNCHANGED <<received, put, reader, queue, stopEvent>> /\ pc = "last"
      BY <2>1 DEF Validates, mainVars, readerVars
    <3>2. received = put
      BY <3>1, ConcatEmptySeq DEF EveryLineReceived, TypeInv, SequenceTypes
    <3>3. QED
      BY <1>0, <1>2, <3>1, <3>2 DEF EveryLineReceived, JoinedInv
  <2>2. CASE RefusesPins \/ PortFails \/ WriteFails
    <3>1. ~stopEvent /\ UNCHANGED stopEvent
      BY <2>2 DEF RefusesPins, PortFails, WriteFails, TypeInv, PhaseInv
    <3>2. QED
      BY <1>0, <1>2, <3>1 DEF EveryLineReceived, JoinedInv
  <2>3. QED
    BY <1>2, <2>1, <2>2 DEF Next, Main, Reader, Board, Ended, StartsReader, WritesFrame,
       Flushes, TakesLine, QueueEmpty, Deadline, Join, ChecksStop, Stops, ReadsLine,
       ReadTimesOut, ReaderDies, BoardAnswers, BoardReports, PieceArrives, vars, mainVars
<1>3. CASE pc' # "returned"
  <2>1. EveryLineReceived'
    BY <1>0, <1>3 DEF EveryLineReceived
  <2>2. JoinedInv'
    <3>1. CASE pc' = "last" /\ pc # "last"
      <4>1. Join
        BY <3>1 DEF Next, Main, Reader, Board, Ended, RefusesPins, PortFails, WriteFails,
           Validates, Returns, StartsReader, WritesFrame, Flushes, TakesLine, QueueEmpty,
           Deadline, ChecksStop, Stops, ReadsLine, ReadTimesOut, ReaderDies, BoardAnswers,
           BoardReports, PieceArrives, vars, mainVars
      <4>2. QED
        BY <1>0, <4>1 DEF Join, JoinedInv, readerVars, TypeInv, PhaseInv
    <3>2. CASE pc = "last"
      <4>1. reader' = reader \/ reader \in {"checks", "reads"}
        BY <3>2 DEF Next, Main, Reader, Board, Ended, RefusesPins, PortFails, WriteFails,
           Validates, Returns, StartsReader, WritesFrame, Flushes, TakesLine, QueueEmpty,
           Deadline, Join, ChecksStop, Stops, ReadsLine, ReadTimesOut, ReaderDies, BoardAnswers,
           BoardReports, PieceArrives, vars, readerVars
      <4>2. QED
        BY <1>0, <3>2, <4>1 DEF JoinedInv
    <3>3. QED
      BY <3>1, <3>2 DEF JoinedInv
  <2>3. QED
    BY <2>1, <2>2
<1>4. QED
  BY <1>1, <1>2, <1>3

LEMMA ReceiveInit == Init => ReceiveInv
<1> SUFFICES ASSUME Init PROVE JoinedInv /\ EveryLineReceived
  BY TypeInit DEF ReceiveInv
<1>1. <<>> \o <<>> = <<>>
  OBVIOUS
<1>2. QED
  BY <1>1 DEF Init, JoinedInv, EveryLineReceived

\* Whatever the reader is doing when the deadline passes, main receives every
\* line it puts, in order, and misses none unless the join could time out.
THEOREM EveryLineArrives == Spec => []EveryLineReceived
<1>1. ReceiveInv => EveryLineReceived
  BY DEF ReceiveInv
<1>2. QED
  BY ReceiveInit, ReceiveStep, <1>1, PTL DEF Spec

---------------------------------------------------------------------------
(* What is on its way to the reader's lines.                               *)

\* The pieces that are not put yet, in the order they were sent.
Coming == (buffer \o wire) \o writing

\* A line is its front, its back and a line feed, and then the next begins.
Linked(s) ==
    \A k \in 1 .. Len(s) :
        /\ s[k].part = "front" => k < Len(s) /\ s[k + 1] = Piece(s[k].line, "back")
        /\ s[k].part = "back" => k < Len(s) /\ s[k + 1] = LineFeed
        /\ s[k].part = "LF" => s[k] = LineFeed /\ (k < Len(s) => s[k + 1].part = "front")

LEMMA ThreeInARow ==
    ASSUME NEW S, NEW a \in Seq(S), NEW b \in Seq(S), NEW c \in Seq(S)
    PROVE  /\ (a \o b) \o c \in Seq(S)
           /\ Len((a \o b) \o c) = Len(a) + Len(b) + Len(c)
           /\ \A k \in 1 .. Len(a) + Len(b) + Len(c) :
                 ((a \o b) \o c)[k] =
                     IF k <= Len(a) THEN a[k]
                     ELSE IF k <= Len(a) + Len(b) THEN b[k - Len(a)]
                     ELSE c[k - Len(a) - Len(b)]
<1>0. Len(a) \in Nat /\ Len(b) \in Nat /\ Len(c) \in Nat
  BY LenProperties
<1>1. /\ a \o b \in Seq(S) /\ Len(a \o b) = Len(a) + Len(b)
      /\ \A k \in 1 .. Len(a) + Len(b) :
            (a \o b)[k] = IF k <= Len(a) THEN a[k] ELSE b[k - Len(a)]
  BY ConcatProperties
<1>2. /\ (a \o b) \o c \in Seq(S)
      /\ Len((a \o b) \o c) = Len(a \o b) + Len(c)
      /\ \A k \in 1 .. Len(a \o b) + Len(c) :
            ((a \o b) \o c)[k] = IF k <= Len(a \o b) THEN (a \o b)[k]
                                 ELSE c[k - Len(a \o b)]
  BY <1>1, ConcatProperties
<1>3. QED
  BY <1>0, <1>1, <1>2

LEMMA ComingTypes ==
    ASSUME SequenceTypes
    PROVE  /\ Coming \in Seq(Pieces) /\ Len(Coming) \in Nat
           /\ DOMAIN Coming = 1 .. Len(Coming)
           /\ \A k \in 1 .. Len(Coming) :
                 /\ Coming[k] \in Pieces
                 /\ Coming[k].part \in {"front", "back", "LF"}
<1>1. Coming \in Seq(Pieces)
  BY ThreeInARow DEF Coming, SequenceTypes
<1>2. /\ Len(Coming) \in Nat /\ DOMAIN Coming = 1 .. Len(Coming)
      /\ \A k \in 1 .. Len(Coming) : Coming[k] \in Pieces
  BY <1>1, LenProperties, ElementOfSeq
<1>3. QED
  BY <1>1, <1>2 DEF Pieces

\* What is left behind a line feed begins with a line.
LEMMA LinkedSuffix ==
    ASSUME NEW s \in Seq(Pieces), Linked(s),
           NEW m \in 1 .. Len(s), s[m] = LineFeed
    PROVE  /\ Linked(SubSeq(s, m + 1, Len(s)))
           /\ SubSeq(s, m + 1, Len(s)) # <<>> =>
                 SubSeq(s, m + 1, Len(s))[1].part = "front"
<1> DEFINE t == SubSeq(s, m + 1, Len(s))
<1>1. /\ Len(s) \in Nat
      /\ t \in Seq(Pieces) /\ Len(t) = Len(s) - m
      /\ \A k \in 1 .. Len(t) : t[k] = s[m + k]
  <2>1. Len(s) \in Nat
    BY LenProperties
  <2>2. \A k \in m + 1 .. Len(s) : s[k] \in Pieces
    BY <2>1, ElementOfSeq
  <2>3. /\ t \in Seq(Pieces)
        /\ Len(t) = IF m + 1 <= Len(s) THEN Len(s) - (m + 1) + 1 ELSE 0
        /\ \A k \in 1 .. Len(s) - (m + 1) + 1 : t[k] = s[(m + 1) + k - 1]
    BY <2>1, <2>2, SubSeqProperties
  <2>4. Len(t) = Len(s) - m
    BY <2>1, <2>3
  <2>5. ASSUME NEW k \in 1 .. Len(t) PROVE t[k] = s[m + k]
    <3>1. k \in 1 .. Len(s) - (m + 1) + 1 /\ (m + 1) + k - 1 = m + k
      BY <2>1, <2>4
    <3>2. QED
      BY <2>3, <3>1
  <2>6. QED
    BY <2>1, <2>3, <2>4, <2>5
<1> HIDE DEF t
<1>2. Linked(t)
  <2>1. ASSUME NEW k \in 1 .. Len(t)
        PROVE  /\ m + k \in 1 .. Len(s) /\ t[k] = s[m + k]
               /\ k < Len(t) <=> m + k < Len(s)
               /\ k < Len(t) => t[k + 1] = s[(m + k) + 1]
    <3>1. m \in Nat /\ k \in Nat /\ m + k \in 1 .. Len(s)
      BY <1>1
    <3>2. k < Len(t) => k + 1 \in 1 .. Len(t) /\ m + (k + 1) = (m + k) + 1
      BY <1>1
    <3>3. k < Len(t) => t[k + 1] = s[m + (k + 1)]
      BY <1>1, <3>2
    <3>4. k < Len(t) => t[k + 1] = s[(m + k) + 1]
      BY <3>2, <3>3
    <3>5. t[k] = s[m + k]
      BY <1>1
    <3>6. k < Len(t) <=> m + k < Len(s)
      BY <1>1, <3>1
    <3>7. QED
      BY <3>1, <3>4, <3>5, <3>6
  <2>2. ASSUME NEW k \in 1 .. Len(t)
        PROVE  /\ t[k].part = "front" => k < Len(t) /\ t[k + 1] = Piece(t[k].line, "back")
               /\ t[k].part = "back" => k < Len(t) /\ t[k + 1] = LineFeed
               /\ t[k].part = "LF" =>
                     t[k] = LineFeed /\ (k < Len(t) => t[k + 1].part = "front")
    <3> DEFINE n == m + k
    <3>1. /\ n \in 1 .. Len(s) /\ t[k] = s[n]
          /\ k < Len(t) <=> n < Len(s)
          /\ k < Len(t) => t[k + 1] = s[n + 1]
      BY <2>1
    <3> HIDE DEF n
    <3>2. /\ s[n].part = "front" => n < Len(s) /\ s[n + 1] = Piece(s[n].line, "back")
          /\ s[n].part = "back" => n < Len(s) /\ s[n + 1] = LineFeed
          /\ s[n].part = "LF" => s[n] = LineFeed /\ (n < Len(s) => s[n + 1].part = "front")
      BY <3>1 DEF Linked
    <3>3. QED
      BY <3>1, <3>2
  <2>3. QED
    BY <2>2 DEF Linked
<1>3. t # <<>> => t[1].part = "front"
  <2>1. SUFFICES ASSUME t # <<>> PROVE t[1].part = "front"
    OBVIOUS
  <2>2. Len(t) > 0
    BY <1>1, <2>1, EmptySeq
  <2>3. m < Len(s) /\ t[1] = s[m + 1]
    BY <1>1, <2>2
  <2>4. s[m].part = "LF"
    BY DEF LineFeed, Piece
  <2>5. QED
    BY <2>3, <2>4 DEF Linked
<1>4. QED
  BY <1>2, <1>3 DEF t

\* What is read up to the first line feed, from a front, is one line.
LEMMA LinkedLine ==
    ASSUME NEW s \in Seq(Pieces), Linked(s), NEW m \in 1 .. Len(s),
           s[m] = LineFeed, \A k \in 1 .. m - 1 : s[k] # LineFeed,
           s[1].part = "front"
    PROVE  /\ m = 3 /\ Parses(SubSeq(s, 1, m - 1))
           /\ SubSeq(s, 1, m - 1)[1] = s[1]
<1>1. Len(s) \in Nat /\ m \in Nat
  BY LenProperties
<1>2. m # 1
  BY DEF LineFeed, Piece
<1>3. 1 < Len(s) /\ s[2] = Piece(s[1].line, "back")
  BY <1>1, <1>2 DEF Linked
<1>4. m # 2 /\ s[2].part = "back"
  BY <1>3 DEF LineFeed, Piece
<1>5. 2 < Len(s) /\ s[3] = LineFeed
  BY <1>1, <1>3, <1>4 DEF Linked
<1>6. m = 3
  BY <1>1, <1>2, <1>4, <1>5
<1>7. /\ Len(SubSeq(s, 1, 2)) = 2
      /\ SubSeq(s, 1, 2)[1] = s[1] /\ SubSeq(s, 1, 2)[2] = s[2]
  <2>1. \A k \in 1 .. 2 : s[k] \in Pieces
    BY <1>1, <1>5, ElementOfSeq
  <2>2. /\ Len(SubSeq(s, 1, 2)) = IF 1 <= 2 THEN 2 - 1 + 1 ELSE 0
        /\ \A k \in 1 .. 2 - 1 + 1 : SubSeq(s, 1, 2)[k] = s[1 + k - 1]
    BY <2>1, SubSeqProperties
  <2>3. QED
    BY <2>2
<1>8. Parses(SubSeq(s, 1, 2))
  BY <1>3, <1>7 DEF Parses, Piece
<1>9. QED
  BY <1>6, <1>7, <1>8

\* The board sends whole lines, one after the other.
LEMMA LinkedSends ==
    ASSUME FramesInv, NEW s \in Seq(Pieces), Linked(s), NEW line \in Lines
    PROVE  /\ Linked(s \o PiecesOf(line))
           /\ Len(s \o PiecesOf(line)) = Len(s) + 3
           /\ \A k \in 1 .. Len(s) : (s \o PiecesOf(line))[k] = s[k]
           /\ (s \o PiecesOf(line))[Len(s) + 1] = Piece(line, "front")
           /\ (s \o PiecesOf(line))[Len(s) + 2] = Piece(line, "back")
           /\ (s \o PiecesOf(line))[Len(s) + 3] = LineFeed
<1> DEFINE t == s \o PiecesOf(line)
<1>1. /\ PiecesOf(line) \in Seq(Pieces) /\ Len(PiecesOf(line)) = 3
      /\ PiecesOf(line)[1] = Piece(line, "front")
      /\ PiecesOf(line)[2] = Piece(line, "back")
      /\ PiecesOf(line)[3] = LineFeed
  BY LinesHavePieces
<1>2. /\ Len(s) \in Nat /\ Len(t) = Len(s) + 3
      /\ \A k \in 1 .. Len(s) + 3 :
            t[k] = IF k <= Len(s) THEN s[k] ELSE PiecesOf(line)[k - Len(s)]
  <2>1. Len(s) \in Nat
    BY LenProperties
  <2>2. /\ Len(t) = Len(s) + Len(PiecesOf(line))
        /\ \A k \in 1 .. Len(s) + Len(PiecesOf(line)) :
              t[k] = IF k <= Len(s) THEN s[k] ELSE PiecesOf(line)[k - Len(s)]
    BY <1>1, ConcatProperties
  <2>3. QED
    BY <1>1, <2>1, <2>2
<1> HIDE DEF t
<1>3. /\ \A k \in 1 .. Len(s) : t[k] = s[k]
      /\ t[Len(s) + 1] = Piece(line, "front")
      /\ t[Len(s) + 2] = Piece(line, "back")
      /\ t[Len(s) + 3] = LineFeed
  BY <1>1, <1>2
<1>4. ASSUME NEW k \in 1 .. Len(s)
      PROVE  /\ t[k].part = "front" => k < Len(t) /\ t[k + 1] = Piece(t[k].line, "back")
             /\ t[k].part = "back" => k < Len(t) /\ t[k + 1] = LineFeed
             /\ t[k].part = "LF" =>
                   t[k] = LineFeed /\ (k < Len(t) => t[k + 1].part = "front")
  <2>1. CASE k < Len(s)
    <3>1. t[k + 1] = s[k + 1] /\ t[k] = s[k] /\ k < Len(t)
      BY <1>2, <1>3, <2>1
    <3>2. QED
      BY <2>1, <3>1 DEF Linked
  <2>2. CASE k = Len(s)
    <3>1. t[k] = s[k] /\ t[k + 1] = Piece(line, "front")
      BY <1>3, <2>2
    <3>2. s[k].part # "front" /\ s[k].part # "back"
      BY <1>2, <2>2 DEF Linked
    <3>3. QED
      BY <3>1, <3>2 DEF Linked, Piece
  <2>3. QED
    BY <1>2, <2>1, <2>2
<1>5. /\ t[Len(s) + 1].part = "front" /\ t[Len(s) + 1].line = line
      /\ t[Len(s) + 2].part = "back" /\ t[Len(s) + 3].part = "LF"
  BY <1>3 DEF Piece, LineFeed
<1>6. Linked(t)
  <2>1. \A k \in 1 .. Len(t) :
           k \in 1 .. Len(s) \/ k \in {Len(s) + 1, Len(s) + 2, Len(s) + 3}
    BY <1>2
  <2>2. ASSUME NEW k \in {Len(s) + 1, Len(s) + 2, Len(s) + 3}
        PROVE  /\ t[k].part = "front" => k < Len(t) /\ t[k + 1] = Piece(t[k].line, "back")
               /\ t[k].part = "back" => k < Len(t) /\ t[k + 1] = LineFeed
               /\ t[k].part = "LF" =>
                     t[k] = LineFeed /\ (k < Len(t) => t[k + 1].part = "front")
    <3>1. CASE k = Len(s) + 1
      BY <1>2, <1>3, <1>5, <3>1
    <3>2. CASE k = Len(s) + 2
      BY <1>2, <1>3, <1>5, <3>2
    <3>3. CASE k = Len(s) + 3
      BY <1>2, <1>3, <1>5, <3>3
    <3>4. QED
      BY <3>1, <3>2, <3>3
  <2>3. QED
    BY <1>4, <2>1, <2>2 DEF Linked
<1>7. QED
  BY <1>2, <1>3, <1>6 DEF t

---------------------------------------------------------------------------
(* What a step does to it.                                                 *)

\* The buffer holds the beginning of a line.
NoLineFeed == \A k \in 1 .. Len(buffer) : buffer[k] # LineFeed

\* The board begins to send a line: a debug line, or the one answer to a
\* request that is waiting.
Sends(line) ==
    /\ writing = <<>> /\ writing' = PiecesOf(line)
    /\ UNCHANGED <<reader, buffer, put, wire, sent, frames>>
    /\ \/ line = DebugLine /\ UNCHANGED <<waiting, verdicts>>
       \/ \E id \in waiting :
             /\ waiting' = waiting \ {id}
             /\ \/ /\ line = Answer("S", id, SUCCESS_ERROR_CODE)
                   /\ verdicts' = [verdicts EXCEPT ![id] = "success"]
                \/ /\ line = Answer("E", id, 3)
                   /\ verdicts' = [verdicts EXCEPT ![id] = "error"]

\* Nothing is put and the board begins no line.
Moves ==
    /\ Coming' = Coming /\ put' = put
    /\ reader' = "done" => reader = "done"
    /\ \/ buffer' = buffer
       \/ buffer' = buffer \o wire /\ LineFeedsAt = {}

LEMMA SentLinesTyped ==
    ASSUME TypeInv
    PROVE  /\ DebugLine \in Lines
           /\ \A id \in waiting :
                 {Answer("S", id, SUCCESS_ERROR_CODE), Answer("E", id, 3)} \subseteq Lines
<1> USE DEF TypeInv
<1>1. Len(frames) \in Nat
  BY FramesLength
<1>2. DebugLine \in Lines
  BY <1>1 DEF Lines, DebugLine, Answer
<1>3. ASSUME NEW id \in waiting
      PROVE  {Answer("S", id, SUCCESS_ERROR_CODE), Answer("E", id, 3)} \subseteq Lines
  <2>1. id \in 1 .. Len(frames)
    BY <1>1, <1>3 DEF ControlTypes
  <2>2. id \in 0 .. Len(frames) + 1
    BY <1>1, <2>1
  <2>3. QED
    BY <2>2 DEF Lines, Answer, SUCCESS_ERROR_CODE
<1>4. QED
  BY <1>2, <1>3

LEMMA ComingSteps ==
    ASSUME TypeInv, [Next]_vars
    PROVE  \/ Moves
           \/ Stops
           \/ ReadsLine
           \/ \E line \in Lines : Sends(line) /\ Coming' = Coming \o PiecesOf(line)
<1> USE DEF TypeInv
<1>1. CASE ReadTimesOut
  <2>1. UNCHANGED <<put, writing>> /\ wire' = <<>> /\ reader' = "checks"
        /\ LineFeedsAt = {}
    BY <1>1 DEF ReadTimesOut, boardVars
  <2>2. CASE wire = <<>>
    BY <1>1, <2>1, <2>2 DEF ReadTimesOut, Moves, Coming
  <2>3. CASE wire # <<>>
    <3>1. buffer' = buffer \o wire
      BY <1>1, <2>3 DEF ReadTimesOut, Buffers
    <3>2. (buffer \o wire) \o <<>> = buffer \o wire
      BY ConcatProperties, ConcatEmptySeq DEF SequenceTypes
    <3>3. Coming' = Coming
      BY <2>1, <3>1, <3>2 DEF Coming
    <3>4. QED
      BY <2>1, <3>1, <3>3 DEF Moves
  <2>4. QED
    BY <2>2, <2>3
<1>2. CASE PieceArrives
  <2> DEFINE h == Head(writing)
             rest == Tail(writing)
  <2>1. /\ h \in Pieces /\ rest \in Seq(Pieces) /\ writing = <<h>> \o rest
        /\ <<h>> \in Seq(Pieces)
    BY <1>2, HeadTailProperties DEF PieceArrives, SequenceTypes
  <2>2. wire' = wire \o <<h>> /\ writing' = rest
    BY <1>2, <2>1, AppendIsConcat DEF PieceArrives, SequenceTypes
  <2>3. UNCHANGED <<buffer, put, reader>>
    BY <1>2 DEF PieceArrives, readerVars
  <2> HIDE DEF h, rest
  <2>4. buffer \o (wire \o <<h>>) = (buffer \o wire) \o <<h>>
    BY <2>1, ConcatAssociative DEF SequenceTypes
  <2>5. buffer \o wire \in Seq(Pieces)
    BY ConcatProperties DEF SequenceTypes
  <2>6. ((buffer \o wire) \o <<h>>) \o rest = (buffer \o wire) \o (<<h>> \o rest)
    BY <2>1, <2>5, ConcatAssociative
  <2>7. Coming' = Coming
    BY <2>1, <2>2, <2>3, <2>4, <2>6 DEF Coming
  <2>8. QED
    BY <2>3, <2>7 DEF Moves
<1>3. CASE \E line \in Lines : Sends(line)
  <2>1. PICK line \in Lines : Sends(line)
    BY <1>3
  <2>2. Coming = buffer \o wire
    BY <2>1, ConcatProperties, ConcatEmptySeq DEF Sends, Coming, SequenceTypes
  <2>3. Coming' = Coming \o PiecesOf(line)
    BY <2>1, <2>2 DEF Sends, Coming
  <2>4. QED
    BY <2>1, <2>3
<1>4. CASE BoardReports
  BY <1>3, <1>4, SentLinesTyped DEF BoardReports, Sends, mainVars, readerVars, argVars
<1>5. CASE BoardAnswers
  <2>1. PICK id \in waiting :
           /\ waiting' = waiting \ {id}
           /\ \/ /\ writing' = PiecesOf(Answer("S", id, SUCCESS_ERROR_CODE))
                 /\ verdicts' = [verdicts EXCEPT ![id] = "success"]
              \/ /\ writing' = PiecesOf(Answer("E", id, 3))
                 /\ verdicts' = [verdicts EXCEPT ![id] = "error"]
              \/ UNCHANGED writing
    BY <1>5 DEF BoardAnswers
  <2>2. writing = <<>> /\ UNCHANGED <<reader, buffer, put, wire, sent, frames>>
    BY <1>5 DEF BoardAnswers, mainVars, readerVars, argVars
  <2>3. CASE UNCHANGED writing
    BY <2>2, <2>3 DEF Moves, Coming
  <2>4. CASE /\ writing' = PiecesOf(Answer("S", id, SUCCESS_ERROR_CODE))
             /\ verdicts' = [verdicts EXCEPT ![id] = "success"]
    <3>1. Sends(Answer("S", id, SUCCESS_ERROR_CODE))
      BY <2>1, <2>2, <2>4 DEF Sends
    <3>2. QED
      BY <1>3, <3>1, SentLinesTyped
  <2>5. CASE /\ writing' = PiecesOf(Answer("E", id, 3))
             /\ verdicts' = [verdicts EXCEPT ![id] = "error"]
    <3>1. Sends(Answer("E", id, 3))
      BY <2>1, <2>2, <2>5 DEF Sends
    <3>2. QED
      BY <1>3, <3>1, SentLinesTyped
  <2>6. QED
    BY <2>1, <2>3, <2>4, <2>5
<1>6. CASE /\ UNCHANGED <<buffer, wire, writing, put>>
           /\ reader' = "done" => reader = "done"
  BY <1>6 DEF Moves, Coming
<1>7. CASE StartsReader \/ ChecksStop \/ ReaderDies
  BY <1>6, <1>7 DEF StartsReader, ChecksStop, ReaderDies, boardVars
<1>8. CASE RefusesPins \/ PortFails \/ WritesFrame \/ Flushes \/ WriteFails \/ TakesLine
           \/ QueueEmpty \/ Deadline \/ Join \/ Validates \/ UNCHANGED vars
  BY <1>6, <1>8 DEF RefusesPins, PortFails, WritesFrame, Flushes, WriteFails, TakesLine,
     QueueEmpty, Deadline, Join, Validates, readerVars, boardVars, vars
<1>9. QED
  BY <1>1, <1>2, <1>4, <1>5, <1>7, <1>8 DEF Next, Main, Reader, Board, Ended

\* readline cuts what is coming at its first line feed.
LEMMA ReadsNextLine ==
    ASSUME TypeInv, Linked(Coming), NoLineFeed, ReadsLine
    PROVE  \E m \in 1 .. Len(Coming) :
              /\ Coming[m] = LineFeed
              /\ \A k \in 1 .. m - 1 : Coming[k] # LineFeed
              /\ Coming' = SubSeq(Coming, m + 1, Len(Coming))
              /\ Puts(SubSeq(Coming, 1, m - 1))
<1> USE DEF TypeInv
<1>1. PICK i \in 1 .. Len(wire) :
         /\ wire[i] = LineFeed
         /\ \A j \in 1 .. i - 1 : wire[j] # LineFeed
         /\ wire' = SubSeq(wire, i + 1, Len(wire))
         /\ wire' \in Seq(Pieces)
         /\ SubSeq(wire, 1, i - 1) \in Seq(Pieces)
         /\ buffer \o SubSeq(wire, 1, i - 1) \in Seq(Pieces)
         /\ Puts(buffer \o SubSeq(wire, 1, i - 1))
  BY LinesRead
<1> DEFINE b == Len(buffer)
           w == Len(wire)
           m == b + i
           n == Len(Coming)
<1>2. b \in Nat /\ w \in Nat /\ Len(writing) \in Nat
  BY LenProperties DEF SequenceTypes
<1>3. /\ Coming \in Seq(Pieces) /\ n = b + w + Len(writing)
      /\ \A k \in 1 .. b + w + Len(writing) :
            Coming[k] = IF k <= b THEN buffer[k]
                        ELSE IF k <= b + w THEN wire[k - b]
                        ELSE writing[k - b - w]
  BY ThreeInARow DEF Coming, SequenceTypes
<1> HIDE DEF b, w, n
<1>4. m \in 1 .. n /\ m \in Nat /\ n \in Nat /\ i \in 1 .. w
  BY <1>1, <1>2, <1>3 DEF w
<1>5. Coming[m] = LineFeed
  <2>1. m \in 1 .. b + w + Len(writing) /\ ~(m <= b) /\ m <= b + w /\ m - b = i
    BY <1>2, <1>4
  <2>2. Coming[m] = wire[m - b]
    BY <1>3, <2>1
  <2>3. QED
    BY <1>1, <2>1, <2>2
<1>6. ASSUME NEW k \in 1 .. m - 1
      PROVE  Coming[k] # LineFeed
  <2>1. k \in 1 .. b + w + Len(writing) /\ k <= b + w
    BY <1>2, <1>4
  <2>2. CASE k <= b
    <3>1. Coming[k] = buffer[k] /\ k \in 1 .. b
      BY <1>3, <2>1, <2>2
    <3>2. QED
      BY <3>1 DEF NoLineFeed, b
  <2>3. CASE ~(k <= b)
    <3>1. Coming[k] = wire[k - b] /\ k - b \in 1 .. i - 1
      BY <1>2, <1>3, <1>4, <2>1, <2>3
    <3>2. QED
      BY <1>1, <3>1
  <2>4. QED
    BY <2>2, <2>3
<1>7. SubSeq(Coming, 1, m - 1) = buffer \o SubSeq(wire, 1, i - 1)
  <2> DEFINE l == SubSeq(wire, 1, i - 1)
             c == SubSeq(Coming, 1, m - 1)
  <2>1. /\ l \in Seq(Pieces) /\ Len(l) = i - 1
        /\ \A k \in 1 .. i - 1 : l[k] = wire[k]
    <3>1. \A k \in 1 .. i - 1 : wire[k] \in Pieces
      BY <1>2, <1>4, ElementOfSeq DEF SequenceTypes, w
    <3>2. /\ Len(l) = IF 1 <= i - 1 THEN i - 1 - 1 + 1 ELSE 0
          /\ \A k \in 1 .. i - 1 - 1 + 1 : l[k] = wire[1 + k - 1]
      BY <1>4, <3>1, SubSeqProperties
    <3>3. QED
      BY <1>1, <1>2, <1>4, <3>2
  <2>2. /\ c \in Seq(Pieces) /\ Len(c) = m - 1
        /\ \A k \in 1 .. m - 1 : c[k] = Coming[k]
    <3>1. \A k \in 1 .. m - 1 : Coming[k] \in Pieces
      BY <1>3, <1>4, ElementOfSeq DEF n
    <3>2. /\ c \in Seq(Pieces)
          /\ Len(c) = IF 1 <= m - 1 THEN m - 1 - 1 + 1 ELSE 0
          /\ \A k \in 1 .. m - 1 - 1 + 1 : c[k] = Coming[1 + k - 1]
      BY <1>4, <3>1, SubSeqProperties
    <3>3. QED
      BY <1>4, <3>2
  <2> HIDE DEF l, c
  <2>3. /\ buffer \o l \in Seq(Pieces) /\ Len(buffer \o l) = b + (i - 1)
        /\ \A k \in 1 .. b + (i - 1) :
              (buffer \o l)[k] = IF k <= b THEN buffer[k] ELSE l[k - b]
    <3>1. /\ buffer \o l \in Seq(Pieces) /\ Len(buffer \o l) = Len(buffer) + Len(l)
          /\ \A k \in 1 .. Len(buffer) + Len(l) :
                (buffer \o l)[k] = IF k <= Len(buffer) THEN buffer[k]
                                  ELSE l[k - Len(buffer)]
      BY <2>1, ConcatProperties DEF SequenceTypes
    <3>2. Len(buffer) = b /\ Len(l) = i - 1
      BY <2>1 DEF b
    <3>3. QED
      BY <3>1, <3>2
  <2>4. Len(c) = Len(buffer \o l)
    BY <1>2, <1>4, <2>2, <2>3
  <2>5. ASSUME NEW k \in 1 .. Len(c)
        PROVE  c[k] = (buffer \o l)[k]
    <3>1. /\ k \in 1 .. m - 1 /\ k \in 1 .. b + (i - 1) /\ k <= b + w
          /\ k \in 1 .. b + w + Len(writing)
      BY <1>2, <1>4, <2>2
    <3>2. CASE k <= b
      BY <1>3, <2>2, <2>3, <3>1, <3>2
    <3>3. CASE ~(k <= b)
      <4>1. k - b \in 1 .. i - 1
        BY <1>2, <1>4, <3>1, <3>3
      <4>2. QED
        BY <1>3, <2>1, <2>2, <2>3, <3>1, <3>3, <4>1
    <3>4. QED
      BY <3>2, <3>3
  <2>6. c = buffer \o l
    BY <2>2, <2>3, <2>4, <2>5, SeqEqual
  <2>7. QED
    BY <2>6 DEF c, l
<1>8. Coming' = SubSeq(Coming, m + 1, n)
  <2> DEFINE l == SubSeq(wire, i + 1, w)
             c == SubSeq(Coming, m + 1, n)
  <2>1. /\ l \in Seq(Pieces) /\ Len(l) = w - i
        /\ \A k \in 1 .. w - i : l[k] = wire[i + k]
    <3>1. \A k \in i + 1 .. w : wire[k] \in Pieces
      BY <1>2, <1>4, ElementOfSeq DEF SequenceTypes, w
    <3>2. /\ l \in Seq(Pieces)
          /\ Len(l) = IF i + 1 <= w THEN w - (i + 1) + 1 ELSE 0
          /\ \A k \in 1 .. w - (i + 1) + 1 : l[k] = wire[(i + 1) + k - 1]
      BY <1>2, <1>4, <3>1, SubSeqProperties
    <3>3. Len(l) = w - i
      BY <1>2, <1>4, <3>2
    <3>4. ASSUME NEW k \in 1 .. w - i PROVE l[k] = wire[i + k]
      <4>1. k \in 1 .. w - (i + 1) + 1 /\ (i + 1) + k - 1 = i + k
        BY <1>2, <1>4
      <4>2. QED
        BY <3>2, <4>1
    <3>5. QED
      BY <3>2, <3>3, <3>4
  <2>2. /\ c \in Seq(Pieces) /\ Len(c) = n - m
        /\ \A k \in 1 .. n - m : c[k] = Coming[m + k]
    <3>1. \A k \in m + 1 .. n : Coming[k] \in Pieces
      BY <1>3, <1>4, ElementOfSeq DEF n
    <3>2. /\ c \in Seq(Pieces)
          /\ Len(c) = IF m + 1 <= n THEN n - (m + 1) + 1 ELSE 0
          /\ \A k \in 1 .. n - (m + 1) + 1 : c[k] = Coming[(m + 1) + k - 1]
      BY <1>4, <3>1, SubSeqProperties
    <3>3. Len(c) = n - m
      BY <1>4, <3>2
    <3>4. ASSUME NEW k \in 1 .. n - m PROVE c[k] = Coming[m + k]
      <4>1. k \in 1 .. n - (m + 1) + 1 /\ (m + 1) + k - 1 = m + k
        BY <1>4
      <4>2. QED
        BY <3>2, <4>1
    <3>5. QED
      BY <3>2, <3>3, <3>4
  <2>3. Coming' = (<<>> \o l) \o writing
    BY <1>1 DEF ReadsLine, boardVars, Coming, w
  <2> HIDE DEF l, c
  <2>4. <<>> \o l = l
    BY <2>1, ConcatEmptySeq
  <2>5. /\ l \o writing \in Seq(Pieces) /\ Len(l \o writing) = (w - i) + Len(writing)
        /\ \A k \in 1 .. (w - i) + Len(writing) :
              (l \o writing)[k] = IF k <= w - i THEN l[k] ELSE writing[k - (w - i)]
    BY <2>1, ConcatProperties DEF SequenceTypes
  <2>6. Len(c) = Len(l \o writing)
    BY <1>2, <1>3, <1>4, <2>2, <2>5
  <2>7. ASSUME NEW k \in 1 .. Len(c)
        PROVE  c[k] = (l \o writing)[k]
    <3>1. /\ k \in 1 .. n - m /\ k \in 1 .. (w - i) + Len(writing)
          /\ m + k \in 1 .. b + w + Len(writing) /\ ~(m + k <= b)
      BY <1>2, <1>3, <1>4, <2>2
    <3>2. CASE k <= w - i
      <4>1. m + k <= b + w /\ (m + k) - b = i + k /\ k \in 1 .. w - i
        BY <1>2, <1>4, <3>1, <3>2
      <4>2. Coming[m + k] = wire[(m + k) - b]
        BY <1>3, <3>1, <4>1
      <4>3. QED
        BY <2>1, <2>2, <2>5, <3>1, <3>2, <4>1, <4>2
    <3>3. CASE ~(k <= w - i)
      <4>1. ~(m + k <= b + w) /\ (m + k) - b - w = k - (w - i)
        BY <1>2, <1>4, <3>1, <3>3
      <4>2. Coming[m + k] = writing[(m + k) - b - w]
        BY <1>3, <3>1, <4>1
      <4>3. QED
        BY <2>2, <2>5, <3>1, <3>3, <4>1, <4>2
    <3>4. QED
      BY <3>2, <3>3
  <2>8. c = l \o writing
    BY <2>2, <2>5, <2>6, <2>7, SeqEqual
  <2>9. QED
    BY <2>3, <2>4, <2>8 DEF c
<1>9. QED
  BY <1>1, <1>4, <1>5, <1>6, <1>7, <1>8 DEF n

---------------------------------------------------------------------------
(* The reader neither splits nor joins lines.                              *)

\* What is coming begins with a line, unless it is the rest of an old one.
BeginsWithLine ==
    reader # "done" /\ Coming # <<>> =>
        Coming[1].part = "front" \/ (leftover # <<>> /\ put = <<>>)

CutInv == TypeInv /\ Linked(Coming) /\ NoLineFeed /\ BeginsWithLine /\ OnlyEndsAreCut

\* A line that is put is whole, or the first or the last.
LEMMA PutsKeepCuts ==
    ASSUME CutInv, NEW line \in Seq(Pieces), Puts(line), UNCHANGED leftover,
           reader # "done",
           \/ line = <<>> \/ Parses(line)
           \/ leftover # <<>> /\ put = <<>>
           \/ reader' = "done"
    PROVE  OnlyEndsAreCut'
<1> USE DEF CutInv, TypeInv
<1>1. DOMAIN put = 1 .. Len(put) /\ Len(put) \in Nat
  BY LenProperties DEF SequenceTypes
<1>2. \A i \in DOMAIN put : Parses(put[i]) \/ (i = 1 /\ leftover # <<>>)
  BY DEF OnlyEndsAreCut
<1>3. CASE line = <<>>
  BY <1>2, <1>3 DEF Puts, OnlyEndsAreCut
<1>4. CASE line # <<>>
  <2>1. line \in ReceivedLines
    BY <1>4 DEF ReceivedLines
  <2>2. put' = Append(put, line)
    BY <1>4 DEF Puts
  <2>3. /\ Len(put') = Len(put) + 1 /\ DOMAIN put' = 1 .. Len(put) + 1
        /\ \A i \in 1 .. Len(put) : put'[i] = put[i]
        /\ put'[Len(put) + 1] = line
    <3>1. put' \in Seq(ReceivedLines)
      BY <2>1, <2>2, AppendProperties DEF SequenceTypes
    <3>2. QED
      BY <2>1, <2>2, <3>1, AppendProperties, LenProperties DEF SequenceTypes
  <2>4. ASSUME NEW i \in DOMAIN put'
        PROVE  Parses(put'[i]) \/ (i = 1 /\ leftover # <<>>)
                 \/ (i = Len(put') /\ reader' = "done")
    <3>1. CASE i <= Len(put)
      BY <1>1, <1>2, <2>3, <3>1
    <3>2. CASE i = Len(put) + 1
      <4>1. put'[i] = line
        BY <2>3, <3>2
      <4>2. put = <<>> => i = 1
        BY <3>2
      <4>3. QED
        BY <1>4, <2>3, <3>2, <4>1, <4>2
    <3>3. QED
      BY <1>1, <2>3, <3>1, <3>2
  <2>5. QED
    BY <2>4 DEF OnlyEndsAreCut
<1>5. QED
  BY <1>3, <1>4

\* Reading a line takes the first line that is coming.
LEMMA ReadKeepsCuts ==
    ASSUME CutInv, ReadsLine
    PROVE  Linked(Coming') /\ NoLineFeed' /\ BeginsWithLine' /\ OnlyEndsAreCut'
<1> USE DEF CutInv
<1>0. SequenceTypes
  BY DEF TypeInv
<1>1. /\ reader = "reads" /\ reader' = "checks" /\ buffer' = <<>> /\ UNCHANGED leftover
  BY DEF ReadsLine, argVars
<1>2. PICK m \in 1 .. Len(Coming) :
         /\ Coming[m] = LineFeed
         /\ \A k \in 1 .. m - 1 : Coming[k] # LineFeed
         /\ Coming' = SubSeq(Coming, m + 1, Len(Coming))
         /\ Puts(SubSeq(Coming, 1, m - 1))
  BY ReadsNextLine
<1> DEFINE line == SubSeq(Coming, 1, m - 1)
<1>3. Coming \in Seq(Pieces) /\ Coming # <<>> /\ Len(Coming) \in Nat
  BY <1>0, <1>2, ComingTypes, EmptySeq
<1>4. line \in Seq(Pieces)
  <2>1. \A k \in 1 .. m - 1 : Coming[k] \in Pieces
    BY <1>3, ElementOfSeq
  <2>2. QED
    BY <1>3, <2>1, SubSeqProperties
<1>5. Linked(Coming') /\ (Coming' # <<>> => Coming'[1].part = "front")
  BY <1>2, <1>3, LinkedSuffix
<1>6. NoLineFeed'
  BY <1>1 DEF NoLineFeed
<1>7. BeginsWithLine'
  BY <1>5 DEF BeginsWithLine
<1>8. OnlyEndsAreCut'
  <2>1. Coming[1].part = "front" => Parses(line)
    BY <1>2, <1>3, LinkedLine
  <2>2. Parses(line) \/ (leftover # <<>> /\ put = <<>>)
    BY <1>1, <1>3, <2>1 DEF BeginsWithLine
  <2>3. Puts(line)
    BY <1>2
  <2> HIDE DEF line
  <2>4. QED
    BY <1>1, <1>4, <2>2, <2>3, PutsKeepCuts
<1>9. QED
  BY <1>5, <1>6, <1>7, <1>8

\* A reader that has stopped stays so.
LEMMA DoneIsDone ==
    ASSUME TypeInv, [Next]_vars, reader = "done"
    PROVE  reader' = "done"
  BY DEF Next, Main, Reader, Board, Ended, RefusesPins, PortFails, WriteFails,
     Validates, StartsReader, WritesFrame, Flushes, TakesLine, QueueEmpty, Deadline, Join,
     ChecksStop, Stops, ReadsLine, ReadTimesOut, ReaderDies, BoardAnswers,
     BoardReports, PieceArrives, vars, readerVars, TypeInv, PhaseInv

LEMMA CutStep == CutInv /\ [Next]_vars => CutInv'
<1> SUFFICES ASSUME CutInv, [Next]_vars
             PROVE  Linked(Coming') /\ NoLineFeed' /\ BeginsWithLine' /\ OnlyEndsAreCut'
  BY TypeStep DEF CutInv
<1> USE DEF CutInv
<1>0. SequenceTypes /\ FramesInv /\ UNCHANGED leftover
  BY FramesStay DEF TypeInv, argVars
<1>1. CASE Moves
  <2>0. reader = "done" => reader' = "done"
    BY DoneIsDone DEF TypeInv
  <2>1. Linked(Coming') /\ BeginsWithLine'
    <3>1. Coming' = Coming /\ put' = put
      BY <1>1 DEF Moves
    <3>2. Linked(Coming')
      BY <3>1
    <3>3. BeginsWithLine'
      BY <1>0, <2>0, <3>1 DEF BeginsWithLine
    <3>4. QED
      BY <3>2, <3>3
  <2>2. OnlyEndsAreCut'
    BY <1>0, <1>1, <2>0 DEF Moves, OnlyEndsAreCut
  <2>3. NoLineFeed'
    <3>1. CASE buffer' = buffer
      BY <3>1 DEF NoLineFeed
    <3>2. CASE buffer' = buffer \o wire /\ LineFeedsAt = {}
      <4>1. \A k \in 1 .. Len(wire) : wire[k] # LineFeed
        BY <1>0, <3>2, LenProperties DEF LineFeedsAt, SequenceTypes
      <4>2. /\ Len(buffer') = Len(buffer) + Len(wire)
            /\ \A k \in 1 .. Len(buffer) + Len(wire) :
                  buffer'[k] = IF k <= Len(buffer) THEN buffer[k] ELSE wire[k - Len(buffer)]
        BY <1>0, <3>2, ConcatProperties DEF SequenceTypes
      <4>3. Len(buffer) \in Nat /\ Len(wire) \in Nat
        BY <1>0, LenProperties DEF SequenceTypes
      <4>4. QED
        BY <4>1, <4>2, <4>3 DEF NoLineFeed
    <3>3. QED
      BY <1>1, <3>1, <3>2 DEF Moves
  <2>4. QED
    BY <2>1, <2>2, <2>3
<1>2. CASE Stops
  <2>1. /\ reader # "done" /\ reader' = "done" /\ Puts(buffer)
        /\ UNCHANGED <<buffer, wire, writing>>
    BY <1>2 DEF Stops, boardVars
  <2>2. OnlyEndsAreCut'
    BY <1>0, <2>1, PutsKeepCuts DEF SequenceTypes
  <2>3. Coming' = Coming /\ NoLineFeed' /\ BeginsWithLine'
    BY <2>1 DEF Coming, NoLineFeed, BeginsWithLine
  <2>4. QED
    BY <2>2, <2>3
<1>3. CASE ReadsLine
  BY <1>3, ReadKeepsCuts
<1>4. CASE \E line \in Lines : Sends(line) /\ Coming' = Coming \o PiecesOf(line)
  <2>1. PICK line \in Lines : Sends(line) /\ Coming' = Coming \o PiecesOf(line)
    BY <1>4
  <2>2. Coming \in Seq(Pieces) /\ Len(Coming) \in Nat
    BY <1>0, ComingTypes
  <2>3. /\ Linked(Coming')
        /\ \A k \in 1 .. Len(Coming) : Coming'[k] = Coming[k]
        /\ Coming'[Len(Coming) + 1] = Piece(line, "front")
    BY <1>0, <2>1, <2>2, LinkedSends
  <2>4. UNCHANGED <<reader, put, buffer>>
    BY <2>1 DEF Sends
  <2>5. BeginsWithLine'
    <3>1. CASE Coming = <<>>
      <4>1. Coming'[1].part = "front"
        BY <2>3, <3>1, EmptySeq DEF Piece
      <4>2. QED
        BY <4>1 DEF BeginsWithLine
    <3>2. CASE Coming # <<>>
      <4>1. Coming'[1] = Coming[1]
        BY <2>2, <2>3, <3>2, EmptySeq
      <4>2. QED
        BY <1>0, <2>4, <3>2, <4>1 DEF BeginsWithLine
    <3>3. QED
      BY <3>1, <3>2
  <2>6. NoLineFeed' /\ OnlyEndsAreCut'
    BY <1>0, <2>4 DEF NoLineFeed, OnlyEndsAreCut
  <2>7. QED
    BY <2>3, <2>5, <2>6
<1>5. QED
  BY <1>1, <1>2, <1>3, <1>4, ComingSteps

LEMMA CutInit == Init => CutInv
<1> SUFFICES ASSUME Init PROVE Linked(Coming) /\ NoLineFeed /\ BeginsWithLine /\ OnlyEndsAreCut
  BY TypeInit DEF CutInv
<1> DEFINE earlier == PiecesOf(Answer("S", 1, SUCCESS_ERROR_CODE))
<1>1. Coming = leftover /\ buffer = <<>> /\ put = <<>>
  <2>1. SequenceTypes
    BY TypeInit DEF TypeInv
  <2>2. <<>> \o <<>> = <<>>
    OBVIOUS
  <2>3. <<>> \o writing = writing
    BY <2>1, ConcatEmptySeq DEF SequenceTypes
  <2>4. QED
    BY <2>2, <2>3 DEF Init, Coming
<1>2. leftover \in {<<>>, earlier, Tail(earlier), <<LineFeed>>}
  BY DEF Init, Leftovers
<1>3. /\ earlier[1].part = "front" /\ earlier[2] = Piece(earlier[1].line, "back")
      /\ earlier[2].part = "back" /\ earlier[3] = LineFeed /\ Len(earlier) = 3
      /\ Tail(earlier) = <<earlier[2], LineFeed>> /\ LineFeed.part = "LF"
  BY DEF PiecesOf, Piece, LineFeed
<1>4. Linked(<<>>) /\ Linked(earlier) /\ Linked(Tail(earlier)) /\ Linked(<<LineFeed>>)
  <2>1. Linked(<<>>)
    BY DEF Linked
  <2>2. Linked(earlier)
    BY <1>3 DEF Linked
  <2>3. Linked(<<earlier[2], LineFeed>>)
    BY <1>3 DEF Linked
  <2>4. Linked(<<LineFeed>>)
    BY <1>3 DEF Linked
  <2>5. QED
    BY <1>3, <2>1, <2>2, <2>3, <2>4
<1>5. Linked(Coming)
  BY <1>1, <1>2, <1>4
<1>6. NoLineFeed /\ BeginsWithLine
  BY <1>1 DEF NoLineFeed, BeginsWithLine
<1>7. OnlyEndsAreCut
  BY <1>1 DEF OnlyEndsAreCut
<1>8. QED
  BY <1>5, <1>6, <1>7

\* Wherever the timeouts of readline fall, a line the reader puts is one the
\* board sent, but for a first that began too early and a last that was cut.
THEOREM LinesAreWhole == Spec => []OnlyEndsAreCut
<1>1. CutInv => OnlyEndsAreCut
  BY DEF CutInv
<1>2. QED
  BY CutInit, CutStep, <1>1, PTL DEF Spec

---------------------------------------------------------------------------
(* What the lines say is true, and said once.                              *)

\* A request has no verdict before the board answers it.
NoVerdictYet ==
    \A id \in 1 .. Len(frames) :
        id \in waiting \/ id > sent => verdicts[id] = "none"

\* The piece begins an answer that cannot be one of an earlier run.
BeginsAnswer(stale, p) ==
    p.part = "front" /\ p.line.type # "B" /\ p.line.request_id \notin stale

\* Such an answer says how its request was answered.
Told(stale, given, p) ==
    BeginsAnswer(stale, p) =>
        /\ p.line.request_id \in DOMAIN given
        /\ p.line.type = "S" =>
              /\ p.line.error = SUCCESS_ERROR_CODE
              /\ given[p.line.request_id] = "success"
        /\ p.line.type = "E" => given[p.line.request_id] = "error"

TruthInv ==
    /\ \A k \in 1 .. Len(Coming) : Told(StaleIds, verdicts, Coming[k])
    /\ \A i \in 1 .. Len(put) : Told(StaleIds, verdicts, put[i][1])

SameId(p, q) == p.line.request_id = q.line.request_id

\* Lines that are put, and lines that are coming, answer different requests.
OneAnswerEach ==
    /\ reader # "done" =>
          /\ \A k, l \in 1 .. Len(Coming) :
                BeginsAnswer(StaleIds, Coming[k]) /\ BeginsAnswer(StaleIds, Coming[l])
                   /\ SameId(Coming[k], Coming[l]) => k = l
          /\ \A i \in 1 .. Len(put), k \in 1 .. Len(Coming) :
                ~(BeginsAnswer(StaleIds, put[i][1]) /\ BeginsAnswer(StaleIds, Coming[k])
                    /\ SameId(put[i][1], Coming[k]))
    /\ \A i, j \in 1 .. Len(put) :
          BeginsAnswer(StaleIds, put[i][1]) /\ BeginsAnswer(StaleIds, put[j][1])
             /\ SameId(put[i][1], put[j][1]) => i = j

AnswerInv == CutInv /\ NoVerdictYet /\ TruthInv /\ OneAnswerEach

\* A verdict stands once it is given.
LEMMA VerdictsStand ==
    ASSUME TypeInv, NoVerdictYet, [Next]_vars
    PROVE  /\ NoVerdictYet'
           /\ \A id \in 1 .. Len(frames) :
                 verdicts[id] # "none" => verdicts'[id] = verdicts[id]
<1> USE DEF TypeInv
<1>0. /\ Len(frames) \in Nat /\ UNCHANGED frames /\ sent \in Nat
      /\ waiting \subseteq 1 .. sent /\ DOMAIN frames = 1 .. Len(frames)
      /\ verdicts \in [1 .. Len(frames) -> {"none", "success", "error", "lost"}]
  BY FramesLength, FramesStay DEF ControlTypes, argVars
<1>1. CASE UNCHANGED <<verdicts, waiting, sent>>
  BY <1>0, <1>1 DEF NoVerdictYet
<1>2. CASE WritesFrame
  <2>1. /\ sent' = sent + 1 /\ sent' \in 1 .. Len(frames)
        /\ frames[sent'].request_id = sent'
    BY <1>0, <1>2 DEF WritesFrame, PhaseInv, FramesInv
  <2>2. waiting' = waiting \cup {sent'} /\ verdicts' = verdicts
    BY <1>2, <2>1 DEF WritesFrame
  <2>3. QED
    BY <1>0, <2>1, <2>2 DEF NoVerdictYet
<1>3. CASE BoardAnswers
  <2>1. PICK id \in waiting, v \in {"success", "error", "lost"} :
           /\ waiting' = waiting \ {id}
           /\ verdicts' = [verdicts EXCEPT ![id] = v]
    BY <1>3 DEF BoardAnswers
  <2>2. sent' = sent
    BY <1>3 DEF BoardAnswers, mainVars
  <2>3. QED
    BY <1>0, <2>1, <2>2 DEF NoVerdictYet
<1>4. QED
  BY <1>1, <1>2, <1>3 DEF Next, Main, Reader, Board, Ended, RefusesPins, PortFails,
     Flushes, WriteFails, Validates, StartsReader, TakesLine, QueueEmpty, Deadline, Join,
     ChecksStop, Stops, ReadsLine, ReadTimesOut, ReaderDies, BoardReports, PieceArrives,
     vars, mainVars, boardVars

\* What came from an earlier run is settled when the script starts.
LEMMA StaleIdsStay ==
    ASSUME [Next]_vars
    PROVE  StaleIds' = StaleIds
  BY FramesStay DEF StaleIds, argVars

LEMMA ToldStands ==
    ASSUME TypeInv, NoVerdictYet, [Next]_vars, NEW stale, NEW p,
           Told(stale, verdicts, p)
    PROVE  Told(stale, verdicts', p)
<1>1. UNCHANGED frames
  BY FramesStay DEF argVars
<1>2. DOMAIN verdicts = 1 .. Len(frames) /\ DOMAIN verdicts' = 1 .. Len(frames)
  BY <1>1, TypeStep DEF TypeInv, ControlTypes
<1>3. QED
  BY <1>2, VerdictsStand DEF Told

\* What is put begins as what was coming did.
Passes(m) ==
    /\ m \in 0 .. Len(Coming) /\ Len(Coming') = Len(Coming) - m
    /\ \A k \in 1 .. Len(Coming') : Coming'[k] = Coming[m + k]
    /\ \/ put' = put
       \/ /\ Len(Coming) >= 1 /\ Len(put') = Len(put) + 1
          /\ \A i \in 1 .. Len(put) : put'[i] = put[i]
          /\ put'[Len(put) + 1][1] = Coming[1]
          /\ m >= 1 \/ reader' = "done"

LEMMA PutsFirst ==
    ASSUME SequenceTypes, NEW line \in Seq(Pieces), Puts(line)
    PROVE  \/ put' = put
           \/ /\ line # <<>> /\ Len(put') = Len(put) + 1
              /\ \A i \in 1 .. Len(put) : put'[i] = put[i]
              /\ put'[Len(put) + 1] = line
<1>1. CASE line = <<>>
  BY <1>1 DEF Puts
<1>2. CASE line # <<>>
  <2>1. line \in ReceivedLines
    BY <1>2 DEF ReceivedLines
  <2>2. put' = Append(put, line)
    BY <1>2 DEF Puts
  <2>3. QED
    BY <1>2, <2>1, <2>2, AppendProperties DEF SequenceTypes
<1>3. QED
  BY <1>1, <1>2

LEMMA PassSteps ==
    ASSUME CutInv, [Next]_vars
    PROVE  \/ reader # "done" /\ \E m \in 0 .. Len(Coming) : Passes(m)
           \/ Moves
           \/ \E line \in Lines : Sends(line) /\ Coming' = Coming \o PiecesOf(line)
<1> USE DEF CutInv, TypeInv
<1>0. Len(Coming) \in Nat /\ Coming \in Seq(Pieces)
  BY ComingTypes
<1>1. CASE Stops
  <2>1. reader # "done" /\ reader' = "done" /\ Puts(buffer)
    BY <1>1 DEF Stops
  <2>2. Coming' = Coming
    BY <1>1 DEF Stops, boardVars, Coming
  <2>3. buffer # <<>> => Len(Coming) >= 1 /\ Coming[1] = buffer[1]
    <3>1. SUFFICES ASSUME buffer # <<>> PROVE Len(Coming) >= 1 /\ Coming[1] = buffer[1]
      OBVIOUS
    <3>2. Len(buffer) \in Nat \ {0} /\ Len(wire) \in Nat /\ Len(writing) \in Nat
      BY <3>1, EmptySeq, LenProperties DEF SequenceTypes
    <3>3. /\ Len(Coming) = Len(buffer) + Len(wire) + Len(writing)
          /\ \A k \in 1 .. Len(buffer) + Len(wire) + Len(writing) :
                Coming[k] = IF k <= Len(buffer) THEN buffer[k]
                            ELSE IF k <= Len(buffer) + Len(wire)
                            THEN wire[k - Len(buffer)]
                            ELSE writing[k - Len(buffer) - Len(wire)]
      BY ThreeInARow DEF Coming, SequenceTypes
    <3>4. QED
      BY <3>2, <3>3
  <2>4. Passes(0)
    <3>1. 0 \in 0 .. Len(Coming) /\ Len(Coming') = Len(Coming) - 0
      BY <1>0, <2>2
    <3>2. \A k \in 1 .. Len(Coming') : Coming'[k] = Coming[0 + k]
      BY <1>0, <2>2
    <3>3. QED
      BY <2>1, <2>3, <3>1, <3>2, PutsFirst DEF SequenceTypes, Passes
  <2>5. QED
    BY <1>0, <2>1, <2>4
<1>2. CASE ReadsLine
  <2>1. PICK m \in 1 .. Len(Coming) :
           /\ Coming[m] = LineFeed
           /\ \A k \in 1 .. m - 1 : Coming[k] # LineFeed
           /\ Coming' = SubSeq(Coming, m + 1, Len(Coming))
           /\ Puts(SubSeq(Coming, 1, m - 1))
    BY <1>2, ReadsNextLine
  <2> DEFINE line == SubSeq(Coming, 1, m - 1)
             rest == SubSeq(Coming, m + 1, Len(Coming))
  <2>2. \A k \in 1 .. Len(Coming) : Coming[k] \in Pieces
    BY <1>0, ElementOfSeq
  <2>3. line \in Seq(Pieces) /\ (line # <<>> => line[1] = Coming[1])
    <3>1. /\ line \in Seq(Pieces)
          /\ Len(line) = IF 1 <= m - 1 THEN m - 1 - 1 + 1 ELSE 0
          /\ \A k \in 1 .. m - 1 - 1 + 1 : line[k] = Coming[1 + k - 1]
      <4>1. \A k \in 1 .. m - 1 : Coming[k] \in Pieces
        BY <1>0, <2>2
      <4>2. QED
        BY <1>0, <4>1, SubSeqProperties
    <3>2. line # <<>> => Len(line) # 0
      BY <3>1, EmptySeq
    <3>3. line # <<>> => 1 \in 1 .. m - 1 - 1 + 1
      BY <1>0, <3>1, <3>2
    <3>4. QED
      BY <3>1, <3>3
  <2>4. Len(rest) = Len(Coming) - m /\ \A k \in 1 .. Len(rest) : rest[k] = Coming[m + k]
    <3>1. /\ Len(rest) = IF m + 1 <= Len(Coming) THEN Len(Coming) - (m + 1) + 1 ELSE 0
          /\ \A k \in 1 .. Len(Coming) - (m + 1) + 1 : rest[k] = Coming[(m + 1) + k - 1]
      <4>1. \A k \in m + 1 .. Len(Coming) : Coming[k] \in Pieces
        BY <1>0, <2>2
      <4>2. QED
        BY <1>0, <4>1, SubSeqProperties
    <3>2. Len(rest) = Len(Coming) - m
      BY <1>0, <3>1
    <3>3. ASSUME NEW k \in 1 .. Len(rest) PROVE rest[k] = Coming[m + k]
      <4>1. k \in 1 .. Len(Coming) - (m + 1) + 1 /\ (m + 1) + k - 1 = m + k
        BY <1>0, <3>2
      <4>2. QED
        BY <3>1, <4>1
    <3>4. QED
      BY <3>2, <3>3
  <2>5. Puts(line) /\ Coming' = rest
    BY <2>1
  <2> HIDE DEF line, rest
  <2>6. /\ m \in 0 .. Len(Coming) /\ m >= 1 /\ Len(Coming) >= 1
        /\ reader # "done"
    BY <1>0, <1>2 DEF ReadsLine
  <2>7. Passes(m)
    BY <2>3, <2>4, <2>5, <2>6, PutsFirst DEF Passes
  <2>8. QED
    BY <2>6, <2>7
<1>3. QED
  BY <1>1, <1>2, ComingSteps

\* An answer that is put or coming was given by the board.
LEMMA TypedPieces ==
    ASSUME SequenceTypes
    PROVE  /\ Len(put) \in Nat /\ Len(Coming) \in Nat
           /\ \A k \in 1 .. Len(Coming) : Coming[k] \in Pieces
           /\ \A i \in 1 .. Len(put) : put[i] \in Seq(Pieces) /\ put[i][1] \in Pieces
<1>1. Len(put) \in Nat /\ \A i \in 1 .. Len(put) : put[i] \in ReceivedLines
  BY LenProperties, ElementOfSeq DEF SequenceTypes
<1>2. ASSUME NEW line \in ReceivedLines PROVE line \in Seq(Pieces) /\ line[1] \in Pieces
  <2>1. line \in Seq(Pieces) /\ Len(line) \in Nat \ {0}
    BY <1>2, EmptySeq DEF ReceivedLines
  <2>2. 1 \in 1 .. Len(line)
    BY <2>1
  <2>3. QED
    BY <2>1, <2>2, ElementOfSeq
<1>3. QED
  BY <1>1, <1>2, ComingTypes

LEMMA AnswersHaveVerdicts ==
    ASSUME NEW stale, NEW given, NEW p \in Pieces, Told(stale, given, p),
           BeginsAnswer(stale, p)
    PROVE  /\ p.line.request_id \in DOMAIN given
           /\ given[p.line.request_id] \in {"success", "error"}
<1>1. p.line.type \in {"S", "E"}
  BY DEF Pieces, Lines, BeginsAnswer
<1>2. QED
  BY <1>1 DEF Told

\* What moves on stays true, and no answer is doubled on its way.
LEMMA PassKeepsAnswers ==
    ASSUME AnswerInv, [Next]_vars, reader # "done",
           NEW m \in 0 .. Len(Coming), Passes(m)
    PROVE  TruthInv' /\ OneAnswerEach'
<1> USE DEF AnswerInv, CutInv, TypeInv
<1>0. /\ Len(Coming) \in Nat /\ Len(put) \in Nat /\ m \in Nat
      /\ Len(Coming') = Len(Coming) - m
      /\ \A k \in 1 .. Len(Coming') : m + k \in 1 .. Len(Coming) /\ Coming'[k] = Coming[m + k]
  <2>1. Len(Coming) \in Nat /\ Len(put) \in Nat /\ m \in Nat
    BY TypedPieces
  <2>2. Len(Coming') = Len(Coming) - m /\ \A k \in 1 .. Len(Coming') : Coming'[k] = Coming[m + k]
    BY DEF Passes
  <2>3. \A k \in 1 .. Len(Coming') : m + k \in 1 .. Len(Coming)
    BY <2>1, <2>2
  <2>4. QED
    BY <2>1, <2>2, <2>3
<1>1. /\ \A k \in 1 .. Len(Coming) : Told(StaleIds, verdicts, Coming[k])
      /\ \A i \in 1 .. Len(put) : Told(StaleIds, verdicts, put[i][1])
      /\ \A k, l \in 1 .. Len(Coming) :
            BeginsAnswer(StaleIds, Coming[k]) /\ BeginsAnswer(StaleIds, Coming[l])
               /\ SameId(Coming[k], Coming[l]) => k = l
      /\ \A i \in 1 .. Len(put), k \in 1 .. Len(Coming) :
            ~(BeginsAnswer(StaleIds, put[i][1]) /\ BeginsAnswer(StaleIds, Coming[k])
                /\ SameId(put[i][1], Coming[k]))
      /\ \A i, j \in 1 .. Len(put) :
            BeginsAnswer(StaleIds, put[i][1]) /\ BeginsAnswer(StaleIds, put[j][1])
               /\ SameId(put[i][1], put[j][1]) => i = j
  BY DEF TruthInv, OneAnswerEach
<1>2. \A q : Told(StaleIds, verdicts, q) => Told(StaleIds, verdicts', q)
  BY ToldStands
<1>3. StaleIds' = StaleIds
  BY StaleIdsStay
<1>4. CASE put' = put
  <2>1. TruthInv'
    BY <1>0, <1>1, <1>2, <1>4, <1>3 DEF TruthInv
  <2>2. \A k, l \in 1 .. Len(Coming') :
           BeginsAnswer(StaleIds, Coming'[k]) /\ BeginsAnswer(StaleIds, Coming'[l])
              /\ SameId(Coming'[k], Coming'[l]) => k = l
    <3>1. ASSUME NEW k \in 1 .. Len(Coming'), NEW l \in 1 .. Len(Coming'),
                 BeginsAnswer(StaleIds, Coming'[k]), BeginsAnswer(StaleIds, Coming'[l]),
                 SameId(Coming'[k], Coming'[l])
          PROVE  k = l
      <4>1. m + k = m + l
        BY <1>0, <1>1, <3>1
      <4>2. QED
        BY <1>0, <4>1
    <3>2. QED
      BY <3>1
  <2>3. OneAnswerEach'
    BY <1>0, <1>1, <1>4, <1>3, <2>2 DEF OneAnswerEach
  <2>4. QED
    BY <2>1, <2>3
<1>5. CASE /\ Len(Coming) >= 1 /\ Len(put') = Len(put) + 1
           /\ \A i \in 1 .. Len(put) : put'[i] = put[i]
           /\ put'[Len(put) + 1][1] = Coming[1]
           /\ m >= 1 \/ reader' = "done"
  <2>0. /\ 1 \in 1 .. Len(Coming)
        /\ \A i \in 1 .. Len(put') : i \in 1 .. Len(put) \/ i = Len(put) + 1
    BY <1>0, <1>5
  <2>1. TruthInv'
    <3>1. \A i \in 1 .. Len(put') : Told(StaleIds, verdicts', put'[i][1])
      BY <1>1, <1>2, <1>5, <2>0
    <3>2. \A k \in 1 .. Len(Coming') : Told(StaleIds, verdicts', Coming'[k])
      BY <1>0, <1>1, <1>2
    <3>3. QED
      BY <1>3, <3>1, <3>2 DEF TruthInv
  <2>2. \A i, j \in 1 .. Len(put') :
           BeginsAnswer(StaleIds, put'[i][1]) /\ BeginsAnswer(StaleIds, put'[j][1])
              /\ SameId(put'[i][1], put'[j][1]) => i = j
    <3>1. ASSUME NEW i \in 1 .. Len(put'), NEW j \in 1 .. Len(put'),
                 BeginsAnswer(StaleIds, put'[i][1]), BeginsAnswer(StaleIds, put'[j][1]),
                 SameId(put'[i][1], put'[j][1]), i # j
          PROVE  FALSE
      <4>1. CASE i \in 1 .. Len(put) /\ j \in 1 .. Len(put)
        BY <1>1, <1>5, <3>1, <4>1
      <4>2. CASE i \in 1 .. Len(put) /\ j = Len(put) + 1
        BY <1>1, <1>5, <2>0, <3>1, <4>2
      <4>3. CASE j \in 1 .. Len(put) /\ i = Len(put) + 1
        <5>1. SameId(put[j][1], Coming[1])
          BY <1>5, <3>1, <4>3 DEF SameId
        <5>2. QED
          BY <1>1, <1>5, <2>0, <3>1, <4>3, <5>1
      <4>4. QED
        BY <2>0, <3>1, <4>1, <4>2, <4>3
    <3>2. QED
      BY <3>1
  <2>3. ASSUME reader' # "done"
        PROVE  /\ \A k, l \in 1 .. Len(Coming') :
                     BeginsAnswer(StaleIds, Coming'[k]) /\ BeginsAnswer(StaleIds, Coming'[l])
                        /\ SameId(Coming'[k], Coming'[l]) => k = l
               /\ \A i \in 1 .. Len(put'), k \in 1 .. Len(Coming') :
                     ~(BeginsAnswer(StaleIds, put'[i][1]) /\ BeginsAnswer(StaleIds, Coming'[k])
                         /\ SameId(put'[i][1], Coming'[k]))
    <3>1. m >= 1
      BY <1>5, <2>3
    <3>2. ASSUME NEW k \in 1 .. Len(Coming'), NEW l \in 1 .. Len(Coming'),
                 BeginsAnswer(StaleIds, Coming'[k]), BeginsAnswer(StaleIds, Coming'[l]),
                 SameId(Coming'[k], Coming'[l])
          PROVE  k = l
      <4>1. m + k = m + l
        BY <1>0, <1>1, <3>2
      <4>2. QED
        BY <1>0, <4>1
    <3>3. ASSUME NEW i \in 1 .. Len(put'), NEW k \in 1 .. Len(Coming'),
                 BeginsAnswer(StaleIds, put'[i][1]), BeginsAnswer(StaleIds, Coming'[k]),
                 SameId(put'[i][1], Coming'[k])
          PROVE  FALSE
      <4>1. CASE i \in 1 .. Len(put)
        BY <1>0, <1>1, <1>5, <3>3, <4>1
      <4>2. CASE i = Len(put) + 1
        <5>1. m + k = 1
          BY <1>0, <1>1, <1>5, <2>0, <3>3, <4>2
        <5>2. QED
          BY <1>0, <3>1, <5>1
      <4>3. QED
        BY <2>0, <4>1, <4>2
    <3>4. QED
      BY <3>2, <3>3
  <2>4. OneAnswerEach'
    BY <1>3, <2>2, <2>3 DEF OneAnswerEach
  <2>5. QED
    BY <2>1, <2>4
<1>6. QED
  BY <1>4, <1>5 DEF Passes

\* A line the board begins to send is true, and answers a request that no
\* line before it has answered.
LEMMA SendsKeepAnswers ==
    ASSUME AnswerInv, [Next]_vars, NEW line \in Lines,
           Sends(line), Coming' = Coming \o PiecesOf(line)
    PROVE  TruthInv' /\ OneAnswerEach'
<1> USE DEF AnswerInv, CutInv, TypeInv
<1> DEFINE n == Len(Coming)
           first == Piece(line, "front")
<1>0. /\ n \in Nat /\ Len(put) \in Nat /\ Coming \in Seq(Pieces)
      /\ \A k \in 1 .. n : Coming[k] \in Pieces
      /\ \A i \in 1 .. Len(put) : put[i][1] \in Pieces
  BY TypedPieces, ComingTypes
<1>1. /\ Len(Coming') = n + 3
      /\ \A k \in 1 .. n : Coming'[k] = Coming[k]
      /\ Coming'[n + 1] = first
      /\ Coming'[n + 2] = Piece(line, "back")
      /\ Coming'[n + 3] = LineFeed
  BY <1>0, LinkedSends
<1>2. /\ put' = put /\ reader' = reader /\ StaleIds' = StaleIds
      /\ \A q : Told(StaleIds, verdicts, q) => Told(StaleIds, verdicts', q)
  BY ToldStands, StaleIdsStay DEF Sends
<1>3. /\ DOMAIN verdicts = 1 .. Len(frames)
      /\ waiting \subseteq 1 .. sent /\ sent \in 0 .. Len(frames) /\ Len(frames) \in Nat
  BY FramesLength DEF ControlTypes
<1>4. \/ line = DebugLine
      \/ \E id \in waiting :
            /\ line.request_id = id /\ line.type \in {"S", "E"}
            /\ \A part : Told(StaleIds, verdicts', Piece(line, part))
  <2>1. CASE \E id \in waiting :
                \/ /\ line = Answer("S", id, SUCCESS_ERROR_CODE)
                   /\ verdicts' = [verdicts EXCEPT ![id] = "success"]
                \/ /\ line = Answer("E", id, 3)
                   /\ verdicts' = [verdicts EXCEPT ![id] = "error"]
    <3>1. PICK id \in waiting :
                \/ /\ line = Answer("S", id, SUCCESS_ERROR_CODE)
                   /\ verdicts' = [verdicts EXCEPT ![id] = "success"]
                \/ /\ line = Answer("E", id, 3)
                   /\ verdicts' = [verdicts EXCEPT ![id] = "error"]
      BY <2>1
    <3>2. id \in DOMAIN verdicts
      BY <1>3
    <3>3. /\ line.request_id = id /\ line.type \in {"S", "E"}
          /\ id \in DOMAIN verdicts'
          /\ line.type = "S" =>
                line.error = SUCCESS_ERROR_CODE /\ verdicts'[id] = "success"
          /\ line.type = "E" => verdicts'[id] = "error"
      BY <3>1, <3>2 DEF Answer
    <3>4. ASSUME NEW part PROVE Told(StaleIds, verdicts', Piece(line, part))
      BY <3>3 DEF Told, Piece
    <3>5. QED
      BY <3>3, <3>4
  <2>2. QED
    BY <2>1 DEF Sends
<1>5. \A part : Told(StaleIds, verdicts', Piece(DebugLine, part))
  BY DEF Told, BeginsAnswer, Piece, DebugLine, Answer
<1>6. /\ Told(StaleIds, verdicts', first) /\ Told(StaleIds, verdicts', Piece(line, "back"))
      /\ Told(StaleIds, verdicts', LineFeed)
  BY <1>4, <1>5 DEF LineFeed
<1>7. /\ ~BeginsAnswer(StaleIds, Coming'[n + 2]) /\ ~BeginsAnswer(StaleIds, Coming'[n + 3])
      /\ BeginsAnswer(StaleIds, first) => line.type # "B"
  BY <1>1 DEF BeginsAnswer, Piece, LineFeed
\* The request was waiting, so nothing that was said before is about it.
<1>8. ASSUME BeginsAnswer(StaleIds, first), NEW q \in Pieces,
             Told(StaleIds, verdicts, q), BeginsAnswer(StaleIds, q)
      PROVE  ~SameId(first, q)
  <2>1. PICK id \in waiting : line.request_id = id
    BY <1>4, <1>7, <1>8 DEF DebugLine, Answer
  <2>2. verdicts[id] = "none"
    BY <1>3, <2>1 DEF NoVerdictYet
  <2>3. verdicts[q.line.request_id] \in {"success", "error"}
    BY <1>8, AnswersHaveVerdicts
  <2>4. QED
    BY <2>1, <2>2, <2>3 DEF SameId, Piece
<1> HIDE DEF n, first
<1>9. \A k \in 1 .. Len(Coming') : k \in 1 .. n \/ k \in {n + 1, n + 2, n + 3}
  BY <1>0, <1>1
<1>10. TruthInv'
  <2>1. /\ \A k \in 1 .. n : Told(StaleIds, verdicts, Coming[k])
        /\ \A i \in 1 .. Len(put) : Told(StaleIds, verdicts, put[i][1])
    BY DEF TruthInv, n
  <2>2. ASSUME NEW k \in 1 .. Len(Coming') PROVE Told(StaleIds, verdicts', Coming'[k])
    <3>1. CASE k \in 1 .. n
      BY <1>1, <1>2, <2>1, <3>1
    <3>2. CASE k \in {n + 1, n + 2, n + 3}
      BY <1>1, <1>6, <3>2
    <3>3. QED
      BY <1>9, <3>1, <3>2
  <2>3. QED
    BY <1>2, <2>1, <2>2 DEF TruthInv
<1>11. OneAnswerEach'
  <2>1. /\ \A k \in 1 .. n : Told(StaleIds, verdicts, Coming[k])
        /\ \A i \in 1 .. Len(put) : Told(StaleIds, verdicts, put[i][1])
    BY DEF TruthInv, n
  <2>2. ASSUME reader # "done"
        PROVE  /\ \A k, l \in 1 .. Len(Coming') :
                     BeginsAnswer(StaleIds, Coming'[k]) /\ BeginsAnswer(StaleIds, Coming'[l])
                        /\ SameId(Coming'[k], Coming'[l]) => k = l
               /\ \A i \in 1 .. Len(put'), k \in 1 .. Len(Coming') :
                     ~(BeginsAnswer(StaleIds, put'[i][1]) /\ BeginsAnswer(StaleIds, Coming'[k])
                         /\ SameId(put'[i][1], Coming'[k]))
    <3>0. /\ \A k, l \in 1 .. n :
                BeginsAnswer(StaleIds, Coming[k]) /\ BeginsAnswer(StaleIds, Coming[l])
                   /\ SameId(Coming[k], Coming[l]) => k = l
          /\ \A i \in 1 .. Len(put), k \in 1 .. n :
                ~(BeginsAnswer(StaleIds, put[i][1]) /\ BeginsAnswer(StaleIds, Coming[k])
                    /\ SameId(put[i][1], Coming[k]))
      BY <2>2 DEF OneAnswerEach, n
    <3>1. ASSUME NEW k \in 1 .. Len(Coming'), NEW l \in 1 .. Len(Coming'),
                 BeginsAnswer(StaleIds, Coming'[k]), BeginsAnswer(StaleIds, Coming'[l]),
                 SameId(Coming'[k], Coming'[l])
          PROVE  k = l
      <4>1. k \in 1 .. n \/ k = n + 1
        BY <1>7, <1>9, <3>1
      <4>2. l \in 1 .. n \/ l = n + 1
        BY <1>7, <1>9, <3>1
      <4>3. CASE k \in 1 .. n /\ l \in 1 .. n
        BY <1>1, <3>0, <3>1, <4>3
      <4>4. CASE k = n + 1 /\ l \in 1 .. n
        BY <1>0, <1>1, <1>8, <2>1, <3>1, <4>4
      <4>5. CASE l = n + 1 /\ k \in 1 .. n
        <5>1. SameId(first, Coming[k])
          BY <1>1, <3>1, <4>5 DEF SameId
        <5>2. QED
          BY <1>0, <1>1, <1>8, <2>1, <3>1, <4>5, <5>1
      <4>6. QED
        BY <4>1, <4>2, <4>3, <4>4, <4>5
    <3>2. ASSUME NEW i \in 1 .. Len(put), NEW k \in 1 .. Len(Coming'),
                 BeginsAnswer(StaleIds, put[i][1]), BeginsAnswer(StaleIds, Coming'[k]),
                 SameId(put[i][1], Coming'[k])
          PROVE  FALSE
      <4>1. k \in 1 .. n \/ k = n + 1
        BY <1>7, <1>9, <3>2
      <4>2. CASE k \in 1 .. n
        BY <1>1, <3>0, <3>2, <4>2
      <4>3. CASE k = n + 1
        <5>1. SameId(first, put[i][1])
          BY <1>1, <3>2, <4>3 DEF SameId
        <5>2. QED
          BY <1>0, <1>1, <1>8, <2>1, <3>2, <4>3, <5>1
      <4>4. QED
        BY <4>1, <4>2, <4>3
    <3>3. QED
      BY <1>2, <3>1, <3>2
  <2>3. \A i, j \in 1 .. Len(put') :
           BeginsAnswer(StaleIds, put'[i][1]) /\ BeginsAnswer(StaleIds, put'[j][1])
              /\ SameId(put'[i][1], put'[j][1]) => i = j
    BY <1>2 DEF OneAnswerEach
  <2>4. QED
    BY <1>2, <2>2, <2>3 DEF OneAnswerEach
<1>12. QED
  BY <1>10, <1>11

LEMMA AnswerStep == AnswerInv /\ [Next]_vars => AnswerInv'
<1> SUFFICES ASSUME AnswerInv, [Next]_vars PROVE TruthInv' /\ OneAnswerEach'
  BY CutStep, VerdictsStand DEF AnswerInv, CutInv
<1> USE DEF AnswerInv
<1>1. CASE reader # "done" /\ \E m \in 0 .. Len(Coming) : Passes(m)
  BY <1>1, PassKeepsAnswers
<1>2. CASE Moves
  <2>1. Coming' = Coming /\ put' = put /\ (reader = "done" => reader' = "done")
    BY <1>2, DoneIsDone DEF Moves, CutInv
  <2>2. \A q : Told(StaleIds, verdicts, q) => Told(StaleIds, verdicts', q)
    BY ToldStands DEF CutInv
  <2>3. StaleIds' = StaleIds
    BY StaleIdsStay
  <2>4. TruthInv'
    BY <2>1, <2>2, <2>3 DEF TruthInv
  <2>5. OneAnswerEach'
    BY <2>1, <2>3 DEF OneAnswerEach
  <2>6. QED
    BY <2>4, <2>5
<1>3. CASE \E line \in Lines : Sends(line) /\ Coming' = Coming \o PiecesOf(line)
  BY <1>3, SendsKeepAnswers
<1>4. QED
  BY <1>1, <1>2, <1>3, PassSteps

LEMMA AnswerInit == Init => AnswerInv
<1> SUFFICES ASSUME Init PROVE NoVerdictYet /\ TruthInv /\ OneAnswerEach
  BY CutInit DEF AnswerInv
<1>1. FramesInv /\ SequenceTypes
  BY TypeInit DEF TypeInv
<1>2. NoVerdictYet
  BY <1>1, FramesLength DEF Init, NoVerdictYet
<1>3. Len(put) = 0
  BY EmptySeq DEF Init
<1> DEFINE earlier == PiecesOf(Answer("S", 1, SUCCESS_ERROR_CODE))
<1>4. Coming = leftover
  <2>1. <<>> \o <<>> = <<>>
    OBVIOUS
  <2>2. <<>> \o writing = writing
    BY <1>1, ConcatEmptySeq DEF SequenceTypes
  <2>3. QED
    BY <2>1, <2>2 DEF Init, Coming
\* The only front among them is that of the answer that may be stale.
<1>5. ASSUME NEW k \in 1 .. Len(leftover)
      PROVE  ~BeginsAnswer(StaleIds, leftover[k])
  <2>1. /\ earlier[1].part = "front" /\ earlier[2].part = "back"
        /\ earlier[3] = LineFeed /\ LineFeed.part = "LF" /\ Len(earlier) = 3
        /\ Tail(earlier) = <<earlier[2], LineFeed>>
        /\ earlier # <<>> /\ Head(earlier) = earlier[1]
    BY DEF PiecesOf, Piece, LineFeed
  <2>2. leftover \in {<<>>, earlier, Tail(earlier), <<LineFeed>>}
    BY DEF Init, Leftovers
  <2> HIDE DEF earlier
  <2>3. CASE leftover = <<>>
    BY <2>3, EmptySeq
  <2>4. CASE leftover = earlier
    <3>1. StaleIds = {earlier[1].line.request_id}
      BY <2>1, <2>4 DEF StaleIds
    <3>2. k \in {1, 2, 3}
      BY <2>1, <2>4
    <3>3. QED
      BY <2>1, <2>4, <3>1, <3>2 DEF BeginsAnswer
  <2>5. CASE leftover = <<earlier[2], LineFeed>>
    <3>1. leftover[k] \in {earlier[2], LineFeed}
      BY <2>5
    <3>2. QED
      BY <2>1, <3>1 DEF BeginsAnswer
  <2>6. CASE leftover = <<LineFeed>>
    BY <2>1, <2>6 DEF BeginsAnswer
  <2>7. QED
    BY <2>1, <2>2, <2>3, <2>4, <2>5, <2>6
<1>6. TruthInv
  BY <1>3, <1>4, <1>5 DEF TruthInv, Told
<1>7. OneAnswerEach
  BY <1>3, <1>4, <1>5 DEF OneAnswerEach
<1>8. QED
  BY <1>2, <1>6, <1>7

---------------------------------------------------------------------------
(* The verdict.                                                            *)

FailureKinds == {"malformed", "error", "missing", "duplicate", "unexpected"}

\* validate_responses passes the lines if and only if none of its counts is
\* above zero.
LEMMA PassIsNoFailure ==
    ASSUME NEW ids, IsFiniteSet(ids), NEW lines, lines # <<>>,
           IsFiniteSet(DOMAIN lines)
    PROVE  ReturnCode(ids, lines) = 0 <=>
             /\ \A i \in DOMAIN lines : Parses(lines[i])
             /\ \A i \in AnswersIn(lines) :
                   /\ lines[i][1].line.type = "S"
                   /\ lines[i][1].line.error = SUCCESS_ERROR_CODE
             /\ \A id \in ids : MatchingResponses(lines, id) # {}
             /\ \A id \in ids : Cardinality(MatchingResponses(lines, id)) <= 1
             /\ \A i \in AnswersIn(lines) : lines[i][1].line.request_id \in ids
<1> DEFINE malformed == {i \in DOMAIN lines : ~Parses(lines[i])}
           error == {i \in AnswersIn(lines) :
                        LET answer == lines[i][1].line
                        IN answer.type # "S" \/ answer.error # SUCCESS_ERROR_CODE}
           missing == {id \in ids : MatchingResponses(lines, id) = {}}
           duplicate == {id \in ids : Cardinality(MatchingResponses(lines, id)) > 1}
           unexpected == {lines[i][1].line.request_id : i \in AnswersIn(lines)} \ ids
<1>1. IsFiniteSet(AnswersIn(lines))
  BY FS_Subset DEF AnswersIn
<1>2. \A id \in ids : Cardinality(MatchingResponses(lines, id)) \in Nat
  <2>1. ASSUME NEW id \in ids PROVE Cardinality(MatchingResponses(lines, id)) \in Nat
    <3>1. MatchingResponses(lines, id) \in SUBSET AnswersIn(lines)
      BY DEF MatchingResponses
    <3>2. QED
      BY <1>1, <3>1, FS_Subset, FS_CardinalityType
  <2>2. QED
    BY <2>1
<1>3. /\ IsFiniteSet(malformed) /\ IsFiniteSet(error) /\ IsFiniteSet(missing)
      /\ IsFiniteSet(duplicate) /\ IsFiniteSet(unexpected)
  <2>1. IsFiniteSet(malformed)
    BY FS_Subset
  <2>2. IsFiniteSet(error)
    BY <1>1, FS_Subset
  <2>3. IsFiniteSet(missing) /\ IsFiniteSet(duplicate)
    BY FS_Subset
  <2>4. IsFiniteSet({lines[i][1].line.request_id : i \in AnswersIn(lines)})
    <3> DEFINE f == [i \in AnswersIn(lines) |-> lines[i][1].line.request_id]
               ran == {lines[i][1].line.request_id : i \in AnswersIn(lines)}
    <3>1. f \in Surjection(AnswersIn(lines), ran)
      BY DEF Surjection
    <3>2. QED
      BY <1>1, <3>1, FS_Surjection
  <2>5. IsFiniteSet(unexpected)
    BY <2>4, FS_Difference
  <2>6. QED
    BY <2>1, <2>2, <2>3, <2>5
<1>4. ReturnCode(ids, lines) = 0 <=>
        /\ Cardinality(malformed) = 0 /\ Cardinality(error) = 0
        /\ Cardinality(missing) = 0 /\ Cardinality(duplicate) = 0
        /\ Cardinality(unexpected) = 0
  BY DEF ReturnCode, Failures
<1>5. ReturnCode(ids, lines) = 0 <=>
        /\ malformed = {} /\ error = {} /\ missing = {} /\ duplicate = {}
        /\ unexpected = {}
  BY <1>3, <1>4, FS_EmptySet
<1>6. /\ malformed = {} <=> \A i \in DOMAIN lines : Parses(lines[i])
      /\ error = {} <=> \A i \in AnswersIn(lines) :
                           /\ lines[i][1].line.type = "S"
                           /\ lines[i][1].line.error = SUCCESS_ERROR_CODE
      /\ missing = {} <=> \A id \in ids : MatchingResponses(lines, id) # {}
      /\ unexpected = {} <=>
            \A i \in AnswersIn(lines) : lines[i][1].line.request_id \in ids
  OBVIOUS
<1>7. duplicate = {} <=> \A id \in ids : Cardinality(MatchingResponses(lines, id)) <= 1
  BY <1>2
<1>8. QED
  BY <1>5, <1>6, <1>7

VerdictInv == ReceiveInv /\ AnswerInv /\ PassMeansAnswered /\ FailMeansFailed

\* What main validates are all the lines that were put.
LEMMA ValidatedLines ==
    ASSUME VerdictInv, Validates
    PROVE  /\ received = put /\ sent = Len(frames) /\ stopEvent
           /\ ExpectedRequestIds(frames) = 1 .. Len(frames) /\ Len(frames) \in Nat
           /\ DOMAIN verdicts = 1 .. Len(frames)
           /\ IsFiniteSet(1 .. Len(frames))
           /\ DOMAIN received = 1 .. Len(received) /\ IsFiniteSet(DOMAIN received)
           /\ \A i \in DOMAIN received : received[i][1] \in Pieces
           /\ UNCHANGED <<sent, received, stopEvent, verdicts, frames, leftover>>
<1> USE DEF VerdictInv, ReceiveInv, TypeInv
<1>1. received = put
  BY ConcatEmptySeq DEF Validates, EveryLineReceived, SequenceTypes
<1>2. sent = Len(frames) /\ stopEvent
  BY DEF Validates, PhaseInv
<1>3. Len(frames) \in Nat /\ ExpectedRequestIds(frames) = 1 .. Len(frames)
  BY FramesLength
<1>4. DOMAIN verdicts = 1 .. Len(frames)
  BY DEF ControlTypes
<1>5. DOMAIN received = 1 .. Len(received) /\ Len(received) \in Nat
  BY LenProperties DEF SequenceTypes
<1>6. IsFiniteSet(1 .. Len(frames)) /\ IsFiniteSet(DOMAIN received)
  BY <1>3, <1>5, FS_Interval
<1>7. \A i \in DOMAIN received : received[i][1] \in Pieces
  BY <1>1, <1>5, TypedPieces
<1>8. UNCHANGED <<sent, received, stopEvent, verdicts, frames, leftover>>
  BY DEF Validates, boardVars, argVars
<1>9. QED
  BY <1>1, <1>2, <1>3, <1>4, <1>5, <1>6, <1>7, <1>8

\* Zero is only returned for what the board said of every frame.
LEMMA PassIsDeserved ==
    ASSUME VerdictInv, Validates
    PROVE  PassMeansAnswered'
<1> DEFINE ids == 1 .. Len(frames)
<1>0. /\ returned' = ReturnCode(ids, received)
      /\ ids = DOMAIN verdicts /\ received = put
      /\ DOMAIN received = 1 .. Len(received) /\ DOMAIN received = 1 .. Len(put)
      /\ UNCHANGED <<sent, verdicts, frames, leftover>> /\ sent = Len(frames)
      /\ IsFiniteSet(ids) /\ IsFiniteSet(DOMAIN received)
  BY ValidatedLines DEF Validates, Returns
<1>1. SUFFICES ASSUME returned' = 0, NEW id \in ids, id \notin StaleIds
               PROVE  verdicts[id] = "success"
  BY <1>0 DEF PassMeansAnswered, StaleIds
<1>2. received # <<>>
  BY <1>0, <1>1 DEF ReturnCode
<1> HIDE DEF ids
<1>3. /\ MatchingResponses(received, id) # {}
      /\ \A i \in AnswersIn(received) : received[i][1].line.type = "S"
  BY <1>0, <1>1, <1>2, PassIsNoFailure
<1>4. PICK i \in AnswersIn(received) : received[i][1].line.request_id = id
  BY <1>3 DEF MatchingResponses
<1>5. Told(StaleIds, verdicts, received[i][1]) /\ BeginsAnswer(StaleIds, received[i][1])
  <2>1. i \in 1 .. Len(put)
    BY <1>0, <1>4 DEF AnswersIn
  <2>2. BeginsAnswer(StaleIds, received[i][1])
    BY <1>1, <1>4 DEF AnswersIn, Parses, BeginsAnswer
  <2>3. QED
    BY <1>0, <2>1, <2>2 DEF VerdictInv, AnswerInv, TruthInv
<1>6. QED
  BY <1>3, <1>4, <1>5 DEF Told

\* When every frame was answered with success in time, nothing counts as a
\* failure.
LEMMA FailIsDeserved ==
    ASSUME VerdictInv, Validates
    PROVE  FailMeansFailed'
<1> DEFINE ids == 1 .. Len(frames)
<1>0. /\ returned' = ReturnCode(ids, received)
      /\ ids = DOMAIN verdicts /\ received = put /\ Len(frames) \in Nat
      /\ DOMAIN received = 1 .. Len(received) /\ DOMAIN received = 1 .. Len(put)
      /\ UNCHANGED <<received, verdicts, frames, leftover>>
      /\ IsFiniteSet(ids) /\ IsFiniteSet(DOMAIN received)
      /\ \A i \in DOMAIN received : received[i][1] \in Pieces
      /\ frames # <<>> => 1 \in ids
  <2>1. frames # <<>> => 1 \in ids
    BY ValidatedLines, FramesLength DEF VerdictInv, ReceiveInv, TypeInv
  <2>2. QED
    BY <2>1, ValidatedLines DEF Validates, Returns
<1>1. SUFFICES ASSUME frames # <<>>, StaleIds = {},
                      \A id \in ids : AnsweredInTime(id),
                      \A i \in DOMAIN received : Parses(received[i])
               PROVE  returned' = 0
  <2>1. \A id : AnsweredInTime(id)' <=> AnsweredInTime(id)
    BY <1>0 DEF AnsweredInTime
  <2>2. StaleIds' = StaleIds
    BY <1>0 DEF StaleIds
  <2>3. QED
    BY <1>0, <1>1, <2>1, <2>2 DEF FailMeansFailed
<1> HIDE DEF ids
<1>2. \A id \in ids : \E i \in AnswersIn(received) :
         /\ received[i][1].line.request_id = id
         /\ verdicts[id] = "success"
  <2>1. ASSUME NEW id \in ids
        PROVE  \E i \in AnswersIn(received) :
                  received[i][1].line.request_id = id /\ verdicts[id] = "success"
    <3>1. PICK i \in DOMAIN received :
             Parses(received[i])
             /\ received[i][1].line = Answer("S", id, SUCCESS_ERROR_CODE)
      BY <1>1, <2>1 DEF AnsweredInTime
    <3>2. received[i][1].line.type = "S" /\ received[i][1].line.request_id = id
      BY <3>1 DEF Answer
    <3>3. Told(StaleIds, verdicts, received[i][1])
      BY <1>0, <1>1 DEF VerdictInv, AnswerInv, TruthInv
    <3>4. i \in AnswersIn(received)
      BY <3>1, <3>2 DEF AnswersIn
    <3>5. verdicts[id] = "success"
      BY <1>1, <3>1, <3>2, <3>3 DEF Told, BeginsAnswer, Parses
    <3>6. QED
      BY <3>2, <3>4, <3>5
  <2>2. QED
    BY <2>1
<1>3. received # <<>>
  <2>1. DOMAIN received # {}
    BY <1>0, <1>1, <1>2 DEF AnswersIn
  <2>2. QED
    BY <1>0, <2>1, EmptySeq
<1>4. ASSUME NEW i \in AnswersIn(received)
      PROVE  /\ received[i][1].line.type = "S"
             /\ received[i][1].line.error = SUCCESS_ERROR_CODE
             /\ received[i][1].line.request_id \in ids
  <2>1. /\ i \in DOMAIN received /\ received[i][1] \in Pieces
        /\ BeginsAnswer(StaleIds, received[i][1])
    BY <1>0, <1>1 DEF AnswersIn, Parses, BeginsAnswer
  <2>2. Told(StaleIds, verdicts, received[i][1])
    BY <1>0, <1>1, <2>1 DEF VerdictInv, AnswerInv, TruthInv
  <2>3. received[i][1].line.request_id \in ids
    BY <1>0, <2>1, <2>2, AnswersHaveVerdicts
  <2>4. verdicts[received[i][1].line.request_id] = "success"
    BY <1>2, <2>3
  <2>5. received[i][1].line.type \in {"S", "E"}
    BY <2>1 DEF BeginsAnswer, Pieces, Lines
  <2>6. received[i][1].line.type = "S"
    BY <2>1, <2>2, <2>4, <2>5 DEF Told
  <2>7. QED
    BY <2>1, <2>2, <2>3, <2>6 DEF Told
<1>5. ASSUME NEW id \in ids
      PROVE  Cardinality(MatchingResponses(received, id)) <= 1
  <2>1. PICK i \in MatchingResponses(received, id) : TRUE
    BY <1>2, <1>5 DEF MatchingResponses
  <2>2. ASSUME NEW j \in MatchingResponses(received, id) PROVE j = i
    <3>1. /\ i \in 1 .. Len(put) /\ j \in 1 .. Len(put)
          /\ BeginsAnswer(StaleIds, put[i][1]) /\ BeginsAnswer(StaleIds, put[j][1])
          /\ SameId(put[i][1], put[j][1])
      BY <1>0, <1>1, <2>1, <2>2 DEF MatchingResponses, AnswersIn, Parses, BeginsAnswer,
         SameId
    <3>2. QED
      BY <1>1, <3>1 DEF VerdictInv, AnswerInv, OneAnswerEach
  <2>3. MatchingResponses(received, id) = {i}
    BY <2>1, <2>2
  <2>4. Cardinality({i}) = 1
    BY FS_Singleton
  <2>5. QED
    BY <2>3, <2>4
<1>6. \A id \in ids : MatchingResponses(received, id) # {}
  BY <1>2 DEF MatchingResponses
<1>7. QED
  BY <1>0, <1>1, <1>3, <1>4, <1>5, <1>6, PassIsNoFailure

LEMMA VerdictStep == VerdictInv /\ [Next]_vars => VerdictInv'
<1> SUFFICES ASSUME VerdictInv, [Next]_vars
             PROVE  PassMeansAnswered' /\ FailMeansFailed'
  BY ReceiveStep, AnswerStep DEF VerdictInv
<1> USE DEF VerdictInv
<1>1. CASE pc = "returned"
  <2>1. UNCHANGED <<returned, sent, frames, leftover, verdicts, stopEvent, received>>
    BY <1>1, ReturnedIsStill DEF vars, mainVars, boardVars, argVars
  <2>2. \A id : AnsweredInTime(id)' <=> AnsweredInTime(id)
    BY <2>1 DEF AnsweredInTime
  <2>3. QED
    BY <2>1, <2>2 DEF PassMeansAnswered, FailMeansFailed, StaleIds
<1>2. CASE Validates
  BY <1>2, PassIsDeserved, FailIsDeserved
<1>3. CASE RefusesPins \/ PortFails \/ WriteFails
  <2>1. returned' \in {1, 2} /\ ~stopEvent /\ stopEvent' = stopEvent
    BY <1>3 DEF RefusesPins, PortFails, WriteFails, Returns, ReceiveInv, TypeInv, PhaseInv
  <2>2. QED
    BY <2>1 DEF PassMeansAnswered, FailMeansFailed
<1>4. CASE returned' = 3
  BY <1>4 DEF PassMeansAnswered, FailMeansFailed
<1>5. QED
  <2>1. returned = 3 \/ pc = "returned"
    BY DEF ReceiveInv, TypeInv, PhaseInv
  <2>2. \/ Validates \/ RefusesPins \/ PortFails \/ WriteFails
        \/ UNCHANGED returned
    BY DEF Next, Main, Reader, Board, Ended, StartsReader, WritesFrame, Flushes, TakesLine,
       QueueEmpty, Deadline, Join, ChecksStop, Stops, ReadsLine, ReadTimesOut, ReaderDies,
       BoardAnswers, BoardReports, PieceArrives, vars, mainVars
  <2>3. QED
    BY <1>1, <1>2, <1>3, <1>4, <2>1, <2>2

LEMMA VerdictInit == Init => VerdictInv
  BY ReceiveInit, AnswerInit DEF VerdictInv, Init, PassMeansAnswered, FailMeansFailed

\* However the board's lines are cut into reads, delayed or lost, the script
\* only passes when the board answered every frame with success, but for one
\* whose id an answer left over from an earlier run has.
THEOREM PassesAreDeserved == Spec => []PassMeansAnswered
<1>1. VerdictInv => PassMeansAnswered
  BY DEF VerdictInv
<1>2. QED
  BY VerdictInit, VerdictStep, <1>1, PTL DEF Spec

\* It does not fail when every frame was answered with success in time, no
\* answer was left over and no line was cut off.
THEOREM FailuresAreDeserved == Spec => []FailMeansFailed
<1>1. VerdictInv => FailMeansFailed
  BY DEF VerdictInv
<1>2. QED
  BY VerdictInit, VerdictStep, <1>1, PTL DEF Spec
=============================================================================
