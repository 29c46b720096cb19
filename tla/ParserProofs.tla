---------------------------- MODULE ParserProofs ----------------------------
(***************************************************************************)
(* For any stream of bytes: every frame start is counted once, and exactly *)
(* the well-formed lines reach the request queue, with the fields they     *)
(* spell.                                                                  *)
(***************************************************************************)
EXTENDS ParserSafety, FiniteSetTheorems, SequenceTheorems, WellFoundedInduction, TLAPS

---------------------------------------------------------------------------
(* Types.                                                                  *)

LEMMA Bytes ==
    /\ kStartFrame # kEndFrame /\ kStartFrame # kDelimiter /\ kStartFrame # kEndLine
    /\ kStartFrame # CarriageReturn /\ kEndFrame # kDelimiter /\ kEndFrame # kEndLine
    /\ kEndFrame # CarriageReturn /\ kDelimiter # kEndLine
    /\ kDelimiter # CarriageReturn /\ kEndLine # CarriageReturn
  BY DEF kStartFrame, kEndFrame, kDelimiter, kEndLine, CarriageReturn

Counter == {"frames_queued", "malformed_frames", "overflow_drops", "queue_send_failures"}

\* What a byte does to the parser.
LEMMA ByteCases ==
    ASSUME TypeOK, NEW c, ParsesByte(c)
    PROVE  /\ c \in STRING /\ stream # <<>> /\ stream' = Tail(stream)
           /\ consumed' = Append(consumed, c)
           /\ \/ OutsideFrame(c)
              \/ EndsLine(c)
              \/ SkipsCarriageReturn(c)
              \/ BreaksLineEnd(c)
              \/ BreaksPayload(c)
              \/ EndsPayload(c)
              \/ StoresByte(c)
<1>1. /\ stream # <<>> /\ c = Head(stream) /\ stream' = Tail(stream)
      /\ consumed' = Append(consumed, c)
  BY DEF ParsesByte, Reads
<1>2. stream \in Seq(STRING)
  BY DEF TypeOK
<1>3. c \in STRING
  BY <1>1, <1>2, HeadTailProperties
<1> QED BY <1>1, <1>3 DEF ParsesByte

LEMMA Counts ==
    ASSUME statistics \in [Counter -> Nat], NEW counter \in Counter, Count(counter)
    PROVE  /\ statistics' \in [Counter -> Nat]
           /\ statistics'[counter] = statistics[counter] + 1
           /\ \A other \in Counter : other # counter => statistics'[other] = statistics[other]
  BY DEF Count

LEMMA InitTypes == Init => TypeOK
<1> SUFFICES ASSUME Init PROVE TypeOK
  OBVIOUS
<1>1. stream \in Seq(STRING)
  BY StreamsAssumption DEF Init
<1>2. <<>> \in Seq(STRING) /\ Len(<<>>) = 0
  BY EmptySeq
<1>3. 0 <= kRequestFramePayloadMaxChars
  BY DEF kRequestFramePayloadMaxChars
<1>4. statistics \in [Counter -> Nat]
  BY DEF Init, Counter
<1> QED BY <1>1, <1>2, <1>3, <1>4 DEF Init, TypeOK, Counter

LEMMA TypesKept == TypeOK /\ [Next]_vars => TypeOK'
<1> SUFFICES ASSUME TypeOK, [Next]_vars PROVE TypeOK'
  OBVIOUS
<1>1. ASSUME NEW c, ParsesByte(c) PROVE TypeOK'
  <2>1. /\ c \in STRING /\ stream # <<>> /\ stream' = Tail(stream)
        /\ consumed' = Append(consumed, c)
    BY <1>1, ByteCases
  <2>2. /\ stream \in Seq(STRING) /\ consumed \in Seq(STRING) /\ buffer \in Seq(STRING)
        /\ Len(buffer) <= kRequestFramePayloadMaxChars
        /\ statistics \in [Counter -> Nat]
        /\ inFrame \in BOOLEAN /\ awaitingLineEnd \in BOOLEAN
        /\ (awaitingLineEnd => inFrame)
    BY DEF TypeOK, Counter
  <2>3. stream' \in Seq(STRING) /\ consumed' \in Seq(STRING)
    BY <2>1, <2>2, HeadTailProperties, AppendProperties
  <2>4. ASSUME NEW still \in BOOLEAN, Restart(still)
        PROVE  /\ buffer' \in Seq(STRING) /\ Len(buffer') <= kRequestFramePayloadMaxChars
               /\ inFrame' \in BOOLEAN /\ awaitingLineEnd' \in BOOLEAN
               /\ (awaitingLineEnd' => inFrame')
    <3>1. <<>> \in Seq(STRING) /\ Len(<<>>) = 0
      BY EmptySeq
    <3>2. buffer' = <<>> /\ awaitingLineEnd' = FALSE /\ inFrame' = still
      BY <2>4 DEF Restart
    <3>3. Len(<<>>) <= kRequestFramePayloadMaxChars
      BY <3>1 DEF kRequestFramePayloadMaxChars
    <3> QED BY <2>4, <3>1, <3>2, <3>3, Zenon
  <2>5. statistics' \in [Counter -> Nat]
    <3>1. \A counter \in Counter : Count(counter) => statistics' \in [Counter -> Nat]
      BY <2>2, Counts
    <3>2. /\ "frames_queued" \in Counter /\ "malformed_frames" \in Counter
          /\ "overflow_drops" \in Counter /\ "queue_send_failures" \in Counter
      BY DEF Counter
    <3>3. CASE OutsideFrame(c) \/ SkipsCarriageReturn(c) \/ EndsPayload(c)
      BY <2>2, <3>3 DEF OutsideFrame, SkipsCarriageReturn, EndsPayload
    <3>4. CASE EndsLine(c)
      BY <3>1, <3>2, <3>4 DEF EndsLine
    <3>5. CASE BreaksLineEnd(c) \/ BreaksPayload(c)
      BY <3>1, <3>2, <3>5 DEF BreaksLineEnd, BreaksPayload
    <3>6. CASE StoresByte(c)
      BY <2>2, <3>1, <3>2, <3>6 DEF StoresByte
    <3> QED BY <1>1, <3>3, <3>4, <3>5, <3>6, ByteCases
  <2>6. /\ buffer' \in Seq(STRING) /\ Len(buffer') <= kRequestFramePayloadMaxChars
        /\ inFrame' \in BOOLEAN /\ awaitingLineEnd' \in BOOLEAN
        /\ (awaitingLineEnd' => inFrame')
    <3>1. CASE OutsideFrame(c)
      BY <2>2, <2>4, <3>1 DEF OutsideFrame, parserVars
    <3>2. CASE EndsLine(c)
      BY <2>4, <3>2 DEF EndsLine
    <3>3. CASE SkipsCarriageReturn(c) \/ EndsPayload(c)
      BY <2>2, <3>3 DEF SkipsCarriageReturn, EndsPayload, parserVars
    <3>4. CASE BreaksLineEnd(c) \/ BreaksPayload(c)
      <4>1. (c = kStartFrame) \in BOOLEAN /\ Restart(c = kStartFrame)
        BY <3>4 DEF BreaksLineEnd, BreaksPayload
      <4> QED BY <2>4, <4>1
    <3>5. CASE StoresByte(c)
      <4>1. CASE Len(buffer) >= kRequestFramePayloadMaxChars
        BY <2>4, <3>5, <4>1 DEF StoresByte
      <4>2. CASE ~(Len(buffer) >= kRequestFramePayloadMaxChars)
        <5>1. /\ buffer' = Append(buffer, c)
              /\ UNCHANGED <<inFrame, awaitingLineEnd>>
          BY <3>5, <4>2 DEF StoresByte
        <5>2. Append(buffer, c) \in Seq(STRING) /\ Len(Append(buffer, c)) = Len(buffer) + 1
          BY <2>1, <2>2, AppendProperties
        <5>3. Len(buffer) \in Nat
          BY <2>2, LenProperties
        <5>4. Len(buffer) + 1 <= kRequestFramePayloadMaxChars
          BY <4>2, <5>3 DEF kRequestFramePayloadMaxChars
        <5> QED BY <2>2, <5>1, <5>2, <5>4
      <4> QED BY <4>1, <4>2
    <3> QED BY <1>1, <3>1, <3>2, <3>3, <3>4, <3>5, ByteCases
  <2> QED BY <2>3, <2>5, <2>6 DEF TypeOK, Counter
<1>2. CASE UNCHANGED vars
  BY <1>2 DEF vars, parserVars, TypeOK
<1> QED BY <1>1, <1>2 DEF Next

\* The buffer never holds more than the longest request, and the parser only
\* waits for a line end inside a frame.
THEOREM TypeCorrect == Spec => []TypeOK
  BY InitTypes, TypesKept, PTL DEF Spec
---------------------------------------------------------------------------
(* Every frame start is counted.                                           *)

\* more is text with c behind it.
Longer(more, text, c) ==
    /\ Len(text) \in Nat /\ DOMAIN text = 1 .. Len(text)
    /\ Len(more) = Len(text) + 1
    /\ DOMAIN more = 1 .. Len(text) + 1
    /\ more[Len(text) + 1] = c
    /\ \A n \in 1 .. Len(text) : more[n] = text[n]

LEMMA Grown ==
    ASSUME NEW T, NEW text \in Seq(T), NEW c \in T
    PROVE  Longer(Append(text, c), text, c)
<1> DEFINE more == Append(text, c)
<1>1. Len(text) \in Nat /\ DOMAIN text = 1 .. Len(text)
  BY LenProperties
<1>2. more \in Seq(T) /\ Len(more) = Len(text) + 1 /\ more[Len(text) + 1] = c
  BY AppendProperties
<1>3. \A n \in 1 .. Len(text) : more[n] = text[n]
  BY AppendProperties
<1>4. DOMAIN more = 1 .. Len(more)
  BY <1>2, LenProperties
<1> QED BY <1>1, <1>2, <1>3, <1>4 DEF Longer

LEMMA ConsumedGrows ==
    ASSUME consumed \in Seq(STRING), NEW c \in STRING, consumed' = Append(consumed, c)
    PROVE  /\ Len(consumed) \in Nat /\ DOMAIN consumed = 1 .. Len(consumed)
           /\ Len(consumed') = Len(consumed) + 1
           /\ DOMAIN consumed' = 1 .. Len(consumed) + 1
           /\ consumed'[Len(consumed) + 1] = c
           /\ \A n \in 1 .. Len(consumed) : consumed'[n] = consumed[n]
<1>1. Longer(Append(consumed, c), consumed, c)
  BY Grown
<1> QED BY <1>1 DEF Longer

LEMMA PositionsGrow ==
    ASSUME consumed \in Seq(STRING), NEW c \in STRING, consumed' = Append(consumed, c),
           NEW byte
    PROVE  /\ c = byte => At(byte)' = At(byte) \cup {Len(consumed) + 1}
           /\ c # byte => At(byte)' = At(byte)
           /\ Len(consumed) + 1 \notin At(byte)
           /\ IsFiniteSet(At(byte))
<1>1. /\ Len(consumed) \in Nat /\ DOMAIN consumed = 1 .. Len(consumed)
      /\ DOMAIN consumed' = 1 .. Len(consumed) + 1
      /\ consumed'[Len(consumed) + 1] = c
      /\ \A n \in 1 .. Len(consumed) : consumed'[n] = consumed[n]
  BY ConsumedGrows
<1>2. /\ 1 .. Len(consumed) + 1 = (1 .. Len(consumed)) \cup {Len(consumed) + 1}
      /\ Len(consumed) + 1 \notin 1 .. Len(consumed)
  BY <1>1
<1>3. At(byte)' = {n \in 1 .. Len(consumed) + 1 : consumed'[n] = byte}
  BY <1>1 DEF At
<1>4. At(byte) = {n \in 1 .. Len(consumed) : consumed[n] = byte}
  BY <1>1 DEF At
<1>5. IsFiniteSet(At(byte))
  <2>1. IsFiniteSet(1 .. Len(consumed))
    BY <1>1, FS_Interval
  <2> QED BY <1>4, <2>1, FS_Subset
<1> QED BY <1>1, <1>2, <1>3, <1>4, <1>5

\* The frames that were dealt with.
Total ==
    statistics.frames_queued + statistics.queue_send_failures
      + statistics.malformed_frames + statistics.overflow_drops

LEMMA TotalCounts ==
    ASSUME statistics \in [Counter -> Nat]
    PROVE  /\ Total \in Nat
           /\ UNCHANGED statistics => Total' = Total
           /\ \A counter \in Counter : Count(counter) => Total' = Total + 1
<1>1. /\ statistics.frames_queued \in Nat /\ statistics.queue_send_failures \in Nat
      /\ statistics.malformed_frames \in Nat /\ statistics.overflow_drops \in Nat
  BY DEF Counter
<1>2. ASSUME NEW counter \in Counter, Count(counter) PROVE Total' = Total + 1
  <2>1. statistics' = [statistics EXCEPT ![counter] = statistics[counter] + 1]
    BY <1>2 DEF Count
  <2>2. CASE counter = "frames_queued"
    <3>1. /\ statistics'.frames_queued = statistics.frames_queued + 1
          /\ statistics'.queue_send_failures = statistics.queue_send_failures
          /\ statistics'.malformed_frames = statistics.malformed_frames
          /\ statistics'.overflow_drops = statistics.overflow_drops
      BY <2>1, <2>2 DEF Counter
    <3> QED BY <1>1, <3>1 DEF Total
  <2>3. CASE counter = "queue_send_failures"
    <3>1. /\ statistics'.frames_queued = statistics.frames_queued
          /\ statistics'.queue_send_failures = statistics.queue_send_failures + 1
          /\ statistics'.malformed_frames = statistics.malformed_frames
          /\ statistics'.overflow_drops = statistics.overflow_drops
      BY <2>1, <2>3 DEF Counter
    <3> QED BY <1>1, <3>1 DEF Total
  <2>4. CASE counter = "malformed_frames"
    <3>1. /\ statistics'.frames_queued = statistics.frames_queued
          /\ statistics'.queue_send_failures = statistics.queue_send_failures
          /\ statistics'.malformed_frames = statistics.malformed_frames + 1
          /\ statistics'.overflow_drops = statistics.overflow_drops
      BY <2>1, <2>4 DEF Counter
    <3> QED BY <1>1, <3>1 DEF Total
  <2>5. CASE counter = "overflow_drops"
    <3>1. /\ statistics'.frames_queued = statistics.frames_queued
          /\ statistics'.queue_send_failures = statistics.queue_send_failures
          /\ statistics'.malformed_frames = statistics.malformed_frames
          /\ statistics'.overflow_drops = statistics.overflow_drops + 1
      BY <2>1, <2>5 DEF Counter
    <3> QED BY <1>1, <3>1 DEF Total
  <2> QED BY <2>2, <2>3, <2>4, <2>5 DEF Counter
<1>3. Total \in Nat
  BY <1>1 DEF Total
<1>4. UNCHANGED statistics => Total' = Total
  BY DEF Total
<1> QED BY <1>2, <1>3, <1>4

InFrames == IF inFrame THEN 1 ELSE 0

LEMMA StartsCounted ==
    ASSUME TypeOK, NEW c, ParsesByte(c), Cardinality(At(kStartFrame)) = Total + InFrames
    PROVE  (Cardinality(At(kStartFrame)) = Total + InFrames)'
<1>1. /\ c \in STRING /\ consumed' = Append(consumed, c)
  BY ByteCases
<1>2. /\ consumed \in Seq(STRING) /\ inFrame \in BOOLEAN
      /\ statistics \in [Counter -> Nat]
  BY DEF TypeOK, Counter
<1>3. /\ c = kStartFrame
           => Cardinality(At(kStartFrame)') = Cardinality(At(kStartFrame)) + 1
      /\ c # kStartFrame => Cardinality(At(kStartFrame)') = Cardinality(At(kStartFrame))
  <2>1. /\ c = kStartFrame
             => At(kStartFrame)' = At(kStartFrame) \cup {Len(consumed) + 1}
        /\ c # kStartFrame => At(kStartFrame)' = At(kStartFrame)
        /\ Len(consumed) + 1 \notin At(kStartFrame)
        /\ IsFiniteSet(At(kStartFrame))
    BY <1>1, <1>2, PositionsGrow
  <2> QED BY <2>1, FS_AddElement
<1>4. /\ Total \in Nat
      /\ UNCHANGED statistics => Total' = Total
      /\ \A counter \in Counter : Count(counter) => Total' = Total + 1
  BY <1>2, TotalCounts
<1>5. /\ "frames_queued" \in Counter /\ "malformed_frames" \in Counter
      /\ "overflow_drops" \in Counter /\ "queue_send_failures" \in Counter
  BY DEF Counter
<1>6. /\ inFrame => InFrames = 1
      /\ ~inFrame => InFrames = 0
      /\ inFrame' => InFrames' = 1
      /\ ~inFrame' => InFrames' = 0
  BY DEF InFrames
<1>7. \/ c = kStartFrame /\ ~inFrame /\ inFrame' /\ Total' = Total
      \/ c # kStartFrame /\ InFrames' = InFrames /\ Total' = Total
      \/ c # kStartFrame /\ inFrame /\ ~inFrame' /\ Total' = Total + 1
      \/ c = kStartFrame /\ inFrame /\ inFrame' /\ Total' = Total + 1
  <2>1. CASE OutsideFrame(c)
    <3>1. Total' = Total /\ ~inFrame
      BY <1>4, <2>1 DEF OutsideFrame
    <3>2. CASE c = kStartFrame
      BY <2>1, <3>1, <3>2 DEF OutsideFrame, Restart
    <3>3. CASE c # kStartFrame
      <4>1. inFrame' = inFrame
        BY <2>1, <3>3 DEF OutsideFrame, parserVars
      <4> QED BY <3>1, <3>3, <4>1 DEF InFrames
    <3> QED BY <3>2, <3>3
  <2>2. CASE EndsLine(c)
    <3>1. c # kStartFrame /\ inFrame /\ ~inFrame'
      BY <2>2, Bytes DEF EndsLine, Restart
    <3>2. Total' = Total + 1
      BY <1>4, <1>5, <2>2 DEF EndsLine
    <3> QED BY <3>1, <3>2
  <2>3. CASE SkipsCarriageReturn(c) \/ EndsPayload(c)
    <3>1. c # kStartFrame /\ inFrame' = inFrame /\ UNCHANGED statistics
      BY <2>3, Bytes DEF SkipsCarriageReturn, EndsPayload, parserVars
    <3> QED BY <1>4, <3>1 DEF InFrames
  <2>4. CASE BreaksLineEnd(c) \/ BreaksPayload(c)
    <3>1. inFrame /\ Total' = Total + 1
      BY <1>4, <1>5, <2>4 DEF BreaksLineEnd, BreaksPayload
    <3>2. inFrame' = (c = kStartFrame)
      BY <2>4 DEF BreaksLineEnd, BreaksPayload, Restart
    <3> QED BY <3>1, <3>2
  <2>5. CASE StoresByte(c)
    <3>1. c # kStartFrame /\ inFrame
      BY <2>5 DEF StoresByte
    <3>2. \/ Count("overflow_drops") /\ ~inFrame'
          \/ inFrame' = inFrame /\ UNCHANGED statistics
      BY <2>5 DEF StoresByte, Restart
    <3>3. CASE Count("overflow_drops") /\ ~inFrame'
      BY <1>4, <1>5, <3>1, <3>3
    <3>4. CASE inFrame' = inFrame /\ UNCHANGED statistics
      BY <1>4, <3>1, <3>4 DEF InFrames
    <3> QED BY <3>2, <3>3, <3>4
  <2> QED BY <2>1, <2>2, <2>3, <2>4, <2>5, ByteCases
<1>8. Cardinality(At(kStartFrame)') = Total' + InFrames'
  <2>1. CASE c = kStartFrame /\ ~inFrame /\ inFrame' /\ Total' = Total
    BY <1>3, <1>4, <1>6, <2>1
  <2>2. CASE c # kStartFrame /\ InFrames' = InFrames /\ Total' = Total
    BY <1>3, <2>2
  <2>3. CASE c # kStartFrame /\ inFrame /\ ~inFrame' /\ Total' = Total + 1
    BY <1>3, <1>4, <1>6, <2>3
  <2>4. CASE c = kStartFrame /\ inFrame /\ inFrame' /\ Total' = Total + 1
    BY <1>3, <1>4, <1>6, <2>4
  <2> QED BY <1>7, <2>1, <2>2, <2>3, <2>4
<1> QED BY <1>8

\* Every frame start is accounted for once, by one of the four counters or by
\* the frame being received.
THEOREM EveryStartCounted == Spec => []StatisticsAccountForEveryStart
<1> DEFINE Inv == TypeOK /\ Cardinality(At(kStartFrame)) = Total + InFrames
<1>1. ASSUME Init PROVE Inv
  <2>1. /\ consumed = <<>> /\ inFrame = FALSE /\ statistics \in [Counter -> Nat]
        /\ statistics.frames_queued = 0 /\ statistics.queue_send_failures = 0
        /\ statistics.malformed_frames = 0 /\ statistics.overflow_drops = 0
    BY <1>1 DEF Init, Counter
  <2>2. At(kStartFrame) = {}
    BY <2>1 DEF At
  <2>3. Cardinality(At(kStartFrame)) = 0
    BY <2>2, FS_EmptySet
  <2>4. Total + InFrames = 0
    BY <2>1 DEF Total, InFrames
  <2> QED BY <1>1, <2>3, <2>4, InitTypes
<1>2. ASSUME Inv, [Next]_vars PROVE Inv'
  <2>1. TypeOK'
    BY <1>2, TypesKept
  <2>2. ASSUME NEW c, ParsesByte(c) PROVE Inv'
    BY <1>2, <2>1, <2>2, StartsCounted
  <2>3. CASE UNCHANGED vars
    BY <1>2, <2>1, <2>3 DEF vars, parserVars, At, Total, InFrames
  <2> QED BY <1>2, <2>2, <2>3 DEF Next
<1>3. Inv => StatisticsAccountForEveryStart
  BY DEF StatisticsAccountForEveryStart, Total, InFrames
<1> QED BY <1>1, <1>2, <1>3, PTL DEF Spec
---------------------------------------------------------------------------
(* Framing: payloads and lines of any sequence of bytes.                   *)

\* The '@' at i begins a payload that is not over.
Receiving(bytes, i) ==
    /\ i \in 1 .. Len(bytes) /\ bytes[i] = kStartFrame
    /\ \A n \in i + 1 .. Len(bytes) : PayloadByte(bytes[n])
    /\ Len(bytes) - i <= kRequestFramePayloadMaxChars

\* The payload between i and k is over, and only carriage returns follow to j.
Received(bytes, i, k, j) ==
    /\ i \in 1 .. j /\ bytes[i] = kStartFrame
    /\ k \in i + 1 .. j /\ bytes[k] = kEndFrame
    /\ \A n \in i + 1 .. k - 1 : PayloadByte(bytes[n])
    /\ k - i - 1 <= kRequestFramePayloadMaxChars
    /\ \A n \in k + 1 .. j : bytes[n] = CarriageReturn

LEMMA ReceivingGrows ==
    ASSUME NEW bytes, NEW c, NEW more, Longer(more, bytes, c), NEW i \in Nat
    PROVE  Receiving(more, i) <=>
              \/ i = Len(bytes) + 1 /\ c = kStartFrame
              \/ /\ Receiving(bytes, i) /\ PayloadByte(c)
                 /\ (Len(bytes) + 1) - i <= kRequestFramePayloadMaxChars
<1> DEFINE L == Len(bytes)
<1>1. /\ L \in Nat /\ Len(more) = L + 1 /\ more[L + 1] = c
      /\ \A n \in 1 .. L : more[n] = bytes[n]
  BY DEF Longer
<1> HIDE DEF L
<1>2. Receiving(more, i) <=>
         /\ i \in 1 .. L + 1 /\ more[i] = kStartFrame
         /\ \A n \in i + 1 .. L + 1 : PayloadByte(more[n])
         /\ (L + 1) - i <= kRequestFramePayloadMaxChars
  BY <1>1, Zenon DEF Receiving
<1>3. Receiving(bytes, i) <=>
         /\ i \in 1 .. L /\ bytes[i] = kStartFrame
         /\ \A n \in i + 1 .. L : PayloadByte(bytes[n])
         /\ L - i <= kRequestFramePayloadMaxChars
  BY DEF Receiving, L
<1>4. CASE i = L + 1
  <2>1. /\ \A n \in i + 1 .. L + 1 : FALSE
        /\ (L + 1) - i <= kRequestFramePayloadMaxChars /\ i \notin 1 .. L
        /\ i \in 1 .. L + 1
    BY <1>1, <1>4 DEF kRequestFramePayloadMaxChars
  <2>2. more[i] = c
    BY <1>1, <1>4
  <2> QED BY <1>2, <1>3, <1>4, <2>1, <2>2, Zenon DEF L
<1>5. CASE i \in 1 .. L
  <2>1. /\ \A n \in i + 1 .. L + 1 : n = L + 1 \/ n \in i + 1 .. L
        /\ \A n \in i + 1 .. L : n \in i + 1 .. L + 1 /\ n \in 1 .. L
        /\ L + 1 \in i + 1 .. L + 1
        /\ i \in 1 .. L + 1 /\ i # L + 1
    BY <1>1, <1>5
  <2>2. (\A n \in i + 1 .. L + 1 : PayloadByte(more[n]))
           <=> (\A n \in i + 1 .. L : PayloadByte(bytes[n])) /\ PayloadByte(c)
    BY <1>1, <2>1, Zenon
  <2>3. (L + 1) - i <= kRequestFramePayloadMaxChars => L - i <= kRequestFramePayloadMaxChars
    BY <1>1, <1>5 DEF kRequestFramePayloadMaxChars
  <2>4. more[i] = bytes[i]
    BY <1>1, <1>5
  <2> QED BY <1>2, <1>3, <1>5, <2>1, <2>2, <2>3, <2>4, Zenon DEF L
<1>6. CASE i \notin 1 .. L + 1
  <2>1. i \notin 1 .. L /\ i # L + 1
    BY <1>1, <1>6
  <2> QED BY <1>2, <1>3, <1>6, <2>1, Zenon DEF L
<1>7. i = L + 1 \/ i \in 1 .. L \/ i \notin 1 .. L + 1
  BY <1>1
<1> QED BY <1>4, <1>5, <1>6, <1>7

\* Bytes that follow do not change what has been received.
LEMMA ReceivedStays ==
    ASSUME NEW bytes, NEW c, NEW more, Longer(more, bytes, c),
           NEW i \in Nat, NEW k \in Nat, NEW j \in 0 .. Len(bytes)
    PROVE  Received(more, i, k, j) <=> Received(bytes, i, k, j)
<1>1. /\ Len(bytes) \in Nat
      /\ \A n \in 1 .. Len(bytes) : more[n] = bytes[n]
  BY DEF Longer
<1>2. CASE i \in 1 .. j /\ k \in i + 1 .. j
  <2>1. /\ \A n \in i + 1 .. k - 1 : n \in 1 .. Len(bytes)
        /\ \A n \in k + 1 .. j : n \in 1 .. Len(bytes)
        /\ i \in 1 .. Len(bytes) /\ k \in 1 .. Len(bytes)
    BY <1>1, <1>2
  <2>2. /\ \A n \in i + 1 .. k - 1 : more[n] = bytes[n]
        /\ \A n \in k + 1 .. j : more[n] = bytes[n]
        /\ more[i] = bytes[i] /\ more[k] = bytes[k]
    BY <1>1, <2>1, Zenon
  <2> QED BY <2>2, Zenon DEF Received
<1>3. CASE ~(i \in 1 .. j /\ k \in i + 1 .. j)
  BY <1>3, Zenon DEF Received
<1> QED BY <1>2, <1>3

LEMMA ReceivedGrows ==
    ASSUME NEW bytes, NEW c, NEW more, Longer(more, bytes, c),
           NEW i \in Nat, NEW k \in Nat
    PROVE  Received(more, i, k, Len(bytes) + 1) <=>
              \/ k = Len(bytes) + 1 /\ c = kEndFrame /\ Receiving(bytes, i)
              \/ Received(bytes, i, k, Len(bytes)) /\ c = CarriageReturn
<1> DEFINE L == Len(bytes)
<1>1. /\ L \in Nat /\ more[L + 1] = c
      /\ \A n \in 1 .. L : more[n] = bytes[n]
  BY DEF Longer
<1> HIDE DEF L
<1>4. CASE k = L + 1
  <2>0. /\ \A n \in k + 1 .. L + 1 : FALSE
        /\ k - 1 = L /\ k - i - 1 = L - i
        /\ k \notin i + 1 .. L
        /\ \A n \in i + 1 .. L : n \in 1 .. L
    BY <1>1, <1>4
  <2>7. (i \in 1 .. L + 1 /\ k \in i + 1 .. L + 1) => i \in 1 .. L
    BY <1>1, <1>4
  <2>8. i \in 1 .. L => (i \in 1 .. L + 1 /\ k \in i + 1 .. L + 1)
    BY <1>1, <1>4
  <2>1. /\ \A n \in k + 1 .. L + 1 : FALSE
        /\ k - 1 = L /\ k - i - 1 = L - i
        /\ k \notin i + 1 .. L
        /\ (i \in 1 .. L + 1 /\ k \in i + 1 .. L + 1) <=> i \in 1 .. L
        /\ \A n \in i + 1 .. L : n \in 1 .. L
        /\ i \in 1 .. L => more[i] = bytes[i]
    BY <1>1, <2>0, <2>7, <2>8, Zenon
  <2>2. Received(more, i, k, L + 1) <=>
          /\ i \in 1 .. L + 1 /\ k \in i + 1 .. L + 1
          /\ more[i] = kStartFrame /\ c = kEndFrame
          /\ \A n \in i + 1 .. L : PayloadByte(more[n])
          /\ L - i <= kRequestFramePayloadMaxChars
    BY <1>1, <1>4, <2>1, Zenon DEF Received
  <2>3. \A n \in i + 1 .. L : more[n] = bytes[n]
    BY <1>1, <2>1, Zenon
  <2>4. Received(more, i, k, L + 1) <=> Receiving(bytes, i) /\ c = kEndFrame
    BY <2>1, <2>2, <2>3, Zenon DEF Receiving, L
  <2>5. ~Received(bytes, i, k, L)
    BY <2>1, Zenon DEF Received
  <2> QED BY <1>4, <2>4, <2>5, Zenon DEF L
<1>5. CASE k # L + 1
  <2>1. ASSUME i \in 1 .. L, k \in i + 1 .. L
        PROVE  Received(more, i, k, L + 1) <=> Received(more, i, k, L) /\ c = CarriageReturn
    <3>1. /\ \A n \in k + 1 .. L + 1 : n = L + 1 \/ n \in k + 1 .. L
          /\ \A n \in k + 1 .. L : n \in k + 1 .. L + 1
          /\ L + 1 \in k + 1 .. L + 1
          /\ i \in 1 .. L + 1 /\ k \in i + 1 .. L + 1
      BY <1>1, <2>1
    <3>2. (\A n \in k + 1 .. L + 1 : more[n] = CarriageReturn)
             <=> (\A n \in k + 1 .. L : more[n] = CarriageReturn) /\ c = CarriageReturn
      BY <1>1, <3>1, Zenon
    <3> QED BY <2>1, <3>1, <3>2, Zenon DEF Received
  <2>2. ASSUME ~(i \in 1 .. L /\ k \in i + 1 .. L)
        PROVE  ~Received(more, i, k, L + 1) /\ ~Received(more, i, k, L)
    <3>1. ~(i \in 1 .. L + 1 /\ k \in i + 1 .. L + 1)
      BY <1>1, <1>5, <2>2
    <3> QED BY <2>2, <3>1, Zenon DEF Received
  <2>3. Received(more, i, k, L + 1) <=> Received(more, i, k, L) /\ c = CarriageReturn
    BY <2>1, <2>2, Zenon
  <2>4. L \in 0 .. Len(bytes)
    BY <1>1 DEF L
  <2>5. Received(more, i, k, L) <=> Received(bytes, i, k, L)
    BY <2>4, ReceivedStays
  <2> QED BY <1>5, <2>3, <2>5, Zenon DEF L
<1> QED BY <1>4, <1>5
---------------------------------------------------------------------------
(* Framing: the parser's state, said over the bytes it consumed.           *)

\* The parser is in a payload, or behind one, exactly when the bytes are, and
\* the buffer is that payload.
Framed(in, awaiting, buf, bytes) ==
    /\ in /\ ~awaiting => \E i \in Nat : Receiving(bytes, i)
    /\ in /\ awaiting => \E i, k \in Nat : Received(bytes, i, k, Len(bytes))
    /\ \A i \in Nat : Receiving(bytes, i) =>
          in /\ ~awaiting /\ buf = SubSeq(bytes, i + 1, Len(bytes))
    /\ \A i, k \in Nat : Received(bytes, i, k, Len(bytes)) =>
          in /\ awaiting /\ buf = SubSeq(bytes, i + 1, k - 1)

FramingInv == Framed(inFrame, awaitingLineEnd, buffer, consumed)

\* What a byte makes of the payload that is being received and of the line
\* whose payload is over.
Survival(bytes, c, more) ==
    /\ Len(more) = Len(bytes) + 1
    /\ \A i \in Nat : Receiving(more, i) <=>
          \/ i = Len(bytes) + 1 /\ c = kStartFrame
          \/ /\ Receiving(bytes, i) /\ PayloadByte(c)
             /\ (Len(bytes) + 1) - i <= kRequestFramePayloadMaxChars
    /\ \A i, k \in Nat : Received(more, i, k, Len(more)) <=>
          \/ k = Len(bytes) + 1 /\ c = kEndFrame /\ Receiving(bytes, i)
          \/ Received(bytes, i, k, Len(bytes)) /\ c = CarriageReturn

LEMMA Survives ==
    ASSUME NEW bytes, NEW c, NEW more, Longer(more, bytes, c)
    PROVE  Survival(bytes, c, more)
<1>1. Len(more) = Len(bytes) + 1
  BY DEF Longer
<1>2. \A i \in Nat : Receiving(more, i) <=>
          \/ i = Len(bytes) + 1 /\ c = kStartFrame
          \/ /\ Receiving(bytes, i) /\ PayloadByte(c)
             /\ (Len(bytes) + 1) - i <= kRequestFramePayloadMaxChars
  BY ReceivingGrows
<1>3. \A i, k \in Nat : Received(more, i, k, Len(bytes) + 1) <=>
          \/ k = Len(bytes) + 1 /\ c = kEndFrame /\ Receiving(bytes, i)
          \/ Received(bytes, i, k, Len(bytes)) /\ c = CarriageReturn
  BY ReceivedGrows
<1> QED BY <1>1, <1>2, <1>3, Zenon DEF Survival

\* Nothing survives: outside every frame.
LEMMA FramedOutside ==
    ASSUME NEW buf, NEW more,
           \A i \in Nat : ~Receiving(more, i),
           \A i, k \in Nat : ~Received(more, i, k, Len(more))
    PROVE  Framed(FALSE, FALSE, buf, more)
  BY Zenon DEF Framed

\* A '@' begins a frame whatever came before.
LEMMA FramedStart ==
    ASSUME NEW T, NEW bytes, NEW more \in Seq(T), Len(bytes) \in Nat,
           Survival(bytes, kStartFrame, more)
    PROVE  Framed(TRUE, FALSE, <<>>, more)
<1> DEFINE L == Len(bytes)
<1>1. ~PayloadByte(kStartFrame) /\ kStartFrame # kEndFrame /\ kStartFrame # CarriageReturn
  BY Bytes DEF PayloadByte, Byte
<1>2. \A i \in Nat : Receiving(more, i) <=> i = L + 1
  BY <1>1, Zenon DEF Survival
<1>3. \A i, k \in Nat : ~Received(more, i, k, Len(more))
  BY <1>1, Zenon DEF Survival
<1>4. L + 1 \in Nat /\ Len(more) = L + 1
  BY DEF Survival
<1>5. SubSeq(more, (L + 1) + 1, Len(more)) = <<>>
  <2>1. (L + 1) + 1 \in Int /\ Len(more) \in Int /\ Len(more) < (L + 1) + 1
    BY <1>4
  <2> QED BY <2>1, SubSeqEmpty
<1> HIDE DEF L
<1> QED BY <1>2, <1>3, <1>4, <1>5, Zenon DEF Framed

\* The ';' ends the payload.
LEMMA FramedEnd ==
    ASSUME NEW bytes, NEW buf, NEW more, Len(bytes) \in Nat,
           Survival(bytes, kEndFrame, more), Framed(TRUE, FALSE, buf, bytes),
           \A i \in Nat : SubSeq(more, i + 1, Len(bytes)) = SubSeq(bytes, i + 1, Len(bytes))
    PROVE  Framed(TRUE, TRUE, buf, more)
<1> DEFINE L == Len(bytes)
<1>1. ~PayloadByte(kEndFrame) /\ kEndFrame # kStartFrame /\ kEndFrame # CarriageReturn
  BY Bytes DEF PayloadByte, Byte
<1>2. \A i \in Nat : ~Receiving(more, i)
  BY <1>1, Zenon DEF Survival
<1>3. \A i, k \in Nat : Received(more, i, k, Len(more)) <=> k = L + 1 /\ Receiving(bytes, i)
  BY <1>1, Zenon DEF Survival
<1>4. L + 1 \in Nat /\ (L + 1) - 1 = L
  OBVIOUS
<1>5. \E i \in Nat : Receiving(bytes, i)
  BY Zenon DEF Framed
<1>6. \A i \in Nat : Receiving(bytes, i) => buf = SubSeq(bytes, i + 1, L)
  BY Zenon DEF Framed
<1>7. \E i, k \in Nat : Received(more, i, k, Len(more))
  BY <1>3, <1>4, <1>5, Zenon
<1>8. ASSUME NEW i \in Nat, NEW k \in Nat, Received(more, i, k, Len(more))
      PROVE  buf = SubSeq(more, i + 1, k - 1)
  <2>1. k = L + 1 /\ Receiving(bytes, i)
    BY <1>3, <1>8
  <2>2. k - 1 = L
    BY <1>4, <2>1
  <2> QED BY <1>6, <2>1, <2>2, Zenon
<1> HIDE DEF L
<1> QED BY <1>2, <1>7, <1>8, Zenon DEF Framed

\* Carriage returns between the ';' and the line feed change nothing.
LEMMA FramedWait ==
    ASSUME NEW bytes, NEW buf, NEW more, Len(bytes) \in Nat,
           Survival(bytes, CarriageReturn, more), Framed(TRUE, TRUE, buf, bytes),
           \A i, k \in Nat : Received(bytes, i, k, Len(bytes)) =>
               SubSeq(more, i + 1, k - 1) = SubSeq(bytes, i + 1, k - 1)
    PROVE  Framed(TRUE, TRUE, buf, more)
<1>1. /\ ~PayloadByte(CarriageReturn) /\ CarriageReturn # kStartFrame
      /\ CarriageReturn # kEndFrame
  BY Bytes DEF PayloadByte, Byte
<1>2. \A i \in Nat : ~Receiving(more, i)
  BY <1>1, Zenon DEF Survival
<1>3. \A i, k \in Nat :
         Received(more, i, k, Len(more)) <=> Received(bytes, i, k, Len(bytes))
  BY <1>1, Zenon DEF Survival
<1>4. \E i, k \in Nat : Received(bytes, i, k, Len(bytes))
  BY Zenon DEF Framed
<1>5. \A i, k \in Nat : Received(bytes, i, k, Len(bytes)) => buf = SubSeq(bytes, i + 1, k - 1)
  BY Zenon DEF Framed
<1> QED BY <1>2, <1>3, <1>4, <1>5, Zenon DEF Framed

\* A byte of the payload that fits.
LEMMA FramedByte ==
    ASSUME NEW bytes, NEW buf, NEW more, NEW c, Len(bytes) \in Nat,
           Survival(bytes, c, more), Framed(TRUE, FALSE, buf, bytes), PayloadByte(c),
           \A i \in Nat : Receiving(bytes, i) =>
               /\ (Len(bytes) + 1) - i <= kRequestFramePayloadMaxChars
               /\ SubSeq(more, i + 1, Len(more)) = Append(SubSeq(bytes, i + 1, Len(bytes)), c)
    PROVE  Framed(TRUE, FALSE, Append(buf, c), more)
<1>1. c # kStartFrame /\ c # kEndFrame /\ c # CarriageReturn
  BY Bytes DEF PayloadByte, Byte
<1>2. \A i \in Nat : Receiving(more, i) <=> Receiving(bytes, i)
  BY <1>1, Zenon DEF Survival
<1>3. \A i, k \in Nat : ~Received(more, i, k, Len(more))
  BY <1>1, Zenon DEF Survival
<1>4. \E i \in Nat : Receiving(bytes, i)
  BY Zenon DEF Framed
<1>5. \A i \in Nat : Receiving(bytes, i) => buf = SubSeq(bytes, i + 1, Len(bytes))
  BY Zenon DEF Framed
<1> QED BY <1>2, <1>3, <1>4, <1>5, Zenon DEF Framed

\* Parts of a text that grows.
LEMMA PartStays ==
    ASSUME NEW T, NEW text \in Seq(T), NEW c, NEW more \in Seq(T), Longer(more, text, c),
           NEW m \in Nat \ {0}, NEW n \in Int, n <= Len(text)
    PROVE  SubSeq(more, m, n) = SubSeq(text, m, n)
<1>1. /\ Len(text) \in Nat /\ Len(more) = Len(text) + 1
      /\ \A j \in 1 .. Len(text) : more[j] = text[j]
  BY DEF Longer
<1>2. \A j \in m .. n : j \in 1 .. Len(text) /\ j \in 1 .. Len(more)
  BY <1>1
<1>3. \A j \in m .. n : text[j] \in T /\ more[j] \in T /\ more[j] = text[j]
  BY <1>1, <1>2, ElementOfSeq
<1>4. /\ SubSeq(text, m, n) \in Seq(T)
      /\ Len(SubSeq(text, m, n)) = IF m <= n THEN n - m + 1 ELSE 0
      /\ \A j \in 1 .. n - m + 1 : SubSeq(text, m, n)[j] = text[m + j - 1]
  BY <1>3, SubSeqProperties
<1>5. /\ SubSeq(more, m, n) \in Seq(T)
      /\ Len(SubSeq(more, m, n)) = IF m <= n THEN n - m + 1 ELSE 0
      /\ \A j \in 1 .. n - m + 1 : SubSeq(more, m, n)[j] = more[m + j - 1]
  BY <1>3, SubSeqProperties
<1>6. CASE m <= n
  <2>1. \A j \in 1 .. n - m + 1 : m + j - 1 \in m .. n
    BY <1>6
  <2>2. \A j \in 1 .. n - m + 1 : SubSeq(more, m, n)[j] = SubSeq(text, m, n)[j]
    BY <1>3, <1>4, <1>5, <2>1
  <2>3. Len(SubSeq(more, m, n)) = n - m + 1 /\ Len(SubSeq(text, m, n)) = n - m + 1
    BY <1>4, <1>5, <1>6
  <2> QED BY <1>4, <1>5, <2>2, <2>3, SeqEqual
<1>7. CASE ~(m <= n)
  BY <1>7, SubSeqEmpty
<1> QED BY <1>6, <1>7

LEMMA PartGrows ==
    ASSUME NEW T, NEW text \in Seq(T), NEW c \in T, NEW more \in Seq(T),
           Longer(more, text, c), NEW m \in 1 .. Len(text) + 1
    PROVE  SubSeq(more, m, Len(more)) = Append(SubSeq(text, m, Len(text)), c)
<1>1. /\ Len(text) \in Nat /\ Len(more) = Len(text) + 1 /\ more[Len(text) + 1] = c
  BY DEF Longer
<1>2. m \in 1 .. Len(more) /\ Len(more) \in m .. Len(more) /\ Len(more) - 1 = Len(text)
      /\ m \in Nat \ {0} /\ Len(text) <= Len(text) /\ Len(text) \in Int
  BY <1>1
<1>3. SubSeq(more, m, Len(more)) = SubSeq(more, m, Len(more) - 1) \o <<more[Len(more)]>>
  BY <1>2, SubSeqRecursiveSecond
<1>4. SubSeq(more, m, Len(text)) = SubSeq(text, m, Len(text))
  BY <1>2, PartStays
<1>5. SubSeq(text, m, Len(text)) \in Seq(T)
  <2>1. \A j \in m .. Len(text) : j \in 1 .. Len(text)
    BY <1>1
  <2>2. \A j \in m .. Len(text) : text[j] \in T
    BY <2>1, ElementOfSeq
  <2> QED BY <1>2, <2>2, SubSeqProperties
<1>6. Append(SubSeq(text, m, Len(text)), c) = SubSeq(text, m, Len(text)) \o <<c>>
  BY <1>5, AppendIsConcat
<1> QED BY <1>1, <1>2, <1>3, <1>4, <1>6

\* What the parser holds after byte c.
LEMMA FramingKept ==
    ASSUME TypeOK, FramingInv, NEW c, ParsesByte(c)
    PROVE  FramingInv'
<1> DEFINE L == Len(consumed)
           more == Append(consumed, c)
<1>1. /\ c \in STRING /\ consumed' = more
  BY ByteCases
<1>2. /\ consumed \in Seq(STRING) /\ more \in Seq(STRING) /\ L \in Nat
      /\ Longer(more, consumed, c)
  <2>1. consumed \in Seq(STRING)
    BY DEF TypeOK
  <2> QED BY <1>1, <2>1, AppendProperties, LenProperties, Grown
<1>3. Survival(consumed, c, more) /\ Len(more) = L + 1
  BY <1>2, Survives DEF Longer
<1>4. Framed(inFrame, awaitingLineEnd, buffer, consumed)
  BY DEF FramingInv
<1>5. inFrame \in BOOLEAN /\ awaitingLineEnd \in BOOLEAN /\ (awaitingLineEnd => inFrame)
  BY DEF TypeOK
<1>6. FramingInv' = Framed(inFrame', awaitingLineEnd', buffer', more)
  BY <1>1 DEF FramingInv, Framed, Receiving, Received, PayloadByte, Byte
<1> HIDE DEF more
<1>7. ~(inFrame /\ ~awaitingLineEnd) => \A i \in Nat : ~Receiving(consumed, i)
  BY <1>4, Zenon DEF Framed
<1>8. ~awaitingLineEnd => \A i, k \in Nat : ~Received(consumed, i, k, L)
  BY <1>4, Zenon DEF Framed
<1>9. ASSUME Restart(FALSE), c # kStartFrame,
             \A i \in Nat : ~(/\ Receiving(consumed, i) /\ PayloadByte(c)
                              /\ (L + 1) - i <= kRequestFramePayloadMaxChars),
             \A i \in Nat : ~(Receiving(consumed, i) /\ c = kEndFrame),
             c = CarriageReturn => ~awaitingLineEnd
      PROVE  FramingInv'
  <2>1. inFrame' = FALSE /\ awaitingLineEnd' = FALSE
    BY <1>9 DEF Restart
  <2>2. \A i \in Nat : ~Receiving(more, i)
    BY <1>3, <1>9, Zenon DEF Survival
  <2>3. \A i, k \in Nat : ~Received(more, i, k, Len(more))
    BY <1>3, <1>8, <1>9, Zenon DEF Survival
  <2>4. Framed(FALSE, FALSE, buffer', more)
    BY <2>2, <2>3, FramedOutside
  <2> QED BY <1>6, <2>1, <2>4
<1>10. ASSUME Restart(TRUE), c = kStartFrame PROVE FramingInv'
  <2>1. inFrame' = TRUE /\ awaitingLineEnd' = FALSE /\ buffer' = <<>>
    BY <1>10 DEF Restart
  <2>2. Survival(consumed, kStartFrame, more)
    BY <1>3, <1>10
  <2>3. Framed(TRUE, FALSE, <<>>, more)
    BY <1>2, <2>2, FramedStart
  <2> QED BY <1>6, <2>1, <2>3
<1>11. CASE OutsideFrame(c)
  <2>1. ~inFrame /\ ~awaitingLineEnd
    BY <1>5, <1>11 DEF OutsideFrame
  <2>2. CASE c = kStartFrame
    BY <1>10, <1>11, <2>2 DEF OutsideFrame
  <2>3. CASE c # kStartFrame
    <3>1. inFrame' = FALSE /\ awaitingLineEnd' = FALSE
      BY <1>5, <1>11, <2>1, <2>3 DEF OutsideFrame, parserVars
    <3>2. \A i \in Nat : ~Receiving(more, i)
      BY <1>3, <1>7, <2>1, <2>3, Zenon DEF Survival
    <3>3. \A i, k \in Nat : ~Received(more, i, k, Len(more))
      BY <1>3, <1>7, <1>8, <2>1, Zenon DEF Survival
    <3>4. Framed(FALSE, FALSE, buffer', more)
      BY <3>2, <3>3, FramedOutside
    <3> QED BY <1>6, <3>1, <3>4
  <2> QED BY <2>2, <2>3
<1>12. CASE EndsLine(c)
  <2>1. /\ Restart(FALSE) /\ c = kEndLine /\ awaitingLineEnd
        /\ c # kStartFrame /\ c # CarriageReturn
    BY <1>12, Bytes DEF EndsLine
  <2>2. \A i \in Nat : ~Receiving(consumed, i)
    BY <1>7, <2>1
  <2> QED BY <1>9, <2>1, <2>2
<1>13. CASE SkipsCarriageReturn(c)
  <2>1. /\ inFrame = TRUE /\ awaitingLineEnd = TRUE /\ c = CarriageReturn
        /\ inFrame' = TRUE /\ awaitingLineEnd' = TRUE /\ buffer' = buffer
    BY <1>5, <1>13 DEF SkipsCarriageReturn, parserVars
  <2>2. ASSUME NEW i \in Nat, NEW k \in Nat, Received(consumed, i, k, L)
        PROVE  SubSeq(more, i + 1, k - 1) = SubSeq(consumed, i + 1, k - 1)
    <3>1. i \in 1 .. L /\ k \in i + 1 .. L
      BY <2>2 DEF Received
    <3>2. i + 1 \in Nat \ {0} /\ k - 1 \in Int /\ k - 1 <= L
      BY <1>2, <3>1
    <3> QED BY <1>2, <3>2, PartStays
  <2>3. Survival(consumed, CarriageReturn, more) /\ Framed(TRUE, TRUE, buffer, consumed)
    BY <1>3, <1>4, <2>1
  <2>4. Framed(TRUE, TRUE, buffer, more)
    BY <1>2, <2>2, <2>3, FramedWait
  <2> QED BY <1>6, <2>1, <2>4
<1>14. CASE BreaksLineEnd(c)
  <2>1. CASE c = kStartFrame
    <3>1. (c = kStartFrame) = TRUE
      BY <2>1
    <3> QED BY <1>10, <1>14, <2>1, <3>1 DEF BreaksLineEnd
  <2>2. CASE c # kStartFrame
    <3>1. Restart(FALSE) /\ c # CarriageReturn /\ awaitingLineEnd
      BY <1>14, <2>2 DEF BreaksLineEnd, Restart
    <3>2. \A i \in Nat : ~Receiving(consumed, i)
      BY <1>7, <3>1
    <3> QED BY <1>9, <2>2, <3>1, <3>2
  <2> QED BY <2>1, <2>2
<1>15. CASE BreaksPayload(c)
  <2>1. CASE c = kStartFrame
    <3>1. (c = kStartFrame) = TRUE
      BY <2>1
    <3> QED BY <1>10, <1>15, <2>1, <3>1 DEF BreaksPayload
  <2>2. CASE c # kStartFrame
    <3>1. /\ Restart(FALSE) /\ ~awaitingLineEnd /\ ~PayloadByte(c) /\ c # kEndFrame
      BY <1>15, <2>2, Bytes DEF BreaksPayload, Restart, PayloadByte, Byte
    <3> QED BY <1>9, <2>2, <3>1
  <2> QED BY <2>1, <2>2
<1>16. CASE EndsPayload(c)
  <2>1. /\ inFrame = TRUE /\ awaitingLineEnd = FALSE /\ c = kEndFrame
        /\ inFrame' = TRUE /\ awaitingLineEnd' = TRUE /\ buffer' = buffer
    BY <1>5, <1>16 DEF EndsPayload
  <2>2. ASSUME NEW i \in Nat PROVE SubSeq(more, i + 1, L) = SubSeq(consumed, i + 1, L)
    <3>1. i + 1 \in Nat \ {0} /\ L \in Int /\ L <= L
      BY <1>2
    <3> QED BY <1>2, <3>1, PartStays
  <2>3. Survival(consumed, kEndFrame, more) /\ Framed(TRUE, FALSE, buffer, consumed)
    BY <1>3, <1>4, <2>1
  <2>4. Framed(TRUE, TRUE, buffer, more)
    BY <1>2, <2>2, <2>3, FramedEnd
  <2> QED BY <1>6, <2>1, <2>4
<1>17. CASE StoresByte(c)
  <2>1. /\ inFrame = TRUE /\ awaitingLineEnd = FALSE
        /\ c \notin {kStartFrame, kEndFrame, kEndLine, CarriageReturn}
    BY <1>5, <1>17 DEF StoresByte
  <2>2. /\ PayloadByte(c) /\ c # kStartFrame /\ c # kEndFrame /\ c # CarriageReturn
    BY <2>1 DEF PayloadByte, Byte
  <2>3. ASSUME NEW i \in Nat, Receiving(consumed, i)
        PROVE  i \in 1 .. L /\ Len(buffer) = L - i
    <3>1. i \in 1 .. L /\ buffer = SubSeq(consumed, i + 1, L)
      <4>1. i \in 1 .. L
        BY <2>3 DEF Receiving
      <4>2. buffer = SubSeq(consumed, i + 1, L)
        BY <1>4, <2>3, Zenon DEF Framed
      <4> QED BY <4>1, <4>2
    <3>2. \A j \in i + 1 .. L : consumed[j] \in STRING
      <4>1. \A j \in i + 1 .. L : j \in 1 .. L
        BY <1>2
      <4> QED BY <1>2, <4>1, ElementOfSeq
    <3>3. i + 1 \in Int /\ L \in Int
      BY <1>2
    <3>4. Len(buffer) = IF i + 1 <= L THEN L - (i + 1) + 1 ELSE 0
      BY <3>1, <3>2, <3>3, SubSeqProperties
    <3> QED BY <1>2, <3>1, <3>4
  <2>4. CASE Len(buffer) >= kRequestFramePayloadMaxChars
    <3>1. Restart(FALSE)
      BY <1>17, <2>4 DEF StoresByte
    <3>2. ASSUME NEW i \in Nat, Receiving(consumed, i)
          PROVE  ~((L + 1) - i <= kRequestFramePayloadMaxChars)
      <4>1. i \in 1 .. L /\ Len(buffer) = L - i
        BY <2>3, <3>2
      <4> QED BY <1>2, <2>4, <4>1 DEF kRequestFramePayloadMaxChars
    <3> QED BY <1>9, <2>2, <3>1, <3>2
  <2>5. CASE ~(Len(buffer) >= kRequestFramePayloadMaxChars)
    <3>1. inFrame' = TRUE /\ awaitingLineEnd' = FALSE /\ buffer' = Append(buffer, c)
      BY <1>17, <2>1, <2>5 DEF StoresByte
    <3>2. ASSUME NEW i \in Nat, Receiving(consumed, i)
          PROVE  /\ (L + 1) - i <= kRequestFramePayloadMaxChars
                 /\ SubSeq(more, i + 1, Len(more)) = Append(SubSeq(consumed, i + 1, L), c)
      <4>1. i \in 1 .. L /\ Len(buffer) = L - i
        BY <2>3, <3>2
      <4>2. (L + 1) - i <= kRequestFramePayloadMaxChars /\ i + 1 \in 1 .. L + 1
        BY <1>2, <2>5, <4>1 DEF kRequestFramePayloadMaxChars
      <4>3. SubSeq(more, i + 1, Len(more)) = Append(SubSeq(consumed, i + 1, L), c)
        BY <1>1, <1>2, <4>2, PartGrows
      <4> QED BY <4>2, <4>3
    <3>3. Framed(TRUE, FALSE, buffer, consumed)
      BY <1>4, <2>1
    <3>4. Framed(TRUE, FALSE, Append(buffer, c), more)
      BY <1>2, <1>3, <2>2, <3>2, <3>3, FramedByte
    <3> QED BY <1>6, <3>1, <3>4
  <2> QED BY <2>4, <2>5
<1> QED BY <1>11, <1>12, <1>13, <1>14, <1>15, <1>16, <1>17, ByteCases
---------------------------------------------------------------------------
(* Lines.                                                                  *)

LineAt(bytes, i, k, j) ==
    /\ j \in 1 .. Len(bytes) /\ bytes[j] = kEndLine
    /\ Received(bytes, i, k, j - 1)

\* x is a well-formed line of the bytes: its end and its frame.
Spells(bytes, x) ==
    \E i, k, j \in Nat :
        /\ LineAt(bytes, i, k, j)
        /\ \E frame \in ReferenceFrame(SubSeq(bytes, i + 1, k - 1)) : x = <<j, frame>>

LEMMA LineIs ==
    ASSUME consumed \in Seq(STRING), NEW i, NEW k, NEW j
    PROVE  <<i, k, j>> \in Lines <=> /\ i \in Nat /\ k \in Nat /\ j \in Nat
                                     /\ LineAt(consumed, i, k, j)
<1> DEFINE L == Len(consumed)
<1>1. DOMAIN consumed = 1 .. L /\ L \in Nat
  BY LenProperties
<1>2. <<i, k, j>> \in Lines <=>
         /\ i \in At(kStartFrame) /\ k \in At(kEndFrame) /\ j \in At(kEndLine)
         /\ i < k /\ k < j /\ IsLine(i, k, j)
  BY DEF Lines
<1>3. /\ i \in At(kStartFrame) <=> i \in 1 .. L /\ consumed[i] = kStartFrame
      /\ k \in At(kEndFrame) <=> k \in 1 .. L /\ consumed[k] = kEndFrame
      /\ j \in At(kEndLine) <=> j \in 1 .. L /\ consumed[j] = kEndLine
  BY <1>1, Zenon DEF At
<1> HIDE DEF L
<1>4. i \in 1 .. L /\ k \in 1 .. L /\ j \in 1 .. L /\ i < k /\ k < j
        => /\ i \in Nat /\ k \in Nat /\ j \in Nat /\ j \in 1 .. L
           /\ i \in 1 .. j - 1 /\ k \in i + 1 .. j - 1
  BY <1>1
<1>5. ASSUME i \in Nat, k \in Nat, j \in Nat, j \in 1 .. L,
             i \in 1 .. j - 1, k \in i + 1 .. j - 1
      PROVE  i \in 1 .. L /\ k \in 1 .. L /\ j \in 1 .. L /\ i < k /\ k < j
  BY <1>1, <1>5
<1> QED BY <1>2, <1>3, <1>4, <1>5, Zenon DEF IsLine, LineAt, Received, L

LEMMA LinesAre == consumed \in Seq(STRING) =>
                     \A x : x \in WellFormedLines <=> Spells(consumed, x)
<1> SUFFICES ASSUME consumed \in Seq(STRING), NEW x
             PROVE  x \in WellFormedLines <=> Spells(consumed, x)
  OBVIOUS
<1>1. x \in WellFormedLines <=>
         \E line \in Lines :
            \E frame \in ReferenceFrame(SubSeq(consumed, line[1] + 1, line[2] - 1)) :
                x = <<line[3], frame>>
  BY DEF WellFormedLines
<1>2. ASSUME NEW line \in Lines
      PROVE  /\ line = <<line[1], line[2], line[3]>>
             /\ line[1] \in Nat /\ line[2] \in Nat /\ line[3] \in Nat
             /\ LineAt(consumed, line[1], line[2], line[3])
  <2>1. line = <<line[1], line[2], line[3]>>
    BY DEF Lines
  <2> QED BY <2>1, LineIs
<1>3. ASSUME NEW i \in Nat, NEW k \in Nat, NEW j \in Nat, LineAt(consumed, i, k, j)
      PROVE  \E line \in Lines : line[1] = i /\ line[2] = k /\ line[3] = j
  <2>1. <<i, k, j>> \in Lines
    BY <1>3, LineIs
  <2> QED BY <2>1
<1>4. ASSUME x \in WellFormedLines PROVE Spells(consumed, x)
  <2>1. PICK line \in Lines :
           \E frame \in ReferenceFrame(SubSeq(consumed, line[1] + 1, line[2] - 1)) :
               x = <<line[3], frame>>
    BY <1>1, <1>4, Zenon
  <2>2. /\ line[1] \in Nat /\ line[2] \in Nat /\ line[3] \in Nat
        /\ LineAt(consumed, line[1], line[2], line[3])
    BY <1>2
  <2> QED BY <2>1, <2>2, Zenon DEF Spells
<1>5. ASSUME Spells(consumed, x) PROVE x \in WellFormedLines
  <2>1. PICK i \in Nat, k \in Nat, j \in Nat :
           /\ LineAt(consumed, i, k, j)
           /\ \E frame \in ReferenceFrame(SubSeq(consumed, i + 1, k - 1)) : x = <<j, frame>>
    BY <1>5, Zenon DEF Spells
  <2>2. PICK line \in Lines : line[1] = i /\ line[2] = k /\ line[3] = j
    BY <1>3, <2>1
  <2>3. \E frame \in ReferenceFrame(SubSeq(consumed, line[1] + 1, line[2] - 1)) :
           x = <<line[3], frame>>
    BY <2>1, <2>2
  <2> QED BY <1>1, <2>3, Zenon
<1> QED BY <1>4, <1>5

LEMMA LinesAreNext == (consumed \in Seq(STRING) =>
                          \A x : x \in WellFormedLines <=> Spells(consumed, x))'
  BY LinesAre, PTL

\* What byte c adds to the lines.
LEMMA LinesGrow ==
    ASSUME NEW bytes, NEW c, NEW more, Longer(more, bytes, c), NEW x,
           bytes \in Seq(STRING), more \in Seq(STRING)
    PROVE  Spells(more, x) <=>
             \/ Spells(bytes, x)
             \/ /\ c = kEndLine
                /\ \E i, k \in Nat :
                      /\ Received(bytes, i, k, Len(bytes))
                      /\ \E frame \in ReferenceFrame(SubSeq(bytes, i + 1, k - 1)) :
                            x = <<Len(bytes) + 1, frame>>
<1> DEFINE L == Len(bytes)
           Says(i, k, j) ==
               \E frame \in ReferenceFrame(SubSeq(bytes, i + 1, k - 1)) : x = <<j, frame>>
<1>1. /\ L \in Nat /\ Len(more) = L + 1 /\ more[L + 1] = c
      /\ \A n \in 1 .. L : more[n] = bytes[n]
  BY DEF Longer
<1>2. ASSUME NEW i \in Nat, NEW k \in Nat, NEW j \in Nat
      PROVE  LineAt(more, i, k, j) <=>
                \/ LineAt(bytes, i, k, j)
                \/ j = L + 1 /\ c = kEndLine /\ Received(bytes, i, k, L)
  <2>1. CASE j \in 1 .. L
    <3>1. j - 1 \in 0 .. L /\ j # L + 1 /\ j \in 1 .. L + 1
      BY <1>1, <2>1
    <3>2. Received(more, i, k, j - 1) <=> Received(bytes, i, k, j - 1)
      BY <3>1, ReceivedStays
    <3> QED BY <1>1, <2>1, <3>1, <3>2, Zenon DEF LineAt
  <2>2. CASE j = L + 1
    <3>1. L \in 0 .. L /\ j - 1 = L /\ j \notin 1 .. L /\ j \in 1 .. L + 1
      BY <1>1, <2>2
    <3>2. Received(more, i, k, L) <=> Received(bytes, i, k, L)
      BY <3>1, ReceivedStays
    <3> QED BY <1>1, <2>2, <3>1, <3>2, Zenon DEF LineAt
  <2>3. CASE j \notin 1 .. L /\ j # L + 1
    <3>1. j \notin 1 .. L + 1
      BY <1>1, <2>3
    <3> QED BY <1>1, <2>3, <3>1, Zenon DEF LineAt
  <2> QED BY <2>1, <2>2, <2>3
<1>3. ASSUME NEW i \in Nat, NEW k \in Nat, NEW j \in Nat, LineAt(more, i, k, j)
      PROVE  SubSeq(more, i + 1, k - 1) = SubSeq(bytes, i + 1, k - 1)
  <2>1. j \in 1 .. L + 1 /\ i \in 1 .. j - 1 /\ k \in i + 1 .. j - 1
    BY <1>1, <1>3, Zenon DEF LineAt, Received
  <2>2. i + 1 \in Nat \ {0} /\ k - 1 \in Int /\ k - 1 <= L
    BY <1>1, <2>1
  <2> QED BY <2>2, PartStays
<1>4. Spells(more, x) <=>
         \E i, k, j \in Nat : LineAt(more, i, k, j) /\ Says(i, k, j)
  BY <1>3, Zenon DEF Spells
<1>5. Spells(bytes, x) <=>
         \E i, k, j \in Nat : LineAt(bytes, i, k, j) /\ Says(i, k, j)
  BY Zenon DEF Spells
<1>6. L + 1 \in Nat
  BY <1>1
<1> HIDE DEF Says
<1>7. Spells(more, x) <=>
         \/ Spells(bytes, x)
         \/ /\ c = kEndLine
            /\ \E i, k \in Nat : Received(bytes, i, k, L) /\ Says(i, k, L + 1)
  <2>1. ASSUME Spells(more, x), ~Spells(bytes, x)
        PROVE  /\ c = kEndLine
               /\ \E i, k \in Nat : Received(bytes, i, k, L) /\ Says(i, k, L + 1)
    <3>1. PICK i \in Nat, k \in Nat, j \in Nat : LineAt(more, i, k, j) /\ Says(i, k, j)
      BY <1>4, <2>1, Zenon
    <3>2. ~LineAt(bytes, i, k, j)
      BY <1>5, <2>1, <3>1, Zenon
    <3>3. j = L + 1 /\ c = kEndLine /\ Received(bytes, i, k, L)
      BY <1>2, <3>1, <3>2, Zenon
    <3> QED BY <3>1, <3>3, Zenon
  <2>2. ASSUME Spells(bytes, x) PROVE Spells(more, x)
    BY <1>2, <1>4, <1>5, <2>2, Zenon
  <2>3. ASSUME c = kEndLine, NEW i \in Nat, NEW k \in Nat, Received(bytes, i, k, L),
               Says(i, k, L + 1)
        PROVE  Spells(more, x)
    BY <1>2, <1>4, <1>6, <2>3, Zenon
  <2> QED BY <2>1, <2>2, <2>3, Zenon
<1> QED BY <1>7, Zenon DEF Says
---------------------------------------------------------------------------
(* Recursive functions: induction over a set of naturals, and the equations *)
(* of the three functions the decoder and its reference are built from.     *)

LEMMA LeastOf ==
    ASSUME NEW S, S \subseteq Nat, S # {}
    PROVE  \E x \in S : \A y \in S : x <= y
<1> DEFINE R == {ss \in Nat \X Nat : ss[1] < ss[2]}
<1>1. IsWellFoundedOn(R, Nat)
  BY NatLessThanWellFounded DEF OpToRel
<1>2. PICK x \in S : \A y \in S : ~(<<y, x>> \in R)
  <2> HIDE DEF R
  <2> QED BY <1>1, WFMin
<1>3. ASSUME NEW y \in S PROVE x <= y
  <2>1. <<y, x>> \notin R
    BY <1>2, <1>3
  <2> QED BY <1>3, <2>1
<1> QED BY <1>3

LEMMA SetInduction ==
    ASSUME NEW N \in Nat, NEW S, 0 \in S,
           \A n \in 0 .. N : n < N /\ n \in S => n + 1 \in S
    PROVE  \A n \in 0 .. N : n \in S
<1> DEFINE Out == {n \in 0 .. N : n \notin S}
<1> SUFFICES ASSUME Out # {} PROVE FALSE
  OBVIOUS
<1>1. Out \subseteq Nat
  OBVIOUS
<1>2. PICK x \in Out : \A y \in Out : x <= y
  <2> HIDE DEF Out
  <2> QED BY <1>1, LeastOf
<1>3. x \in 0 .. N /\ x \notin S /\ x # 0
  OBVIOUS
<1>4. x - 1 \in 0 .. N /\ x - 1 < N /\ (x - 1) + 1 = x /\ ~(x <= x - 1)
  BY <1>3
<1>5. x - 1 \in S
  <2>1. x - 1 \notin Out
    <3> HIDE DEF Out
    <3> QED BY <1>2, <1>4
  <2> QED BY <1>4, <2>1
<1> QED BY <1>3, <1>4, <1>5

LEMMA ScansEquation ==
    ASSUME NEW text, Len(text) \in Nat
    PROVE  /\ Scans(text)[0] = ScanStart
           /\ \A n \in 1 .. Len(text) :
                 Scans(text)[n] = ScanByte(Scans(text)[n - 1], text[n])
<1> DEFINE L == Len(text)
           Is(f, N) == f = [n \in 0 .. N |->
                              IF n = 0 THEN ScanStart ELSE ScanByte(f[n - 1], text[n])]
           Defined == {N \in Nat : \E f : Is(f, N)}
<1>1. 0 \in Defined
  <2>1. Is([n \in 0 .. 0 |-> ScanStart], 0)
    OBVIOUS
  <2> HIDE DEF Is
  <2> QED BY <2>1
<1>2. ASSUME NEW N \in 0 .. L, N \in Defined PROVE N + 1 \in Defined
  <2>1. PICK f : Is(f, N)
    BY <1>2
  <2> DEFINE g == [n \in 0 .. N + 1 |-> IF n <= N THEN f[n] ELSE ScanByte(f[N], text[N + 1])]
  <2>2. ASSUME NEW n \in 0 .. N + 1
        PROVE  g[n] = IF n = 0 THEN ScanStart ELSE ScanByte(g[n - 1], text[n])
    <3>1. CASE n = 0
      <4>1. f[0] = ScanStart /\ g[0] = f[0]
        BY <2>1
      <4> QED BY <3>1, <4>1
    <3>2. CASE n \in 1 .. N
      <4>1. n \in 0 .. N /\ n # 0 /\ n - 1 \in 0 .. N /\ n <= N /\ n - 1 <= N
            /\ n - 1 \in 0 .. N + 1
        BY <3>2
      <4>2. f[n] = ScanByte(f[n - 1], text[n])
        BY <2>1, <4>1
      <4> QED BY <4>1, <4>2
    <3>3. CASE n = N + 1
      <4>1. n # 0 /\ n - 1 = N /\ ~(n <= N) /\ N <= N /\ N \in 0 .. N + 1
        BY <3>3
      <4> QED BY <3>3, <4>1
    <3> QED BY <3>1, <3>2, <3>3
  <2>3. Is(g, N + 1)
    <3> HIDE DEF g
    <3>1. g = [n \in 0 .. N + 1 |-> g[n]]
      BY DEF g
    <3> QED BY <2>2, <3>1
  <2> HIDE DEF Is, g
  <2> QED BY <2>3
<1>3. L \in Defined
  <2>1. \A N \in 0 .. L : N \in Defined
    <3> HIDE DEF Defined
    <3> QED BY <1>1, <1>2, SetInduction
  <2> QED BY <2>1
<1>4. Is(Scans(text), L)
  <2>1. \E f : Is(f, L)
    BY <1>3
  <2>2. Scans(text) = CHOOSE f : Is(f, L)
    BY DEF Scans
  <2> HIDE DEF Is
  <2> QED BY <2>1, <2>2
<1>5. ASSUME NEW n \in 1 .. L PROVE n \in 0 .. L /\ n # 0
  OBVIOUS
<1> QED BY <1>4, <1>5

LEMMA SpelledEquation ==
    ASSUME NEW field, Len(field) \in Nat
    PROVE  /\ Spelled(field)[0] = 0
           /\ \A n \in 1 .. Len(field) :
                 Spelled(field)[n] = 10 * Spelled(field)[n - 1] + DigitValue(field[n])
<1> DEFINE L == Len(field)
           Is(f, N) == f = [n \in 0 .. N |->
                              IF n = 0 THEN 0 ELSE 10 * f[n - 1] + DigitValue(field[n])]
           Defined == {N \in Nat : \E f : Is(f, N)}
<1>1. 0 \in Defined
  <2>1. Is([n \in 0 .. 0 |-> 0], 0)
    OBVIOUS
  <2> HIDE DEF Is
  <2> QED BY <2>1
<1>2. ASSUME NEW N \in 0 .. L, N \in Defined PROVE N + 1 \in Defined
  <2>1. PICK f : Is(f, N)
    BY <1>2
  <2> DEFINE g == [n \in 0 .. N + 1 |->
                     IF n <= N THEN f[n] ELSE 10 * f[N] + DigitValue(field[N + 1])]
  <2>2. ASSUME NEW n \in 0 .. N + 1
        PROVE  g[n] = IF n = 0 THEN 0 ELSE 10 * g[n - 1] + DigitValue(field[n])
    <3>1. CASE n = 0
      <4>1. f[0] = 0 /\ g[0] = f[0]
        BY <2>1
      <4> QED BY <3>1, <4>1
    <3>2. CASE n \in 1 .. N
      <4>1. n \in 0 .. N /\ n # 0 /\ n - 1 \in 0 .. N /\ n <= N /\ n - 1 <= N
            /\ n - 1 \in 0 .. N + 1
        BY <3>2
      <4>2. f[n] = 10 * f[n - 1] + DigitValue(field[n])
        BY <2>1, <4>1
      <4>3. g[n] = f[n] /\ g[n - 1] = f[n - 1]
        BY <4>1
      <4> HIDE DEF g
      <4> QED BY <4>1, <4>2, <4>3, Zenon
    <3>3. CASE n = N + 1
      <4>1. n # 0 /\ n - 1 = N /\ ~(n <= N) /\ N <= N /\ N \in 0 .. N + 1
        BY <3>3
      <4>2. g[n] = 10 * f[N] + DigitValue(field[N + 1]) /\ g[n - 1] = f[N]
        BY <3>3, <4>1
      <4> HIDE DEF g
      <4> QED BY <3>3, <4>1, <4>2, Zenon
    <3> QED BY <3>1, <3>2, <3>3
  <2>3. Is(g, N + 1)
    <3> HIDE DEF g
    <3>1. g = [n \in 0 .. N + 1 |-> g[n]]
      BY DEF g
    <3> QED BY <2>2, <3>1, Zenon
  <2> HIDE DEF Is, g
  <2> QED BY <2>3
<1>3. L \in Defined
  <2>1. \A N \in 0 .. L : N \in Defined
    <3> HIDE DEF Defined
    <3> QED BY <1>1, <1>2, SetInduction
  <2> QED BY <2>1
<1>4. Is(Spelled(field), L)
  <2>1. \E f : Is(f, L)
    BY <1>3
  <2>2. Spelled(field) = CHOOSE f : Is(f, L)
    BY DEF Spelled
  <2> HIDE DEF Is
  <2> QED BY <2>1, <2>2
<1>5. ASSUME NEW n \in 1 .. L PROVE n \in 0 .. L /\ n # 0
  OBVIOUS
<1> QED BY <1>4, <1>5

LEMMA CutsEquation ==
    ASSUME NEW text
    PROVE  /\ Cuts(text)[0] = 0
           /\ \A n \in 1 .. 6 : Cuts(text)[n] = FieldEnd(text, Cuts(text)[n - 1])
<1> DEFINE Is(f, N) == f = [n \in 0 .. N |-> IF n = 0 THEN 0 ELSE FieldEnd(text, f[n - 1])]
           Defined == {N \in Nat : \E f : Is(f, N)}
<1>1. 0 \in Defined
  <2>1. Is([n \in 0 .. 0 |-> 0], 0)
    OBVIOUS
  <2> HIDE DEF Is
  <2> QED BY <2>1
<1>2. ASSUME NEW N \in 0 .. 6, N \in Defined PROVE N + 1 \in Defined
  <2>1. PICK f : Is(f, N)
    BY <1>2
  <2> DEFINE g == [n \in 0 .. N + 1 |-> IF n <= N THEN f[n] ELSE FieldEnd(text, f[N])]
  <2>2. ASSUME NEW n \in 0 .. N + 1
        PROVE  g[n] = IF n = 0 THEN 0 ELSE FieldEnd(text, g[n - 1])
    <3>1. CASE n = 0
      <4>1. f[0] = 0 /\ g[0] = f[0]
        BY <2>1
      <4> QED BY <3>1, <4>1
    <3>2. CASE n \in 1 .. N
      <4>1. n \in 0 .. N /\ n # 0 /\ n - 1 \in 0 .. N /\ n <= N /\ n - 1 <= N
            /\ n - 1 \in 0 .. N + 1
        BY <3>2
      <4>2. f[n] = FieldEnd(text, f[n - 1])
        BY <2>1, <4>1
      <4> QED BY <4>1, <4>2
    <3>3. CASE n = N + 1
      <4>1. n # 0 /\ n - 1 = N /\ ~(n <= N) /\ N <= N /\ N \in 0 .. N + 1
        BY <3>3
      <4> QED BY <3>3, <4>1
    <3> QED BY <3>1, <3>2, <3>3
  <2>3. Is(g, N + 1)
    <3> HIDE DEF g
    <3>1. g = [n \in 0 .. N + 1 |-> g[n]]
      BY DEF g
    <3> QED BY <2>2, <3>1
  <2> HIDE DEF Is, g
  <2> QED BY <2>3
<1>3. 6 \in Defined
  <2>1. \A N \in 0 .. 6 : N \in Defined
    <3> HIDE DEF Defined
    <3> QED BY <1>1, <1>2, SetInduction
  <2> QED BY <2>1
<1>4. Is(Cuts(text), 6)
  <2>1. \E f : Is(f, 6)
    BY <1>3
  <2>2. Cuts(text) = CHOOSE f : Is(f, 6)
    BY DEF Cuts, kRequestFrameFieldCount
  <2> HIDE DEF Is
  <2> QED BY <2>1, <2>2
<1>5. ASSUME NEW n \in 1 .. 6 PROVE n \in 0 .. 6 /\ n # 0
  OBVIOUS
<1> QED BY <1>4, <1>5
---------------------------------------------------------------------------
(* Numbers.                                                                *)

LEMMA DigitsHaveValues == \A c \in Digits : DigitValue(c) \in Nat
<1> SUFFICES ASSUME NEW c \in Digits PROVE DigitValue(c) \in Nat
  OBVIOUS
<1>1. \E n \in 1 .. 10 : DigitName[n] = c
  BY DEF Digits
<1>2. PICK n \in 1 .. 10 : n = CHOOSE m \in 1 .. 10 : DigitName[m] = c
  BY <1>1
<1>3. DigitValue(c) = n - 1
  BY <1>2 DEF DigitValue
<1> QED BY <1>3

AllDigits(field) == \A i \in 1 .. Len(field) : field[i] \in Digits

\* What a field spells does not shrink from digit to digit.
LEMMA NumbersGrow ==
    ASSUME NEW field, Len(field) \in Nat, AllDigits(field)
    PROVE  /\ \A n \in 0 .. Len(field) : Spelled(field)[n] \in Nat
           /\ \A n \in 0 .. Len(field) : Spelled(field)[n] <= NumberOf(field)
<1> DEFINE L == Len(field)
           sp == Spelled(field)
           S == {n \in Nat : sp[n] \in Nat}
<1>1. /\ sp[0] = 0
      /\ \A n \in 1 .. L : sp[n] = 10 * sp[n - 1] + DigitValue(field[n])
  BY SpelledEquation
<1>2. \A n \in 1 .. L : DigitValue(field[n]) \in Nat
  BY DigitsHaveValues DEF AllDigits
<1> HIDE DEF sp
<1>3. \A n \in 0 .. L : sp[n] \in Nat
  <2>1. 0 \in S
    BY <1>1
  <2>2. ASSUME NEW n \in 0 .. L, n < L, n \in S PROVE n + 1 \in S
    <3>1. n + 1 \in 1 .. L /\ (n + 1) - 1 = n
      BY <2>2
    <3>2. sp[n + 1] = 10 * sp[n] + DigitValue(field[n + 1])
      BY <1>1, <3>1
    <3>3. DigitValue(field[n + 1]) \in Nat /\ sp[n] \in Nat
      BY <1>2, <2>2, <3>1
    <3>4. sp[n + 1] \in Nat
      BY <3>2, <3>3
    <3> QED BY <3>1, <3>4
  <2>3. \A n \in 0 .. L : n \in S
    <3> HIDE DEF S
    <3> QED BY <2>1, <2>2, SetInduction
  <2> QED BY <2>3
<1>4. \A n \in 0 .. L : sp[L - n] <= sp[L]
  <2> DEFINE B == {n \in Nat : sp[L - n] <= sp[L]}
  <2>1. 0 \in B
    <3>1. sp[L] \in Nat /\ L - 0 = L
      BY <1>3
    <3> QED BY <3>1
  <2>2. ASSUME NEW n \in 0 .. L, n < L, n \in B PROVE n + 1 \in B
    <3>1. /\ L - n \in 1 .. L /\ (L - n) - 1 = L - (n + 1) /\ n + 1 \in Nat
          /\ L - n \in 0 .. L /\ L - (n + 1) \in 0 .. L /\ L \in 0 .. L
      BY <2>2
    <3>2. sp[L - n] = 10 * sp[L - (n + 1)] + DigitValue(field[L - n])
      BY <1>1, <3>1
    <3>3. /\ sp[L - n] \in Nat /\ sp[L - (n + 1)] \in Nat /\ sp[L] \in Nat
          /\ DigitValue(field[L - n]) \in Nat
      BY <1>2, <1>3, <3>1
    <3>4. sp[L - n] <= sp[L]
      BY <2>2
    <3>5. sp[L - (n + 1)] <= sp[L]
      BY <3>2, <3>3, <3>4
    <3> QED BY <3>1, <3>5
  <2>3. \A n \in 0 .. L : n \in B
    <3> HIDE DEF B
    <3> QED BY <2>1, <2>2, SetInduction
  <2> QED BY <2>3
<1>5. ASSUME NEW n \in 0 .. L PROVE sp[n] <= NumberOf(field)
  <2>1. L - n \in 0 .. L /\ L - (L - n) = n
    BY <1>5
  <2>2. sp[L - (L - n)] <= sp[L]
    BY <1>4, <2>1
  <2> QED BY <2>1, <2>2 DEF NumberOf, sp
<1> QED BY <1>3, <1>5 DEF sp

\* Two fields that begin alike spell alike.
LEMMA SameNumbers ==
    ASSUME NEW one, NEW two, NEW N \in Nat, Len(one) \in Nat, Len(two) \in Nat,
           N <= Len(one), N <= Len(two), \A n \in 1 .. N : one[n] = two[n]
    PROVE  \A n \in 0 .. N : Spelled(one)[n] = Spelled(two)[n]
<1> DEFINE S == {n \in Nat : Spelled(one)[n] = Spelled(two)[n]}
<1>1. 0 \in S
  BY SpelledEquation
<1>2. ASSUME NEW n \in 0 .. N, n < N, n \in S PROVE n + 1 \in S
  <2>1. n + 1 \in 1 .. N /\ n + 1 \in 1 .. Len(one) /\ n + 1 \in 1 .. Len(two)
        /\ (n + 1) - 1 = n /\ n + 1 \in Nat
    BY <1>2
  <2>2. Spelled(one)[n + 1] = 10 * Spelled(one)[n] + DigitValue(one[n + 1])
    BY <2>1, SpelledEquation
  <2>3. Spelled(two)[n + 1] = 10 * Spelled(two)[n] + DigitValue(two[n + 1])
    BY <2>1, SpelledEquation
  <2>4. Spelled(one)[n] = Spelled(two)[n] /\ one[n + 1] = two[n + 1]
    BY <1>2, <2>1
  <2>5. Spelled(one)[n + 1] = Spelled(two)[n + 1]
    BY <2>2, <2>3, <2>4, Zenon
  <2> QED BY <2>1, <2>5
<1>3. \A n \in 0 .. N : n \in S
  <2> HIDE DEF S
  <2> QED BY <1>1, <1>2, SetInduction
<1> QED BY <1>3

\* One digit more, and the whole field against one of its beginnings.
LEMMA NumberGrows ==
    ASSUME NEW part, NEW c, NEW more, Longer(more, part, c)
    PROVE  NumberOf(more) = 10 * NumberOf(part) + DigitValue(c)
<1> DEFINE L == Len(part)
<1>1. /\ L \in Nat /\ Len(more) = L + 1 /\ more[L + 1] = c
      /\ \A n \in 1 .. L : more[n] = part[n]
  BY DEF Longer
<1>2. Spelled(more)[L] = Spelled(part)[L]
  <2>1. L <= Len(more) /\ L <= Len(part) /\ L \in 0 .. L /\ Len(more) \in Nat
    BY <1>1
  <2>2. \A n \in 0 .. L : Spelled(more)[n] = Spelled(part)[n]
    BY <1>1, <2>1, SameNumbers
  <2> QED BY <2>1, <2>2
<1>3. L + 1 \in 1 .. Len(more) /\ (L + 1) - 1 = L /\ Len(more) \in Nat
  BY <1>1
<1>4. Spelled(more)[L + 1] = 10 * Spelled(more)[L] + DigitValue(more[L + 1])
  BY <1>3, SpelledEquation
<1> QED BY <1>1, <1>2, <1>4, Zenon DEF NumberOf

LEMMA NumberOfBeginning ==
    ASSUME NEW field, NEW part, Len(field) \in Nat, Len(part) \in Nat,
           Len(part) <= Len(field), \A n \in 1 .. Len(part) : part[n] = field[n],
           AllDigits(field)
    PROVE  NumberOf(part) <= NumberOf(field) /\ NumberOf(part) \in Nat
<1>1. \A n \in 0 .. Len(part) : Spelled(part)[n] = Spelled(field)[n]
  BY SameNumbers
<1>2. Len(part) \in 0 .. Len(part) /\ Len(part) \in 0 .. Len(field)
  OBVIOUS
<1>3. NumberOf(part) = Spelled(field)[Len(part)]
  BY <1>1, <1>2 DEF NumberOf
<1>4. /\ Spelled(field)[Len(part)] <= NumberOf(field)
      /\ Spelled(field)[Len(part)] \in Nat
  BY <1>2, NumbersGrow
<1> QED BY <1>3, <1>4
---------------------------------------------------------------------------
(* Fields.                                                                 *)

\* A text whose last byte is a delimiter.
Closed(text) ==
    /\ Len(text) \in Nat \ {0}
    /\ text[Len(text)] = kDelimiter

LEMMA FieldEndIs ==
    ASSUME NEW text, Closed(text), NEW i \in 0 .. Len(text)
    PROVE  /\ FieldEnd(text, i) \in 0 .. Len(text)
           /\ i = Len(text) => FieldEnd(text, i) = i
           /\ i < Len(text) =>
                 /\ FieldEnd(text, i) \in i + 1 .. Len(text)
                 /\ text[FieldEnd(text, i)] = kDelimiter
                 /\ \A e \in i + 1 .. FieldEnd(text, i) - 1 : text[e] # kDelimiter
<1> DEFINE L == Len(text)
           ends == {e \in i + 1 .. L : text[e] = kDelimiter}
<1>1. L \in Nat \ {0} /\ text[L] = kDelimiter
  BY DEF Closed
<1>2. FieldEnd(text, i) = IF ends = {} THEN i ELSE Min(ends)
  BY DEF FieldEnd
<1>3. CASE i = L
  <2>1. ends = {}
    BY <1>1, <1>3
  <2>2. FieldEnd(text, i) = i
    BY <1>2, <2>1
  <2> QED BY <1>1, <1>3, <2>2
<1>4. CASE i < L
  <2>1. L \in ends
    BY <1>1, <1>4
  <2>2. ends \subseteq Nat /\ ends # {}
    BY <1>1, <2>1
  <2>3. \E x \in ends : \A y \in ends : x <= y
    <3> HIDE DEF ends
    <3> QED BY <2>2, LeastOf
  <2>4. PICK e : e = FieldEnd(text, i)
    OBVIOUS
  <2>5. e \in ends /\ \A y \in ends : e <= y
    <3> HIDE DEF ends
    <3> QED BY <1>2, <2>2, <2>3, <2>4 DEF Min
  <2>6. e \in i + 1 .. L /\ text[e] = kDelimiter /\ e \in 0 .. L
    BY <1>1, <2>5
  <2>7. ASSUME NEW d \in i + 1 .. e - 1 PROVE text[d] # kDelimiter
    <3>1. d \in i + 1 .. L /\ ~(e <= d)
      BY <1>1, <2>6
    <3>2. d \notin ends
      BY <2>5, <3>1
    <3> QED BY <3>1, <3>2
  <2>8. i # L
    BY <1>1, <1>4
  <2> QED BY <2>4, <2>6, <2>7, <2>8, Zenon
<1>5. i = L \/ i < L
  BY <1>1
<1> QED BY <1>3, <1>4, <1>5

LEMMA CutsInText ==
    ASSUME NEW text, Closed(text)
    PROVE  \A n \in 0 .. 6 : Cuts(text)[n] \in 0 .. Len(text)
<1> DEFINE S == {n \in Nat : Cuts(text)[n] \in 0 .. Len(text)}
<1>0. Len(text) \in Nat
  BY DEF Closed
<1>1. 0 \in S
  BY <1>0, CutsEquation
<1>2. ASSUME NEW n \in 0 .. 6, n < 6, n \in S PROVE n + 1 \in S
  <2>1. n + 1 \in 1 .. 6 /\ (n + 1) - 1 = n /\ n + 1 \in Nat
    BY <1>2
  <2>2. Cuts(text)[n + 1] = FieldEnd(text, Cuts(text)[n])
    BY <2>1, CutsEquation
  <2>3. Cuts(text)[n] \in 0 .. Len(text)
    BY <1>2
  <2>4. Cuts(text)[n + 1] \in 0 .. Len(text)
    BY <2>2, <2>3, FieldEndIs
  <2> QED BY <2>1, <2>4
<1>3. \A n \in 0 .. 6 : n \in S
  <2> HIDE DEF S
  <2> QED BY <1>1, <1>2, SetInduction
<1> QED BY <1>3

\* Once the text is used up no field follows.
LEMMA CutsEnd ==
    ASSUME NEW text, Closed(text), NEW k \in 0 .. 6, Cuts(text)[k] = Len(text)
    PROVE  \A n \in 0 .. 6 - k : Cuts(text)[k + n] = Len(text)
<1> DEFINE S == {n \in Nat : Cuts(text)[k + n] = Len(text)}
<1>0. Len(text) \in Nat /\ Len(text) \in 0 .. Len(text)
  BY DEF Closed
<1>1. 0 \in S
  OBVIOUS
<1>2. ASSUME NEW n \in 0 .. 6 - k, n < 6 - k, n \in S PROVE n + 1 \in S
  <2>1. k + (n + 1) \in 1 .. 6 /\ (k + (n + 1)) - 1 = k + n /\ n + 1 \in Nat
    BY <1>2
  <2>2. Cuts(text)[k + (n + 1)] = FieldEnd(text, Cuts(text)[k + n])
    BY <2>1, CutsEquation
  <2>3. Cuts(text)[k + n] = Len(text)
    BY <1>2
  <2>4. Cuts(text)[k + (n + 1)] = Len(text)
    BY <1>0, <2>2, <2>3, FieldEndIs
  <2> QED BY <2>1, <2>4
<1>3. 6 - k \in Nat
  OBVIOUS
<1>4. \A n \in 0 .. 6 - k : n \in S
  <2> HIDE DEF S
  <2> QED BY <1>1, <1>2, <1>3, SetInduction
<1> QED BY <1>4

\* The reference refuses the text.
Refused(text) ==
    \/ Cuts(text)[6] # Len(text)
    \/ \E m \in 1 .. 6 : ~GoodField(FieldName[m], Field(text, m))

Names == {"type", "request_id", "pin_type", "priority", "pin_number", "value"}

\* What the scan knows of the field it is in.
OpenField(name, part, scan) ==
    IF IsCode(name)
    THEN Len(part) <= 1 /\ (Len(part) = 1 => scan.last = part[1])
    ELSE /\ AllDigits(part)
         /\ scan.numericValue = NumberOf(part)
         /\ NumberOf(part) <= NumberLimit(name)

\* The fields that are over are good, and the frame holds what they say.
ClosedFields(text, scan) ==
    \A m \in 1 .. scan.fieldIndex :
        /\ GoodField(FieldName[m], Field(text, m))
        /\ scan.frame[FieldName[m]] = ValueOf(FieldName[m], Field(text, m))

IsScan(scan) ==
    scan = [ok |-> scan.ok, fieldIndex |-> scan.fieldIndex,
            fieldLength |-> scan.fieldLength, numericValue |-> scan.numericValue,
            last |-> scan.last, frame |-> scan.frame]

\* After n bytes of the text the scan has not refused it.
Scanned(text, n, scan) ==
    /\ IsScan(scan) /\ scan.ok = TRUE
    /\ scan.fieldIndex \in 0 .. 6
    /\ Cuts(text)[scan.fieldIndex] \in 0 .. n
    /\ scan.fieldLength = n - Cuts(text)[scan.fieldIndex]
    /\ \A e \in Cuts(text)[scan.fieldIndex] + 1 .. n : text[e] # kDelimiter
    /\ scan.fieldIndex = 6 => n = Cuts(text)[6]
    /\ ClosedFields(text, scan)
    /\ scan.frame = [name \in Names |-> scan.frame[name]]
    /\ scan.fieldIndex < 6 =>
          OpenField(FieldName[scan.fieldIndex + 1],
                    SubSeq(text, Cuts(text)[scan.fieldIndex] + 1, n), scan)

LEMMA FieldNames ==
    /\ \A m \in 1 .. 6 : FieldName[m] \in Names
    /\ \A m, n \in 1 .. 6 : FieldName[m] = FieldName[n] => m = n
<1>1. /\ FieldName[1] = "type" /\ FieldName[2] = "request_id"
      /\ FieldName[3] = "pin_type" /\ FieldName[4] = "priority"
      /\ FieldName[5] = "pin_number" /\ FieldName[6] = "value"
  BY DEF FieldName
<1>2. \A m \in 1 .. 6 : m = 1 \/ m = 2 \/ m = 3 \/ m = 4 \/ m = 5 \/ m = 6
  OBVIOUS
<1>3. \A m \in 1 .. 6 : FieldName[m] \in Names
  BY <1>1, <1>2 DEF Names
<1>4. ASSUME NEW m \in 1 .. 6, NEW n \in 1 .. 6, FieldName[m] = FieldName[n] PROVE m = n
  <2> DEFINE Place(name) == CASE name = "type" -> 1 [] name = "request_id" -> 2
                              [] name = "pin_type" -> 3 [] name = "priority" -> 4
                              [] name = "pin_number" -> 5 [] name = "value" -> 6
  <2>1. \A j \in 1 .. 6 : Place(FieldName[j]) = j
    BY <1>1, <1>2
  <2> HIDE DEF Place
  <2> QED BY <1>4, <2>1
<1> QED BY <1>3, <1>4

\* Nothing of an empty part is wrong.
LEMMA OpenFieldStart ==
    ASSUME NEW T, NEW text \in Seq(T), NEW m \in Int, NEW n \in Int, n < m, NEW name,
           NEW scan, scan.numericValue = 0
    PROVE  OpenField(name, SubSeq(text, m, n), scan)
<1>1. SubSeq(text, m, n) = <<>> /\ Len(<<>>) = 0
  BY SubSeqEmpty, EmptySeq
<1>2. NumberOf(<<>>) = 0
  BY <1>1, SpelledEquation DEF NumberOf
<1>3. 0 <= NumberLimit(name)
  BY DEF NumberLimit
<1>4. AllDigits(<<>>)
  BY <1>1 DEF AllDigits
<1>5. Len(<<>>) <= 1 /\ Len(<<>>) # 1
  BY <1>1
<1> QED BY <1>1, <1>2, <1>3, <1>4, <1>5 DEF OpenField

LEMMA Part ==
    ASSUME NEW T, NEW text \in Seq(T), NEW b \in Nat, NEW n \in Nat, b <= n, n <= Len(text)
    PROVE  /\ SubSeq(text, b + 1, n) \in Seq(T)
           /\ Len(SubSeq(text, b + 1, n)) = n - b
           /\ \A j \in 1 .. n - b : SubSeq(text, b + 1, n)[j] = text[b + j]
<1>1. Len(text) \in Nat
  BY LenProperties
<1>2. \A j \in b + 1 .. n : text[j] \in T
  <2>1. \A j \in b + 1 .. n : j \in 1 .. Len(text)
    BY <1>1
  <2> QED BY <2>1, ElementOfSeq
<1>3. /\ SubSeq(text, b + 1, n) \in Seq(T)
      /\ Len(SubSeq(text, b + 1, n)) = IF b + 1 <= n THEN n - (b + 1) + 1 ELSE 0
      /\ \A j \in 1 .. n - (b + 1) + 1 : SubSeq(text, b + 1, n)[j] = text[(b + 1) + j - 1]
  BY <1>2, SubSeqProperties
<1>4. n - (b + 1) + 1 = n - b /\ (IF b + 1 <= n THEN n - (b + 1) + 1 ELSE 0) = n - b
  OBVIOUS
<1>5. \A j \in 1 .. n - b : (b + 1) + j - 1 = b + j
  OBVIOUS
<1> QED BY <1>3, <1>4, <1>5

LEMMA StartScanned ==
    ASSUME NEW T, NEW text \in Seq(T)
    PROVE  Scanned(text, 0, ScanStart)
<1>1. /\ ScanStart.ok = TRUE /\ ScanStart.fieldIndex = 0 /\ ScanStart.fieldLength = 0
      /\ ScanStart.numericValue = 0 /\ IsScan(ScanStart)
      /\ ScanStart.frame = EmptyFrame
  BY DEF ScanStart, IsScan
<1>2. Cuts(text)[0] = 0
  BY CutsEquation
<1>3. EmptyFrame = [name \in Names |-> EmptyFrame[name]]
  BY DEF EmptyFrame, Names
<1>4. OpenField(FieldName[0 + 1], SubSeq(text, 0 + 1, 0), ScanStart)
  BY <1>1, OpenFieldStart
<1>5. ClosedFields(text, ScanStart)
  BY <1>1 DEF ClosedFields
<1>6. \A e \in 0 + 1 .. 0 : text[e] # kDelimiter
  OBVIOUS
<1> QED BY <1>1, <1>2, <1>3, <1>4, <1>5, <1>6 DEF Scanned

\* The field the scan is in, in the whole text.
InField(text, n, b, e, name, part, scan) ==
    /\ b \in 0 .. n /\ scan.fieldLength = n - b
    /\ Len(part) = n - b
    /\ \A j \in 1 .. n - b : part[j] = text[b + j]
    /\ OpenField(name, part, scan)
    /\ e \in n + 1 .. Len(text)
    /\ text[n + 1] = kDelimiter => e = n + 1
    /\ text[n + 1] # kDelimiter => e > n + 1

LEMMA FieldOfScan ==
    ASSUME NEW T, NEW text \in Seq(T), Closed(text), NEW n \in Nat, n < Len(text),
           NEW scan, Scanned(text, n, scan), scan.fieldIndex < 6
    PROVE  /\ InField(text, n, Cuts(text)[scan.fieldIndex], Cuts(text)[scan.fieldIndex + 1],
                      FieldName[scan.fieldIndex + 1],
                      SubSeq(text, Cuts(text)[scan.fieldIndex] + 1, n), scan)
           /\ Field(text, scan.fieldIndex + 1) =
                 SubSeq(text, Cuts(text)[scan.fieldIndex] + 1,
                        Cuts(text)[scan.fieldIndex + 1] - 1)
<1>1. PICK k \in 0 .. 5 : k = scan.fieldIndex
  BY DEF Scanned
<1>2. PICK b : b = Cuts(text)[k]
  OBVIOUS
<1>3. PICK e : e = Cuts(text)[k + 1]
  OBVIOUS
<1>4. PICK L \in Nat : L = Len(text) /\ n < L /\ text[L] = kDelimiter
  BY DEF Closed
<1>5. /\ b \in 0 .. n /\ scan.fieldLength = n - b
      /\ \A j \in b + 1 .. n : text[j] # kDelimiter
      /\ OpenField(FieldName[k + 1], SubSeq(text, b + 1, n), scan)
  BY <1>1, <1>2 DEF Scanned
<1>6. k + 1 \in 1 .. 6 /\ (k + 1) - 1 = k
  BY <1>1
<1>7. e = FieldEnd(text, b)
  BY <1>2, <1>3, <1>6, CutsEquation
<1>8. b \in 0 .. L /\ b < L /\ b \in Nat /\ b <= n /\ n <= L
  BY <1>4, <1>5
<1>9. /\ e \in b + 1 .. L /\ text[e] = kDelimiter
      /\ \A j \in b + 1 .. e - 1 : text[j] # kDelimiter
  <2>1. b \in 0 .. Len(text) /\ b < Len(text)
    BY <1>4, <1>8
  <2> QED BY <1>4, <1>7, <2>1, FieldEndIs
<1>10. e \in n + 1 .. L
  <2>1. e \notin b + 1 .. n
    BY <1>5, <1>9
  <2> QED BY <1>4, <1>5, <1>9, <2>1
<1>11. ASSUME text[n + 1] = kDelimiter PROVE e = n + 1
  <2>1. n + 1 \notin b + 1 .. e - 1
    BY <1>9, <1>11
  <2> QED BY <1>4, <1>5, <1>10, <2>1
<1>12. ASSUME text[n + 1] # kDelimiter PROVE e > n + 1
  <2>1. e # n + 1
    BY <1>9, <1>12
  <2> QED BY <1>4, <1>10, <2>1
<1>13. /\ Len(SubSeq(text, b + 1, n)) = n - b
       /\ \A j \in 1 .. n - b : SubSeq(text, b + 1, n)[j] = text[b + j]
  BY <1>4, <1>8, Part
<1>14. InField(text, n, b, e, FieldName[k + 1], SubSeq(text, b + 1, n), scan)
  BY <1>4, <1>5, <1>10, <1>11, <1>12, <1>13 DEF InField
<1>15. Field(text, k + 1) = SubSeq(text, b + 1, e - 1)
  BY <1>2, <1>3, <1>6 DEF Field
<1> QED BY <1>1, <1>2, <1>3, <1>14, <1>15

\* What a byte of the text leaves: the scan goes on, or the reference refuses.
Follows(text, n, scan) ==
    \/ Scanned(text, n, scan)
    \/ scan.ok = FALSE /\ Refused(text)

LEMMA Rejected ==
    ASSUME NEW text, NEW n, NEW scan, IsScan(scan), Refused(text)
    PROVE  Follows(text, n, Reject(scan))
<1>1. Reject(scan).ok = FALSE
  BY DEF Reject, IsScan
<1> QED BY <1>1 DEF Follows

\* After six fields every byte is one too many.
LEMMA TooLong ==
    ASSUME NEW text, Closed(text), NEW n \in Nat, n < Len(text), NEW scan,
           Scanned(text, n, scan), scan.fieldIndex = 6
    PROVE  Refused(text)
<1>1. Cuts(text)[6] = n /\ n # Len(text)
  BY DEF Scanned, Closed
<1> QED BY <1>1 DEF Refused

\* A delimiter ends a good field, or one that the reference refuses.
LEMMA FieldEnds ==
    ASSUME NEW T, NEW text \in Seq(T), Closed(text), NEW n \in Nat, n < Len(text),
           NEW scan, Scanned(text, n, scan), text[n + 1] = kDelimiter
    PROVE  Follows(text, n + 1, EndField(scan))
<1>1. PICK k \in 0 .. 6 : k = scan.fieldIndex
  BY DEF Scanned
<1>2. IsScan(scan) /\ scan.ok = TRUE
  BY DEF Scanned
<1>3. kRequestFrameFieldCount = 6
  BY DEF kRequestFrameFieldCount
<1>4. CASE k = 6
  <2>1. Refused(text)
    BY <1>1, <1>4, TooLong
  <2>2. EndField(scan) = Reject(scan)
    BY <1>1, <1>3, <1>4 DEF EndField
  <2> QED BY <1>2, <2>1, <2>2, Rejected
<1>5. CASE k \in 0 .. 5
  <2>1. PICK b : b = Cuts(text)[k]
    OBVIOUS
  <2>2. PICK e : e = Cuts(text)[k + 1]
    OBVIOUS
  <2>3. PICK name : name = FieldName[k + 1]
    OBVIOUS
  <2>4. PICK part : part = SubSeq(text, b + 1, n)
    OBVIOUS
  <2>5. scan.fieldIndex < 6
    BY <1>1, <1>5
  <2>6. /\ InField(text, n, b, e, name, part, scan)
        /\ Field(text, k + 1) = SubSeq(text, b + 1, e - 1)
    BY <1>1, <2>1, <2>2, <2>3, <2>4, <2>5, FieldOfScan
  <2>7. e = n + 1 /\ e - 1 = n
    BY <2>6 DEF InField
  <2>8. Field(text, k + 1) = part /\ k + 1 \in 1 .. 6
    BY <1>5, <2>4, <2>6, <2>7
  <2>9. PICK length \in Nat : length = n - b /\ Len(part) = length /\ scan.fieldLength = length
    BY <2>6 DEF InField
  <2>10. OpenField(name, part, scan)
    BY <2>6 DEF InField
  <2>11. \/ /\ GoodField(name, part) /\ length # 0
            /\ IsCode(name) => CodeOf(name, scan.last) # "kNone"
         \/ /\ ~GoodField(name, part)
            /\ length = 0 \/ (IsCode(name) /\ CodeOf(name, scan.last) = "kNone")
    <3>1. CASE IsCode(name)
      <4>1. Len(part) <= 1 /\ (Len(part) = 1 => scan.last = part[1])
        BY <2>10, <3>1 DEF OpenField
      <4>2. GoodField(name, part) <=> Len(part) = 1 /\ CodeOf(name, part[1]) # "kNone"
        BY <3>1, Zenon DEF GoodField
      <4>3. length = 0 \/ length = 1
        BY <2>9, <4>1
      <4>4. CASE length = 0
        <5>1. Len(part) # 1
          BY <2>9, <4>4
        <5>2. ~GoodField(name, part)
          BY <4>2, <5>1
        <5> QED BY <4>4, <5>2
      <4>5. CASE length = 1
        <5>1. Len(part) = 1 /\ length # 0
          BY <2>9, <4>5
        <5> QED BY <3>1, <4>1, <4>2, <5>1, Zenon
      <4> QED BY <4>3, <4>4, <4>5
    <3>2. CASE ~IsCode(name)
      <4>1. AllDigits(part) /\ NumberOf(part) <= NumberLimit(name)
        BY <2>10, <3>2 DEF OpenField
      <4>2. part \in Seq(T) /\ DOMAIN part = 1 .. Len(part)
        <5>1. b \in Nat /\ b <= n /\ n <= Len(text)
          BY <2>6 DEF InField, Closed
        <5>2. part \in Seq(T)
          BY <2>4, <5>1, Part
        <5> QED BY <5>2, LenProperties
      <4>3. part = <<>> <=> length = 0
        BY <2>9, <4>2, EmptySeq
      <4>4. GoodField(name, part) <=> part # <<>>
        BY <3>2, <4>1, <4>2, Zenon DEF GoodField, AllDigits
      <4>5. CASE length = 0
        <5>1. ~GoodField(name, part)
          BY <4>3, <4>4, <4>5
        <5> QED BY <4>5, <5>1
      <4>6. CASE length # 0
        <5>1. GoodField(name, part)
          BY <4>3, <4>4, <4>6
        <5> QED BY <3>2, <4>6, <5>1
      <4> QED BY <4>5, <4>6
    <3> QED BY <3>1, <3>2
  <2>12. CASE /\ ~GoodField(name, part)
              /\ length = 0 \/ (IsCode(name) /\ CodeOf(name, scan.last) = "kNone")
    <3>1. Refused(text)
      BY <2>3, <2>8, <2>12, Zenon DEF Refused
    <3>2. EndField(scan) = Reject(scan)
      BY <1>1, <2>3, <2>9, <2>12, Zenon DEF EndField
    <3> QED BY <1>2, <3>1, <3>2, Rejected
  <2>13. CASE /\ GoodField(name, part) /\ length # 0
              /\ IsCode(name) => CodeOf(name, scan.last) # "kNone"
    <3>1. PICK value : value = IF IsCode(name) THEN CodeOf(name, scan.last) ELSE scan.numericValue
      OBVIOUS
    <3>2. value = ValueOf(name, part)
      <4>1. CASE IsCode(name)
        <5>1. Len(part) = 1
          BY <2>13, <4>1, Zenon DEF GoodField
        <5> QED BY <2>10, <3>1, <4>1, <5>1, Zenon DEF OpenField, ValueOf
      <4>2. CASE ~IsCode(name)
        BY <2>10, <3>1, <4>2, Zenon DEF OpenField, ValueOf
      <4> QED BY <4>1, <4>2
    <3>3. ~(scan.fieldIndex >= kRequestFrameFieldCount)
      BY <1>1, <1>3, <1>5
    <3>4. PICK after :
            after = [ok |-> TRUE, fieldIndex |-> k + 1, fieldLength |-> 0,
                     numericValue |-> 0, last |-> kDelimiter,
                     frame |-> [scan.frame EXCEPT ![name] = value]]
      OBVIOUS
    <3>5. EndField(scan) = after
      BY <1>1, <2>3, <2>9, <2>13, <3>1, <3>3, <3>4, Zenon DEF EndField
    <3>6. /\ after.ok = TRUE /\ after.fieldIndex = k + 1 /\ after.fieldLength = 0
          /\ after.numericValue = 0 /\ after.frame = [scan.frame EXCEPT ![name] = value]
          /\ IsScan(after)
      BY <3>4 DEF IsScan
    <3>7. name \in Names /\ \A m \in 1 .. k : FieldName[m] # name /\ FieldName[m] \in Names
      <4>1. k + 1 \in 1 .. 6 /\ \A m \in 1 .. k : m \in 1 .. 6 /\ m # k + 1
        BY <1>5
      <4> QED BY <2>3, <4>1, FieldNames
    <3>8. scan.frame = [x \in Names |-> scan.frame[x]]
      BY DEF Scanned
    <3>9. /\ after.frame = [x \in Names |-> after.frame[x]]
          /\ after.frame[name] = value
          /\ \A x \in Names : x # name => after.frame[x] = scan.frame[x]
      BY <3>6, <3>7, <3>8
    <3>10. ClosedFields(text, after)
      <4>1. ASSUME NEW m \in 1 .. k + 1
            PROVE  /\ GoodField(FieldName[m], Field(text, m))
                   /\ after.frame[FieldName[m]] = ValueOf(FieldName[m], Field(text, m))
        <5>1. CASE m = k + 1
          BY <2>3, <2>8, <2>13, <3>2, <3>9, <5>1, Zenon
        <5>2. CASE m \in 1 .. k
          <6>1. /\ GoodField(FieldName[m], Field(text, m))
                /\ scan.frame[FieldName[m]] = ValueOf(FieldName[m], Field(text, m))
            BY <1>1, <5>2 DEF Scanned, ClosedFields
          <6> QED BY <3>7, <3>9, <5>2, <6>1, Zenon
        <5>3. m = k + 1 \/ m \in 1 .. k
          BY <1>5, <4>1
        <5> QED BY <5>1, <5>2, <5>3
      <4> QED BY <3>6, <4>1, Zenon DEF ClosedFields
    <3>11. Cuts(text)[k + 1] = n + 1 /\ n + 1 \in 0 .. n + 1 /\ 0 = (n + 1) - (n + 1)
      BY <2>2, <2>7
    <3>12. OpenField(FieldName[(k + 1) + 1], SubSeq(text, (n + 1) + 1, n + 1), after)
      <4>1. (n + 1) + 1 \in Int /\ n + 1 \in Int /\ n + 1 < (n + 1) + 1
        OBVIOUS
      <4> QED BY <3>6, <4>1, OpenFieldStart
    <3>13. \A j \in (n + 1) + 1 .. n + 1 : text[j] # kDelimiter
      OBVIOUS
    <3>14. k + 1 \in 0 .. 6 /\ (k + 1 = 6 => n + 1 = Cuts(text)[6])
      BY <1>5, <3>11
    <3>15. Scanned(text, n + 1, after)
      BY <3>6, <3>9, <3>10, <3>11, <3>12, <3>13, <3>14, Zenon DEF Scanned
    <3> QED BY <3>5, <3>15 DEF Follows
  <2> QED BY <2>11, <2>12, <2>13
<1>6. k = 6 \/ k \in 0 .. 5
  BY <1>1
<1> QED BY <1>4, <1>5, <1>6

\* Any other byte is good for its field so far, or the field is refused.
LEMMA FieldContinues ==
    ASSUME NEW T, NEW text \in Seq(T), Closed(text), NEW n \in Nat, n < Len(text),
           NEW scan, Scanned(text, n, scan), NEW c, c = text[n + 1], c # kDelimiter
    PROVE  Follows(text, n + 1, FieldByte(scan, c))
<1>1. PICK k \in 0 .. 6 : k = scan.fieldIndex
  BY DEF Scanned
<1>2. IsScan(scan) /\ scan.ok = TRUE
  BY DEF Scanned
<1>3. kRequestFrameFieldCount = 6
  BY DEF kRequestFrameFieldCount
<1>4. CASE k = 6
  <2>1. Refused(text)
    BY <1>1, <1>4, TooLong
  <2>2. FieldByte(scan, c) = Reject(scan)
    BY <1>1, <1>3, <1>4 DEF FieldByte
  <2> QED BY <1>2, <2>1, <2>2, Rejected
<1>5. CASE k \in 0 .. 5
  <2>1. PICK b : b = Cuts(text)[k]
    OBVIOUS
  <2>2. PICK e : e = Cuts(text)[k + 1]
    OBVIOUS
  <2>3. PICK name : name = FieldName[k + 1]
    OBVIOUS
  <2>4. PICK part : part = SubSeq(text, b + 1, n)
    OBVIOUS
  <2>5. PICK more : more = SubSeq(text, b + 1, n + 1)
    OBVIOUS
  <2>6. PICK field : field = Field(text, k + 1)
    OBVIOUS
  <2>7. scan.fieldIndex < 6 /\ ~(scan.fieldIndex >= kRequestFrameFieldCount) /\ k + 1 \in 1 .. 6
    BY <1>1, <1>3, <1>5
  <2>8. /\ InField(text, n, b, e, name, part, scan)
        /\ field = SubSeq(text, b + 1, e - 1)
    BY <1>1, <2>1, <2>2, <2>3, <2>4, <2>6, <2>7, FieldOfScan
  <2>9. PICK L \in Nat : L = Len(text) /\ n < L
    BY DEF Closed
  <2>10. b \in 0 .. n /\ e \in n + 1 .. L /\ e > n + 1
    BY <2>8, <2>9 DEF InField
  <2>11. PICK length \in Nat : length = n - b /\ Len(part) = length /\ scan.fieldLength = length
    BY <2>8 DEF InField
  <2>12. /\ OpenField(name, part, scan)
         /\ \A j \in 1 .. length : part[j] = text[b + j]
    BY <2>8, <2>11 DEF InField
  <2>13. /\ Len(more) = length + 1
         /\ \A j \in 1 .. length + 1 : more[j] = text[b + j]
         /\ DOMAIN part = 1 .. length /\ DOMAIN more = 1 .. length + 1
    <3>1. b \in Nat /\ n + 1 \in Nat /\ b <= n + 1 /\ n + 1 <= Len(text)
          /\ (n + 1) - b = length + 1 /\ b <= n /\ n <= Len(text)
      BY <2>9, <2>10, <2>11
    <3>2. /\ more \in Seq(T) /\ Len(more) = length + 1
          /\ \A j \in 1 .. length + 1 : more[j] = text[b + j]
      BY <2>5, <3>1, Part
    <3>3. part \in Seq(T)
      BY <2>4, <3>1, Part
    <3> QED BY <2>11, <3>2, <3>3, LenProperties
  <2>14. Longer(more, part, c)
    <3>1. b + (length + 1) = n + 1 /\ length + 1 \in 1 .. length + 1
          /\ \A j \in 1 .. length : j \in 1 .. length + 1
      BY <2>10, <2>11
    <3>2. more[length + 1] = c
      BY <2>13, <3>1
    <3>3. \A j \in 1 .. length : more[j] = part[j]
      BY <2>12, <2>13, <3>1, Zenon
    <3> QED BY <2>11, <2>13, <3>2, <3>3 DEF Longer
  <2>15. PICK long \in Nat : long = Len(field) /\ long >= length + 1
    <3>1. b \in Nat /\ e - 1 \in Nat /\ b <= e - 1 /\ e - 1 <= Len(text)
      BY <2>9, <2>10
    <3>2. Len(field) = (e - 1) - b
      BY <2>8, <3>1, Part
    <3> QED BY <2>10, <2>11, <3>2
  <2>16. /\ \A j \in 1 .. length + 1 : field[j] = more[j]
         /\ DOMAIN field = 1 .. long
    <3>1. b \in Nat /\ e - 1 \in Nat /\ b <= e - 1 /\ e - 1 <= Len(text)
      BY <2>9, <2>10
    <3>2. field \in Seq(T) /\ \A j \in 1 .. (e - 1) - b : field[j] = text[b + j]
      BY <2>8, <3>1, Part
    <3>3. \A j \in 1 .. length + 1 : j \in 1 .. (e - 1) - b
      BY <2>10, <2>11
    <3>4. \A j \in 1 .. length + 1 : field[j] = more[j]
      BY <2>13, <3>2, <3>3, Zenon
    <3> QED BY <2>15, <3>2, <3>4, LenProperties
  <2>17. ASSUME ~GoodField(name, field) PROVE Refused(text)
    BY <2>3, <2>6, <2>7, <2>17, Zenon DEF Refused
  <2>18. ASSUME NEW after, IsScan(after), after.ok = TRUE, after.fieldIndex = k,
                after.fieldLength = length + 1, after.frame = scan.frame,
                OpenField(name, more, after)
         PROVE  Follows(text, n + 1, after)
    <3>1. ClosedFields(text, after)
      BY <1>1, <2>18 DEF Scanned, ClosedFields
    <3>2. after.frame = [x \in Names |-> after.frame[x]]
      BY <2>18 DEF Scanned
    <3>3. \A j \in b + 1 .. n + 1 : text[j] # kDelimiter
      <4>1. \A j \in b + 1 .. n + 1 : j = n + 1 \/ j \in b + 1 .. n
        BY <2>10
      <4>2. \A j \in b + 1 .. n : text[j] # kDelimiter
        BY <1>1, <2>1 DEF Scanned
      <4> QED BY <4>1, <4>2, Zenon
    <3>4. b \in 0 .. n + 1 /\ length + 1 = (n + 1) - b /\ k \in 0 .. 6 /\ k # 6
      BY <1>5, <2>10, <2>11
    <3>5. Scanned(text, n + 1, after)
      BY <2>1, <2>3, <2>5, <2>18, <3>1, <3>2, <3>3, <3>4, Zenon DEF Scanned
    <3> QED BY <3>5 DEF Follows
  <2>19. CASE IsCode(name)
    <3>1. Len(part) <= 1
      BY <2>12, <2>19 DEF OpenField
    <3>2. CASE length # 0
      <4>1. long # 1
        BY <2>15, <3>2
      <4>2. ~GoodField(name, field)
        BY <2>15, <2>19, <4>1, Zenon DEF GoodField
      <4>3. FieldByte(scan, c) = Reject(scan)
        BY <1>1, <2>3, <2>7, <2>11, <2>19, <3>2, Zenon DEF FieldByte
      <4> QED BY <1>2, <2>17, <4>2, <4>3, Rejected
    <3>3. CASE length = 0
      <4>1. PICK after : after = [scan EXCEPT !.fieldLength = 1, !.last = c]
        OBVIOUS
      <4>2. FieldByte(scan, c) = after
        BY <1>1, <2>3, <2>7, <2>11, <2>19, <3>3, <4>1, Zenon DEF FieldByte
      <4>3. /\ IsScan(after) /\ after.ok = TRUE /\ after.fieldIndex = k
            /\ after.fieldLength = length + 1 /\ after.frame = scan.frame /\ after.last = c
        <5>1. /\ IsScan(after) /\ after.ok = TRUE /\ after.fieldIndex = k
              /\ after.fieldLength = 1 /\ after.frame = scan.frame /\ after.last = c
          BY <1>1, <1>2, <4>1 DEF IsScan
        <5>2. length + 1 = 1
          BY <3>3
        <5> QED BY <5>1, <5>2
      <4>4. Len(more) = 1 /\ more[1] = c /\ Len(more) <= 1
        BY <2>13, <2>14, <3>3 DEF Longer
      <4>5. OpenField(name, more, after)
        BY <2>19, <4>3, <4>4 DEF OpenField
      <4> QED BY <2>18, <4>2, <4>3, <4>5
    <3> QED BY <3>2, <3>3
  <2>20. CASE ~IsCode(name)
    <3>1. AllDigits(part) /\ scan.numericValue = NumberOf(part)
      BY <2>12, <2>20 DEF OpenField
    <3>2. PICK number : number = scan.numericValue * 10 + DigitValue(c)
      OBVIOUS
    <3>3. CASE c \notin Digits
      <4>1. length + 1 \in 1 .. long /\ length + 1 \in 1 .. length + 1
        BY <2>15
      <4>2. field[length + 1] = c
        BY <2>14, <2>11, <2>16, <4>1 DEF Longer
      <4>3. ~GoodField(name, field)
        BY <2>16, <2>20, <3>3, <4>1, <4>2, Zenon DEF GoodField
      <4>4. FieldByte(scan, c) = Reject(scan)
        BY <1>1, <2>3, <2>7, <2>20, <3>3, Zenon DEF FieldByte
      <4> QED BY <1>2, <2>17, <4>3, <4>4, Rejected
    <3>4. CASE c \in Digits
      <4>1. AllDigits(more)
        <5>1. \A j \in 1 .. length + 1 : j = length + 1 \/ j \in 1 .. length
          OBVIOUS
        <5>2. \A j \in 1 .. length : more[j] = part[j] /\ part[j] \in Digits
          BY <2>11, <2>14, <3>1, Zenon DEF Longer, AllDigits
        <5>3. more[length + 1] = c
          BY <2>11, <2>14, Zenon DEF Longer
        <5> QED BY <2>13, <3>4, <5>1, <5>2, <5>3, Zenon DEF AllDigits
      <4>2. number = NumberOf(more) /\ number \in Nat
        <5>1. NumberOf(more) = 10 * NumberOf(part) + DigitValue(c)
          BY <2>14, NumberGrows
        <5>2. NumberOf(part) \in Nat
          <6>1. Len(part) \in Nat /\ Len(part) \in 0 .. Len(part)
            BY <2>11
          <6>2. Spelled(part)[Len(part)] \in Nat
            BY <3>1, <6>1, NumbersGrow
          <6> QED BY <6>2 DEF NumberOf
        <5>3. DigitValue(c) \in Nat
          BY <3>4, DigitsHaveValues
        <5>4. PICK p \in Nat : p = NumberOf(part)
          BY <5>2
        <5>5. number = 10 * p + DigitValue(c) /\ number \in Nat
          BY <3>1, <3>2, <5>3, <5>4
        <5> QED BY <5>1, <5>4, <5>5
      <4>3. NumberLimit(name) \in Nat
        BY DEF NumberLimit
      <4>4. CASE number > NumberLimit(name)
        <5>1. ASSUME GoodField(name, field) PROVE FALSE
          <6>1. AllDigits(field) /\ NumberOf(field) <= NumberLimit(name)
            BY <2>15, <2>16, <2>20, <5>1, Zenon DEF GoodField, AllDigits
          <6>2. Len(field) \in Nat /\ Len(more) \in Nat /\ Len(more) <= Len(field)
            BY <2>13, <2>15
          <6>3. \A j \in 1 .. Len(more) : more[j] = field[j]
            BY <2>13, <2>16, Zenon
          <6>4. NumberOf(more) <= NumberOf(field)
            BY <6>1, <6>2, <6>3, NumberOfBeginning
          <6>5. NumberOf(field) \in Nat
            <7>1. Len(field) \in 0 .. Len(field)
              BY <6>2
            <7>2. Spelled(field)[Len(field)] \in Nat
              BY <6>1, <6>2, <7>1, NumbersGrow
            <7> QED BY <7>2 DEF NumberOf
          <6> QED BY <4>2, <4>3, <4>4, <6>1, <6>4, <6>5
        <5>2. FieldByte(scan, c) = Reject(scan)
          BY <1>1, <2>3, <2>7, <2>20, <3>2, <4>4, Zenon DEF FieldByte
        <5> QED BY <1>2, <2>17, <5>1, <5>2, Rejected
      <4>5. CASE ~(number > NumberLimit(name))
        <5>1. PICK after :
                after = [scan EXCEPT !.fieldLength = scan.fieldLength + 1,
                                     !.numericValue = number, !.last = c]
          OBVIOUS
        <5>2. FieldByte(scan, c) = after
          BY <1>1, <2>3, <2>7, <2>20, <3>2, <3>4, <4>5, <5>1, Zenon DEF FieldByte
        <5>3. /\ IsScan(after) /\ after.ok = TRUE /\ after.fieldIndex = k
              /\ after.fieldLength = length + 1 /\ after.frame = scan.frame
              /\ after.numericValue = number
          BY <1>1, <1>2, <2>11, <5>1 DEF IsScan
        <5>4. number <= NumberLimit(name)
          BY <4>2, <4>3, <4>5
        <5>5. OpenField(name, more, after)
          BY <2>20, <4>1, <4>2, <5>3, <5>4, Zenon DEF OpenField
        <5> QED BY <2>18, <5>2, <5>3, <5>5
      <4> QED BY <4>4, <4>5
    <3> QED BY <3>3, <3>4
  <2> QED BY <2>19, <2>20
<1>6. k = 6 \/ k \in 0 .. 5
  BY <1>1
<1> QED BY <1>4, <1>5, <1>6

LEMMA ScanFollows ==
    ASSUME NEW T, NEW text \in Seq(T), Closed(text)
    PROVE  \A n \in 0 .. Len(text) : Follows(text, n, Scans(text)[n])
<1> DEFINE S == {n \in Nat : Follows(text, n, Scans(text)[n])}
<1>0. Len(text) \in Nat
  BY DEF Closed
<1>1. 0 \in S
  <2>1. Scans(text)[0] = ScanStart
    BY <1>0, ScansEquation
  <2>2. Follows(text, 0, Scans(text)[0])
    BY <2>1, StartScanned DEF Follows
  <2> QED BY <2>2
<1>2. ASSUME NEW n \in 0 .. Len(text), n < Len(text), n \in S PROVE n + 1 \in S
  <2>1. PICK scan : scan = Scans(text)[n]
    OBVIOUS
  <2>2. PICK after : after = Scans(text)[n + 1]
    OBVIOUS
  <2>3. PICK c : c = text[n + 1]
    OBVIOUS
  <2>4. n + 1 \in 1 .. Len(text) /\ (n + 1) - 1 = n /\ n \in Nat /\ n + 1 \in Nat
    BY <1>2
  <2>5. after = ScanByte(scan, c)
    BY <1>0, <2>1, <2>2, <2>3, <2>4, ScansEquation
  <2>6. Follows(text, n, scan)
    BY <1>2, <2>1
  <2>7. CASE scan.ok = FALSE /\ Refused(text)
    <3>1. after = scan
      BY <2>5, <2>7 DEF ScanByte
    <3> QED BY <2>2, <2>4, <2>7, <3>1 DEF Follows
  <2>8. CASE Scanned(text, n, scan)
    <3>1. scan.ok = TRUE
      BY <2>8 DEF Scanned
    <3>2. CASE c = kDelimiter
      <4>1. after = EndField(scan)
        BY <2>5, <3>1, <3>2 DEF ScanByte
      <4>2. Follows(text, n + 1, after)
        BY <1>2, <2>3, <2>4, <2>8, <3>2, <4>1, FieldEnds
      <4> QED BY <2>2, <2>4, <4>2
    <3>3. CASE c # kDelimiter
      <4>1. after = FieldByte(scan, c)
        BY <2>5, <3>1, <3>3 DEF ScanByte
      <4>2. Follows(text, n + 1, after)
        BY <1>2, <2>3, <2>4, <2>8, <3>3, <4>1, FieldContinues
      <4> QED BY <2>2, <2>4, <4>2
    <3> QED BY <3>2, <3>3
  <2> QED BY <2>6, <2>7, <2>8 DEF Follows
<1>3. \A n \in 0 .. Len(text) : n \in S
  <2> HIDE DEF S
  <2> QED BY <1>0, <1>1, <1>2, SetInduction
<1> QED BY <1>3

\* A text in which fields are missing is refused.
LEMMA TooShort ==
    ASSUME NEW T, NEW text \in Seq(T), Closed(text), NEW scan,
           Scanned(text, Len(text), scan), scan.fieldIndex # 6
    PROVE  Refused(text)
<1>1. PICK k \in 0 .. 5 : k = scan.fieldIndex
  BY DEF Scanned
<1>2. PICK L \in Nat \ {0} : L = Len(text) /\ text[L] = kDelimiter
  BY DEF Closed
<1>3. PICK b \in 0 .. L : b = Cuts(text)[k] /\ \A e \in b + 1 .. L : text[e] # kDelimiter
  BY <1>1, <1>2 DEF Scanned
<1>4. b = L
  <2>1. L \notin b + 1 .. L
    BY <1>2, <1>3
  <2> QED BY <1>3, <2>1
<1>5. Cuts(text)[k + 1] = L
  <2>1. k \in 0 .. 6 /\ 1 \in 0 .. 6 - k /\ Cuts(text)[k] = Len(text)
    BY <1>1, <1>2, <1>3, <1>4
  <2>2. \A n \in 0 .. 6 - k : Cuts(text)[k + n] = Len(text)
    BY <2>1, CutsEnd
  <2> QED BY <1>2, <2>1, <2>2
<1>6. k + 1 \in 1 .. 6 /\ (k + 1) - 1 = k
  BY <1>1
<1>7. Field(text, k + 1) = <<>>
  <2>1. Field(text, k + 1) = SubSeq(text, L + 1, L - 1)
    BY <1>3, <1>4, <1>5, <1>6 DEF Field
  <2>2. L + 1 \in Int /\ L - 1 \in Int /\ L - 1 < L + 1
    OBVIOUS
  <2> QED BY <2>1, <2>2, SubSeqEmpty
<1>8. Len(<<>>) # 1
  BY EmptySeq
<1>9. ~GoodField(FieldName[k + 1], Field(text, k + 1))
  BY <1>7, <1>8 DEF GoodField
<1> QED BY <1>6, <1>9, Zenon DEF Refused

\* The empty payload is refused by its first delimiter.
LEMMA NoPayload ==
    ASSUME NEW text, Len(text) = 1, text[1] = kDelimiter
    PROVE  Scans(text)[1].ok = FALSE
<1>1. Len(text) \in Nat /\ 1 \in 1 .. Len(text) /\ 1 - 1 = 0
  OBVIOUS
<1>2. Scans(text)[0] = ScanStart /\ Scans(text)[1] = ScanByte(Scans(text)[1 - 1], text[1])
  BY <1>1, ScansEquation
<1>3. Scans(text)[1] = ScanByte(ScanStart, kDelimiter)
  BY <1>1, <1>2
<1>4. ScanStart.ok = TRUE /\ ScanStart.fieldLength = 0
  BY DEF ScanStart
<1>5. ScanByte(ScanStart, kDelimiter) = EndField(ScanStart)
  BY <1>4 DEF ScanByte
<1>6. EndField(ScanStart) = Reject(ScanStart)
  BY <1>4 DEF EndField
<1>7. Reject(ScanStart).ok = FALSE
  BY DEF Reject, ScanStart
<1> QED BY <1>3, <1>5, <1>6, <1>7

\* constructFrame decodes exactly the payloads of the reference, to the frame
\* that they spell.
THEOREM DecoderIsReference ==
    ASSUME NEW T, kDelimiter \in T, NEW payload \in Seq(T)
    PROVE  ConstructFrame(payload) = ReferenceFrame(payload)
<1>1. PICK text : text = Append(payload, kDelimiter)
  OBVIOUS
<1>2. PICK L : L = Len(text)
  OBVIOUS
<1>3. PICK scan : scan = Scans(text)[L]
  OBVIOUS
<1>4. /\ text \in Seq(T) /\ L = Len(payload) + 1 /\ text[L] = kDelimiter
      /\ Len(payload) \in Nat /\ L \in Nat \ {0}
  <2>1. Longer(text, payload, kDelimiter)
    BY <1>1, Grown
  <2>2. text \in Seq(T)
    BY <1>1, AppendProperties
  <2> QED BY <1>2, <2>1, <2>2 DEF Longer
<1>5. Closed(text)
  BY <1>2, <1>4 DEF Closed
<1>6. Follows(text, L, scan)
  <2>1. L \in 0 .. Len(text)
    BY <1>2, <1>4
  <2> QED BY <1>3, <1>4, <1>5, <2>1, ScanFollows
<1>7. ConstructFrame(payload) =
         IF /\ payload # <<>> /\ scan.ok /\ scan.fieldIndex = 6
            /\ IsValidRequest(scan.frame.type, scan.frame.pin_type)
         THEN {scan.frame} ELSE {}
  BY <1>1, <1>3, <1>4, Zenon DEF ConstructFrame, kRequestFrameFieldCount
<1>8. ASSUME Refused(text) PROVE ReferenceFrame(payload) = {}
  BY <1>1, <1>8, Zenon DEF Refused, ReferenceFrame, kRequestFrameFieldCount
<1>9. CASE scan.ok = FALSE /\ Refused(text)
  BY <1>7, <1>8, <1>9
<1>10. CASE Scanned(text, L, scan) /\ scan.fieldIndex # 6
  <2>1. Refused(text)
    BY <1>2, <1>4, <1>5, <1>10, TooShort
  <2> QED BY <1>7, <1>8, <1>10, <2>1
<1>11. CASE Scanned(text, L, scan) /\ scan.fieldIndex = 6
  <2>1. scan.ok = TRUE
    BY <1>11 DEF Scanned
  <2>2. payload # <<>>
    <3>1. ASSUME payload = <<>> PROVE FALSE
      <4>1. L = 1
        BY <1>4, <3>1, EmptySeq
      <4>2. Scans(text)[1].ok = FALSE
        BY <1>2, <1>4, <4>1, NoPayload
      <4> QED BY <1>3, <2>1, <4>1, <4>2
    <3> QED BY <3>1
  <2>3. /\ Cuts(text)[6] = L
        /\ \A m \in 1 .. 6 : GoodField(FieldName[m], Field(text, m))
        /\ \A m \in 1 .. 6 : scan.frame[FieldName[m]] = ValueOf(FieldName[m], Field(text, m))
        /\ scan.frame = [name \in Names |-> scan.frame[name]]
    BY <1>11 DEF Scanned, ClosedFields
  <2> DEFINE value(m) == ValueOf(FieldName[m], Field(text, m))
  <2>4. /\ scan.frame.type = value(1) /\ scan.frame.request_id = value(2)
        /\ scan.frame.pin_type = value(3) /\ scan.frame.priority = value(4)
        /\ scan.frame.pin_number = value(5) /\ scan.frame.value = value(6)
    <3>1. /\ FieldName[1] = "type" /\ FieldName[2] = "request_id"
          /\ FieldName[3] = "pin_type" /\ FieldName[4] = "priority"
          /\ FieldName[5] = "pin_number" /\ FieldName[6] = "value"
      BY DEF FieldName
    <3>2. /\ 1 \in 1 .. 6 /\ 2 \in 1 .. 6 /\ 3 \in 1 .. 6 /\ 4 \in 1 .. 6
          /\ 5 \in 1 .. 6 /\ 6 \in 1 .. 6
      OBVIOUS
    <3>3. \A m \in 1 .. 6 : scan.frame[FieldName[m]] = value(m)
      BY <2>3
    <3> HIDE DEF value
    <3> QED BY <3>1, <3>2, <3>3
  <2>5. ReferenceFrame(payload) =
           IF IsValidRequest(value(1), value(3))
           THEN {[request_id |-> value(2), value |-> value(6), type |-> value(1),
                  priority |-> value(4), pin_type |-> value(3),
                  pin_number |-> value(5)]}
           ELSE {}
    BY <1>1, <1>2, <2>3, Zenon DEF ReferenceFrame, kRequestFrameFieldCount
  <2> HIDE DEF value
  <2>6. scan.frame = [request_id |-> value(2), value |-> value(6), type |-> value(1),
                      priority |-> value(4), pin_type |-> value(3),
                      pin_number |-> value(5)]
    BY <2>3, <2>4 DEF Names
  <2>7. ConstructFrame(payload) =
           IF IsValidRequest(value(1), value(3)) THEN {scan.frame} ELSE {}
    BY <1>7, <1>11, <2>1, <2>2, <2>4, Zenon
  <2> QED BY <2>5, <2>6, <2>7, Zenon
<1>12. scan.fieldIndex = 6 \/ scan.fieldIndex # 6
  OBVIOUS
<1> QED BY <1>6, <1>9, <1>10, <1>11, <1>12 DEF Follows
---------------------------------------------------------------------------
(* What reaches the request queue.                                         *)

\* What byte c adds to the well-formed lines is the buffer's frame, when it
\* ends one.
LEMMA WellFormedLinesGrow ==
    ASSUME TypeOK, FramingInv, NEW c, ParsesByte(c), NEW x
    PROVE  x \in WellFormedLines' <=>
              \/ x \in WellFormedLines
              \/ /\ c = kEndLine /\ inFrame /\ awaitingLineEnd
                 /\ \E frame \in ReferenceFrame(buffer) : x = <<Len(consumed) + 1, frame>>
<1> DEFINE L == Len(consumed)
<1>1. PICK more : more = Append(consumed, c)
  OBVIOUS
<1>2. /\ c \in STRING /\ consumed' = more
  BY <1>1, ByteCases
<1>3. /\ consumed \in Seq(STRING) /\ more \in Seq(STRING) /\ Longer(more, consumed, c)
  <2>1. consumed \in Seq(STRING)
    BY DEF TypeOK
  <2> QED BY <1>1, <1>2, <2>1, AppendProperties, Grown
<1>4. x \in WellFormedLines <=> Spells(consumed, x)
  BY <1>3, LinesAre
<1>5. x \in WellFormedLines' <=> Spells(more, x)
  BY <1>2, <1>3, LinesAreNext
<1>6. Spells(more, x) <=>
         \/ Spells(consumed, x)
         \/ /\ c = kEndLine
            /\ \E i, k \in Nat :
                  /\ Received(consumed, i, k, L)
                  /\ \E frame \in ReferenceFrame(SubSeq(consumed, i + 1, k - 1)) :
                        x = <<L + 1, frame>>
  BY <1>3, LinesGrow
<1>7. Framed(inFrame, awaitingLineEnd, buffer, consumed)
  BY DEF FramingInv
<1>8. /\ inFrame /\ awaitingLineEnd => \E i, k \in Nat : Received(consumed, i, k, L)
      /\ \A i, k \in Nat : Received(consumed, i, k, L) =>
            inFrame /\ awaitingLineEnd /\ buffer = SubSeq(consumed, i + 1, k - 1)
  BY <1>7, Zenon DEF Framed
<1>9. (\E i, k \in Nat :
          /\ Received(consumed, i, k, L)
          /\ \E frame \in ReferenceFrame(SubSeq(consumed, i + 1, k - 1)) :
                x = <<L + 1, frame>>)
       <=> /\ inFrame /\ awaitingLineEnd
           /\ \E frame \in ReferenceFrame(buffer) : x = <<L + 1, frame>>
  BY <1>8, Zenon
<1> QED BY <1>4, <1>5, <1>6, <1>9, Zenon

LEMMA BufferIsDecoded == TypeOK => ConstructFrame(buffer) = ReferenceFrame(buffer)
<1> SUFFICES ASSUME TypeOK PROVE ConstructFrame(buffer) = ReferenceFrame(buffer)
  OBVIOUS
<1>1. buffer \in Seq(STRING \cup {kDelimiter})
  <2>1. buffer \in Seq(STRING) /\ STRING \subseteq STRING \cup {kDelimiter}
    BY DEF TypeOK
  <2> QED BY <2>1, SeqMonotonic
<1>2. kDelimiter \in STRING \cup {kDelimiter}
  OBVIOUS
<1> QED BY <1>1, <1>2, DecoderIsReference

LEMMA OffersKept ==
    ASSUME TypeOK, FramingInv, OffersExactlyTheWellFormedLines, NEW c, ParsesByte(c)
    PROVE  OffersExactlyTheWellFormedLines'
<1>1. \A x : x \in WellFormedLines' <=>
              \/ x \in WellFormedLines
              \/ /\ c = kEndLine /\ inFrame /\ awaitingLineEnd
                 /\ \E frame \in ReferenceFrame(buffer) : x = <<Len(consumed) + 1, frame>>
  BY WellFormedLinesGrow
<1>2. offered = WellFormedLines
  BY DEF OffersExactlyTheWellFormedLines
<1>3. CASE EndsLine(c)
  <2>1. ConstructFrame(buffer) = ReferenceFrame(buffer)
    BY BufferIsDecoded
  <2>2. c = kEndLine /\ inFrame /\ awaitingLineEnd
    BY <1>3 DEF EndsLine
  <2>3. CASE ReferenceFrame(buffer) = {}
    <3>1. offered' = offered
      BY <1>3, <2>1, <2>3 DEF EndsLine
    <3>2. \A x : x \in WellFormedLines' <=> x \in WellFormedLines
      BY <1>1, <2>3
    <3>3. \A x : x \in WellFormedLines' <=> x \in offered'
      BY <1>2, <3>1, <3>2
    <3> QED BY <3>3 DEF OffersExactlyTheWellFormedLines
  <2>4. CASE ReferenceFrame(buffer) # {}
    <3>1. PICK frame \in ReferenceFrame(buffer) :
             offered' = offered \cup {<<Len(consumed) + 1, frame>>}
      BY <1>3, <2>1, <2>4 DEF EndsLine
    <3>2. \A other \in ReferenceFrame(buffer) : other = frame
      BY <3>1 DEF ReferenceFrame
    <3>3. \A x : x \in WellFormedLines' <=>
                    x \in WellFormedLines \/ x = <<Len(consumed) + 1, frame>>
      BY <1>1, <2>2, <3>1, <3>2, Zenon
    <3>4. \A x : x \in WellFormedLines' <=> x \in offered'
      BY <1>2, <3>1, <3>3
    <3> QED BY <3>4 DEF OffersExactlyTheWellFormedLines
  <2> QED BY <2>3, <2>4
<1>4. ASSUME offered' = offered, ~(c = kEndLine /\ inFrame /\ awaitingLineEnd)
      PROVE  OffersExactlyTheWellFormedLines'
  <2>1. \A x : x \in WellFormedLines' <=> x \in WellFormedLines
    BY <1>1, <1>4, Zenon
  <2>2. \A x : x \in WellFormedLines' <=> x \in offered'
    BY <1>2, <1>4, <2>1
  <2> QED BY <2>2 DEF OffersExactlyTheWellFormedLines
<1>5. CASE OutsideFrame(c) \/ BreaksPayload(c) \/ EndsPayload(c) \/ StoresByte(c)
  <2>1. offered' = offered /\ ~(inFrame /\ awaitingLineEnd)
    BY <1>5 DEF OutsideFrame, BreaksPayload, EndsPayload, StoresByte
  <2> QED BY <1>4, <2>1
<1>6. CASE SkipsCarriageReturn(c) \/ BreaksLineEnd(c)
  <2>1. offered' = offered /\ c # kEndLine
    BY <1>6, Bytes DEF SkipsCarriageReturn, BreaksLineEnd
  <2> QED BY <1>4, <2>1
<1> QED BY <1>3, <1>5, <1>6, ByteCases

\* For any stream of bytes, exactly the well-formed lines are offered to the
\* request queue, with the fields they spell.
THEOREM ExactlyTheWellFormedLines == Spec => []OffersExactlyTheWellFormedLines
<1> DEFINE Inv == TypeOK /\ FramingInv /\ OffersExactlyTheWellFormedLines
<1>1. ASSUME Init PROVE Inv
  <2>1. /\ consumed = <<>> /\ inFrame = FALSE /\ awaitingLineEnd = FALSE /\ offered = {}
    BY <1>1 DEF Init
  <2>2. TypeOK
    BY <1>1, InitTypes
  <2>3. Len(consumed) = 0
    BY <2>1, EmptySeq
  <2>4. \A i \in Nat : ~Receiving(consumed, i)
    BY <2>3 DEF Receiving
  <2>5. \A i, k \in Nat : ~Received(consumed, i, k, Len(consumed))
    BY <2>3 DEF Received
  <2>6. FramingInv
    <3>1. Framed(FALSE, FALSE, buffer, consumed)
      BY <2>4, <2>5, FramedOutside
    <3> QED BY <2>1, <3>1 DEF FramingInv
  <2>7. \A x : ~Spells(consumed, x)
    BY <2>3 DEF Spells, LineAt
  <2>8. \A x : x \in WellFormedLines <=> Spells(consumed, x)
    BY <2>2, LinesAre DEF TypeOK
  <2>9. WellFormedLines = {}
    BY <2>7, <2>8
  <2> QED BY <2>1, <2>2, <2>6, <2>9 DEF OffersExactlyTheWellFormedLines
<1>2. ASSUME Inv, [Next]_vars PROVE Inv'
  <2>1. TypeOK'
    BY <1>2, TypesKept
  <2>2. ASSUME NEW c, ParsesByte(c) PROVE Inv'
    BY <1>2, <2>1, <2>2, FramingKept, OffersKept
  <2>3. CASE UNCHANGED vars
    <3>1. /\ inFrame' = inFrame /\ awaitingLineEnd' = awaitingLineEnd /\ buffer' = buffer
          /\ consumed' = consumed /\ offered' = offered
      BY <2>3 DEF vars, parserVars
    <3>2. FramingInv'
      BY <1>2, <3>1 DEF FramingInv, Framed, Receiving, Received, PayloadByte, Byte
    <3>3. WellFormedLines' = WellFormedLines
      <4>1. \A x : x \in WellFormedLines <=> Spells(consumed, x)
        BY <1>2, LinesAre DEF TypeOK
      <4>2. \A x : x \in WellFormedLines' <=> Spells(consumed, x)
        BY <2>1, <3>1, LinesAreNext DEF TypeOK
      <4>3. \A x : x \in WellFormedLines' <=> x \in WellFormedLines
        BY <4>1, <4>2, Zenon
      <4> QED BY <4>3
    <3> QED BY <1>2, <2>1, <3>1, <3>2, <3>3 DEF OffersExactlyTheWellFormedLines
  <2> QED BY <1>2, <2>2, <2>3 DEF Next
<1>3. Inv => OffersExactlyTheWellFormedLines
  OBVIOUS
<1> QED BY <1>1, <1>2, <1>3, PTL DEF Spec
---------------------------------------------------------------------------
(* The host's numbers.                                                     *)

LEMMA DigitsDiffer == \A m, n \in 1 .. 10 : DigitName[m] = DigitName[n] => m = n
<1> SUFFICES ASSUME NEW m \in 1 .. 10, NEW n \in 1 .. 10, DigitName[m] = DigitName[n]
             PROVE  m = n
  OBVIOUS
<1> DEFINE Place(c) == CASE c = "0" -> 1 [] c = "1" -> 2 [] c = "2" -> 3 [] c = "3" -> 4
                         [] c = "4" -> 5 [] c = "5" -> 6 [] c = "6" -> 7 [] c = "7" -> 8
                         [] c = "8" -> 9 [] c = "9" -> 10
<1>1. /\ DigitName[1] = "0" /\ DigitName[2] = "1" /\ DigitName[3] = "2"
      /\ DigitName[4] = "3" /\ DigitName[5] = "4" /\ DigitName[6] = "5"
      /\ DigitName[7] = "6" /\ DigitName[8] = "7" /\ DigitName[9] = "8"
      /\ DigitName[10] = "9"
  BY DEF DigitName
<1>2. \A j \in 1 .. 10 : j = 1 \/ j = 2 \/ j = 3 \/ j = 4 \/ j = 5 \/ j = 6 \/ j = 7
                         \/ j = 8 \/ j = 9 \/ j = 10
  OBVIOUS
<1>3. \A j \in 1 .. 10 : Place(DigitName[j]) = j
  BY <1>1, <1>2
<1> HIDE DEF Place
<1> QED BY <1>3

LEMMA ValueOfDigit ==
    \A m \in 0 .. 9 : DigitName[m + 1] \in Digits /\ DigitValue(DigitName[m + 1]) = m
<1> SUFFICES ASSUME NEW m \in 0 .. 9
             PROVE  DigitName[m + 1] \in Digits /\ DigitValue(DigitName[m + 1]) = m
  OBVIOUS
<1>1. PICK k \in 1 .. 10 : k = m + 1
  OBVIOUS
<1>2. \E n \in 1 .. 10 : DigitName[n] = DigitName[k]
  OBVIOUS
<1>3. PICK n \in 1 .. 10 :
         n = (CHOOSE j \in 1 .. 10 : DigitName[j] = DigitName[k]) /\ DigitName[n] = DigitName[k]
  BY <1>2
<1>4. n = k
  BY <1>3, DigitsDiffer
<1>5. DigitValue(DigitName[k]) = n - 1
  BY <1>3 DEF DigitValue
<1>6. DigitName[k] \in Digits
  BY DEF Digits
<1> QED BY <1>1, <1>4, <1>5, <1>6

LEMMA Powers ==
    /\ PowerOfTen[1] = 1
    /\ \A k \in 1 .. 5 : PowerOfTen[k] \in Nat \ {0} /\ PowerOfTen[k + 1] = 10 * PowerOfTen[k]
<1>1. /\ PowerOfTen[1] = 1 /\ PowerOfTen[2] = 10 /\ PowerOfTen[3] = 100
      /\ PowerOfTen[4] = 1000 /\ PowerOfTen[5] = 10000 /\ PowerOfTen[6] = 100000
  BY DEF PowerOfTen
<1>2. \A k \in 1 .. 5 : k = 1 \/ k = 2 \/ k = 3 \/ k = 4 \/ k = 5
  OBVIOUS
<1> QED BY <1>1, <1>2

LEMMA DigitCountIs ==
    ASSUME NEW n \in UInt16
    PROVE  /\ DigitCount(n) \in 1 .. 5
           /\ n < PowerOfTen[DigitCount(n) + 1]
           /\ n \in UInt8 => DigitCount(n) <= 3
<1> DEFINE Fits(d) == n < PowerOfTen[d + 1] /\ (d > 1 => n >= PowerOfTen[d])
<1>1. /\ PowerOfTen[1] = 1 /\ PowerOfTen[2] = 10 /\ PowerOfTen[3] = 100
      /\ PowerOfTen[4] = 1000 /\ PowerOfTen[5] = 10000 /\ PowerOfTen[6] = 100000
  BY DEF PowerOfTen
<1>2. n \in Nat /\ n <= 65535
  BY DEF UInt16
<1>3. \E d \in 1 .. 5 : Fits(d)
  <2>1. CASE n < 10
    <3>1. Fits(1)
      BY <1>1, <2>1
    <3> HIDE DEF Fits
    <3> QED BY <3>1
  <2>2. CASE n >= 10 /\ n < 100
    <3>1. Fits(2)
      BY <1>1, <2>2
    <3> HIDE DEF Fits
    <3> QED BY <3>1
  <2>3. CASE n >= 100 /\ n < 1000
    <3>1. Fits(3)
      BY <1>1, <2>3
    <3> HIDE DEF Fits
    <3> QED BY <3>1
  <2>4. CASE n >= 1000 /\ n < 10000
    <3>1. Fits(4)
      BY <1>1, <2>4
    <3> HIDE DEF Fits
    <3> QED BY <3>1
  <2>5. CASE n >= 10000
    <3>1. Fits(5)
      <4>1. n < 100000 /\ n >= 10000
        BY <1>2, <2>5
      <4>2. PowerOfTen[5 + 1] = 100000 /\ PowerOfTen[5] = 10000
        BY <1>1
      <4> QED BY <4>1, <4>2
    <3> HIDE DEF Fits
    <3> QED BY <3>1
  <2> HIDE DEF Fits
  <2> QED BY <1>2, <2>1, <2>2, <2>3, <2>4, <2>5
<1>4. DigitCount(n) = CHOOSE d \in 1 .. 5 : Fits(d)
  BY DEF DigitCount
<1>5. DigitCount(n) \in 1 .. 5 /\ Fits(DigitCount(n))
  <2> HIDE DEF Fits
  <2> QED BY <1>3, <1>4
<1>6. PICK d \in 1 .. 5 : d = DigitCount(n) /\ Fits(d)
  BY <1>5
<1>7. ASSUME n \in UInt8 PROVE d <= 3
  <2>1. n <= 255
    BY <1>7 DEF UInt8
  <2>2. d # 4 /\ d # 5
    BY <1>1, <1>2, <1>6, <2>1
  <2> QED BY <2>2
<1> QED BY <1>6, <1>7

LEMMA QuotientGrows ==
    ASSUME NEW n \in Nat, NEW q \in Nat, q > 0
    PROVE  10 * (n \div (10 * q)) + ((n \div q) % 10) = n \div q
  BY SMT

\* A number's digits spell it, in as many as it needs.
LEMMA DecimalIs ==
    ASSUME NEW n \in UInt16
    PROVE  /\ Decimal(n) \in Seq(Digits)
           /\ Len(Decimal(n)) \in 1 .. 5
           /\ n \in UInt8 => Len(Decimal(n)) <= 3
           /\ NumberOf(Decimal(n)) = n
<1>1. PICK d \in 1 .. 5 : /\ d = DigitCount(n) /\ n < PowerOfTen[d + 1]
                          /\ n \in UInt8 => d <= 3
  BY DigitCountIs
<1>2. n \in Nat
  BY DEF UInt16
<1> DEFINE digit(i) == ((n \div PowerOfTen[d - i + 1]) % 10)
<1>3. PICK text : text = [i \in 1 .. d |-> DigitName[digit(i) + 1]]
  OBVIOUS
<1>4. Decimal(n) = text
  BY <1>1, <1>3 DEF Decimal
<1>5. ASSUME NEW i \in 1 .. d PROVE digit(i) \in 0 .. 9
  <2>1. d - i + 1 \in 1 .. 5
    BY <1>5
  <2>2. PICK q \in Nat \ {0} : q = PowerOfTen[d - i + 1]
    BY <2>1, Powers
  <2>3. (n \div q) % 10 \in 0 .. 9
    BY <1>2
  <2> QED BY <2>2, <2>3
<1> HIDE DEF digit
<1>6. ASSUME NEW i \in 1 .. d PROVE text[i] \in Digits /\ DigitValue(text[i]) = digit(i)
  <2>1. text[i] = DigitName[digit(i) + 1]
    BY <1>3
  <2> QED BY <1>5, <2>1, ValueOfDigit
<1>7. text \in Seq(Digits) /\ Len(text) = d
  BY <1>3, <1>6
<1>8. /\ Spelled(text)[0] = 0
      /\ \A i \in 1 .. d : Spelled(text)[i] = 10 * Spelled(text)[i - 1] + DigitValue(text[i])
  BY <1>7, SpelledEquation
<1> DEFINE S == {i \in Nat : Spelled(text)[i] = n \div PowerOfTen[d - i + 1]}
<1>9. 0 \in S
  <2>1. d - 0 + 1 = d + 1
    OBVIOUS
  <2>2. PICK q \in Nat : q = PowerOfTen[d + 1] /\ n < q
    BY <1>1, Powers
  <2>3. n \div q = 0
    BY <1>2, <2>2
  <2> QED BY <1>8, <2>1, <2>2, <2>3
<1>10. ASSUME NEW i \in 0 .. d, i < d, i \in S PROVE i + 1 \in S
  <2>1. /\ i + 1 \in 1 .. d /\ (i + 1) - 1 = i /\ d - (i + 1) + 1 = d - i /\ i + 1 \in Nat
        /\ d - i \in 1 .. 5 /\ d - i + 1 = (d - i) + 1
    BY <1>10
  <2>2. PICK q \in Nat : q > 0 /\ q = PowerOfTen[d - i] /\ 10 * q = PowerOfTen[d - i + 1]
    BY <2>1, Powers
  <2>3. Spelled(text)[i + 1] = 10 * Spelled(text)[i] + DigitValue(text[i + 1])
    BY <1>8, <2>1
  <2>4. DigitValue(text[i + 1]) = (n \div q) % 10
    BY <1>6, <2>1, <2>2 DEF digit
  <2>5. Spelled(text)[i] = n \div (10 * q)
    BY <1>10, <2>2
  <2>6. 10 * (n \div (10 * q)) + ((n \div q) % 10) = n \div q
    BY <1>2, <2>2, QuotientGrows
  <2>7. Spelled(text)[i + 1] = n \div PowerOfTen[d - (i + 1) + 1]
    BY <2>1, <2>2, <2>3, <2>4, <2>5, <2>6, Zenon
  <2> QED BY <2>1, <2>7
<1>11. \A i \in 0 .. d : i \in S
  <2> HIDE DEF S
  <2> QED BY <1>9, <1>10, SetInduction
<1>12. Spelled(text)[d] = n
  <2>1. d \in S /\ d - d + 1 = 1
    BY <1>11
  <2>2. n \div 1 = n
    BY <1>2
  <2> QED BY <2>1, <2>2, Powers
<1> QED BY <1>1, <1>4, <1>7, <1>12 DEF NumberOf
---------------------------------------------------------------------------
(* The host's lines, one field after the other.                            *)

\* What follows before: a field and its delimiter.
Joined(before, field) == (before \o field) \o <<kDelimiter>>

\* Sequences of T that may be fields: no delimiter is in them.
Fields(T) == {field \in Seq(T) : \A i \in 1 .. Len(field) : field[i] # kDelimiter}

Begins(text, before) ==
    /\ Len(before) <= Len(text)
    /\ \A i \in 1 .. Len(before) : text[i] = before[i]

\* What stands where in all when it is before, field and a delimiter.
JoinedFrom(all, before, field) ==
    /\ Len(before) \in Nat /\ Len(field) \in Nat
    /\ Len(all) = Len(before) + Len(field) + 1
    /\ \A i \in 1 .. Len(before) : all[i] = before[i]
    /\ \A i \in 1 .. Len(field) : all[Len(before) + i] = field[i]
    /\ all[Len(before) + Len(field) + 1] = kDelimiter

LEMMA JoinedIs ==
    ASSUME NEW T, kDelimiter \in T, NEW before \in Seq(T), NEW field \in Seq(T)
    PROVE  /\ Joined(before, field) \in Seq(T)
           /\ JoinedFrom(Joined(before, field), before, field)
<1>1. PICK b \in Nat, n \in Nat : b = Len(before) /\ n = Len(field)
  BY LenProperties
<1>2. PICK both : both = before \o field
  OBVIOUS
<1>3. /\ both \in Seq(T) /\ Len(both) = b + n
      /\ \A i \in 1 .. b + n : both[i] = IF i <= b THEN before[i] ELSE field[i - b]
  BY <1>1, <1>2, ConcatProperties
<1>4. <<kDelimiter>> \in Seq(T) /\ Len(<<kDelimiter>>) = 1 /\ <<kDelimiter>>[1] = kDelimiter
  OBVIOUS
<1>5. PICK all : all = Joined(before, field)
  OBVIOUS
<1>6. /\ all \in Seq(T) /\ Len(all) = (b + n) + 1
      /\ \A i \in 1 .. (b + n) + 1 : all[i] = IF i <= b + n THEN both[i]
                                              ELSE <<kDelimiter>>[i - (b + n)]
  <2>1. all = both \o <<kDelimiter>>
    BY <1>2, <1>5 DEF Joined
  <2>2. /\ all \in Seq(T) /\ Len(all) = Len(both) + Len(<<kDelimiter>>)
        /\ \A i \in 1 .. Len(both) + Len(<<kDelimiter>>) :
              all[i] = IF i <= Len(both) THEN both[i] ELSE <<kDelimiter>>[i - Len(both)]
    BY <1>4, <1>3, <2>1, ConcatProperties
  <2> QED BY <1>4, <1>3, <2>2
<1>7. ASSUME NEW i \in 1 .. b PROVE all[i] = before[i]
  <2>1. i \in 1 .. b + n /\ i \in 1 .. (b + n) + 1 /\ i <= b /\ i <= b + n
    OBVIOUS
  <2> QED BY <1>3, <1>6, <2>1
<1>8. ASSUME NEW i \in 1 .. n PROVE all[b + i] = field[i]
  <2>1. /\ b + i \in 1 .. b + n /\ b + i \in 1 .. (b + n) + 1 /\ ~(b + i <= b)
        /\ b + i <= b + n /\ (b + i) - b = i
    OBVIOUS
  <2> QED BY <1>3, <1>6, <2>1
<1>9. all[b + n + 1] = kDelimiter
  <2>1. /\ b + n + 1 \in 1 .. (b + n) + 1 /\ ~(b + n + 1 <= b + n)
        /\ (b + n + 1) - (b + n) = 1
    OBVIOUS
  <2> QED BY <1>4, <1>6, <2>1
<1>10. JoinedFrom(all, before, field)
  BY <1>1, <1>7, <1>8, <1>9, <1>6 DEF JoinedFrom
<1> QED BY <1>5, <1>6, <1>10

\* The field behind a beginning of the text is found where it is.
LEMMA FieldFound ==
    ASSUME NEW T, kDelimiter \in T, NEW before \in Seq(T), NEW field \in Fields(T),
           NEW text \in Seq(T), Closed(text), Begins(text, Joined(before, field))
    PROVE  /\ Begins(text, before)
           /\ FieldEnd(text, Len(before)) = Len(Joined(before, field))
           /\ SubSeq(text, Len(before) + 1, Len(Joined(before, field)) - 1) = field
<1>0. field \in Seq(T) /\ \A i \in 1 .. Len(field) : field[i] # kDelimiter
  BY DEF Fields
<1>a. PICK b \in Nat, n \in Nat : b = Len(before) /\ n = Len(field)
  BY <1>0, LenProperties
<1>b. PICK all : all = Joined(before, field)
  OBVIOUS
<1>1. /\ all \in Seq(T) /\ all = Joined(before, field)
      /\ b = Len(before) /\ n = Len(field)
      /\ Len(all) = b + n + 1
      /\ \A i \in 1 .. b : all[i] = before[i]
      /\ \A i \in 1 .. n : all[b + i] = field[i]
      /\ all[b + n + 1] = kDelimiter
  <2>1. all \in Seq(T) /\ JoinedFrom(all, before, field)
    BY <1>0, <1>b, JoinedIs
  <2> QED BY <1>a, <1>b, <2>1 DEF JoinedFrom
<1>2. PICK L \in Nat : L = Len(text) /\ b + n + 1 <= L
  BY <1>1, LenProperties DEF Begins
<1>3. \A i \in 1 .. b + n + 1 : text[i] = all[i]
  BY <1>1 DEF Begins
<1>4. Begins(text, before)
  <2>1. \A i \in 1 .. b : i \in 1 .. b + n + 1
    OBVIOUS
  <2>2. \A i \in 1 .. b : text[i] = before[i]
    BY <1>1, <1>3, <2>1
  <2>3. b <= L
    BY <1>2
  <2> QED BY <1>1, <1>2, <2>2, <2>3 DEF Begins
<1>5. \A i \in 1 .. n : text[b + i] = field[i] /\ field[i] # kDelimiter
  <2>1. \A i \in 1 .. n : b + i \in 1 .. b + n + 1
    OBVIOUS
  <2> QED BY <1>0, <1>1, <1>3, <2>1
<1>6. text[b + n + 1] = kDelimiter
  <2>1. b + n + 1 \in 1 .. b + n + 1
    OBVIOUS
  <2> QED BY <1>1, <1>3, <2>1
<1>7. FieldEnd(text, b) = b + n + 1
  <2>1. b \in 0 .. L /\ b < L
    BY <1>2
  <2>2. PICK e \in b + 1 .. L : /\ e = FieldEnd(text, b) /\ text[e] = kDelimiter
                                /\ \A d \in b + 1 .. e - 1 : text[d] # kDelimiter
    BY <1>2, <2>1, FieldEndIs
  <2>3. ~(e < b + n + 1)
    <3> SUFFICES ASSUME e < b + n + 1 PROVE FALSE
      OBVIOUS
    <3>1. e - b \in 1 .. n /\ b + (e - b) = e
      OBVIOUS
    <3> QED BY <1>5, <2>2, <3>1
  <2>4. ~(e > b + n + 1)
    <3> SUFFICES ASSUME e > b + n + 1 PROVE FALSE
      OBVIOUS
    <3>1. b + n + 1 \in b + 1 .. e - 1
      OBVIOUS
    <3> QED BY <1>6, <2>2, <3>1
  <2> QED BY <2>2, <2>3, <2>4
<1>8. SubSeq(text, b + 1, b + n) = field
  <2>1. b + n \in Nat /\ b <= b + n /\ b + n <= L /\ (b + n) - b = n
    BY <1>2
  <2>4. PICK part : part = SubSeq(text, b + 1, b + n)
    OBVIOUS
  <2>2. part \in Seq(T) /\ Len(part) = n /\ \A j \in 1 .. n : part[j] = text[b + j]
    BY <1>1, <1>2, <2>1, <2>4, Part
  <2>3. \A j \in 1 .. Len(part) : part[j] = field[j]
    BY <1>5, <2>2
  <2>5. part \in Seq(T) /\ field \in Seq(T) /\ Len(part) = Len(field)
    BY <1>0, <1>1, <2>2
  <2>6. part = field
    BY <2>3, <2>5, SeqEqual
  <2> QED BY <2>4, <2>6
<1>9. (b + n + 1) - 1 = b + n
  BY <1>1
<1> QED BY <1>1, <1>4, <1>7, <1>8, <1>9

\* Six fields, each with its delimiter.
Six(f1, f2, f3, f4, f5, f6) ==
    Joined(Joined(Joined(Joined(Joined(Joined(<<>>, f1), f2), f3), f4), f5), f6)

\* The text has just these six fields.
HasFields(text, f1, f2, f3, f4, f5, f6) ==
    /\ Len(text) = Len(f1) + Len(f2) + Len(f3) + Len(f4) + Len(f5) + Len(f6) + 6
    /\ Cuts(text)[6] = Len(text)
    /\ Field(text, 1) = f1 /\ Field(text, 2) = f2 /\ Field(text, 3) = f3
    /\ Field(text, 4) = f4 /\ Field(text, 5) = f5 /\ Field(text, 6) = f6

\* The six fields of a text are the fields it was joined from.
LEMMA SixFields ==
    ASSUME NEW T, kDelimiter \in T, NEW f1 \in Fields(T), NEW f2 \in Fields(T),
           NEW f3 \in Fields(T), NEW f4 \in Fields(T), NEW f5 \in Fields(T),
           NEW f6 \in Fields(T), NEW text, text = Six(f1, f2, f3, f4, f5, f6)
    PROVE  HasFields(text, f1, f2, f3, f4, f5, f6)
<1>0. /\ f1 \in Seq(T) /\ f2 \in Seq(T) /\ f3 \in Seq(T)
      /\ f4 \in Seq(T) /\ f5 \in Seq(T) /\ f6 \in Seq(T)
  BY DEF Fields
<1>1. PICK t0 : t0 = <<>>
  OBVIOUS
<1>2. t0 \in Seq(T) /\ Len(t0) = 0
  BY <1>1, EmptySeq
<1>3. PICK t1 : t1 = Joined(t0, f1)
  OBVIOUS
<1>t1. /\ t1 \in Seq(T) /\ Len(t1) = Len(t0) + Len(f1) + 1
  BY <1>0, <1>2, <1>3, JoinedIs DEF JoinedFrom
<1>4. PICK t2 : t2 = Joined(t1, f2)
  OBVIOUS
<1>t2. /\ t2 \in Seq(T) /\ Len(t2) = Len(t1) + Len(f2) + 1
  BY <1>0, <1>t1, <1>4, JoinedIs DEF JoinedFrom
<1>5. PICK t3 : t3 = Joined(t2, f3)
  OBVIOUS
<1>t3. /\ t3 \in Seq(T) /\ Len(t3) = Len(t2) + Len(f3) + 1
  BY <1>0, <1>t2, <1>5, JoinedIs DEF JoinedFrom
<1>6. PICK t4 : t4 = Joined(t3, f4)
  OBVIOUS
<1>t4. /\ t4 \in Seq(T) /\ Len(t4) = Len(t3) + Len(f4) + 1
  BY <1>0, <1>t3, <1>6, JoinedIs DEF JoinedFrom
<1>7. PICK t5 : t5 = Joined(t4, f5)
  OBVIOUS
<1>t5. /\ t5 \in Seq(T) /\ Len(t5) = Len(t4) + Len(f5) + 1
  BY <1>0, <1>t4, <1>7, JoinedIs DEF JoinedFrom
<1>8. PICK t6 : t6 = Joined(t5, f6)
  OBVIOUS
<1>t6. /\ t6 \in Seq(T) /\ Len(t6) = Len(t5) + Len(f6) + 1
        /\ t6[Len(t5) + Len(f6) + 1] = kDelimiter
  BY <1>0, <1>t5, <1>8, JoinedIs DEF JoinedFrom
<1>9. text = t6
  BY <1>1, <1>3, <1>4, <1>5, <1>6, <1>7, <1>8 DEF Six
<1>10. Closed(t6)
  <2>1. Len(t5) \in Nat /\ Len(f6) \in Nat
    BY <1>0, <1>t5, LenProperties
  <2> QED BY <1>t6, <2>1 DEF Closed
<1>11. Begins(t6, t6)
  <2>1. Len(t6) \in Nat
    BY <1>t6, LenProperties
  <2> QED BY <2>1 DEF Begins
<1>12. /\ Begins(t6, t5) /\ FieldEnd(t6, Len(t5)) = Len(t6)
       /\ SubSeq(t6, Len(t5) + 1, Len(t6) - 1) = f6
  <2>1. Begins(t6, Joined(t5, f6)) /\ Closed(t6) /\ t6 \in Seq(T) /\ t5 \in Seq(T)
    BY <1>8, <1>10, <1>11, <1>t6, <1>t5
  <2> QED BY <1>8, <2>1, FieldFound
<1>13. /\ Begins(t6, t4) /\ FieldEnd(t6, Len(t4)) = Len(t5)
       /\ SubSeq(t6, Len(t4) + 1, Len(t5) - 1) = f5
  <2>1. Begins(t6, Joined(t4, f5)) /\ Closed(t6) /\ t6 \in Seq(T) /\ t4 \in Seq(T)
    BY <1>7, <1>10, <1>12, <1>t6, <1>t4
  <2> QED BY <1>7, <2>1, FieldFound
<1>14. /\ Begins(t6, t3) /\ FieldEnd(t6, Len(t3)) = Len(t4)
       /\ SubSeq(t6, Len(t3) + 1, Len(t4) - 1) = f4
  <2>1. Begins(t6, Joined(t3, f4)) /\ Closed(t6) /\ t6 \in Seq(T) /\ t3 \in Seq(T)
    BY <1>6, <1>10, <1>13, <1>t6, <1>t3
  <2> QED BY <1>6, <2>1, FieldFound
<1>15. /\ Begins(t6, t2) /\ FieldEnd(t6, Len(t2)) = Len(t3)
       /\ SubSeq(t6, Len(t2) + 1, Len(t3) - 1) = f3
  <2>1. Begins(t6, Joined(t2, f3)) /\ Closed(t6) /\ t6 \in Seq(T) /\ t2 \in Seq(T)
    BY <1>5, <1>10, <1>14, <1>t6, <1>t2
  <2> QED BY <1>5, <2>1, FieldFound
<1>16. /\ Begins(t6, t1) /\ FieldEnd(t6, Len(t1)) = Len(t2)
       /\ SubSeq(t6, Len(t1) + 1, Len(t2) - 1) = f2
  <2>1. Begins(t6, Joined(t1, f2)) /\ Closed(t6) /\ t6 \in Seq(T) /\ t1 \in Seq(T)
    BY <1>4, <1>10, <1>15, <1>t6, <1>t1
  <2> QED BY <1>4, <2>1, FieldFound
<1>17. /\ FieldEnd(t6, Len(t0)) = Len(t1)
       /\ SubSeq(t6, Len(t0) + 1, Len(t1) - 1) = f1
  <2>1. Begins(t6, Joined(t0, f1)) /\ Closed(t6) /\ t6 \in Seq(T) /\ t0 \in Seq(T)
    BY <1>3, <1>10, <1>16, <1>t6, <1>2
  <2> QED BY <1>3, <2>1, FieldFound
<1>18. /\ Cuts(t6)[0] = 0
       /\ Cuts(t6)[1] = FieldEnd(t6, Cuts(t6)[0]) /\ Cuts(t6)[2] = FieldEnd(t6, Cuts(t6)[1])
       /\ Cuts(t6)[3] = FieldEnd(t6, Cuts(t6)[2]) /\ Cuts(t6)[4] = FieldEnd(t6, Cuts(t6)[3])
       /\ Cuts(t6)[5] = FieldEnd(t6, Cuts(t6)[4]) /\ Cuts(t6)[6] = FieldEnd(t6, Cuts(t6)[5])
  <2>1. /\ Cuts(t6)[0] = 0
        /\ \A n \in 1 .. 6 : Cuts(t6)[n] = FieldEnd(t6, Cuts(t6)[n - 1])
    BY CutsEquation
  <2> QED BY <2>1
<1>19. /\ Cuts(t6)[0] = Len(t0) /\ Cuts(t6)[1] = Len(t1) /\ Cuts(t6)[2] = Len(t2)
       /\ Cuts(t6)[3] = Len(t3) /\ Cuts(t6)[4] = Len(t4) /\ Cuts(t6)[5] = Len(t5)
       /\ Cuts(t6)[6] = Len(t6)
  BY <1>2, <1>12, <1>13, <1>14, <1>15, <1>16, <1>17, <1>18
<1>20. /\ Field(t6, 1) = f1 /\ Field(t6, 2) = f2 /\ Field(t6, 3) = f3
       /\ Field(t6, 4) = f4 /\ Field(t6, 5) = f5 /\ Field(t6, 6) = f6
  <2>1. /\ Field(t6, 1) = SubSeq(t6, Cuts(t6)[0] + 1, Cuts(t6)[1] - 1)
        /\ Field(t6, 2) = SubSeq(t6, Cuts(t6)[1] + 1, Cuts(t6)[2] - 1)
        /\ Field(t6, 3) = SubSeq(t6, Cuts(t6)[2] + 1, Cuts(t6)[3] - 1)
        /\ Field(t6, 4) = SubSeq(t6, Cuts(t6)[3] + 1, Cuts(t6)[4] - 1)
        /\ Field(t6, 5) = SubSeq(t6, Cuts(t6)[4] + 1, Cuts(t6)[5] - 1)
        /\ Field(t6, 6) = SubSeq(t6, Cuts(t6)[5] + 1, Cuts(t6)[6] - 1)
    BY DEF Field
  <2> QED BY <1>12, <1>13, <1>14, <1>15, <1>16, <1>17, <1>19, <2>1
<1>21. Len(t6) = Len(f1) + Len(f2) + Len(f3) + Len(f4) + Len(f5) + Len(f6) + 6
  <2>1. /\ Len(f1) \in Nat /\ Len(f2) \in Nat /\ Len(f3) \in Nat
        /\ Len(f4) \in Nat /\ Len(f5) \in Nat /\ Len(f6) \in Nat
    BY <1>0, LenProperties
  <2> QED BY <1>2, <1>t1, <1>t2, <1>t3, <1>t4, <1>t5, <1>t6, <2>1
<1> QED BY <1>9, <1>19, <1>20, <1>21 DEF HasFields
---------------------------------------------------------------------------
(* The host's requests.                                                    *)

\* The characters of a host's payload.
HostChar == Digits \cup {"R", "W", "B", "D", "A", "S", "G", "L", "H", kDelimiter}

LEMMA DigitCharacters ==
    \A c \in Digits : c \in {"0", "1", "2", "3", "4", "5", "6", "7", "8", "9"}
<1> SUFFICES ASSUME NEW n \in 1 .. 10
             PROVE  DigitName[n] \in {"0", "1", "2", "3", "4", "5", "6", "7", "8", "9"}
  BY DEF Digits
<1>1. n = 1 \/ n = 2 \/ n = 3 \/ n = 4 \/ n = 5 \/ n = 6 \/ n = 7 \/ n = 8 \/ n = 9
      \/ n = 10
  OBVIOUS
<1> QED BY <1>1 DEF DigitName

LEMMA HostChars == \A c \in HostChar : PayloadByte(c)
  BY DigitCharacters DEF HostChar, PayloadByte, Byte, kStartFrame, kEndFrame, kDelimiter, kEndLine,
     CarriageReturn

\* A field of one letter.
LEMMA OneLetter ==
    ASSUME NEW T, NEW c \in T, c # kDelimiter
    PROVE  <<c>> \in Fields(T) /\ Len(<<c>>) = 1 /\ <<c>>[1] = c
<1>1. <<c>> \in Seq(T) /\ Len(<<c>>) = 1 /\ <<c>>[1] = c
  OBVIOUS
<1>2. \A i \in 1 .. 1 : <<c>>[i] # kDelimiter
  BY <1>1
<1> QED BY <1>1, <1>2 DEF Fields

LEMMA DigitsAreNoDelimiter == kDelimiter \notin Digits
  BY DigitCharacters DEF kDelimiter

\* A number as a field: good wherever the number is within the limit.
LEMMA NumberField ==
    ASSUME NEW n \in UInt16, NEW name, ~IsCode(name), n <= NumberLimit(name)
    PROVE  /\ Decimal(n) \in Fields(HostChar)
           /\ Len(Decimal(n)) \in 1 .. 5
           /\ n \in UInt8 => Len(Decimal(n)) <= 3
           /\ GoodField(name, Decimal(n))
           /\ ValueOf(name, Decimal(n)) = n
<1>1. PICK text : text = Decimal(n)
  OBVIOUS
<1>2. /\ text \in Seq(Digits) /\ Len(text) \in 1 .. 5 /\ NumberOf(text) = n
      /\ n \in UInt8 => Len(text) <= 3
  BY <1>1, DecimalIs
<1>3. \A i \in 1 .. Len(text) : text[i] \in Digits
  BY <1>2, ElementOfSeq
<1>4. text \in Fields(HostChar)
  <2>1. Digits \subseteq HostChar
    BY DEF HostChar
  <2>2. text \in Seq(HostChar)
    BY <1>2, <2>1, SeqMonotonic
  <2> QED BY <1>3, <2>2, DigitsAreNoDelimiter DEF Fields
<1>5. GoodField(name, text)
  <2>1. text # <<>>
    <3>1. Len(<<>>) = 0
      BY EmptySeq
    <3> QED BY <1>2, <3>1
  <2>2. DOMAIN text = 1 .. Len(text)
    BY <1>2, LenProperties
  <2> QED BY <1>2, <1>3, <2>1, <2>2 DEF GoodField
<1>6. ValueOf(name, text) = n
  BY <1>2 DEF ValueOf
<1> QED BY <1>1, <1>2, <1>4, <1>5, <1>6

\* A letter as a field: good for its place and read back as what it stands for.
LEMMA LetterField ==
    ASSUME NEW name, NEW code,
           \/ name = "type" /\ code \in FrameType
           \/ name = "pin_type" /\ code \in PinType
           \/ name = "priority" /\ code \in Priority
    PROVE  /\ <<Letter[code]>> \in Fields(HostChar)
           /\ Len(<<Letter[code]>>) = 1
           /\ GoodField(name, <<Letter[code]>>)
           /\ ValueOf(name, <<Letter[code]>>) = code
<1>1. IsCode(name)
  BY DEF IsCode
<1>2. PICK c : c = Letter[code]
  OBVIOUS
<1>3. /\ Letter["kRead"] = "R" /\ Letter["kWrite"] = "W" /\ Letter["kDebug"] = "B"
      /\ Letter["kDigital"] = "D" /\ Letter["kAnalog"] = "A" /\ Letter["kServo"] = "S"
      /\ Letter["kMCP4725"] = "G" /\ Letter["kLow"] = "L" /\ Letter["kHigh"] = "H"
  BY DEF Letter
<1>4. CASE name = "type" /\ code \in FrameType
  <2>1. code = "kRead" \/ code = "kWrite" \/ code = "kDebug"
    BY <1>4 DEF FrameType
  <2>2. c \in {"R", "W", "B"}
    BY <1>2, <1>3, <2>1
  <2>3. CodeOf(name, c) = code
    BY <1>2, <1>3, <1>4, <2>1 DEF CodeOf
  <2>4. c \in HostChar /\ c # kDelimiter /\ code # "kNone"
    BY <2>1, <2>2 DEF HostChar, kDelimiter
  <2>5. <<c>> \in Fields(HostChar) /\ Len(<<c>>) = 1 /\ <<c>>[1] = c
    BY <2>4, OneLetter
  <2> QED BY <1>1, <1>2, <2>3, <2>4, <2>5 DEF GoodField, ValueOf
<1>5. CASE name = "pin_type" /\ code \in PinType
  <2>1. code = "kDigital" \/ code = "kAnalog" \/ code = "kServo" \/ code = "kMCP4725"
    BY <1>5 DEF PinType
  <2>2. c \in {"D", "A", "S", "G"}
    BY <1>2, <1>3, <2>1
  <2>3. CodeOf(name, c) = code
    BY <1>2, <1>3, <1>5, <2>1 DEF CodeOf
  <2>4. c \in HostChar /\ c # kDelimiter /\ code # "kNone"
    BY <2>1, <2>2 DEF HostChar, kDelimiter
  <2>5. <<c>> \in Fields(HostChar) /\ Len(<<c>>) = 1 /\ <<c>>[1] = c
    BY <2>4, OneLetter
  <2> QED BY <1>1, <1>2, <2>3, <2>4, <2>5 DEF GoodField, ValueOf
<1>6. CASE name = "priority" /\ code \in Priority
  <2>1. code = "kLow" \/ code = "kHigh"
    BY <1>6 DEF Priority
  <2>2. c \in {"L", "H"}
    BY <1>2, <1>3, <2>1
  <2>3. CodeOf(name, c) = code
    BY <1>2, <1>3, <1>6, <2>1 DEF CodeOf
  <2>4. c \in HostChar /\ c # kDelimiter /\ code # "kNone"
    BY <2>1, <2>2 DEF HostChar, kDelimiter
  <2>5. <<c>> \in Fields(HostChar) /\ Len(<<c>>) = 1 /\ <<c>>[1] = c
    BY <2>4, OneLetter
  <2> QED BY <1>1, <1>2, <2>3, <2>4, <2>5 DEF GoodField, ValueOf
<1> QED BY <1>4, <1>5, <1>6

LEMMA Limits ==
    /\ ~IsCode("request_id") /\ ~IsCode("pin_number") /\ ~IsCode("value")
    /\ \A n \in UInt16 : n <= NumberLimit("request_id") /\ n <= NumberLimit("value")
    /\ \A n \in UInt8 : n <= NumberLimit("pin_number") /\ n \in UInt16
<1>1. ~IsCode("request_id") /\ ~IsCode("pin_number") /\ ~IsCode("value")
  BY DEF IsCode
<1>2. /\ NumberLimit("request_id") = 65535 /\ NumberLimit("value") = 65535
      /\ NumberLimit("pin_number") = 255
  BY DEF NumberLimit
<1>3. \A n \in UInt16 : n <= 65535
  BY DEF UInt16
<1>4. \A n \in UInt8 : n <= 255 /\ n \in UInt16
  BY DEF UInt8, UInt16
<1> QED BY <1>1, <1>2, <1>3, <1>4

\* The host's payload of a request the firmware serves fits the parser's
\* buffer, and what it spells is the request.
LEMMA HostPayloadIs ==
    ASSUME NEW frame \in RequestFrame(UInt16, UInt8, UInt16),
           IsValidRequest(frame.type, frame.pin_type)
    PROVE  /\ HostPayload(frame) \in Seq(HostChar)
           /\ Len(HostPayload(frame)) <= kRequestFramePayloadMaxChars
           /\ ReferenceFrame(HostPayload(frame)) = {frame}
<1>1. /\ frame.request_id \in UInt16 /\ frame.pin_number \in UInt8 /\ frame.value \in UInt16
      /\ frame.type \in FrameType /\ frame.pin_type \in PinType
      /\ frame.priority \in Priority
      /\ frame = [request_id |-> frame.request_id, value |-> frame.value,
                  type |-> frame.type, priority |-> frame.priority,
                  pin_type |-> frame.pin_type, pin_number |-> frame.pin_number]
  BY DEF RequestFrame
<1>2. PICK f1, f2, f3, f4, f5, f6 :
         /\ f1 = <<Letter[frame.type]>> /\ f2 = Decimal(frame.request_id)
         /\ f3 = <<Letter[frame.pin_type]>> /\ f4 = <<Letter[frame.priority]>>
         /\ f5 = Decimal(frame.pin_number) /\ f6 = Decimal(frame.value)
  OBVIOUS
<1>3. /\ f1 \in Fields(HostChar) /\ Len(f1) = 1
      /\ GoodField("type", f1) /\ ValueOf("type", f1) = frame.type
  BY <1>1, <1>2, LetterField
<1>4. /\ f2 \in Fields(HostChar) /\ Len(f2) \in 1 .. 5
      /\ GoodField("request_id", f2) /\ ValueOf("request_id", f2) = frame.request_id
  <2>1. ~IsCode("request_id") /\ frame.request_id <= NumberLimit("request_id")
    BY <1>1, Limits
  <2> QED BY <1>1, <1>2, <2>1, NumberField
<1>5. /\ f3 \in Fields(HostChar) /\ Len(f3) = 1
      /\ GoodField("pin_type", f3) /\ ValueOf("pin_type", f3) = frame.pin_type
  BY <1>1, <1>2, LetterField
<1>6. /\ f4 \in Fields(HostChar) /\ Len(f4) = 1
      /\ GoodField("priority", f4) /\ ValueOf("priority", f4) = frame.priority
  BY <1>1, <1>2, LetterField
<1>7. /\ f5 \in Fields(HostChar) /\ Len(f5) \in 1 .. 3
      /\ GoodField("pin_number", f5) /\ ValueOf("pin_number", f5) = frame.pin_number
  <2>1. ~IsCode("pin_number") /\ frame.pin_number <= NumberLimit("pin_number")
    BY <1>1, Limits
  <2>2. frame.pin_number \in UInt16
    BY <1>1, Limits
  <2>3. /\ f5 \in Fields(HostChar) /\ Len(f5) \in 1 .. 5 /\ Len(f5) <= 3
        /\ GoodField("pin_number", f5) /\ ValueOf("pin_number", f5) = frame.pin_number
    BY <1>1, <1>2, <2>1, <2>2, NumberField
  <2> QED BY <2>3
<1>8. /\ f6 \in Fields(HostChar) /\ Len(f6) \in 1 .. 5
      /\ GoodField("value", f6) /\ ValueOf("value", f6) = frame.value
  <2>1. ~IsCode("value") /\ frame.value <= NumberLimit("value")
    BY <1>1, Limits
  <2> QED BY <1>1, <1>2, <2>1, NumberField
<1>9. PICK payload : payload = HostPayload(frame)
  OBVIOUS
<1>10. PICK text : text = Append(payload, kDelimiter)
  OBVIOUS
<1>11. kDelimiter \in HostChar
  BY DEF HostChar
<1>12. payload \in Seq(HostChar) /\ text = Six(f1, f2, f3, f4, f5, f6)
  <2>1. /\ f1 \in Seq(HostChar) /\ f2 \in Seq(HostChar) /\ f3 \in Seq(HostChar)
        /\ f4 \in Seq(HostChar) /\ f5 \in Seq(HostChar) /\ f6 \in Seq(HostChar)
    BY <1>3, <1>4, <1>5, <1>6, <1>7, <1>8 DEF Fields
  <2>2. PICK t5 : t5 = Joined(Joined(Joined(Joined(Joined(<<>>, f1), f2), f3), f4), f5)
    OBVIOUS
  <2>3. t5 \in Seq(HostChar)
    <3>0. <<>> \in Seq(HostChar)
      BY EmptySeq
    <3>1. Joined(<<>>, f1) \in Seq(HostChar)
      BY <1>11, <2>1, <3>0, JoinedIs
    <3>2. Joined(Joined(<<>>, f1), f2) \in Seq(HostChar)
      BY <1>11, <2>1, <3>1, JoinedIs
    <3>3. Joined(Joined(Joined(<<>>, f1), f2), f3) \in Seq(HostChar)
      BY <1>11, <2>1, <3>2, JoinedIs
    <3>4. Joined(Joined(Joined(Joined(<<>>, f1), f2), f3), f4) \in Seq(HostChar)
      BY <1>11, <2>1, <3>3, JoinedIs
    <3> QED BY <1>11, <2>1, <2>2, <3>4, JoinedIs
  <2>4. payload = t5 \o f6
    <3>1. <<>> \o f1 = f1
      BY <2>1, ConcatEmptySeq
    <3>2. payload = f1 \o <<kDelimiter>> \o f2 \o <<kDelimiter>> \o f3 \o <<kDelimiter>>
                      \o f4 \o <<kDelimiter>> \o f5 \o <<kDelimiter>> \o f6
      BY <1>2, <1>9 DEF HostPayload, kDelimiter
    <3>3. t5 = f1 \o <<kDelimiter>> \o f2 \o <<kDelimiter>> \o f3 \o <<kDelimiter>>
                 \o f4 \o <<kDelimiter>> \o f5 \o <<kDelimiter>>
      BY <2>2, <3>1, Zenon DEF Joined
    <3> QED BY <3>2, <3>3, Zenon
  <2>5. payload \in Seq(HostChar)
    BY <2>1, <2>3, <2>4, ConcatProperties
  <2>6. text = payload \o <<kDelimiter>>
    BY <1>10, <1>11, <2>5, AppendIsConcat
  <2>7. Six(f1, f2, f3, f4, f5, f6) = (t5 \o f6) \o <<kDelimiter>>
    BY <2>2 DEF Six, Joined
  <2> QED BY <2>4, <2>5, <2>6, <2>7
<1>13. /\ Len(text) = Len(f1) + Len(f2) + Len(f3) + Len(f4) + Len(f5) + Len(f6) + 6
       /\ Cuts(text)[6] = Len(text)
       /\ Field(text, 1) = f1 /\ Field(text, 2) = f2 /\ Field(text, 3) = f3
       /\ Field(text, 4) = f4 /\ Field(text, 5) = f5 /\ Field(text, 6) = f6
  <2>1. /\ f1 \in Fields(HostChar) /\ f2 \in Fields(HostChar) /\ f3 \in Fields(HostChar)
        /\ f4 \in Fields(HostChar) /\ f5 \in Fields(HostChar) /\ f6 \in Fields(HostChar)
    BY <1>3, <1>4, <1>5, <1>6, <1>7, <1>8
  <2>2. HasFields(text, f1, f2, f3, f4, f5, f6)
    BY <1>11, <1>12, <2>1, SixFields
  <2> QED BY <2>2, Zenon DEF HasFields
<1>14. Len(payload) <= kRequestFramePayloadMaxChars
  <2>1. Len(text) = Len(payload) + 1 /\ Len(payload) \in Nat
    BY <1>10, <1>11, <1>12, AppendProperties, LenProperties
  <2>2. Len(text) <= 22
    <3>1. /\ Len(f1) = 1 /\ Len(f2) \in 1 .. 5 /\ Len(f3) = 1 /\ Len(f4) = 1
          /\ Len(f5) \in 1 .. 3 /\ Len(f6) \in 1 .. 5
      BY <1>3, <1>4, <1>5, <1>6, <1>7, <1>8
    <3>2. \A a, c \in 1 .. 5 : \A b \in 1 .. 3 : 1 + a + 1 + 1 + b + c + 6 <= 22
      OBVIOUS
    <3>3. Len(text) = 1 + Len(f2) + 1 + 1 + Len(f5) + Len(f6) + 6
      BY <1>13, <3>1, Zenon
    <3>4. 1 + Len(f2) + 1 + 1 + Len(f5) + Len(f6) + 6 <= 22
      BY <3>1, <3>2, Zenon
    <3> QED BY <3>3, <3>4, Zenon
  <2> QED BY <2>1, <2>2 DEF kRequestFramePayloadMaxChars
<1>15. /\ FieldName[1] = "type" /\ FieldName[2] = "request_id" /\ FieldName[3] = "pin_type"
       /\ FieldName[4] = "priority" /\ FieldName[5] = "pin_number" /\ FieldName[6] = "value"
  BY DEF FieldName
<1>16. \A n \in 1 .. 6 : GoodField(FieldName[n], Field(text, n))
  <2> SUFFICES ASSUME NEW n \in 1 .. 6 PROVE GoodField(FieldName[n], Field(text, n))
    OBVIOUS
  <2>1. n = 1 \/ n = 2 \/ n = 3 \/ n = 4 \/ n = 5 \/ n = 6
    OBVIOUS
  <2> QED BY <1>3, <1>4, <1>5, <1>6, <1>7, <1>8, <1>13, <1>15, <2>1
<1>17. /\ ValueOf(FieldName[1], Field(text, 1)) = frame.type
       /\ ValueOf(FieldName[2], Field(text, 2)) = frame.request_id
       /\ ValueOf(FieldName[3], Field(text, 3)) = frame.pin_type
       /\ ValueOf(FieldName[4], Field(text, 4)) = frame.priority
       /\ ValueOf(FieldName[5], Field(text, 5)) = frame.pin_number
       /\ ValueOf(FieldName[6], Field(text, 6)) = frame.value
  BY <1>3, <1>4, <1>5, <1>6, <1>7, <1>8, <1>13, <1>15
<1>18. ReferenceFrame(payload) = {frame}
  <2>1. ReferenceFrame(payload) =
           {[request_id |-> frame.request_id, value |-> frame.value,
             type |-> frame.type, priority |-> frame.priority,
             pin_type |-> frame.pin_type, pin_number |-> frame.pin_number]}
    BY <1>10, <1>13, <1>16, <1>17, Zenon DEF ReferenceFrame, kRequestFrameFieldCount
  <2> QED BY <1>1, <2>1, Zenon
<1> QED BY <1>9, <1>12, <1>14, <1>18

\* The positions of a line around its payload.
LineParts(line, payload, p) ==
    /\ Len(line) = p + 3
    /\ line[1] = kStartFrame /\ line[p + 2] = kEndFrame /\ line[p + 3] = kEndLine
    /\ \A m \in 1 .. p : line[m + 1] = payload[m]

LEMMA LineOfIs ==
    ASSUME NEW T, kStartFrame \in T, kEndFrame \in T, kEndLine \in T,
           NEW payload \in Seq(T), NEW p \in Nat, p = Len(payload)
    PROVE  LineParts(<<"@">> \o payload \o <<";", "LF">>, payload, p)
<1>1. PICK open, end, s1, line :
         /\ open = <<"@">> /\ end = <<";", "LF">> /\ s1 = open \o payload /\ line = s1 \o end
  OBVIOUS
<1>2. /\ open \in Seq(T) /\ Len(open) = 1 /\ open[1] = kStartFrame
      /\ end \in Seq(T) /\ Len(end) = 2 /\ end[1] = kEndFrame /\ end[2] = kEndLine
  <2>1. open = <<kStartFrame>> /\ end = <<kEndFrame, kEndLine>>
    BY <1>1 DEF kStartFrame, kEndFrame, kEndLine
  <2>2. \A c \in T : <<c>> \in Seq(T) /\ Len(<<c>>) = 1 /\ <<c>>[1] = c
    OBVIOUS
  <2>3. \A c, d \in T : /\ <<c, d>> \in Seq(T) /\ Len(<<c, d>>) = 2
                        /\ <<c, d>>[1] = c /\ <<c, d>>[2] = d
    OBVIOUS
  <2> QED BY <2>1, <2>2, <2>3
<1>3. /\ s1 \in Seq(T) /\ Len(s1) = 1 + p
      /\ \A i \in 1 .. 1 + p : s1[i] = IF i <= 1 THEN open[i] ELSE payload[i - 1]
  BY <1>1, <1>2, ConcatProperties
<1>4. /\ Len(line) = (1 + p) + 2
      /\ \A i \in 1 .. (1 + p) + 2 : line[i] = IF i <= 1 + p THEN s1[i] ELSE end[i - (1 + p)]
  <2>1. /\ Len(line) = Len(s1) + Len(end)
        /\ \A i \in 1 .. Len(s1) + Len(end) :
              line[i] = IF i <= Len(s1) THEN s1[i] ELSE end[i - Len(s1)]
    <3>1. s1 \in Seq(T) /\ end \in Seq(T) /\ line = s1 \o end
      BY <1>1, <1>2, <1>3
    <3> QED BY <3>1, ConcatProperties
  <2> QED BY <1>2, <1>3, <2>1
<1>5. line[1] = kStartFrame
  <2>1. 1 \in 1 .. 1 + p /\ 1 \in 1 .. (1 + p) + 2 /\ 1 <= 1 + p
    OBVIOUS
  <2> QED BY <1>2, <1>3, <1>4, <2>1
<1>6. line[p + 2] = kEndFrame /\ line[p + 3] = kEndLine
  <2>1. /\ p + 2 \in 1 .. (1 + p) + 2 /\ ~(p + 2 <= 1 + p) /\ (p + 2) - (1 + p) = 1
        /\ p + 3 \in 1 .. (1 + p) + 2 /\ ~(p + 3 <= 1 + p) /\ (p + 3) - (1 + p) = 2
    OBVIOUS
  <2> QED BY <1>2, <1>4, <2>1
<1>7. ASSUME NEW m \in 1 .. p PROVE line[m + 1] = payload[m]
  <2>1. /\ m + 1 \in 1 .. 1 + p /\ m + 1 \in 1 .. (1 + p) + 2 /\ m + 1 <= 1 + p
        /\ ~(m + 1 <= 1) /\ (m + 1) - 1 = m
    OBVIOUS
  <2> QED BY <1>3, <1>4, <2>1
<1>8. Len(line) = p + 3
  BY <1>4
<1>9. LineParts(line, payload, p)
  BY <1>5, <1>6, <1>7, <1>8 DEF LineParts
<1> QED BY <1>1, <1>9

\* When the bytes end with a line, they have it as a line, with its payload.
LEMMA LineFound ==
    ASSUME consumed \in Seq(STRING), NEW payload \in Seq(HostChar), NEW p \in Nat,
           p = Len(payload), p <= kRequestFramePayloadMaxChars,
           NEW line, LineParts(line, payload, p), EndsWith(line)
    PROVE  \E i, k \in Nat : /\ LineAt(consumed, i, k, Len(consumed))
                             /\ SubSeq(consumed, i + 1, k - 1) = payload
<1>1. PICK bytes : bytes = consumed
  OBVIOUS
<1>2. PICK L \in Nat : L = Len(bytes)
  BY <1>1, LenProperties
<1>3. PICK b \in Nat : L = b + p + 3
  <2>1. L >= p + 3
    BY <1>1, <1>2 DEF EndsWith, LineParts
  <2>2. L - (p + 3) \in Nat /\ L = (L - (p + 3)) + p + 3
    BY <2>1
  <2> QED BY <2>2
<1>4. \A j \in 1 .. p + 3 : bytes[b + j] = line[j]
  <2>1. b <= L /\ L - b = p + 3 /\ L - (p + 3) + 1 = b + 1 /\ L <= L
    BY <1>3
  <2>2. bytes \in Seq(STRING)
    BY <1>1
  <2>3. \A j \in 1 .. L - b : SubSeq(bytes, b + 1, L)[j] = bytes[b + j]
    BY <1>2, <2>1, <2>2, Part
  <2>4. SubSeq(bytes, b + 1, L) = line
    BY <1>1, <1>2, <2>1 DEF EndsWith, LineParts
  <2> QED BY <2>1, <2>3, <2>4
<1>a. PICK i \in Nat : i = b + 1
  OBVIOUS
<1>b. PICK k \in Nat : k = b + p + 2
  OBVIOUS
<1>5. i = b + 1 /\ k = b + p + 2
  BY <1>a, <1>b
<1>6. bytes[i] = kStartFrame /\ bytes[k] = kEndFrame /\ bytes[L] = kEndLine
  <2>1. 1 \in 1 .. p + 3 /\ p + 2 \in 1 .. p + 3 /\ p + 3 \in 1 .. p + 3
    OBVIOUS
  <2>2. bytes[b + 1] = line[1] /\ bytes[b + (p + 2)] = line[p + 2]
        /\ bytes[b + (p + 3)] = line[p + 3]
    BY <1>4, <2>1
  <2>3. b + (p + 2) = k /\ b + (p + 3) = L
    BY <1>3, <1>5
  <2> QED BY <1>5, <2>2, <2>3 DEF LineParts
<1>7. \A m \in 1 .. p : bytes[i + m] = payload[m]
  <2> SUFFICES ASSUME NEW m \in 1 .. p PROVE bytes[i + m] = payload[m]
    OBVIOUS
  <2>1. m + 1 \in 1 .. p + 3 /\ b + (m + 1) = i + m
    BY <1>5
  <2>2. bytes[b + (m + 1)] = line[m + 1]
    BY <1>4, <2>1
  <2> QED BY <2>1, <2>2 DEF LineParts
<1>8. LineAt(bytes, i, k, L)
  <2>1. L \in 1 .. L /\ i \in 1 .. L - 1 /\ k \in i + 1 .. L - 1 /\ k - i - 1 = p
    BY <1>3, <1>5
  <2>2. ASSUME NEW n \in i + 1 .. k - 1 PROVE PayloadByte(bytes[n])
    <3>1. n - i \in 1 .. p /\ i + (n - i) = n
      BY <1>5
    <3>2. payload[n - i] \in HostChar
      BY <3>1, ElementOfSeq
    <3> QED BY <1>7, <3>1, <3>2, HostChars
  <2>3. \A n \in k + 1 .. L - 1 : bytes[n] = CarriageReturn
    <3>1. \A n \in k + 1 .. L - 1 : FALSE
      BY <1>3, <1>5
    <3> QED BY <3>1
  <2>4. Received(bytes, i, k, L - 1)
    BY <1>6, <2>1, <2>2, <2>3 DEF Received
  <2> QED BY <1>2, <1>6, <2>1, <2>4 DEF LineAt
<1>9. SubSeq(bytes, i + 1, k - 1) = payload
  <2> DEFINE T == STRING \cup HostChar
  <2>1. bytes \in Seq(T) /\ payload \in Seq(T)
    <3>1. STRING \subseteq T /\ HostChar \subseteq T
      OBVIOUS
    <3> HIDE DEF T
    <3> QED BY <1>1, <3>1, SeqMonotonic
  <2> HIDE DEF T
  <2>2. i + p \in Nat /\ i <= i + p /\ i + p <= L /\ (i + p) - i = p /\ k - 1 = i + p
    BY <1>3, <1>5
  <2>3. PICK part : part = SubSeq(bytes, i + 1, i + p)
    OBVIOUS
  <2>4. part \in Seq(T) /\ Len(part) = p /\ \A j \in 1 .. p : part[j] = bytes[i + j]
    BY <1>2, <2>1, <2>2, <2>3, Part
  <2>5. \A j \in 1 .. Len(part) : part[j] = payload[j]
    BY <1>7, <2>4
  <2>6. part = payload
    BY <2>1, <2>4, <2>5, SeqEqual
  <2> QED BY <2>2, <2>3, <2>6
<1> QED BY <1>1, <1>2, <1>8, <1>9

\* Every request that the host wrote and the firmware serves is offered with
\* the values the host put in it, whatever came before it on the stream.
THEOREM HostRequestsOffered == Spec => []HostRequestsArriveUnchanged
<1>1. TypeOK /\ OffersExactlyTheWellFormedLines => HostRequestsArriveUnchanged
  <2> SUFFICES ASSUME TypeOK, OffersExactlyTheWellFormedLines, NEW frame \in HostFrames,
                      EndsWith(HostLines[frame]), IsValidRequest(frame.type, frame.pin_type)
               PROVE  <<Len(consumed), frame>> \in offered
    BY DEF HostRequestsArriveUnchanged
  <2>1. frame \in RequestFrame(UInt16, UInt8, UInt16)
    BY HostFramesAssumption
  <2>2. PICK payload : payload = HostPayload(frame)
    OBVIOUS
  <2>3. /\ payload \in Seq(HostChar) /\ Len(payload) <= kRequestFramePayloadMaxChars
        /\ ReferenceFrame(payload) = {frame}
    BY <2>1, <2>2, HostPayloadIs
  <2>4. PICK p \in Nat : p = Len(payload)
    BY <2>3, LenProperties
  <2>5. PICK line : line = HostLines[frame]
    OBVIOUS
  <2>6. line = <<"@">> \o payload \o <<";", "LF">>
    BY <2>2, <2>5 DEF HostLines, LineOf
  <2>7. LineParts(line, payload, p)
    <3> DEFINE T == HostChar \cup {kStartFrame, kEndFrame, kEndLine}
    <3>1. payload \in Seq(T)
      <4>1. HostChar \subseteq T
        OBVIOUS
      <4> HIDE DEF T
      <4> QED BY <2>3, <4>1, SeqMonotonic
    <3>2. kStartFrame \in T /\ kEndFrame \in T /\ kEndLine \in T
      OBVIOUS
    <3> HIDE DEF T
    <3> QED BY <2>4, <2>6, <3>1, <3>2, LineOfIs
  <2>8. PICK i \in Nat, k \in Nat : /\ LineAt(consumed, i, k, Len(consumed))
                                   /\ SubSeq(consumed, i + 1, k - 1) = payload
    BY <2>3, <2>4, <2>5, <2>7, LineFound DEF TypeOK
  <2>9. Len(consumed) \in Nat
    BY LenProperties DEF TypeOK
  <2>10. Spells(consumed, <<Len(consumed), frame>>)
    <3>1. frame \in ReferenceFrame(SubSeq(consumed, i + 1, k - 1))
      BY <2>3, <2>8
    <3> QED BY <2>8, <2>9, <3>1, Zenon DEF Spells
  <2>11. <<Len(consumed), frame>> \in WellFormedLines
    BY <2>10, LinesAre DEF TypeOK
  <2> QED BY <2>11 DEF OffersExactlyTheWellFormedLines
<1> QED BY <1>1, TypeCorrect, ExactlyTheWellFormedLines, PTL
=============================================================================
