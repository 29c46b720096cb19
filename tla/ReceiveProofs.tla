---------------------------- MODULE ReceiveProofs ---------------------------
(***************************************************************************)
(* For any stream of tokens, cut into reads in any way, and any limits of  *)
(* the buffer: exactly the answers of the board are handed on, in order,   *)
(* and an answer only waits behind others.                                 *)
(***************************************************************************)
EXTENDS ReceiveSafety, FiniteSetTheorems, SequenceTheorems, TLAPS

\* The tokens that have left the buffer, or were lost, are the first ones.
Gone == taken - Len(rxBuffer)

GoneInv == Gone \in Nat /\ \A x \in lost : x <= Gone

\* A frame start leaves the buffer with a frame end, or is lost.
CutInv ==
    \A b \in 1 .. Gone : stream[b] = Start /\ b \notin lost =>
        \E e \in b .. Gone : stream[e] = End

StreamInv == stream \in Seq(STRING) /\ rxBuffer \in Seq(STRING)

ReceiveInv == StreamInv /\ TypeOK /\ GoneInv /\ CutInv

---------------------------------------------------------------------------
(* bytearray.find and _extract_frame.                                      *)

\* Every set of naturals that is not empty has a least element.
LEMMA LeastElement ==
    ASSUME NEW T, T \subseteq Nat, T # {}
    PROVE  \E x \in T : \A y \in T : x <= y
<1> DEFINE R == {ss \in Nat \X Nat : ss[1] < ss[2]}
<1>1. IsWellFoundedOn(R, Nat)
  BY NatLessThanWellFounded DEF OpToRel
<1>2. PICK x \in T : \A y \in T : ~(<<y, x>> \in R)
  <2> HIDE DEF R
  <2> QED BY <1>1, WFMin
<1>3. ASSUME NEW y \in T PROVE x <= y
  <2>1. <<y, x>> \notin R
    BY <1>2, <1>3
  <2> QED BY <1>3, <2>1
<1> QED BY <1>3

LEMMA FindsFirst ==
    ASSUME NEW buffer \in Seq(STRING), NEW token, NEW from \in Nat \ {0}
    PROVE  \/ /\ Find(buffer, token, from) = 0
              /\ \A i \in from .. Len(buffer) : buffer[i] # token
           \/ /\ Find(buffer, token, from) \in from .. Len(buffer)
              /\ buffer[Find(buffer, token, from)] = token
              /\ \A i \in from .. Find(buffer, token, from) - 1 : buffer[i] # token
<1> DEFINE found == {i \in from .. Len(buffer) : buffer[i] = token}
<1>0. Len(buffer) \in Nat
  BY LenProperties
<1>1. CASE found = {}
  <2>1. Find(buffer, token, from) = 0
    BY <1>1 DEF Find
  <2> QED BY <2>1, <1>1
<1>2. CASE found # {}
  <2>1. \E x \in found : \A y \in found : x <= y
    <3>1. found \subseteq Nat
      BY <1>0
    <3> HIDE DEF found
    <3> QED BY <3>1, <1>2, LeastElement
  <2>2. Find(buffer, token, from) = Min(found)
    BY <1>2 DEF Find
  <2>3. Min(found) \in found /\ \A y \in found : Min(found) <= y
    <3> HIDE DEF found
    <3> QED BY <2>1 DEF Min
  <2>4. \A m : m = Min(found) =>
           /\ m \in from .. Len(buffer) /\ buffer[m] = token
           /\ \A i \in from .. m - 1 : buffer[i] # token
    <3> SUFFICES ASSUME NEW m, m = Min(found)
                 PROVE  /\ m \in from .. Len(buffer) /\ buffer[m] = token
                        /\ \A i \in from .. m - 1 : buffer[i] # token
      OBVIOUS
    <3>1. m \in found /\ \A y \in found : m <= y
      BY <2>3
    <3>2. m \in from .. Len(buffer) /\ buffer[m] = token /\ m \in Nat
      BY <1>0, <3>1
    <3>3. ASSUME NEW i \in from .. m - 1 PROVE buffer[i] # token
      <4>1. i \in from .. Len(buffer) /\ ~(m <= i)
        BY <1>0, <3>2
      <4>2. i \notin found
        BY <3>1, <4>1
      <4> QED BY <4>1, <4>2
    <3> QED BY <3>2, <3>3
  <2> QED BY <2>2, <2>4
<1> QED BY <1>1, <1>2

\* What a turn finds in the buffer: too much, no frame start, a frame without
\* an end, or a frame.
LEMMA IngestCases ==
    ASSUME NEW buffer \in Seq(STRING)
    PROVE
      \/ /\ Len(buffer) > MaxBuffer
         /\ Ingest(buffer) = Outcome(<<>>, <<>>, Len(buffer))
      \/ /\ Len(buffer) <= MaxBuffer
         /\ \A i \in 1 .. Len(buffer) : buffer[i] # Start
         /\ Ingest(buffer)
              = Outcome(IF Len(buffer) > MaxGarbage THEN <<>> ELSE buffer, <<>>, 0)
      \/ /\ Len(buffer) <= MaxBuffer
         /\ \E s \in 1 .. Len(buffer) :
               /\ buffer[s] = Start
               /\ \A i \in 1 .. s - 1 : buffer[i] # Start
               /\ \/ /\ \A i \in s + 1 .. Len(buffer) : buffer[i] # End
                     /\ Ingest(buffer) = Outcome(From(buffer, s), <<>>, 0)
                  \/ \E e \in s + 1 .. Len(buffer) :
                        /\ buffer[e] = End
                        /\ \A i \in s + 1 .. e - 1 : buffer[i] # End
                        /\ Ingest(buffer) =
                             Outcome(From(buffer, e + 1), SubSeq(buffer, s, e), 0)
<1> DEFINE s == Find(buffer, Start, 1)
           e == Find(buffer, End, s + 1)
<1>0. Len(buffer) \in Nat /\ MaxBuffer \in Nat
  BY LenProperties, LimitsAssumption
<1>1. CASE Len(buffer) > MaxBuffer
  BY <1>1 DEF Ingest
<1>2. CASE Len(buffer) <= MaxBuffer /\ s = 0
  <2>1. \A i \in 1 .. Len(buffer) : buffer[i] # Start
    BY <1>2, FindsFirst
  <2> QED BY <1>0, <1>2, <2>1 DEF Ingest
<1>3. CASE Len(buffer) <= MaxBuffer /\ s # 0
  <2>1. /\ s \in 1 .. Len(buffer) /\ buffer[s] = Start
        /\ \A i \in 1 .. s - 1 : buffer[i] # Start
    BY <1>3, FindsFirst
  <2>2. Ingest(buffer) = Extract(buffer, s)
    BY <1>0, <1>3 DEF Ingest
  <2>3. \/ e = 0 /\ \A i \in s + 1 .. Len(buffer) : buffer[i] # End
        \/ /\ e \in s + 1 .. Len(buffer) /\ buffer[e] = End
           /\ \A i \in s + 1 .. e - 1 : buffer[i] # End
    <3>1. s + 1 \in Nat \ {0}
      BY <2>1
    <3> HIDE DEF s
    <3> QED BY <3>1, FindsFirst
  <2>4. Extract(buffer, s) =
          IF e = 0 THEN Outcome(From(buffer, s), <<>>, 0)
          ELSE Outcome(From(buffer, e + 1), SubSeq(buffer, s, e), 0)
    BY DEF Extract
  <2> HIDE DEF s, e
  <2>5. CASE e = 0 /\ \A i \in s + 1 .. Len(buffer) : buffer[i] # End
    BY <1>3, <2>1, <2>2, <2>4, <2>5
  <2>6. CASE /\ e \in s + 1 .. Len(buffer) /\ buffer[e] = End
             /\ \A i \in s + 1 .. e - 1 : buffer[i] # End
    <3>1. e # 0
      BY <2>1, <2>6
    <3> QED BY <1>3, <2>1, <2>2, <2>4, <2>6, <3>1
  <2> QED BY <2>3, <2>5, <2>6
<1> QED BY <1>0, <1>1, <1>2, <1>3
---------------------------------------------------------------------------
(* A turn of the receiver loop, seen from the stream.                      *)

\* The buffer was too long.
LosesBuffer(gone, top) ==
    gone = top /\ lost' = lost \cup (Gone + 1 .. top) /\ UNCHANGED frames

\* No frame was complete, and no frame start is dropped.
FindsNoFrame(gone, top) ==
    /\ \A b \in Gone + 1 .. gone : stream[b] # Start
    /\ \A b \in gone + 1 .. top, e \in gone + 1 .. top :
          stream[b] = Start /\ b < e => stream[e] # End
    /\ UNCHANGED <<lost, frames>>

\* The first frame start, and the first frame end behind it.
TakesFrame(s, e, gone, top) ==
    /\ s \in Gone + 1 .. top /\ e \in s + 1 .. top
    /\ stream[s] = Start /\ \A i \in Gone + 1 .. s - 1 : stream[i] # Start
    /\ stream[e] = End /\ \A i \in s + 1 .. e - 1 : stream[i] # End
    /\ gone = e
    /\ UNCHANGED lost
    /\ HandsOn(SubSeq(stream, s, e))

LEMMA ResponseTexts ==
    ASSUME NEW frame \in Responses
    PROVE  /\ Len(frame) = 9 /\ frame[1] = Start /\ frame[9] = End
           /\ frame[4] \in Numbers
           /\ \A k \in 2 .. 8 : frame[k] # Start /\ frame[k] # End
<1>1. PICK type \in FrameType, id \in Numbers, value \in Numbers, error \in ErrorCode :
        frame = AnswerText(type, id, value, error)
  BY DEF Responses
<1>2. /\ type \notin {Start, End} /\ id \notin {Start, End}
      /\ value \notin {Start, End} /\ error \notin {Start, End}
  BY StreamsAssumption DEF FrameType, ErrorCode, Start, End, Comma
<1>3. frame = <<Start, type, Comma, id, Comma, value, Comma, error, End>>
  BY <1>1 DEF AnswerText
<1>4. Comma # Start /\ Comma # End
  BY DEF Start, End, Comma
<1> HIDE DEF Start, End, Comma
<1> QED BY <1>2, <1>3, <1>4

LEMMA NoneIsNoResponse == ResponsesIn(<<>>) = {}
  BY ResponseTexts DEF ResponsesIn

LEMMA ExtendedBuffer ==
    ASSUME ReceiveInv, NEW count \in Nat, taken + count <= Len(stream)
    PROVE  /\ Extended(count) \in Seq(STRING)
           /\ Len(Extended(count)) = taken + count - Gone
           /\ \A k \in 1 .. taken + count - Gone : Extended(count)[k] = stream[Gone + k]
<1> USE DEF ReceiveInv, StreamInv, TypeOK, GoneInv
<1> DEFINE news == SubSeq(stream, taken + 1, taken + count)
<1>1. /\ Len(stream) \in Nat /\ taken \in Nat /\ Gone \in Nat /\ Gone <= taken
      /\ Len(rxBuffer) = taken - Gone
      /\ \A i \in 1 .. Len(stream) : stream[i] \in STRING
  <2>1. Len(stream) \in Nat /\ Len(rxBuffer) \in Nat
    BY LenProperties
  <2>2. \A i \in 1 .. Len(stream) : stream[i] \in STRING
    BY ElementOfSeq
  <2> QED BY <2>1, <2>2 DEF Gone
<1>2. /\ rxBuffer \in Seq(STRING)
      /\ \A k \in 1 .. taken - Gone : rxBuffer[k] = stream[Gone + k]
  <2>1. rxBuffer = SubSeq(stream, Gone + 1, taken)
    BY DEF Gone
  <2>2. \A i \in Gone + 1 .. taken : stream[i] \in STRING
    BY <1>1
  <2>3. \A k \in 1 .. taken - Gone : rxBuffer[k] = stream[Gone + 1 + k - 1]
    BY <1>1, <2>1, <2>2, SubSeqProperties
  <2> QED BY <1>1, <2>1, <2>2, <2>3, SubSeqProperties
<1>3. /\ news \in Seq(STRING) /\ Len(news) = count
      /\ \A k \in 1 .. count : news[k] = stream[taken + k]
  <2>1. \A i \in taken + 1 .. taken + count : stream[i] \in STRING
    BY <1>1
  <2>2. /\ news \in Seq(STRING)
        /\ Len(news) = IF taken + 1 <= taken + count THEN (taken + count) - (taken + 1) + 1 ELSE 0
        /\ \A k \in 1 .. (taken + count) - (taken + 1) + 1 : news[k] = stream[taken + 1 + k - 1]
    BY <1>1, <2>1, SubSeqProperties
  <2> QED BY <1>1, <2>2
<1>4. Extended(count) = rxBuffer \o news
  BY DEF Extended
<1> HIDE DEF news, ReceiveInv
<1>5. /\ Extended(count) \in Seq(STRING) /\ Len(Extended(count)) = (taken - Gone) + count
      /\ \A k \in 1 .. (taken - Gone) + count : Extended(count)[k] =
            IF k <= taken - Gone THEN rxBuffer[k] ELSE news[k - (taken - Gone)]
  <2>1. /\ Extended(count) \in Seq(STRING)
        /\ Len(Extended(count)) = Len(rxBuffer) + Len(news)
        /\ \A k \in 1 .. Len(rxBuffer) + Len(news) : Extended(count)[k] =
              IF k <= Len(rxBuffer) THEN rxBuffer[k] ELSE news[k - Len(rxBuffer)]
    <3>1. rxBuffer \in Seq(STRING) /\ news \in Seq(STRING)
      BY <1>2, <1>3
    <3> QED BY <1>4, <3>1, ConcatProperties
  <2>2. Len(rxBuffer) = taken - Gone /\ Len(news) = count
    BY <1>1, <1>3
  <2> QED BY <2>1, <2>2
<1>6. ASSUME NEW k \in 1 .. taken + count - Gone PROVE Extended(count)[k] = stream[Gone + k]
  <2>1. CASE k <= taken - Gone
    BY <1>1, <1>2, <1>5, <2>1
  <2>2. CASE k > taken - Gone
    <3>1. k - (taken - Gone) \in 1 .. count /\ taken + (k - (taken - Gone)) = Gone + k
      BY <1>1, <2>2
    <3> QED BY <1>1, <1>3, <1>5, <2>2, <3>1
  <2> QED BY <1>1, <2>1, <2>2
<1> QED BY <1>1, <1>5, <1>6

\* Equal parts of sequences that run in parallel.
LEMMA PartOfStream ==
    ASSUME NEW buffer \in Seq(STRING), NEW text \in Seq(STRING), NEW shift \in Nat,
           shift + Len(buffer) <= Len(text),
           \A k \in 1 .. Len(buffer) : buffer[k] = text[shift + k],
           NEW m \in 1 .. Len(buffer) + 1, NEW n \in 0 .. Len(buffer)
    PROVE  /\ SubSeq(buffer, m, n) = SubSeq(text, shift + m, shift + n)
           /\ SubSeq(buffer, m, n) \in Seq(STRING)
           /\ Len(SubSeq(buffer, m, n)) = IF m <= n THEN n - m + 1 ELSE 0
           /\ \A i \in 1 .. n - m + 1 : SubSeq(buffer, m, n)[i] = text[shift + m + i - 1]
<1> DEFINE s == SubSeq(buffer, m, n)
           t == SubSeq(text, shift + m, shift + n)
<1>1. Len(buffer) \in Nat /\ Len(text) \in Nat
  BY LenProperties
<1>2. /\ \A i \in m .. n : buffer[i] \in STRING
      /\ \A i \in shift + m .. shift + n : text[i] \in STRING
  BY <1>1, ElementOfSeq
<1>3. /\ s \in Seq(STRING) /\ Len(s) = IF m <= n THEN n - m + 1 ELSE 0
      /\ \A i \in 1 .. n - m + 1 : s[i] = buffer[m + i - 1]
  BY <1>1, <1>2, SubSeqProperties
<1>4. /\ t \in Seq(STRING)
      /\ Len(t) = IF shift + m <= shift + n THEN (shift + n) - (shift + m) + 1 ELSE 0
      /\ \A i \in 1 .. (shift + n) - (shift + m) + 1 : t[i] = text[shift + m + i - 1]
  BY <1>1, <1>2, SubSeqProperties
<1> HIDE DEF s, t
<1>5. ASSUME NEW i \in 1 .. n - m + 1 PROVE s[i] = text[shift + m + i - 1] /\ t[i] = s[i]
  <2>1. m + i - 1 \in 1 .. Len(buffer) /\ i \in 1 .. (shift + n) - (shift + m) + 1
    BY <1>1
  <2>2. buffer[m + i - 1] = text[shift + (m + i - 1)]
    BY <2>1
  <2>3. shift + (m + i - 1) = shift + m + i - 1
    BY <1>1
  <2>4. s[i] = text[shift + m + i - 1]
    BY <1>3, <2>2, <2>3
  <2>5. t[i] = text[shift + m + i - 1]
    BY <1>4, <2>1
  <2> QED BY <2>4, <2>5
<1>6. Len(t) = Len(s) /\ \A i \in 1 .. Len(s) : s[i] = t[i]
  BY <1>1, <1>3, <1>4, <1>5
<1>7. s = t
  BY <1>3, <1>4, <1>6, SeqEqual
<1> QED BY <1>3, <1>5, <1>7 DEF s, t

\* The outcome for a buffer that runs in parallel with a text from position
\* gone + 1 to position top, seen from the text: what stands up to position
\* next is thrown away, passed over, or taken up to the end of a frame.
Cuts(out, text, gone, next, top) ==
    /\ out.left = SubSeq(text, next + 1, top) /\ out.left \in Seq(STRING)
    /\ Len(out.left) = top - next /\ top - next <= MaxBuffer
    /\ \/ next = top /\ out.lost = top - gone /\ out.frame = <<>>
       \/ /\ \A b \in gone + 1 .. next : text[b] # Start
          /\ \A b \in next + 1 .. top, e \in next + 1 .. top :
                text[b] = Start /\ b < e => text[e] # End
          /\ out.lost = 0 /\ out.frame = <<>>
       \/ \E s \in gone + 1 .. top : \E e \in s + 1 .. top :
             /\ text[s] = Start /\ \A i \in gone + 1 .. s - 1 : text[i] # Start
             /\ text[e] = End /\ \A i \in s + 1 .. e - 1 : text[i] # End
             /\ next = e
             /\ out.lost = 0 /\ out.frame = SubSeq(text, s, e)

LEMMA IngestOfText ==
    ASSUME NEW text \in Seq(STRING), NEW buffer \in Seq(STRING),
           NEW gone \in Nat, NEW top \in Nat, top <= Len(text), gone + Len(buffer) = top,
           \A k \in 1 .. Len(buffer) : buffer[k] = text[gone + k]
    PROVE  \E next \in gone .. top : Cuts(Ingest(buffer), text, gone, next, top)
<1> DEFINE out == Ingest(buffer)
           n == Len(buffer)
           Whole(next) ==
             /\ out.left = SubSeq(text, next + 1, top) /\ out.left \in Seq(STRING)
             /\ Len(out.left) = top - next
           Goal(next) == Cuts(out, text, gone, next, top)
<1> HIDE DEF Whole
<1>1. n \in Nat /\ gone <= top /\ top = gone + n /\ n = top - gone /\ MaxBuffer \in Nat
  BY LenProperties, LimitsAssumption
<1>2. ASSUME NEW i \in gone + 1 .. top
      PROVE  i - gone \in 1 .. n /\ text[i] = buffer[i - gone]
  <2>1. i - gone \in 1 .. n /\ gone + (i - gone) = i
    BY <1>1
  <2> QED BY <2>1
<1>3. \A left, frame, lostLen :
        /\ Outcome(left, frame, lostLen).left = left
        /\ Outcome(left, frame, lostLen).frame = frame
        /\ Outcome(left, frame, lostLen).lost = lostLen
  BY DEF Outcome
<1>4. ASSUME out.left = <<>> PROVE Whole(top)
  <2>1. SubSeq(text, top + 1, top) = <<>>
    BY <1>1, SubSeqEmpty
  <2> QED BY <1>1, <1>4, <2>1, EmptySeq DEF Whole
\* What the buffer keeps from position k on is what the text has there.
<1>5. ASSUME NEW k \in 1 .. n + 1, out.left = From(buffer, k)
      PROVE  Whole(gone + k - 1) /\ gone + k - 1 \in gone .. top
  <2>1. n \in 0 .. n /\ gone + n <= Len(text)
    BY <1>1
  <2>2. /\ SubSeq(buffer, k, n) = SubSeq(text, gone + k, gone + n)
        /\ SubSeq(buffer, k, n) \in Seq(STRING)
        /\ Len(SubSeq(buffer, k, n)) = IF k <= n THEN n - k + 1 ELSE 0
    BY <2>1, PartOfStream
  <2>3. /\ gone + k = gone + k - 1 + 1 /\ gone + k - 1 \in gone .. top
        /\ (IF k <= n THEN n - k + 1 ELSE 0) = top - (gone + k - 1)
    BY <1>1
  <2> QED BY <1>1, <1>5, <2>2, <2>3 DEF From, Whole
<1>6. CASE /\ n > MaxBuffer
           /\ out = Outcome(<<>>, <<>>, n)
  <2>1. out.left = <<>> /\ out.frame = <<>> /\ out.lost = top - gone
    BY <1>1, <1>3, <1>6
  <2>2. top \in gone .. top /\ top - top <= MaxBuffer
    BY <1>1
  <2>3. Goal(top)
    BY <1>4, <2>1, <2>2 DEF Cuts, Whole
  <2> QED BY <2>2, <2>3
<1>7. CASE /\ n <= MaxBuffer
           /\ \A i \in 1 .. n : buffer[i] # Start
           /\ out = Outcome(IF n > MaxGarbage THEN <<>> ELSE buffer, <<>>, 0)
  <2>1. out.frame = <<>> /\ out.lost = 0
    BY <1>3, <1>7
  <2>2. \A b \in gone + 1 .. top : text[b] # Start
    BY <1>2, <1>7
  <2>3. CASE n > MaxGarbage
    <3>1. Whole(top)
      BY <1>3, <1>4, <1>7, <2>3
    <3>2. top \in gone .. top /\ top - top <= MaxBuffer /\ \A b : b \notin top + 1 .. top
      BY <1>1
    <3> HIDE DEF out
    <3>3. Goal(top)
      BY <2>1, <2>2, <3>1, <3>2 DEF Cuts, Whole
    <3> QED BY <3>2, <3>3 DEF Goal, out
  <2>4. CASE ~(n > MaxGarbage)
    <3>1. out.left = From(buffer, 1) /\ 1 \in 1 .. n + 1
      BY <1>1, <1>3, <1>7, <2>4, SubSeqFull DEF From
    <3>2. /\ gone + 1 - 1 = gone /\ gone \in gone .. top /\ top - gone <= MaxBuffer
          /\ \A b : b \notin gone + 1 .. gone
      BY <1>1, <1>7
    <3>3. Whole(gone)
      BY <1>5, <3>1, <3>2
    <3> HIDE DEF out
    <3>4. Goal(gone)
      BY <2>1, <2>2, <3>2, <3>3 DEF Cuts, Whole
    <3> QED BY <3>2, <3>4 DEF Goal, out
  <2> QED BY <2>3, <2>4
<1>8. ASSUME n <= MaxBuffer,
             NEW s \in 1 .. n, buffer[s] = Start,
             \A i \in 1 .. s - 1 : buffer[i] # Start,
             \A i \in s + 1 .. n : buffer[i] # End,
             out = Outcome(From(buffer, s), <<>>, 0)
      PROVE  /\ gone + s - 1 \in gone .. top /\ Whole(gone + s - 1)
             /\ top - (gone + s - 1) <= MaxBuffer
             /\ \A b \in gone + 1 .. gone + s - 1 : text[b] # Start
             /\ \A b \in gone + s - 1 + 1 .. top, e \in gone + s - 1 + 1 .. top :
                   text[b] = Start /\ b < e => text[e] # End
             /\ out.lost = 0 /\ out.frame = <<>>
  <2>1. out.left = From(buffer, s) /\ out.lost = 0 /\ out.frame = <<>>
    BY <1>3, <1>8
  <2>2. s \in 1 .. n + 1 /\ top - (gone + s - 1) <= MaxBuffer
    BY <1>1, <1>8
  <2>3. ASSUME NEW b \in gone + 1 .. gone + s - 1 PROVE text[b] # Start
    <3>1. b \in gone + 1 .. top /\ b - gone \in 1 .. s - 1
      BY <1>1
    <3> QED BY <1>2, <1>8, <3>1
  <2>4. ASSUME NEW b \in gone + s - 1 + 1 .. top, NEW e \in gone + s - 1 + 1 .. top, b < e
        PROVE  text[e] # End
    <3>1. e \in gone + 1 .. top /\ e - gone \in s + 1 .. n
      BY <1>1, <2>4
    <3> QED BY <1>2, <1>8, <3>1
  <2> HIDE DEF out
  <2> QED BY <1>5, <2>1, <2>2, <2>3, <2>4
<1>9. ASSUME n <= MaxBuffer,
             NEW s \in 1 .. n, buffer[s] = Start,
             \A i \in 1 .. s - 1 : buffer[i] # Start,
             NEW e \in s + 1 .. n, buffer[e] = End,
             \A i \in s + 1 .. e - 1 : buffer[i] # End,
             out = Outcome(From(buffer, e + 1), SubSeq(buffer, s, e), 0)
      PROVE  /\ gone + e \in gone .. top /\ Whole(gone + e)
             /\ top - (gone + e) <= MaxBuffer
             /\ gone + s \in gone + 1 .. top /\ gone + e \in gone + s + 1 .. top
             /\ text[gone + s] = Start
             /\ \A i \in gone + 1 .. (gone + s) - 1 : text[i] # Start
             /\ text[gone + e] = End
             /\ \A i \in gone + s + 1 .. (gone + e) - 1 : text[i] # End
             /\ out.lost = 0 /\ out.frame = SubSeq(text, gone + s, gone + e)
  <2>1. out.left = From(buffer, e + 1) /\ out.lost = 0 /\ out.frame = SubSeq(buffer, s, e)
    <3> HIDE DEF out
    <3>1. out = Outcome(From(buffer, e + 1), SubSeq(buffer, s, e), 0)
      BY <1>9
    <3> QED BY <3>1 DEF Outcome
  <2>2. /\ e + 1 \in 1 .. n + 1 /\ gone + (e + 1) - 1 = gone + e
        /\ top - (gone + e) <= MaxBuffer
        /\ gone + s \in gone + 1 .. top /\ gone + e \in gone + s + 1 .. top
        /\ gone + e \in gone + 1 .. top
        /\ (gone + s) - gone = s /\ (gone + e) - gone = e
        /\ s \in 1 .. Len(buffer) + 1 /\ e \in 0 .. Len(buffer)
        /\ gone + Len(buffer) <= Len(text)
    BY <1>1, <1>9
  <2>3. Whole(gone + e) /\ gone + e \in gone .. top
    BY <1>5, <2>1, <2>2
  <2>4. SubSeq(buffer, s, e) = SubSeq(text, gone + s, gone + e)
    BY <2>2, PartOfStream
  <2>5. text[gone + s] = Start /\ text[gone + e] = End
    BY <1>2, <1>9, <2>2
  <2>6. ASSUME NEW i \in gone + 1 .. (gone + s) - 1 PROVE text[i] # Start
    <3>1. i \in gone + 1 .. top /\ i - gone \in 1 .. s - 1
      BY <1>1
    <3> QED BY <1>2, <1>9, <3>1
  <2>7. ASSUME NEW i \in gone + s + 1 .. (gone + e) - 1 PROVE text[i] # End
    <3>1. i \in gone + 1 .. top /\ i - gone \in s + 1 .. e - 1
      BY <1>1
    <3> QED BY <1>2, <1>9, <3>1
  <2> HIDE DEF out
  <2> QED BY <2>1, <2>2, <2>3, <2>4, <2>5, <2>6, <2>7
<1>10. CASE /\ n <= MaxBuffer
            /\ \E s \in 1 .. n :
                  /\ buffer[s] = Start
                  /\ \A i \in 1 .. s - 1 : buffer[i] # Start
                  /\ \/ /\ \A i \in s + 1 .. n : buffer[i] # End
                        /\ out = Outcome(From(buffer, s), <<>>, 0)
                     \/ \E e \in s + 1 .. n :
                           /\ buffer[e] = End
                           /\ \A i \in s + 1 .. e - 1 : buffer[i] # End
                           /\ out = Outcome(From(buffer, e + 1), SubSeq(buffer, s, e), 0)
  <2>1. PICK s \in 1 .. n :
          /\ buffer[s] = Start
          /\ \A i \in 1 .. s - 1 : buffer[i] # Start
          /\ \/ /\ \A i \in s + 1 .. n : buffer[i] # End
                /\ out = Outcome(From(buffer, s), <<>>, 0)
             \/ \E e \in s + 1 .. n :
                   /\ buffer[e] = End
                   /\ \A i \in s + 1 .. e - 1 : buffer[i] # End
                   /\ out = Outcome(From(buffer, e + 1), SubSeq(buffer, s, e), 0)
    BY <1>10
  <2> HIDE DEF out, n
  <2>2. CASE /\ \A i \in s + 1 .. n : buffer[i] # End
             /\ out = Outcome(From(buffer, s), <<>>, 0)
    <3>1. Goal(gone + s - 1) /\ gone + s - 1 \in gone .. top
      BY <1>8, <1>10, <2>1, <2>2 DEF Cuts, Whole
    <3> QED BY <3>1 DEF Goal, out
  <2>3. CASE \E e \in s + 1 .. n :
               /\ buffer[e] = End
               /\ \A i \in s + 1 .. e - 1 : buffer[i] # End
               /\ out = Outcome(From(buffer, e + 1), SubSeq(buffer, s, e), 0)
    <3>1. PICK e \in s + 1 .. n :
            /\ buffer[e] = End
            /\ \A i \in s + 1 .. e - 1 : buffer[i] # End
            /\ out = Outcome(From(buffer, e + 1), SubSeq(buffer, s, e), 0)
      BY <2>3
    <3>2. /\ gone + e \in gone .. top /\ Whole(gone + e)
          /\ top - (gone + e) <= MaxBuffer
          /\ gone + s \in gone + 1 .. top /\ gone + e \in gone + s + 1 .. top
          /\ text[gone + s] = Start
          /\ \A i \in gone + 1 .. (gone + s) - 1 : text[i] # Start
          /\ text[gone + e] = End
          /\ \A i \in gone + s + 1 .. (gone + e) - 1 : text[i] # End
          /\ out.lost = 0 /\ out.frame = SubSeq(text, gone + s, gone + e)
      BY <1>9, <1>10, <2>1, <3>1
    <3> DEFINE From0(s0, e0) ==
                 /\ text[s0] = Start /\ \A i \in gone + 1 .. s0 - 1 : text[i] # Start
                 /\ text[e0] = End /\ \A i \in s0 + 1 .. e0 - 1 : text[i] # End
                 /\ gone + e = e0
                 /\ out.lost = 0 /\ out.frame = SubSeq(text, s0, e0)
    <3>4. From0(gone + s, gone + e)
      BY <3>2, Zenon
    <3>5. \E s0 \in gone + 1 .. top : \E e0 \in s0 + 1 .. top : From0(s0, e0)
      <4> HIDE DEF From0
      <4> QED BY <3>2, <3>4
    <3>3. Goal(gone + e)
      BY <3>2, <3>5 DEF Cuts, Whole
    <3> QED BY <3>2, <3>3 DEF Goal, out
  <2> QED BY <2>1, <2>2, <2>3
<1> QED BY <1>6, <1>7, <1>10, IngestCases

LEMMA Turn ==
    ASSUME ReceiveInv, NEW count \in Nat, Receives(count)
    PROVE  \E gone, top \in Nat :
             /\ gone <= top /\ top <= Len(stream) /\ Gone <= gone /\ taken <= top
             /\ Gone' = gone /\ taken' = top /\ top = taken + count
             /\ rxBuffer' = SubSeq(stream, gone + 1, top) /\ rxBuffer' \in Seq(STRING)
             /\ Len(rxBuffer') = top - gone /\ top - gone <= MaxBuffer
             /\ UNCHANGED <<stream, running>>
             /\ \/ LosesBuffer(gone, top)
                \/ FindsNoFrame(gone, top)
                \/ \E s, e \in Nat : TakesFrame(s, e, gone, top)
<1> DEFINE B == Extended(count)
           out == Ingest(B)
           top == taken + count
<1>1. /\ taken' = top /\ top <= Len(stream)
      /\ UNCHANGED <<stream, running>>
      /\ rxBuffer' = out.left
      /\ HandsOn(out.frame)
      /\ lost' = lost \cup (taken' - out.lost + 1 .. taken')
  BY DEF Receives
<1>2. /\ taken \in Nat /\ Gone \in Nat /\ Gone <= taken /\ top \in Nat
      /\ stream \in Seq(STRING)
  <2>1. Len(rxBuffer) \in Nat /\ Len(stream) \in Nat
    BY LenProperties DEF ReceiveInv, StreamInv
  <2>2. taken \in 0 .. Len(stream) /\ Gone \in Nat
    BY DEF ReceiveInv, TypeOK, GoneInv
  <2>3. Gone <= taken
    BY <2>1, <2>2 DEF Gone
  <2> QED BY <2>1, <2>2, <2>3 DEF ReceiveInv, StreamInv
<1>3. /\ B \in Seq(STRING) /\ Gone + Len(B) = top
      /\ \A k \in 1 .. Len(B) : B[k] = stream[Gone + k]
  <2>1. /\ B \in Seq(STRING) /\ Len(B) = taken + count - Gone
        /\ \A k \in 1 .. taken + count - Gone : B[k] = stream[Gone + k]
    <3> HIDE DEF B
    <3> QED BY <1>1, ExtendedBuffer DEF B
  <2> QED BY <1>2, <2>1
<1> HIDE DEF B
<1>4. PICK next \in Gone .. top : Cuts(out, stream, Gone, next, top)
  <2> HIDE DEF top
  <2> QED BY <1>1, <1>2, <1>3, IngestOfText
<1> DEFINE Finds ==
             \/ next = top /\ out.lost = top - Gone /\ out.frame = <<>>
             \/ /\ \A b \in Gone + 1 .. next : stream[b] # Start
                /\ \A b \in next + 1 .. top, e \in next + 1 .. top :
                      stream[b] = Start /\ b < e => stream[e] # End
                /\ out.lost = 0 /\ out.frame = <<>>
             \/ \E s \in Gone + 1 .. top : \E e \in s + 1 .. top :
                   /\ stream[s] = Start /\ \A i \in Gone + 1 .. s - 1 : stream[i] # Start
                   /\ stream[e] = End /\ \A i \in s + 1 .. e - 1 : stream[i] # End
                   /\ next = e
                   /\ out.lost = 0 /\ out.frame = SubSeq(stream, s, e)
<1>11. /\ out.left = SubSeq(stream, next + 1, top) /\ out.left \in Seq(STRING)
      /\ Len(out.left) = top - next /\ top - next <= MaxBuffer /\ Finds
  BY <1>4 DEF Cuts
<1> HIDE DEF out, Finds
<1>5. next \in Nat /\ Gone <= next /\ next <= top /\ top - (top - next) = next
      /\ top - 0 + 1 = top + 1 /\ \A x : x \notin top + 1 .. top
      /\ top - (top - Gone) + 1 = Gone + 1
  BY <1>2
<1>6. Gone' = next
  BY <1>1, <1>11, <1>5 DEF Gone
<1>7. HandsOn(<<>>) => UNCHANGED frames
  BY NoneIsNoResponse DEF HandsOn
<1>8. ASSUME out.lost = 0 PROVE UNCHANGED lost
  BY <1>1, <1>5, <1>8
<1>9. \/ LosesBuffer(next, top)
      \/ FindsNoFrame(next, top)
      \/ \E s, e \in Nat : TakesFrame(s, e, next, top)
  <2>1. CASE next = top /\ out.lost = top - Gone /\ out.frame = <<>>
    BY <1>1, <1>5, <1>7, <2>1 DEF LosesBuffer
  <2>2. CASE /\ \A b \in Gone + 1 .. next : stream[b] # Start
             /\ \A b \in next + 1 .. top, e \in next + 1 .. top :
                   stream[b] = Start /\ b < e => stream[e] # End
             /\ out.lost = 0 /\ out.frame = <<>>
    <3> HIDE DEF top
    <3> QED BY <1>1, <1>7, <1>8, <2>2 DEF FindsNoFrame
  <2>3. CASE \E s \in Gone + 1 .. top : \E e \in s + 1 .. top :
               /\ stream[s] = Start /\ \A i \in Gone + 1 .. s - 1 : stream[i] # Start
               /\ stream[e] = End /\ \A i \in s + 1 .. e - 1 : stream[i] # End
               /\ next = e
               /\ out.lost = 0 /\ out.frame = SubSeq(stream, s, e)
    <3>0. PICK s \in Gone + 1 .. top : \E e \in s + 1 .. top :
               /\ stream[s] = Start /\ \A i \in Gone + 1 .. s - 1 : stream[i] # Start
               /\ stream[e] = End /\ \A i \in s + 1 .. e - 1 : stream[i] # End
               /\ next = e
               /\ out.lost = 0 /\ out.frame = SubSeq(stream, s, e)
      BY <2>3
    <3>1. PICK e \in s + 1 .. top :
               /\ stream[s] = Start /\ \A i \in Gone + 1 .. s - 1 : stream[i] # Start
               /\ stream[e] = End /\ \A i \in s + 1 .. e - 1 : stream[i] # End
               /\ next = e
               /\ out.lost = 0 /\ out.frame = SubSeq(stream, s, e)
      BY <3>0
    <3>2. s \in Nat /\ e \in Nat
      BY <1>2
    <3>3. TakesFrame(s, e, next, top)
      <4> HIDE DEF top
      <4> QED BY <1>1, <1>8, <3>1 DEF TakesFrame
    <3> QED BY <3>2, <3>3
  <2> QED BY <1>11, <2>1, <2>2, <2>3 DEF Finds
<1>10. taken <= top
  BY <1>2
<1> QED BY <1>1, <1>2, <1>11, <1>5, <1>6, <1>9, <1>10
---------------------------------------------------------------------------
(* The invariant.                                                          *)

LEMMA HandsOnNumbers ==
    ASSUME frames \in Seq(Numbers), NEW frame, HandsOn(frame)
    PROVE  frames' \in Seq(Numbers)
<1>1. CASE UNCHANGED frames
  BY <1>1
<1>2. ASSUME NEW id \in ResponsesIn(frame), frames' = Append(frames, id)
      PROVE  frames' \in Seq(Numbers)
  <2>1. id \in Numbers
    BY <1>2, ResponseTexts DEF ResponsesIn
  <2> QED BY <1>2, <2>1, AppendProperties
<1> QED BY <1>1, <1>2 DEF HandsOn

LEMMA InitReceive == Init => ReceiveInv
<1> SUFFICES ASSUME Init PROVE ReceiveInv
  OBVIOUS
<1>1. stream \in Seq(STRING) /\ rxBuffer \in Seq(STRING) /\ Len(rxBuffer) = 0
  BY StreamsAssumption, EmptySeq DEF Init
<1>2. Len(stream) \in Nat /\ taken = 0 /\ Gone = 0 /\ 0 - 0 + 1 = 1
  <2>1. taken = 0 /\ 0 - 0 = 0
    BY DEF Init
  <2> QED BY <1>1, <2>1, LenProperties DEF Gone
<1>3. TypeOK
  <2>1. SubSeq(stream, 1, 0) = <<>>
    BY <1>1, SubSeqEmpty
  <2>2. rxBuffer = SubSeq(stream, taken - Len(rxBuffer) + 1, taken)
    BY <1>1, <1>2, <2>1 DEF Init
  <2>3. frames \in Seq(Numbers)
    BY EmptySeq DEF Init
  <2> QED BY <1>1, <1>2, <2>2, <2>3, LimitsAssumption DEF TypeOK, Init
<1>4. GoneInv /\ CutInv
  BY <1>2 DEF GoneInv, CutInv, Init
<1> QED BY <1>1, <1>3, <1>4 DEF ReceiveInv, StreamInv

LEMMA AgedHeld ==
    ASSUME held \in [DOMAIN stream -> Nat]
    PROVE  Aged \in [DOMAIN stream -> Nat]
  BY DEF Aged

LEMMA ReceivesKeeps ==
    ASSUME ReceiveInv, NEW count \in Nat, Receives(count)
    PROVE  ReceiveInv'
<1>1. PICK gone, top \in Nat :
        /\ gone <= top /\ top <= Len(stream) /\ Gone <= gone /\ taken <= top
        /\ Gone' = gone /\ taken' = top /\ top = taken + count
        /\ rxBuffer' = SubSeq(stream, gone + 1, top) /\ rxBuffer' \in Seq(STRING)
        /\ Len(rxBuffer') = top - gone /\ top - gone <= MaxBuffer
        /\ UNCHANGED <<stream, running>>
        /\ \/ LosesBuffer(gone, top)
           \/ FindsNoFrame(gone, top)
           \/ \E s, e \in Nat : TakesFrame(s, e, gone, top)
  BY Turn
<1>2. /\ stream \in Seq(STRING) /\ Len(stream) \in Nat
      /\ Gone \in Nat /\ (\A x \in lost : x <= Gone) /\ TypeOK /\ CutInv
  BY LenProperties DEF ReceiveInv, StreamInv, GoneInv
<1>3. StreamInv'
  BY <1>1, <1>2 DEF StreamInv
<1>4. TypeOK'
  <2>1. taken' \in 0 .. Len(stream')
    BY <1>1, <1>2
  <2>2. rxBuffer' = SubSeq(stream', taken' - Len(rxBuffer') + 1, taken')
    <3>1. top - (top - gone) + 1 = gone + 1
      BY <1>1
    <3> QED BY <1>1, <3>1
  <2>3. Len(rxBuffer') <= MaxBuffer
    BY <1>1
  <2>4. frames' \in Seq(Numbers)
    BY <1>1, <1>2, HandsOnNumbers DEF LosesBuffer, FindsNoFrame, TakesFrame, TypeOK
  <2>5. lost' \subseteq DOMAIN stream'
    <3>1. Gone + 1 .. top \subseteq 1 .. Len(stream) /\ DOMAIN stream = 1 .. Len(stream)
      BY <1>1, <1>2, LenProperties
    <3>2. lost \subseteq DOMAIN stream
      BY <1>2 DEF TypeOK
    <3> QED BY <1>1, <3>1, <3>2 DEF LosesBuffer, FindsNoFrame, TakesFrame
  <2>6. held' \in [DOMAIN stream' -> Nat]
    BY <1>1, <1>2, AgedHeld DEF TypeOK, Receives
  <2> QED BY <1>1, <1>2, <2>1, <2>2, <2>3, <2>4, <2>5, <2>6 DEF TypeOK
<1>5. GoneInv'
  <2>1. ASSUME NEW x \in lost' PROVE x <= gone
    <3>1. CASE x \in lost
      <4>1. x <= Gone /\ x \in Nat
        BY <1>2, <3>1, LenProperties DEF TypeOK
      <4> QED BY <1>1, <1>2, <4>1
    <3>2. CASE x \notin lost
      BY <1>1, <1>2, <2>1, <3>2 DEF LosesBuffer, FindsNoFrame, TakesFrame
    <3> QED BY <3>1, <3>2
  <2> QED BY <1>1, <2>1 DEF GoneInv
<1>6. ASSUME NEW b \in 1 .. gone, stream[b] = Start, b \notin lost'
      PROVE  \E e \in b .. gone : stream[e] = End
  <2>1. CASE b <= Gone
    <3>1. b \in 1 .. Gone /\ b \notin lost
      BY <1>1, <1>2, <1>6, <2>1 DEF LosesBuffer, FindsNoFrame, TakesFrame
    <3>2. PICK e \in b .. Gone : stream[e] = End
      BY <1>2, <1>6, <3>1 DEF CutInv
    <3>3. e \in b .. gone
      BY <1>1, <1>2
    <3> QED BY <3>2, <3>3
  <2>2. CASE ~(b <= Gone)
    <3>1. b \in Gone + 1 .. gone
      BY <1>2, <2>2
    <3>2. CASE LosesBuffer(gone, top) \/ FindsNoFrame(gone, top)
      BY <1>1, <1>6, <3>1, <3>2 DEF LosesBuffer, FindsNoFrame
    <3>3. CASE \E s, e \in Nat : TakesFrame(s, e, gone, top)
      <4>1. PICK s, e \in Nat : TakesFrame(s, e, gone, top)
        BY <3>3
      <4>2. e = gone /\ stream[e] = End
        BY <4>1 DEF TakesFrame
      <4>3. e \in b .. gone
        BY <4>2
      <4> QED BY <4>2, <4>3
    <3> QED BY <1>1, <3>2, <3>3
  <2> QED BY <2>1, <2>2
<1>7. CutInv'
  BY <1>1, <1>6 DEF CutInv
<1> QED BY <1>3, <1>4, <1>5, <1>7 DEF ReceiveInv

LEMMA ReceiveInvKept == ReceiveInv /\ [Next]_vars => ReceiveInv'
<1> SUFFICES ASSUME ReceiveInv, [Next]_vars PROVE ReceiveInv'
  OBVIOUS
<1>1. ASSUME NEW count \in 0 .. Len(stream), Receives(count) PROVE ReceiveInv'
  <2>1. count \in Nat
    BY <1>1
  <2> QED BY <1>1, <2>1, ReceivesKeeps
<1>2. CASE Fails \/ UNCHANGED vars
  BY <1>2 DEF Fails, vars, ReceiveInv, StreamInv, TypeOK, GoneInv, CutInv, Gone
<1> QED BY <1>1, <1>2 DEF Next

LEMMA ReceiveInvAlways == Spec => []ReceiveInv
  BY InitReceive, ReceiveInvKept, PTL DEF Spec

\* The buffer is the end of what was read and never longer than its limit.
THEOREM TypeCorrect == Spec => []TypeOK
<1>1. ReceiveInv => TypeOK
  BY DEF ReceiveInv
<1> QED BY ReceiveInvAlways, <1>1, PTL
---------------------------------------------------------------------------
(* Answers in the stream.                                                  *)

LEMMA TextTokens ==
    ASSUME NEW text \in Seq(STRING), NEW s \in 1 .. Len(text), NEW e \in s .. Len(text)
    PROVE  /\ Len(SubSeq(text, s, e)) = e - s + 1
           /\ \A k \in 1 .. e - s + 1 : SubSeq(text, s, e)[k] = text[s + k - 1]
<1>1. Len(text) \in Nat
  BY LenProperties
<1>2. \A i \in s .. e : text[i] \in STRING
  BY <1>1, ElementOfSeq
<1>3. s \in Nat /\ e \in Nat /\ s <= e
  BY <1>1
<1> QED BY <1>2, <1>3, SubSeqProperties

LEMMA AnswersAreResponses == Answers \subseteq Responses
<1>1. {"S", "E"} \subseteq FrameType
  BY DEF FrameType
<1> QED BY <1>1 DEF Answers, Responses

\* A part of the stream that is the text of a response.
LEMMA ResponseTokens ==
    ASSUME NEW text \in Seq(STRING), NEW s \in 1 .. Len(text), NEW e \in s .. Len(text),
           SubSeq(text, s, e) \in Responses
    PROVE  /\ e = s + 8 /\ text[s] = Start /\ text[e] = End
           /\ SubSeq(text, s, e)[4] = text[s + 3]
           /\ \A k \in s .. s + 7 : text[k] # End
           /\ \A k \in s + 1 .. s + 8 : text[k] # Start
<1> DEFINE f == SubSeq(text, s, e)
<1>1. /\ Len(f) = 9 /\ f[1] = Start /\ f[9] = End
      /\ \A k \in 2 .. 8 : f[k] # Start /\ f[k] # End
  BY ResponseTexts
<1>2. /\ Len(f) = e - s + 1
      /\ \A k \in 1 .. e - s + 1 : f[k] = text[s + k - 1]
  BY TextTokens
<1>3. s \in Nat /\ e \in Nat /\ s <= e
  <2>1. Len(text) \in Nat
    BY LenProperties
  <2> QED BY <2>1
<1> HIDE DEF f
<1>4. e = s + 8
  <2>1. 9 = e - s + 1
    BY <1>1, <1>2
  <2> QED BY <1>3, <2>1
<1>5. \A k \in 1 .. 9 : f[k] = text[s + k - 1]
  BY <1>2, <1>3, <1>4
<1>6. ASSUME NEW k \in s .. s + 8
      PROVE  k - s + 1 \in 1 .. 9 /\ text[k] = f[k - s + 1]
  <2>1. k - s + 1 \in 1 .. 9 /\ s + (k - s + 1) - 1 = k
    BY <1>3
  <2> QED BY <1>5, <2>1
<1>7. Start # End
  BY DEF Start, End
<1>8. ASSUME NEW k \in s .. s + 7 PROVE text[k] # End
  <2>1. k \in s .. s + 8 /\ k - s + 1 \in 1 .. 8
    BY <1>3
  <2>2. text[k] = f[k - s + 1] /\ (k - s + 1 = 1 \/ k - s + 1 \in 2 .. 8)
    BY <1>6, <2>1
  <2> QED BY <1>1, <1>7, <2>2
<1>9. ASSUME NEW k \in s + 1 .. s + 8 PROVE text[k] # Start
  <2>1. k \in s .. s + 8 /\ k - s + 1 \in 2 .. 9
    BY <1>3
  <2>2. text[k] = f[k - s + 1] /\ (k - s + 1 = 9 \/ k - s + 1 \in 2 .. 8)
    BY <1>6, <2>1
  <2> QED BY <1>1, <1>7, <2>2
<1>10. /\ s \in s .. s + 8 /\ s + 8 \in s .. s + 8 /\ s + 3 \in s .. s + 8
       /\ s - s + 1 = 1 /\ s + 8 - s + 1 = 9 /\ s + 3 - s + 1 = 4
  BY <1>3
<1>11. text[s] = Start /\ text[s + 8] = End /\ f[4] = text[s + 3]
  <2>1. text[s] = f[1]
    BY <1>6, <1>10
  <2>2. text[s + 8] = f[9]
    BY <1>6, <1>10
  <2>3. text[s + 3] = f[4]
    BY <1>6, <1>10
  <2> QED BY <1>1, <2>1, <2>2, <2>3
<1> QED BY <1>4, <1>8, <1>9, <1>11 DEF f

\* The tokens of an answer.
LEMMA AnswerTokens ==
    ASSUME stream \in Seq(STRING), NEW i \in DOMAIN stream, IsAnswer(i)
    PROVE  /\ i \in Nat /\ i + 8 \in 1 .. Len(stream)
           /\ stream[i] = Start /\ stream[i + 8] = End
           /\ SubSeq(stream, i, i + 8) \in Responses
           /\ \A k \in i .. i + 7 : stream[k] # End
           /\ \A k \in i + 1 .. i + 8 : stream[k] # Start
<1>1. Len(stream) \in Nat /\ i \in 1 .. Len(stream)
  BY LenProperties
<1>2. i + AnswerLength - 1 = i + 8
  BY <1>1 DEF AnswerLength
<1>3. i + 8 <= Len(stream) /\ SubSeq(stream, i, i + 8) \in Responses
  BY <1>2, AnswersAreResponses DEF IsAnswer
<1>4. i + 8 \in i .. Len(stream) /\ i + 8 \in 1 .. Len(stream) /\ i \in Nat
  BY <1>1, <1>3
<1> QED BY <1>1, <1>3, <1>4, ResponseTokens

LEMMA ReadResponse ==
    ASSUME stream \in Streams, NEW s \in DOMAIN stream, NEW e \in s .. Len(stream),
           SubSeq(stream, s, e) \in Responses
    PROVE  IsAnswer(s)
<1>1. stream \in Seq(STRING) /\ Len(stream) \in Nat /\ s \in 1 .. Len(stream)
  BY StreamsAssumption, LenProperties
<1>2. e = s + 8
  BY <1>1, ResponseTokens
<1>3. s + AnswerLength - 1 = s + 8 /\ s \in 1 .. Len(stream) - AnswerLength + 1
  BY <1>1, <1>2 DEF AnswerLength
<1>4. SubSeq(stream, s, s + 8) \in Answers
  BY <1>2, <1>3, BoardAssumption
<1> QED BY <1>1, <1>2, <1>3, <1>4 DEF IsAnswer
---------------------------------------------------------------------------
(* The answers are handed on in order.                                     *)

\* An answer whose start has left the buffer has left it completely.
LEMMA PassedCompletely ==
    ASSUME ReceiveInv, NEW i \in 1 .. Gone, IsAnswer(i), i \notin lost
    PROVE  i + 8 <= Gone
<1>1. stream \in Seq(STRING) /\ Gone \in Nat /\ CutInv /\ i \in DOMAIN stream
  <2>1. Gone \in Nat /\ taken \in 0 .. Len(stream) /\ rxBuffer \in Seq(STRING)
        /\ stream \in Seq(STRING)
    BY DEF ReceiveInv, StreamInv, GoneInv, TypeOK
  <2>2. Len(rxBuffer) \in Nat /\ Len(stream) \in Nat
    BY <2>1, LenProperties
  <2>3. Gone <= taken
    BY <2>1, <2>2 DEF Gone
  <2>4. i \in 1 .. Len(stream)
    BY <2>1, <2>2, <2>3
  <2> QED BY <2>1, <2>4, LenProperties DEF ReceiveInv
<1>2. i \in Nat /\ stream[i] = Start /\ \A k \in i .. i + 7 : stream[k] # End
  BY <1>1, AnswerTokens
<1>3. PICK e \in i .. Gone : stream[e] = End
  BY <1>1, <1>2 DEF CutInv
<1>4. ~(e \in i .. i + 7)
  BY <1>2, <1>3
<1> QED BY <1>1, <1>2, <1>3, <1>4

\* The answers handed on, without mention of the buffer.
LEMMA PassedIs == ReceiveInv => Passed = {i \in 1 .. Gone : Due(i)}
<1> SUFFICES ASSUME ReceiveInv PROVE Passed = {i \in 1 .. Gone : Due(i)}
  OBVIOUS
<1>1. /\ stream \in Seq(STRING) /\ rxBuffer \in Seq(STRING)
      /\ Gone \in Nat /\ taken \in 0 .. Len(stream)
  BY DEF ReceiveInv, StreamInv, GoneInv, TypeOK
<1>2. Len(rxBuffer) \in Nat /\ Len(stream) \in Nat /\ DOMAIN stream = 1 .. Len(stream)
  BY <1>1, LenProperties
<1>3. Gone <= taken /\ taken \in Nat /\ taken <= Len(stream) /\ Buffered = Gone + 1 .. taken
  BY <1>1, <1>2 DEF Gone, Buffered
<1>4. ASSUME NEW i \in 1 .. Len(stream), Due(i) PROVE i <= taken
  <2>1. i + AnswerLength - 1 <= taken
    BY <1>4 DEF Due
  <2> QED BY <1>3, <2>1 DEF AnswerLength
<1>5. ASSUME NEW i, i \in 1 .. Len(stream), Due(i)
      PROVE  i \notin Buffered <=> i \in 1 .. Gone
  <2>1. i <= taken /\ i \in Nat /\ 1 <= i
    BY <1>2, <1>4, <1>5
  <2> QED BY <1>1, <1>3, <2>1
<1>6. 1 .. Gone \subseteq 1 .. Len(stream)
  BY <1>1, <1>2, <1>3
<1> QED BY <1>2, <1>5, <1>6 DEF Passed

LEMMA PassedIsNext == ReceiveInv' => (Passed = {i \in 1 .. Gone : Due(i)})'
  BY PassedIs, PTL

\* The place of a position among others.
Rank(S, i) == Cardinality({j \in S : j <= i})

\* A list has the number of each answer, in the order of their positions.
ListsAnswers(list, S, text) ==
    /\ Len(list) = Cardinality(S)
    /\ \A i \in S : list[Rank(S, i)] = text[i + 3]

\* A list of numbers in the order of a set of positions, and one more position behind them.
LEMMA GrownList ==
    ASSUME NEW S, S \subseteq Nat, IsFiniteSet(S), NEW list \in Seq(Numbers), NEW text,
           ListsAnswers(list, S, text),
           NEW s \in Nat, \A i \in S : i < s, text[s + 3] \in Numbers
    PROVE  ListsAnswers(Append(list, text[s + 3]), S \cup {s}, text)
<1>0. /\ Len(list) = Cardinality(S)
      /\ \A i \in S : list[Rank(S, i)] = text[i + 3]
  BY DEF ListsAnswers
<1> DEFINE more == S \cup {s}
           longer == Append(list, text[s + 3])
           n == Cardinality(S)
           Upto(U, i) == {j \in U : j <= i}
<1>1. s \notin S
  <2>1. ~(s < s)
    OBVIOUS
  <2> QED BY <2>1
<1>2. n \in Nat /\ Cardinality(more) = n + 1
  BY <1>1, FS_CardinalityType, FS_AddElement
<1>3. /\ Len(longer) = n + 1 /\ longer[n + 1] = text[s + 3]
      /\ \A k \in 1 .. n : longer[k] = list[k]
  BY <1>0, AppendProperties
<1>4. Upto(more, s) = more
  <2>1. ASSUME NEW j \in more PROVE j <= s
    <3>1. CASE j = s
      BY <3>1
    <3>2. CASE j \in S
      <4>1. j \in Nat /\ j < s
        BY <3>2
      <4> QED BY <4>1
    <3> QED BY <3>1, <3>2
  <2> QED BY <2>1, Zenon
<1>5. ASSUME NEW i \in S
      PROVE  Upto(more, i) = Upto(S, i) /\ Cardinality(Upto(S, i)) \in 1 .. n
  <2>1. ~(s <= i) /\ i <= i
    BY SMT
  <2>2. Upto(more, i) = Upto(S, i)
    BY <2>1
  <2>3. Upto(S, i) \subseteq S /\ i \in Upto(S, i)
    BY <2>1
  <2> HIDE DEF Upto
  <2>4. /\ IsFiniteSet(Upto(S, i)) /\ Cardinality(Upto(S, i)) <= n
    BY <2>3, FS_Subset
  <2>5. Cardinality(Upto(S, i)) \in Nat /\ Cardinality(Upto(S, i)) # 0
    BY <2>3, <2>4, FS_CardinalityType, FS_EmptySet
  <2>6. \A c \in Nat : c # 0 /\ c <= n => c \in 1 .. n
    BY <1>2
  <2> QED BY <2>2, <2>4, <2>5, <2>6
<1>6. ASSUME NEW i \in more PROVE longer[Cardinality(Upto(more, i))] = text[i + 3]
  <2>1. CASE i = s
    BY <1>2, <1>3, <1>4, <2>1
  <2>2. CASE i \in S
    <3>1. list[Cardinality(Upto(S, i))] = text[i + 3]
      BY <1>0, <2>2 DEF Rank
    <3> HIDE DEF Upto, longer
    <3> QED BY <1>3, <1>5, <2>2, <3>1
  <2> QED BY <2>1, <2>2
<1> QED BY <1>2, <1>3, <1>6 DEF Rank, ListsAnswers

LEMMA Positions ==
    ASSUME ReceiveInv
    PROVE  /\ stream \in Seq(STRING) /\ Len(stream) \in Nat
           /\ DOMAIN stream = 1 .. Len(stream)
           /\ Gone \in Nat /\ taken \in Nat /\ Gone <= taken /\ taken <= Len(stream)
           /\ lost \subseteq Nat /\ \A x \in lost : x <= Gone
<1>1. /\ stream \in Seq(STRING) /\ rxBuffer \in Seq(STRING)
      /\ Gone \in Nat /\ taken \in 0 .. Len(stream)
      /\ lost \subseteq DOMAIN stream /\ \A x \in lost : x <= Gone
  BY DEF ReceiveInv, StreamInv, GoneInv, TypeOK
<1>2. Len(rxBuffer) \in Nat /\ Len(stream) \in Nat /\ DOMAIN stream = 1 .. Len(stream)
  BY <1>1, LenProperties
<1>3. Gone <= taken /\ taken \in Nat /\ taken <= Len(stream)
  BY <1>1, <1>2 DEF Gone
<1> QED BY <1>1, <1>2, <1>3

\* What the stream says of an answer that left the buffer does not change.
LEMMA DueStands ==
    ASSUME ReceiveInv, stream' = stream, NEW top \in Nat, taken' = top, taken <= top,
           lost \subseteq lost', \A x \in lost' : x \in lost \/ x > Gone,
           NEW i \in 1 .. Gone
    PROVE  Due(i)' <=> Due(i)
<1>1. /\ Gone \in Nat /\ taken \in Nat /\ Gone <= taken /\ i \in Nat
      /\ AnswerLength = 9 /\ i + 9 - 1 = i + 8 /\ i \in i .. i + 8
  BY Positions DEF AnswerLength
<1>2. ASSUME NEW x \in lost', x <= Gone, x \in Nat PROVE x \in lost
  BY <1>1, <1>2
<1>3. BehindBrokenLine(i)' <=> BehindBrokenLine(i)
  <2>1. ASSUME NEW b \in 1 .. i - 1 PROVE b \in lost' <=> b \in lost
    <3>1. b <= Gone /\ b \in Nat
      BY <1>1
    <3> QED BY <1>2, <3>1
  <2> QED BY <2>1 DEF BehindBrokenLine
<1>4. IsAnswer(i)' <=> IsAnswer(i)
  BY DEF IsAnswer
<1>5. ASSUME Due(i)' PROVE Due(i)
  <2>1. IsAnswer(i) /\ lost' \cap i .. i + 8 = {} /\ ~BehindBrokenLine(i)
    BY <1>1, <1>3, <1>4, <1>5 DEF Due
  <2>2. lost \cap i .. i + 8 = {} /\ i \notin lost
    BY <1>1, <2>1
  <2>3. i + 8 <= taken
    <3>1. i + 8 <= Gone
      BY <2>1, <2>2, PassedCompletely
    <3> QED BY <1>1, <3>1
  <2> QED BY <1>1, <2>1, <2>2, <2>3 DEF Due
<1>6. ASSUME Due(i) PROVE Due(i)'
  <2>1. IsAnswer(i) /\ i + 8 <= taken /\ lost \cap i .. i + 8 = {} /\ ~BehindBrokenLine(i)
    BY <1>1, <1>6 DEF Due
  <2>2. i + 8 <= Gone
    <3>1. i \notin lost
      BY <1>1, <2>1
    <3> QED BY <2>1, <3>1, PassedCompletely
  <2>3. lost' \cap i .. i + 8 = {}
    <3>1. ASSUME NEW x \in i .. i + 8 PROVE x \notin lost'
      <4>1. x <= Gone /\ x \in Nat
        BY <1>1, <2>2
      <4> QED BY <1>2, <2>1, <4>1
    <3> QED BY <3>1
  <2>4. i + 8 <= top
    BY <1>1, <2>1
  <2> QED BY <1>1, <1>3, <1>4, <2>1, <2>3, <2>4 DEF Due
<1> QED BY <1>5, <1>6

\* A frame is taken: the answer in it is the only one that leaves the buffer,
\* and there is none unless the frame decodes to a response.
LEMMA NewAnswer ==
    ASSUME ReceiveInv, stream \in Streams, stream' = stream,
           NEW gone \in Nat, NEW top \in Nat, gone <= top, top <= Len(stream),
           taken' = top, NEW s \in Nat, NEW e \in Nat, TakesFrame(s, e, gone, top),
           NEW i \in Gone + 1 .. gone
    PROVE  Due(i)' <=> i = s /\ SubSeq(stream, s, e) \in Responses
<1>1. /\ s \in Gone + 1 .. top /\ e \in s + 1 .. top
      /\ stream[s] = Start /\ (\A k \in Gone + 1 .. s - 1 : stream[k] # Start)
      /\ stream[e] = End /\ (\A k \in s + 1 .. e - 1 : stream[k] # End)
      /\ gone = e /\ lost' = lost
  BY DEF TakesFrame
<1>2. /\ stream \in Seq(STRING) /\ Len(stream) \in Nat /\ DOMAIN stream = 1 .. Len(stream)
      /\ Gone \in Nat /\ \A x \in lost : x <= Gone /\ x \in Nat
  BY Positions
<1>3. /\ i \in Nat /\ s \in 1 .. Len(stream) /\ e \in s .. Len(stream)
      /\ i \in DOMAIN stream /\ s \in DOMAIN stream /\ Gone < s /\ s < e /\ e <= top
      /\ Gone < i /\ i <= e
      /\ AnswerLength = 9 /\ i + 9 - 1 = i + 8 /\ Start # End
  <2>1. s \in Gone + 1 .. top /\ e \in s + 1 .. top /\ gone = e
    BY <1>1
  <2>2. i \in Nat /\ Gone < i /\ i <= e /\ i + 9 - 1 = i + 8
    BY <1>2, <2>1
  <2>3. Gone < s /\ s < e /\ e <= top
    BY <1>2, <2>1
  <2>4. s \in 1 .. Len(stream) /\ e \in s .. Len(stream) /\ i \in 1 .. Len(stream)
    BY <1>2, <2>2, <2>3
  <2>5. AnswerLength = 9 /\ Start # End
    BY DEF AnswerLength, Start, End
  <2> QED BY <1>2, <2>2, <2>3, <2>4, <2>5
<1>4. ASSUME NEW x \in Nat, x > Gone PROVE x \notin lost
  BY <1>2, <1>4
<1>5. IsAnswer(i)' <=> IsAnswer(i)
  BY DEF IsAnswer
<1>6. ASSUME Due(i)' PROVE i = s /\ SubSeq(stream, s, e) \in Responses
  <2>1. IsAnswer(i) /\ i + 8 <= top /\ ~BehindBrokenLine(i)'
    BY <1>3, <1>5, <1>6 DEF Due
  <2>2. /\ stream[i] = Start /\ stream[i + 8] = End
        /\ SubSeq(stream, i, i + 8) \in Responses
        /\ \A k \in i .. i + 7 : stream[k] # End
    BY <1>2, <1>3, <2>1, AnswerTokens
  <2>3. ~(i < s)
    <3>1. i < s => i \in Gone + 1 .. s - 1
      BY <1>2, <1>3
    <3> QED BY <1>1, <2>2, <3>1
  <2>4. ~(s < i)
    <3> SUFFICES ASSUME s < i PROVE FALSE
      OBVIOUS
    <3>1. i < e
      <4>1. i # e
        BY <1>1, <1>3, <2>2
      <4> QED BY <1>3, <4>1
    <3>2. s \in 1 .. i - 1 /\ s \notin lost
      BY <1>2, <1>3, <1>4
    <3>3. ASSUME NEW n \in s .. i - 1 PROVE stream[n] # End
      <4>1. n = s \/ n \in s + 1 .. e - 1
        BY <1>3, <3>1
      <4> QED BY <1>1, <1>3, <4>1
    <3>4. BehindBrokenLine(i)'
      <4>1. s \in (1 .. i - 1) \ lost' /\ stream'[s] = Start
            /\ \A n \in s .. i - 1 : stream'[n] # End
        BY <1>1, <3>2, <3>3
      <4> QED BY <4>1 DEF BehindBrokenLine
    <3> QED BY <2>1, <3>4
  <2>5. i = s
    BY <1>3, <2>3, <2>4
  <2>6. e = s + 8
    <3>1. ~(e \in s .. s + 7)
      BY <1>1, <2>2, <2>5
    <3>2. ~(s + 8 \in s + 1 .. e - 1)
      BY <1>1, <2>2, <2>5
    <3> QED BY <1>3, <3>1, <3>2
  <2> QED BY <2>2, <2>5, <2>6
<1>7. ASSUME i = s, SubSeq(stream, s, e) \in Responses PROVE Due(i)'
  <2>1. e = s + 8 /\ i + 8 <= top
    <3>1. e = s + 8
      BY <1>2, <1>3, <1>7, ResponseTokens
    <3> QED BY <1>3, <1>7, <3>1
  <2>2. IsAnswer(i)
    BY <1>3, <1>7, ReadResponse
  <2>3. lost' \cap i .. i + 8 = {}
    <3>1. ASSUME NEW x \in i .. i + 8 PROVE x \notin lost
      <4>1. x \in Nat /\ x > Gone
        BY <1>2, <1>3
      <4> QED BY <1>4, <4>1
    <3> QED BY <1>1, <3>1
  <2>4. ~BehindBrokenLine(i)'
    <3>1. SUFFICES ASSUME NEW b \in (1 .. i - 1) \ lost, stream[b] = Start,
                          \A n \in b .. i - 1 : stream[n] # End
                   PROVE  FALSE
      BY <1>1 DEF BehindBrokenLine
    <3>2. b <= Gone
      <4>1. ~(b \in Gone + 1 .. s - 1)
        BY <1>1, <3>1
      <4> QED BY <1>2, <1>3, <1>7, <4>1
    <3>3. b \in 1 .. Gone
      BY <1>2, <1>3, <3>2
    <3>4. PICK n \in b .. Gone : stream[n] = End
      BY <3>1, <3>3 DEF ReceiveInv, CutInv
    <3>5. n \in b .. i - 1
      BY <1>2, <1>3, <3>3
    <3> QED BY <3>1, <3>4, <3>5
  <2> QED BY <1>3, <1>5, <2>1, <2>2, <2>3, <2>4 DEF Due
<1> QED BY <1>6, <1>7

LEMMA ReceivesInOrder ==
    ASSUME ReceiveInv, stream \in Streams, HandsOnExactlyTheAnswers,
           NEW count \in Nat, Receives(count)
    PROVE  HandsOnExactlyTheAnswers'
<1>1. PICK gone, top \in Nat :
        /\ gone <= top /\ top <= Len(stream) /\ Gone <= gone /\ taken <= top
        /\ Gone' = gone /\ taken' = top /\ top = taken + count
        /\ rxBuffer' = SubSeq(stream, gone + 1, top) /\ rxBuffer' \in Seq(STRING)
        /\ Len(rxBuffer') = top - gone /\ top - gone <= MaxBuffer
        /\ UNCHANGED <<stream, running>>
        /\ \/ LosesBuffer(gone, top)
           \/ FindsNoFrame(gone, top)
           \/ \E s, e \in Nat : TakesFrame(s, e, gone, top)
  BY Turn
<1>2. ReceiveInv'
  BY ReceivesKeeps
<1>3. /\ Passed = {i \in 1 .. Gone : Due(i)}
      /\ Passed' = {i \in 1 .. gone : Due(i)'}
  BY <1>1, <1>2, PassedIs, PassedIsNext
<1>4. /\ stream \in Seq(STRING) /\ Len(stream) \in Nat /\ DOMAIN stream = 1 .. Len(stream)
      /\ Gone \in Nat /\ taken \in Nat
  BY Positions
<1>5. lost \subseteq lost' /\ \A x \in lost' : x \in lost \/ x > Gone
  <2>1. \A x \in Gone + 1 .. top : x > Gone
    BY <1>4
  <2> QED BY <1>1, <2>1 DEF LosesBuffer, FindsNoFrame, TakesFrame
<1>6. ASSUME NEW i \in 1 .. Gone PROVE Due(i)' <=> Due(i)
  BY <1>1, <1>5, DueStands
<1>7. \A i : i \in 1 .. gone <=> i \in 1 .. Gone \/ i \in Gone + 1 .. gone
  BY <1>1, <1>4
<1>8. ListsAnswers(frames, Passed, stream)
  BY DEF HandsOnExactlyTheAnswers, ListsAnswers, Rank
\* Nothing is handed on, and no answer has left the buffer.
<1>9. ASSUME UNCHANGED frames, \A i \in Gone + 1 .. gone : ~Due(i)'
      PROVE  HandsOnExactlyTheAnswers'
  <2>1. Passed' = Passed
    BY <1>3, <1>6, <1>7, <1>9
  <2> QED BY <1>1, <1>8, <1>9, <2>1 DEF HandsOnExactlyTheAnswers, ListsAnswers, Rank
<1>10. CASE LosesBuffer(gone, top)
  <2>1. ASSUME NEW i \in Gone + 1 .. gone PROVE ~Due(i)'
    <3>1. i \in lost' /\ i \in i .. i + AnswerLength - 1
      BY <1>4, <1>10 DEF LosesBuffer, AnswerLength
    <3> QED BY <3>1 DEF Due
  <2> QED BY <1>9, <1>10, <2>1 DEF LosesBuffer
<1>11. CASE FindsNoFrame(gone, top)
  <2>1. ASSUME NEW i \in Gone + 1 .. gone PROVE ~Due(i)'
    <3>1. i \in DOMAIN stream /\ stream[i] # Start
      BY <1>1, <1>4, <1>11 DEF FindsNoFrame
    <3>2. IsAnswer(i)' <=> IsAnswer(i)
      BY <1>1 DEF IsAnswer
    <3> QED BY <1>4, <3>1, <3>2, AnswerTokens DEF Due
  <2> QED BY <1>9, <1>11, <2>1 DEF FindsNoFrame
<1>12. ASSUME NEW s \in Nat, NEW e \in Nat, TakesFrame(s, e, gone, top)
       PROVE  HandsOnExactlyTheAnswers'
  <2> DEFINE frame == SubSeq(stream, s, e)
  <2>1. ASSUME NEW i \in Gone + 1 .. gone PROVE Due(i)' <=> i = s /\ frame \in Responses
    BY <1>1, <1>12, NewAnswer
  <2>2. /\ s \in Gone + 1 .. gone /\ HandsOn(frame)
        /\ s \in 1 .. Len(stream) /\ e \in s .. Len(stream)
    <3>1. s \in Gone + 1 .. top /\ e \in s + 1 .. top /\ gone = e /\ HandsOn(frame)
      BY <1>12 DEF TakesFrame
    <3> QED BY <1>1, <1>4, <3>1
  <2>3. CASE frame \notin Responses
    <3>1. UNCHANGED frames
      BY <2>2, <2>3 DEF HandsOn, ResponsesIn
    <3> QED BY <1>9, <2>1, <2>3, <3>1
  <2>4. CASE frame \in Responses
    <3>1. frames' = Append(frames, stream[s + 3]) /\ stream[s + 3] \in Numbers
      <4>1. frame[4] = stream[s + 3] /\ frame[4] \in Numbers
        <5>1. frame[4] = stream[s + 3]
          BY <1>4, <2>2, <2>4, ResponseTokens
        <5>2. \A f \in Responses : f[4] \in Numbers
          BY ResponseTexts
        <5> QED BY <2>4, <5>1, <5>2
      <4> QED BY <2>2, <2>4, <4>1 DEF HandsOn, ResponsesIn
    <3>2. Passed' = Passed \cup {s}
      BY <1>3, <1>6, <1>7, <2>1, <2>2, <2>4
    <3>3. Passed \subseteq Nat /\ IsFiniteSet(Passed) /\ \A i \in Passed : i < s
      <4>1. Passed \subseteq 1 .. Gone
        BY <1>3
      <4>2. IsFiniteSet(1 .. Gone)
        BY <1>4, FS_Interval
      <4>3. \A i \in 1 .. Gone : i \in Nat /\ i < s
        BY <1>4, <2>2
      <4> QED BY <4>1, <4>2, <4>3, FS_Subset
    <3>4. frames \in Seq(Numbers)
      BY DEF ReceiveInv, TypeOK
    <3> DEFINE more == Passed \cup {s}
               longer == Append(frames, stream[s + 3])
    <3>5. ListsAnswers(longer, more, stream)
      <4>1. s \in Nat /\ stream[s + 3] \in Numbers
        BY <3>1
      <4> QED BY <1>8, <3>3, <3>4, <4>1, GrownList
    <3> HIDE DEF more, longer
    <3>6. frames' = longer /\ Passed' = more
      BY <3>1, <3>2 DEF more, longer
    <3> QED BY <1>1, <3>5, <3>6 DEF HandsOnExactlyTheAnswers, ListsAnswers, Rank
  <2> QED BY <2>3, <2>4
<1> QED BY <1>1, <1>10, <1>11, <1>12

\* Every answer of the board that was read completely is handed on, once and in
\* the order of the line, whatever the stream and however it was cut into reads,
\* but for those that a full buffer lost or that follow a line without an end.
THEOREM AnswersInOrder == Spec => []HandsOnExactlyTheAnswers
<1> DEFINE Inv == ReceiveInv /\ stream \in Streams /\ HandsOnExactlyTheAnswers
<1>1. ASSUME Init PROVE Inv
  <2>1. ReceiveInv /\ taken = 0 /\ rxBuffer = <<>> /\ frames = <<>> /\ stream \in Streams
    BY <1>1, InitReceive DEF Init
  <2>2. Gone = 0
    BY <2>1, Positions
  <2>3. Passed = {}
    BY <2>1, <2>2, PassedIs
  <2> QED BY <2>1, <2>3, FS_EmptySet DEF HandsOnExactlyTheAnswers
<1>2. ASSUME Inv, [Next]_vars PROVE Inv'
  <2>1. ReceiveInv'
    BY <1>2, ReceiveInvKept
  <2>2. ASSUME NEW count \in 0 .. Len(stream), Receives(count) PROVE Inv'
    <3>1. count \in Nat
      BY <2>2
    <3>2. HandsOnExactlyTheAnswers'
      BY <1>2, <2>2, <3>1, ReceivesInOrder
    <3>3. stream' = stream
      BY <2>2 DEF Receives
    <3> QED BY <1>2, <2>1, <3>2, <3>3
  <2>3. CASE Fails \/ UNCHANGED vars
    BY <1>2, <2>1, <2>3
       DEF Fails, vars, HandsOnExactlyTheAnswers, Passed, Due, IsAnswer,
           BehindBrokenLine, Buffered
  <2> QED BY <1>2, <2>2, <2>3 DEF Next
<1>3. Inv => HandsOnExactlyTheAnswers
  OBVIOUS
<1> QED BY <1>1, <1>2, <1>3, PTL DEF Spec
---------------------------------------------------------------------------
(* An answer only waits behind others.                                     *)

EndsUpto(n) == {e \in 1 .. n : stream[e] = End}

\* A read timeout was spent on a frame end for one that left the buffer before
\* it; while a frame start stands before it in the buffer, for all but one.
HeldAt(e) ==
    /\ e > taken => held[e] = 0
    /\ held[e] <= Cardinality(EndsUpto(e - 1))
    /\ e <= taken /\ (\E b \in Gone + 1 .. e - 1 : stream[b] = Start)
         => held[e] + 1 <= Cardinality(EndsUpto(Gone))

HeldInv == \A e \in DOMAIN stream : stream[e] = End => HeldAt(e)

LEMMA EndsGrow ==
    ASSUME NEW m \in Nat, NEW n \in Nat, m <= n
    PROVE  /\ Cardinality(EndsUpto(m)) \in Nat /\ Cardinality(EndsUpto(n)) \in Nat
           /\ Cardinality(EndsUpto(m)) <= Cardinality(EndsUpto(n))
           /\ m < n /\ stream[n] = End
                => Cardinality(EndsUpto(m)) + 1 <= Cardinality(EndsUpto(n))
<1>1. IsFiniteSet(1 .. n)
  BY FS_Interval
<1>2. EndsUpto(n) \subseteq 1 .. n
  BY DEF EndsUpto
<1>3. EndsUpto(m) \subseteq EndsUpto(n)
  <2>1. 1 .. m \subseteq 1 .. n
    OBVIOUS
  <2> QED BY <2>1 DEF EndsUpto
<1>4. IsFiniteSet(EndsUpto(n)) /\ IsFiniteSet(EndsUpto(m))
  BY <1>1, <1>2, <1>3, FS_Subset
<1>5. /\ Cardinality(EndsUpto(m)) \in Nat /\ Cardinality(EndsUpto(n)) \in Nat
      /\ Cardinality(EndsUpto(m)) <= Cardinality(EndsUpto(n))
  BY <1>3, <1>4, FS_Subset, FS_CardinalityType
<1>6. ASSUME m < n, stream[n] = End
      PROVE  Cardinality(EndsUpto(m)) + 1 <= Cardinality(EndsUpto(n))
  <2>1. n \notin EndsUpto(m)
    <3>1. n \notin 1 .. m
      BY <1>6
    <3> QED BY <3>1 DEF EndsUpto
  <2>2. EndsUpto(m) \cup {n} \subseteq EndsUpto(n)
    <3>1. n \in 1 .. n
      BY <1>6
    <3> QED BY <1>3, <1>6, <3>1 DEF EndsUpto
  <2>3. Cardinality(EndsUpto(m) \cup {n}) = Cardinality(EndsUpto(m)) + 1
    BY <1>4, <2>1, FS_AddElement
  <2>4. Cardinality(EndsUpto(m) \cup {n}) <= Cardinality(EndsUpto(n))
    BY <1>4, <2>2, FS_Subset
  <2> QED BY <2>3, <2>4
<1> QED BY <1>5, <1>6

\* The frame ends another read timeout is spent on.
LEMMA AgedIs ==
    ASSUME ReceiveInv, NEW e \in DOMAIN stream, stream[e] = End
    PROVE  \/ Aged[e] = held[e]
           \/ /\ Aged[e] = held[e] + 1
              /\ e <= taken /\ \E b \in Gone + 1 .. e - 1 : stream[b] = Start
<1>1. /\ DOMAIN stream = 1 .. Len(stream) /\ Len(stream) \in Nat
      /\ Gone \in Nat /\ taken \in Nat /\ DOMAIN held = DOMAIN stream
  BY Positions DEF ReceiveInv, TypeOK
<1>2. Buffered = Gone + 1 .. taken
  BY DEF Buffered, Gone
<1>3. Aged[e] = IF (\E b \in Buffered : b < e /\ stream[b] = Start) /\ e \in Buffered
                THEN held[e] + 1 ELSE held[e]
  BY <1>1 DEF Aged
<1>4. CASE (\E b \in Buffered : b < e /\ stream[b] = Start) /\ e \in Buffered
  <2>1. PICK b \in Gone + 1 .. taken : b < e /\ stream[b] = Start
    BY <1>2, <1>4
  <2>2. b \in Gone + 1 .. e - 1 /\ e <= taken
    BY <1>1, <1>2, <1>4, <2>1
  <2> QED BY <1>3, <1>4, <2>1, <2>2
<1>5. CASE ~((\E b \in Buffered : b < e /\ stream[b] = Start) /\ e \in Buffered)
  BY <1>3, <1>5
<1> QED BY <1>4, <1>5

LEMMA ReceivesHolds ==
    ASSUME ReceiveInv, HeldInv, NEW count \in Nat, Receives(count)
    PROVE  HeldInv'
<1>1. PICK gone, top \in Nat :
        /\ gone <= top /\ top <= Len(stream) /\ Gone <= gone /\ taken <= top
        /\ Gone' = gone /\ taken' = top /\ top = taken + count
        /\ rxBuffer' = SubSeq(stream, gone + 1, top) /\ rxBuffer' \in Seq(STRING)
        /\ Len(rxBuffer') = top - gone /\ top - gone <= MaxBuffer
        /\ UNCHANGED <<stream, running>>
        /\ \/ LosesBuffer(gone, top)
           \/ FindsNoFrame(gone, top)
           \/ \E s, e \in Nat : TakesFrame(s, e, gone, top)
  BY Turn
<1>2. /\ DOMAIN stream = 1 .. Len(stream) /\ Len(stream) \in Nat
      /\ Gone \in Nat /\ taken \in Nat /\ held \in [DOMAIN stream -> Nat]
  BY Positions DEF ReceiveInv, TypeOK
<1>3. \A n : EndsUpto(n)' = EndsUpto(n)
  BY <1>1 DEF EndsUpto
<1> SUFFICES ASSUME NEW e \in DOMAIN stream, stream[e] = End
             PROVE  HeldAt(e)'
  BY <1>1 DEF HeldInv
<1>4. /\ e > taken => held[e] = 0
      /\ held[e] <= Cardinality(EndsUpto(e - 1))
      /\ e <= taken /\ (\E b \in Gone + 1 .. e - 1 : stream[b] = Start)
           => held[e] + 1 <= Cardinality(EndsUpto(Gone))
  BY DEF HeldInv, HeldAt
<1>5. /\ held[e] \in Nat /\ e \in Nat /\ e - 1 \in Nat
  BY <1>2
<1>6. \/ held'[e] = held[e]
      \/ /\ held'[e] = held[e] + 1
         /\ e <= taken /\ \E b \in Gone + 1 .. e - 1 : stream[b] = Start
  <2>1. held' = held \/ held' = Aged
    BY DEF Receives
  <2> QED BY <2>1, AgedIs
<1>7. e > top => held'[e] = 0
  BY <1>1, <1>2, <1>4, <1>5, <1>6
<1>8. held'[e] <= Cardinality(EndsUpto(e - 1))
  <2>1. CASE held'[e] = held[e]
    BY <1>4, <2>1
  <2>2. CASE /\ held'[e] = held[e] + 1
             /\ e <= taken /\ \E b \in Gone + 1 .. e - 1 : stream[b] = Start
    <3>1. held[e] + 1 <= Cardinality(EndsUpto(Gone))
      BY <1>4, <2>2
    <3>2. Gone <= e - 1
      BY <1>2, <1>5, <2>2
    <3>3. /\ Cardinality(EndsUpto(Gone)) <= Cardinality(EndsUpto(e - 1))
          /\ Cardinality(EndsUpto(Gone)) \in Nat /\ Cardinality(EndsUpto(e - 1)) \in Nat
      BY <1>2, <1>5, <3>2, EndsGrow
    <3>4. held[e] + 1 <= Cardinality(EndsUpto(e - 1))
      BY <1>5, <3>1, <3>3
    <3> QED BY <2>2, <3>4
  <2> QED BY <1>6, <2>1, <2>2
<1>9. ASSUME e <= top, NEW b \in gone + 1 .. e - 1, stream[b] = Start
      PROVE  held'[e] + 1 <= Cardinality(EndsUpto(gone))
  <2>1. /\ b \in Gone + 1 .. e - 1 /\ gone < e /\ b < e /\ b \in gone + 1 .. top
        /\ e \in gone + 1 .. top /\ ~(gone = top)
    BY <1>1, <1>2, <1>5, <1>9
  <2>2. PICK s, en \in Nat : TakesFrame(s, en, gone, top)
    <3>1. ~LosesBuffer(gone, top)
      BY <2>1 DEF LosesBuffer
    <3>2. ~FindsNoFrame(gone, top)
      BY <1>9, <2>1 DEF FindsNoFrame
    <3> QED BY <1>1, <3>1, <3>2
  <2>3. stream[gone] = End /\ Gone < gone
    <3>1. s \in Gone + 1 .. top /\ en \in s + 1 .. top /\ gone = en /\ stream[en] = End
      BY <2>2 DEF TakesFrame
    <3> QED BY <1>2, <3>1
  <2>4. /\ Cardinality(EndsUpto(Gone)) + 1 <= Cardinality(EndsUpto(gone))
        /\ Cardinality(EndsUpto(Gone)) \in Nat /\ Cardinality(EndsUpto(gone)) \in Nat
    BY <1>1, <1>2, <2>3, EndsGrow
  <2>5. CASE e <= taken
    <3>1. held[e] + 1 <= Cardinality(EndsUpto(Gone))
      BY <1>4, <1>9, <2>1, <2>5
    <3>2. held[e] + 1 + 1 <= Cardinality(EndsUpto(gone))
          /\ held[e] + 1 <= Cardinality(EndsUpto(gone))
      BY <1>5, <2>4, <3>1
    <3> QED BY <1>6, <3>2
  <2>6. CASE ~(e <= taken)
    <3>1. held'[e] = 0
      BY <1>2, <1>4, <1>5, <1>6, <2>6
    <3>2. 0 + 1 <= Cardinality(EndsUpto(gone))
      BY <2>4
    <3> QED BY <3>1, <3>2
  <2> QED BY <2>5, <2>6
<1> QED BY <1>1, <1>3, <1>7, <1>8, <1>9 DEF HeldAt

\* An answer waits at most one read timeout for each frame end before it: the
\* first answer of a burst is handed on by the read that completes it.
THEOREM AnswersWaitBehindOthers == Spec => []HeldOnlyBehindOthers
<1> DEFINE Inv == ReceiveInv /\ HeldInv
<1>1. ASSUME Init PROVE Inv
  <2>1. /\ ReceiveInv /\ DOMAIN stream = 1 .. Len(stream) /\ Len(stream) \in Nat
        /\ taken = 0 /\ held = [i \in DOMAIN stream |-> 0]
    BY <1>1, InitReceive, Positions DEF Init
  <2>2. ASSUME NEW e \in DOMAIN stream PROVE HeldAt(e)
    <3>1. e \in Nat /\ e - 1 \in Nat /\ ~(e <= 0) /\ held[e] = 0
      BY <2>1
    <3>2. 0 <= Cardinality(EndsUpto(e - 1))
      BY <3>1, EndsGrow
    <3> QED BY <2>1, <3>1, <3>2 DEF HeldAt
  <2> QED BY <2>1, <2>2 DEF HeldInv
<1>2. ASSUME Inv, [Next]_vars PROVE Inv'
  <2>1. ReceiveInv'
    BY <1>2, ReceiveInvKept
  <2>2. ASSUME NEW count \in 0 .. Len(stream), Receives(count) PROVE HeldInv'
    <3>1. count \in Nat
      BY <2>2
    <3> QED BY <1>2, <2>2, <3>1, ReceivesHolds
  <2>3. ASSUME Fails \/ UNCHANGED vars PROVE HeldInv'
    <3>1. UNCHANGED <<stream, taken, rxBuffer, held>>
      BY <2>3 DEF Fails, vars
    <3>2. Gone' = Gone /\ \A n : EndsUpto(n)' = EndsUpto(n)
      BY <3>1 DEF Gone, EndsUpto
    <3>3. ASSUME NEW e PROVE HeldAt(e)' <=> HeldAt(e)
      BY <3>1, <3>2 DEF HeldAt
    <3> SUFFICES ASSUME NEW e \in DOMAIN stream, stream[e] = End PROVE HeldAt(e)'
      BY <3>1 DEF HeldInv
    <3>4. HeldAt(e)
      BY <1>2 DEF HeldInv
    <3> QED BY <3>3, <3>4
  <2> QED BY <1>2, <2>1, <2>2, <2>3 DEF Next
<1>3. ASSUME Inv PROVE HeldOnlyBehindOthers
  <2> SUFFICES ASSUME NEW i \in DOMAIN stream, Due(i)
               PROVE  held[i + AnswerLength - 1]
                        <= Cardinality({e \in 1 .. i - 1 : stream[e] = End})
    BY DEF HeldOnlyBehindOthers
  <2>1. stream \in Seq(STRING) /\ DOMAIN stream = 1 .. Len(stream) /\ IsAnswer(i)
    BY <1>3, Positions DEF Due
  <2>2. /\ i \in Nat /\ i + 8 \in DOMAIN stream /\ stream[i + 8] = End
        /\ \A k \in i .. i + 7 : stream[k] # End
    BY <2>1, AnswerTokens
  <2>3. i + AnswerLength - 1 = i + 8 /\ i + 8 - 1 = i + 7
    BY <2>2 DEF AnswerLength
  <2>4. held[i + 8] <= Cardinality(EndsUpto(i + 8 - 1))
    BY <1>3, <2>2 DEF HeldInv, HeldAt
  <2>5. EndsUpto(i + 7) = {e \in 1 .. i - 1 : stream[e] = End}
    <3>1. \A e : e \in 1 .. i + 7 <=> e \in 1 .. i - 1 \/ e \in i .. i + 7
      BY <2>1, <2>2
    <3> QED BY <2>2, <3>1 DEF EndsUpto
  <2> QED BY <2>3, <2>4, <2>5
<1> QED BY <1>1, <1>2, <1>3, PTL DEF Spec
=============================================================================
