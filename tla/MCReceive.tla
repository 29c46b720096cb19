----------------------------- MODULE MCReceive -----------------------------
(***************************************************************************)
(* Streams for the runs of the receive path.                               *)
(***************************************************************************)
EXTENDS ReceiveSafety, TLC

MCNumbers == {"1", "2", "3", "4", "0", "255"}
LineFeed == <<"LF">>

Answer(id) == AnswerText("S", id, "0", "255") \o LineFeed
Refusal(id) == AnswerText("E", id, "0", "7") \o LineFeed

\* What may stand on the line: answers, answers that lost their end inside a
\* field or behind a comma, a debug line, and text.
Lines(id) ==
    { Answer(id), Refusal(id),
      SubSeq(Answer(id), 1, 4), SubSeq(Answer(id), 1, 5), SubSeq(Answer(id), 1, 1),
      <<Start, "B", Comma, "x", End>> \o LineFeed,
      <<"x">> \o LineFeed }

\* Three lines, the first of which may have begun before the port was opened.
MixedStreams ==
    { SubSeq(a, cut, Len(a)) \o b \o c :
        a \in Lines("1"), b \in Lines("2"), c \in Lines("3"), cut \in {1, 2, 6} }

Burst == Answer("1") \o Answer("2") \o Answer("3") \o Answer("4")
OneBurst == {Burst}
\* More text than MaxGarbage between two answers, so that it also waits behind one.
Garbage == Answer("1") \o [i \in 1 .. 8 |-> "x"] \o Answer("2")
MCStreams == MixedStreams \cup OneBurst \cup {Garbage}
=============================================================================
