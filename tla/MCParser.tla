------------------------------ MODULE MCParser ------------------------------
(***************************************************************************)
(* Streams for the parser runs.                                            *)
(***************************************************************************)
EXTENDS ParserSafety, SequencesExt

Joined(fields) == Tail(FlattenSeq([n \in DOMAIN fields |-> <<",">> \o fields[n]]))
Line(fields, ending) == <<"@">> \o Joined(fields) \o <<";">> \o ending

Good == << <<"W">>, Decimal(1), <<"D">>, <<"H">>, Decimal(13), Decimal(1) >>
Longest == << <<"W">>, Decimal(65535), <<"G">>, <<"L">>, Decimal(255), Decimal(65535) >>

\* Good lines, and everything that can get between or into them.
FramingFragments ==
    { Line(Good, <<"LF">>), Line(Good, <<"CR", "CR", "LF">>),
      Line(Good, <<>>), Line(Longest, <<"LF">>),
      Line([Longest EXCEPT ![5] = <<"0">> \o @], <<"LF">>),
      Line([Good EXCEPT ![4] = <<"x">>], <<"LF">>),
      <<"@", "W", ",", "1">>, <<"@">>, <<";">>, <<"LF">>, <<"CR">>, <<"x">> }

Tokens ==
    { <<>>, <<"R">>, <<"W">>, <<"B">>, <<"D">>, <<"S">>, <<"G">>, <<"L">>,
      <<"x">>, <<"W", "R">>, <<"1", "x">>, <<"0", "0", "7">>,
      Decimal(255), <<"2", "5", "6">>, Decimal(65535),
      <<"6", "5", "5", "3", "6">>, <<"6", "5", "5", "3", "5", "0">> }

\* The good fields with up to two of them replaced, one missing or one more.
FieldLists ==
    {[Good EXCEPT ![m] = t, ![n] = u] : m, n \in 1 .. 6, t, u \in Tokens}
      \cup {RemoveAt(Good, n) : n \in 1 .. 6}
      \cup {Append(Good, t) : t \in Tokens}

\* Corners of what the host can put in a request frame.
CornerFrames == RequestFrame({0, 9, 65535}, {0, 41, 255}, {0, 10, 65535})

\* Three fragments in a row, single lines with doubtful fields, and the
\* corners of what the host sends.
ManyStreams ==
    {a \o b \o c : a, b, c \in FramingFragments}
      \cup {Line(fields, <<"LF">>) : fields \in FieldLists}
      \cup {LineOf(frame) : frame \in CornerFrames}
=============================================================================
