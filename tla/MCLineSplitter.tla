--------------------------- MODULE MCLineSplitter ---------------------------
(***************************************************************************)
(* Two or three lines: values, other lines, lines without a stamp (the     *)
(* notice of the output filter), empty lines.                              *)
(***************************************************************************)
EXTENDS LineSplitter

MCLength == [v |-> 1, s |-> 1, x |-> 1, yy |-> 2, wwww |-> 4, t1 |-> 2, t2 |-> 2]

Plain(words) == [words |-> words, blank |-> FALSE]
Blank(words) == [words |-> words, blank |-> TRUE]

Values == {<<>>, <<"x">>, <<"x", "yy">>, <<"yy", "yy", "x">>, <<"x", "yy", "x", "yy">>,
           <<"wwww", "x">>, <<"x", "yy", "x", "yy", "wwww", "x">>}
Others == {Plain(<<>>), Plain(<<"s", "x">>), Plain(<<"v">>)}
Bodies == {Blank(<<"v">> \o x) : x \in Values} \cup {Plain(<<"v">> \o x) : x \in Values \ {<<>>}}
            \cup Others
WithStamp(t, l) == [words |-> <<t>> \o l.words, blank |-> l.blank \/ l.words = <<>>]

MCInputs ==
  {<<>>}
    \cup {<<a, b>> : a \in Bodies, b \in Bodies}
    \cup {<<WithStamp("t1", a), WithStamp("t2", b)>> : a \in Bodies, b \in Bodies}
    \cup {<<WithStamp("t1", a), Plain(<<"s">>), b>> : a \in Bodies, b \in Others}
=============================================================================
