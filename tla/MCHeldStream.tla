---------------------------- MODULE MCHeldStream ----------------------------
(* An instance of HeldStream for TLC.                                      *)
EXTENDS HeldStream

Line(x) == <<"d", x, "n", "n">>

\* Both dialects, with and without usage, with an unterminated last line,
\* with a comment, with a line too long to hold back, and with no event.
MCStreams ==
  { Line("c") \o Line("c") \o Line("f") \o <<"d", "D">>,
    Line("c") \o Line("c") \o Line("c") \o Line("f") \o Line("u") \o Line("D"),
    Line("s") \o Line("c") \o Line("c") \o Line("m") \o Line("e"),
    <<"k", "n", "n">> \o Line("c") \o <<"d", "x", "x", "c", "n", "n">> \o Line("f"),
    <<"k", "k", "n">>, <<>> }
=============================================================================
