-------------------------- MODULE MCPatternSearch --------------------------
(* Three rows, in templates of up to five segments.  twice: three tokens   *)
(* that lie on the template in two ways, and share a variable; mixed: a    *)
(* way that the text alone decides after one that it does not; one: a      *)
(* single token, looked for in each kind of variable.                      *)
EXTENDS PatternSearch, TLC

MCRows == {0, 1, 2}

Twice == [segs |-> <<"svar", "delim", "svar", "delim", "dic">>,
          toks |-> <<"word", "delim", "word">>,
          text |-> {<<2, 2>>, <<4, 2>>},
          outliers |-> <<{0}, {}, {1}, {}, {}>>]
Mixed == [segs |-> <<"svar", "delim", "const", "delim", "const">>,
          toks |-> <<"word", "delim", "word">>,
          text |-> {<<2, 2>>, <<3, 1>>, <<3, 3>>, <<4, 2>>, <<5, 3>>},
          outliers |-> <<{0}, {}, {}, {}, {}>>]
One   == [segs |-> <<"svar", "delim", "var", "const", "dic">>,
          toks |-> <<"word">>,
          text |-> {},
          outliers |-> <<{0}, {}, {}, {}, {}>>]
Named == [One EXCEPT !.text = {<<4, 1>>}]

MCPatterns == {Twice, Mixed, One, Named}
MCLeftovers == {Partial({}), Partial({1}), Partial({0, 2})}
=============================================================================
