---------------------------- MODULE MCLogicQuery ----------------------------
(* Two templates of two rows and two lines that match no template.  Of the *)
(* terms, err is in the constant text of template p and in the values of   *)
(* q; blk is contained in a sub-pattern of q, and in a value of a variable *)
(* before it; usr and tmp are values; usr*tmp is a wildcard term.  The two *)
(* tokens of two match at two places of p, at one of them in all rows.     *)
EXTENDS LogicQuery, TLC

CONSTANTS p, q, outl, err, blk, usr, tmp, star, two

MCPats == {p, q}
MCRow == (p :> {0, 1}) @@ (q :> {0, 1}) @@ (outl :> {0, 1})

Values(S)     == [text |-> FALSE, subpat |-> FALSE, overrun |-> FALSE, before |-> {}, rows |-> S]
Text          == [Values({}) EXCEPT !.text = TRUE]
Subpat(S)     == [Values(S) EXCEPT !.subpat = TRUE, !.before = S]
Twice(S)      == [Values(S) EXCEPT !.subpat = TRUE, !.overrun = TRUE]
In(mp, mq, S) == (p :> mp) @@ (q :> mq) @@ (outl :> Values(S))

MCMatch == (err :> In(Text, Values({0}), {0}))
        @@ (blk :> In(Values({1}), Subpat({0}), {}))
        @@ (usr :> In(Values({0}), Values({1}), {0, 1}))
        @@ (tmp :> In(Values({0, 1}), Values({}), {1}))
        @@ (star :> In(Values({0}), Values({}), {1}))
        @@ (two :> In(Twice({0}), Values({1}), {}))

MCTerms == {err, blk, usr, tmp, star, two}
MCWild == {star}
MCStem == star :> usr

OneOf(terms) == [neg |-> FALSE, terms |-> terms]
But(t)     == [neg |-> TRUE, terms |-> <<t>>]

Firsts == {OneOf(<<err>>), OneOf(<<blk>>), OneOf(<<usr>>),
           OneOf(<<usr, tmp>>), OneOf(<<err, usr>>), OneOf(<<usr, err>>), OneOf(<<usr, tmp, blk>>)}
Laters == {OneOf(<<err>>), OneOf(<<blk>>), OneOf(<<tmp>>), OneOf(<<err, usr>>), OneOf(<<tmp, usr>>),
           But(usr), But(err), But(blk)}

MCQueries == {<<s>> : s \in Firsts}
      \union {<<s, t>> : s \in Firsts, t \in Laters}
      \union {<<s, t, But(usr)>> : s \in {OneOf(<<err>>), OneOf(<<usr, tmp>>)},
                                   t \in {OneOf(<<tmp>>), OneOf(<<err, usr>>), But(blk)}}
      \union {<<But(usr), OneOf(<<err>>)>>}
      \union {<<OneOf(<<usr, star>>)>>, <<OneOf(<<star, usr>>)>>,
              <<OneOf(<<usr>>), OneOf(<<star>>)>>, <<OneOf(<<usr>>), But(star)>>,
              <<OneOf(<<star>>)>>, <<OneOf(<<star>>), OneOf(<<err>>)>>,
              <<OneOf(<<star>>), But(err)>>, <<OneOf(<<star, usr>>), OneOf(<<err>>)>>}
      \union {<<OneOf(<<two>>)>>, <<OneOf(<<two, usr>>)>>, <<OneOf(<<usr, two>>)>>,
              <<OneOf(<<usr>>), OneOf(<<two>>)>>, <<OneOf(<<err>>), OneOf(<<two>>)>>,
              <<OneOf(<<usr>>), But(two)>>, <<OneOf(<<err>>), But(two)>>}

OrQueries == {<<OneOf(<<usr, err>>)>>, <<OneOf(<<usr, err>>), OneOf(<<tmp>>)>>}
=============================================================================
