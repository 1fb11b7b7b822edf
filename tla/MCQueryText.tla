---------------------------- MODULE MCQueryText -----------------------------
(* Queries of one to three segments, with terms of one word, of three      *)
(* arguments, and with stars; and all texts of up to three words that are  *)
(* operators or not, and some with delimiters or arguments too many.       *)
EXTENDS QueryText

CONSTANTS sp, eq, a, b, star, and, or, not

Plain  == << <<a>> >>
Other  == << <<b>> >>
Pair   == << <<a>>, <<eq>>, <<b>> >>
Inner  == << <<a, star, b>> >>
Behind == << <<a, star>> >>
Before == << <<star, b>> >>
Hidden == << <<and, star>> >>

Lists == {<<t>> : t \in {Plain, Other, Pair, Inner, Behind, Before, Hidden}}
         \union {<<Plain, Other>>, <<Pair, Plain>>, <<Behind, Pair, Other>>}
Seg(op, ts) == [op |-> op, terms |-> ts]

MCQueries ==
  {<<Seg("and", ts)>> : ts \in Lists}
  \union {<<Seg("not", <<t>>)>> : t \in {Plain, Pair}}
  \union {<<Seg("and", ts), Seg(op, <<t>>)>> :
            ts \in {<<Plain>>, <<Plain, Other>>, <<Inner>>, <<Before>>},
            op \in {"and", "not", "and not"}, t \in {Other, Pair}}
  \union {<<Seg("and", <<Plain>>), Seg(op1, <<Other>>), Seg(op2, <<Behind>>)>> :
            op1, op2 \in {"and", "not", "and not"}}
  \union {<<Seg("not", <<Plain>>), Seg("and", <<Plain, Other>>)>>}

WordSeqs == UNION {[1 .. n -> {a, and, or, not}] : n \in 1 .. 3}
Spaced(w) == [i \in 1 .. 2 * Len(w) - 1 |-> IF i % 2 = 1 THEN w[(i + 1) \div 2] ELSE sp]

MCBroken == {Spaced(w) : w \in WordSeqs}
            \union {<<sp, a>>, <<a, sp>>, <<sp, and, sp, a>>, <<a, sp, and, sp>>,
                    <<a, sp, sp, and, sp, b>>, <<star>>, <<star, sp, or, sp, a>>,
                    <<a, sp, not, sp, b, sp, or, sp, a>>, [i \in 1 .. 15 |-> IF i % 2 = 1 THEN a ELSE sp]}
=============================================================================
