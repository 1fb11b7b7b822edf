--------------------------- MODULE MCStringSearch ---------------------------
(* Rows of five characters.  Wide columns: any value of a and b up to that *)
(* length, before a short one, for the jumps within a row.  Tall ones:     *)
(* three rows of short values, for the order of bitmaps and for padding    *)
(* skipped into the next row.                                              *)
EXTENDS StringSearch, TLC

Strings(n) == UNION {[1 .. k -> {"a", "b"}] : k \in 0 .. n}

Short == {<<>>, <<"b">>, <<"a", "b">>, <<"b", "a", "b">>}

Tall == {<<u, v, w>> : u \in Short, v \in Short, w \in Short}
Wide == {<<v, w>> : v \in Strings(5), w \in {<<"a", "b">>}}

MCColumns  == Tall \union Wide
MCPatterns ==
  [c \in MCColumns |->
     IF c \in Tall THEN {<<" ">>, <<"b">>, <<"a", "b">>}
     ELSE {<<"a", "a">>, <<"a", "b", "a">>, <<"b", "b", "a", "b">>, <<"a", "b", "a", "b">>,
           <<"a", "a", "b", "a", "b">>, <<"b", "a", "a", "b", "a", "b">>}]

(* A value and the only string searched for in it, for the violation       *)
RepeatColumns  == {<<v>> : v \in Strings(5)}
RepeatPatterns == [c \in RepeatColumns |-> {<<"a", "a", "a">>}]
=============================================================================
