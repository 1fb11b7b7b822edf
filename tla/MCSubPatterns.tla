--------------------------- MODULE MCSubPatterns ---------------------------
(* Four values of up to five characters, of which three are sampled: with  *)
(* delimiters, with a substring in common, of one length but for one, and  *)
(* with an empty part; two of the three are most of the sample.            *)
EXTENDS SubPatterns, TLC

MCClass == "1" :> "digit" @@ "2" :> "digit" @@ "b" :> "af" @@ "x" :> "gz" @@ "." :> "symbol"

MCPool == {<<"1">>, <<"1", "2">>, <<"1", "2", "1">>, <<"1", ".", "2">>, <<".", "2">>, <<"2", ".">>,
           <<"x", "b", "1", "2">>, <<"x", "b", "1", "x">>, <<"2", "x", "b", "1", "x">>,
           <<"1", ".", "2", ".", "b">>}

MCInputs == [1 .. 4 -> MCPool]
=============================================================================
