------------------------------ MODULE MCArchive -----------------------------
(* Two variables; no line that no template matched, one, three of which    *)
(* one is too many for one coffer, or a single line that is too long; at   *)
(* most two coffers fail.                                                  *)
EXTENDS Archive

MCUnmatched == {<<>>, <<1>>, <<1, 1, 1>>, <<4>>}
=============================================================================
