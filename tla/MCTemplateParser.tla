-------------------------- MODULE MCTemplateParser --------------------------
(* Logs of four lines, of which the last three may be sampled.  The lines  *)
(* differ in one word or two; one word begins another; the delimiters of   *)
(* some are the words of others; one has tabs, one reads like a variable,  *)
(* one is blank.  Two variables fit in a name.                             *)
EXTENDS TemplateParser, TLC

T(s) == [i \in 1 .. Len(s) |-> <<s[i]>>]

Long == <<<<"a">>, <<":">>, <<"a", "b">>, <<":">>>>

MCPool == {<<>>, T(<<"a", ":", "a", ":">>), T(<<"b", ":", "a", ":">>), T(<<"b", ":", "b", ":">>), Long,
           T(<<"a", ":", "a", ":", "a">>), T(<<"a", ":", "b", ":", "a">>), T(<<"a", ":", "a", ":", "b">>),
           T(<<"b", ":", "a", ":", "b">>),
           T(<<"a", ":", ":">>), T(<<"a", ":", "b">>), T(<<"V", ":", "b">>),
           T(<<"a", " ", ":", "b", ":">>), T(<<"t", "b", ":", "b", ":">>), T(<<":", "b", ":", "b", ":">>)}

MCFirst  == {<<>>, Long, T(<<"a", ":", "b">>), T(<<"a", ":", "b", ":", "a">>)}
MCInputs == {text \in [1 .. 4 -> MCPool] : text[1] \in MCFirst}
MCDelims == {<<":">>, <<" ">>, <<"t">>}
MCTab    == <<"t">>
MCMarks  == <<"V">> :> 0
=============================================================================
