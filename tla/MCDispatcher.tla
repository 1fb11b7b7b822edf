---------------------------- MODULE MCDispatcher ----------------------------
(* A directory with a damaged archive between two that load, one with only *)
(* a damaged archive, and one with more archives than there are slots.     *)
EXTENDS Dispatcher, TLC

CONSTANTS mixed, damaged, large

MCDirs == {mixed, damaged, large}
MCArchives == (mixed :> <<TRUE, FALSE, TRUE>>) @@ (damaged :> <<FALSE>>)
           @@ (large :> <<TRUE, TRUE, TRUE>>)
MCFull == -99
MCOutCounts == {0, 1, 3}
MCPatCounts == {<<>>, <<1>>, <<0, 2>>, <<3, 1>>}
=============================================================================
