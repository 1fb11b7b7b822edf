------------------------------ MODULE MCBitMap ------------------------------
(* A template of two rows with the map of a query and the clone of it kept *)
(* for the session, and an exchange map, which is larger.                  *)
EXTENDS BitMap

CONSTANTS map, clone, exchange

MCMaps == {map, clone, exchange}
MCOwn == {map, clone}
MCFull == -2
=============================================================================
