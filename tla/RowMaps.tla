------------------------------ MODULE RowMaps ------------------------------
(***************************************************************************)
(* A bitmap as its callers see it between two calls (LogStructure.h, class *)
(* BitMap): the set of rows of RowSet with the sentinel kept apart.  A     *)
(* full map also has the bits set before it became full, since merging a   *)
(* row whose bit is not set writes outside its array (BitMap.tla), after   *)
(* which nothing is promised: the result is Undefined.                     *)
(***************************************************************************)
CONSTANT Undefined

Partial(S) == [full |-> FALSE, rows |-> S]
Full(S)    == [full |-> TRUE, rows |-> S]
Empty(b)   == ~b.full /\ b.rows = {}

(* BitMap::Union(BitMap* )                                                 *)
Union(a, b) == CASE b.full                -> Full(a.rows)
                 [] ~b.full /\ ~a.full    -> Partial(a.rows \union b.rows)
                 [] ~b.full /\ a.full     -> IF b.rows \subseteq a.rows THEN a ELSE Undefined
=============================================================================
