------------------------------- MODULE RowSet -------------------------------
(***************************************************************************)
(* What a BitMap (LogStructure.h) promises its callers: a set of row       *)
(* numbers that can be emptied, filled, added to, merged with another,     *)
(* narrowed, subtracted from, complemented and copied, each operation in   *)
(* one step.  BitMap.tla, which executes the loops of the class one        *)
(* iteration at a time, is shown to implement this specification.          *)
(***************************************************************************)
CONSTANTS Maps,   \* the bitmaps of a query
          Row     \* the row numbers of one template

VARIABLES rows,    \* rows[m]: the set of rows m stands for
          defined  \* FALSE once the program has written outside an array

vars == <<rows, defined>>

Init == /\ rows = [m \in Maps |-> {}]
        /\ defined = TRUE

Become(m, S) == /\ defined
                /\ rows' = [rows EXCEPT ![m] = S]
                /\ UNCHANGED defined

Clear(m)       == Become(m, {})
Fill(m)        == Become(m, Row)
Add(m, r)      == Become(m, rows[m] \union {r})
Merge(m, t)    == Become(m, rows[m] \union rows[t])
Subtract(m, t) == Become(m, rows[m] \ rows[t])
Keep(m, K)     == Become(m, rows[m] \intersect K)
Negate(m)      == Become(m, Row \ rows[m])
Copy(m, t)     == Become(m, rows[t])

(* Nothing is promised once rows are merged into a map that is full.       *)
Abandon(m) == /\ defined
              /\ rows[m] = Row
              /\ defined' = FALSE
              /\ UNCHANGED rows

Next == \E m \in Maps :
          \/ Clear(m) \/ Fill(m) \/ Negate(m) \/ Abandon(m)
          \/ \E r \in Row : Add(m, r)
          \/ \E K \in SUBSET Row : Keep(m, K)
          \/ \E t \in Maps \ {m} : Merge(m, t) \/ Subtract(m, t) \/ Copy(m, t)

Spec == Init /\ [][Next]_vars
=============================================================================
