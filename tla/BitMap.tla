------------------------------- MODULE BitMap -------------------------------
(***************************************************************************)
(* The class BitMap of cmdline_loggrep/LogStructure.h: a bitset, the array *)
(* Index of the rows in the order they were found, and Size, which is      *)
(* either the number of entries of Index in use or the sentinel            *)
(* DEF_BITMAP_FULL ("all rows", with the bitset and Index left as they     *)
(* were).  The loops that rewrite Index in place while they read it, and   *)
(* the loop that appends another map's rows, run one iteration per step.   *)
(*                                                                         *)
(* A map belongs either to a template (TotalSize = Count of the template)  *)
(* or to the exchange maps of the store (TotalSize = m_maxBitmapSize, at   *)
(* least that); the rows put in both are those of one template.  The       *)
(* machine stops at the first write outside Index, after which C++         *)
(* promises nothing.                                                       *)
(***************************************************************************)
EXTENDS Integers

CONSTANTS NRows,    \* Count of the template searched
          Maps,     \* the bitmaps in use
          Own,      \* those allocated with TotalSize = NRows
          FULL      \* DEF_BITMAP_FULL

ASSUME MapAssumption == /\ NRows \in Nat \ {0}
                        /\ Own \subseteq Maps
                        /\ FULL \in Int /\ FULL < -1

Row == 0 .. NRows - 1

VARIABLES bits,    \* bits[m]: the rows whose bit is set in Bitmap
          index,   \* index[m]: the array Index (its first NRows cells)
          size,    \* size[m]: Size
          op,      \* the loop in progress, or "idle"
          me, tgt, \* this and target of that loop
          i, n,    \* its loop variable and its bound tempSize
          keep,    \* the rows a filtering loop keeps
          wild     \* an entry was written outside Index

loop == <<op, me, tgt, i, n, keep>>
vars == <<bits, index, size, loop, wild>>

BeSizeFul(m) == size[m] = FULL \/ (m \in Own /\ size[m] = NRows)

Entries(m, a, b) == {index[m][j] : j \in a .. b - 1}
-----------------------------------------------------------------------------
Init == /\ bits = [m \in Maps |-> {}]
        /\ index = [m \in Maps |-> [j \in Row |-> 0]]
        /\ size = [m \in Maps |-> 0]
        /\ op = "idle"
        /\ me \in Maps /\ tgt \in Maps
        /\ i = 0 /\ n = 0 /\ keep = {}
        /\ wild = FALSE

Idle == op = "idle" /\ ~wild

(* Index[Size++] = pos                                                     *)
Inset(m, r) ==
  /\ size' = [size EXCEPT ![m] = @ + 1]
  /\ IF size[m] \in Row
     THEN index' = [index EXCEPT ![m][size[m]] = r] /\ UNCHANGED wild
     ELSE wild' = TRUE /\ UNCHANGED index

(* Mutant: Union(int pos) does not look at the bit.                        *)
UnionPosUnchecked(m, r) == bits' = [bits EXCEPT ![m] = @ \union {r}] /\ Inset(m, r)

(* BitMap::Union(int pos)                                                  *)
UnionPos(m, r) ==
  IF r \in bits[m]
  THEN UNCHANGED <<bits, index, size, wild>>
  ELSE bits' = [bits EXCEPT ![m] = @ \union {r}] /\ Inset(m, r)

Reset(m) == /\ Idle
            /\ bits' = [bits EXCEPT ![m] = {}]
            /\ size' = [size EXCEPT ![m] = 0]
            /\ UNCHANGED <<index, loop, wild>>

SetSize(m) == /\ Idle
              /\ size' = [size EXCEPT ![m] = FULL]
              /\ UNCHANGED <<bits, index, loop, wild>>

(* A search reports a row: every scan empties a full map before it starts. *)
Found(m, r) == /\ Idle
               /\ size[m] # FULL
               /\ UnionPos(m, r)
               /\ UNCHANGED loop

StartLoop(name, m, t, bound, K) ==
  op' = name /\ me' = m /\ tgt' = t /\ i' = 0 /\ n' = bound /\ keep' = K

(* Mutant: the sentinel in target is taken for a count.                    *)
UnionUnchecked(m, t) == /\ Idle
                        /\ StartLoop("union", m, t, size[t], {})
                        /\ UNCHANGED <<bits, index, size, wild>>

(* BitMap::Union(BitMap* target)                                           *)
Union(m, t) ==
  /\ Idle
  /\ IF size[t] = FULL
     THEN size' = [size EXCEPT ![m] = FULL] /\ UNCHANGED loop
     ELSE StartLoop("union", m, t, size[t], {}) /\ UNCHANGED size
  /\ UNCHANGED <<bits, index, wild>>

UnionStep == /\ op = "union" /\ ~wild /\ i < n
             /\ UnionPos(me, index[tgt][i])
             /\ i' = i + 1
             /\ UNCHANGED <<op, me, tgt, n, keep>>

(* Mutant: the loop appends after the entries it reads (no ResetSize).     *)
StartFilterAppending(m, t, K) == /\ StartLoop("filter", m, t, size[m], K)
                                 /\ UNCHANGED <<bits, index, size, wild>>

StartFilter(m, t, K) == /\ StartLoop("filter", m, t, size[m], K)
                        /\ size' = [size EXCEPT ![m] = 0]
                        /\ UNCHANGED <<bits, index, wild>>

(* BitMap::Complement(BitMap* target); its caller has checked Size > 0.    *)
(* target is not written while the loop runs.                              *)
Complement(m, t) ==
  /\ Idle
  /\ size[m] > 0
  /\ \/ /\ size[t] = FULL \/ (m \in Own /\ size[t] = NRows)
        /\ bits' = [bits EXCEPT ![m] = {}]
        /\ size' = [size EXCEPT ![m] = 0]
        /\ UNCHANGED <<index, loop, wild>>
     \/ /\ size[t] = 0
        /\ UNCHANGED vars
     \/ /\ size[t] > 0 /\ ~(m \in Own /\ size[t] = NRows)
        /\ StartFilter(m, t, Row \ bits[t])

(* The else branch of QueryInStrArray_BM and of the pushdown searches: the *)
(* listed rows are searched again and those that do not match dropped.     *)
Narrow(m, K) == /\ Idle
                /\ size[m] >= 0 /\ ~BeSizeFul(m)
                /\ StartFilter(m, m, K)

FilterStep == /\ op = "filter" /\ ~wild /\ i < n
              /\ LET r == index[me][i] IN
                   IF r \in keep
                   THEN Inset(me, r) /\ UNCHANGED bits
                   ELSE /\ bits' = [bits EXCEPT ![me] = @ \ {r}]
                        /\ UNCHANGED <<index, size, wild>>
              /\ i' = i + 1
              /\ UNCHANGED <<op, me, tgt, n, keep>>

(* BitMap::Reverse(), called on the map of a template.                     *)
Reverse(m) ==
  /\ Idle
  /\ m \in Own
  /\ \/ /\ size[m] = FULL
        /\ bits' = [bits EXCEPT ![m] = {}]
        /\ size' = [size EXCEPT ![m] = 0]
        /\ UNCHANGED <<index, loop, wild>>
     \/ /\ size[m] = 0
        /\ size' = [size EXCEPT ![m] = FULL]
        /\ UNCHANGED <<bits, index, loop, wild>>
     \/ /\ size[m] > 0
        /\ StartLoop("reverse", m, m, NRows, {})
        /\ size' = [size EXCEPT ![m] = 0]
        /\ UNCHANGED <<bits, index, wild>>

ReverseStep == /\ op = "reverse" /\ ~wild /\ i < n
               /\ IF i \in bits[me]
                  THEN /\ bits' = [bits EXCEPT ![me] = @ \ {i}]
                       /\ UNCHANGED <<index, size, wild>>
                  ELSE /\ bits' = [bits EXCEPT ![me] = @ \union {i}]
                       /\ Inset(me, i)
               /\ i' = i + 1
               /\ UNCHANGED <<op, me, tgt, n, keep>>

EndLoop == /\ op # "idle" /\ ~wild /\ i >= n
           /\ op' = "idle" /\ i' = 0 /\ n' = 0 /\ keep' = {}
           /\ UNCHANGED <<bits, index, size, me, tgt, wild>>

(* Mutant: CloneFrom copies Size and Index and not the bits.               *)
CloneFromIndex(m, t) ==
  /\ Idle
  /\ {m, t} \subseteq Own
  /\ size' = [size EXCEPT ![m] = size[t]]
  /\ bits' = [bits EXCEPT ![m] = {}]
  /\ index' = [index EXCEPT ![m] =
                 [j \in Row |-> IF j < size[t] THEN index[t][j] ELSE index[m][j]]]
  /\ UNCHANGED <<loop, wild>>

(* A new map and BitMap::CloneFrom, as DeepCloneMap calls them: the cells  *)
(* past Size stay as the allocator left them.                              *)
CloneFrom(m, t) ==
  /\ Idle
  /\ {m, t} \subseteq Own
  /\ size' = [size EXCEPT ![m] = size[t]]
  /\ bits' = [bits EXCEPT ![m] = bits[t]]
  /\ index' = [index EXCEPT ![m] =
                 [j \in Row |-> IF j < size[t] THEN index[t][j] ELSE index[m][j]]]
  /\ UNCHANGED <<loop, wild>>

Next == \/ \E m \in Maps :
             \/ Reset(m) \/ SetSize(m) \/ Reverse(m)
             \/ \E r \in Row : Found(m, r)
             \/ \E K \in SUBSET Row : Narrow(m, K)
             \/ \E t \in Maps \ {m} : Union(m, t) \/ Complement(m, t) \/ CloneFrom(m, t)
        \/ UnionStep \/ FilterStep \/ ReverseStep \/ EndLoop

Spec == Init /\ [][Next]_vars
-----------------------------------------------------------------------------
(* Every variable keeps its type: Size is the sentinel or a count that     *)
(* fits Index, unless an entry was written outside Index.                  *)
TypeOK == /\ bits \in [Maps -> SUBSET Row]
          /\ index \in [Maps -> [Row -> Row]]
          /\ size \in [Maps -> Int]
          /\ op \in {"idle", "union", "filter", "reverse"}
          /\ me \in Maps /\ tgt \in Maps
          /\ i \in 0 .. NRows /\ n \in 0 .. NRows
          /\ keep \in SUBSET Row
          /\ wild \in BOOLEAN
          /\ ~wild => \A m \in Maps : size[m] = FULL \/ size[m] \in 0 .. NRows

(* Between operations the three fields of a partial map tell the same      *)
(* story: the entries of Index in use are distinct and are exactly the     *)
(* rows whose bit is set (the Size printed as a count, the rows listed and *)
(* the bits consulted by Union and Complement agree).                      *)
Distinct(m, S) == \A j, k \in S : index[m][j] = index[m][k] => j = k

Agree(m) == size[m] # FULL => /\ bits[m] = Entries(m, 0, size[m])
                              /\ Distinct(m, 0 .. size[m] - 1)

RepOK == (op = "idle" /\ ~wild) => \A m \in Maps : Agree(m)

(* Index is overrun only by merging rows into a map whose Size is the      *)
(* sentinel (Union with this full and target partial).                     *)
OnlyFullOverruns == [][(wild' /\ ~wild) => (op = "union" /\ size[me] = FULL)]_vars

(* The rows a map stands for, and while a loop runs the rows it will stand *)
(* for when the loop ends.                                                 *)
Rows(m) ==
  IF size[m] < 0 THEN Row
  ELSE IF op = "idle" \/ m # me THEN bits[m]
  ELSE CASE op = "union"   -> bits[m] \union Entries(tgt, i, n)
         [] op = "filter"  -> Entries(m, 0, size[m]) \union (Entries(m, i, n) \intersect keep)
         [] op = "reverse" -> {r \in Row : (r < i) <=> (r \in bits[m])}

Sets == INSTANCE RowSet WITH rows <- [m \in Maps |-> Rows(m)], defined <- ~wild

(* BitMap implements RowSet: whatever the order of calls, each operation   *)
(* changes the set a map stands for as the set operation it is named for,  *)
(* at once, and no other map.                                              *)
ImplementsRowSet == Sets!Spec
=============================================================================
