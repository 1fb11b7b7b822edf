---------------------------- MODULE BitMapProofs ----------------------------
(***************************************************************************)
(* TLAPS proofs about BitMap, for every number of rows, every set of maps  *)
(* and every negative sentinel: the representation invariant, the absence  *)
(* of overruns but in Union with a full receiver, and that the loops       *)
(* implement the set operations of RowSet.                                 *)
(***************************************************************************)
EXTENDS BitMap, FiniteSetTheorems, TLAPS

(* What holds inside the loops.  A union reads a map it does not write.  A *)
(* filter has compacted the entries it keeps to the front of Index, never  *)
(* past the entry it reads.  A reverse has listed the rows newly set.      *)
UnionInv == /\ me # tgt /\ i <= n
            /\ size[tgt] = n
            /\ \A m \in Maps : Agree(m)

FilterInv == /\ size[me] \in 0 .. i /\ i <= n
             /\ bits[me] = Entries(me, 0, size[me]) \union Entries(me, i, n)
             /\ Distinct(me, (0 .. size[me] - 1) \union (i .. n - 1))
             /\ \A m \in Maps \ {me} : Agree(m)

ReverseInv == /\ size[me] \in 0 .. i /\ i <= n /\ n = NRows
              /\ {r \in bits[me] : r < i} = Entries(me, 0, size[me])
              /\ Distinct(me, 0 .. size[me] - 1)
              /\ \A m \in Maps \ {me} : Agree(m)

LoopInv == /\ op = "idle"    => \A m \in Maps : Agree(m)
           /\ op = "union"   => UnionInv
           /\ op = "filter"  => FilterInv
           /\ op = "reverse" => ReverseInv

IInv == TypeOK /\ (~wild => LoopInv)
-----------------------------------------------------------------------------
(* Index has a free cell for a row whose bit is not set.                   *)
LEMMA Room ==
  ASSUME TypeOK, NEW m \in Maps, Agree(m), size[m] \in 0 .. NRows,
         NEW r \in Row, r \notin bits[m]
  PROVE  size[m] < NRows
<1> SUFFICES ASSUME size[m] = NRows PROVE FALSE
  BY MapAssumption DEF TypeOK
<1> DEFINE T == Row \ {r}
<1>1. /\ IsFiniteSet(Row) /\ Cardinality(Row) = NRows
  <2>1. 0 \in Int /\ NRows - 1 \in Int /\ ~(0 > NRows - 1)
    BY MapAssumption
  <2>2. /\ IsFiniteSet(0 .. NRows - 1)
        /\ Cardinality(0 .. NRows - 1) = NRows - 1 - 0 + 1
    BY <2>1, FS_Interval, Zenon
  <2>3. QED
    BY <2>2, MapAssumption DEF Row
<1>2. IsFiniteSet(T) /\ Cardinality(T) < Cardinality(Row)
  <2>1. IsFiniteSet(T) /\ Cardinality(T) = Cardinality(Row) - 1
    BY <1>1, FS_RemoveElement, Zenon
  <2>2. QED
    BY <1>1, <2>1, MapAssumption
<1>3. index[m] \in [Row -> T]
  <2>1. index[m] \in [Row -> Row]
    BY DEF TypeOK
  <2>2. NRows # FULL /\ 0 .. NRows - 1 = Row
    BY MapAssumption DEF Row
  <2>3. \A j \in Row : index[m][j] # r
    BY <2>2 DEF Agree, Entries
  <2>4. \A j \in Row : index[m][j] \in T
    BY <2>1, <2>3
  <2>5. QED
    BY <2>1, <2>4
<1>4. \E j, k \in Row : j # k /\ index[m][j] = index[m][k]
  <2>1. \A f \in [Row -> T] : \E j, k \in Row : j # k /\ f[j] = f[k]
    <3>1. IsFiniteSet(T) /\ Cardinality(T) < Cardinality(Row) /\ IsFiniteSet(Row)
      BY <1>1, <1>2
    <3>2. QED
      BY ONLY <3>1, FS_PigeonHole, Zenon
  <2>2. QED
    BY <1>3, <2>1
<1>5. Distinct(m, Row)
  BY MapAssumption DEF Agree, Row
<1>6. QED
  BY <1>4, <1>5 DEF Distinct

(* Union(int pos) on a partial map adds the row and stays within Index.    *)
LEMMA UnionPosAdds ==
  ASSUME TypeOK, ~wild, NEW m \in Maps, Agree(m), size[m] # FULL,
         NEW r \in Row, UnionPos(m, r)
  PROVE  /\ wild' = wild /\ Agree(m)'
         /\ bits' = [bits EXCEPT ![m] = @ \union {r}]
         /\ size' \in [Maps -> Int] /\ size'[m] \in 0 .. NRows
         /\ index' \in [Maps -> [Row -> Row]]
         /\ \A k \in Maps \ {m} : size'[k] = size[k] /\ index'[k] = index[k]
<1>1. size[m] \in 0 .. NRows
  BY DEF TypeOK
<1>2. CASE r \in bits[m]
  BY <1>1, <1>2 DEF UnionPos, TypeOK, Agree, Entries, Distinct
<1>3. CASE r \notin bits[m]
  <2>1. size[m] \in Row
    BY <1>1, <1>3, Room, MapAssumption DEF Row
  <2>2. /\ size' = [size EXCEPT ![m] = @ + 1]
        /\ index' = [index EXCEPT ![m][size[m]] = r]
        /\ wild' = wild
        /\ bits' = [bits EXCEPT ![m] = @ \union {r}]
    BY <1>3, <2>1 DEF UnionPos, Inset
  <2>3. /\ size'[m] = size[m] + 1
        /\ \A j \in 0 .. size[m] - 1 : index'[m][j] = index[m][j]
        /\ index'[m][size[m]] = r
        /\ bits'[m] = bits[m] \union {r}
    <3>1. /\ size \in [Maps -> Int] /\ index \in [Maps -> [Row -> Row]]
          /\ bits \in [Maps -> SUBSET Row]
      BY DEF TypeOK
    <3>2. 0 .. size[m] - 1 \subseteq Row /\ size[m] \notin 0 .. size[m] - 1
      BY <2>1, MapAssumption DEF Row
    <3>3. index'[m] = [index[m] EXCEPT ![size[m]] = r]
      BY <2>2, <3>1
    <3>4. QED
      BY <2>1, <2>2, <3>1, <3>2, <3>3
  <2>4. r \notin Entries(m, 0, size[m]) /\ Distinct(m, 0 .. size[m] - 1)
        /\ bits[m] = Entries(m, 0, size[m])
    BY <1>3 DEF Agree
  <2>5. Entries(m, 0, size[m])' = Entries(m, 0, size[m]) \union {r}
    <3>1. 0 .. size'[m] - 1 = (0 .. size[m] - 1) \union {size[m]}
      BY <1>1, <2>3, MapAssumption
    <3>2. QED
      BY <2>3, <3>1 DEF Entries
  <2>6. Distinct(m, 0 .. size[m] - 1)'
    BY <1>1, <2>3, <2>4 DEF Distinct, Entries
  <2>7. Agree(m)'
    BY <2>3, <2>4, <2>5, <2>6 DEF Agree, Distinct
  <2>8. size' \in [Maps -> Int] /\ size'[m] \in 0 .. NRows
    <3>1. size[m] + 1 \in 0 .. NRows /\ size[m] + 1 \in Int
      BY <2>1, MapAssumption DEF Row
    <3>2. size \in [Maps -> Int]
      BY DEF TypeOK
    <3>3. QED
      BY <2>2, <2>3, <3>1, <3>2
  <2>9. index' \in [Maps -> [Row -> Row]]
    BY <2>1, <2>2 DEF TypeOK
  <2>10. \A k \in Maps \ {m} : size'[k] = size[k] /\ index'[k] = index[k]
    BY <2>2 DEF TypeOK
  <2>11. QED
    BY <2>2, <2>7, <2>8, <2>9, <2>10
<1>4. QED
  BY <1>2, <1>3

(* A map that is not touched still agrees.                                 *)
LEMMA Frame ==
  ASSUME NEW k \in Maps, Agree(k),
         bits'[k] = bits[k], index'[k] = index[k], size'[k] = size[k]
  PROVE  Agree(k)'
BY DEF Agree, Entries, Distinct

(* An empty or a full map agrees whatever its array holds.                 *)
LEMMA EmptyOrFull ==
  ASSUME NEW k \in Maps,
         size'[k] = FULL \/ (size'[k] = 0 /\ bits'[k] = {})
  PROVE  Agree(k)'
BY MapAssumption DEF Agree, Entries, Distinct

(* The single-step operations keep every map in agreement.                 *)
LEMMA SimpleOps ==
  ASSUME TypeOK, ~wild, op = "idle", \A k \in Maps : Agree(k), NEW m \in Maps,
         \/ Reset(m) \/ SetSize(m)
         \/ \E r \in Row : Found(m, r)
         \/ \E t \in Maps : CloneFrom(m, t)
  PROVE  IInv'
<1>1. CASE Reset(m)
  <2>1. TypeOK' /\ ~wild' /\ op' = "idle"
    BY <1>1, MapAssumption DEF Reset, loop, TypeOK
  <2>2. \A k \in Maps \ {m} : Agree(k)'
    BY <1>1, Frame DEF Reset, TypeOK
  <2>3. Agree(m)'
    BY <1>1, EmptyOrFull DEF Reset, TypeOK
  <2>4. QED
    BY <2>1, <2>2, <2>3 DEF IInv, LoopInv
<1>2. CASE SetSize(m)
  <2>1. TypeOK' /\ ~wild' /\ op' = "idle"
    BY <1>2, MapAssumption DEF SetSize, loop, TypeOK
  <2>2. \A k \in Maps \ {m} : Agree(k)'
    BY <1>2, Frame DEF SetSize, TypeOK
  <2>3. Agree(m)'
    BY <1>2, EmptyOrFull DEF SetSize, TypeOK
  <2>4. QED
    BY <2>1, <2>2, <2>3 DEF IInv, LoopInv
<1>3. ASSUME NEW r \in Row, Found(m, r) PROVE IInv'
  <2>1. /\ wild' = wild /\ Agree(m)'
        /\ bits' = [bits EXCEPT ![m] = @ \union {r}]
        /\ size' \in [Maps -> Int] /\ size'[m] \in 0 .. NRows
        /\ index' \in [Maps -> [Row -> Row]]
        /\ \A k \in Maps \ {m} : size'[k] = size[k] /\ index'[k] = index[k]
    <3>1. UnionPos(m, r) /\ size[m] # FULL /\ Agree(m)
      BY <1>3 DEF Found
    <3>2. QED
      BY <3>1, UnionPosAdds
  <2>2. TypeOK' /\ op' = "idle"
    <3>1. bits' \in [Maps -> SUBSET Row]
      BY <2>1 DEF TypeOK
    <3>2. \A k \in Maps : size'[k] = FULL \/ size'[k] \in 0 .. NRows
      BY <2>1 DEF TypeOK
    <3>3. UNCHANGED <<op, me, tgt, i, n, keep>>
      BY <1>3 DEF Found, loop
    <3>4. QED
      BY <2>1, <3>1, <3>2, <3>3 DEF TypeOK
  <2>3. \A k \in Maps \ {m} : Agree(k)'
    BY <2>1, Frame DEF TypeOK
  <2>4. QED
    BY <2>1, <2>2, <2>3 DEF IInv, LoopInv
<1>4. ASSUME NEW t \in Maps, CloneFrom(m, t) PROVE IInv'
  <2>1. /\ size' = [size EXCEPT ![m] = size[t]]
        /\ bits' = [bits EXCEPT ![m] = bits[t]]
        /\ index' = [index EXCEPT ![m] =
                       [j \in Row |-> IF j < size[t] THEN index[t][j] ELSE index[m][j]]]
        /\ wild' = wild /\ UNCHANGED loop
    BY <1>4 DEF CloneFrom
  <2>2. index' \in [Maps -> [Row -> Row]]
    BY <2>1 DEF TypeOK
  <2>3. TypeOK' /\ ~wild' /\ op' = "idle"
    BY <2>1, <2>2 DEF loop, TypeOK
  <2>4. \A k \in Maps \ {m} : Agree(k)'
    BY <2>1, Frame DEF TypeOK
  <2>5. Agree(m)'
    <3>1. /\ size'[m] = size[t] /\ bits'[m] = bits[t]
          /\ index'[m] = [j \in Row |-> IF j < size[t] THEN index[t][j] ELSE index[m][j]]
      BY <2>1 DEF TypeOK
    <3>2. size[t] # FULL => 0 .. size[t] - 1 \subseteq Row
      BY MapAssumption DEF Row, TypeOK
    <3>3. ASSUME size[t] # FULL, NEW j \in 0 .. size[t] - 1
          PROVE  index'[m][j] = index[t][j]
      <4>1. j \in Row /\ j < size[t]
        BY <3>2, <3>3 DEF TypeOK
      <4>2. QED
        BY <3>1, <4>1
    <3>4. Agree(t)
      OBVIOUS
    <3>5. CASE size[t] = FULL
      BY <3>1, <3>5 DEF Agree
    <3>6. CASE size[t] # FULL
      <4>1. Entries(m, 0, size[m])' = Entries(t, 0, size[t])
        BY <3>1, <3>3, <3>6 DEF Entries
      <4>2. Distinct(m, 0 .. size[m] - 1)'
        BY <3>1, <3>3, <3>4, <3>6 DEF Distinct, Agree
      <4>3. QED
        BY <3>1, <3>4, <3>6, <4>1, <4>2 DEF Agree
    <3>7. QED
      BY <3>5, <3>6
  <2>6. QED
    BY <2>3, <2>4, <2>5 DEF IInv, LoopInv
<1>5. QED
  BY <1>1, <1>2, <1>3, <1>4

(* Starting a filter: Index is still whole and nothing has been kept yet.  *)
LEMMA FilterStarts ==
  ASSUME TypeOK, ~wild, \A k \in Maps : Agree(k),
         NEW m \in Maps, NEW t \in Maps, NEW K \in SUBSET Row,
         size[m] \in 0 .. NRows, StartFilter(m, t, K)
  PROVE  IInv'
<1>1. /\ op' = "filter" /\ me' = m /\ tgt' = t /\ i' = 0 /\ n' = size[m]
      /\ keep' = K /\ size' = [size EXCEPT ![m] = 0]
      /\ bits' = bits /\ index' = index /\ wild' = wild
  BY DEF StartFilter, StartLoop
<1>2. size'[m] = 0 /\ \A k \in Maps \ {m} : size'[k] = size[k]
  BY <1>1 DEF TypeOK
<1>3. TypeOK'
  <2>1. size' \in [Maps -> Int] /\ \A k \in Maps : size'[k] = FULL \/ size'[k] \in 0 .. NRows
    BY <1>1, <1>2, MapAssumption DEF TypeOK
  <2>2. 0 \in 0 .. NRows
    BY MapAssumption
  <2>3. QED
    BY <1>1, <2>1, <2>2 DEF TypeOK
<1>4. \A k \in Maps \ {m} : Agree(k)'
  BY <1>1, <1>2, Frame
<1>5. bits[m] = Entries(m, 0, size[m]) /\ Distinct(m, 0 .. size[m] - 1)
  BY MapAssumption DEF Agree
<1>6. FilterInv'
  <2>1. 0 .. 0 - 1 = {} /\ 0 \in 0 .. 0 /\ 0 <= size[m]
    BY MapAssumption
  <2>2. bits'[m] = Entries(m, 0, 0)' \union Entries(m, 0, n)'
    BY <1>1, <1>5, <2>1 DEF Entries
  <2>3. Distinct(m, (0 .. 0 - 1) \union (0 .. n - 1))'
    BY <1>1, <1>5, <2>1 DEF Distinct
  <2>4. size'[me'] \in 0 .. i' /\ i' <= n'
    BY <1>1, <1>2, <2>1
  <2>5. bits'[me'] = Entries(me, 0, size[me])' \union Entries(me, i, n)'
    BY <1>1, <1>2, <2>2 DEF Entries
  <2>6. Distinct(me, (0 .. size[me] - 1) \union (i .. n - 1))'
    BY <1>1, <1>2, <2>3 DEF Distinct
  <2>7. QED
    BY <1>1, <1>4, <2>4, <2>5, <2>6 DEF FilterInv
<1>7. QED
  BY <1>1, <1>3, <1>6 DEF IInv, LoopInv

(* The operations that merge, subtract, narrow and complement.             *)
LEMMA LoopStarts ==
  ASSUME TypeOK, ~wild, op = "idle", \A k \in Maps : Agree(k), NEW m \in Maps,
         \/ Reverse(m)
         \/ \E K \in SUBSET Row : Narrow(m, K)
         \/ \E t \in Maps \ {m} : Union(m, t) \/ Complement(m, t)
  PROVE  IInv'
<1>1. size[m] = FULL \/ size[m] \in 0 .. NRows
  BY DEF TypeOK
<1>2. ASSUME size' = [size EXCEPT ![m] = FULL],
             UNCHANGED <<bits, index, loop, wild>>
      PROVE  IInv'
  <2>1. TypeOK' /\ ~wild' /\ op' = "idle"
    BY <1>2, MapAssumption DEF loop, TypeOK
  <2>2. \A k \in Maps \ {m} : Agree(k)'
    BY <1>2, Frame DEF TypeOK
  <2>3. Agree(m)'
    BY <1>2, EmptyOrFull DEF TypeOK
  <2>4. QED
    BY <2>1, <2>2, <2>3 DEF IInv, LoopInv
<1>3. ASSUME bits' = [bits EXCEPT ![m] = {}], size' = [size EXCEPT ![m] = 0],
             UNCHANGED <<index, loop, wild>>
      PROVE  IInv'
  <2>1. TypeOK' /\ ~wild' /\ op' = "idle"
    BY <1>3, MapAssumption DEF loop, TypeOK
  <2>2. \A k \in Maps \ {m} : Agree(k)'
    BY <1>3, Frame DEF TypeOK
  <2>3. Agree(m)'
    BY <1>3, EmptyOrFull DEF TypeOK
  <2>4. QED
    BY <2>1, <2>2, <2>3 DEF IInv, LoopInv
<1>4. ASSUME NEW t \in Maps \ {m}, Union(m, t) PROVE IInv'
  <2>1. CASE size[t] = FULL
    BY <1>2, <1>4, <2>1 DEF Union
  <2>2. CASE size[t] # FULL
    <3>1. /\ op' = "union" /\ me' = m /\ tgt' = t /\ i' = 0 /\ n' = size[t]
          /\ keep' = {} /\ UNCHANGED <<bits, index, size, wild>>
      BY <1>4, <2>2 DEF Union, StartLoop
    <3>2. size[t] \in 0 .. NRows /\ 0 \in 0 .. NRows
      BY <2>2, MapAssumption DEF TypeOK
    <3>3. TypeOK'
      BY <3>1, <3>2 DEF TypeOK
    <3>4. UnionInv'
      BY <3>1, <3>2, <1>4, Frame DEF UnionInv
    <3>5. QED
      BY <3>1, <3>3, <3>4 DEF IInv, LoopInv
  <2>3. QED
    BY <2>1, <2>2
<1>5. ASSUME NEW t \in Maps \ {m}, Complement(m, t) PROVE IInv'
  <2>1. CASE bits' = [bits EXCEPT ![m] = {}] /\ size' = [size EXCEPT ![m] = 0]
             /\ UNCHANGED <<index, loop, wild>>
    BY <1>3, <2>1
  <2>2. CASE UNCHANGED vars
    BY <2>2 DEF vars, loop, IInv, LoopInv, TypeOK, Agree, Entries, Distinct
  <2>3. CASE StartFilter(m, t, Row \ bits[t])
    <3>1. size[m] \in 0 .. NRows
      BY <1>1, <1>5, MapAssumption DEF Complement
    <3>2. QED
      BY <2>3, <3>1, FilterStarts
  <2>4. QED
    BY <1>5, <2>1, <2>2, <2>3 DEF Complement
<1>6. ASSUME NEW K \in SUBSET Row, Narrow(m, K) PROVE IInv'
  <2>1. size[m] \in 0 .. NRows /\ StartFilter(m, m, K)
    BY <1>1, <1>6, MapAssumption DEF Narrow
  <2>2. QED
    BY <2>1, FilterStarts
<1>7. ASSUME Reverse(m) PROVE IInv'
  <2>1. CASE size[m] = FULL
    BY <1>3, <1>7, <2>1, MapAssumption DEF Reverse
  <2>2. CASE size[m] = 0
    BY <1>2, <1>7, <2>2, MapAssumption DEF Reverse
  <2>3. CASE size[m] # FULL /\ size[m] # 0
    <3>1. /\ op' = "reverse" /\ me' = m /\ tgt' = m /\ i' = 0 /\ n' = NRows
          /\ keep' = {} /\ UNCHANGED <<bits, index, wild>>
          /\ size' = [size EXCEPT ![m] = 0]
      BY <1>7, <2>3 DEF Reverse, StartLoop
    <3>2. size'[m] = 0 /\ \A k \in Maps \ {m} : size'[k] = size[k]
      BY <3>1 DEF TypeOK
    <3>3. /\ size' \in [Maps -> Int]
          /\ \A k \in Maps : size'[k] = FULL \/ size'[k] \in 0 .. NRows
          /\ 0 \in 0 .. NRows /\ NRows \in 0 .. NRows
      BY <3>1, <3>2, MapAssumption DEF TypeOK
    <3>4. TypeOK'
      BY <3>1, <3>3 DEF TypeOK
    <3>5. \A k \in Maps \ {m} : Agree(k)'
      BY <3>1, <3>2, Frame
    <3>6. {r \in bits[m] : r < 0} = {}
      BY DEF TypeOK, Row
    <3>7. ReverseInv'
      BY <3>1, <3>2, <3>5, <3>6, MapAssumption DEF ReverseInv, Entries, Distinct
    <3>8. QED
      BY <3>1, <3>4, <3>7 DEF IInv, LoopInv
  <2>4. QED
    BY <2>1, <2>2, <2>3
<1>8. QED
  BY <1>4, <1>5, <1>6, <1>7

(* One more row of the target merged.                                      *)
LEMMA UnionStepKeeps ==
  ASSUME IInv, UnionStep
  PROVE  IInv' \/ (wild' /\ size[me] = FULL /\ TypeOK')
<1>1. /\ TypeOK /\ ~wild /\ op = "union" /\ i < n /\ UnionInv
      /\ UnionPos(me, index[tgt][i]) /\ i' = i + 1
      /\ UNCHANGED <<op, me, tgt, n, keep>>
  BY DEF IInv, LoopInv, UnionStep
<1>2. /\ me \in Maps /\ tgt \in Maps /\ me # tgt /\ i \in Row
      /\ index[tgt][i] \in Row /\ i' \in 0 .. NRows /\ i' <= n
  <2>1. /\ me \in Maps /\ tgt \in Maps /\ i \in 0 .. NRows /\ n \in 0 .. NRows
        /\ index \in [Maps -> [Row -> Row]] /\ me # tgt
    BY <1>1 DEF TypeOK, UnionInv
  <2>2. i \in Row /\ i' \in 0 .. NRows /\ i' <= n
    BY <1>1, <2>1, MapAssumption DEF Row
  <2>3. QED
    BY <2>1, <2>2
<1>3. CASE size[me] = FULL
  <2>1. /\ bits' \in [Maps -> SUBSET Row] /\ size' \in [Maps -> Int]
        /\ index' \in [Maps -> [Row -> Row]] /\ wild' \in BOOLEAN
        /\ (~wild' => size' = size)
        /\ \A k \in Maps \ {me} : bits'[k] = bits[k] /\ index'[k] = index[k]
                                  /\ size'[k] = size[k]
    <3>1. /\ bits \in [Maps -> SUBSET Row] /\ size \in [Maps -> Int]
          /\ index \in [Maps -> [Row -> Row]] /\ wild \in BOOLEAN
      BY <1>1 DEF TypeOK
    <3>2. size[me] \notin Row
      BY <1>3, MapAssumption DEF Row
    <3>3. \/ UNCHANGED <<bits, index, size, wild>>
          \/ /\ bits' = [bits EXCEPT ![me] = @ \union {index[tgt][i]}]
             /\ size' = [size EXCEPT ![me] = @ + 1]
             /\ index' = index /\ wild' = TRUE
      BY <1>1, <3>2 DEF UnionPos, Inset
    <3>4. CASE UNCHANGED <<bits, index, size, wild>>
      BY <3>1, <3>4
    <3>5. CASE /\ bits' = [bits EXCEPT ![me] = @ \union {index[tgt][i]}]
               /\ size' = [size EXCEPT ![me] = @ + 1]
               /\ index' = index /\ wild' = TRUE
      <4>1. bits' \in [Maps -> SUBSET Row]
        BY <1>2, <3>1, <3>5
      <4>2. size' \in [Maps -> Int]
        BY <1>2, <3>1, <3>5
      <4>3. QED
        BY <1>2, <3>1, <3>5, <4>1, <4>2
    <3>6. QED
      BY <3>3, <3>4, <3>5
  <2>2. TypeOK'
    BY <1>1, <1>2, <2>1 DEF TypeOK
  <2>3. ASSUME ~wild' PROVE UnionInv'
    <3>1. \A k \in Maps \ {me} : Agree(k)'
      BY <1>1, <2>1, Frame DEF UnionInv
    <3>2. Agree(me)'
      BY <1>1, <1>2, <1>3, <2>1, <2>3, EmptyOrFull
    <3>3. QED
      BY <1>1, <1>2, <2>1, <3>1, <3>2 DEF UnionInv
  <2>4. QED
    BY <1>1, <1>3, <2>1, <2>2, <2>3 DEF IInv, LoopInv
<1>4. CASE size[me] # FULL
  <2>1. Agree(me) /\ \A k \in Maps : Agree(k)
    BY <1>1, <1>2 DEF UnionInv
  <2>2. /\ wild' = wild /\ Agree(me)'
        /\ bits' = [bits EXCEPT ![me] = @ \union {index[tgt][i]}]
        /\ size' \in [Maps -> Int] /\ size'[me] \in 0 .. NRows
        /\ index' \in [Maps -> [Row -> Row]]
        /\ \A k \in Maps \ {me} : size'[k] = size[k] /\ index'[k] = index[k]
    BY <1>1, <1>2, <1>4, <2>1, UnionPosAdds
  <2>3. /\ bits' \in [Maps -> SUBSET Row]
        /\ \A k \in Maps \ {me} : bits'[k] = bits[k]
    BY <1>1, <1>2, <2>2 DEF TypeOK
  <2>4. \A k \in Maps : size'[k] = FULL \/ size'[k] \in 0 .. NRows
    BY <1>1, <2>2 DEF TypeOK
  <2>5. TypeOK'
    BY <1>1, <1>2, <2>2, <2>3, <2>4 DEF TypeOK
  <2>6. \A k \in Maps \ {me} : Agree(k)'
    BY <2>1, <2>2, <2>3, Frame
  <2>7. UnionInv'
    BY <1>1, <1>2, <2>2, <2>6 DEF UnionInv
  <2>8. QED
    BY <1>1, <2>5, <2>7 DEF IInv, LoopInv
<1>5. QED
  BY <1>3, <1>4

(* One more entry kept at the front of Index, or dropped.                  *)
LEMMA FilterStepKeeps ==
  ASSUME IInv, FilterStep
  PROVE  IInv' /\ wild' = wild
<1> DEFINE s == size[me]
           r == index[me][i]
<1>1. /\ TypeOK /\ ~wild /\ op = "filter" /\ i < n /\ FilterInv
      /\ i' = i + 1 /\ UNCHANGED <<op, me, tgt, n, keep>>
  BY DEF IInv, LoopInv, FilterStep
<1>2. /\ me \in Maps /\ i \in Row /\ s \in Row /\ s <= i /\ r \in Row
      /\ i' \in 0 .. NRows /\ i' <= n /\ n \in 0 .. NRows
  <2>1. /\ me \in Maps /\ i \in 0 .. NRows /\ n \in 0 .. NRows
        /\ index \in [Maps -> [Row -> Row]] /\ s \in 0 .. i
    BY <1>1 DEF TypeOK, FilterInv
  <2>2. i \in Row /\ s \in Row /\ s <= i /\ i' \in 0 .. NRows /\ i' <= n
    BY <1>1, <2>1, MapAssumption DEF Row
  <2>3. QED
    BY <2>1, <2>2
<1>3. /\ 0 .. s - 1 \subseteq Row /\ i .. n - 1 \subseteq Row
      /\ i .. n - 1 = {i} \union (i + 1 .. n - 1)
      /\ i \notin 0 .. s - 1 /\ s \notin 0 .. s - 1
      /\ s \notin i + 1 .. n - 1 /\ i \notin i + 1 .. n - 1
      /\ 0 .. s + 1 - 1 = (0 .. s - 1) \union {s}
  BY <1>1, <1>2, MapAssumption DEF Row
<1>4. /\ s \in 0 .. i + 1 /\ s + 1 \in 0 .. i + 1 /\ i + 1 <= n
      /\ s + 1 \in 0 .. NRows
  BY <1>1, <1>2, MapAssumption DEF Row
<1>5. /\ bits[me] = Entries(me, 0, s) \union Entries(me, i, n)
      /\ Distinct(me, (0 .. s - 1) \union (i .. n - 1))
      /\ \A k \in Maps \ {me} : Agree(k)
  BY <1>1 DEF FilterInv
<1>6. index[me] \in [Row -> Row]
  BY <1>1, <1>2 DEF TypeOK
<1>7. CASE r \in keep
  <2>1. /\ size' = [size EXCEPT ![me] = @ + 1] /\ wild' = wild
        /\ index' = [index EXCEPT ![me][size[me]] = r] /\ bits' = bits
    BY <1>2, <1>7 DEF FilterStep, Inset
  <2>2. /\ size'[me] = s + 1 /\ index'[me] = [index[me] EXCEPT ![s] = r]
        /\ \A k \in Maps \ {me} : size'[k] = size[k] /\ index'[k] = index[k]
        /\ index' \in [Maps -> [Row -> Row]]
        /\ size' \in [Maps -> Int]
    <3>1. /\ size \in [Maps -> Int] /\ index \in [Maps -> [Row -> Row]]
      BY <1>1 DEF TypeOK
    <3>2. s + 1 \in Int
      BY <1>2, MapAssumption DEF Row
    <3>3. size' \in [Maps -> Int]
      BY <1>2, <2>1, <3>1, <3>2
    <3>4. index' \in [Maps -> [Row -> Row]]
      BY <1>2, <2>1, <3>1
    <3>5. size'[me] = s + 1 /\ index'[me] = [index[me] EXCEPT ![s] = r]
      BY <1>2, <2>1, <3>1
    <3>6. \A k \in Maps \ {me} : size'[k] = size[k] /\ index'[k] = index[k]
      BY <1>2, <2>1, <3>1
    <3>7. QED
      BY <3>3, <3>4, <3>5, <3>6
  <2>3. /\ index'[me][s] = r
        /\ \A j \in Row \ {s} : index'[me][j] = index[me][j]
    BY <1>2, <1>6, <2>2
  <2>4. /\ \A j \in 0 .. s - 1 : index'[me][j] = index[me][j]
        /\ \A j \in i + 1 .. n - 1 : index'[me][j] = index[me][j]
    BY <1>3, <2>3
  <2>5. TypeOK'
    <3>1. \A k \in Maps : size'[k] = FULL \/ size'[k] \in 0 .. NRows
      BY <1>1, <1>2, <1>4, <2>2 DEF TypeOK
    <3>2. QED
      BY <1>1, <1>2, <2>1, <2>2, <3>1 DEF TypeOK
  <2>6. FilterInv'
    <3>1. size'[me'] \in 0 .. i' /\ i' <= n'
      BY <1>1, <1>4, <2>2
    <3>2. Entries(me, 0, size[me])' = Entries(me, 0, s) \union {r}
      BY <1>1, <1>3, <2>2, <2>3, <2>4 DEF Entries
    <3>3. Entries(me, i, n)' \union {r} = Entries(me, i, n)
      BY <1>1, <1>3, <2>4 DEF Entries
    <3>4. bits'[me'] = Entries(me, 0, size[me])' \union Entries(me, i, n)'
      BY <1>1, <1>5, <2>1, <3>2, <3>3
    <3>5. Distinct(me, (0 .. size[me] - 1) \union (i .. n - 1))'
      <4> DEFINE src(j) == IF j = s THEN i ELSE j
                 S == (0 .. s - 1) \union (i .. n - 1)
                 U == (0 .. s - 1) \union {s} \union (i + 1 .. n - 1)
      <4>1. \A j \in U : index'[me][j] = index[me][src(j)] /\ src(j) \in S
        BY <1>3, <2>3, <2>4
      <4>2. \A j, k \in U : src(j) = src(k) => j = k
        BY <1>3
      <4>3. \A j, k \in S : index[me][j] = index[me][k] => j = k
        BY <1>5 DEF Distinct
      <4>4. \A j, k \in U : index'[me][j] = index'[me][k] => j = k
        <5> HIDE DEF src, S, U
        <5> QED
          BY <4>1, <4>2, <4>3
      <4>5. (0 .. size'[me] - 1) \union (i' .. n' - 1) = U
        BY <1>1, <1>3, <2>2
      <4>6. QED
        <5> HIDE DEF U
        <5> QED
          BY <1>1, <4>4, <4>5 DEF Distinct
    <3>6. \A k \in Maps \ {me} : Agree(k)'
      BY <1>5, <2>1, <2>2, Frame
    <3>7. QED
      BY <1>1, <3>1, <3>4, <3>5, <3>6 DEF FilterInv
  <2>7. QED
    BY <1>1, <2>1, <2>5, <2>6 DEF IInv, LoopInv
<1>8. CASE r \notin keep
  <2>1. /\ bits' = [bits EXCEPT ![me] = @ \ {r}]
        /\ UNCHANGED <<index, size, wild>>
    BY <1>2, <1>8 DEF FilterStep
  <2>2. bits' \in [Maps -> SUBSET Row] /\ bits'[me] = bits[me] \ {r}
        /\ \A k \in Maps \ {me} : bits'[k] = bits[k]
    BY <1>1, <1>2, <2>1 DEF TypeOK
  <2>3. TypeOK'
    BY <1>1, <1>2, <2>1, <2>2 DEF TypeOK
  <2>4. FilterInv'
    <3>1. size'[me'] \in 0 .. i' /\ i' <= n'
      BY <1>1, <1>4, <2>1
    <3>2. Entries(me, i, n) = {r} \union Entries(me, i + 1, n)
      BY <1>3 DEF Entries
    <3>3. \A j \in (0 .. s - 1) \union (i + 1 .. n - 1) : index[me][j] # r
      BY <1>3, <1>5 DEF Distinct
    <3>4. r \notin Entries(me, 0, s) /\ r \notin Entries(me, i + 1, n)
      BY <3>3 DEF Entries
    <3>5. bits'[me] = Entries(me, 0, s) \union Entries(me, i + 1, n)
      BY <1>5, <2>2, <3>2, <3>4
    <3>6. bits'[me'] = Entries(me, 0, size[me])' \union Entries(me, i, n)'
      BY <1>1, <2>1, <3>5 DEF Entries
    <3>7. Distinct(me, (0 .. size[me] - 1) \union (i .. n - 1))'
      <4>1. Distinct(me, (0 .. s - 1) \union (i + 1 .. n - 1))
        BY <1>3, <1>5 DEF Distinct
      <4>2. QED
        BY <1>1, <2>1, <4>1 DEF Distinct
    <3>8. \A k \in Maps \ {me} : Agree(k)'
      BY <1>5, <2>1, <2>2, Frame
    <3>9. QED
      BY <1>1, <3>1, <3>6, <3>7, <3>8 DEF FilterInv
  <2>5. QED
    BY <1>1, <2>1, <2>3, <2>4 DEF IInv, LoopInv
<1>9. QED
  BY <1>7, <1>8
(* One more row of the template turned over.                               *)
LEMMA ReverseStepKeeps ==
  ASSUME IInv, ReverseStep
  PROVE  IInv' /\ wild' = wild
<1> DEFINE s == size[me]
<1>1. /\ TypeOK /\ ~wild /\ op = "reverse" /\ i < n /\ ReverseInv
      /\ i' = i + 1 /\ UNCHANGED <<op, me, tgt, n, keep>>
  BY DEF IInv, LoopInv, ReverseStep
<1>2. /\ me \in Maps /\ i \in Row /\ s \in Row /\ s <= i /\ i' <= n
      /\ i' \in 0 .. NRows /\ n = NRows
  <2>1. me \in Maps /\ i \in 0 .. NRows /\ s \in 0 .. i /\ n = NRows
    BY <1>1 DEF TypeOK, ReverseInv
  <2>2. QED
    BY <1>1, <2>1, MapAssumption DEF Row
<1>3. /\ 0 .. s - 1 \subseteq Row /\ s \notin 0 .. s - 1
      /\ 0 .. s + 1 - 1 = (0 .. s - 1) \union {s}
  BY <1>2, MapAssumption DEF Row
<1>4. /\ s \in 0 .. i + 1 /\ s + 1 \in 0 .. i + 1 /\ i + 1 <= NRows
      /\ s + 1 \in 0 .. NRows
  BY <1>1, <1>2, MapAssumption DEF Row
<1>5. /\ {r \in bits[me] : r < i} = Entries(me, 0, s)
      /\ Distinct(me, 0 .. s - 1)
      /\ \A k \in Maps \ {me} : Agree(k)
  BY <1>1 DEF ReverseInv
<1>6. index[me] \in [Row -> Row] /\ bits[me] \in SUBSET Row
  BY <1>1, <1>2 DEF TypeOK
<1>7. i \in Int /\ \A r \in Row : r \in Int
  BY <1>2, MapAssumption DEF Row
<1>8. CASE i \in bits[me]
  <2>1. bits' = [bits EXCEPT ![me] = @ \ {i}] /\ UNCHANGED <<index, size, wild>>
    BY <1>8 DEF ReverseStep
  <2>2. bits' \in [Maps -> SUBSET Row] /\ bits'[me] = bits[me] \ {i}
        /\ \A k \in Maps \ {me} : bits'[k] = bits[k]
    BY <1>1, <1>2, <2>1 DEF TypeOK
  <2>3. TypeOK'
    BY <1>1, <1>2, <2>1, <2>2 DEF TypeOK
  <2>4. {r \in bits'[me] : r < i + 1} = {r \in bits[me] : r < i}
    <3>1. ASSUME NEW r \in Row
          PROVE  (r \in bits'[me] /\ r < i + 1) <=> (r \in bits[me] /\ r < i)
      <4>1. r < i + 1 <=> (r < i \/ r = i)
        BY <1>7
      <4>2. r \in bits'[me] <=> (r \in bits[me] /\ r # i)
        BY <2>2
      <4>3. ~(i < i)
        BY <1>7
      <4>4. QED
        BY <4>1, <4>2, <4>3, Zenon
    <3>2. bits'[me] \subseteq Row /\ bits[me] \subseteq Row
      BY <1>6, <2>2
    <3>3. QED
      BY <3>1, <3>2
  <2>5. ReverseInv'
    <3>1. size'[me'] \in 0 .. i' /\ i' <= n' /\ n' = NRows
      BY <1>1, <1>2, <1>4, <2>1
    <3>2. {r \in bits[me] : r < i}' = Entries(me, 0, size[me])'
      BY <1>1, <1>5, <2>1, <2>4 DEF Entries
    <3>3. Distinct(me, 0 .. size[me] - 1)'
      BY <1>1, <1>5, <2>1 DEF Distinct
    <3>4. \A k \in Maps \ {me} : Agree(k)'
      BY <1>5, <2>1, <2>2, Frame
    <3>5. QED
      BY <1>1, <3>1, <3>2, <3>3, <3>4 DEF ReverseInv
  <2>6. QED
    BY <1>1, <2>1, <2>3, <2>5 DEF IInv, LoopInv
<1>9. CASE i \notin bits[me]
  <2>1. /\ bits' = [bits EXCEPT ![me] = @ \union {i}] /\ wild' = wild
        /\ size' = [size EXCEPT ![me] = @ + 1]
        /\ index' = [index EXCEPT ![me][size[me]] = i]
    BY <1>2, <1>9 DEF ReverseStep, Inset
  <2>2. /\ bits' \in [Maps -> SUBSET Row] /\ bits'[me] = bits[me] \union {i}
        /\ \A k \in Maps \ {me} : bits'[k] = bits[k]
        /\ size' \in [Maps -> Int] /\ size'[me] = s + 1
        /\ index' \in [Maps -> [Row -> Row]]
        /\ index'[me] = [index[me] EXCEPT ![s] = i]
        /\ \A k \in Maps \ {me} : size'[k] = size[k] /\ index'[k] = index[k]
    <3>1. /\ bits \in [Maps -> SUBSET Row] /\ size \in [Maps -> Int]
          /\ index \in [Maps -> [Row -> Row]]
      BY <1>1 DEF TypeOK
    <3>2. /\ bits' \in [Maps -> SUBSET Row] /\ bits'[me] = bits[me] \union {i}
           /\ \A k \in Maps \ {me} : bits'[k] = bits[k]
      BY <1>2, <2>1, <3>1
    <3>3. s + 1 \in Int
      BY <1>2, MapAssumption DEF Row
    <3>4. size' \in [Maps -> Int]
      BY <1>2, <2>1, <3>1, <3>3
    <3>5. index' \in [Maps -> [Row -> Row]]
      BY <1>2, <2>1, <3>1
    <3>6. size'[me] = s + 1 /\ index'[me] = [index[me] EXCEPT ![s] = i]
      BY <1>2, <2>1, <3>1
    <3>7. \A k \in Maps \ {me} : size'[k] = size[k] /\ index'[k] = index[k]
      BY <1>2, <2>1, <3>1
    <3>8. QED
      BY <3>4, <3>5, <3>6, <3>7, <3>2
  <2>3. /\ index'[me][s] = i
        /\ \A j \in 0 .. s - 1 : index'[me][j] = index[me][j]
    BY <1>2, <1>3, <1>6, <2>2
  <2>4. TypeOK'
    <3>1. \A k \in Maps : size'[k] = FULL \/ size'[k] \in 0 .. NRows
      BY <1>1, <1>2, <1>4, <2>2 DEF TypeOK
    <3>2. QED
      BY <1>1, <1>2, <2>1, <2>2, <3>1 DEF TypeOK
  <2>5. {r \in bits'[me] : r < i + 1} = {r \in bits[me] : r < i} \union {i}
    <3>1. ASSUME NEW r \in Row
          PROVE  (r \in bits'[me] /\ r < i + 1) <=> ((r \in bits[me] /\ r < i) \/ r = i)
      <4>1. r < i + 1 <=> (r < i \/ r = i)
        BY <1>7
      <4>2. r \in bits'[me] <=> (r \in bits[me] \/ r = i)
        BY <2>2
      <4>3. QED
        BY <4>1, <4>2, Zenon
    <3>2. bits'[me] \subseteq Row /\ bits[me] \subseteq Row /\ i \in Row
      BY <1>2, <1>6, <2>2
    <3>3. QED
      BY <3>1, <3>2
  <2>6. Entries(me, 0, size[me])' = Entries(me, 0, s) \union {i}
    BY <1>1, <1>3, <2>2, <2>3 DEF Entries
  <2>7. \A j \in 0 .. s - 1 : index[me][j] # i
    BY <1>5, <1>9 DEF Entries
  <2>8. ReverseInv'
    <3>1. size'[me'] \in 0 .. i' /\ i' <= n' /\ n' = NRows
      BY <1>1, <1>2, <1>4, <2>2
    <3>2. {r \in bits[me] : r < i}' = Entries(me, 0, size[me])'
      BY <1>1, <1>5, <2>5, <2>6
    <3>3. Distinct(me, 0 .. size[me] - 1)'
      <4>1. \A j, k \in (0 .. s - 1) \union {s} :
               index'[me][j] = index'[me][k] => j = k
        BY <1>3, <1>5, <2>3, <2>7 DEF Distinct
      <4>2. 0 .. size'[me] - 1 = (0 .. s - 1) \union {s}
        BY <1>3, <2>2
      <4>3. QED
        BY <1>1, <4>1, <4>2 DEF Distinct
    <3>4. \A k \in Maps \ {me} : Agree(k)'
      BY <1>5, <2>2, Frame
    <3>5. QED
      BY <1>1, <3>1, <3>2, <3>3, <3>4 DEF ReverseInv
  <2>9. QED
    BY <1>1, <2>1, <2>4, <2>8 DEF IInv, LoopInv
<1>10. QED
  BY <1>8, <1>9

(* A loop that has run its course leaves every map in agreement.           *)
LEMMA EndLoopKeeps ==
  ASSUME IInv, EndLoop
  PROVE  IInv'
<1>1. /\ TypeOK /\ ~wild /\ LoopInv /\ op # "idle" /\ i >= n
      /\ op' = "idle" /\ i' = 0 /\ n' = 0 /\ keep' = {}
      /\ UNCHANGED <<bits, index, size, me, tgt, wild>>
  BY DEF IInv, EndLoop
<1>2. TypeOK'
  BY <1>1, MapAssumption DEF TypeOK
<1>3. \A k \in Maps : Agree(k)
  <2>1. CASE op = "union"
    BY <1>1, <2>1 DEF LoopInv, UnionInv
  <2>2. CASE op = "filter"
    <3>1. FilterInv /\ i \in Int /\ n \in Int
      BY <1>1, <2>2 DEF LoopInv, TypeOK
    <3>2. i .. n - 1 = {}
      BY <1>1, <3>1
    <3>3. Entries(me, i, n) = {}
      BY <3>2 DEF Entries
    <3>4. Agree(me)
      BY <3>1, <3>2, <3>3 DEF FilterInv, Agree, Distinct
    <3>5. QED
      BY <3>1, <3>4 DEF FilterInv
  <2>3. CASE op = "reverse"
    <3>1. ReverseInv /\ i \in 0 .. NRows /\ bits[me] \in SUBSET Row
      BY <1>1, <2>3 DEF LoopInv, TypeOK
    <3>2. {r \in bits[me] : r < i} = bits[me]
      BY <1>1, <3>1, MapAssumption DEF ReverseInv, Row
    <3>3. Agree(me)
      BY <3>1, <3>2 DEF ReverseInv, Agree
    <3>4. QED
      BY <3>1, <3>3 DEF ReverseInv
  <2>4. QED
    BY <1>1, <2>1, <2>2, <2>3 DEF TypeOK
<1>4. \A k \in Maps : Agree(k)'
  BY <1>1, <1>3, Frame
<1>5. QED
  BY <1>1, <1>2, <1>4 DEF IInv, LoopInv
-----------------------------------------------------------------------------
(* The invariant holds initially and every step keeps it.                  *)
LEMMA InitIInv == Init => IInv
<1> SUFFICES ASSUME Init PROVE IInv
  OBVIOUS
<1>1. TypeOK
  <2>1. 0 \in Row /\ 0 \in 0 .. NRows
    BY MapAssumption DEF Row
  <2>2. /\ bits \in [Maps -> SUBSET Row] /\ index \in [Maps -> [Row -> Row]]
        /\ size \in [Maps -> Int] /\ \A m \in Maps : size[m] = 0
    BY <2>1 DEF Init
  <2>3. QED
    BY <2>1, <2>2 DEF Init, TypeOK
<1>2. \A m \in Maps : Agree(m)
  BY MapAssumption DEF Init, Agree, Entries, Distinct
<1>3. QED
  BY <1>1, <1>2 DEF Init, IInv, LoopInv

(* A step that overruns Index is one of Union into a full map.             *)
LEMMA StepIInv ==
  ASSUME IInv, [Next]_vars
  PROVE  IInv' /\ ((wild' /\ ~wild) => (op = "union" /\ size[me] = FULL))
<1>1. CASE UNCHANGED vars
  <2>1. UNCHANGED <<bits, index, size, op, me, tgt, i, n, keep, wild>>
    BY <1>1 DEF vars, loop
  <2>2. QED
    BY <2>1 DEF IInv, TypeOK, LoopInv, UnionInv, FilterInv, ReverseInv, Agree,
                Entries, Distinct
<1>2. CASE Next
  <2>1. TypeOK
    BY DEF IInv
  <2>2. ASSUME op = "idle", ~wild PROVE \A m \in Maps : Agree(m)
    BY <2>2 DEF IInv, LoopInv
  <2>3. ASSUME NEW m \in Maps,
               \/ Reset(m) \/ SetSize(m) \/ \E r \in Row : Found(m, r)
               \/ \E t \in Maps : CloneFrom(m, t)
        PROVE  IInv'
    <3>1. op = "idle" /\ ~wild
      BY <2>3 DEF Reset, SetSize, Found, CloneFrom, Idle
    <3>2. QED
      BY <2>1, <2>2, <2>3, <3>1, SimpleOps
  <2>4. ASSUME NEW m \in Maps,
               \/ Reverse(m) \/ \E K \in SUBSET Row : Narrow(m, K)
               \/ \E t \in Maps \ {m} : Union(m, t) \/ Complement(m, t)
        PROVE  IInv'
    <3>1. op = "idle" /\ ~wild
      BY <2>4 DEF Reverse, Narrow, Union, Complement, Idle
    <3>2. QED
      BY <2>1, <2>2, <2>4, <3>1, LoopStarts
  <2>5. ASSUME NEW m \in Maps,
               \/ Reset(m) \/ SetSize(m) \/ Reverse(m)
               \/ \E r \in Row : Found(m, r)
               \/ \E K \in SUBSET Row : Narrow(m, K)
               \/ \E t \in Maps \ {m} : Union(m, t) \/ Complement(m, t) \/ CloneFrom(m, t)
        PROVE  wild' = wild
    <3>1. ASSUME NEW r \in Row, Found(m, r) PROVE wild' = wild
      <4>1. ~wild /\ op = "idle" /\ size[m] # FULL /\ UnionPos(m, r)
        BY <3>1 DEF Found, Idle
      <4>2. QED
        BY <2>1, <2>2, <4>1, UnionPosAdds
    <3>2. QED
      BY <2>5, <3>1 DEF Reset, SetSize, Reverse, Narrow, Union, Complement, CloneFrom,
                        StartFilter, vars
  <2>6. CASE UnionStep
    <3>1. IInv' \/ (wild' /\ size[me] = FULL /\ TypeOK')
      BY <2>6, UnionStepKeeps
    <3>2. IInv'
      BY <3>1 DEF IInv
    <3>3. ASSUME size[me] # FULL, ~wild PROVE wild' = wild
      <4>1. /\ me \in Maps /\ Agree(me) /\ UnionPos(me, index[tgt][i])
            /\ index[tgt][i] \in Row
        <5>1. i \in Row /\ tgt \in Maps /\ index \in [Maps -> [Row -> Row]]
          <6>1. /\ i \in 0 .. NRows /\ n \in 0 .. NRows /\ i < n /\ tgt \in Maps
                /\ index \in [Maps -> [Row -> Row]]
            BY <2>1, <2>6 DEF TypeOK, UnionStep
          <6>2. i \in 0 .. NRows - 1
            BY <6>1, MapAssumption
          <6>3. QED
            BY <6>1, <6>2 DEF Row
        <5>2. QED
          BY <2>1, <2>6, <3>3, <5>1 DEF IInv, LoopInv, UnionInv, UnionStep, TypeOK
      <4>2. QED
        BY <2>1, <3>3, <4>1, UnionPosAdds
    <3>4. QED
      BY <2>6, <3>2, <3>3 DEF UnionStep
  <2>7. CASE FilterStep
    BY <2>7, FilterStepKeeps
  <2>8. CASE ReverseStep
    BY <2>8, ReverseStepKeeps
  <2>9. CASE EndLoop
    BY <2>9, EndLoopKeeps DEF EndLoop
  <2>10. QED
    BY <1>2, <2>3, <2>4, <2>5, <2>6, <2>7, <2>8, <2>9 DEF Next
<1>3. QED
  BY <1>1, <1>2

(* The invariant is inductive: it holds in every reachable state.          *)
THEOREM Invariance == Spec => []IInv
<1>1. Init => IInv
  BY InitIInv
<1>2. IInv /\ [Next]_vars => IInv'
  BY StepIInv
<1>3. QED
  BY <1>1, <1>2, PTL DEF Spec

(* Size stays the sentinel or a count that fits Index.                     *)
THEOREM TypeCorrect == Spec => []TypeOK
<1>1. IInv => TypeOK
  BY DEF IInv
<1>2. QED
  BY <1>1, Invariance, PTL

(* Between operations Index, Size and the bitset tell the same rows.       *)
THEOREM RepCorrect == Spec => []RepOK
<1>1. IInv => RepOK
  BY DEF IInv, LoopInv, RepOK
<1>2. QED
  BY <1>1, Invariance, PTL

(* Only a union into a full map writes outside Index.                      *)
THEOREM Overruns == Spec => OnlyFullOverruns
<1>1. IInv /\ [Next]_vars =>
        [(wild' /\ ~wild) => (op = "union" /\ size[me] = FULL)]_vars
  BY StepIInv
<1>2. QED
  BY <1>1, Invariance, PTL DEF Spec, OnlyFullOverruns
-----------------------------------------------------------------------------
(* The refinement.  First, the set a map stands for outside its own loop,  *)
(* and how a step that changes one map reads in RowSet.                    *)
LEMMA RowsOutside ==
  ASSUME NEW m \in Maps, op = "idle" \/ m # me
  PROVE  Rows(m) = IF size[m] < 0 THEN Row ELSE bits[m]
BY DEF Rows

LEMMA OneMap ==
  ASSUME NEW m \in Maps, NEW S, ~wild, wild' = wild, Rows(m)' = S,
         \A k \in Maps \ {m} : Rows(k)' = Rows(k)
  PROVE  Sets!Become(m, S)
<1>1. [k \in Maps |-> Rows(k)]' = [[k \in Maps |-> Rows(k)] EXCEPT ![m] = S]
  OBVIOUS
<1>2. QED
  BY <1>1 DEF Sets!Become

(* The other maps are outside the loop that runs and keep their rows.      *)
LEMMA OthersKeep ==
  ASSUME NEW m \in Maps, NEW k \in Maps \ {m},
         op = "idle" \/ me = m, op' = "idle" \/ me' = m,
         bits'[k] = bits[k], size'[k] = size[k]
  PROVE  Rows(k)' = Rows(k)
BY DEF Rows

(* An operation of one step, with the set it leaves in its map.            *)
LEMMA AtOnce ==
  ASSUME TypeOK, ~wild, op = "idle", NEW m \in Maps, NEW S,
         UNCHANGED <<wild, op, me>>,
         \A k \in Maps \ {m} : bits'[k] = bits[k] /\ size'[k] = size[k],
         \/ size'[m] < 0 /\ S = Row
         \/ ~(size'[m] < 0) /\ bits'[m] = S
  PROVE  Sets!Become(m, S)
<1>1. \A k \in Maps \ {m} : Rows(k)' = Rows(k)
  BY OthersKeep
<1>2. Rows(m)' = S
  BY DEF Rows
<1>3. QED
  BY <1>1, <1>2, OneMap

(* A loop starts, or takes a step, and the set already stands.             *)
LEMMA StartsLoop ==
  ASSUME TypeOK, ~wild, op = "idle", NEW m \in Maps, NEW S,
         me' = m, wild' = wild, Rows(m)' = S,
         \A k \in Maps \ {m} : bits'[k] = bits[k] /\ size'[k] = size[k]
  PROVE  Sets!Become(m, S)
<1>1. \A k \in Maps \ {m} : Rows(k)' = Rows(k)
  BY OthersKeep
<1>2. QED
  BY <1>1, OneMap

LEMMA Stutters ==
  ASSUME TypeOK, wild' = wild, me' = me, op # "idle", Rows(me)' = Rows(me),
         \A k \in Maps \ {me} : bits'[k] = bits[k] /\ size'[k] = size[k]
  PROVE  UNCHANGED Sets!vars
<1>1. me \in Maps
  BY DEF TypeOK
<1>2. \A k \in Maps \ {me} : Rows(k)' = Rows(k)
  BY <1>1, OthersKeep
<1>3. \A k \in Maps : Rows(k)' = Rows(k)
  BY <1>1, <1>2
<1>4. [k \in Maps |-> Rows(k)]' = [k \in Maps |-> Rows(k)]
  BY <1>3
<1>5. QED
  BY <1>4 DEF Sets!vars

(* A partial map that lists every row of the template is all of them.      *)
LEMMA Whole ==
  ASSUME TypeOK, NEW t \in Maps, Agree(t), size[t] = NRows
  PROVE  bits[t] = Row
<1>1. size[t] \in 0 .. NRows
  BY MapAssumption
<1>2. ASSUME NEW r \in Row, r \notin bits[t] PROVE FALSE
  <2>1. size[t] < NRows
    BY <1>1, <1>2, Room
  <2>2. QED
    BY <2>1, MapAssumption
<1>3. QED
  BY <1>2 DEF TypeOK
(* Each operation, finished or just started, is the set operation.         *)
LEMMA OperationRefines ==
  ASSUME IInv, IInv', ~wild, op = "idle", NEW m \in Maps,
         \/ Reset(m) \/ SetSize(m) \/ Reverse(m)
         \/ \E r \in Row : Found(m, r)
         \/ \E K \in SUBSET Row : Narrow(m, K)
         \/ \E t \in Maps \ {m} : Union(m, t) \/ Complement(m, t) \/ CloneFrom(m, t)
  PROVE  Sets!Next \/ UNCHANGED Sets!vars
<1>1. /\ TypeOK /\ \A k \in Maps : Agree(k)
      /\ \A k \in Maps : Rows(k) = IF size[k] < 0 THEN Row ELSE bits[k]
  BY RowsOutside DEF IInv, LoopInv
<1>2. /\ bits \in [Maps -> SUBSET Row] /\ size \in [Maps -> Int]
      /\ size[m] = FULL \/ size[m] \in 0 .. NRows
  BY <1>1 DEF TypeOK
<1>3. ASSUME Reset(m) PROVE Sets!Clear(m)
  <2>1. /\ UNCHANGED <<wild, op, me>> /\ ~(size'[m] < 0) /\ bits'[m] = {}
        /\ \A k \in Maps \ {m} : bits'[k] = bits[k] /\ size'[k] = size[k]
    BY <1>2, <1>3 DEF Reset, loop
  <2>2. QED
    BY <1>1, <2>1, AtOnce DEF Sets!Clear
<1>4. ASSUME SetSize(m) PROVE Sets!Fill(m)
  <2>1. /\ UNCHANGED <<wild, op, me>> /\ size'[m] < 0
        /\ \A k \in Maps \ {m} : bits'[k] = bits[k] /\ size'[k] = size[k]
    BY <1>2, <1>4, MapAssumption DEF SetSize, loop
  <2>2. QED
    BY <1>1, <2>1, AtOnce DEF Sets!Fill
<1>5. ASSUME NEW r \in Row, Found(m, r) PROVE Sets!Add(m, r)
  <2>1. /\ wild' = wild /\ size'[m] \in 0 .. NRows
        /\ bits' = [bits EXCEPT ![m] = @ \union {r}]
        /\ \A k \in Maps \ {m} : size'[k] = size[k] /\ index'[k] = index[k]
    <3>1. size[m] # FULL /\ UnionPos(m, r) /\ Agree(m)
      BY <1>1, <1>5 DEF Found
    <3>2. QED
      BY <1>1, <3>1, UnionPosAdds
  <2>2. /\ UNCHANGED <<wild, op, me>> /\ ~(size'[m] < 0)
        /\ \A k \in Maps \ {m} : bits'[k] = bits[k] /\ size'[k] = size[k]
    BY <1>2, <1>5, <2>1 DEF Found, loop
  <2>3. bits'[m] = Rows(m) \union {r}
    <3>1. ~(size[m] < 0)
      BY <1>2, <1>5 DEF Found
    <3>2. QED
      BY <1>1, <1>2, <2>1, <3>1
  <2>4. QED
    BY <1>1, <2>2, <2>3, AtOnce DEF Sets!Add
<1>6. ASSUME Reverse(m) PROVE Sets!Negate(m)
  <2>1. CASE size[m] = FULL
    <3>1. /\ UNCHANGED <<wild, op, me>> /\ ~(size'[m] < 0) /\ bits'[m] = {}
          /\ \A k \in Maps \ {m} : bits'[k] = bits[k] /\ size'[k] = size[k]
      BY <1>2, <1>6, <2>1, MapAssumption DEF Reverse, loop
    <3>2. Row \ Rows(m) = {}
      BY <1>1, <2>1, MapAssumption
    <3>3. QED
      BY <1>1, <3>1, <3>2, AtOnce DEF Sets!Negate
  <2>2. CASE size[m] = 0
    <3>1. /\ UNCHANGED <<wild, op, me>> /\ size'[m] < 0
          /\ \A k \in Maps \ {m} : bits'[k] = bits[k] /\ size'[k] = size[k]
      BY <1>2, <1>6, <2>2, MapAssumption DEF Reverse, loop
    <3>2. Row \ Rows(m) = Row
      BY <1>1, <2>2, MapAssumption DEF Agree, Entries
    <3>3. QED
      BY <1>1, <3>1, <3>2, AtOnce DEF Sets!Negate
  <2>3. CASE size[m] # FULL /\ size[m] # 0
    <3>1. /\ op' = "reverse" /\ me' = m /\ i' = 0 /\ bits' = bits /\ wild' = wild
          /\ size'[m] = 0 /\ \A k \in Maps \ {m} : size'[k] = size[k]
      BY <1>2, <1>6, <2>3 DEF Reverse, StartLoop
    <3>2. Rows(m)' = {r \in Row : (r < 0) <=> (r \in bits[m])}
      BY <3>1 DEF Rows
    <3>3. \A r \in Row : ~(r < 0)
      BY DEF Row
    <3>4. Rows(m)' = Row \ Rows(m)
      BY <1>1, <1>2, <2>3, <3>2, <3>3
    <3>5. QED
      BY <1>1, <3>1, <3>4, StartsLoop DEF Sets!Negate
  <2>4. QED
    BY <2>1, <2>2, <2>3
<1>7. ASSUME NEW K \in SUBSET Row, NEW t \in Maps, StartFilter(m, t, K),
             size[m] \in 0 .. NRows
      PROVE  Sets!Become(m, Rows(m) \intersect K)
  <2>1. /\ op' = "filter" /\ me' = m /\ i' = 0 /\ n' = size[m] /\ keep' = K
        /\ bits' = bits /\ index' = index /\ wild' = wild
        /\ size'[m] = 0 /\ \A k \in Maps \ {m} : size'[k] = size[k]
    BY <1>2, <1>7 DEF StartFilter, StartLoop
  <2>2. bits[m] = Entries(m, 0, size[m]) /\ Rows(m) = bits[m]
    BY <1>1, <1>7, MapAssumption DEF Agree
  <2>3. Rows(m)' = Entries(m, 0, 0) \union (Entries(m, 0, size[m]) \intersect K)
    BY <2>1 DEF Rows, Entries
  <2>4. Entries(m, 0, 0) = {}
    BY DEF Entries
  <2>5. QED
    BY <1>1, <2>1, <2>2, <2>3, <2>4, StartsLoop
<1>8. ASSUME NEW K \in SUBSET Row, Narrow(m, K) PROVE Sets!Keep(m, K)
  <2>1. size[m] \in 0 .. NRows /\ StartFilter(m, m, K)
    BY <1>2, <1>8, MapAssumption DEF Narrow
  <2>2. QED
    BY <1>7, <2>1 DEF Sets!Keep
<1>9. ASSUME NEW t \in Maps \ {m}, Union(m, t) PROVE Sets!Merge(m, t)
  <2>1. CASE size[t] = FULL
    <3>1. /\ UNCHANGED <<wild, op, me>> /\ size'[m] < 0
          /\ \A k \in Maps \ {m} : bits'[k] = bits[k] /\ size'[k] = size[k]
      BY <1>2, <1>9, <2>1, MapAssumption DEF Union, loop
    <3>2. Rows(m) \union Rows(t) = Row
      BY <1>1, <1>2, <2>1, MapAssumption
    <3>3. QED
      BY <1>1, <3>1, <3>2, AtOnce DEF Sets!Merge
  <2>2. CASE size[t] # FULL
    <3>1. /\ op' = "union" /\ me' = m /\ tgt' = t /\ i' = 0 /\ n' = size[t]
          /\ UNCHANGED <<bits, index, size, wild>>
      BY <1>9, <2>2 DEF Union, StartLoop
    <3>2. ~(size[t] < 0) /\ bits[t] = Entries(t, 0, size[t])
      BY <1>1, <2>2 DEF TypeOK, Agree
    <3>3. Rows(m)' = IF size[m] < 0 THEN Row ELSE bits[m] \union Entries(t, 0, size[t])
      BY <3>1 DEF Rows, Entries
    <3>4. Rows(m)' = Rows(m) \union Rows(t)
      BY <1>1, <1>2, <3>2, <3>3
    <3>5. QED
      BY <1>1, <3>1, <3>4, StartsLoop DEF Sets!Merge
  <2>3. QED
    BY <2>1, <2>2
<1>10. ASSUME NEW t \in Maps \ {m}, Complement(m, t)
       PROVE  Sets!Subtract(m, t) \/ UNCHANGED Sets!vars
  <2>1. size[m] \in 0 .. NRows
    BY <1>2, <1>10, MapAssumption DEF Complement
  <2>2. CASE /\ size[t] = FULL \/ (m \in Own /\ size[t] = NRows)
             /\ bits' = [bits EXCEPT ![m] = {}]
             /\ size' = [size EXCEPT ![m] = 0]
             /\ UNCHANGED <<index, loop, wild>>
    <3>1. /\ UNCHANGED <<wild, op, me>> /\ ~(size'[m] < 0) /\ bits'[m] = {}
          /\ \A k \in Maps \ {m} : bits'[k] = bits[k] /\ size'[k] = size[k]
      BY <1>2, <2>2 DEF loop
    <3>2. Rows(t) = Row
      BY <1>1, <2>2, Whole, MapAssumption
    <3>3. Rows(m) \ Rows(t) = {}
      BY <1>1, <1>2, <3>2
    <3>4. QED
      BY <1>1, <3>1, <3>3, AtOnce DEF Sets!Subtract
  <2>3. CASE UNCHANGED vars
    <3>1. UNCHANGED <<bits, index, size, op, me, tgt, i, n, keep, wild>>
      BY <2>3 DEF vars, loop
    <3>2. QED
      BY <3>1 DEF Sets!vars, Rows, Entries
  <2>4. CASE /\ size[t] > 0 /\ ~(m \in Own /\ size[t] = NRows)
             /\ StartFilter(m, t, Row \ bits[t])
    <3>1. Sets!Become(m, Rows(m) \intersect (Row \ bits[t]))
      BY <1>7, <2>1, <2>4
    <3>2. Rows(m) \intersect (Row \ bits[t]) = Rows(m) \ Rows(t)
      <4>1. Rows(t) = bits[t] /\ Rows(m) \subseteq Row
        BY <1>1, <1>2, <2>4
      <4>2. QED
        BY <4>1
    <3>3. QED
      BY <3>1, <3>2 DEF Sets!Subtract
  <2>5. QED
    BY <1>10, <2>2, <2>3, <2>4 DEF Complement
<1>11. ASSUME NEW t \in Maps \ {m}, CloneFrom(m, t) PROVE Sets!Copy(m, t)
  <2>1. /\ UNCHANGED <<wild, op, me>> /\ size'[m] = size[t] /\ bits'[m] = bits[t]
        /\ \A k \in Maps \ {m} : bits'[k] = bits[k] /\ size'[k] = size[k]
    BY <1>2, <1>11 DEF CloneFrom, loop
  <2>2. \/ size'[m] < 0 /\ Rows(t) = Row
        \/ ~(size'[m] < 0) /\ bits'[m] = Rows(t)
    BY <1>1, <2>1
  <2>3. QED
    BY <1>1, <2>1, <2>2, AtOnce DEF Sets!Copy
<1>12. QED
  BY <1>3, <1>4, <1>5, <1>6, <1>8, <1>9, <1>10, <1>11 DEF Sets!Next

(* The steps of a loop change no set, but for the overrun of a union.      *)
LEMMA LoopRefines ==
  ASSUME IInv, IInv', UnionStep \/ FilterStep \/ ReverseStep \/ EndLoop
  PROVE  Sets!Next \/ UNCHANGED Sets!vars
<1>1. /\ TypeOK /\ ~wild /\ LoopInv /\ me \in Maps /\ op # "idle"
      /\ bits \in [Maps -> SUBSET Row] /\ size \in [Maps -> Int]
      /\ size[me] = FULL \/ size[me] \in 0 .. NRows
      /\ i \in 0 .. NRows /\ n \in 0 .. NRows
  BY DEF IInv, TypeOK, UnionStep, FilterStep, ReverseStep, EndLoop
<1>2. ASSUME i < n PROVE i .. n - 1 = {i} \union (i + 1 .. n - 1)
  BY <1>1, <1>2
<1>3. CASE UnionStep
  <2> DEFINE r == index[tgt][i]
  <2>1. /\ op = "union" /\ i < n /\ UnionPos(me, r) /\ i' = i + 1 /\ UnionInv
        /\ UNCHANGED <<op, me, tgt, n, keep>>
    BY <1>1, <1>3 DEF UnionStep, LoopInv
  <2>2. tgt \in Maps /\ tgt # me /\ r \in Row
    <3>1. /\ tgt \in Maps /\ index \in [Maps -> [Row -> Row]] /\ tgt # me
      BY <1>1, <2>1 DEF TypeOK, UnionInv
    <3>2. i \in 0 .. NRows - 1
      BY <1>1, <2>1, MapAssumption
    <3>3. QED
      BY <3>1, <3>2 DEF Row
  <2>3. CASE size[me] = FULL
    <3>1. Rows(me) = Row
      BY <2>3, MapAssumption DEF Rows
    <3>2. CASE r \in bits[me]
      <4>1. UNCHANGED <<bits, index, size, wild>>
        BY <2>1, <3>2 DEF UnionPos
      <4>2. Rows(me)' = Row
        BY <2>1, <2>3, <4>1, MapAssumption DEF Rows
      <4>3. QED
        BY <1>1, <2>1, <3>1, <4>1, <4>2, Stutters
    <3>3. CASE r \notin bits[me]
      <4>1. size[me] \notin Row
        BY <2>3, MapAssumption DEF Row
      <4>2. /\ bits' = [bits EXCEPT ![me] = @ \union {r}] /\ wild' = TRUE
            /\ size' = [size EXCEPT ![me] = @ + 1]
        BY <2>1, <3>3, <4>1 DEF UnionPos, Inset
      <4>3. size'[me] = FULL + 1 /\ FULL + 1 < 0
        BY <1>1, <2>3, <4>2, MapAssumption
      <4>4. Rows(me)' = Row
        BY <2>1, <4>3 DEF Rows
      <4>5. \A k \in Maps \ {me} : Rows(k)' = Rows(k)
        BY <1>1, <2>1, <4>2, OthersKeep
      <4>6. [k \in Maps |-> Rows(k)]' = [k \in Maps |-> Rows(k)]
        <5>1. \A k \in Maps : Rows(k)' = Rows(k)
          BY <2>1, <3>1, <4>4, <4>5
        <5>2. QED
          BY <5>1
      <4>7. Sets!Abandon(me)
        BY <1>1, <3>1, <4>2, <4>6 DEF Sets!Abandon
      <4>8. QED
        BY <1>1, <4>7 DEF Sets!Next
    <3>4. QED
      BY <3>2, <3>3
  <2>4. CASE size[me] # FULL
    <3>1. /\ wild' = wild /\ bits' = [bits EXCEPT ![me] = @ \union {r}]
          /\ size'[me] \in 0 .. NRows
          /\ \A k \in Maps \ {me} : size'[k] = size[k] /\ index'[k] = index[k]
      <4>1. Agree(me)
        BY <1>1, <2>1 DEF UnionInv
      <4>2. QED
        BY <1>1, <2>1, <2>2, <2>4, <4>1, UnionPosAdds
    <3>2. /\ Rows(me) = bits[me] \union Entries(tgt, i, n)
          /\ Rows(me)' = bits'[me] \union Entries(tgt, i, n)'
      BY <1>1, <2>1, <2>4, <3>1 DEF Rows
    <3>3. Entries(tgt, i, n) = {r} \union Entries(tgt, i, n)'
      BY <1>2, <2>1, <2>2, <3>1 DEF Entries
    <3>4. Rows(me)' = Rows(me)
      BY <1>1, <3>1, <3>2, <3>3
    <3>5. QED
      BY <1>1, <2>1, <3>1, <3>4, Stutters
  <2>5. QED
    BY <2>3, <2>4
<1>4. CASE FilterStep
  <2> DEFINE r == index[me][i]
             s == size[me]
  <2>1. /\ op = "filter" /\ i < n /\ i' = i + 1 /\ FilterInv
        /\ UNCHANGED <<op, me, tgt, n, keep>>
    BY <1>1, <1>4 DEF FilterStep, LoopInv
  <2>2. wild' = wild
    BY <1>4, FilterStepKeeps
  <2>3. /\ s \in 0 .. i /\ i \in Row /\ s \in Row /\ index \in [Maps -> [Row -> Row]]
    <3>1. s \in 0 .. i /\ index \in [Maps -> [Row -> Row]]
      BY <1>1, <2>1 DEF TypeOK, FilterInv
    <3>2. i \in 0 .. NRows - 1 /\ s \in 0 .. NRows - 1
      BY <1>1, <2>1, <3>1, MapAssumption
    <3>3. QED
      BY <3>1, <3>2 DEF Row
  <2>4. /\ 0 .. s - 1 \subseteq Row /\ i + 1 .. n - 1 \subseteq Row
        /\ s \notin 0 .. s - 1 /\ s \notin i + 1 .. n - 1
        /\ 0 .. s + 1 - 1 = (0 .. s - 1) \union {s}
    <3>1. 0 .. s - 1 \subseteq 0 .. NRows - 1 /\ i + 1 .. n - 1 \subseteq 0 .. NRows - 1
      BY <1>1, <2>1, <2>3, MapAssumption
    <3>2. s \notin 0 .. s - 1 /\ s \notin i + 1 .. n - 1
      BY <1>1, <2>1, <2>3
    <3>3. 0 .. s + 1 - 1 = (0 .. s - 1) \union {s}
      BY <2>3
    <3>4. QED
      BY <3>1, <3>2, <3>3 DEF Row
  <2>5. Entries(me, i, n) = {r} \union Entries(me, i + 1, n)
    BY <1>2, <2>1 DEF Entries
  <2>6. Rows(me) = Entries(me, 0, s) \union (Entries(me, i, n) \intersect keep)
    <3>1. ~(s < 0)
      BY <2>3
    <3>2. QED
      BY <2>1, <3>1 DEF Rows
  <2>7. CASE r \in keep
    <3>1. /\ size' = [size EXCEPT ![me] = @ + 1] /\ bits' = bits
          /\ index' = [index EXCEPT ![me][size[me]] = r]
      BY <1>4, <2>3, <2>7 DEF FilterStep, Inset
    <3>2. size'[me] = s + 1 /\ index'[me] = [index[me] EXCEPT ![s] = r]
      BY <1>1, <2>3, <3>1
    <3>3. /\ index'[me][s] = r
          /\ \A j \in 0 .. s - 1 : index'[me][j] = index[me][j]
          /\ \A j \in i + 1 .. n - 1 : index'[me][j] = index[me][j]
      BY <1>1, <2>3, <2>4, <3>2
    <3>4. Entries(me, 0, size[me])' = Entries(me, 0, s) \union {r}
      BY <2>1, <2>4, <3>2, <3>3 DEF Entries
    <3>5. Entries(me, i, n)' = Entries(me, i + 1, n)
      BY <2>1, <3>3 DEF Entries
    <3>6. Rows(me)' = Entries(me, 0, size[me])' \union (Entries(me, i, n)' \intersect keep)
      <4>1. ~(size'[me] < 0)
        BY <2>3, <3>2
      <4>2. QED
        BY <2>1, <4>1 DEF Rows
    <3>7. Rows(me)' = Rows(me)
      BY <2>5, <2>6, <2>7, <3>4, <3>5, <3>6
    <3>8. QED
      BY <1>1, <2>1, <2>2, <3>1, <3>7, Stutters
  <2>8. CASE r \notin keep
    <3>1. bits' = [bits EXCEPT ![me] = @ \ {r}] /\ UNCHANGED <<index, size>>
      BY <1>1, <1>4, <2>8 DEF FilterStep
    <3>2. Rows(me)' = Entries(me, 0, s) \union (Entries(me, i + 1, n) \intersect keep)
      <4>1. ~(s < 0)
        BY <2>3
      <4>2. QED
        BY <2>1, <3>1, <4>1 DEF Rows, Entries
    <3>3. Rows(me)' = Rows(me)
      BY <2>5, <2>6, <2>8, <3>2
    <3>4. QED
      BY <1>1, <2>1, <2>2, <3>1, <3>3, Stutters
  <2>9. QED
    BY <2>7, <2>8
<1>5. CASE ReverseStep
  <2>1. /\ op = "reverse" /\ i < n /\ i' = i + 1 /\ ReverseInv
        /\ UNCHANGED <<op, me, tgt, n, keep>>
    BY <1>1, <1>5 DEF ReverseStep, LoopInv
  <2>2. wild' = wild
    BY <1>5, ReverseStepKeeps
  <2>3. size[me] \in 0 .. i /\ size[me] \in Row /\ i \in Int /\ \A r \in Row : r \in Int
    <3>1. size[me] \in 0 .. i
      BY <2>1 DEF ReverseInv
    <3>2. size[me] \in 0 .. NRows - 1
      BY <1>1, <2>1, <3>1, MapAssumption
    <3>3. QED
      BY <1>1, <3>1, <3>2 DEF Row
  <2>4. /\ ~(size[me] < 0) /\ ~(size'[me] < 0)
        /\ \A k \in Maps \ {me} : bits'[k] = bits[k] /\ size'[k] = size[k]
        /\ \A r \in Row : r \in bits'[me] <=> IF r = i THEN r \notin bits[me] ELSE r \in bits[me]
    <3>1. CASE i \in bits[me]
      <4>1. bits' = [bits EXCEPT ![me] = @ \ {i}] /\ size' = size
        BY <1>5, <3>1 DEF ReverseStep
      <4>2. QED
        BY <1>1, <2>3, <3>1, <4>1
    <3>2. CASE i \notin bits[me]
      <4>1. bits' = [bits EXCEPT ![me] = @ \union {i}] /\ size' = [size EXCEPT ![me] = @ + 1]
        BY <1>5, <3>2 DEF ReverseStep, Inset
      <4>2. QED
        BY <1>1, <2>3, <3>2, <4>1
    <3>3. QED
      BY <3>1, <3>2
  <2>5. ASSUME NEW r \in Row
        PROVE  (r < i + 1 <=> r \in bits'[me]) <=> (r < i <=> r \in bits[me])
    <3>1. /\ r = i => (r < i + 1 /\ ~(r < i))
          /\ r # i => (r < i + 1 <=> r < i)
      BY <2>3
    <3>2. r \in bits'[me] <=> IF r = i THEN r \notin bits[me] ELSE r \in bits[me]
      BY <2>4
    <3>3. QED
      BY <3>1, <3>2, Zenon
  <2>6. Rows(me)' = Rows(me)
    <3>1. /\ Rows(me) = {r \in Row : r < i <=> r \in bits[me]}
          /\ Rows(me)' = {r \in Row : r < i + 1 <=> r \in bits'[me]}
      BY <2>1, <2>4 DEF Rows
    <3>2. QED
      BY <2>5, <3>1
  <2>7. QED
    BY <1>1, <2>1, <2>2, <2>4, <2>6, Stutters
<1>6. CASE EndLoop
  <2>1. /\ i >= n /\ op' = "idle" /\ UNCHANGED <<bits, index, size, me, tgt, wild>>
        /\ op \in {"union", "filter", "reverse"}
    BY <1>1, <1>6 DEF EndLoop, TypeOK
  <2>2. i .. n - 1 = {}
    BY <1>1, <2>1
  <2>3. Rows(me)' = IF size[me] < 0 THEN Row ELSE bits[me]
    BY <2>1 DEF Rows
  <2>4. Rows(me)' = Rows(me)
    <3>1. CASE op = "union"
      BY <2>2, <2>3, <3>1 DEF Rows, Entries
    <3>2. CASE op = "filter"
      <4>1. ~(size[me] < 0) /\ bits[me] = Entries(me, 0, size[me])
        <5>1. size[me] \in 0 .. i /\ bits[me] = Entries(me, 0, size[me]) \union Entries(me, i, n)
          BY <1>1, <3>2 DEF LoopInv, FilterInv
        <5>2. Entries(me, i, n) = {}
          BY <2>2 DEF Entries
        <5>3. QED
          BY <1>1, <5>1, <5>2
      <4>2. QED
        BY <2>2, <2>3, <3>2, <4>1 DEF Rows, Entries
    <3>3. CASE op = "reverse"
      <4>1. ~(size[me] < 0) /\ n = NRows /\ bits[me] \subseteq Row
        BY <1>1, <3>3 DEF LoopInv, ReverseInv
      <4>2. \A r \in Row : r < i
        BY <1>1, <2>1, <4>1, MapAssumption DEF Row
      <4>3. QED
        BY <2>3, <3>3, <4>1, <4>2 DEF Rows
    <3>4. QED
      BY <2>1, <3>1, <3>2, <3>3
  <2>5. QED
    BY <1>1, <2>1, <2>4, Stutters
<1>7. QED
  BY <1>3, <1>4, <1>5, <1>6

(* The class implements the set specification.                             *)
THEOREM Refinement == Spec => ImplementsRowSet
<1>1. Init => Sets!Init
  BY MapAssumption DEF Init, Sets!Init, Rows
<1>2. IInv /\ IInv' /\ [Next]_vars => [Sets!Next]_(Sets!vars)
  <2> SUFFICES ASSUME IInv, IInv', [Next]_vars
               PROVE  Sets!Next \/ UNCHANGED Sets!vars
    OBVIOUS
  <2>1. CASE UNCHANGED vars
    <3>1. UNCHANGED <<bits, index, size, op, me, tgt, i, n, keep, wild>>
      BY <2>1 DEF vars, loop
    <3>2. QED
      BY <3>1 DEF Sets!vars, Rows, Entries
  <2>2. ASSUME NEW m \in Maps,
               \/ Reset(m) \/ SetSize(m) \/ Reverse(m)
               \/ \E r \in Row : Found(m, r)
               \/ \E K \in SUBSET Row : Narrow(m, K)
               \/ \E t \in Maps \ {m} : Union(m, t) \/ Complement(m, t) \/ CloneFrom(m, t)
        PROVE  Sets!Next \/ UNCHANGED Sets!vars
    <3>1. op = "idle" /\ ~wild
      BY <2>2 DEF Reset, SetSize, Found, CloneFrom, Reverse, Narrow, Union, Complement, Idle
    <3>2. QED
      BY <2>2, <3>1, OperationRefines
  <2>3. CASE UnionStep \/ FilterStep \/ ReverseStep \/ EndLoop
    BY <2>3, LoopRefines
  <2>4. QED
    BY <2>1, <2>2, <2>3 DEF Next
<1>3. QED
  BY <1>1, <1>2, Invariance, PTL DEF Spec, ImplementsRowSet, Sets!Spec
=============================================================================
