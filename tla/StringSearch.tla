---------------------------- MODULE StringSearch ----------------------------
(***************************************************************************)
(* The searches of a string in the column of values of one variable        *)
(* (SearchAlgorithm.cpp), as LogStoreApi::QueryByBM_* calls them.          *)
(*                                                                         *)
(* A column is stored in rows of LineLen characters, each value padded     *)
(* with blanks on its left (Fixed), or as values ended by a newline.  The  *)
(* first kind is searched by Boyer-Moore and by comparing ends of rows,    *)
(* the second value by value by Knuth-Morris-Pratt.  A search adds the     *)
(* rows it finds to a bitmap, keeps those of a bitmap that it finds        *)
(* (pushdown), or adds those of another bitmap that it finds (ref map).    *)
(*                                                                         *)
(* A string is a sequence of characters; At counts them from 0, as the     *)
(* code does.  A bitmap is its Index: the rows in the order they were put  *)
(* there; a full map lists every row.                                      *)
(***************************************************************************)
EXTENDS Integers, Sequences, FiniteSets

CONSTANTS Chars,     \* the characters of values
          Columns,   \* the sequences of values to search
          Patterns,  \* the strings searched for in each of them
          Blank,     \* the padding character, ' '
          LineLen    \* eleLen of the columns of fixed width

VARIABLES column, fixed, \* the values, and whether they are padded
          map, ref       \* bitmap and refBitmap

vars == <<column, fixed, map, ref>>

Align == {"FULL", "LEFT", "RIGHT", "ANY"}   \* QTYPE_ALIGN_*

At(s, i)  == s[i + 1]
Rows      == 0 .. Len(column) - 1
Value(r)  == column[r + 1]
Listed(m) == {m[i] : i \in DOMAIN m}

Occurs(s, p, i) == i >= 0 /\ i + Len(p) <= Len(s) /\ SubSeq(s, i + 1, i + Len(p)) = p
Ends(s, p)      == Occurs(s, p, Len(s) - Len(p))

(* A blank delimits the words of a log and of a query, and is in no value. *)
ASSUME ColumnAssumption ==
  /\ LineLen \in Nat \ {0} /\ Blank \notin Chars
  /\ \A c \in Columns : /\ c \in Seq(Seq(Chars)) /\ c # <<>>
                        /\ \A r \in DOMAIN c : Len(c[r]) <= LineLen
                        /\ Patterns[c] \subseteq (Seq(Chars) \ {<<>>}) \union {<<Blank>>}
-----------------------------------------------------------------------------
(* Boyer-Moore.  BadC: how far the last place of c is from the end.        *)
BadC(p, c) ==
  LET last == {i \in 0 .. Len(p) - 1 : At(p, i) = c} IN
  IF last = {} THEN Len(p) ELSE Len(p) - 1 - CHOOSE i \in last : \A k \in last : k <= i

Border(p) == {n \in 1 .. Len(p) - 1 : SubSeq(p, 1, n) = SubSeq(p, Len(p) - n + 1, Len(p))}

(* Where the suffix from i + 1 occurs again after another character        *)
Again(p, i) ==
  {j \in 1 .. i : /\ Occurs(SubSeq(p, j + 1, j + Len(p) - 1 - i), SubSeq(p, i + 2, Len(p)), 0)
                  /\ At(p, i) # At(p, j - 1)}

(* Mutant: the place of the suffix itself is taken, not what precedes it.  *)
GoodSLate(p, i) ==
  LET n == Len(p) - 1 - i
  IN IF n = 0 THEN 1
     ELSE IF Again(p, i) # {}
     THEN Len(p) - 1 - (CHOOSE j \in Again(p, i) : \A k \in Again(p, i) : k <= j)
     ELSE n + Len(p)

GoodS(p, i) ==
  LET n == Len(p) - 1 - i                        \* characters that agreed
      c == IF Border(p) = {} THEN 0 ELSE CHOOSE b \in Border(p) : \A k \in Border(p) : k <= b
  IN IF n = 0 THEN 1
     ELSE IF Again(p, i) # {}
     THEN Len(p) - (CHOOSE j \in Again(p, i) : \A k \in Again(p, i) : k <= j)
     ELSE n + Len(p) - (IF c # 0 /\ n >= c THEN c ELSE 0)

Shift(p, i, c) == IF GoodS(p, i) > BadC(p, c) THEN GoodS(p, i) ELSE BadC(p, c)

(* How many characters agree, from the end of p, at position j of s        *)
Agree(s, p, j) == CHOOSE n \in 0 .. Len(p) :
                    /\ \A k \in 0 .. n - 1 : At(s, j - k) = At(p, Len(p) - 1 - k)
                    /\ n < Len(p) => At(s, j - n) # At(p, Len(p) - 1 - n)

(* The first match Boyer-Moore finds, or -1; in a row of fixed width       *)
(* BM_Fixed_Anypos makes the same jumps and stops at the end of the row.   *)
BMOnce(s, p) ==
  LET scan[j \in Nat] ==
        IF j >= Len(s) THEN -1
        ELSE LET n == Agree(s, p, j) IN
             IF n = Len(p) THEN j - n + 1
             ELSE scan[j - n + Shift(p, Len(p) - 1 - n, At(s, j - n))]
  IN scan[Len(p) - 1]
-----------------------------------------------------------------------------
(* Knuth-Morris-Pratt: j is the length of the border before i, and next    *)
(* the places to go on from when a character does not agree.               *)
TableStep(p, i, t) ==
  LET back[j \in -1 .. i - 1] ==
        IF j = -1 \/ At(p, i - 1) = At(p, j) THEN j + 1 ELSE back[t.next[j]]
      j == back[t.j]
      n == IF At(p, i) # At(p, j) THEN j ELSE t.next[j]
  IN [j |-> j, next |-> [k \in 0 .. i |-> IF k < i THEN t.next[k] ELSE n]]

Table(p) ==
  LET T[i \in 0 .. Len(p) - 1] == IF i = 0 THEN [j |-> -1, next |-> [k \in {0} |-> -1]]
                                 ELSE TableStep(p, i, T[i - 1])
  IN T[Len(p) - 1].next

(* The place of the first match, or -1                                     *)
First(s, p) ==
  LET next == Table(p)
      scan[d \in (0 .. Len(s)) \X (-1 .. Len(p))] ==
        LET i == d[1]
            j == d[2]
        IN IF j = Len(p) THEN i - j
           ELSE IF i = Len(s) THEN -1
           ELSE IF j = -1 \/ At(s, i) = At(p, j) THEN scan[<<i + 1, j + 1>>] ELSE scan[<<i, next[j]>>]
  IN scan[<<0, 0>>]

KMP(s, p, align) ==
  LET at == First(s, p) IN
  /\ at >= 0
  /\ align = "RIGHT" => at + Len(p) = Len(s)
  /\ align = "LEFT" => at = 0
-----------------------------------------------------------------------------
(* A column of fixed width                                                 *)
Pad(v)     == [i \in 1 .. LineLen - Len(v) |-> Blank] \o v
Text       == LET upto[r \in 0 .. Len(column)] == IF r = 0 THEN <<>> ELSE upto[r - 1] \o Pad(Value(r - 1))
              IN upto[Len(column)]
PadRow(r)  == SubSeq(Text, r * LineLen + 1, (r + 1) * LineLen)

(* The padding before a value is skipped by the shifts of Boyer-Moore,     *)
(* which may leave the row: where the start of p comes to lie              *)
Skip(t, p, from) ==
  LET skip[i \in Nat] ==
        IF i < Len(t) /\ At(t, i) = Blank
        THEN skip[i + Shift(p, Len(p) - 1,
                            IF i + Len(p) <= Len(t) THEN At(t, i + Len(p) - 1) ELSE "")]
        ELSE i
  IN skip[from]

(* Mutant: a value is compared wherever the skipping ends.                 *)
FixedLeftAnywhere(t, p, r) == Occurs(t, p, Skip(t, p, r * LineLen))

(* BM_Fixed_AlignL                                                         *)
FixedLeft(t, p, r) ==
  LET i == Skip(t, p, r * LineLen)
  IN Occurs(t, p, i) /\ (i % LineLen = 0 \/ At(t, i - 1) = Blank)

(* SeqMatching_AlignLeft on row r: it may run past the end of the column,  *)
(* where garbage says what it finds.                                       *)
RowLeft(t, p, r, garbage) ==
  LET i == Skip(t, p, r * LineLen)
  IN IF i > Len(t) THEN garbage
     ELSE Occurs(t, p, i) /\ (i = r * LineLen \/ At(t, i - 1) = Blank)

(* BM_Fixed_Align and BM_Fixed_Anypos on a row, and KMP on a value.  A     *)
(* blank stands for an empty value.                                        *)
FixedFinds(p, align, r) ==
  /\ Len(p) <= LineLen
  /\ CASE align \in {"FULL", "RIGHT"}      -> Ends(PadRow(r), p)
       [] align = "ANY"                    -> BMOnce(PadRow(r), p) >= 0
       [] align = "LEFT" /\ p = <<Blank>>  -> At(PadRow(r), LineLen - 1) = Blank
       [] align = "LEFT" /\ p # <<Blank>>  -> FixedLeft(Text, p, r)

Finds(p, align, r) == IF fixed THEN FixedFinds(p, align, r) ELSE KMP(Value(r), p, align)

(* Mutant: the ends of rows are compared from the left.                    *)
RowFindsLeft(p, align, r, garbage) ==
  /\ Len(p) <= LineLen
  /\ IF align = "ANY" THEN FixedFinds(p, align, r) ELSE RowLeft(Text, p, r, garbage)

(* ... and on one row, taken alone                                         *)
RowFinds(p, align, r, garbage) ==
  /\ Len(p) <= LineLen
  /\ IF align = "LEFT" THEN RowLeft(Text, p, r, garbage) ELSE FixedFinds(p, align, r)

(* BM_Fixed_Pushdown looks for an empty value before the row of the next   *)
(* place of Index, which for the last place is not in use.                 *)
PlaceFinds(p, align, m, n, garbage) ==
  IF align = "LEFT" /\ p = <<Blank>>
  THEN IF n < Len(m) /\ m[n + 1] > 0 THEN At(PadRow(m[n + 1] - 1), LineLen - 1) = Blank
                                     ELSE garbage
  ELSE RowFinds(p, align, m[n], garbage)
-----------------------------------------------------------------------------
(* The elements of s that are in S                                         *)
Only(s, S) ==
  LET upto[n \in 0 .. Len(s)] == IF n = 0 THEN <<>>
                                ELSE upto[n - 1] \o (IF s[n] \in S THEN <<s[n]>> ELSE <<>>)
  IN upto[Len(s)]

BeSizeFul(m)    == Len(m) = Len(column)
RowList         == [i \in DOMAIN column |-> i - 1]
Found(p, align) == Only(RowList, {r \in Rows : Finds(p, align, r)})

(* BitMap::Union(int) of each row in order: one that is set is not listed  *)
(* a second time.                                                          *)
Union(m, found) == m \o Only(found, Rows \ Listed(m))

KeepPlaces(m, places) ==
  LET keep == Only([n \in DOMAIN m |-> n], places) IN [n \in DOMAIN keep |-> m[keep[n]]]

(* BM_Diff_Pushdown_RefMap goes through the column and through Index in    *)
(* step: it sees a row only while Index ascends, and after the last one    *)
(* stale says which rows the entries not in use refer to.                  *)
InStep(m, stale) ==
  LET n == Cardinality({k \in DOMAIN m : \A i \in 1 .. k - 1 : m[i] < m[i + 1]})
      later == {r \in stale : n > 0 => m[n] < r}
  IN IF n < Len(m) THEN SubSeq(m, 1, n)
     ELSE m \o Only(RowList, later)
-----------------------------------------------------------------------------
(* What a read outside the column, or of Index beyond its size, can tell   *)
Garbage == IF fixed THEN BOOLEAN ELSE {FALSE}
Stale   == IF fixed THEN {{}} ELSE SUBSET Rows

(* QueryByBM_Union: a string as long as the rows is compared with them.    *)
Scan(p, align) == {Union(map, Found(p, IF fixed /\ Len(p) = LineLen THEN "FULL" ELSE align))}

(* QueryByBM_Pushdown: a full map is reset and filled by a scan; a string  *)
(* longer than the rows leaves the map as it is.                           *)
Pushdown(p, align) ==
  CASE map # <<>> /\ BeSizeFul(map) -> {Found(p, align)}
    [] ~BeSizeFul(map) /\ ~fixed    -> {Only(Found(p, align), Listed(map))}
    [] ~BeSizeFul(map) /\ fixed     ->
         IF Len(p) > LineLen THEN {map}
         ELSE {KeepPlaces(map, {n \in DOMAIN map : PlaceFinds(p, align, map, n, garbage)}) : garbage \in Garbage}

(* QueryByBM_Pushdown_RefMap                                               *)
RefScan(p, align) ==
  IF BeSizeFul(ref) THEN {Union(map, Found(p, align))}
  ELSE IF ref = <<>> THEN {map}
  ELSE IF fixed
  THEN {Union(map, Only(ref, {r \in Rows : RowFinds(p, align, r, garbage)})) : garbage \in Garbage}
  ELSE {Union(map, Only(InStep(ref, stale), {r \in Rows : KMP(Value(r), p, align)})) : stale \in Stale}

(* The maps a search may leave                                             *)
Result(op, p, align) == CASE op = "scan"     -> Scan(p, align)
                          [] op = "pushdown" -> Pushdown(p, align)
                          [] op = "ref"      -> RefScan(p, align)

Init == column \in Columns /\ fixed \in BOOLEAN /\ map = <<>> /\ ref = <<>>

Search(op, p, align) == /\ map' \in Result(op, p, align)
                        /\ UNCHANGED <<column, fixed, ref>>

(* The caller goes on to another segment: the rows found become the ones   *)
(* that it is searched in.                                                 *)
Advance == /\ map # <<>> /\ ref = <<>>
           /\ ref' = map /\ map' = <<>>
           /\ UNCHANGED <<column, fixed>>

Ops == {"scan", "pushdown", "ref"}

(* GetSubVals_Pushdown asks for an empty value at one end of another only. *)
Calls == {c \in Patterns[column] \X Align : c[1] = <<Blank>> => c[2] \in {"LEFT", "RIGHT"}}

Next == \/ Advance
        \/ \E op \in Ops, c \in Calls : Search(op, c[1], c[2])

Spec == Init /\ [][Next]_vars
-----------------------------------------------------------------------------
(* What is asked of a value: to be p, to begin or end with it, to have it. *)
(* A blank asks for an empty value.                                        *)
Holds(v, p, align) ==
  IF p = <<Blank>> THEN v = <<>>
  ELSE CASE align = "FULL"  -> v = p
         [] align = "LEFT"  -> Occurs(v, p, 0)
         [] align = "RIGHT" -> Ends(v, p)
         [] align = "ANY"   -> \E i \in 0 .. Len(v) : Occurs(v, p, i)

(* The rows a search is asked to look at, and those it leaves alone        *)
Asked(op) == CASE op = "scan" -> Rows [] op = "pushdown" -> Listed(map) [] op = "ref" -> Listed(ref)
Kept(op)  == IF op = "pushdown" THEN {} ELSE Listed(map)

(* Strings Boyer-Moore may look for: the table of shifts is right for a    *)
(* string with at most one border.  In a column that is not padded, a      *)
(* match at the end is seen when it is the first, an empty value never.    *)
Sound(p, align, v) ==
  IF fixed THEN align = "ANY" => Cardinality(Border(p)) <= 1
  ELSE p # <<Blank>> /\ (align = "RIGHT" => Cardinality({i \in 0 .. Len(v) : Occurs(v, p, i)}) = 1)

(* Searches outside the properties: for an empty value in rows of Index,   *)
(* by a loop that looks at the wrong row or skips all blanks; and in the   *)
(* rows of an Index that does not ascend, of a column that is not padded.  *)
Astray(op, p, align) ==
  \/ fixed /\ p = <<Blank>> /\ align = "LEFT" /\ op # "scan" /\ ~BeSizeFul(IF op = "ref" THEN ref ELSE map)
  \/ ~fixed /\ op = "ref" /\ \E i \in 1 .. Len(ref) - 1 : ref[i] > ref[i + 1]

(* No search misses a row: shifts, tables and skipped padding never jump   *)
(* over a match.                                                           *)
NothingMissed ==
  \A op \in Ops, c \in Calls : ~Astray(op, c[1], c[2]) =>
    \A m \in Result(op, c[1], c[2]), r \in Asked(op) :
      Holds(Value(r), c[1], c[2]) /\ Sound(c[1], c[2], Value(r)) => r \in Listed(m)

(* No search lists a row twice, or one without the string at the place     *)
(* asked for.  What it takes for a whole value may only end with it (in a  *)
(* padded column) or have it (in the other); and the skipping of padding   *)
(* leaves a value that is shorter than the string.  A string longer than   *)
(* the rows is not looked for in those of a bitmap.                        *)
NothingInvented ==
  \A op \in Ops, c \in Calls :
    ~Astray(op, c[1], c[2]) /\ (op = "ref" => fixed) /\ (op = "pushdown" => Len(c[1]) <= LineLen) =>
      \A m \in Result(op, c[1], c[2]) :
        /\ Cardinality(Listed(m)) = Len(m)
        /\ \A r \in Listed(m) \ Kept(op) :
             /\ r \in Asked(op)
             /\ \/ Holds(Value(r), c[1],
                         IF c[2] # "FULL" THEN c[2] ELSE IF fixed THEN "RIGHT" ELSE "ANY")
                \/ fixed /\ c[2] = "LEFT" /\ Len(Value(r)) < Len(c[1])

(* Searching within the rows of a bitmap gives what searching the column   *)
(* and intersecting would: the loops over rows agree with the loops over   *)
(* the column, which are written apart.                                    *)
PushdownIsScan ==
  \A op \in Ops \ {"scan"}, c \in Calls :
    fixed /\ Len(c[1]) <= LineLen /\ ~Astray(op, c[1], c[2]) =>
      \A m \in Result(op, c[1], c[2]), r \in Asked(op) \ Kept(op) :
        (c[2] = "LEFT" => Len(Value(r)) >= Len(c[1]))
          => (r \in Listed(m) <=> r \in Listed(Found(c[1], c[2])))

(* SearchAlgorithm.cpp, on BM_Once: "only return the first match": a value *)
(* that has the string has a first match, and is found, as grep finds it.  *)
FoundByGrep ==
  \A c \in Calls : c[2] = "ANY" =>
    \A m \in Scan(c[1], "ANY"), r \in Rows : Holds(Value(r), c[1], "ANY") => r \in Listed(m)
=============================================================================
