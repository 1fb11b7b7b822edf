----------------------------- MODULE SubPatterns ----------------------------
(***************************************************************************)
(* How the values of one variable are kept as sub-patterns, and read back  *)
(* (union.cpp, SubPattern.cpp, the loop over the variables in main.cpp,    *)
(* and Materializ_Subpat of LogStore_API.cpp).                             *)
(*                                                                         *)
(* A sample of the values is split into parts, again and again, at a       *)
(* delimiter or at a substring that most of them share.  A part that is    *)
(* not split is empty, a constant, of fixed length or of any length; the   *)
(* parts in order are the sub-pattern.  Then every value is taken apart    *)
(* along it: the pieces go to the columns of its sub-variables, and a      *)
(* value that does not fit goes to the outliers whole, with an empty cell  *)
(* in every column.                                                        *)
(*                                                                         *)
(* Characters are members of a small set; a sub-variable keeps the classes *)
(* of characters it has seen and its greatest length, which the search     *)
(* filters with.                                                           *)
(***************************************************************************)
EXTENDS Integers, Sequences, FiniteSets, SequencesExt

CONSTANTS Inputs,     \* the values a variable may have, row by row
          SampleSize, \* the number of values sampled (1000)
          Class,      \* getTypeC: the class of each character
          Symbol,     \* the class of the characters a value is split at
          Threshold,  \* percent of the sample that counts as most of it (90)
          Undefined

Strings == Seq(DOMAIN Class)

ASSUME SubPatternsAssumption ==
  /\ Threshold \in 50 .. 99 /\ SampleSize \in Nat \ {0} /\ Undefined \notin Strings
  /\ \A v \in Inputs : v \in Seq(Strings \ {<<>>}) /\ v # <<>>

VARIABLES pc,        \* "split", "extract" or "done"
          value, sample,
          parts,     \* tree, in the order of num, without the nodes that were split
          row,       \* the number of values taken apart
          cells,     \* data of the sub-patterns: a cell for each, row by row
          outliers,  \* rows kept whole
          tags, lens \* dataType and maxLen of each part

vars == <<pc, value, sample, parts, row, cells, outliers, tags, lens>>

Classes(s) == {Class[s[i]] : i \in DOMAIN s}
Most(S)    == 100 * Cardinality(S) > Threshold * Cardinality(sample)
At(s, i, w) == SubSeq(s, i, i + Len(w) - 1) = w
Places(s, w) == {i \in 1 .. Len(s) - Len(w) + 1 : At(s, i, w)}
Has(s, w)    == Places(s, w) # {}

(* A part: what the rows that fit have there.                              *)
Open(data) == [kind |-> "open", data |-> data, text |-> <<>>, len |-> 0]
Live(p)    == DOMAIN p.data
With(p, w) == {r \in Live(p) : Has(p.data[r], w)}
-----------------------------------------------------------------------------
(* testSpliter: most of the values have the character, and more than it.   *)
Spliter(p, c) == Most({r \in With(p, <<c>>) : Len(p.data[r]) # 1})

(* The first character of the pivot that splits                            *)
SpliterOf(p, pivot) ==
  LET s    == p.data[pivot]
      good == {i \in DOMAIN s : Class[s[i]] = Symbol /\ Spliter(p, s[i])}
  IN IF good = {} THEN <<>> ELSE <<s[Min(good)]>>

(* getLCS: of the longest common substrings, the first in the shorter one  *)
LCS(a, b) ==
  LET s == IF Len(a) > Len(b) THEN b ELSE a
      t == IF Len(a) > Len(b) THEN a ELSE b
      common(n) == {i \in 1 .. Len(s) - n + 1 : Has(t, SubSeq(s, i, i + n - 1))}
      longest   == CHOOSE n \in 0 .. Len(s) : common(n) # {} /\ common(n + 1) = {}
      first     == Min(common(longest))
  IN SubSeq(s, first, first + longest - 1)

(* testLCS, of ever shorter prefixes of the substring of two pivots: the   *)
(* longest that most values have.  What is split at is shorter by one.     *)
Tested(p, lcs) == {n \in 2 .. Len(lcs) : Most(With(p, SubSeq(lcs, 1, n)))}

Shared(p, a, b) ==
  LET lcs == LCS(p.data[a], p.data[b])
      n   == Tested(p, lcs)
  IN IF lcs \in {p.data[a], p.data[b]} \/ Len(lcs) < 3 \/ n = {} THEN <<>> ELSE SubSeq(lcs, 1, Max(n))

(* matchSpliter, matchLCS and equeue: three parts, of the values that have *)
(* the string tested, before, at and after the string split at             *)

(* Mutant: the last part begins at the string.                             *)
ThreePartsAt(p, tested, w) ==
  LET live == With(p, tested)
      at   == [r \in live |-> Min(Places(p.data[r], w))]
  IN << Open([r \in live |-> SubSeq(p.data[r], 1, at[r] - 1)]),
        Open([r \in live |-> w]),
        Open([r \in live |-> SubSeq(p.data[r], at[r], Len(p.data[r]))]) >>

ThreeParts(p, tested, w) ==
  LET live == With(p, tested)
      at   == [r \in live |-> Min(Places(p.data[r], w))]
  IN << Open([r \in live |-> SubSeq(p.data[r], 1, at[r] - 1)]),
        Open([r \in live |-> w]),
        Open([r \in live |-> SubSeq(p.data[r], at[r] + Len(w), Len(p.data[r]))]) >>

(* The ways split may end with the pivots it draws: three new parts, or    *)
(* none after three tries that fail, or that draw outliers only            *)
SplitsAt(p, a, b) ==
  {ThreeParts(p, w, w) : w \in {SpliterOf(p, a)} \ {<<>>}}
  \union {ThreeParts(p, w, Front(w)) : w \in IF SpliterOf(p, a) = <<>> THEN {Shared(p, a, b)} \ {<<>>} ELSE {}}

Splits(p) == UNION {SplitsAt(p, x[1], x[2]) : x \in Live(p) \X Live(p)}

SplitFails(p) ==
  \/ Live(p) # sample
  \/ \E a, b \in Live(p) : SplitsAt(p, a, b) = {}
-----------------------------------------------------------------------------
(* A variable with fewer different values is kept as a dictionary.         *)
Init == /\ pc = "split"
        /\ value \in {v \in Inputs : 2 * Cardinality(ToSet(v)) >= Len(v)}
        /\ sample \in {S \in SUBSET DOMAIN value :
                        Cardinality(S) = IF Len(value) < SampleSize THEN Len(value) ELSE SampleSize}
        /\ parts = <<Open([r \in sample |-> value[r]])>>
        /\ row = 0 /\ cells = <<>> /\ outliers = {} /\ tags = <<>> /\ lens = <<>>

Closed(i) == \A j \in 1 .. i - 1 : parts[j].kind # "open"
Due(i)    == pc = "split" /\ parts[i].kind = "open" /\ Closed(i)
Constants(p) == {s \in Range(p.data) : Most({r \in Live(p) : p.data[r] = s})}

(* An empty part is no part of the pattern.                                *)
Constant(i) ==
  /\ Due(i)
  /\ \E s \in Constants(parts[i]) :
       parts' = IF s = <<>> THEN RemoveAt(parts, i)
                ELSE [parts EXCEPT ![i].kind = "const", ![i].text = s, ![i].len = Len(s)]
  /\ UNCHANGED <<pc, value, sample, row, cells, outliers, tags, lens>>

Split(i) ==
  /\ Due(i) /\ Constants(parts[i]) = {}
  /\ \E three \in Splits(parts[i]) :
       parts' = SubSeq(parts, 1, i - 1) \o three \o SubSeq(parts, i + 1, Len(parts))
  /\ UNCHANGED <<pc, value, sample, row, cells, outliers, tags, lens>>

(* No split: the part has a fixed length if most values have it there.     *)
Close(i) ==
  /\ Due(i) /\ Constants(parts[i]) = {} /\ SplitFails(parts[i])
  /\ LET p == parts[i]
         fixed == {n \in {Len(s) : s \in Range(p.data)} : Most({r \in Live(p) : Len(p.data[r]) = n})}
     IN parts' = IF fixed = {} THEN [parts EXCEPT ![i].kind = "var"]
                 ELSE [parts EXCEPT ![i].kind = "fixed", ![i].len = CHOOSE n \in fixed : TRUE]
  /\ UNCHANGED <<pc, value, sample, row, cells, outliers, tags, lens>>

Build ==
  /\ pc = "split" /\ Closed(Len(parts) + 1)
  /\ pc' = "extract"
  /\ tags' = [i \in DOMAIN parts |-> {}]
  /\ lens' = [i \in DOMAIN parts |-> IF parts[i].kind = "fixed" THEN parts[i].len ELSE -1]
  /\ UNCHANGED <<value, sample, parts, row, cells, outliers>>
-----------------------------------------------------------------------------
(* The constants that follow a part, as one string                         *)
NextConstant(i) ==
  LET stop == {j \in i + 1 .. Len(parts) : parts[j].kind # "const"}
      last == IF stop = {} THEN Len(parts) ELSE Min(stop) - 1
  IN FlattenSeq([k \in 1 .. last - i |-> parts[i + k].text])

(* SubPattern::extract: where part i ends in s when it begins after at, -1 *)
(* if it does not fit.  Nothing asks whether the last part ends s.         *)
(* Mutant: it has a character.                                              *)
VariableNonEmpty(i, s, at) ==
  LET w    == NextConstant(i)
      stop == {n \in 1 .. Len(s) - at : \/ at + n + Len(w) >= Len(s)
                                        \/ w # <<>> /\ At(s, at + n + 1, w)}
  IN at + Min(stop)

Variable(i, s, at) ==
  LET w    == NextConstant(i)
      stop == {n \in 0 .. Len(s) - at : \/ at + n + Len(w) >= Len(s)
                                        \/ w # <<>> /\ At(s, at + n + 1, w)}
  IN at + Min(stop)

Extract(i, s, at) ==
  LET p == parts[i] IN
  CASE p.kind = "const" -> IF at + p.len <= Len(s) /\ At(s, at + 1, p.text) THEN at + p.len ELSE -1
    [] p.kind = "fixed" -> IF at < Len(s) /\ at + p.len <= Len(s) THEN at + p.len ELSE -1
    [] p.kind = "var"   -> IF at < Len(s) THEN Variable(i, s, at) ELSE -1

(* Mutant: the reading point is not moved over a constant.                 *)
EndsUnmoved(s) ==
  LET end[i \in 0 .. Len(parts)] ==
        IF i = 0 THEN 0
        ELSE LET at == end[i - 1]
             IN IF at = -1 THEN -1
                ELSE IF parts[i].kind = "const" /\ Extract(i, s, at) # -1 THEN at ELSE Extract(i, s, at)
  IN end

Ends(s) ==
  LET end[i \in 0 .. Len(parts)] ==
        IF i = 0 THEN 0 ELSE LET at == end[i - 1] IN IF at = -1 THEN -1 ELSE Extract(i, s, at)
  IN end

(* What a value adds to the classes and lengths stays even if a later part *)
(* does not fit.                                                           *)
Piece(i, s) == LET end == Ends(s) IN IF end[i] = -1 THEN <<>> ELSE SubSeq(s, end[i - 1] + 1, end[i])

(* Mutant: only the last value counts.                                     *)
SeenLast(s) == tags' = [i \in DOMAIN parts |-> Classes(Piece(i, s))]

Seen(s) == tags' = [i \in DOMAIN parts |-> tags[i] \union Classes(Piece(i, s))]

Add(s, fits) == cells' = Append(cells, [i \in DOMAIN parts |-> IF fits THEN Piece(i, s) ELSE <<>>])

ExtractRow ==
  /\ pc = "extract"
  /\ LET s == value[row + 1]
         fits == Ends(s)[Len(parts)] # -1
     IN /\ Add(s, fits)
        /\ outliers' = IF fits THEN outliers ELSE outliers \union {row + 1}
        /\ Seen(s)
        /\ lens' = [i \in DOMAIN parts |->
                      IF parts[i].kind = "var" /\ Ends(s)[i] # -1 /\ Len(Piece(i, s)) > lens[i]
                      THEN Len(Piece(i, s)) ELSE lens[i]]
  /\ row' = row + 1
  /\ pc' = IF row' = Len(value) THEN "done" ELSE pc
  /\ UNCHANGED <<value, sample, parts>>

Next == (\E i \in DOMAIN parts : Constant(i) \/ Split(i) \/ Close(i)) \/ Build \/ ExtractRow

Spec == Init /\ [][Next]_vars
-----------------------------------------------------------------------------
(* Materializ_Subpat, of the value in row r, when nothing else is printed  *)
(* before it.  An empty cell is taken for that of an outlier if there are  *)
(* any: the outlier is written over what there is, by the first sub-       *)
(* variable, and constants are written all the same.                       *)
Unreadable(i) == parts[i].kind = "var" /\ lens[i] <= 0

Overwritten(text, s) == s \o SubSeq(text, Len(s) + 1, Len(text))

(* Mutant: nothing is taken from the outliers.                             *)
PrintPartKept(r, text, const, first, i) == text \o const \o cells[r][i]

PrintPart(r, text, const, first, i) ==
  LET cell == cells[r][i]
      base == text \o const
  IN CASE outliers = {} \/ cell # <<>> -> base \o cell
       [] outliers # {} /\ cell = <<>> /\ ~first -> base
       [] outliers # {} /\ cell = <<>> /\ first ->
            IF r \in outliers THEN Overwritten(base, value[r]) ELSE Undefined

Printed(r) ==
  LET sofar[i \in 0 .. Len(parts)] ==
        IF i = 0 THEN [text |-> <<>>, const |-> <<>>, first |-> TRUE]
        ELSE LET p == sofar[i - 1] IN
             CASE p.text = Undefined -> p
               [] p.text # Undefined /\ parts[i].kind = "const" -> [p EXCEPT !.const = p.const \o parts[i].text]
               [] p.text # Undefined /\ parts[i].kind # "const" ->
                    [text |-> IF Unreadable(i) THEN Undefined ELSE PrintPart(r, p.text, p.const, p.first, i),
                     const |-> <<>>, first |-> FALSE]
      last == sofar[Len(parts)]
  IN IF last.text = Undefined THEN Undefined ELSE last.text \o last.const
-----------------------------------------------------------------------------
Columns  == {i \in DOMAIN parts : parts[i].kind \in {"fixed", "var"}}
Total(p) == SumFunction([r \in Live(p) |-> Len(p.data[r])])
IsConst(i) == parts[i].kind = "const"
Kept(r)  == FlattenSeq([i \in DOMAIN parts |-> IF IsConst(i) THEN parts[i].text ELSE cells[r][i]])
FirstEmpty(r) == \E i \in Columns : cells[r][i] = <<>> /\ \A j \in Columns : i <= j

(* Every part says what this sampled value has there, and the last part   *)
(* has something.                                                          *)
Typical(r) ==
  /\ \A i \in DOMAIN parts :
       /\ r \in Live(parts[i])
       /\ IsConst(i) => parts[i].data[r] = parts[i].text
       /\ parts[i].kind = "fixed" => Len(parts[i].data[r]) = parts[i].len
  /\ FlattenSeq([i \in DOMAIN parts |-> parts[i].data[r]]) = value[r]
  /\ parts # <<>> /\ Last(parts).data[r] # <<>>

(* A sampled value that is what the parts say, part by part, is taken     *)
(* apart as it was split.                                                  *)
SplitAgrees == pc = "done" => \A r \in sample :
  Typical(r) => r \notin outliers /\ \A i \in Columns : cells[r][i] = parts[i].data[r]

(* What is kept of a value that fits is a beginning of it, and all of it   *)
(* if the sub-pattern ends in a part of any length: nothing is mixed up or *)
(* taken twice, and only what goes on after a constant or fixed last part  *)
(* is lost.                                                                *)
KeptExactly == \A r \in (1 .. Len(cells)) \ outliers :
  /\ IsPrefix(Kept(r), value[r])
  /\ parts # <<>> /\ Last(parts).kind = "var" => Kept(r) = value[r]

(* The classes and the lengths the search filters with admit every cell.   *)
FiltersAdmit == \A r \in 1 .. Len(cells), i \in Columns :
  r \notin outliers => Classes(cells[r][i]) \subseteq tags[i] /\ Len(cells[r][i]) <= lens[i]

(* What is printed is the value, but for a value that was cut when it was  *)
(* kept; one whose first sub-variable is empty, taken for an outlier; and  *)
(* an outlier, if the sub-pattern has constants that are written over or   *)
(* after it.                                                               *)
PrintedRight == pc = "done" => \A r \in DOMAIN value :
  \/ Printed(r) = value[r]
  \/ r \notin outliers /\ Kept(r) # value[r]
  \/ r \notin outliers /\ outliers # {} /\ FirstEmpty(r)
  \/ r \in outliers /\ \E i \in DOMAIN parts : IsConst(i)
  \/ \E i \in DOMAIN parts : Unreadable(i)

(* Splitting ends: what a part is split into is less than it was, in all. *)
SplitsShrink ==
  [][\A i \in DOMAIN parts : Due(i) /\ Len(parts') > Len(parts) =>
        \A k \in i .. i + 2 : Total(parts'[k]) < Total(parts[i])]_vars
=============================================================================
