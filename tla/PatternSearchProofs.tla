------------------------ MODULE PatternSearchProofs -------------------------
(***************************************************************************)
(* TLAPS proofs about PatternSearch, for every number of rows, every       *)
(* template and tokens, and however many ways a token lies in a            *)
(* sub-pattern: which rows a search through the exchange maps finds.       *)
(***************************************************************************)
EXTENDS PatternSearch, TLAPS

Maps == [full : BOOLEAN, rows : SUBSET Rows]
Part == [full : {FALSE}, rows : SUBSET Rows]

Searching == {"vars", "alts"}

Types ==
  /\ pc \in {"align", "vars", "alts", "done", "undefined"}
  /\ pattern \in Patterns /\ ref \in {Absent} \union SUBSET Rows
  /\ index \in Nat \ {0} /\ tok \in 1 .. Len(pattern.toks) + 1
  /\ bitmap \in Maps /\ pat \in Maps /\ sub \in Part /\ temp \in Part /\ found \in Part
  /\ alt \in Nat /\ alts \in Nat
  /\ want \subseteq Scope /\ here \subseteq Scope /\ inAlts \subseteq Rows
  /\ lost \subseteq Rows /\ extra \subseteq Rows

(* The tokens are laid along the template, and one is on a variable.       *)
Laid == pc \in Searching => index <= MaxIndex /\ Aligned /\ ~InText

(* Which maps may be full: the exchange map before the first variable, and *)
(* the result of a search that is not within refBitmap; that of a single   *)
(* token ends the search.                                                  *)
FullMaps ==
  /\ pat.full => ref = Absent /\ pat.rows = {}
  /\ ref # Absent => ~bitmap.full
  /\ pc \in Searching \union {"align"} /\ Single => ~bitmap.full

(* A map has the rows S, but for those the code is known to treat wrongly. *)
Has(m, S) == S \subseteq Listed(m) \union lost /\ Listed(m) \subseteq S \union extra

(* What is left in the exchange map is what has the tokens searched so     *)
(* far; within refBitmap it is empty before the first variable.            *)
Narrowed == pc \in Searching =>
  IF FromRef THEN here = ref /\ pat = Partial({}) ELSE Has(pat, here)

(* The alternatives before this one: their rows are in the second exchange *)
(* map, within what this search is within.                                 *)
Gathered == pc = "alts" =>
  /\ tok \in DOMAIN pattern.toks /\ Seg(tok) = "svar" /\ alt \in 1 .. alts
  /\ found.rows \subseteq Outliers \intersect Listed(Within)
  /\ alts > 1 => Single
  /\ alt = 1 => inAlts = {}
  /\ alt > 1 => sub = Partial(Listed(Within) \intersect inAlts)

Inv == /\ Types /\ Laid /\ FullMaps /\ Narrowed /\ Gathered
       /\ pc # "undefined" => Has(bitmap, want)
       /\ OverrunsKnown
-----------------------------------------------------------------------------
LEMMA UnionRows ==
  ASSUME NEW a \in Maps, NEW b \in Maps, Union(a, b) # Undefined
  PROVE  /\ Union(a, b) \in Maps
         /\ Listed(Union(a, b)) = Listed(a) \union Listed(b)
         /\ Union(a, b).full <=> a.full \/ b.full
         /\ a.full /\ ~b.full => Union(a, b) = a
BY DEF Union, Maps, Partial, Full, Listed

LEMMA UnionPart ==
  ASSUME NEW a \in Part, NEW b \in Part
  PROVE  Union(a, b) \in Part /\ Union(a, b) = Partial(a.rows \union b.rows)
BY DEF Union, Part, Partial

LEMMA UnionUndefined ==
  ASSUME NEW a \in Maps, NEW b \in Maps, Union(a, b) = Undefined
  PROVE  a.full /\ ~b.full /\ ~(b.rows \subseteq a.rows)
<1>1. Undefined \notin Maps
  BY PatternAssumption DEF Maps
<1>2. b.full => Union(a, b) \in Maps
  BY DEF Union, Maps, Full
<1>3. ~b.full /\ ~a.full => Union(a, b) \in Maps
  BY DEF Union, Maps, Partial
<1>4. ~b.full /\ a.full /\ b.rows \subseteq a.rows => Union(a, b) = a
  BY DEF Union
<1> QED
  BY <1>1, <1>2, <1>3, <1>4 DEF Maps

LEMMA PartIsMap ==
  /\ Part \subseteq Maps
  /\ \A m \in Maps : ~m.full => m \in Part /\ m = Partial(m.rows)
  /\ \A m \in Part : ~m.full /\ m = Partial(m.rows) /\ Listed(m) = m.rows
  /\ \A S \in SUBSET Rows : Partial(S) \in Part /\ Partial(S).rows = S /\ Listed(Partial(S)) = S
  /\ \A m \in Maps : Listed(m) \subseteq Rows
<1>1. Part \subseteq Maps /\ \A m \in Maps : Listed(m) \subseteq Rows
  BY DEF Part, Maps, Listed
<1>2. ASSUME NEW m \in Maps, ~m.full PROVE m \in Part /\ m = Partial(m.rows)
  BY <1>2 DEF Part, Maps, Partial
<1>3. ASSUME NEW m \in Part PROVE ~m.full /\ m = Partial(m.rows) /\ Listed(m) = m.rows
  BY DEF Part, Partial, Listed
<1>4. ASSUME NEW S \in SUBSET Rows
      PROVE  Partial(S) \in Part /\ Partial(S).rows = S /\ Listed(Partial(S)) = S
  BY DEF Part, Partial, Listed
<1> QED
  BY <1>1, <1>2, <1>3, <1>4
-----------------------------------------------------------------------------
(* A search in a map that is not empty leaves the rows of it that have all *)
(* the strings; of an empty one, none.                                     *)
LEMMA HaveAllHead ==
  ASSUME NEW sets \in Seq(SUBSET Rows), sets # <<>>
  PROVE  /\ Head(sets) \subseteq Rows /\ Tail(sets) \in Seq(SUBSET Rows)
         /\ HaveAll(sets) = Head(sets) \intersect HaveAll(Tail(sets))
<1>1. /\ Tail(sets) \in Seq(SUBSET Rows) /\ Head(sets) = sets[1] /\ sets[1] \in SUBSET Rows
      /\ Len(Tail(sets)) = Len(sets) - 1 /\ Len(sets) \in Nat \ {0}
      /\ \A i \in 1 .. Len(sets) - 1 : Tail(sets)[i] = sets[i + 1]
      /\ DOMAIN sets = 1 .. Len(sets) /\ DOMAIN Tail(sets) = 1 .. Len(Tail(sets))
  OBVIOUS
<1>2. ASSUME NEW r \in Rows, r \in HaveAll(sets)
      PROVE  r \in Head(sets) /\ r \in HaveAll(Tail(sets))
  BY <1>1, <1>2 DEF HaveAll
<1>3. ASSUME NEW r \in Head(sets), r \in HaveAll(Tail(sets))
      PROVE  r \in HaveAll(sets)
  <2>1. r \in Rows /\ \A n \in 1 .. Len(sets) - 1 : r \in sets[n + 1]
    BY <1>1, <1>3 DEF HaveAll
  <2>2. ASSUME NEW n \in 1 .. Len(sets) PROVE r \in sets[n]
    <3>1. n = 1 \/ n - 1 \in 1 .. Len(sets) - 1
      BY <1>1
    <3> QED
      BY <1>1, <1>3, <2>1, <3>1
  <2> QED
    BY <1>1, <2>1, <2>2 DEF HaveAll
<1>4. HaveAll(sets) \subseteq Rows
  BY DEF HaveAll
<1> QED
  BY <1>1, <1>2, <1>3, <1>4

LEMMA HaveAllNone == HaveAll(<<>>) = Rows
BY DEF HaveAll

LEMMA HaveAllRows == \A sets : HaveAll(sets) \subseteq Rows
BY DEF HaveAll

LEMMA PushRows ==
  ASSUME NEW m \in Maps, NEW S \in SUBSET Rows
  PROVE  /\ Push(m, S) \in Part
         /\ Listed(Push(m, S)) = Listed(m) \intersect S
<1>1. CASE Empty(m)
  BY <1>1, PartIsMap DEF Push, Empty, Listed
<1>2. CASE ~Empty(m)
  <2>1. Listed(m) \intersect S \in SUBSET Rows
    BY PartIsMap
  <2> QED
    BY <1>2, <2>1, PartIsMap DEF Push
<1> QED
  BY <1>1, <1>2

LEMMA PushAllRows ==
  ASSUME NEW m \in Maps, NEW sets \in Seq(SUBSET Rows)
  PROVE  /\ PushAll(m, sets) \in Maps
         /\ Listed(PushAll(m, sets)) = Listed(m) \intersect HaveAll(sets)
         /\ sets = <<>> => PushAll(m, sets) = m
         /\ sets # <<>> \/ m \in Part => PushAll(m, sets) \in Part
<1>1. CASE sets = <<>>
  BY <1>1, HaveAllNone, PartIsMap DEF PushAll
<1>2. CASE sets # <<>>
  BY <1>2, HaveAllRows, PushRows, PartIsMap DEF PushAll
<1> QED
  BY <1>1, <1>2

LEMMA RefPushRows ==
  ASSUME NEW m \in Part, NEW r \in Maps, NEW S \in SUBSET Rows
  PROVE  RefPush(m, r, S) = Partial(m.rows \union (S \intersect Listed(r)))
<1>1. S \intersect Listed(r) \in SUBSET Rows
  BY PartIsMap
<1> QED
  BY <1>1, PartIsMap, UnionPart DEF RefPush

(* Within the rows of another map.  What was in the map goes through the   *)
(* strings after the first, so that it stays only if there are none.       *)
LEMMA RefPushAllRows ==
  ASSUME NEW m \in Part, NEW r \in Maps, NEW sets \in Seq(SUBSET Rows),
         m.rows = {} \/ Len(sets) <= 1
  PROVE  /\ RefPushAll(m, r, sets) \in Part
         /\ sets = <<>> => RefPushAll(m, r, sets) = m
         /\ sets # <<>> => RefPushAll(m, r, sets).rows = m.rows \union (Listed(r) \intersect HaveAll(sets))
<1>1. CASE sets = <<>>
  BY <1>1 DEF RefPushAll
<1>2. CASE sets # <<>>
  <2> DEFINE first == RefPush(m, r, Head(sets))
  <2>1. /\ Head(sets) \in SUBSET Rows /\ Tail(sets) \in Seq(SUBSET Rows)
        /\ HaveAll(sets) = Head(sets) \intersect HaveAll(Tail(sets))
    BY <1>2, HaveAllHead
  <2>2. /\ first \in Part /\ first \in Maps
        /\ first.rows = m.rows \union (Head(sets) \intersect Listed(r))
    <3>1. first = Partial(m.rows \union (Head(sets) \intersect Listed(r)))
      BY <2>1, RefPushRows
    <3>2. m.rows \union (Head(sets) \intersect Listed(r)) \in SUBSET Rows
      BY <2>1 DEF Part
    <3> QED
      BY <3>1, <3>2, PartIsMap
  <2>3. RefPushAll(m, r, sets) = PushAll(first, Tail(sets))
    BY <1>2 DEF RefPushAll
  <2>4. /\ PushAll(first, Tail(sets)) \in Part
        /\ PushAll(first, Tail(sets)).rows = first.rows \intersect HaveAll(Tail(sets))
    <3> HIDE DEF first
    <3>1. Listed(first) = first.rows /\ PushAll(first, Tail(sets)) \in Part
          /\ Listed(PushAll(first, Tail(sets))) = Listed(first) \intersect HaveAll(Tail(sets))
      BY <2>1, <2>2, PushAllRows, PartIsMap
    <3>2. Listed(PushAll(first, Tail(sets))) = PushAll(first, Tail(sets)).rows
      BY <3>1, PartIsMap, Zenon
    <3> QED
      BY <3>1, <3>2
  <2>5. m.rows # {} => Tail(sets) = <<>>
    BY <1>2
  <2>6. m.rows # {} => HaveAll(Tail(sets)) = Rows
    BY <2>5, HaveAllNone
  <2>7. m.rows \subseteq Rows /\ first.rows \subseteq Rows
    BY <2>2 DEF Part
  <2> HIDE DEF first
  <2> QED
    BY <1>2, <2>1, <2>2, <2>3, <2>4, <2>6, <2>7
<1> QED
  BY <1>1, <1>2

LEMMA SubSetsAreSeqs ==
  ASSUME NEW sets \in SubSets
  PROVE  sets \in Seq(SUBSET Rows) /\ (Single => sets # <<>>) /\ HaveAll(sets) \in SUBSET Rows
<1>1. PICK n \in 0 .. 2 : sets \in [1 .. n -> SUBSET Rows]
  BY DEF SubSets
<1>2. sets \in Seq(SUBSET Rows)
  BY <1>1
<1> QED
  BY <1>2, HaveAllRows DEF SubSets
-----------------------------------------------------------------------------
LEMMA PatternTypes ==
  ASSUME pattern \in Patterns
  PROVE  /\ Len(pattern.segs) \in Nat /\ Len(pattern.toks) \in Nat \ {0}
         /\ DOMAIN pattern.toks = 1 .. Len(pattern.toks)
         /\ DOMAIN pattern.segs = 1 .. Len(pattern.segs)
         /\ \A i \in DOMAIN pattern.segs : pattern.outliers[i] \subseteq Rows
<1>1. pattern \in Pattern /\ Len(pattern.toks) > 0 /\ DOMAIN pattern.outliers = DOMAIN pattern.segs
  BY PatternAssumption
<1>2. /\ pattern.segs \in Seq({"delim", "const"} \union Stored)
      /\ pattern.toks \in Seq({"delim", "word"})
      /\ pattern.outliers \in Seq(SUBSET Rows)
  BY <1>1 DEF Pattern
<1> QED
  BY <1>1, <1>2

LEMMA OutlierRows ==
  ASSUME Types, index <= MaxIndex, tok \in DOMAIN pattern.toks
  PROVE  Outliers \subseteq Rows
<1>1. index + tok - 1 \in DOMAIN pattern.segs
  BY PatternTypes DEF Types, MaxIndex
<1> QED
  BY <1>1, PatternTypes DEF Types, Outliers

LEMMA ScopeRows == ASSUME Types PROVE Scope \subseteq Rows /\ (ref # Absent => ref \subseteq Rows)
BY DEF Types, Scope

(* What the search of a token is within                                    *)
LEMMA WithinRows ==
  ASSUME Types
  PROVE  /\ Within \in Maps
         /\ Listed(Within) = IF FromRef THEN ref ELSE Listed(pat)
<1>1. CASE FromRef
  BY <1>1, ScopeRows, PartIsMap DEF Within, FromRef
<1>2. CASE ~FromRef
  BY <1>2 DEF Within, Types
<1> QED
  BY <1>1, <1>2

(* Beyond a token on a variable, a search is no longer within refBitmap.   *)
LEMMA RefAfter ==
  ASSUME tok \in Nat \ {0}, tok' = tok + 1, UNCHANGED <<searched, index>>
  PROVE  /\ IsVar(tok) => ~FromRef'
         /\ ~FromRef => ~FromRef'
         /\ ~IsVar(tok) /\ FromRef => FromRef'
<1>1. \A t : IsVar(t)' <=> IsVar(t)
  BY DEF IsVar, Seg, Stored, searched
<1>2. 1 .. tok' - 1 = (1 .. tok - 1) \union {tok}
  OBVIOUS
<1>3. ref' = ref
  BY DEF searched
<1> QED
  BY <1>1, <1>2, <1>3 DEF FromRef
-----------------------------------------------------------------------------
(* What depends on the template, the tokens and their place only           *)
LEMMA SamePlace ==
  ASSUME UNCHANGED <<searched, index>>
  PROVE  /\ Scope' = Scope /\ Single' = Single /\ MaxIndex' = MaxIndex
         /\ Aligned' = Aligned /\ InText' = InText
         /\ \A t : IsVar(t)' = IsVar(t) /\ Seg(t)' = Seg(t)
         /\ pattern' = pattern /\ ref' = ref
<1>1. pattern' = pattern /\ ref' = ref /\ index' = index
  BY DEF searched
<1>2. Single' = Single /\ MaxIndex' = MaxIndex /\ Scope' = Scope
  BY <1>1 DEF Single, MaxIndex, Scope
<1>3. \A t : IsVar(t)' = IsVar(t) /\ Seg(t)' = Seg(t)
  BY <1>1 DEF IsVar, Seg, Stored
<1>4. Aligned' = Aligned
  BY <1>1 DEF Aligned, IsVar, Seg, Stored
<1>5. InText' = InText
  BY <1>1, <1>2, <1>3, <1>4 DEF InText
<1> QED
  BY <1>1, <1>2, <1>3, <1>4, <1>5

(* The tokens are on some variable, or the text would have had them.       *)
LEMMA SomeVariable ==
  ASSUME Types, Laid, pc \in Searching
  PROVE  /\ \E t \in DOMAIN pattern.toks : IsVar(t)
         /\ tok > Len(pattern.toks) => ~FromRef
<1>1. Aligned /\ ~InText
  BY DEF Laid
<1>2. \E t \in DOMAIN pattern.toks : IsVar(t)
  <2>1. SUFFICES ASSUME \A t \in DOMAIN pattern.toks : ~IsVar(t) PROVE FALSE
    OBVIOUS
  <2>2. CASE Single
    <3>1. 1 \in DOMAIN pattern.toks
      BY PatternTypes DEF Types
    <3>2. <<index + 1 - 1, 1>> \in pattern.text
      BY <1>1, <2>1, <3>1 DEF Aligned
    <3> QED
      BY <1>1, <2>2, <3>2 DEF InText
  <2>3. CASE ~Single
    BY <1>1, <2>1, <2>3 DEF InText
  <2> QED
    BY <2>2, <2>3
<1>3. tok > Len(pattern.toks) => \A t \in DOMAIN pattern.toks : t \in 1 .. tok - 1
  BY PatternTypes DEF Types
<1> QED
  BY <1>2, <1>3 DEF FromRef

LEMMA InitInv == Init => Inv
<1> SUFFICES ASSUME Init PROVE Inv
  OBVIOUS
<1>1. PICK m \in Leftovers : pat = m /\ sub = m /\ temp = m
  BY DEF Init
<1>2. m \in Part
  BY PatternAssumption DEF Part
<1>3. Partial({}) \in Part /\ Listed(Partial({})) = {} /\ ~Partial({}).full
  BY PartIsMap
<1>4. Types
  BY <1>1, <1>2, <1>3, PatternTypes, PartIsMap DEF Init, Types, Scope
<1>5. FullMaps
  BY <1>1, <1>2, <1>3, PartIsMap DEF Init, FullMaps
<1> QED
  BY <1>3, <1>4, <1>5 DEF Init, Inv, Laid, Narrowed, Gathered, Searching, Has, OverrunsKnown

LEMMA TextMatchInv == ASSUME Inv, TextMatch PROVE Inv'
<1>1. /\ pc = "align" /\ pc' = "done" /\ want' = Scope
      /\ UNCHANGED <<searched, index, tok, exchange, alt, alts, found, here, inAlts, lost, extra>>
      /\ bitmap' = IF ref = Absent THEN Full(bitmap.rows) ELSE Union(bitmap, Partial(ref))
  BY DEF TextMatch
<1>2. /\ Scope' = Scope /\ Single' = Single /\ pattern' = pattern /\ ref' = ref
      /\ index' = index /\ tok' = tok /\ pat' = pat /\ sub' = sub /\ temp' = temp /\ found' = found
  BY <1>1, SamePlace DEF exchange
<1>3. CASE ref = Absent
  <2>1. bitmap' \in Maps /\ bitmap'.full /\ Listed(bitmap') = Rows
    BY <1>1, <1>3 DEF Inv, Types, Maps, Full, Listed
  <2>2. Scope = Rows
    BY <1>3 DEF Scope
  <2> QED
    BY <1>1, <1>2, <1>3, <2>1, <2>2
       DEF Inv, Types, Laid, FullMaps, Narrowed, Gathered, Searching, Has, OverrunsKnown
<1>4. CASE ref # Absent
  <2>1. ref \in SUBSET Rows /\ Scope = ref
    BY <1>4 DEF Inv, Types, Scope
  <2>2. bitmap \in Part /\ Partial(ref) \in Part /\ Partial(ref).rows = ref
    BY <1>4, <2>1, PartIsMap DEF Inv, Types, FullMaps
  <2>3. bitmap' \in Part /\ bitmap' = Partial(bitmap.rows \union ref)
    BY <1>1, <1>4, <2>2, UnionPart
  <2>4. Listed(bitmap') = Listed(bitmap) \union ref /\ bitmap' \in Maps /\ ~bitmap'.full
    BY <2>1, <2>2, <2>3, PartIsMap DEF Part
  <2> QED
    BY <1>1, <1>2, <1>4, <2>1, <2>4
       DEF Inv, Types, Laid, FullMaps, Narrowed, Gathered, Searching, Has, OverrunsKnown
<1> QED
  BY <1>3, <1>4

LEMMA AlignInv == ASSUME Inv, Align PROVE Inv'
<1>1. /\ pc = "align" /\ index <= MaxIndex /\ ~InText
      /\ UNCHANGED <<searched, bitmap, sub, temp, alt, alts, found, want, inAlts, lost, extra>>
  BY DEF Align
<1>2. pattern' = pattern /\ ref' = ref /\ Scope' = Scope /\ Single' = Single
  BY <1>1 DEF searched, Scope, Single
<1>3. CASE ~Aligned
  <2>1. index' = index + 1 /\ UNCHANGED <<pc, tok, here, pat>>
    BY <1>3 DEF Align
  <2> QED
    BY <1>1, <1>2, <2>1
       DEF Inv, Types, Laid, FullMaps, Narrowed, Gathered, Searching, Has, Listed, OverrunsKnown
<1>4. CASE Aligned
  <2>1. pc' = "vars" /\ tok' = 1 /\ here' = Scope /\ index' = index
    BY <1>4 DEF Align
  <2>2. pat' = IF ref = Absent THEN Full({}) ELSE Partial({})
    BY <1>4 DEF Align, ResetPat
  <2>3. Aligned' /\ ~InText' /\ index' <= MaxIndex'
    BY <1>1, <1>4, <2>1, SamePlace
  <2>4. FromRef' <=> ref # Absent
    BY <1>2, <2>1 DEF FromRef
  <2>5. /\ pat' \in Maps /\ pat'.rows = {}
        /\ pat'.full <=> ref = Absent
    BY <2>2 DEF Maps, Full, Partial
  <2>6. Types'
    BY <1>1, <1>2, <2>1, <2>5, PatternTypes DEF Inv, Types
  <2>7. FullMaps'
    BY <1>1, <1>2, <2>1, <2>5 DEF Inv, FullMaps, Searching
  <2>8. Narrowed'
    <3>1. CASE ref = Absent
      BY <1>2, <2>1, <2>4, <2>5, <3>1 DEF Narrowed, Has, Listed, Scope
    <3>2. CASE ref # Absent
      BY <1>2, <2>1, <2>2, <2>4, <3>2 DEF Narrowed, Scope
    <3> QED
      BY <3>1, <3>2
  <2> QED
    BY <1>1, <2>1, <2>3, <2>6, <2>7, <2>8 DEF Inv, Laid, Gathered, Has, Listed, OverrunsKnown
<1> QED
  BY <1>3, <1>4

LEMMA SkipInv == ASSUME Inv, Skip PROVE Inv'
<1>1. /\ pc = "vars" /\ tok <= Len(pattern.toks) /\ tok' = tok + 1
      /\ ~IsVar(tok) \/ (~FromRef /\ Empty(pat))
      /\ UNCHANGED <<pc, searched, index, bitmap, exchange, alt, alts, found, want, here, inAlts, lost, extra>>
  BY DEF Skip
<1>2. /\ Scope' = Scope /\ Single' = Single /\ pattern' = pattern /\ ref' = ref
      /\ pat' = pat /\ sub' = sub /\ temp' = temp
  BY <1>1, SamePlace DEF exchange
<1>3. Types'
  BY <1>1, <1>2, PatternTypes DEF Inv, Types
<1>4. Laid'
  BY <1>1, SamePlace DEF Inv, Laid
<1>5. FullMaps'
  BY <1>1, <1>2 DEF Inv, FullMaps
<1>6. FromRef' <=> FromRef
  BY <1>1, RefAfter DEF Inv, Types
<1>7. Narrowed'
  BY <1>1, <1>2, <1>6 DEF Inv, Narrowed, Has, Listed, Searching
<1> QED
  BY <1>1, <1>2, <1>3, <1>4, <1>5, <1>7 DEF Inv, Gathered, Has, Listed, OverrunsKnown

LEMMA EndInv == ASSUME Inv, End PROVE Inv'
<1>1. /\ pc = "align" /\ pc' = "done"
      /\ UNCHANGED <<searched, index, tok, bitmap, exchange, alt, alts, found, want, here, inAlts, lost, extra>>
  BY DEF End
<1>2. /\ Scope' = Scope /\ Single' = Single /\ pattern' = pattern /\ ref' = ref
      /\ pat' = pat /\ sub' = sub /\ temp' = temp
  BY <1>1, SamePlace DEF exchange
<1> QED
  BY <1>1, <1>2
     DEF Inv, Types, Laid, FullMaps, Narrowed, Gathered, Searching, Has, Listed, OverrunsKnown

LEMMA StutterInv == ASSUME Inv, UNCHANGED vars PROVE Inv'
<1>1. UNCHANGED <<pc, searched, index, tok, bitmap, exchange, alt, alts, found, want, here, inAlts, lost, extra>>
  BY DEF vars
<1>2. UNCHANGED <<pattern, ref, pat, sub, temp>>
  BY <1>1 DEF searched, exchange
<1>3. Types' /\ FullMaps' /\ OverrunsKnown' /\ (pc' # "undefined" => Has(bitmap, want)')
  BY <1>1, <1>2 DEF Inv, Types, FullMaps, Scope, Single, Has, Listed, OverrunsKnown
<1>4. Laid'
  BY <1>1, SamePlace DEF Inv, Laid
<1>5. FromRef' = FromRef
  BY <1>1, <1>2, SamePlace DEF FromRef
<1>6. Narrowed'
  BY <1>1, <1>2, <1>5 DEF Inv, Narrowed, Has, Listed
<1>7. Within' = Within /\ Outliers' = Outliers /\ \A m : Listed(m)' = Listed(m)
  BY <1>1, <1>2, <1>5 DEF Within, Outliers, Listed
<1>8. Gathered'
  BY <1>1, <1>2, <1>7, SamePlace DEF Inv, Gathered, Listed
<1> QED
  BY <1>3, <1>4, <1>6, <1>8 DEF Inv
-----------------------------------------------------------------------------
LEMMA SearchColumnInv == ASSUME Inv, SearchColumn PROVE Inv'
<1>1. /\ pc = "vars" /\ tok <= Len(pattern.toks) /\ Seg(tok) \in {"dic", "var"}
      /\ FromRef \/ ~Empty(pat)
      /\ UNCHANGED <<searched, index, sub, temp, alt, alts, found, want, inAlts, lost, extra>>
  BY DEF SearchColumn, Due
<1>2. /\ Scope' = Scope /\ Single' = Single /\ pattern' = pattern /\ ref' = ref
  BY <1>1, SamePlace
<1>3. Laid'
  BY <1>1, SamePlace DEF SearchColumn, Inv, Laid, Searching
<1>4. CASE Single /\ ref = Absent /\ Seg(tok) = "var" /\ bitmap.rows = Rows
  <2>1. bitmap' = Full(bitmap.rows) /\ pc' = "done" /\ UNCHANGED <<pat, here, tok>>
    BY <1>4 DEF SearchColumn
  <2>2. bitmap' \in Maps /\ bitmap'.full /\ Listed(bitmap') = Rows
    BY <2>1 DEF Inv, Types, Maps, Full, Listed
  <2>3. Listed(bitmap) = Rows
    BY <1>4 DEF Listed
  <2>4. want \subseteq Rows
    BY ScopeRows DEF Inv, Types
  <2> QED
    BY <1>1, <1>2, <1>3, <1>4, <2>1, <2>2, <2>3, <2>4
       DEF Inv, Types, FullMaps, Narrowed, Gathered, Searching, Has, OverrunsKnown
<1>5. CASE ~(Single /\ ref = Absent /\ Seg(tok) = "var" /\ bitmap.rows = Rows)
  <2>1. PICK S \in SUBSET Rows :
          /\ pat' = IF FromRef THEN RefPush(pat, Partial(ref), S) ELSE Push(pat, S)
          /\ here' = here \intersect S
          /\ tok' = tok + 1
          /\ UNCHANGED <<pc, bitmap>>
    BY <1>5 DEF SearchColumn
  <2>2. pat' \in Part /\ here' \subseteq Listed(pat') \union lost /\ Listed(pat') \subseteq here' \union extra
    <3>1. CASE FromRef
      <4>1. here = ref /\ pat = Partial({}) /\ ref \in SUBSET Rows
        BY <1>1, <3>1 DEF Inv, Types, Narrowed, Searching, FromRef
      <4>2. pat' = Partial({} \union (S \intersect ref))
        BY <2>1, <3>1, <4>1, RefPushRows, PartIsMap
      <4>3. S \intersect ref \in SUBSET Rows
        BY <4>1
      <4> QED
        BY <2>1, <4>1, <4>2, <4>3, PartIsMap
    <3>2. CASE ~FromRef
      <4>1. Has(pat, here)
        BY <1>1, <3>2 DEF Inv, Narrowed, Searching
      <4>2. pat' \in Part /\ Listed(pat') = Listed(pat) \intersect S
        BY <2>1, <3>2, PushRows DEF Inv, Types
      <4> QED
        BY <2>1, <4>1, <4>2 DEF Has
    <3> QED
      BY <3>1, <3>2
  <2>3. IsVar(tok)
    BY <1>1 DEF IsVar, Stored
  <2>4. ~FromRef'
    BY <1>1, <2>1, <2>3, RefAfter DEF Inv, Types
  <2>5. Narrowed'
    BY <1>1, <2>1, <2>2, <2>4 DEF Narrowed, Has, Listed
  <2>6. Types'
    BY <1>1, <1>2, <2>1, <2>2, PartIsMap, PatternTypes DEF Inv, Types
  <2>7. FullMaps'
    BY <1>1, <1>2, <2>1, <2>2, PartIsMap DEF Inv, FullMaps
  <2> QED
    BY <1>1, <1>2, <1>3, <2>1, <2>5, <2>6, <2>7 DEF Inv, Gathered, Has, Listed, OverrunsKnown
<1> QED
  BY <1>4, <1>5

(* A token on a sub-pattern that needs no alternative to be searched       *)
LEMMA OnPatternHas ==
  ASSUME Inv, pc = "vars", NEW hits \in SUBSET Outliers, OnPattern(hits)
  PROVE  /\ here' \subseteq here /\ lost' \subseteq lost \union here' /\ extra' \subseteq extra \union Outliers
         /\ lost \subseteq lost' /\ extra \subseteq extra' /\ pat' = pat
         /\ here' \subseteq Listed(pat) \union lost' /\ Listed(pat) \subseteq here' \union extra'
<1>1. here' = here \intersect ((Rows \ Outliers) \union hits) /\ pat' = pat
  BY DEF OnPattern
<1>2. CASE FromRef
  <2>1. lost' = lost \union here' /\ extra' = extra
    BY <1>2 DEF OnPattern
  <2>2. pat = Partial({})
    BY <1>2 DEF Inv, Narrowed, Searching
  <2>3. Listed(pat) = {}
    BY <2>2, PartIsMap
  <2> QED
    BY <1>1, <2>1, <2>3
<1>3. CASE ~FromRef
  <2>1. lost' = lost /\ extra' = extra \union (Outliers \ hits)
    BY <1>3 DEF OnPattern
  <2>2. Has(pat, here)
    BY <1>3 DEF Inv, Narrowed, Searching
  <2>3. Listed(pat) \subseteq Rows
    BY PartIsMap DEF Inv, Types
  <2> QED
    BY <1>1, <2>1, <2>2, <2>3 DEF Has
<1> QED
  BY <1>2, <1>3

LEMMA MissHas ==
  ASSUME Inv, NEW hits \in SUBSET Outliers, Miss(hits)
  PROVE  /\ here' \subseteq here /\ lost' = lost \union here' /\ extra' = extra
         /\ here' \subseteq Outliers
         /\ pat' \in Part /\ Listed(pat') = {}
BY PartIsMap DEF Miss

LEMMA SearchSubInv == ASSUME Inv, SearchSub PROVE Inv'
<1>1. /\ pc = "vars" /\ tok <= Len(pattern.toks) /\ Seg(tok) = "svar" /\ inAlts' = {}
      /\ UNCHANGED <<searched, index, bitmap, sub, temp, want>>
  BY DEF SearchSub, Due
<1>2. /\ Scope' = Scope /\ Single' = Single /\ pattern' = pattern /\ ref' = ref
  BY <1>1, SamePlace
<1>3. /\ IsVar(tok) /\ tok \in DOMAIN pattern.toks /\ tok \in Nat \ {0}
      /\ Len(pattern.toks) \in Nat \ {0}
  BY <1>1, PatternTypes DEF Inv, Types, IsVar, Stored
<1>4. Outliers \subseteq Rows
  BY <1>1, <1>3, OutlierRows DEF Inv, Laid, Searching
<1>5. PICK hits \in SUBSET Outliers :
        \/ /\ OnPattern(hits) \/ Miss(hits)
           /\ tok' = tok + 1
           /\ UNCHANGED <<pc, alt, alts, found>>
        \/ /\ found' = Partial(hits \intersect (IF FromRef THEN ref ELSE Listed(pat)))
           /\ alts' \in IF Single THEN 1 .. MaxAlts ELSE {1}
           /\ alt' = 1 /\ pc' = "alts"
           /\ UNCHANGED <<tok, pat, here, lost, extra>>
  BY DEF SearchSub
<1>6. Laid'
  BY <1>1, <1>5, SamePlace DEF Inv, Laid, Searching
<1>7. ASSUME OnPattern(hits) \/ Miss(hits), tok' = tok + 1, UNCHANGED <<pc, alt, alts, found>>
      PROVE  Inv'
  <2>1. /\ here' \subseteq here /\ lost' \subseteq lost \union here' /\ extra' \subseteq extra \union Outliers
        /\ lost \subseteq lost' /\ extra \subseteq extra'
        /\ pat' = pat \/ (pat' \in Part /\ Listed(pat') = {})
        /\ here' \subseteq Listed(pat') \union lost' /\ Listed(pat') \subseteq here' \union extra'
    <3>1. CASE OnPattern(hits)
      BY <1>1, <3>1, OnPatternHas
    <3>2. CASE Miss(hits)
      BY <3>2, MissHas
    <3> QED
      BY <1>7, <3>1, <3>2
  <2>2. ~FromRef'
    BY <1>1, <1>3, <1>7, RefAfter
  <2>3. Narrowed'
    BY <2>1, <2>2 DEF Narrowed, Has, Listed
  <2>4. Types'
    <3>1. here \subseteq Rows /\ lost \subseteq Rows /\ extra \subseteq Rows
      BY ScopeRows DEF Inv, Types
    <3> QED
      BY <1>1, <1>2, <1>3, <1>4, <1>7, <2>1, <3>1, PartIsMap DEF Inv, Types
  <2>5. FullMaps'
    BY <1>1, <1>2, <1>7, <2>1, PartIsMap DEF Inv, FullMaps
  <2>6. Has(bitmap, want)'
    BY <1>1, <2>1 DEF Inv, Has, Listed
  <2> QED
    BY <1>1, <1>6, <1>7, <2>3, <2>4, <2>5, <2>6 DEF Inv, Gathered, OverrunsKnown
<1>8. ASSUME found' = Partial(hits \intersect (IF FromRef THEN ref ELSE Listed(pat))),
             alts' \in IF Single THEN 1 .. MaxAlts ELSE {1}, alt' = 1, pc' = "alts",
             UNCHANGED <<tok, pat, here, lost, extra>>
      PROVE  Inv'
  <2>1. Listed(Within) = IF FromRef THEN ref ELSE Listed(pat)
    BY WithinRows DEF Inv
  <2>2. found' \in Part /\ found'.rows \subseteq Outliers \intersect Listed(Within)
    <3>1. hits \intersect Listed(Within) \in SUBSET Rows
      BY <1>4
    <3> QED
      BY <1>8, <2>1, <3>1, PartIsMap
  <2>3. alts' \in Nat /\ 1 \in 1 .. alts' /\ (alts' > 1 => Single)
    BY <1>8, PatternAssumption
  <2>4. Types'
    BY <1>1, <1>2, <1>8, <2>2, <2>3 DEF Inv, Types
  <2>5. FullMaps'
    BY <1>1, <1>2, <1>8 DEF Inv, FullMaps, Searching
  <2>6. FromRef' = FromRef
    BY <1>1, <1>8, SamePlace DEF FromRef
  <2>7. Narrowed'
    BY <1>1, <1>2, <1>8, <2>6 DEF Inv, Narrowed, Has, Listed, Searching
  <2>8. Within' = Within /\ Outliers' = Outliers
    BY <1>1, <1>2, <1>8, <2>6 DEF Within, Outliers, searched
  <2>9. Gathered'
    <3>1. Seg(tok)' = Seg(tok) /\ (DOMAIN pattern.toks)' = DOMAIN pattern.toks
      BY <1>1, <1>2, <1>8 DEF Seg
    <3>2. Listed(Within)' = Listed(Within)
      BY <2>8 DEF Listed
    <3>3. tok' \in (DOMAIN pattern.toks)' /\ Seg(tok)' = "svar"
      BY <1>1, <1>3, <1>8, <3>1
    <3>4. alt' \in 1 .. alts' /\ (alts' > 1 => Single') /\ (alt' = 1 => inAlts' = {}) /\ ~(alt' > 1)
      BY <1>1, <1>2, <1>8, <2>3
    <3>5. (found.rows)' \subseteq (Outliers \intersect Listed(Within))'
      BY <2>2, <2>8, <3>2
    <3> QED
      BY <3>3, <3>4, <3>5 DEF Gathered
  <2> QED
    BY <1>1, <1>6, <1>8, <2>4, <2>5, <2>7, <2>9 DEF Inv, Has, Listed, OverrunsKnown
<1> QED
  BY <1>5, <1>7, <1>8

LEMMA AlternativeInv == ASSUME Inv, Alternative PROVE Inv'
<1>1. /\ pc = "alts" /\ alt < alts /\ alt' = alt + 1
      /\ UNCHANGED <<pc, searched, index, tok, bitmap, pat, alts, found, want, here, lost, extra>>
  BY DEF Alternative
<1>2. PICK sets \in SubSets :
        /\ IF alt = 1 THEN FirstAlt(sets) ELSE MiddleAlt(sets)
        /\ inAlts' = inAlts \union HaveAll(sets)
  BY DEF Alternative
<1>3. /\ Scope' = Scope /\ Single' = Single /\ pattern' = pattern /\ ref' = ref /\ pat' = pat
  BY <1>1, SamePlace
<1>4. /\ alt \in Nat /\ alt \in 1 .. alts /\ alts \in Nat /\ tok \in DOMAIN pattern.toks /\ Seg(tok) = "svar"
      /\ alts > 1 /\ Single
  BY <1>1 DEF Inv, Types, Gathered
<1>5. sets \in Seq(SUBSET Rows) /\ sets # <<>> /\ HaveAll(sets) \in SUBSET Rows
  BY <1>4, SubSetsAreSeqs
<1>6. Within \in Maps
  BY WithinRows DEF Inv
<1>7. sub \in Part /\ temp \in Part /\ inAlts \subseteq Rows
  BY DEF Inv, Types
<1>8. Partial({}) \in Part /\ Partial({}).rows = {}
  BY PartIsMap
<1>9. Listed(Within) \subseteq Rows
  BY <1>6, PartIsMap
<1>10. /\ sub' \in Part /\ temp' \in Part
       /\ sub'.rows = Listed(Within) \intersect inAlts'
  <2>1. CASE alt = 1
    <3>1. sub' = RefPushAll(Partial({}), Within, sets) /\ temp' = temp
      BY <1>2, <2>1 DEF FirstAlt
    <3>2. sub' \in Part /\ sub'.rows = {} \union (Listed(Within) \intersect HaveAll(sets))
      BY <1>5, <1>6, <1>8, <3>1, RefPushAllRows
    <3>3. inAlts = {}
      BY <1>1, <2>1 DEF Inv, Gathered
    <3> QED
      BY <1>2, <1>7, <3>1, <3>2, <3>3
  <2>2. CASE alt # 1
    <3>1. sub.rows = Listed(Within) \intersect inAlts
      <4>1. sub = Partial(Listed(Within) \intersect inAlts)
        BY <1>1, <1>4, <2>2 DEF Inv, Gathered
      <4> QED
        BY <1>7, <1>9, <4>1, PartIsMap
    <3>2. CASE Len(sets) = 1
      <4>1. sub' = RefPushAll(sub, Within, sets) /\ temp' = temp
        BY <1>2, <2>2, <3>2 DEF MiddleAlt
      <4>2. sub' \in Part /\ sub'.rows = sub.rows \union (Listed(Within) \intersect HaveAll(sets))
        <5>1. Len(sets) <= 1
          BY <3>2
        <5> QED
          BY <1>5, <1>6, <1>7, <4>1, <5>1, RefPushAllRows
      <4> QED
        BY <1>2, <1>7, <3>1, <4>1, <4>2
    <3>3. CASE Len(sets) # 1
      <4>1. temp' = RefPushAll(Partial({}), Within, sets) /\ sub' = Union(sub, temp')
        BY <1>2, <2>2, <3>3 DEF MiddleAlt
      <4>2. temp' \in Part /\ temp'.rows = {} \union (Listed(Within) \intersect HaveAll(sets))
        BY <1>5, <1>6, <1>8, <4>1, RefPushAllRows
      <4>3. sub' \in Part /\ sub' = Partial(sub.rows \union temp'.rows)
        BY <1>7, <4>1, <4>2, UnionPart
      <4>4. sub'.rows = sub.rows \union temp'.rows
        BY <1>7, <4>2, <4>3, PartIsMap DEF Part
      <4> QED
        BY <1>2, <3>1, <4>2, <4>3, <4>4
    <3> QED
      BY <3>2, <3>3
  <2> QED
    BY <2>1, <2>2
<1>11. FromRef' = FromRef
  BY <1>1, <1>3, SamePlace DEF FromRef
<1>12. Within' = Within /\ Outliers' = Outliers
  BY <1>1, <1>3, <1>11 DEF Within, Outliers
<1>13. Types'
  BY <1>1, <1>2, <1>3, <1>4, <1>5, <1>7, <1>10 DEF Inv, Types
<1>14. Laid' /\ FullMaps' /\ OverrunsKnown' /\ Has(bitmap, want)'
  BY <1>1, <1>3, SamePlace DEF Inv, Laid, FullMaps, OverrunsKnown, Has, Listed, Searching
<1>15. Narrowed'
  BY <1>1, <1>3, <1>11 DEF Inv, Narrowed, Has, Listed
<1>16. sub' = Partial(Listed(Within) \intersect inAlts')
  BY <1>10, PartIsMap
<1>17. found.rows \subseteq Outliers \intersect Listed(Within)
  BY <1>1 DEF Inv, Gathered
<1>18. alt + 1 # 1 /\ alt + 1 \in 1 .. alts
  BY <1>1, <1>4
<1>19. Gathered'
  BY <1>1, <1>3, <1>4, <1>12, <1>16, <1>17, <1>18, SamePlace DEF Gathered, Listed
<1> QED
  BY <1>1, <1>13, <1>14, <1>15, <1>19 DEF Inv

(* What the last alternative, the others before it and the outliers come   *)
(* to, merged: what the search was within, of the rows that have one.      *)
LEMMA MergedRows ==
  ASSUME Inv, pc = "alts", alt = alts, NEW sets \in SubSets,
         NEW own, own = OnPat(sets),
         NEW merged, merged = IF alts = 1 THEN own ELSE Union(own, sub),
         NEW have, have = inAlts \union HaveAll(sets)
  PROVE  /\ merged \in Maps /\ have \subseteq Rows
         /\ Listed(merged) = IF sets = <<>> /\ FromRef THEN {} ELSE Listed(Within) \intersect have
         /\ merged.full => ~Single /\ ref = Absent /\ pat.full /\ merged.rows = {}
<1>1. sets \in Seq(SUBSET Rows) /\ (Single => sets # <<>>) /\ HaveAll(sets) \in SUBSET Rows
  BY SubSetsAreSeqs
<1>2. /\ Within \in Maps /\ Listed(Within) = IF FromRef THEN ref ELSE Listed(pat)
      /\ pat \in Maps /\ sub \in Part /\ inAlts \subseteq Rows
      /\ pat.full => ref = Absent /\ pat.rows = {}
  BY WithinRows DEF Inv, Types, FullMaps
<1>3. /\ own \in Maps
      /\ Listed(own) = IF sets = <<>> /\ FromRef THEN {} ELSE Listed(Within) \intersect HaveAll(sets)
      /\ sets # <<>> => own \in Part
      /\ own.full => own = pat
  <2>1. CASE FromRef
    <3>1. pat = Partial({}) /\ ref \in SUBSET Rows
      BY <2>1 DEF Inv, Narrowed, Searching, Types, FromRef
    <3>2. /\ pat \in Part /\ pat.rows = {} /\ Partial(ref) \in Maps /\ Listed(Partial(ref)) = ref
          /\ Listed(pat) = {}
      BY <3>1, PartIsMap
    <3>3. own = RefPushAll(pat, Partial(ref), sets)
      BY <2>1 DEF OnPat
    <3>4. /\ own \in Part
          /\ sets = <<>> => own = pat
          /\ sets # <<>> => own.rows = pat.rows \union (ref \intersect HaveAll(sets))
      BY <1>1, <3>2, <3>3, RefPushAllRows
    <3>5. own \in Maps /\ ~own.full /\ Listed(own) = own.rows
      BY <3>4, PartIsMap
    <3> QED
      BY <1>2, <2>1, <3>2, <3>4, <3>5
  <2>2. CASE ~FromRef
    <3>1. own = PushAll(pat, sets)
      BY <2>2 DEF OnPat
    <3>2. /\ own \in Maps /\ Listed(own) = Listed(pat) \intersect HaveAll(sets)
          /\ sets = <<>> => own = pat
          /\ sets # <<>> => own \in Part
      BY <1>1, <1>2, <3>1, PushAllRows
    <3>3. sets # <<>> => ~own.full
      BY <3>2, PartIsMap
    <3> QED
      BY <1>2, <2>2, <3>2, <3>3
  <2> QED
    BY <2>1, <2>2
<1>4. CASE alts = 1
  <2>1. alt = 1 /\ inAlts = {}
    BY <1>4 DEF Inv, Gathered
  <2>2. own.full => ~Single
    BY <1>1, <1>3, PartIsMap
  <2> QED
    BY <1>1, <1>2, <1>3, <1>4, <2>1, <2>2
<1>5. CASE alts # 1
  <2>1. Single /\ sub = Partial(Listed(Within) \intersect inAlts)
    BY <1>5 DEF Inv, Gathered, Types
  <2>5. sub.rows = Listed(Within) \intersect inAlts
    <3>1. Listed(Within) \intersect inAlts \in SUBSET Rows
      BY <1>2
    <3> QED
      BY <2>1, <3>1, PartIsMap
  <2>2. own \in Part /\ sets # <<>> /\ ~own.full /\ Listed(own) = own.rows
    BY <1>1, <1>3, <2>1, PartIsMap
  <2>3. merged \in Part /\ merged = Partial(own.rows \union sub.rows)
    BY <1>2, <1>5, <2>2, UnionPart
  <2>4. merged.rows = own.rows \union sub.rows /\ ~merged.full /\ merged \in Maps /\ Listed(merged) = merged.rows
    BY <1>2, <2>2, <2>3, PartIsMap DEF Part
  <2>6. Listed(merged) = (Listed(Within) \intersect HaveAll(sets)) \union (Listed(Within) \intersect inAlts)
    BY <1>3, <2>2, <2>4, <2>5
  <2> QED
    BY <1>1, <1>2, <2>2, <2>4, <2>6
<1> QED
  BY <1>4, <1>5

LEMMA LastAlternativeInv == ASSUME Inv, LastAlternative PROVE Inv'
<1>1. /\ pc = "alts" /\ alt = alts
      /\ UNCHANGED <<searched, index, bitmap, sub, temp, alt, alts, found, want, inAlts>>
  BY DEF LastAlternative
<1>2. /\ Scope' = Scope /\ Single' = Single /\ pattern' = pattern /\ ref' = ref
  BY <1>1, SamePlace
<1>3. /\ tok \in DOMAIN pattern.toks /\ Seg(tok) = "svar" /\ IsVar(tok) /\ tok \in Nat \ {0}
      /\ found.rows \subseteq Outliers \intersect Listed(Within)
      /\ found \in Part /\ found \in Maps /\ ~found.full /\ Listed(found) = found.rows
  BY <1>1, PartIsMap DEF Inv, Gathered, Types, IsVar, Stored
<1>4. Outliers \subseteq Rows
  BY <1>1, <1>3, OutlierRows DEF Inv, Laid, Searching
<1>5. PICK sets \in SubSets :
        LET own    == OnPat(sets)
            merged == IF alts = 1 THEN own ELSE Union(own, sub)
            all    == Union(merged, found)
            have   == inAlts \union HaveAll(sets)
        IN /\ here' = here \intersect ((have \ Outliers) \union found.rows)
           /\ lost' = IF sets = <<>> /\ FromRef THEN lost \union here' ELSE lost
           /\ extra' = extra \union ((have \intersect Outliers) \ found.rows)
           /\ IF all = Undefined THEN pc' = "undefined" /\ UNCHANGED <<pat, tok>>
              ELSE pc' = "vars" /\ pat' = all /\ tok' = tok + 1
  BY DEF LastAlternative
<1> DEFINE own    == OnPat(sets)
           merged == IF alts = 1 THEN own ELSE Union(own, sub)
           all    == Union(merged, found)
           have   == inAlts \union HaveAll(sets)
<1>6. /\ here' = here \intersect ((have \ Outliers) \union found.rows)
      /\ lost' = IF sets = <<>> /\ FromRef THEN lost \union here' ELSE lost
      /\ extra' = extra \union ((have \intersect Outliers) \ found.rows)
      /\ IF all = Undefined THEN pc' = "undefined" /\ UNCHANGED <<pat, tok>>
         ELSE pc' = "vars" /\ pat' = all /\ tok' = tok + 1
  BY <1>5
<1>7. /\ merged \in Maps /\ have \subseteq Rows
      /\ Listed(merged) = IF sets = <<>> /\ FromRef THEN {} ELSE Listed(Within) \intersect have
      /\ merged.full => ~Single /\ ref = Absent /\ pat.full /\ merged.rows = {}
  BY <1>1, MergedRows
<1> HIDE DEF own, merged, have
<1>8. /\ here \subseteq Rows /\ lost \subseteq Rows /\ extra \subseteq Rows
      /\ here \subseteq Scope
  BY ScopeRows DEF Inv, Types
<1>9. /\ here' \subseteq Scope /\ lost' \subseteq Rows /\ extra' \subseteq Rows
      /\ lost \subseteq lost' /\ extra \subseteq extra'
  BY <1>4, <1>6, <1>8
<1>10. Laid'
  BY <1>1, <1>6, SamePlace DEF Inv, Laid, Searching
<1>11. Has(bitmap, want)'
  BY <1>1, <1>9 DEF Inv, Has, Listed
<1>12. CASE all = Undefined
  <2>1. pc' = "undefined" /\ UNCHANGED <<pat, tok>>
    BY <1>6, <1>12
  <2>2. merged.full
    BY <1>3, <1>7, <1>12, UnionUndefined
  <2>3. OverrunsKnown'
    BY <1>1, <1>2, <1>7, <2>1, <2>2 DEF OverrunsKnown
  <2>4. Types'
    BY <1>1, <1>2, <1>9, <2>1 DEF Inv, Types
  <2>5. FullMaps'
    BY <1>1, <1>2, <2>1 DEF Inv, FullMaps, Searching
  <2> QED
    BY <1>10, <2>1, <2>3, <2>4, <2>5 DEF Inv, Narrowed, Gathered, Searching
<1>13. CASE all # Undefined
  <2>1. pc' = "vars" /\ pat' = all /\ tok' = tok + 1
    BY <1>6, <1>13
  <2>2. /\ all \in Maps /\ Listed(all) = Listed(merged) \union found.rows
        /\ all.full <=> merged.full
        /\ merged.full => all = merged
    BY <1>3, <1>7, <1>13, UnionRows
  <2>3. Listed(Within) = IF FromRef THEN ref ELSE Listed(pat)
    BY WithinRows DEF Inv
  <2>4. /\ here \subseteq Listed(Within) \union lost
        /\ Listed(Within) \subseteq here \union extra
    BY <1>1, <2>3 DEF Inv, Narrowed, Has, Searching
  <2>5. here' \subseteq Listed(all) \union lost'
    BY <1>3, <1>6, <1>7, <2>2, <2>4
  <2>6. Listed(all) \subseteq here' \union extra'
    BY <1>3, <1>6, <1>7, <2>2, <2>4
  <2>7. ~FromRef'
    BY <1>1, <1>3, <2>1, RefAfter
  <2>8. Narrowed'
    BY <2>1, <2>5, <2>6, <2>7 DEF Narrowed, Has, Listed
  <2>9. Types'
    BY <1>1, <1>2, <1>3, <1>9, <2>1, <2>2, PatternTypes DEF Inv, Types
  <2>10. FullMaps'
    BY <1>1, <1>2, <1>7, <2>1, <2>2 DEF Inv, FullMaps, Searching
  <2> QED
    BY <1>10, <1>11, <2>1, <2>8, <2>9, <2>10 DEF Inv, Gathered, OverrunsKnown
<1> QED
  BY <1>12, <1>13

LEMMA MergeInv == ASSUME Inv, Merge PROVE Inv'
<1>1. /\ pc = "vars" /\ tok > Len(pattern.toks) /\ want' = want \union here
      /\ UNCHANGED <<searched, tok, exchange, alt, alts, found, here, inAlts, lost, extra>>
  BY DEF Merge
<1>2. /\ pattern' = pattern /\ ref' = ref /\ Scope' = Scope /\ Single' = Single
      /\ pat' = pat /\ sub' = sub /\ temp' = temp
  BY <1>1 DEF searched, exchange, Scope, Single
<1>3. bitmap \in Maps /\ pat \in Maps
  BY DEF Inv, Types
<1>4. Has(pat, here) /\ Has(bitmap, want)
  BY <1>1, SomeVariable DEF Inv, Narrowed, Searching
<1>5. CASE Union(bitmap, pat) = Undefined
  <2>1. pc' = "undefined" /\ UNCHANGED <<bitmap, index>>
    BY <1>5 DEF Merge
  <2>2. bitmap.full /\ ref = Absent /\ ~Single
    BY <1>1, <1>3, <1>5, UnionUndefined DEF Inv, FullMaps, Searching
  <2>3. Types'
    BY <1>1, <1>2, <2>1 DEF Inv, Types
  <2> QED
    BY <1>1, <1>2, <2>1, <2>2, <2>3
       DEF Inv, Laid, FullMaps, Narrowed, Gathered, Searching, OverrunsKnown
<1>6. CASE Union(bitmap, pat) # Undefined
  <2> DEFINE value == Union(bitmap, pat)
  <2>1. /\ bitmap' = value
        /\ IF Stops(value) THEN pc' = "done" /\ UNCHANGED index
                           ELSE pc' = "align" /\ index' = index + 1
    BY <1>6 DEF Merge
  <2>2. /\ value \in Maps /\ Listed(value) = Listed(bitmap) \union Listed(pat)
        /\ value.full <=> bitmap.full \/ pat.full
    BY <1>3, <1>6, UnionRows
  <2> HIDE DEF value
  <2>3. Has(bitmap, want)'
    BY <1>1, <1>4, <2>1, <2>2 DEF Has, Listed
  <2>4. Types'
    BY <1>1, <1>2, <2>1, <2>2 DEF Inv, Types
  <2>5. FullMaps'
    <3>1. ref # Absent => ~value.full
      BY <2>2 DEF Inv, FullMaps
    <3>2. pc' = "align" /\ Single => ~value.full
      BY <2>1, <3>1 DEF Stops
    <3> QED
      BY <1>1, <1>2, <2>1, <3>1, <3>2 DEF Inv, FullMaps, Searching
  <2> QED
    BY <2>1, <2>3, <2>4, <2>5 DEF Inv, Laid, Narrowed, Gathered, Searching, OverrunsKnown
<1> QED
  BY <1>5, <1>6
-----------------------------------------------------------------------------
(* The invariant holds of every search (SearchSingleInPattern and          *)
(* SearchMultiInPattern): what is in the exchange map is what has the      *)
(* tokens searched so far, and the result what has all of them at some     *)
(* index.                                                                  *)
THEOREM Invariance == Spec => []Inv
<1>1. Init => Inv
  BY InitInv
<1>2. Inv /\ [Next]_vars => Inv'
  BY TextMatchInv, AlignInv, SkipInv, SearchColumnInv, SearchSubInv, AlternativeInv,
     LastAlternativeInv, MergeInv, EndInv, StutterInv DEF Next
<1> QED
  BY <1>1, <1>2, PTL DEF Spec

(* Pushing rows down through the exchange maps loses none but those the    *)
(* code is known to drop.                                                  *)
THEOREM LosesNone == Spec => []NothingLost
<1>1. Inv => NothingLost
  BY DEF Inv, Has, NothingLost
<1> QED
  BY <1>1, Invariance, PTL

(* ... and none comes in but outliers that are kept unread.                *)
THEOREM InventsNone == Spec => []NothingInvented
<1>1. Inv => NothingInvented
  BY DEF Inv, Has, NothingInvented
<1> QED
  BY <1>1, Invariance, PTL

(* A merge into a full map (2420, 1072) can only happen with several       *)
(* tokens and outside refBitmap.                                           *)
THEOREM OverrunsAreKnown == Spec => []OverrunsKnown
<1>1. Inv => OverrunsKnown
  BY DEF Inv
<1> QED
  BY <1>1, Invariance, PTL
-----------------------------------------------------------------------------
(* The rows lost and kept by mistake: the outliers of variables that are   *)
(* kept as sub-patterns                                                    *)
HasSub      == \E i \in DOMAIN pattern.segs : pattern.segs[i] = "svar"
SubOutliers == UNION {pattern.outliers[i] : i \in {j \in DOMAIN pattern.segs : pattern.segs[j] = "svar"}}

Mistakes ==
  /\ extra \subseteq SubOutliers
  /\ ref = Absent => lost \subseteq SubOutliers
  /\ lost # {} => HasSub

(* Nothing is found outside refBitmap, nor left in the exchange map.       *)
Confined == ref # Absent => /\ Listed(bitmap) \subseteq ref
                            /\ pc \in Searching => Listed(pat) \subseteq ref

LEMMA TokenOutliers ==
  ASSUME Inv, pc \in Searching, tok \in DOMAIN pattern.toks, Seg(tok) = "svar"
  PROVE  HasSub /\ Outliers \subseteq SubOutliers
<1>1. index + tok - 1 \in DOMAIN pattern.segs
  BY PatternTypes DEF Inv, Types, Laid, MaxIndex
<1> QED
  BY <1>1 DEF Seg, HasSub, Outliers, SubOutliers

LEMMA MistakesStep == ASSUME Inv, Mistakes, [Next]_vars PROVE Mistakes'
<1>1. pattern' = pattern /\ ref' = ref
  BY DEF Next, vars, searched, TextMatch, Align, Skip, SearchColumn, SearchSub, Alternative,
         LastAlternative, Merge, End
<1>2. HasSub' = HasSub /\ SubOutliers' = SubOutliers
  BY <1>1 DEF HasSub, SubOutliers
<1>3. CASE SearchSub
  <2>1. pc = "vars" /\ tok \in DOMAIN pattern.toks /\ Seg(tok) = "svar"
    BY <1>3, PatternTypes DEF SearchSub, Due, Inv, Types
  <2>2. HasSub /\ Outliers \subseteq SubOutliers
    BY <2>1, TokenOutliers DEF Searching
  <2>3. PICK hits \in SUBSET Outliers : OnPattern(hits) \/ Miss(hits) \/ UNCHANGED <<lost, extra>>
    BY <1>3 DEF SearchSub
  <2>4. CASE OnPattern(hits)
    <3>1. FromRef => ref # Absent
      BY DEF FromRef
    <3>2. /\ extra' \subseteq extra \union Outliers
          /\ FromRef \/ lost' = lost
      BY <2>4 DEF OnPattern
    <3> QED
      BY <1>1, <1>2, <2>2, <3>1, <3>2 DEF Mistakes
  <2>5. CASE Miss(hits)
    BY <1>1, <1>2, <2>2, <2>5, MissHas DEF Mistakes
  <2>6. CASE UNCHANGED <<lost, extra>>
    BY <1>1, <1>2, <2>6 DEF Mistakes
  <2> QED
    BY <2>3, <2>4, <2>5, <2>6
<1>4. CASE LastAlternative
  <2>1. pc = "alts" /\ tok \in DOMAIN pattern.toks /\ Seg(tok) = "svar"
    BY <1>4 DEF LastAlternative, Inv, Gathered
  <2>2. HasSub /\ Outliers \subseteq SubOutliers
    BY <2>1, TokenOutliers DEF Searching
  <2>3. PICK sets \in SubSets :
          LET have == inAlts \union HaveAll(sets)
          IN /\ lost' = IF sets = <<>> /\ FromRef THEN lost \union here' ELSE lost
             /\ extra' = extra \union ((have \intersect Outliers) \ found.rows)
    BY <1>4 DEF LastAlternative
  <2>4. FromRef => ref # Absent
    BY DEF FromRef
  <2> QED
    BY <1>1, <1>2, <2>2, <2>3, <2>4 DEF Mistakes
<1>5. ASSUME UNCHANGED <<lost, extra>> PROVE Mistakes'
  BY <1>1, <1>2, <1>5 DEF Mistakes
<1>6. TextMatch \/ Align \/ Skip \/ SearchColumn \/ Alternative \/ Merge \/ End \/ UNCHANGED vars
        => UNCHANGED <<lost, extra>>
  BY DEF TextMatch, Align, Skip, SearchColumn, Alternative, Merge, End, vars
<1> QED
  BY <1>3, <1>4, <1>5, <1>6 DEF Next

LEMMA ConfinedStep == ASSUME Inv, Confined, [Next]_vars PROVE Confined'
<1>1. ref' = ref
  BY DEF Next, vars, searched, TextMatch, Align, Skip, SearchColumn, SearchSub, Alternative,
         LastAlternative, Merge, End
<1> SUFFICES ASSUME ref # Absent
             PROVE  /\ Listed(bitmap') \subseteq ref
                    /\ pc' \in Searching => Listed(pat') \subseteq ref
  BY <1>1 DEF Confined, Listed
<1>2. /\ Listed(bitmap) \subseteq ref /\ (pc \in Searching => Listed(pat) \subseteq ref)
      /\ ref \in SUBSET Rows /\ bitmap \in Maps /\ pat \in Maps /\ sub \in Part /\ found \in Part
      /\ ~bitmap.full /\ ~pat.full
  BY DEF Confined, Inv, Types, FullMaps
<1>3. Listed(Partial(ref)) = ref /\ Partial(ref) \in Maps /\ Listed(Partial({})) = {}
  BY <1>2, PartIsMap
<1>4. CASE TextMatch
  <2>1. bitmap' = Union(bitmap, Partial(ref)) /\ pc' = "done"
    BY <1>4 DEF TextMatch
  <2>2. Union(bitmap, Partial(ref)) # Undefined
    BY <1>2, <1>3, UnionUndefined
  <2>3. Listed(bitmap') = Listed(bitmap) \union ref
    BY <1>2, <1>3, <2>1, <2>2, UnionRows
  <2> QED
    BY <1>2, <2>1, <2>3 DEF Searching
<1>5. CASE Align
  <2>1. bitmap' = bitmap /\ pc = "align" /\ (pc' = "align" \/ pat' = Partial({}))
    BY <1>5 DEF Align, ResetPat
  <2> QED
    BY <1>2, <1>3, <2>1 DEF Searching
<1>6. CASE SearchColumn
  <2>1. PICK S \in SUBSET Rows :
          /\ pat' = IF FromRef THEN RefPush(pat, Partial(ref), S) ELSE Push(pat, S)
          /\ bitmap' = bitmap
    BY <1>6 DEF SearchColumn
  <2>2. pc \in Searching
    BY <1>6 DEF SearchColumn, Due, Searching
  <2>3. CASE FromRef
    <3>1. pat = Partial({})
      BY <2>2, <2>3 DEF Inv, Narrowed
    <3>2. pat \in Part /\ pat.rows = {}
      BY <3>1, PartIsMap
    <3>3. pat' = Partial({} \union (S \intersect ref)) /\ S \intersect ref \in SUBSET Rows
      BY <1>2, <1>3, <2>1, <2>3, <3>2, RefPushRows
    <3> QED
      BY <1>2, <2>1, <3>3, PartIsMap
  <2>4. CASE ~FromRef
    BY <1>2, <2>1, <2>2, <2>4, PushRows
  <2> QED
    BY <2>3, <2>4
<1>7. CASE SearchSub
  <2>1. pc \in Searching /\ bitmap' = bitmap
    BY <1>7 DEF SearchSub, Due, Searching
  <2>2. pat' = pat \/ pat' = Partial({})
    BY <1>7 DEF SearchSub, OnPattern, Miss
  <2> QED
    BY <1>2, <1>3, <2>1, <2>2
<1>8. CASE LastAlternative
  <2>1. pc = "alts" /\ alt = alts /\ bitmap' = bitmap
    BY <1>8 DEF LastAlternative
  <2>2. PICK sets \in SubSets :
          LET merged == IF alts = 1 THEN OnPat(sets) ELSE Union(OnPat(sets), sub)
              all    == Union(merged, found)
          IN IF all = Undefined THEN pc' = "undefined" ELSE pc' = "vars" /\ pat' = all
    BY <1>8 DEF LastAlternative
  <2> DEFINE merged == IF alts = 1 THEN OnPat(sets) ELSE Union(OnPat(sets), sub)
             all    == Union(merged, found)
  <2>3. /\ merged \in Maps
        /\ Listed(merged) \subseteq Listed(Within)
    BY <2>1, MergedRows
  <2>4. Listed(Within) \subseteq ref
    BY <1>2, <2>1, WithinRows DEF Inv, Searching
  <2>5. found.rows \subseteq Listed(Within) /\ found \in Maps /\ Listed(found) = found.rows
    BY <1>2, <2>1, PartIsMap DEF Inv, Gathered
  <2> HIDE DEF merged
  <2>6. all # Undefined => Listed(all) = Listed(merged) \union Listed(found)
    BY <2>3, <2>5, UnionRows
  <2>7. IF all = Undefined THEN pc' = "undefined" ELSE pc' = "vars" /\ pat' = all
    BY <2>2 DEF merged
  <2> QED
    BY <1>2, <2>1, <2>3, <2>4, <2>5, <2>6, <2>7 DEF Searching
<1>9. CASE Merge
  <2>1. IF Union(bitmap, pat) = Undefined THEN bitmap' = bitmap /\ pc' = "undefined"
        ELSE bitmap' = Union(bitmap, pat) /\ pc' \notin Searching
    BY <1>9 DEF Merge, Searching
  <2>2. pc \in Searching
    BY <1>9 DEF Merge, Searching
  <2> QED
    BY <1>2, <2>1, <2>2, UnionRows DEF Searching
<1>10. Skip \/ Alternative \/ End \/ UNCHANGED vars
         => UNCHANGED <<bitmap, pat>> /\ (pc' \in Searching => pc \in Searching)
  BY DEF Skip, Alternative, End, vars, exchange, Searching
<1> QED
  BY <1>2, <1>4, <1>5, <1>6, <1>7, <1>8, <1>9, <1>10 DEF Next

(* Outside refBitmap, a search decides every row rightly but outliers of   *)
(* variables kept as sub-patterns; and where no variable is kept as        *)
(* sub-patterns, every search finds exactly the rows that have the tokens. *)
ExactButOutliers ==
  /\ pc = "done" /\ ref = Absent => Listed(bitmap) \ SubOutliers = want \ SubOutliers
  /\ pc = "done" /\ ~HasSub => Listed(bitmap) = want

THEOREM Exact == Spec => []ExactButOutliers
<1>1. Init => Mistakes
  BY DEF Init, Mistakes
<1>2. Inv /\ Mistakes /\ [Next]_vars => Mistakes'
  BY MistakesStep
<1>3. Inv /\ Mistakes => ExactButOutliers
  BY DEF Inv, Has, Mistakes, ExactButOutliers, HasSub, SubOutliers
<1> QED
  BY <1>1, <1>2, <1>3, Invariance, PTL DEF Spec

(* A search within refBitmap selects no row that is not in it, whatever    *)
(* earlier searches left in the exchange maps: what SearchByLogic_and      *)
(* relies on when a further segment narrows a result.                      *)
FoundWithinRef == ref # Absent => Listed(bitmap) \subseteq ref

THEOREM WithinRef == Spec => []FoundWithinRef
<1>1. Init => Confined
  BY PartIsMap DEF Init, Confined, Searching
<1>2. Inv /\ Confined /\ [Next]_vars => Confined'
  BY ConfinedStep
<1>3. Confined => FoundWithinRef
  BY DEF Confined, FoundWithinRef
<1> QED
  BY <1>1, <1>2, <1>3, Invariance, PTL DEF Spec
=============================================================================
