--------------------------- MODULE PatternSearch ---------------------------
(***************************************************************************)
(* How a query of one or more tokens is searched in one template           *)
(* (LogStore_API.cpp, SearchSingleInPattern and SearchMultiInPattern, with *)
(* and without the rows an earlier segment has left in refBitmap).         *)
(*                                                                         *)
(* The tokens are laid along the segments of the template, from every      *)
(* index at which the text agrees; the tokens that fall on variables are   *)
(* searched in their columns one after the other, each within the rows the *)
(* one before has left in the exchange map m_glbExchgPatmap, and what is   *)
(* left in the end is merged into the result.  A variable kept as          *)
(* sub-patterns (.svar) is searched once for each way the token lies in    *)
(* its sub-pattern, through two more exchange maps; the values that do not *)
(* fit the sub-pattern, its outliers, are searched apart.                  *)
(*                                                                         *)
(* Where a token occurs in a column is a choice made when it is looked     *)
(* for; want, here and the others at the end of the list of variables      *)
(* record the choices, to compare the result with.                         *)
(***************************************************************************)
EXTENDS RowMaps, Integers, Sequences

CONSTANTS Rows,      \* the rows of the template
          Patterns,  \* the templates with the tokens laid along them
          MaxAlts,   \* bound on the ways a token lies in a sub-pattern
          Leftovers, \* what earlier searches leave in the exchange maps
          Absent

(* segs: the segments, a variable named by how it is stored.  toks: the    *)
(* tokens.  text: the pairs of a segment and a token that agree in text.   *)
(* outliers: for each segment, the rows whose value is an outlier.         *)
Stored  == {"dic", "svar", "var"}
Pattern == [segs : Seq({"delim", "const"} \union Stored), toks : Seq({"delim", "word"}),
            text : SUBSET (Nat \X Nat), outliers : Seq(SUBSET Rows)]

ASSUME PatternAssumption ==
  /\ Rows # {} /\ MaxAlts \in Nat \ {0}
  /\ \A S \in SUBSET Rows : S # Absent
  /\ Undefined \notin [full : BOOLEAN, rows : SUBSET Rows]
  /\ Leftovers \subseteq [full : {FALSE}, rows : SUBSET Rows]
  /\ \A p \in Patterns :
       /\ p \in Pattern /\ Len(p.toks) > 0 /\ DOMAIN p.outliers = DOMAIN p.segs
       /\ \A x \in p.text : p.segs[x[1]] \notin Stored /\ x[2] \in DOMAIN p.toks

VARIABLES pc,        \* "align", "vars", "alts", "done" or "undefined"
          pattern, ref,  \* the template and tokens; refBitmap, or Absent
          index,     \* the segment the first token is laid on
          tok,       \* flagIndex: the token to be searched next
          bitmap,    \* the result
          pat,       \* m_glbExchgPatmap, or m_glbExchgBitmap
          sub, temp, \* m_glbExchgSubBitmap, m_glbExchgSubTempBitmap
          alt, alts, \* the alternative searched, of the alts a token has
          found,     \* tempBitmap: the outliers found
          want,      \* rows that have the tokens, at an index before this one
          here,      \* ... at this index, as far as searched
          inAlts,    \* rows that have the token in an alternative before alt
          lost, extra \* rows the code is known to drop, and to keep

searched == <<pattern, ref>>
exchange == <<pat, sub, temp>>
vars == <<pc, searched, index, tok, bitmap, exchange, alt, alts, found, want, here, inAlts, lost, extra>>

Single    == Len(pattern.toks) = 1
Scope     == IF ref = Absent THEN Rows ELSE ref
MaxIndex  == Len(pattern.segs) - Len(pattern.toks) + 1
Seg(t)    == pattern.segs[index + t - 1]
IsVar(t)  == Seg(t) \in Stored
Outliers  == pattern.outliers[index + tok - 1]
Listed(m) == IF m.full THEN Rows ELSE m.rows
(* The first search within refBitmap; the others are within pat.           *)
FromRef   == ref # Absent /\ \A t \in 1 .. tok - 1 : ~IsVar(t)

(* Every token falls on a variable, or agrees with the text.               *)
Aligned == \A t \in DOMAIN pattern.toks :
             IF IsVar(t) THEN pattern.toks[t] = "word" ELSE <<index + t - 1, t>> \in pattern.text

(* The text of the template has the tokens: one token anywhere, more at    *)
(* this index.                                                             *)
InText == IF Single THEN pattern.text # {}
                    ELSE Aligned /\ \A t \in DOMAIN pattern.toks : ~IsVar(t)
-----------------------------------------------------------------------------
(* QueryByBM_Pushdown and _RefMap of a string that the rows S have         *)
Push(m, S) == IF Empty(m) THEN m ELSE Partial(Listed(m) \intersect S)

RefPush(m, r, S) == Union(m, Partial(S \intersect Listed(r)))

HaveAll(sets) == {r \in Rows : \A n \in DOMAIN sets : r \in sets[n]}

(* GetSubVals_Pushdown: one after the other, for the sub-variables of an   *)
(* alternative                                                             *)
PushAll(m, sets) == IF sets = <<>> THEN m ELSE Push(m, HaveAll(sets))

RefPushAll(m, r, sets) == IF sets = <<>> THEN m
                          ELSE PushAll(RefPush(m, r, Head(sets)), Tail(sets))
-----------------------------------------------------------------------------
Init == /\ pc = "align" /\ index = 1 /\ tok = 1
        /\ pattern \in Patterns
        /\ ref \in {Absent} \union (SUBSET Rows \ {{}, Rows})
        /\ bitmap = Partial({}) /\ found = Partial({})
        /\ \E m \in Leftovers : pat = m /\ sub = m /\ temp = m
        /\ alt = 0 /\ alts = 0
        /\ want = {} /\ here = {} /\ inAlts = {} /\ lost = {} /\ extra = {}

TextMatch ==
  /\ pc = "align" /\ index <= MaxIndex /\ InText
  /\ bitmap' = IF ref = Absent THEN Full(bitmap.rows) ELSE Union(bitmap, Partial(ref))
  /\ want' = Scope
  /\ pc' = "done"
  /\ UNCHANGED <<searched, index, tok, exchange, alt, alts, found, here, inAlts, lost, extra>>

ResetPat == pat' = IF ref = Absent THEN Full({}) ELSE Partial({})

Align ==
  /\ pc = "align" /\ index <= MaxIndex /\ ~InText
  /\ IF Aligned
     THEN /\ pc' = "vars" /\ tok' = 1 /\ here' = Scope /\ ResetPat
          /\ UNCHANGED index
     ELSE index' = index + 1 /\ UNCHANGED <<pc, tok, here, pat>>
  /\ UNCHANGED <<searched, bitmap, sub, temp, alt, alts, found, want, inAlts, lost, extra>>

(* A token that the text has, or one there are no rows left to search in   *)
Skip ==
  /\ pc = "vars" /\ tok <= Len(pattern.toks)
  /\ ~IsVar(tok) \/ (~FromRef /\ Empty(pat))
  /\ tok' = tok + 1
  /\ UNCHANGED <<pc, searched, index, bitmap, exchange, alt, alts, found, want, here, inAlts, lost, extra>>

Due(kinds) == /\ pc = "vars" /\ tok <= Len(pattern.toks)
              /\ Seg(tok) \in kinds /\ (FromRef \/ ~Empty(pat))

(* SearchInVar_Union and _Pushdown in a column or a dictionary.  A scan    *)
(* into a map that lists all rows says it is full.                         *)
SearchColumn ==
  /\ Due({"dic", "var"})
  /\ IF Single /\ ref = Absent /\ Seg(tok) = "var" /\ bitmap.rows = Rows
     THEN /\ bitmap' = Full(bitmap.rows) /\ pc' = "done"
          /\ UNCHANGED <<pat, here, tok>>
     ELSE \E S \in SUBSET Rows :
            /\ pat' = IF FromRef THEN RefPush(pat, Partial(ref), S) ELSE Push(pat, S)
            /\ here' = here \intersect S
            /\ tok' = tok + 1
            /\ UNCHANGED <<pc, bitmap>>
  /\ UNCHANGED <<searched, index, sub, temp, alt, alts, found, want, inAlts, lost, extra>>

(* GetVals_Subpat_Pushdown when the sub-pattern has the token, or cannot   *)
(* have it.  Either way it returns before the outliers it has found are    *)
(* merged.                                                                 *)
OnPattern(hits) ==
  /\ here' = here \intersect ((Rows \ Outliers) \union hits)
  /\ IF FromRef THEN lost' = lost \union here' /\ UNCHANGED extra
                ELSE extra' = extra \union (Outliers \ hits) /\ UNCHANGED lost
  /\ UNCHANGED pat

Miss(hits) ==
  /\ here' = here \intersect hits
  /\ lost' = lost \union here'
  /\ pat' = Partial({})
  /\ UNCHANGED extra

SearchSub ==
  /\ Due({"svar"})
  /\ \E hits \in SUBSET Outliers :
       \/ /\ OnPattern(hits) \/ Miss(hits)
          /\ tok' = tok + 1
          /\ UNCHANGED <<pc, alt, alts, found>>
       \/ /\ found' = Partial(hits \intersect (IF FromRef THEN ref ELSE Listed(pat)))
          /\ alts' \in IF Single THEN 1 .. MaxAlts ELSE {1}
          /\ alt' = 1 /\ pc' = "alts"
          /\ UNCHANGED <<tok, pat, here, lost, extra>>
  /\ inAlts' = {}
  /\ UNCHANGED <<searched, index, bitmap, sub, temp, want>>

(* The sub-variables an alternative names, as the rows that have each part *)
(* of the token.  Tokens laid at an end of the variable may lie in its     *)
(* leading constants alone.                                                *)
SubSets == {sets \in UNION {[1 .. n -> SUBSET Rows] : n \in 0 .. 2} : Single => sets # <<>>}

Within  == IF FromRef THEN Partial(ref) ELSE pat
OnPat(sets) == IF FromRef THEN RefPushAll(pat, Partial(ref), sets) ELSE PushAll(pat, sets)

(* Mutant: the map is not reset before the first alternative.              *)
FirstAltOnto(sets) == sub' = RefPushAll(sub, Within, sets) /\ UNCHANGED temp

FirstAlt(sets) == sub' = RefPushAll(Partial({}), Within, sets) /\ UNCHANGED temp

(* Mutant: an alternative of two sub-variables is searched in place.       *)
MiddleAltDirect(sets) == sub' = RefPushAll(sub, Within, sets) /\ UNCHANGED temp

MiddleAlt(sets) ==
  IF Len(sets) = 1
  THEN sub' = RefPushAll(sub, Within, sets) /\ UNCHANGED temp
  ELSE temp' = RefPushAll(Partial({}), Within, sets) /\ sub' = Union(sub, temp')

Alternative ==
  /\ pc = "alts" /\ alt < alts
  /\ \E sets \in SubSets :
       /\ IF alt = 1 THEN FirstAlt(sets) ELSE MiddleAlt(sets)
       /\ inAlts' = inAlts \union HaveAll(sets)
  /\ alt' = alt + 1
  /\ UNCHANGED <<pc, searched, index, tok, bitmap, pat, alts, found, want, here, lost, extra>>

(* The only alternative, or the last, is searched in the map itself; then  *)
(* the rows of the others and the outliers are merged.                     *)
LastAlternative ==
  /\ pc = "alts" /\ alt = alts
  /\ \E sets \in SubSets :
       LET own    == OnPat(sets)
           merged == IF alts = 1 THEN own ELSE Union(own, sub)
           all    == Union(merged, found)
           have   == inAlts \union HaveAll(sets)
       IN /\ here' = here \intersect ((have \ Outliers) \union found.rows)
          /\ lost' = IF sets = <<>> /\ FromRef THEN lost \union here' ELSE lost
          /\ extra' = extra \union ((have \intersect Outliers) \ found.rows)
          /\ IF all = Undefined THEN pc' = "undefined" /\ UNCHANGED <<pat, tok>>
             ELSE pc' = "vars" /\ pat' = all /\ tok' = tok + 1
  /\ UNCHANGED <<searched, index, bitmap, sub, temp, alt, alts, found, want, inAlts>>

(* Mutant: SearchSingleInPattern goes on after a full match.               *)
StopsNever(value) == FALSE

Stops(value) == Single /\ ref = Absent /\ value.full

(* All tokens are searched: bitmap->Union(m_glbExchgPatmap)                *)
Merge ==
  /\ pc = "vars" /\ tok > Len(pattern.toks)
  /\ LET value == Union(bitmap, pat) IN
     IF value = Undefined THEN pc' = "undefined" /\ UNCHANGED <<bitmap, index>>
     ELSE /\ bitmap' = value
          /\ IF Stops(value) THEN pc' = "done" /\ UNCHANGED index
                             ELSE pc' = "align" /\ index' = index + 1
  /\ want' = want \union here
  /\ UNCHANGED <<searched, tok, exchange, alt, alts, found, here, inAlts, lost, extra>>

End == /\ pc = "align" /\ index > MaxIndex
       /\ pc' = "done"
       /\ UNCHANGED <<searched, index, tok, bitmap, exchange, alt, alts, found, want, here, inAlts, lost, extra>>

Next == \/ TextMatch \/ Align \/ Skip \/ SearchColumn \/ SearchSub
        \/ Alternative \/ LastAlternative \/ Merge \/ End

Spec == Init /\ [][Next]_vars
-----------------------------------------------------------------------------
(* Every row that has the tokens somewhere is in the result, but for those *)
(* the code is known to drop: outliers found in a variable whose           *)
(* sub-pattern cannot have the token, and within refBitmap all rows where  *)
(* the sub-pattern itself has it.  So pushing the rows down, through three *)
(* exchange maps that hold what other searches left, never loses one.      *)
NothingLost == pc = "done" => (want \subseteq Listed(bitmap) \union lost)

(* No row is in the result that has the tokens nowhere, but for outliers   *)
(* of a variable whose sub-pattern has the token, which are kept unread.   *)
NothingInvented == pc = "done" => (Listed(bitmap) \subseteq want \union extra)

(* Rows are merged into a full map only when several tokens match at two   *)
(* places, at the first for all rows (2420), or when outliers are found    *)
(* for a token in the leading constants of a sub-pattern (1072).  A single *)
(* token, or a search within refBitmap, never leaves the memory of a map.  *)
OverrunsKnown == pc = "undefined" => /\ ~Single /\ ref = Absent
                                     /\ bitmap.full \/ pat.full
=============================================================================
