-------------------------- MODULE LogicQueryProofs --------------------------
(***************************************************************************)
(* Theorems about a query on one store (LogicQuery), for every store,      *)
(* every set of terms and every sequence of queries, and, at the end,      *)
(* about the stores a query is handed to (Dispatcher), for any             *)
(* directories, any number of stores, templates and rows, and any budget.  *)
(***************************************************************************)
EXTENDS LogicQuery, Dispatcher, FiniteSetTheorems, TLAPS

(* The values a bitmap of Key k takes                                      *)
Kept(b, k) == b \in {Absent, Null} \/ (b \in RowMap /\ MapOK(b, k))

(* Types, with what TypeOK leaves open                                      *)
Shape ==
  /\ pc \in {"idle", "run", "undefined"}
  /\ args \in Seq(Segment) /\ asked \in Seq(Segment)
  /\ \A j \in 1 .. Len(args) : Len(args[j].terms) > 0
  /\ seg \in 0 .. Len(args) + 1
  /\ pc = "run" => seg >= 1
  /\ pc = "run" /\ seg <= Len(args) => term \in 1 .. Len(args[seg].terms)

Keeps ==
  /\ \A k \in Key : Kept(bitmaps[k], k) /\ Kept(temps[k], k) /\ answer[k] \subseteq Row[k]
  /\ \A s \in DOMAIN sessions, k \in Key :
       Kept(sessions[s][k], k) /\ sessions[s][k] # Absent

TypeInv == Shape /\ Keeps

(* strtok changes only segments with a term a*b, and only when they are    *)
(* searched; key is the text of args when the segment began.               *)
Plain(g) == \A n \in 1 .. Len(g.terms) : g.terms[n] \notin Wild

Names ==
  /\ DOMAIN sessions \subseteq Seq(Segment)
  /\ pc = "run" =>
       /\ asked \in Queries
       /\ Len(asked) > 0 /\ Len(args) = Len(asked)
       /\ \A j \in 1 .. Len(args) : j > seg \/ Plain(asked[j]) => args[j] = asked[j]
       /\ seg <= Len(args) =>
            /\ term = 1 => args[seg] = asked[seg]
            /\ key \in Seq(Segment) /\ Len(key) = seg /\ key[seg] = asked[seg]
            /\ \A j \in 1 .. seg - 1 : key[j] = args[j]
            /\ term > 1 => key \notin DOMAIN sessions
       /\ seg > Len(args) => term = 1

(* Where the first term of an or-list is not searched                      *)
Dead(b, k) == b = Null \/ (k = OUTL /\ IsMap(b) /\ (b.full \/ Empty(b)))

(* What the maps are between two terms.  When the second term of an or-    *)
(* list is searched, temps has what Norm would find for the first.         *)
Flow ==
  /\ pc = "idle" => bitmaps = Nothing /\ temps = Nothing
  /\ pc = "run" =>
       /\ seg = 1 => bitmaps = Nothing
       /\ term = 1 => temps = Nothing
       /\ seg > 1 => \A k \in Key : /\ bitmaps[k] # Absent
                                    /\ Selected(temps[k], k) \subseteq Selected(bitmaps[k], k)
       /\ seg <= Len(args) /\ term = 2 /\ Plain(asked[seg]) =>
            \A k \in Key, t \in {asked[seg].terms[1]} :
              temps[k] = IF Dead(bitmaps[k], k) THEN Absent ELSE Norm(t, k)

(* Until strtok changes the text, the maps are those cached for it.        *)
Chain ==
  pc = "run" /\ seg > 1 /\ (\A j \in 1 .. seg - 1 : args[j] = asked[j]) =>
    LET d == Prefix(asked, seg - 1) IN d \in DOMAIN sessions /\ bitmaps = sessions[d]

NarrowInv == Narrowing /\ Chain

(* A result selects the rows S; one of the outliers is never full.         *)
Right(b, k, S) == /\ b # Absent /\ Selected(b, k) = S
                  /\ k = OUTL /\ IsMap(b) => ~b.full

(* What the segments before have left: nothing is selected yet, or S is.   *)
Left(k, S) == IF bitmaps[k] = Absent THEN S = Row[k] ELSE Right(bitmaps[k], k, S)

(* What is cached for a safe and trusted text, and what the segments that  *)
(* are done have left, is what the text means.                             *)
SessionsRight ==
  \A s \in DOMAIN sessions : Safe(s) /\ Trusted(s)
                              => \A k \in Key : Right(sessions[s][k], k, Meaning(s, k))

RunRight ==
  pc = "run" /\ seg > 1 =>
    LET d == Prefix(asked, seg - 1)
    IN Safe(d) /\ Trusted(d) => \A k \in Key : Right(bitmaps[k], k, Meaning(d, k))

RightInv == SessionsRight /\ RunRight /\ AnswerExact /\ SafeDefined

(* The search within some rows of a template misses terms in sub-patterns. *)
Flat(t, k) == ~Match[t][k].text => ~Match[t][k].subpat

(* What a search leaves in a bitmap.  A term whose search merges rows into *)
(* a full map leaves nothing to rely on.                                   *)
Result(b, k)   == Kept(b, k) /\ b # Absent
Overrun(b, t, k) == b = Undefined /\ Match[t][k].overrun
-----------------------------------------------------------------------------
LEMMA Maps ==
  /\ \A S \in SUBSET Nat : /\ Partial(S) \in RowMap /\ ~Partial(S).full /\ Partial(S).rows = S
                           /\ Full(S) \in RowMap /\ Full(S).full /\ Full(S).rows = S
  /\ \A b \in RowMap : /\ IsMap(b) /\ b # Absent /\ b # Null /\ b # Undefined
                       /\ b.full \in BOOLEAN /\ b.rows \subseteq Nat
  /\ ~IsMap(Absent) /\ ~IsMap(Null) /\ ~IsMap(Undefined)
  /\ Absent # Null /\ Absent # Undefined /\ Null # Undefined
BY QueryAssumption DEF RowMap, Partial, Full, IsMap

LEMMA Rows ==
  ASSUME NEW k \in Key
  PROVE  /\ Row[k] \subseteq Nat
         /\ \A t \in Terms : /\ Match[t][k].text \in BOOLEAN /\ Match[t][k].subpat \in BOOLEAN
                             /\ Match[t][k].rows \subseteq Row[k] /\ Match[t][k].rows \subseteq Nat
                             /\ Match[t][k].before \subseteq Row[k] /\ Match[t][k].before \subseteq Nat
                             /\ Match[t][k].overrun \in BOOLEAN
                             /\ k = OUTL => ~Match[t][k].text /\ ~Match[t][k].subpat
                                            /\ ~Match[t][k].overrun
         /\ k # OUTL => k \in Pats /\ Row[k] # {}
<1>1. Row[k] \subseteq Nat /\ (k # OUTL => k \in Pats /\ Row[k] # {})
  BY QueryAssumption DEF Key
<1>2. ASSUME NEW t \in Terms
      PROVE  Match[t][k] \in MatchType /\ Match[t][k].rows \subseteq Row[k]
             /\ Match[t][k].before \subseteq Match[t][k].rows
             /\ (k = OUTL => ~Match[t][k].text /\ ~Match[t][k].subpat /\ ~Match[t][k].overrun)
  BY QueryAssumption
<1>3. ASSUME NEW t \in Terms
      PROVE  /\ Match[t][k].text \in BOOLEAN /\ Match[t][k].subpat \in BOOLEAN
             /\ Match[t][k].overrun \in BOOLEAN
  BY <1>2 DEF MatchType
<1>4. QED
  BY <1>1, <1>2, <1>3

LEMMA OrNullKeeps ==
  ASSUME NEW k \in Key, NEW b \in RowMap, b.rows \subseteq Row[k]
  PROVE  /\ Kept(OrNull(b), k) /\ OrNull(b) # Absent
         /\ Selected(OrNull(b), k) = Selected(b, k)
         /\ IsMap(OrNull(b)) => OrNull(b) = b /\ ~Empty(b)
         /\ ~IsMap(OrNull(b)) => OrNull(b) = Null /\ Empty(b)
<1>1. b.full \in BOOLEAN /\ IsMap(b) /\ ~IsMap(Null) /\ Absent # Null /\ b # Absent /\ b # Undefined
  BY Maps
<1>2. CASE Empty(b)
  <2>1. OrNull(b) = Null
    BY <1>1, <1>2 DEF OrNull
  <2>2. QED
    BY <1>1, <1>2, <2>1 DEF Kept, Empty, Selected
<1>3. CASE ~Empty(b)
  <2>1. OrNull(b) = b
    BY <1>3 DEF OrNull
  <2>2. QED
    BY <1>1, <1>3, <2>1 DEF Kept, MapOK
<1>4. QED
  BY <1>2, <1>3

(* What a search from scratch finds                                        *)
LEMMA Searches ==
  ASSUME NEW k \in Key, NEW t \in Terms, Search(t, k) # Undefined
  PROVE  /\ Search(t, k) \in RowMap /\ Search(t, k).rows \subseteq Row[k]
         /\ t \notin Wild => /\ Selected(Search(t, k), k) = Has(t, k)
                             /\ Search(t, k).full <=> FullAt(t, k)
                             /\ ~FullAt(t, k) => Search(t, k).rows = Match[t][k].rows
<1> DEFINE m == Match[t][k]
<1>0. /\ m.text \in BOOLEAN /\ m.subpat \in BOOLEAN /\ (t \notin Wild => ~m.overrun)
      /\ m.rows \subseteq Row[k] /\ m.before \subseteq Row[k]
      /\ m.rows \in SUBSET Nat /\ m.before \in SUBSET Nat /\ {} \in SUBSET Nat
  BY Rows DEF Search, Found
<1>1. CASE t \in Wild
  <2>1. Search(t, k) = Partial({})
    BY <1>1 DEF Search
  <2>2. QED
    BY <1>1, <2>1, Maps, <1>0
<1>2. CASE t \notin Wild /\ m.text
  <2>1. Search(t, k) = Full({})
    BY <1>0, <1>2 DEF Search, Found
  <2>2. QED
    BY <1>2, <2>1, Maps, <1>0 DEF Selected, Has, FullAt
<1>3. CASE t \notin Wild /\ ~m.text /\ m.subpat
  <2>1. Search(t, k) = Full(m.before)
    BY <1>0, <1>3 DEF Search, Found
  <2>2. QED
    BY <1>3, <2>1, Maps, <1>0 DEF Selected, Has, FullAt
<1>4. CASE t \notin Wild /\ ~m.text /\ ~m.subpat
  <2>1. Search(t, k) = Partial(m.rows)
    BY <1>0, <1>4 DEF Search, Found
  <2>2. QED
    BY <1>4, <2>1, Maps, <1>0 DEF Selected, Has, FullAt
<1>5. QED
  BY <1>0, <1>1, <1>2, <1>3, <1>4

LEMMA Overruns ==
  ASSUME NEW k \in Key, NEW t \in Terms, Search(t, k) = Undefined
  PROVE  Overrun(Search(t, k), t, k) /\ OrNull(Search(t, k)) = Undefined
<1>1. {} \in SUBSET Nat /\ Match[t][k].before \in SUBSET Nat /\ Match[t][k].rows \in SUBSET Nat
  BY Rows
<1>2. Partial({}) # Undefined /\ Full({}) # Undefined
      /\ Full(Match[t][k].before) # Undefined /\ Partial(Match[t][k].rows) # Undefined
  BY <1>1, Maps
<1>3. Match[t][k].overrun
  BY <1>2 DEF Search, Found
<1>4. QED
  BY <1>3 DEF Overrun, OrNull

LEMMA KeptMap ==
  ASSUME NEW k \in Key, NEW b, Kept(b, k)
  PROVE  /\ b # Undefined
         /\ IsMap(b) <=> b \in RowMap
         /\ ~IsMap(b) => b \in {Absent, Null} /\ Selected(b, k) = {}
         /\ IsMap(b) => /\ b.full \in BOOLEAN /\ b.rows \subseteq Row[k] /\ b.rows \in SUBSET Nat
                        /\ b.full => Selected(b, k) = Row[k]
                        /\ ~b.full => Selected(b, k) = b.rows
                        /\ k # OUTL => ~Empty(b)
         /\ Selected(b, k) \subseteq Row[k]
<1>1. CASE b \in {Absent, Null}
  BY <1>1, Maps DEF Selected
<1>2. CASE b \in RowMap /\ MapOK(b, k)
  <2>1. b.full \in BOOLEAN /\ b.rows \in SUBSET Nat /\ IsMap(b) /\ b # Undefined /\ b \notin {Absent, Null}
    BY <1>2, Maps
  <2>2. b.rows \subseteq Row[k] /\ (k # OUTL => ~Empty(b))
    BY <1>2, <2>1 DEF MapOK
  <2>3. QED
    BY <1>2, <2>1, <2>2 DEF Selected
<1>3. QED
  BY <1>1, <1>2 DEF Kept

LEMMA MapKept ==
  ASSUME NEW k \in Key, NEW b \in RowMap, b.rows \subseteq Row[k],
         k # OUTL => b.full \/ b.rows # {}
  PROVE  Kept(b, k)
<1>1. b.full \in BOOLEAN
  BY Maps
<1>2. k # OUTL => ~Empty(b)
  BY DEF Empty
<1>3. QED
  BY <1>1, <1>2 DEF Kept, MapOK

LEMMA PartialKeeps ==
  ASSUME NEW k \in Key, NEW S \in SUBSET Row[k]
  PROVE  /\ Partial(S) \in RowMap /\ Partial(S).rows = S /\ ~Partial(S).full
         /\ Kept(OrNull(Partial(S)), k) /\ OrNull(Partial(S)) # Absent
         /\ Selected(OrNull(Partial(S)), k) = S
         /\ IsMap(OrNull(Partial(S))) => ~OrNull(Partial(S)).full
<1>1. S \in SUBSET Nat
  BY Rows
<1>2. Partial(S) \in RowMap /\ Partial(S).rows = S /\ ~Partial(S).full /\ IsMap(Partial(S))
  BY <1>1, Maps
<1>3. Selected(Partial(S), k) = S
  BY <1>2 DEF Selected
<1>4. QED
  BY <1>2, <1>3, OrNullKeeps

LEMMA SearchWithin ==
  ASSUME NEW k \in Key, NEW t \in Terms, NEW S \in SUBSET Row[k]
  PROVE  /\ SearchIn(t, k, S) \subseteq S
         /\ t \notin Wild /\ Flat(t, k) => SearchIn(t, k, S) = S \intersect Has(t, k)
BY Rows DEF SearchIn, Flat, Has

LEMMA OutlierHas ==
  ASSUME NEW t \in Terms
  PROVE  /\ Match[t][OUTL].rows = Has(t, OUTL) /\ Flat(t, OUTL) /\ ~FullAt(t, OUTL)
         /\ ~Match[t][OUTL].overrun
<1>1. OUTL \in Key
  BY DEF Key
<1>2. QED
  BY <1>1, Rows DEF Has, Flat, FullAt
-----------------------------------------------------------------------------
LEMMA NormInTemplate ==
  ASSUME NEW k \in Key, k # OUTL, NEW t \in Terms, Kept(bitmaps[k], k)
  PROVE  /\ Overrun(Norm(t, k), t, k) \/ Result(Norm(t, k), k)
         /\ bitmaps[k] # Absent => Selected(Norm(t, k), k) \subseteq Selected(bitmaps[k], k)
         /\ \A S : Norm(t, k) # Undefined /\ Left(k, S) /\ t \notin Wild /\ (bitmaps[k] # Absent => Flat(t, k))
                     => Right(Norm(t, k), k, S \intersect Has(t, k))
<1> DEFINE b == bitmaps[k]
<1>1. Has(t, k) \subseteq Row[k] /\ Absent # Null
  BY Rows, Maps DEF Has
<1>2. CASE b = Null
  <2>1. Norm(t, k) = Null
    BY <1>2, Maps DEF Norm
  <2>2. Kept(Null, k) /\ Selected(Null, k) = {}
    BY Maps DEF Kept, Selected
  <2>3. QED
    BY <1>1, <1>2, <2>1, <2>2 DEF Left, Right, Result
<1>3. CASE (b = Absent \/ (IsMap(b) /\ BeSizeFul(b, k))) /\ Search(t, k) = Undefined
  <2>1. Norm(t, k) = OrNull(Search(t, k))
    BY <1>3, Maps DEF Norm
  <2>2. Overrun(Norm(t, k), t, k) /\ Selected(Norm(t, k), k) = {}
    BY <1>3, <2>1, Overruns, Maps DEF Overrun, Selected
  <2>3. QED
    BY <2>2 DEF Overrun
<1>4. CASE (b = Absent \/ (IsMap(b) /\ BeSizeFul(b, k))) /\ Search(t, k) # Undefined
  <2>1. Norm(t, k) = OrNull(Search(t, k))
    BY <1>4, Maps DEF Norm
  <2>2. /\ Result(Norm(t, k), k)
        /\ Selected(Norm(t, k), k) = Selected(Search(t, k), k)
    BY <1>4, <2>1, Searches, OrNullKeeps DEF Result
  <2>3. Selected(Norm(t, k), k) \subseteq Row[k]
    BY <2>2, KeptMap DEF Result
  <2>4. b # Absent => Selected(b, k) = Row[k]
    BY <1>4, KeptMap DEF BeSizeFul
  <2>5. t \notin Wild => Selected(Norm(t, k), k) = Has(t, k)
    BY <1>4, <2>2, Searches
  <2>6. \A S : Left(k, S) => S = Row[k]
    BY <2>4 DEF Left, Right
  <2>7. QED
    BY <1>1, <2>2, <2>3, <2>4, <2>5, <2>6 DEF Right, Result
<1>5. CASE IsMap(b) /\ ~BeSizeFul(b, k)
  <2>1. Norm(t, k) = OrNull(Partial(SearchIn(t, k, b.rows)))
    BY <1>5, Maps DEF Norm
  <2>2. b.rows \in SUBSET Row[k] /\ Selected(b, k) = b.rows
    BY <1>5, KeptMap DEF BeSizeFul
  <2>3. SearchIn(t, k, b.rows) \in SUBSET b.rows
    BY <2>2, SearchWithin
  <2>4. /\ Kept(Norm(t, k), k) /\ Norm(t, k) # Absent
        /\ Selected(Norm(t, k), k) = SearchIn(t, k, b.rows)
    BY <2>1, <2>2, <2>3, PartialKeeps
  <2>5. b # Absent
    BY <1>5, Maps
  <2>6. \A S : Left(k, S) => S = b.rows
    BY <2>2, <2>5 DEF Left, Right
  <2>7. t \notin Wild /\ Flat(t, k) => SearchIn(t, k, b.rows) = b.rows \intersect Has(t, k)
    BY <2>2, SearchWithin
  <2>8. QED
    BY <2>2, <2>3, <2>4, <2>5, <2>6, <2>7 DEF Right, Result
<1>6. QED
  BY <1>2, <1>3, <1>4, <1>5, KeptMap

LEMMA NormInOutliers ==
  ASSUME NEW t \in Terms, Kept(bitmaps[OUTL], OUTL)
  PROVE  /\ Kept(Norm(t, OUTL), OUTL) /\ Norm(t, OUTL) # Absent
         /\ bitmaps[OUTL] # Absent => Selected(Norm(t, OUTL), OUTL) \subseteq Selected(bitmaps[OUTL], OUTL)
         /\ \A S : Left(OUTL, S) /\ t \notin Wild => Right(Norm(t, OUTL), OUTL, S \intersect Has(t, OUTL))
<1> DEFINE k == OUTL
           b == bitmaps[OUTL]
           rows == Match[t][OUTL].rows
<1>1. /\ OUTL \in Key /\ Has(t, OUTL) = rows /\ rows \in SUBSET Row[OUTL]
      /\ Row[OUTL] \in SUBSET Nat /\ {} \in SUBSET Nat
  BY Rows, OutlierHas DEF Key
<1>2. CASE b = Absent /\ t \in Wild
  <2>1. Norm(t, OUTL) = Full({})
    BY <1>2 DEF Norm
  <2>2. Full({}) \in RowMap /\ MapOK(Full({}), OUTL) /\ Full({}) # Absent
    BY <1>1, Maps DEF MapOK
  <2>3. QED
    BY <1>2, <2>1, <2>2 DEF Kept
<1>3. CASE b = Absent /\ t \notin Wild
  <2>1. Norm(t, OUTL) = OrNull(Partial(rows))
    BY <1>3, Maps DEF Norm
  <2>2. \A S : Left(OUTL, S) => S = Row[OUTL]
    BY <1>3 DEF Left
  <2>3. QED
    BY <1>1, <1>3, <2>1, <2>2, PartialKeeps DEF Right
<1>4. CASE IsMap(b) /\ ~b.full /\ ~Empty(b) /\ t \notin Wild
  <2>1. Norm(t, OUTL) = OrNull(Partial(b.rows \intersect rows))
    BY <1>4, Maps DEF Norm
  <2>2. Selected(b, OUTL) = b.rows /\ b.rows \in SUBSET Row[OUTL] /\ b # Absent
    BY <1>1, <1>4, KeptMap, Maps
  <2>3. \A S : Left(OUTL, S) => S = b.rows
    BY <2>2 DEF Left, Right
  <2>4. b.rows \intersect rows \in SUBSET Row[OUTL]
    BY <2>2
  <2>5. QED
    BY <1>1, <2>1, <2>2, <2>3, <2>4, PartialKeeps DEF Right
<1>5. CASE b # Absent /\ ~(IsMap(b) /\ ~b.full /\ ~Empty(b) /\ t \notin Wild)
  <2>1. Norm(t, OUTL) = b
    BY <1>5 DEF Norm
  <2>2. ASSUME NEW S, Left(OUTL, S), t \notin Wild
        PROVE  Right(b, OUTL, S \intersect Has(t, OUTL))
    <3>1. Right(b, OUTL, S)
      BY <1>5, <2>2 DEF Left
    <3>2. S = {}
      BY <1>1, <1>5, <2>2, <3>1, KeptMap DEF Right, Empty
    <3>3. QED
      BY <3>1, <3>2
  <2>3. QED
    BY <1>5, <2>1, <2>2
<1>6. QED
  BY <1>2, <1>3, <1>4, <1>5

LEMMA Norms ==
  ASSUME NEW k \in Key, NEW t \in Terms, Kept(bitmaps[k], k)
  PROVE  /\ Overrun(Norm(t, k), t, k) \/ Result(Norm(t, k), k)
         /\ bitmaps[k] # Absent => Selected(Norm(t, k), k) \subseteq Selected(bitmaps[k], k)
         /\ \A S : Norm(t, k) # Undefined /\ Left(k, S) /\ t \notin Wild /\ (bitmaps[k] # Absent => Flat(t, k))
                     => Right(Norm(t, k), k, S \intersect Has(t, k))
BY NormInTemplate, NormInOutliers DEF Result
-----------------------------------------------------------------------------
LEMMA NotInTemplate ==
  ASSUME NEW k \in Key, k # OUTL, NEW t \in Terms, Kept(bitmaps[k], k)
  PROVE  /\ Overrun(Not(t, k), t, k) \/ Result(Not(t, k), k)
         /\ bitmaps[k] # Absent => Selected(Not(t, k), k) \subseteq Selected(bitmaps[k], k)
         /\ \A S : Not(t, k) # Undefined /\ Right(bitmaps[k], k, S) /\ t \notin Wild /\ Flat(t, k)
                     => Right(Not(t, k), k, S \ Has(t, k))
<1> DEFINE b == bitmaps[k]
           s == Search(t, k)
<1>1. Has(t, k) \subseteq Row[k] /\ Absent # Null
  BY Rows, Maps DEF Has
<1>2. CASE b \in {Absent, Null}
  <2>1. Not(t, k) = Null
    BY <1>2, Maps DEF Not
  <2>2. Kept(Null, k) /\ Selected(Null, k) = {} /\ Selected(b, k) = {}
    BY <1>2, Maps DEF Kept, Selected
  <2>3. QED
    BY <1>1, <2>1, <2>2 DEF Right, Result
<1>3. CASE IsMap(b) /\ BeSizeFul(b, k) /\ s = Undefined
  <2>1. Not(t, k) = Undefined /\ Match[t][k].overrun
    BY <1>3, Overruns, Maps DEF Not, Overrun
  <2>2. Selected(Undefined, k) = {}
    BY Maps DEF Selected
  <2>3. QED
    BY <2>1, <2>2 DEF Overrun
<1>4. CASE IsMap(b) /\ BeSizeFul(b, k) /\ s # Undefined
  <2>0. /\ s \in RowMap /\ s.rows \in SUBSET Row[k] /\ IsMap(s) /\ s.full \in BOOLEAN
        /\ s.rows \in SUBSET Nat /\ Row[k] \ s.rows \in SUBSET Nat /\ {} \in SUBSET Nat
        /\ Row[k] # {}
    BY <1>4, Searches, Maps, Rows
  <2>1. Not(t, k) = IF BeSizeFul(s, k) THEN Null
                    ELSE IF Empty(s) THEN Full({}) ELSE Partial(Row[k] \ s.rows)
    BY <1>4, Maps DEF Not
  <2>2. Selected(b, k) = Row[k]
    BY <1>4, KeptMap DEF BeSizeFul
  <2>3. /\ Kept(Not(t, k), k) /\ Not(t, k) # Absent
        /\ Selected(Not(t, k), k) = Row[k] \ Selected(s, k)
    <3>1. CASE BeSizeFul(s, k)
      <4>1. Not(t, k) = Null /\ Selected(s, k) = Row[k]
        BY <2>0, <2>1, <3>1 DEF BeSizeFul, Selected
      <4>2. QED
        BY <4>1, Maps DEF Kept, Selected
    <3>2. CASE ~BeSizeFul(s, k) /\ Empty(s)
      <4>1. Not(t, k) = Full({}) /\ Selected(s, k) = {}
        BY <2>0, <2>1, <3>2 DEF Empty, Selected
      <4>2. Full({}) \in RowMap /\ Full({}).full /\ Full({}).rows = {} /\ IsMap(Full({})) /\ Full({}) # Absent
        BY <2>0, Maps
      <4>3. QED
        BY <4>1, <4>2 DEF Kept, Selected, MapOK, Empty
    <3>3. CASE ~BeSizeFul(s, k) /\ ~Empty(s)
      <4>1. Not(t, k) = Partial(Row[k] \ s.rows) /\ Selected(s, k) = s.rows
        BY <2>0, <2>1, <3>3 DEF BeSizeFul, Selected
      <4>2. LET p == Partial(Row[k] \ s.rows)
            IN p \in RowMap /\ ~p.full /\ p.rows = Row[k] \ s.rows /\ IsMap(p) /\ p # Absent
        BY <2>0, Maps
      <4>3. Row[k] \ s.rows # {}
        BY <2>0, <3>3 DEF BeSizeFul
      <4>4. Kept(Not(t, k), k) /\ Not(t, k) # Absent
        BY <4>1, <4>2, <4>3, MapKept
      <4>5. Selected(Not(t, k), k) = Row[k] \ s.rows
        BY <4>1, <4>2 DEF Selected
      <4>6. QED
        BY <4>1, <4>4, <4>5
    <3>4. QED
      BY <3>1, <3>2, <3>3
  <2>4. t \notin Wild => Selected(s, k) = Has(t, k)
    BY <1>4, Searches
  <2>5. QED
    BY <2>2, <2>3, <2>4 DEF Right, Result
<1>5. CASE IsMap(b) /\ ~BeSizeFul(b, k)
  <2>1. Not(t, k) = OrNull(Partial(b.rows \ SearchIn(t, k, b.rows)))
    BY <1>5, Maps DEF Not
  <2>2. b.rows \in SUBSET Row[k] /\ Selected(b, k) = b.rows
    BY <1>5, KeptMap DEF BeSizeFul
  <2>3. b.rows \ SearchIn(t, k, b.rows) \in SUBSET Row[k]
    BY <2>2
  <2>4. /\ Kept(Not(t, k), k) /\ Not(t, k) # Absent
        /\ Selected(Not(t, k), k) = b.rows \ SearchIn(t, k, b.rows)
    BY <2>1, <2>3, PartialKeeps
  <2>5. t \notin Wild /\ Flat(t, k) => SearchIn(t, k, b.rows) = b.rows \intersect Has(t, k)
    BY <2>2, SearchWithin
  <2>6. QED
    BY <2>2, <2>4, <2>5 DEF Right, Result
<1>6. QED
  BY <1>2, <1>3, <1>4, <1>5, KeptMap

LEMMA NotInOutliers ==
  ASSUME NEW t \in Terms, Kept(bitmaps[OUTL], OUTL)
  PROVE  /\ Kept(Not(t, OUTL), OUTL) /\ Not(t, OUTL) # Absent
         /\ bitmaps[OUTL] # Absent => Selected(Not(t, OUTL), OUTL) \subseteq Selected(bitmaps[OUTL], OUTL)
         /\ \A S : Right(bitmaps[OUTL], OUTL, S) /\ t \notin Wild
                     => Right(Not(t, OUTL), OUTL, S \ Has(t, OUTL))
<1> DEFINE b == bitmaps[OUTL]
           rows == Match[t][OUTL].rows
<1>1. /\ OUTL \in Key /\ Has(t, OUTL) = rows /\ rows \in SUBSET Row[OUTL] /\ Absent # Null
  BY Rows, OutlierHas, Maps DEF Key
<1>2. CASE b \in {Absent, Null}
  <2>1. Not(t, OUTL) = Null
    BY <1>2, Maps DEF Not
  <2>2. Kept(Null, OUTL) /\ Selected(Null, OUTL) = {} /\ Selected(b, OUTL) = {} /\ ~IsMap(Null)
    BY <1>2, Maps DEF Kept, Selected
  <2>3. QED
    BY <1>1, <2>1, <2>2 DEF Right
<1>3. CASE IsMap(b) /\ ~b.full /\ ~Empty(b) /\ t \notin Wild
  <2>1. Not(t, OUTL) = OrNull(Partial(b.rows \ rows))
    BY <1>3, Maps DEF Not
  <2>2. Selected(b, OUTL) = b.rows /\ b.rows \ rows \in SUBSET Row[OUTL]
    BY <1>1, <1>3, KeptMap
  <2>3. QED
    BY <1>1, <2>1, <2>2, PartialKeeps DEF Right
<1>4. CASE b \notin {Absent, Null} /\ ~(IsMap(b) /\ ~b.full /\ ~Empty(b) /\ t \notin Wild)
  <2>1. Not(t, OUTL) = b
    BY <1>4, Maps DEF Not
  <2>2. ASSUME NEW S, Right(b, OUTL, S), t \notin Wild
        PROVE  Right(b, OUTL, S \ Has(t, OUTL))
    <3>1. S = {}
      BY <1>1, <1>4, <2>2, KeptMap DEF Right, Empty
    <3>2. QED
      BY <2>2, <3>1
  <2>3. QED
    BY <1>4, <2>1, <2>2
<1>5. QED
  BY <1>2, <1>3, <1>4

LEMMA Nots ==
  ASSUME NEW k \in Key, NEW t \in Terms, Kept(bitmaps[k], k)
  PROVE  /\ Overrun(Not(t, k), t, k) \/ Result(Not(t, k), k)
         /\ bitmaps[k] # Absent => Selected(Not(t, k), k) \subseteq Selected(bitmaps[k], k)
         /\ \A S : Not(t, k) # Undefined /\ Right(bitmaps[k], k, S) /\ t \notin Wild /\ Flat(t, k)
                     => Right(Not(t, k), k, S \ Has(t, k))
BY NotInTemplate, NotInOutliers DEF Result
-----------------------------------------------------------------------------
LEMMA Unions ==
  ASSUME NEW k \in Key, NEW a, NEW b, Kept(a, k), Kept(b, k), IsMap(a), IsMap(b)
  PROVE  \/ Union(a, b) = Undefined /\ a.full /\ ~b.full /\ b.rows # {}
         \/ /\ Kept(Union(a, b), k) /\ IsMap(Union(a, b))
            /\ Selected(Union(a, b), k) = Selected(a, k) \union Selected(b, k)
            /\ Union(a, b).full => a.full \/ b.full
<1>1. /\ a \in RowMap /\ b \in RowMap /\ a.full \in BOOLEAN /\ b.full \in BOOLEAN
      /\ a.rows \in SUBSET Nat /\ b.rows \in SUBSET Nat
      /\ a.rows \subseteq Row[k] /\ b.rows \subseteq Row[k]
      /\ (k # OUTL => ~Empty(a) /\ ~Empty(b))
      /\ Selected(a, k) \subseteq Row[k] /\ Selected(b, k) \subseteq Row[k]
      /\ Selected(a, k) = IF a.full THEN Row[k] ELSE a.rows
      /\ Selected(b, k) = IF b.full THEN Row[k] ELSE b.rows
  BY KeptMap
<1>2. CASE b.full
  <2>1. Union(a, b) = Full(a.rows)
    BY <1>1, <1>2 DEF Union
  <2>2. Union(a, b) \in RowMap /\ Union(a, b).full /\ Union(a, b).rows = a.rows /\ IsMap(Union(a, b))
    BY <1>1, <2>1, Maps
  <2>3. QED
    BY <1>1, <1>2, <2>2 DEF Kept, MapOK, Empty, Selected
<1>3. CASE ~b.full /\ ~a.full
  <2>1. Union(a, b) = Partial(a.rows \union b.rows)
    BY <1>1, <1>3 DEF Union
  <2>2. a.rows \union b.rows \in SUBSET Nat
    BY <1>1
  <2>3. Union(a, b) \in RowMap /\ ~Union(a, b).full /\ Union(a, b).rows = a.rows \union b.rows /\ IsMap(Union(a, b))
    BY <2>1, <2>2, Maps
  <2>4. Kept(Union(a, b), k)
    <3>1. k # OUTL => a.rows # {}
      BY <1>1, <1>3 DEF Empty
    <3>2. QED
      BY <1>1, <2>3, <3>1, MapKept
  <2>5. Selected(Union(a, b), k) = a.rows \union b.rows
    BY <2>3 DEF Selected
  <2>6. QED
    BY <1>1, <1>3, <2>3, <2>4, <2>5
<1>4. CASE ~b.full /\ a.full
  <2>1. Union(a, b) = IF b.rows \subseteq a.rows THEN a ELSE Undefined
    BY <1>1, <1>4 DEF Union
  <2>2. QED
    BY <1>1, <1>4, <2>1
<1>5. QED
  BY <1>1, <1>2, <1>3, <1>4

LEMMA StoredKeeps ==
  ASSUME NEW k \in Key, NEW old, Kept(old, k), NEW r \in RowMap, r.rows \subseteq Row[k]
  PROVE  /\ \/ Stored(old, r) = Undefined
            \/ /\ Kept(Stored(old, r), k)
               /\ Selected(Stored(old, r), k) = Selected(old, k) \union Selected(r, k)
         /\ old = Absent => Stored(old, r) = OrNull(r)
<1>1. IsMap(r) /\ r.full \in BOOLEAN /\ r # Absent /\ r # Undefined
  BY Maps
<1>2. CASE Empty(r)
  <2>1. Selected(r, k) = {}
    BY <1>1, <1>2 DEF Selected, Empty
  <2>2. Stored(old, r) = IF old = Absent THEN Null ELSE old
    BY <1>1, <1>2 DEF Stored
  <2>3. OrNull(r) = Null /\ Kept(Null, k) /\ Selected(Null, k) = {} /\ Selected(Absent, k) = {}
    BY <1>1, <1>2, Maps DEF OrNull, Kept, Selected
  <2>4. QED
    BY <2>1, <2>2, <2>3
<1>3. CASE ~Empty(r) /\ IsMap(old)
  <2>1. Stored(old, r) = Union(old, r) /\ old # Absent
    BY <1>1, <1>3, Maps DEF Stored
  <2>2. Kept(r, k)
    BY <1>1, <1>3 DEF Kept, MapOK
  <2>3. QED
    BY <1>1, <1>3, <2>1, <2>2, Unions
<1>4. CASE ~Empty(r) /\ ~IsMap(old)
  <2>1. old \in {Absent, Null} /\ Selected(old, k) = {}
    BY <1>4, KeptMap
  <2>2. Stored(old, r) = r
    BY <1>1, <1>4, <2>1, Maps DEF Stored
  <2>3. OrNull(r) = r
    BY <1>4 DEF OrNull
  <2>4. QED
    BY <1>1, <1>4, <2>1, <2>2, <2>3 DEF Kept, MapOK
<1>5. QED
  BY <1>2, <1>3, <1>4

LEMMA JoinedKeeps ==
  ASSUME NEW k \in Key, NEW b, NEW x, Kept(b, k), b # Absent, Kept(x, k)
  PROVE  \/ Joined(b, x) = Undefined /\ IsMap(b) /\ b.full /\ IsMap(x) /\ ~x.full /\ x.rows # {}
         \/ /\ Kept(Joined(b, x), k) /\ Joined(b, x) # Absent
            /\ Selected(Joined(b, x), k) = Selected(b, k) \union Selected(x, k)
            /\ IsMap(Joined(b, x)) /\ Joined(b, x).full => (IsMap(b) /\ b.full) \/ (IsMap(x) /\ x.full)
<1>1. CASE x = Absent
  <2>1. Joined(b, x) = b /\ Selected(x, k) = {}
    BY <1>1, Maps DEF Joined, Selected
  <2>2. QED
    BY <2>1
<1>2. CASE x # Absent /\ ~IsMap(b)
  <2>1. Joined(b, x) = x /\ Selected(b, k) = {}
    BY <1>2, KeptMap DEF Joined, Selected
  <2>2. QED
    BY <1>2, <2>1
<1>3. CASE IsMap(x) /\ IsMap(b)
  <2>1. Joined(b, x) = Union(b, x)
    BY <1>3, KeptMap, Maps DEF Joined
  <2>2. QED
    BY <1>3, <2>1, Unions, Maps
<1>4. CASE x = Null /\ IsMap(b)
  <2>1. Joined(b, x) = b /\ Selected(x, k) = {}
    BY <1>4, KeptMap, Maps DEF Joined, Selected
  <2>2. QED
    BY <2>1
<1>5. QED
  BY <1>1, <1>2, <1>3, <1>4, KeptMap
-----------------------------------------------------------------------------
LEMMA RefInTemplate ==
  ASSUME NEW k \in Key, k # OUTL, NEW t \in Terms, Kept(bitmaps[k], k), Kept(temps[k], k)
  PROVE  /\ \/ RefPat(t, k) = Undefined
            \/ /\ Kept(RefPat(t, k), k)
               /\ bitmaps[k] # Absent /\ Selected(temps[k], k) \subseteq Selected(bitmaps[k], k)
                    => Selected(RefPat(t, k), k) \subseteq Selected(bitmaps[k], k)
         /\ temps[k] = Absent => RefPat(t, k) = IF Dead(bitmaps[k], k) THEN Absent ELSE Norm(t, k)
<1> DEFINE b == bitmaps[k]
<1>1. CASE b = Null
  <2>1. RefPat(t, k) = temps[k]
    BY <1>1, Maps DEF RefPat
  <2>2. QED
    BY <1>1, <2>1 DEF Dead
<1>2. CASE b = Absent \/ (IsMap(b) /\ BeSizeFul(b, k))
  <2>1. RefPat(t, k) = Stored(temps[k], Search(t, k))
    BY <1>2, Maps DEF RefPat
  <2>2. Norm(t, k) = OrNull(Search(t, k)) /\ ~Dead(b, k)
    BY <1>2, Maps DEF Norm, Dead
  <2>3. b # Absent => Selected(b, k) = Row[k]
    BY <1>2, KeptMap DEF BeSizeFul
  <2>4. /\ \/ RefPat(t, k) = Undefined
           \/ Kept(RefPat(t, k), k) /\ Selected(RefPat(t, k), k) \subseteq Row[k]
        /\ temps[k] = Absent => RefPat(t, k) = OrNull(Search(t, k))
    <3>1. CASE Search(t, k) = Undefined
      BY <2>1, <3>1, Overruns DEF Stored
    <3>2. CASE Search(t, k) # Undefined
      BY <2>1, <3>2, Searches, StoredKeeps, KeptMap
    <3>3. QED
      BY <3>1, <3>2
  <2>5. QED
    BY <2>2, <2>3, <2>4
<1>3. CASE IsMap(b) /\ ~BeSizeFul(b, k)
  <2> DEFINE S == SearchIn(t, k, b.rows)
  <2>1. RefPat(t, k) = Stored(temps[k], Partial(S))
    BY <1>3, Maps DEF RefPat
  <2>2. Norm(t, k) = OrNull(Partial(S)) /\ ~Dead(b, k)
    BY <1>3, Maps DEF Norm, Dead
  <2>3. b.rows \in SUBSET Row[k] /\ Selected(b, k) = b.rows
    BY <1>3, KeptMap DEF BeSizeFul
  <2>4. S \in SUBSET b.rows /\ S \in SUBSET Row[k] /\ S \in SUBSET Nat
    BY <2>3, SearchWithin, Rows
  <2>5. Partial(S) \in RowMap /\ Partial(S).rows = S /\ Selected(Partial(S), k) = S
    BY <2>4, Maps DEF Selected
  <2>6. /\ \/ RefPat(t, k) = Undefined
           \/ /\ Kept(RefPat(t, k), k)
              /\ Selected(RefPat(t, k), k) = Selected(temps[k], k) \union S
        /\ temps[k] = Absent => RefPat(t, k) = OrNull(Partial(S))
    BY <2>1, <2>4, <2>5, StoredKeeps
  <2>7. QED
    BY <2>2, <2>3, <2>4, <2>6
<1>4. QED
  BY <1>1, <1>2, <1>3, KeptMap

LEMMA RefInOutliers ==
  ASSUME NEW t \in Terms, Kept(bitmaps[OUTL], OUTL), Kept(temps[OUTL], OUTL), NEW o \in RefOutliers(t)
  PROVE  /\ \/ o = Undefined
            \/ /\ Kept(o, OUTL)
               /\ bitmaps[OUTL] # Absent /\ Selected(temps[OUTL], OUTL) \subseteq Selected(bitmaps[OUTL], OUTL)
                    => Selected(o, OUTL) \subseteq Selected(bitmaps[OUTL], OUTL)
         /\ temps[OUTL] = Absent /\ t \notin Wild
              => o = IF Dead(bitmaps[OUTL], OUTL) THEN Absent ELSE Norm(t, OUTL)
<1> DEFINE b    == bitmaps[OUTL]
           old  == temps[OUTL]
           rows == Match[t][OUTL].rows
           r    == IF t \in Wild THEN Full({}) ELSE Partial(rows)
<1>1. /\ OUTL \in Key /\ rows \in SUBSET Row[OUTL] /\ rows \in SUBSET Nat /\ {} \in SUBSET Nat
  BY Rows DEF Key
<1>2. /\ r \in RowMap /\ r.rows \subseteq Row[OUTL] /\ IsMap(r) /\ (t \notin Wild => r.rows = rows /\ ~r.full)
  BY <1>1, Maps
<1>3. CASE b = Absent /\ (Empty(r) \/ old = Absent)
  <2>1. o = Stored(old, r)
    BY <1>3, Maps DEF RefOutliers
  <2>2. t \notin Wild => Norm(t, OUTL) = OrNull(r)
    BY <1>3, Maps DEF Norm
  <2>3. ~Dead(b, OUTL)
    BY <1>3, Maps DEF Dead
  <2>4. QED
    BY <1>1, <1>2, <1>3, <2>1, <2>2, <2>3, StoredKeeps
<1>4. CASE b = Absent /\ ~Empty(r) /\ old # Absent
  <2>1. o \in {r, IF old = Null THEN Undefined ELSE Union(old, r)}
    BY <1>4, Maps DEF RefOutliers
  <2>2. Kept(r, OUTL)
    BY <1>1, <1>2, MapKept
  <2>3. old # Null => IsMap(old)
    BY <1>1, <1>4, KeptMap
  <2>4. old # Null => Union(old, r) = Undefined \/ Kept(Union(old, r), OUTL)
    BY <1>1, <1>2, <2>2, <2>3, Unions
  <2>5. QED
    BY <1>4, <2>1, <2>2, <2>4
<1>5. CASE IsMap(b) /\ ~b.full /\ ~Empty(b)
  <2> DEFINE S == IF t \in Wild THEN {} ELSE b.rows \intersect r.rows
  <2>1. o = IF old = Null THEN Undefined ELSE OrNull(Partial(S))
    BY <1>5, Maps DEF RefOutliers
  <2>2. b.rows \in SUBSET Row[OUTL] /\ Selected(b, OUTL) = b.rows
    BY <1>1, <1>5, KeptMap
  <2>3. S \in SUBSET b.rows /\ S \in SUBSET Row[OUTL]
    BY <2>2
  <2>4. Kept(OrNull(Partial(S)), OUTL) /\ Selected(OrNull(Partial(S)), OUTL) = S
    BY <1>1, <2>3, PartialKeeps
  <2>5. t \notin Wild => Norm(t, OUTL) = OrNull(Partial(S))
    BY <1>2, <1>5, Maps DEF Norm
  <2>6. ~Dead(b, OUTL)
    BY <1>5, Maps DEF Dead
  <2>7. CASE old = Null
    BY <2>1, <2>7, Maps
  <2>8. CASE old # Null
    <3>1. o = OrNull(Partial(S))
      BY <2>1, <2>8
    <3>2. Kept(o, OUTL) /\ Selected(o, OUTL) \subseteq Selected(b, OUTL)
      BY <2>2, <2>3, <2>4, <3>1
    <3>3. QED
      BY <2>5, <2>6, <3>1, <3>2
  <2>9. QED
    BY <2>7, <2>8
<1>6. CASE b # Absent /\ ~(IsMap(b) /\ ~b.full /\ ~Empty(b))
  <2>1. o = old
    BY <1>6 DEF RefOutliers
  <2>2. Dead(b, OUTL)
    BY <1>1, <1>6, KeptMap DEF Dead
  <2>3. QED
    BY <1>6, <2>1, <2>2
<1>7. QED
  BY <1>3, <1>4, <1>5, <1>6
-----------------------------------------------------------------------------
LEMMA Prefixes ==
  ASSUME NEW q \in Seq(Segment), NEW n \in 0 .. Len(q)
  PROVE  /\ Prefix(q, n) \in Seq(Segment) /\ Len(Prefix(q, n)) = n
         /\ \A j \in 1 .. n : Prefix(q, n)[j] = q[j]
         /\ \A m \in 0 .. n : Prefix(Prefix(q, n), m) = Prefix(q, m)
         /\ Prefix(q, Len(q)) = q
BY DEF Prefix

LEMMA SamePrefix ==
  ASSUME NEW q \in Seq(Segment), NEW w \in Seq(Segment), NEW n \in 0 .. Len(q), Len(w) = n,
         \A j \in 1 .. n : w[j] = q[j]
  PROVE  w = Prefix(q, n)
BY DEF Prefix

LEMMA CutIs ==
  ASSUME args \in Seq(Segment), seg \in 1 .. Len(args), term \in 1 .. Len(args[seg].terms)
  PROVE  /\ Cut \in Seq(Segment) /\ Len(Cut) = Len(args)
         /\ \A j \in 1 .. Len(args) : j # seg => Cut[j] = args[j]
         /\ Cut[seg].neg = args[seg].neg /\ Len(Cut[seg].terms) = Len(args[seg].terms)
         /\ args[seg].terms[term] \notin Wild => Cut = args
         /\ args[seg].terms[term] \in Wild => Cut[seg].terms[term] \notin Wild
<1> DEFINE g == args[seg]
           t == g.terms[term]
<1>1. g \in Segment /\ g.terms \in Seq(Terms) /\ g.neg \in BOOLEAN /\ t \in Terms
  <2>1. g \in Segment
    OBVIOUS
  <2> HIDE DEF g
  <2>2. g.terms \in Seq(Terms) /\ g.neg \in BOOLEAN
    BY <2>1 DEF Segment
  <2>3. term \in 1 .. Len(g.terms)
    BY DEF g
  <2>4. QED
    BY <2>1, <2>2, <2>3
<1>2. CASE t \notin Wild
  <2>1. Cut = args
    BY <1>2 DEF Cut
  <2>2. QED
    BY <1>2, <2>1
<1>3. CASE t \in Wild
  <2> DEFINE ts == [g.terms EXCEPT ![term] = Stem[t]]
             h  == [g EXCEPT !.terms = ts]
  <2>1. Stem[t] \in Terms \ Wild
    BY <1>3, QueryAssumption
  <2>2. ts \in Seq(Terms) /\ Len(ts) = Len(g.terms) /\ ts[term] \notin Wild
    BY <1>1, <2>1
  <2>3. h \in Segment /\ h.neg = g.neg /\ h.terms = ts
    BY <1>1, <2>2 DEF Segment
  <2>4. Cut = [args EXCEPT ![seg] = h]
    BY <1>3 DEF Cut
  <2> HIDE DEF h, ts
  <2>5. QED
    BY <1>3, <2>2, <2>3, <2>4
<1>4. QED
  BY <1>2, <1>3

LEMMA NowIs ==
  ASSUME TypeInv, Searching
  PROVE  /\ seg \in 1 .. Len(args) /\ term \in 1 .. Len(args[seg].terms)
         /\ Now \in Terms /\ args[seg] \in Segment /\ Len(args) \in Nat
         /\ args[seg].terms \in Seq(Terms) /\ args[seg].neg \in BOOLEAN
<1>1. seg \in 1 .. Len(args) /\ term \in 1 .. Len(args[seg].terms) /\ Len(args) \in Nat
  BY DEF TypeInv, Shape, Searching
<1>2. args[seg] \in Segment
  BY <1>1 DEF TypeInv, Shape
<1>3. args[seg].terms \in Seq(Terms) /\ args[seg].neg \in BOOLEAN
  BY <1>2 DEF Segment
<1>4. QED
  BY <1>1, <1>2, <1>3 DEF Now

(* The maps that end a segment                                             *)
TokenMap(k) == LET o == IF Now \in Wild THEN Stem[Now] ELSE Now
               IN IF k = OUTL THEN Partial(Match[o][k].rows) ELSE OrNull(Search(Now, k))
LastMap(k)  == Joined(Norm(Now, k), temps[k])
NotMap(k)   == Not(Now, k)

LEMMA TokenResult ==
  ASSUME TypeInv, Searching, NEW k \in Key
  PROVE  Overrun(TokenMap(k), Now, k) \/ Result(TokenMap(k), k)
<1>1. Now \in Terms
  BY NowIs
<1>2. CASE k = OUTL
  <2> DEFINE o == IF Now \in Wild THEN Stem[Now] ELSE Now
  <2>1. o \in Terms
    BY <1>1, QueryAssumption
  <2>2. Match[o][k].rows \in SUBSET Row[k] /\ Match[o][k].rows \in SUBSET Nat
    BY <2>1, Rows
  <2>3. TokenMap(k) = Partial(Match[o][k].rows)
    BY <1>2 DEF TokenMap
  <2> HIDE DEF o
  <2>4. TokenMap(k) \in RowMap /\ TokenMap(k).rows \subseteq Row[k]
    BY <2>2, <2>3, Maps
  <2>5. QED
    BY <1>2, <2>4, MapKept, Maps DEF Result
<1>3. CASE k # OUTL
  <2>1. TokenMap(k) = OrNull(Search(Now, k))
    BY <1>3 DEF TokenMap
  <2>2. QED
    BY <1>1, <2>1, Overruns, Searches, OrNullKeeps DEF Result, Overrun
<1>4. QED
  BY <1>2, <1>3

LEMMA LastResult ==
  ASSUME TypeInv, Searching, NEW k \in Key
  PROVE  /\ LastMap(k) = Undefined \/ Result(LastMap(k), k)
         /\ LastMap(k) # Undefined /\ bitmaps[k] # Absent
              /\ Selected(temps[k], k) \subseteq Selected(bitmaps[k], k)
              => Selected(LastMap(k), k) \subseteq Selected(bitmaps[k], k)
<1>1. Now \in Terms
  BY NowIs
<1>2. Kept(bitmaps[k], k) /\ Kept(temps[k], k)
  BY DEF TypeInv, Keeps
<1>3. /\ Norm(Now, k) = Undefined \/ Result(Norm(Now, k), k)
      /\ bitmaps[k] # Absent => Selected(Norm(Now, k), k) \subseteq Selected(bitmaps[k], k)
  BY <1>1, <1>2, Norms DEF Overrun
<1>4. CASE Norm(Now, k) = Undefined
  <2>1. LastMap(k) = Undefined
    BY <1>4, Maps DEF LastMap, Joined
  <2>2. QED
    BY <2>1
<1>5. CASE Result(Norm(Now, k), k)
  <2>1. Kept(Norm(Now, k), k) /\ Norm(Now, k) # Absent
    BY <1>5 DEF Result
  <2>2. \/ LastMap(k) = Undefined
        \/ /\ Kept(LastMap(k), k) /\ LastMap(k) # Absent
           /\ Selected(LastMap(k), k) = Selected(Norm(Now, k), k) \union Selected(temps[k], k)
    BY <1>2, <2>1, JoinedKeeps DEF LastMap
  <2>3. QED
    BY <1>3, <2>2 DEF Result
<1>6. QED
  BY <1>3, <1>4, <1>5

LEMMA NotResult ==
  ASSUME TypeInv, Searching, NEW k \in Key
  PROVE  /\ Overrun(NotMap(k), Now, k) \/ Result(NotMap(k), k)
         /\ bitmaps[k] # Absent => Selected(NotMap(k), k) \subseteq Selected(bitmaps[k], k)
<1>1. Now \in Terms
  BY NowIs
<1>2. Kept(bitmaps[k], k)
  BY DEF TypeInv, Keeps
<1>3. QED
  BY <1>1, <1>2, Nots DEF NotMap

LEMMA OrResult ==
  ASSUME TypeInv, Searching, NEW k \in Key, NEW o \in RefOutliers(Now),
         NEW value, value = IF k = OUTL THEN o ELSE RefPat(Now, k)
  PROVE  /\ \/ value = Undefined
            \/ /\ Kept(value, k)
               /\ bitmaps[k] # Absent /\ Selected(temps[k], k) \subseteq Selected(bitmaps[k], k)
                    => Selected(value, k) \subseteq Selected(bitmaps[k], k)
         /\ temps[k] = Absent /\ Now \notin Wild
              => value = IF Dead(bitmaps[k], k) THEN Absent ELSE Norm(Now, k)
<1>1. Now \in Terms
  BY NowIs
<1>2. Kept(bitmaps[k], k) /\ Kept(temps[k], k)
  BY DEF TypeInv, Keeps
<1>3. QED
  BY <1>1, <1>2, RefInTemplate, RefInOutliers
-----------------------------------------------------------------------------
(* A segment ends: either memory was corrupted, or these are its results.  *)
Aborts(value) == /\ \E k \in Key : value[k] = Undefined
                 /\ pc' = "undefined"
                 /\ UNCHANGED <<args, seg, term, key, bitmaps, temps, sessions, misnamed>>

Completes(value, name) ==
  /\ \A k \in Key : value[k] # Undefined
  /\ bitmaps' = value /\ pc' = pc
  /\ DOMAIN sessions' = DOMAIN sessions \union {name}
  /\ sessions'[name] = value
  /\ \A s \in DOMAIN sessions : s # name => sessions'[s] = sessions[s]
  /\ misnamed' = misnamed \union ({name} \ {Prefix(asked, seg)})
  /\ args' = Cut /\ NextSegment

LEMMA Finished ==
  ASSUME TypeInv, Searching, NEW value, NEW name, Finish(value, name)
  PROVE  Aborts(value) \/ Completes(value, name)
BY DEF Finish, Remember, Aborts, Completes

LEMMA NextTypes ==
  ASSUME TypeInv, Searching, args' = Cut \/ args' = args, pc' = pc, NextSegment, UNCHANGED asked
  PROVE  Shape' /\ temps' = Nothing /\ \A k \in Key : temps'[k] = Absent
<1>1. /\ seg \in 1 .. Len(args) /\ term \in 1 .. Len(args[seg].terms)
      /\ args \in Seq(Segment) /\ asked \in Seq(Segment) /\ Len(args) \in Nat
      /\ \A j \in 1 .. Len(args) : Len(args[j].terms) > 0
  BY NowIs DEF TypeInv, Shape
<1>2. /\ args' \in Seq(Segment) /\ Len(args') = Len(args)
      /\ \A j \in 1 .. Len(args) : Len(args'[j].terms) = Len(args[j].terms)
  BY <1>1, CutIs
<1>3. \A j \in 1 .. Len(args) : args[j].terms \in Seq(Terms) /\ Len(args[j].terms) \in Nat
  <2>1. \A j \in 1 .. Len(args) : args[j] \in Segment
    BY <1>1
  <2>2. QED
    BY <2>1 DEF Segment
<1>4. seg' = seg + 1 /\ term' = 1 /\ temps' = Nothing
  BY DEF NextSegment
<1>5. Shape'
  <2>1. pc' = "run" /\ asked' \in Seq(Segment)
    BY <1>1 DEF Searching
  <2>2. seg' \in 0 .. Len(args') + 1 /\ seg' >= 1
    BY <1>1, <1>2, <1>4
  <2>3. \A j \in 1 .. Len(args') : Len(args'[j].terms) \in Nat /\ Len(args'[j].terms) > 0
    BY <1>1, <1>2, <1>3
  <2>4. seg' <= Len(args') => term' \in 1 .. Len(args'[seg'].terms)
    <3>1. HAVE seg' <= Len(args')
    <3>2. seg' \in 1 .. Len(args')
      BY <2>2, <3>1, <1>1, <1>2, <1>4
    <3>3. Len(args'[seg'].terms) \in Nat /\ Len(args'[seg'].terms) > 0
      BY <2>3, <3>2
    <3>4. QED
      BY <1>4, <3>3
  <2>5. QED
    BY <1>2, <2>1, <2>2, <2>3, <2>4 DEF Shape
<1>6. QED
  BY <1>4, <1>5 DEF Nothing

LEMMA FinishTypes ==
  ASSUME TypeInv, Searching, NEW value, NEW name, Finish(value, name), UNCHANGED <<asked, answer>>,
         \A k \in Key : value[k] = Undefined \/ Result(value[k], k)
  PROVE  TypeInv'
<1>1. CASE Aborts(value)
  BY <1>1 DEF TypeInv, Shape, Keeps, Aborts
<1>2. CASE Completes(value, name)
  <2>0. /\ \A k \in Key : value[k] # Undefined
        /\ bitmaps' = value /\ pc' = pc
        /\ DOMAIN sessions' = DOMAIN sessions \union {name}
        /\ sessions'[name] = value
        /\ \A s \in DOMAIN sessions : s # name => sessions'[s] = sessions[s]
        /\ args' = Cut /\ NextSegment
    BY <1>2 DEF Completes
  <2>1. Shape' /\ \A k \in Key : temps'[k] = Absent
    BY <2>0, NextTypes
  <2>2. \A k \in Key : Kept(value[k], k) /\ value[k] # Absent
    BY <2>0 DEF Result
  <2>3. \A k \in Key : Kept(Absent, k)
    BY DEF Kept
  <2>4. \A s \in DOMAIN sessions', k \in Key : Kept(sessions'[s][k], k) /\ sessions'[s][k] # Absent
    BY <2>0, <2>2 DEF TypeInv, Keeps
  <2>5. \A k \in Key : Kept(bitmaps'[k], k) /\ Kept(temps'[k], k) /\ answer'[k] \subseteq Row[k]
    BY <2>0, <2>1, <2>2, <2>3 DEF TypeInv, Keeps
  <2>6. QED
    BY <2>1, <2>4, <2>5 DEF TypeInv, Keeps, Kept, MapOK, IsMap, Empty
<1>3. QED
  BY <1>1, <1>2, Finished

LEMMA TypeInit == Init => TypeInv
<1>1. SUFFICES ASSUME Init PROVE TypeInv
  OBVIOUS
<1>2. Shape
  BY <1>1 DEF Init, Shape
<1>3. \A k \in Key : Kept(Absent, k)
  BY DEF Kept
<1>4. Keeps
  BY <1>1, <1>3 DEF Init, Keeps, Nothing
<1>5. QED
  BY <1>2, <1>4 DEF TypeInv

LEMMA SubmitTypes ==
  ASSUME TypeInv, NEW q \in Queries, Submit(q)
  PROVE  TypeInv'
<1>1. /\ q \in Seq(Segment) /\ Len(q) \in Nat /\ Len(q) > 0
      /\ \A j \in 1 .. Len(q) : Len(q[j].terms) > 0
  BY QueryAssumption
<1>2. Len(q[1].terms) \in Nat
  <2>1. q[1] \in Segment
    BY <1>1
  <2>2. QED
    BY <2>1 DEF Segment
<1>3. pc' = "run" /\ args' = q /\ asked' = q /\ seg' = 1 /\ term' = 1
  BY DEF Submit
<1>4. Shape'
  BY <1>1, <1>2, <1>3 DEF Shape
<1>5. Keeps'
  BY DEF Submit, TypeInv, Keeps
<1>6. QED
  BY <1>4, <1>5 DEF TypeInv

LEMMA HitTypes ==
  ASSUME TypeInv, Hit
  PROVE  TypeInv'
<1>1. /\ Searching /\ key \in DOMAIN sessions /\ bitmaps' = sessions[key]
      /\ args' = args /\ NextSegment /\ UNCHANGED <<pc, sessions, asked, answer>>
  BY DEF Hit, Cached
<1>2. Shape' /\ \A k \in Key : temps'[k] = Absent
  BY <1>1, NextTypes
<1>3. \A k \in Key : Kept(Absent, k)
  BY DEF Kept
<1>4. Keeps'
  BY <1>1, <1>2, <1>3 DEF TypeInv, Keeps
<1>5. QED
  BY <1>2, <1>4 DEF TypeInv

LEMMA TokenFinish ==
  ASSUME TokenSearch
  PROVE  /\ Searching /\ ~Cached /\ SoleTerm /\ UNCHANGED <<asked, answer>>
         /\ Finish([k \in Key |-> TokenMap(k)], Prefix(Cut, 1))
BY DEF TokenSearch, TokenMap

LEMMA LastFinish ==
  ASSUME LastTerm
  PROVE  /\ Searching /\ ~Cached /\ ~SoleTerm /\ ~args[seg].neg /\ term = Len(args[seg].terms)
         /\ UNCHANGED <<asked, answer>>
         /\ Finish([k \in Key |-> LastMap(k)], key)
BY DEF LastTerm, LastMap

LEMMA NotFinish ==
  ASSUME NotTerm
  PROVE  /\ Searching /\ ~Cached /\ args[seg].neg /\ UNCHANGED <<asked, answer>>
         /\ Finish([k \in Key |-> NotMap(k)], key)
BY DEF NotTerm, NotMap

(* A term of an or-list but the last                                       *)
LEMMA OrStep ==
  ASSUME OrTerm
  PROVE  /\ Searching /\ ~Cached /\ ~args[seg].neg /\ term < Len(args[seg].terms)
         /\ UNCHANGED <<seg, key, bitmaps, sessions, asked, answer, misnamed>>
         /\ \E o \in RefOutliers(Now) :
              LET value(k) == IF k = OUTL THEN o ELSE RefPat(Now, k) IN
              \/ /\ \E k \in Key : value(k) = Undefined
                 /\ pc' = "undefined" /\ UNCHANGED <<args, term, temps>>
              \/ /\ \A k \in Key : value(k) # Undefined
                 /\ temps' = [k \in Key |-> value(k)] /\ term' = term + 1
                 /\ args' = Cut /\ pc' = pc
BY DEF OrTerm

LEMMA OrTypes ==
  ASSUME TypeInv, OrTerm
  PROVE  TypeInv'
<1>1. /\ Searching /\ term < Len(args[seg].terms)
      /\ UNCHANGED <<seg, key, bitmaps, sessions, asked, answer, misnamed>>
  BY OrStep
<1>2. /\ seg \in 1 .. Len(args) /\ term \in 1 .. Len(args[seg].terms)
      /\ args[seg].terms \in Seq(Terms)
      /\ args \in Seq(Segment) /\ asked \in Seq(Segment)
      /\ \A j \in 1 .. Len(args) : Len(args[j].terms) > 0
  BY <1>1, NowIs DEF TypeInv, Shape
<1>3. PICK o \in RefOutliers(Now) :
        LET value(k) == IF k = OUTL THEN o ELSE RefPat(Now, k) IN
        \/ pc' = "undefined" /\ UNCHANGED <<args, term, temps>>
        \/ /\ \A k \in Key : value(k) # Undefined
           /\ temps' = [k \in Key |-> value(k)] /\ term' = term + 1
           /\ args' = Cut /\ pc' = pc
  BY OrStep
<1> DEFINE value(k) == IF k = OUTL THEN o ELSE RefPat(Now, k)
<1>4. CASE pc' = "undefined" /\ UNCHANGED <<args, term, temps>>
  BY <1>1, <1>4 DEF TypeInv, Shape, Keeps
<1>5. CASE /\ \A k \in Key : value(k) # Undefined
           /\ temps' = [k \in Key |-> value(k)] /\ term' = term + 1
           /\ args' = Cut /\ pc' = pc
  <2>1. \A k \in Key : Kept(temps'[k], k)
    BY <1>1, <1>5, OrResult
  <2>2. /\ args' \in Seq(Segment) /\ Len(args') = Len(args)
        /\ \A j \in 1 .. Len(args) : Len(args'[j].terms) = Len(args[j].terms)
    BY <1>2, <1>5, CutIs
  <2>3. term' \in 1 .. Len(args[seg].terms)
    BY <1>1, <1>2, <1>5
  <2>4. Shape'
    BY <1>1, <1>2, <1>5, <2>2, <2>3 DEF TypeInv, Shape
  <2>5. Keeps'
    BY <1>1, <2>1 DEF TypeInv, Keeps
  <2>6. QED
    BY <2>4, <2>5 DEF TypeInv
<1>6. QED
  BY <1>3, <1>4, <1>5

LEMMA AnswerTypes ==
  ASSUME TypeInv, Answer
  PROVE  TypeInv'
<1>1. /\ pc' = "idle" /\ bitmaps' = Nothing /\ answer' = [k \in Key |-> Shown(bitmaps[k], k)]
      /\ UNCHANGED <<args, seg, term, temps, sessions, asked>>
  BY DEF Answer
<1>2. \A k \in Key : Shown(bitmaps[k], k) \subseteq Row[k]
  BY KeptMap DEF TypeInv, Keeps, Shown
<1>3. \A k \in Key : Kept(Absent, k)
  BY DEF Kept
<1>4. Shape'
  BY <1>1 DEF TypeInv, Shape
<1>5. Keeps'
  BY <1>1, <1>2, <1>3 DEF TypeInv, Keeps, Nothing
<1>6. QED
  BY <1>4, <1>5 DEF TypeInv

LEMMA TypeStep == TypeInv /\ [Next]_vars => TypeInv'
<1>1. SUFFICES ASSUME TypeInv, [Next]_vars PROVE TypeInv'
  OBVIOUS
<1>2. CASE Hit
  BY <1>1, <1>2, HitTypes
<1>3. CASE TokenSearch
  BY <1>1, <1>3, TokenFinish, TokenResult, FinishTypes DEF Overrun
<1>4. CASE OrTerm
  BY <1>1, <1>4, OrTypes
<1>5. CASE LastTerm
  BY <1>1, <1>5, LastFinish, LastResult, FinishTypes
<1>6. CASE NotTerm
  BY <1>1, <1>6, NotFinish, NotResult, FinishTypes DEF Overrun
<1>7. CASE Answer
  BY <1>1, <1>7, AnswerTypes
<1>8. CASE \E q \in Queries : Submit(q)
  BY <1>1, <1>8, SubmitTypes
<1>9. CASE UNCHANGED vars
  BY <1>1, <1>9 DEF vars, TypeInv, Shape, Keeps
<1>10. QED
  BY <1>1, <1>2, <1>3, <1>4, <1>5, <1>6, <1>7, <1>8, <1>9 DEF Next, Work

LEMMA TypeAlways == Spec => []TypeInv
BY TypeInit, TypeStep, PTL DEF Spec

(* The maps of a search select rows of their own template, and a template  *)
(* never keeps an empty map, for any store and any queries.                *)
THEOREM TypeCorrect == Spec => []TypeOK
<1>1. TypeInv => TypeOK
  BY DEF TypeInv, Shape, Keeps, Kept, TypeOK, MapOK
<1>2. QED
  BY <1>1, TypeAlways, PTL
-----------------------------------------------------------------------------
LEMMA CutPlain ==
  ASSUME TypeInv, Names, Searching
  PROVE  /\ \A j \in 1 .. Len(args) : j > seg \/ Plain(asked[j]) => Cut[j] = asked[j]
         /\ \A j \in 1 .. Len(args) : j # seg => Cut[j] = args[j]
         /\ Plain(asked[seg]) => Now \notin Wild /\ args[seg] = asked[seg]
         /\ Cut \in Seq(Segment) /\ Len(Cut) = Len(args) /\ Len(args) = Len(asked)
<1>1. /\ seg \in 1 .. Len(args) /\ term \in 1 .. Len(args[seg].terms)
      /\ args \in Seq(Segment) /\ Len(args) = Len(asked)
      /\ \A j \in 1 .. Len(args) : j > seg \/ Plain(asked[j]) => args[j] = asked[j]
  BY NowIs DEF TypeInv, Shape, Names, Searching
<1>2. /\ Cut \in Seq(Segment) /\ Len(Cut) = Len(args)
      /\ \A j \in 1 .. Len(args) : j # seg => Cut[j] = args[j]
      /\ Now \notin Wild => Cut = args
  BY <1>1, CutIs DEF Now
<1>3. Plain(asked[seg]) => Now \notin Wild /\ args[seg] = asked[seg]
  BY <1>1 DEF Plain, Now
<1>4. QED
  BY <1>1, <1>2, <1>3

LEMMA NextNames ==
  ASSUME TypeInv, Names, Searching, args' = Cut \/ args' = args, pc' = pc, NextSegment, UNCHANGED asked,
         DOMAIN sessions' \subseteq Seq(Segment)
  PROVE  Names'
<1>1. /\ seg \in 1 .. Len(args) /\ Len(args) \in Nat /\ args \in Seq(Segment)
      /\ Len(asked) > 0 /\ Len(args) = Len(asked) /\ pc = "run" /\ asked \in Queries
      /\ \A j \in 1 .. Len(args) : j > seg \/ Plain(asked[j]) => args[j] = asked[j]
  BY NowIs DEF TypeInv, Shape, Names, Searching
<1>2. /\ args' \in Seq(Segment) /\ Len(args') = Len(args)
      /\ \A j \in 1 .. Len(args) : j > seg \/ Plain(asked[j]) => args'[j] = asked[j]
  BY <1>1, CutPlain
<1>3. seg' = seg + 1 /\ term' = 1 /\ (seg < Len(args) => key' = Prefix(args', seg + 1))
  BY DEF NextSegment
<1>4. seg < Len(args) => /\ key' \in Seq(Segment) /\ Len(key') = seg + 1
                         /\ \A j \in 1 .. seg + 1 : key'[j] = args'[j]
  <2>1. HAVE seg < Len(args)
  <2>2. seg + 1 \in 0 .. Len(args')
    BY <1>1, <1>2, <2>1
  <2> DEFINE w == Prefix(args', seg + 1)
  <2>3. w \in Seq(Segment) /\ Len(w) = seg + 1 /\ \A j \in 1 .. seg + 1 : w[j] = args'[j]
    BY <1>2, <2>2, Prefixes
  <2>4. key' = w
    BY <1>3, <2>1
  <2> HIDE DEF w
  <2>5. QED
    BY <2>3, <2>4
<1>5. \A j \in 1 .. Len(args') : j > seg' \/ Plain(asked'[j]) => args'[j] = asked'[j]
  BY <1>1, <1>2, <1>3
<1>6. seg' <= Len(args') => /\ args'[seg'] = asked'[seg']
                            /\ key' \in Seq(Segment) /\ Len(key') = seg' /\ key'[seg'] = asked'[seg']
                            /\ \A j \in 1 .. seg' - 1 : key'[j] = args'[j]
  BY <1>1, <1>2, <1>3, <1>4
<1>7. QED
  BY <1>1, <1>2, <1>3, <1>5, <1>6 DEF Names, Plain

(* The name a segment's results are cached under                           *)
Named(name) == /\ name \in Seq(Segment) /\ Len(name) = seg
               /\ name \notin DOMAIN sessions \/ name # Prefix(asked, seg)
               /\ name = Prefix(asked, seg) => \A j \in 1 .. seg - 1 : args[j] = asked[j]
               /\ (\A j \in 1 .. seg : Cut[j] = asked[j]) => name = Prefix(asked, seg)

LEMMA KeyNamed ==
  ASSUME TypeInv, Names, Searching, ~Cached
  PROVE  Named(key)
<1>1. /\ seg \in 1 .. Len(args) /\ Len(args) = Len(asked) /\ asked \in Seq(Segment) /\ Len(asked) \in Nat
      /\ key \in Seq(Segment) /\ Len(key) = seg /\ key[seg] = asked[seg]
      /\ \A j \in 1 .. seg - 1 : key[j] = args[j]
      /\ term > 1 => key \notin DOMAIN sessions
      /\ term \in 1 .. Len(args[seg].terms)
  BY NowIs DEF TypeInv, Shape, Names, Searching
<1>2. key \notin DOMAIN sessions
  BY <1>1 DEF Cached
<1>3. \A j \in 1 .. seg : Prefix(asked, seg)[j] = asked[j]
  BY <1>1, Prefixes
<1>4. key = Prefix(asked, seg) => \A j \in 1 .. seg - 1 : args[j] = asked[j]
  BY <1>1, <1>3
<1>5. ASSUME \A j \in 1 .. seg : Cut[j] = asked[j]
      PROVE  key = Prefix(asked, seg)
  <2>1. \A j \in 1 .. seg : key[j] = asked[j]
    BY <1>1, <1>5, CutPlain
  <2>2. QED
    BY <1>1, <2>1, SamePrefix
<1>6. QED
  BY <1>1, <1>2, <1>4, <1>5 DEF Named

LEMMA TokenNamed ==
  ASSUME TypeInv, Names, Searching, ~Cached, SoleTerm
  PROVE  Named(Prefix(Cut, 1))
<1>1. /\ seg = 1 /\ term = 1 /\ Len(args) = 1 /\ Len(asked) = 1 /\ asked \in Seq(Segment)
      /\ args \in Seq(Segment) /\ args[1] = asked[1] /\ Now = args[1].terms[1]
      /\ Cut \in Seq(Segment) /\ Len(Cut) = 1
  BY NowIs, CutPlain DEF TypeInv, Shape, Names, Searching, SoleTerm, Now
<1>2. /\ Prefix(Cut, 1) \in Seq(Segment) /\ Len(Prefix(Cut, 1)) = 1 /\ Prefix(Cut, 1)[1] = Cut[1]
      /\ Prefix(asked, 1) \in Seq(Segment) /\ Len(Prefix(asked, 1)) = 1 /\ Prefix(asked, 1)[1] = asked[1]
  BY <1>1, Prefixes
<1>3. Cut[1] = asked[1] => Prefix(Cut, 1) = Prefix(asked, 1)
  BY <1>1, <1>2, SamePrefix
<1>4. ASSUME Prefix(Cut, 1) = Prefix(asked, 1)
      PROVE  Prefix(Cut, 1) \notin DOMAIN sessions
  <2>1. Cut[1] = args[1]
    BY <1>1, <1>2, <1>4
  <2>2. Now \notin Wild
    BY <1>1, <2>1, NowIs, CutIs DEF TypeInv, Shape
  <2>3. Named(key)
    BY KeyNamed
  <2>4. key = Prefix(asked, 1)
    BY <1>1, <2>1, <2>3 DEF Named
  <2>5. QED
    BY <1>1, <1>4, <2>3, <2>4 DEF Named
<1>5. QED
  BY <1>1, <1>2, <1>3, <1>4 DEF Named

LEMMA FinishNames ==
  ASSUME TypeInv, Names, Searching, NEW value, NEW name, Finish(value, name), Named(name), UNCHANGED asked
  PROVE  Names'
<1>1. CASE Aborts(value)
  BY <1>1 DEF Names, Aborts
<1>2. CASE Completes(value, name)
  BY <1>2, NextNames DEF Names, Named, Completes
<1>3. QED
  BY <1>1, <1>2, Finished

LEMMA NamesInit == Init => Names
BY DEF Init, Names

LEMMA SubmitNames ==
  ASSUME TypeInv, Names, NEW q \in Queries, Submit(q)
  PROVE  Names'
<1>1. q \in Seq(Segment) /\ Len(q) \in Nat /\ Len(q) > 0
  BY QueryAssumption
<1>2. /\ pc' = "run" /\ args' = q /\ asked' = q /\ seg' = 1 /\ term' = 1
      /\ key' = Prefix(q, 1) /\ sessions' = sessions
  BY DEF Submit
<1>3. key' \in Seq(Segment) /\ Len(key') = 1 /\ key'[1] = q[1]
  <2>1. 1 \in 0 .. Len(q)
    BY <1>1
  <2>2. /\ Prefix(q, 1) \in Seq(Segment) /\ Len(Prefix(q, 1)) = 1
        /\ \A j \in 1 .. 1 : Prefix(q, 1)[j] = q[j]
    BY ONLY <1>1, <2>1, Prefixes
  <2>3. QED
    BY <1>2, <2>2
<1>4. QED
  BY <1>1, <1>2, <1>3 DEF Names

LEMMA OrNames ==
  ASSUME TypeInv, Names, OrTerm
  PROVE  Names'
<1>1. /\ Searching /\ ~Cached /\ term < Len(args[seg].terms)
      /\ UNCHANGED <<seg, key, sessions, asked>>
      /\ \/ pc' = "undefined"
         \/ term' = term + 1 /\ args' = Cut /\ pc' = pc
  BY OrStep
<1>2. CASE pc' = "undefined"
  BY <1>1, <1>2 DEF Names
<1>3. CASE term' = term + 1 /\ args' = Cut /\ pc' = pc
  <2>1. /\ seg \in 1 .. Len(args) /\ Len(args) \in Nat /\ term \in Nat /\ term > 0 /\ pc = "run"
        /\ Len(asked) > 0 /\ Len(args) = Len(asked) /\ asked \in Queries
        /\ key \in Seq(Segment) /\ Len(key) = seg /\ key[seg] = asked[seg]
        /\ \A j \in 1 .. seg - 1 : key[j] = args[j]
        /\ term > 1 => key \notin DOMAIN sessions
        /\ DOMAIN sessions \subseteq Seq(Segment)
    BY <1>1, NowIs DEF TypeInv, Shape, Names, Searching
  <2>2. /\ \A j \in 1 .. Len(args) : j > seg \/ Plain(asked[j]) => args'[j] = asked[j]
        /\ \A j \in 1 .. Len(args) : j # seg => args'[j] = args[j]
        /\ Len(args') = Len(args)
    BY <1>1, <1>3, CutPlain
  <2>3. key \notin DOMAIN sessions
    BY <1>1, <2>1 DEF Cached
  <2>4. QED
    BY <1>1, <1>3, <2>1, <2>2, <2>3 DEF Names, Plain
<1>4. QED
  BY <1>1, <1>2, <1>3

LEMMA NamesStep == TypeInv /\ Names /\ [Next]_vars => Names'
<1>1. SUFFICES ASSUME TypeInv, Names, [Next]_vars PROVE Names'
  OBVIOUS
<1>2. CASE Hit
  BY <1>1, <1>2, NextNames DEF Hit, Names
<1>3. CASE TokenSearch
  BY <1>1, <1>3, TokenFinish, TokenNamed, FinishNames
<1>4. CASE OrTerm
  BY <1>1, <1>4, OrNames
<1>5. CASE LastTerm
  BY <1>1, <1>5, LastFinish, KeyNamed, FinishNames
<1>6. CASE NotTerm
  BY <1>1, <1>6, NotFinish, KeyNamed, FinishNames
<1>7. CASE Answer
  BY <1>1, <1>7 DEF Answer, Names
<1>8. CASE \E q \in Queries : Submit(q)
  BY <1>1, <1>8, SubmitNames
<1>9. CASE UNCHANGED vars
  BY <1>1, <1>9 DEF vars, Names, Plain
<1>10. QED
  BY <1>1, <1>2, <1>3, <1>4, <1>5, <1>6, <1>7, <1>8, <1>9 DEF Next, Work
-----------------------------------------------------------------------------
LEMMA NormSame == bitmaps' = bitmaps => \A t, k : Norm(t, k)' = Norm(t, k)
BY DEF Norm

LEMMA NothingSelected == \A k \in Key : Nothing[k] = Absent /\ Selected(Absent, k) = {}
BY Maps DEF Nothing, Selected

LEMMA FinishFlow ==
  ASSUME TypeInv, Searching, NEW value, NEW name, Finish(value, name), UNCHANGED asked,
         \A k \in Key : value[k] = Undefined \/ Result(value[k], k)
  PROVE  Flow'
<1>1. CASE Aborts(value)
  BY <1>1 DEF Flow, Aborts
<1>2. CASE Completes(value, name)
  <2>0. /\ \A k \in Key : value[k] # Undefined
        /\ bitmaps' = value /\ pc' = pc /\ args' = Cut /\ NextSegment
    BY <1>2 DEF Completes
  <2>1. temps' = Nothing /\ seg' = seg + 1 /\ term' = 1
    BY <2>0 DEF NextSegment
  <2>2. \A k \in Key : bitmaps'[k] # Absent
    BY <2>0 DEF Result
  <2>3. seg \in Nat /\ seg > 0 /\ pc = "run"
    BY NowIs DEF Searching
  <2>4. \A k \in Key : Selected(temps'[k], k) = {}
    BY <2>1, NothingSelected
  <2>5. QED
    BY <2>0, <2>1, <2>2, <2>3, <2>4 DEF Flow
<1>3. QED
  BY <1>1, <1>2, Finished

LEMMA HitFlow ==
  ASSUME TypeInv, Hit
  PROVE  Flow'
<1>1. /\ Searching /\ key \in DOMAIN sessions /\ bitmaps' = sessions[key] /\ pc' = pc
      /\ temps' = Nothing /\ seg' = seg + 1 /\ term' = 1
  BY DEF Hit, Cached, NextSegment
<1>2. \A k \in Key : bitmaps'[k] # Absent
  BY <1>1 DEF TypeInv, Keeps
<1>3. seg \in Nat /\ seg > 0 /\ pc = "run"
  BY <1>1, NowIs DEF Searching
<1>4. \A k \in Key : Selected(temps'[k], k) = {}
  BY <1>1, NothingSelected
<1>5. QED
  BY <1>1, <1>2, <1>3, <1>4 DEF Flow

LEMMA OrFlow ==
  ASSUME TypeInv, Names, Flow, OrTerm
  PROVE  Flow'
<1>1. /\ Searching /\ UNCHANGED <<seg, bitmaps, asked>>
  BY OrStep
<1>2. PICK o \in RefOutliers(Now) :
        LET value(k) == IF k = OUTL THEN o ELSE RefPat(Now, k) IN
        \/ pc' = "undefined"
        \/ /\ \A k \in Key : value(k) # Undefined
           /\ temps' = [k \in Key |-> value(k)] /\ term' = term + 1
           /\ args' = Cut /\ pc' = pc
  BY OrStep
<1> DEFINE value(k) == IF k = OUTL THEN o ELSE RefPat(Now, k)
<1>3. CASE pc' = "undefined"
  BY <1>3 DEF Flow
<1>4. CASE /\ \A k \in Key : value(k) # Undefined
           /\ temps' = [k \in Key |-> value(k)] /\ term' = term + 1
           /\ args' = Cut /\ pc' = pc
  <2>1. /\ term \in Nat /\ term > 0 /\ seg \in 1 .. Len(args) /\ Len(args) \in Nat /\ pc = "run"
        /\ term \in 1 .. Len(args[seg].terms)
    BY <1>1, NowIs DEF Searching
  <2>2. \A k \in Key : temps'[k] # Undefined /\ temps'[k] = value(k)
    BY <1>4
  <2>3. ASSUME seg > 1, NEW k \in Key
        PROVE  bitmaps[k] # Absent /\ Selected(temps'[k], k) \subseteq Selected(bitmaps[k], k)
    <3>1. bitmaps[k] # Absent /\ Selected(temps[k], k) \subseteq Selected(bitmaps[k], k)
      BY <2>1, <2>3 DEF Flow
    <3>2. QED
      BY <1>1, <2>2, <3>1, OrResult
  <2>4. ASSUME term' = 2, Plain(asked[seg]), NEW k \in Key
        PROVE  temps'[k] = IF Dead(bitmaps[k], k) THEN Absent ELSE Norm(asked[seg].terms[1], k)
    <3>1. term = 1
      BY <1>4, <2>1, <2>4
    <3>2. temps[k] = Absent
      BY <2>1, <3>1, NothingSelected DEF Flow
    <3>3. Now \notin Wild /\ Now = asked[seg].terms[1]
      BY <1>1, <2>4, <3>1, CutPlain DEF Now
    <3>4. temps'[k] = IF Dead(bitmaps[k], k) THEN Absent ELSE Norm(Now, k)
      BY <1>1, <2>2, <3>2, <3>3, OrResult
    <3>5. QED
      BY <3>3, <3>4
  <2>5. \A k \in Key, t \in {asked[seg].terms[1]} : Norm(t, k)' = Norm(t, k)
    BY <1>1, NormSame
  <2>6. term' # 1 /\ pc' = "run" /\ (seg = 1 => bitmaps' = Nothing)
    BY <1>1, <1>4, <2>1 DEF Flow
  <2>7. term' = 2 /\ Plain(asked[seg]) =>
          \A k \in Key, t \in {asked[seg].terms[1]} :
            temps'[k] = IF Dead(bitmaps[k], k) THEN Absent ELSE Norm(t, k)'
    BY <2>4, <2>5
  <2>8. QED
    BY <1>1, <2>3, <2>6, <2>7 DEF Flow, Plain, Dead, Empty, IsMap
<1>5. QED
  BY <1>2, <1>3, <1>4

LEMMA FlowInit == Init => Flow
BY DEF Init, Flow

LEMMA FlowStep == TypeInv /\ Names /\ Flow /\ [Next]_vars => Flow'
<1>1. SUFFICES ASSUME TypeInv, Names, Flow, [Next]_vars PROVE Flow'
  OBVIOUS
<1>2. CASE Hit
  BY <1>1, <1>2, HitFlow
<1>3. CASE TokenSearch
  BY <1>1, <1>3, TokenFinish, TokenResult, FinishFlow DEF Overrun
<1>4. CASE OrTerm
  BY <1>1, <1>4, OrFlow
<1>5. CASE LastTerm
  BY <1>1, <1>5, LastFinish, LastResult, FinishFlow
<1>6. CASE NotTerm
  BY <1>1, <1>6, NotFinish, NotResult, FinishFlow DEF Overrun
<1>7. CASE Answer
  BY <1>1, <1>7 DEF Answer, Flow, Names, TypeInv, Shape
<1>8. CASE \E q \in Queries : Submit(q)
  BY <1>1, <1>8 DEF Submit, Flow
<1>9. CASE UNCHANGED vars
  <2>1. \A t, k : Norm(t, k)' = Norm(t, k)
    BY <1>9, NormSame DEF vars
  <2>2. QED
    BY <1>1, <1>9, <2>1 DEF vars, Flow, Plain, Dead, Empty, IsMap
<1>10. QED
  BY <1>1, <1>2, <1>3, <1>4, <1>5, <1>6, <1>7, <1>8, <1>9 DEF Next, Work
-----------------------------------------------------------------------------
LEMMA NarrowingInit == Init => NarrowInv
BY DEF Init, NarrowInv, Narrowing, Chain

LEMMA TrustedBefore ==
  ASSUME NEW s \in Seq(Segment), Len(s) > 0
  PROVE  /\ Trusted(s) => s \notin misnamed /\ (Len(s) > 1 => Prefix(s, Len(s) - 1) \notin misnamed)
         /\ \A n \in 1 .. Len(s) : Trusted(s) => Trusted(Prefix(s, n))
<1>1. Len(s) \in Nat /\ Prefix(s, Len(s)) = s
  BY Prefixes
<1>2. ASSUME NEW n \in 1 .. Len(s), Trusted(s)
      PROVE  Trusted(Prefix(s, n))
  <2>1. n \in 0 .. Len(s)
    BY <1>1
  <2>2. Len(Prefix(s, n)) = n /\ \A m \in 0 .. n : Prefix(Prefix(s, n), m) = Prefix(s, m)
    BY <2>1, Prefixes
  <2>3. \A m \in 1 .. n : Prefix(Prefix(s, n), m) = Prefix(s, m) /\ m \in 1 .. Len(s)
    BY <1>1, <2>2
  <2>4. QED
    BY <1>2, <2>2, <2>3 DEF Trusted
<1>3. QED
  BY <1>1, <1>2 DEF Trusted

LEMMA TrustedLess ==
  ASSUME misnamed \subseteq misnamed'
  PROVE  \A s : Trusted(s)' => Trusted(s)
BY DEF Trusted

LEMMA FinishNarrow ==
  ASSUME TypeInv, Names, Flow, NarrowInv, Searching,
         NEW value, NEW name, Finish(value, name), Named(name), UNCHANGED asked,
         \A k \in Key : value[k] # Undefined /\ seg > 1
                          => Selected(value[k], k) \subseteq Selected(bitmaps[k], k)
  PROVE  NarrowInv'
<1>1. CASE Aborts(value)
  BY <1>1 DEF NarrowInv, Narrowing, Chain, Trusted, Aborts
<1>2. CASE Completes(value, name)
  <2>0. /\ \A k \in Key : value[k] # Undefined
        /\ bitmaps' = value /\ pc' = pc
        /\ DOMAIN sessions' = DOMAIN sessions \union {name}
        /\ sessions'[name] = value
        /\ \A s \in DOMAIN sessions : s # name => sessions'[s] = sessions[s]
        /\ misnamed' = misnamed \union ({name} \ {Prefix(asked, seg)})
        /\ args' = Cut /\ NextSegment
    BY <1>2 DEF Completes
  <2> DEFINE d == Prefix(asked, seg - 1)
  <2>1. /\ seg \in 1 .. Len(asked) /\ asked \in Seq(Segment) /\ Len(asked) \in Nat
        /\ Len(args) = Len(asked) /\ seg' = seg + 1 /\ pc = "run"
        /\ DOMAIN sessions \subseteq Seq(Segment)
    BY <2>0, NowIs DEF TypeInv, Shape, Names, Searching, NextSegment
  <2>2. /\ name \in Seq(Segment) /\ (name \notin DOMAIN sessions \/ name \in misnamed')
        /\ name # Prefix(asked, seg) => name \in misnamed'
    BY <2>0 DEF Named
  <2>3. ASSUME NEW s \in DOMAIN sessions, s # name, Len(s) > 1, ~s[1].neg, Trusted(s)'
        PROVE  LET before == Prefix(s, Len(s) - 1) IN
               /\ before \in DOMAIN sessions'
               /\ \A k \in Key : Selected(sessions'[s][k], k) \subseteq Selected(sessions'[before][k], k)
    <3> DEFINE before == Prefix(s, Len(s) - 1)
    <3>1. s \in Seq(Segment) /\ Len(s) > 0
      BY <2>1, <2>3
    <3>2. Trusted(s)
      BY <2>0, <2>3, TrustedLess
    <3>3. /\ before \in DOMAIN sessions
          /\ \A k \in Key : Selected(sessions[s][k], k) \subseteq Selected(sessions[before][k], k)
      BY <2>3, <3>2 DEF NarrowInv, Narrowing
    <3>4. before \in misnamed' => FALSE
      <4>1. Len(s) - 1 \in 1 .. Len(s)
        BY <2>3, <3>1
      <4>2. QED
        BY <2>3, <4>1 DEF Trusted
    <3>5. before # name
      BY <2>2, <3>3, <3>4
    <3>6. sessions'[s] = sessions[s] /\ sessions'[before] = sessions[before] /\ before \in DOMAIN sessions'
      BY <2>0, <2>3, <3>3, <3>5
    <3>7. QED
      BY <3>3, <3>6
  <2>4. ASSUME Len(name) > 1, Trusted(name)'
        PROVE  LET before == Prefix(name, Len(name) - 1) IN
               /\ before \in DOMAIN sessions'
               /\ \A k \in Key : Selected(sessions'[name][k], k) \subseteq Selected(sessions'[before][k], k)
    <3> DEFINE before == Prefix(name, Len(name) - 1)
    <3>1. name \notin misnamed'
      <4>1. Len(name) \in 1 .. Len(name) /\ Prefix(name, Len(name)) = name
        BY <2>2, <2>4, Prefixes DEF Named
      <4>2. QED
        BY <2>4, <4>1 DEF Trusted
    <3>2. name = Prefix(asked, seg) /\ name \notin DOMAIN sessions
      BY <2>2, <3>1
    <3>3. Len(name) = seg /\ before = d
      <4>1. seg \in 0 .. Len(asked) /\ seg - 1 \in 0 .. seg
        BY <2>1
      <4>2. QED
        BY <2>1, <3>2, <4>1, Prefixes
    <3>4. \A j \in 1 .. seg - 1 : args[j] = asked[j]
      BY <3>2 DEF Named
    <3>5. d \in DOMAIN sessions /\ bitmaps = sessions[d]
      BY <2>1, <2>4, <3>3, <3>4 DEF NarrowInv, Chain
    <3>6. sessions'[before] = bitmaps /\ before \in DOMAIN sessions'
      BY <2>0, <3>2, <3>3, <3>5
    <3>7. QED
      BY <2>0, <2>4, <3>3, <3>6
  <2>5. Narrowing'
    BY <2>0, <2>3, <2>4 DEF Narrowing
  <2>6. Chain'
    <3>1. SUFFICES ASSUME \A j \in 1 .. seg : Cut[j] = asked[j]
                   PROVE  Prefix(asked, seg) \in DOMAIN sessions' /\ bitmaps' = sessions'[Prefix(asked, seg)]
      <4>1. seg' - 1 = seg /\ args' = Cut /\ asked' = asked
        BY <2>0, <2>1
      <4>2. QED
        BY <4>1 DEF Chain
    <3>2. name = Prefix(asked, seg)
      BY <3>1 DEF Named
    <3>3. QED
      BY <2>0, <3>2
  <2>7. QED
    BY <2>5, <2>6 DEF NarrowInv
<1>3. QED
  BY <1>1, <1>2, Finished

LEMMA HitNarrow ==
  ASSUME TypeInv, Names, NarrowInv, Hit
  PROVE  NarrowInv'
<1>1. /\ Searching /\ key \in DOMAIN sessions /\ bitmaps' = sessions[key] /\ args' = args
      /\ seg' = seg + 1 /\ term = 1 /\ UNCHANGED <<sessions, misnamed, asked>>
  BY DEF Hit, Cached, NextSegment
<1>2. /\ seg \in 1 .. Len(asked) /\ asked \in Seq(Segment) /\ Len(asked) \in Nat
      /\ key \in Seq(Segment) /\ Len(key) = seg
      /\ key[seg] = asked[seg] /\ \A j \in 1 .. seg - 1 : key[j] = args[j]
  BY <1>1, NowIs DEF TypeInv, Shape, Names, Searching
<1>3. Narrowing'
  BY <1>1 DEF NarrowInv, Narrowing, Trusted
<1>4. ASSUME \A j \in 1 .. seg : args[j] = asked[j]
      PROVE  key = Prefix(asked, seg)
  <2>1. \A j \in 1 .. seg : key[j] = asked[j]
    BY <1>2, <1>4
  <2>2. seg \in 0 .. Len(asked)
    BY <1>2
  <2>3. QED
    BY <1>2, <2>1, <2>2, SamePrefix
<1>5. Chain'
  <2>1. seg' - 1 = seg
    BY <1>1, <1>2
  <2>2. QED
    BY <1>1, <1>4, <2>1 DEF Chain
<1>6. QED
  BY <1>3, <1>5 DEF NarrowInv

LEMMA OrNarrow ==
  ASSUME TypeInv, Names, NarrowInv, OrTerm
  PROVE  NarrowInv'
<1>1. /\ Searching /\ UNCHANGED <<seg, bitmaps, sessions, asked, misnamed>>
      /\ \/ pc' = "undefined"
         \/ args' = Cut /\ pc' = pc
  BY OrStep
<1>2. Narrowing'
  BY <1>1 DEF NarrowInv, Narrowing, Trusted
<1>3. CASE pc' = "undefined"
  BY <1>2, <1>3 DEF NarrowInv, Chain
<1>4. CASE args' = Cut /\ pc' = pc
  <2>1. seg \in 1 .. Len(args) /\ Len(args) \in Nat
    BY <1>1, NowIs
  <2>2. \A j \in 1 .. seg - 1 : args'[j] = args[j]
    BY <1>1, <1>4, <2>1, CutPlain
  <2>3. Chain'
    BY <1>1, <1>4, <2>1, <2>2 DEF NarrowInv, Chain
  <2>4. QED
    BY <1>2, <2>3 DEF NarrowInv
<1>5. QED
  BY <1>1, <1>3, <1>4

LEMMA LastNarrows ==
  ASSUME TypeInv, Flow, Searching, NEW k \in Key, seg > 1
  PROVE  /\ LastMap(k) # Undefined => Selected(LastMap(k), k) \subseteq Selected(bitmaps[k], k)
         /\ Selected(NotMap(k), k) \subseteq Selected(bitmaps[k], k)
<1>1. bitmaps[k] # Absent /\ Selected(temps[k], k) \subseteq Selected(bitmaps[k], k)
  BY DEF Flow, Searching
<1>2. QED
  BY <1>1, LastResult, NotResult

LEMMA NarrowStep == TypeInv /\ Names /\ Flow /\ NarrowInv /\ [Next]_vars => NarrowInv'
<1>1. SUFFICES ASSUME TypeInv, Names, Flow, NarrowInv, [Next]_vars PROVE NarrowInv'
  OBVIOUS
<1>2. CASE Hit
  BY <1>1, <1>2, HitNarrow
<1>3. CASE TokenSearch
  <2>1. Searching /\ Len(args) = 1
    BY <1>3, TokenFinish DEF SoleTerm
  <2>2. seg \in 1 .. Len(args)
    BY <1>1, <2>1, NowIs
  <2>3. ~(seg > 1)
    BY <2>1, <2>2
  <2>4. QED
    BY <1>1, <1>3, <2>3, TokenFinish, TokenNamed, FinishNarrow
<1>4. CASE OrTerm
  BY <1>1, <1>4, OrNarrow
<1>5. CASE LastTerm
  BY <1>1, <1>5, LastFinish, KeyNamed, LastNarrows, FinishNarrow
<1>6. CASE NotTerm
  BY <1>1, <1>6, NotFinish, KeyNamed, LastNarrows, FinishNarrow
<1>7. CASE Answer
  BY <1>1, <1>7 DEF Answer, NarrowInv, Narrowing, Chain, Trusted
<1>8. CASE \E q \in Queries : Submit(q)
  <2>1. seg' = 1 /\ UNCHANGED <<sessions, misnamed>>
    BY <1>8 DEF Submit
  <2>2. Narrowing'
    BY <1>1, <2>1 DEF NarrowInv, Narrowing, Trusted
  <2>3. Chain'
    BY <2>1 DEF Chain
  <2>4. QED
    BY <2>2, <2>3 DEF NarrowInv
<1>9. CASE UNCHANGED vars
  BY <1>1, <1>9 DEF vars, NarrowInv, Narrowing, Chain, Trusted
<1>10. QED
  BY <1>1, <1>2, <1>3, <1>4, <1>5, <1>6, <1>7, <1>8, <1>9 DEF Next, Work

LEMMA RunAlways == Spec => [](TypeInv /\ Names /\ Flow)
BY TypeInit, TypeStep, NamesInit, NamesStep, FlowInit, FlowStep, PTL DEF Spec

(* A further "and" or "not" only narrows what is cached, for any store and *)
(* any queries, those with terms a*b and unsafe or-lists included.         *)
THEOREM Narrows == Spec => []Narrowing
<1>1. NarrowInv => Narrowing
  BY DEF NarrowInv
<1>2. QED
  BY <1>1, RunAlways, NarrowingInit, NarrowStep, PTL DEF Spec
-----------------------------------------------------------------------------
(* What Safe says of the segment n                                         *)
LEMMA SafeAt ==
  ASSUME NEW q \in Seq(Segment), NEW n \in 1 .. Len(q), Safe(Prefix(q, n))
  PROVE  /\ ~q[1].neg /\ Len(q[n].terms) <= 2 /\ Plain(q[n])
         /\ \A i \in 1 .. Len(q[n].terms), k \in Key :
              q[n].terms[i] \in Terms => ~Match[q[n].terms[i]][k].overrun
         /\ \A p \in Pats : ~Clash(q[n].terms, p)
         /\ n > 1 => \A i \in 1 .. Len(q[n].terms), k \in Key : q[n].terms[i] \in Terms => Flat(q[n].terms[i], k)
<1> DEFINE w == Prefix(q, n)
<1>1. Len(w) = n /\ (\A j \in 1 .. n : w[j] = q[j]) /\ n \in 1 .. n /\ 1 \in 1 .. n
  BY Prefixes
<1>2. w[n] = q[n] /\ w[1] = q[1]
  BY <1>1
<1>3. /\ ~w[1].neg /\ Len(w[n].terms) <= 2
      /\ \A i \in 1 .. Len(w[n].terms) : w[n].terms[i] \notin Wild
      /\ \A i \in 1 .. Len(w[n].terms), p \in Pats : ~Match[w[n].terms[i]][p].overrun
      /\ \A p \in Pats : ~Clash(w[n].terms, p)
      /\ n > 1 => \A i \in 1 .. Len(w[n].terms), p \in Pats :
                    ~Match[w[n].terms[i]][p].text => ~Match[w[n].terms[i]][p].subpat
  BY <1>1 DEF Safe
<1>4. \A i \in 1 .. Len(q[n].terms) :
        q[n].terms[i] \in Terms => Flat(q[n].terms[i], OUTL) /\ ~Match[q[n].terms[i]][OUTL].overrun
  BY OutlierHas
<1>5. QED
  BY <1>2, <1>3, <1>4 DEF Plain, Flat, Key

LEMMA SafePrefix ==
  ASSUME NEW q \in Seq(Segment), NEW n \in 1 .. Len(q), Safe(q)
  PROVE  Safe(Prefix(q, n))
<1> DEFINE w == Prefix(q, n)
<1>1. Len(w) = n /\ (\A j \in 1 .. n : w[j] = q[j]) /\ Len(q) \in Nat
  BY Prefixes
<1>2. \A j \in 1 .. Len(w) : w[j] = q[j] /\ j \in 1 .. Len(q)
  BY <1>1
<1>3. w[1] = q[1]
  BY <1>1
<1> HIDE DEF w
<1>4. Safe(w)
  BY <1>2, <1>3 DEF Safe
<1>5. QED
  BY <1>4 DEF w

(* The rows a segment asks for                                             *)
Wanted(g, k, r) == g.neg # (\E n \in 1 .. Len(g.terms) : r \in Has(g.terms[n], k))

LEMMA WantedOne ==
  ASSUME NEW g, NEW k, Len(g.terms) = 1, g.neg \in BOOLEAN
  PROVE  /\ ~g.neg => \A r : Wanted(g, k, r) <=> r \in Has(g.terms[1], k)
         /\ g.neg => \A r : Wanted(g, k, r) <=> r \notin Has(g.terms[1], k)
<1>1. 1 .. Len(g.terms) = {1}
  OBVIOUS
<1>2. \A r : (\E n \in 1 .. Len(g.terms) : r \in Has(g.terms[n], k)) <=> r \in Has(g.terms[1], k)
  BY <1>1
<1>3. QED
  BY <1>2, Zenon DEF Wanted

LEMMA WantedTwo ==
  ASSUME NEW g, NEW k, Len(g.terms) = 2, g.neg = FALSE
  PROVE  \A r : Wanted(g, k, r) <=> r \in Has(g.terms[1], k) \/ r \in Has(g.terms[2], k)
<1>1. 1 .. Len(g.terms) = {1, 2}
  OBVIOUS
<1>2. \A r : (\E n \in 1 .. Len(g.terms) : r \in Has(g.terms[n], k))
               <=> r \in Has(g.terms[1], k) \/ r \in Has(g.terms[2], k)
  BY <1>1
<1>3. QED
  BY <1>2, Zenon DEF Wanted

LEMMA MeaningNext ==
  ASSUME NEW q \in Seq(Segment), NEW n \in 1 .. Len(q), NEW k \in Key
  PROVE  /\ n = 1 => Meaning(Prefix(q, n), k) = {r \in Row[k] : Wanted(q[n], k, r)}
         /\ n > 1 => Meaning(Prefix(q, n), k) = {r \in Meaning(Prefix(q, n - 1), k) : Wanted(q[n], k, r)}
<1> DEFINE w == Prefix(q, n)
           v == Prefix(q, n - 1)
<1>1. Len(w) = n /\ (\A j \in 1 .. n : w[j] = q[j])
  BY Prefixes
<1>2. Len(v) = n - 1 /\ (\A j \in 1 .. n - 1 : v[j] = q[j])
  <2>1. n - 1 \in 0 .. Len(q)
    OBVIOUS
  <2>2. QED
    BY <2>1, Prefixes
<1>3. Meaning(w, k) = {r \in Row[k] : \A j \in 1 .. n : Wanted(q[j], k, r)}
  <2>1. Meaning(w, k) = {r \in Row[k] : \A j \in 1 .. n : Wanted(w[j], k, r)}
    BY <1>1 DEF Meaning, Wanted
  <2>2. QED
    BY <1>1, <2>1
<1>4. Meaning(v, k) = {r \in Row[k] : \A j \in 1 .. n - 1 : Wanted(q[j], k, r)}
  <2>1. Meaning(v, k) = {r \in Row[k] : \A j \in 1 .. n - 1 : Wanted(v[j], k, r)}
    BY <1>2 DEF Meaning, Wanted
  <2>2. QED
    BY <1>2, <2>1
<1>5. 1 .. n = (1 .. n - 1) \union {n}
  OBVIOUS
<1> HIDE DEF w, v
<1>6. \A r : (\A j \in 1 .. n : Wanted(q[j], k, r))
               <=> (\A j \in 1 .. n - 1 : Wanted(q[j], k, r)) /\ Wanted(q[n], k, r)
  BY <1>5
<1>7. n = 1 => \A r : \A j \in 1 .. n - 1 : Wanted(q[j], k, r)
  OBVIOUS
<1>8. QED
  BY <1>3, <1>4, <1>6, <1>7 DEF w, v
-----------------------------------------------------------------------------
(* What is left when a segment of a safe and trusted query begins          *)
Before(k) == IF seg = 1 THEN Row[k] ELSE Meaning(Prefix(asked, seg - 1), k)

(* The segment searched, when the query is safe so far                     *)
LEMMA SafeSegment ==
  ASSUME TypeInv, Names, Searching, Safe(Prefix(asked, seg))
  PROVE  /\ asked \in Seq(Segment) /\ seg \in 1 .. Len(asked) /\ args[seg] = asked[seg]
         /\ args[seg].neg \in BOOLEAN
         /\ term \in 1 .. Len(args[seg].terms) /\ Len(args[seg].terms) \in 1 .. 2
         /\ Plain(args[seg]) /\ Now \in Terms \ Wild /\ Now = args[seg].terms[term]
         /\ \A n \in 1 .. Len(args[seg].terms) : args[seg].terms[n] \in Terms \ Wild
         /\ args[seg].neg => seg > 1 /\ Len(args[seg].terms) = 1
         /\ \A k \in Key : ~Match[Now][k].overrun
         /\ \A p \in Pats : ~Clash(args[seg].terms, p)
         /\ seg > 1 => \A n \in 1 .. Len(args[seg].terms), k \in Key : Flat(args[seg].terms[n], k)
<1>1. /\ asked \in Seq(Segment) /\ asked \in Queries /\ seg \in 1 .. Len(asked)
      /\ term \in 1 .. Len(args[seg].terms) /\ args[seg].terms \in Seq(Terms) /\ Now \in Terms
      /\ args[seg].neg \in BOOLEAN
  BY NowIs DEF TypeInv, Shape, Names, Searching, Segment
<1>2. /\ ~asked[1].neg /\ Len(asked[seg].terms) <= 2 /\ Plain(asked[seg])
      /\ \A i \in 1 .. Len(asked[seg].terms), k \in Key :
           asked[seg].terms[i] \in Terms => ~Match[asked[seg].terms[i]][k].overrun
      /\ \A p \in Pats : ~Clash(asked[seg].terms, p)
      /\ seg > 1 => \A i \in 1 .. Len(asked[seg].terms), k \in Key :
                      asked[seg].terms[i] \in Terms => Flat(asked[seg].terms[i], k)
  BY <1>1, SafeAt
<1>3. args[seg] = asked[seg] /\ Now \notin Wild
  BY <1>2, CutPlain
<1>4. \A n \in 1 .. Len(args[seg].terms) : args[seg].terms[n] \in Terms \ Wild
  BY <1>1, <1>2, <1>3 DEF Plain
<1>5. args[seg].neg => seg # 1 /\ Len(args[seg].terms) = 1
  BY <1>1, <1>2, <1>3, QueryAssumption
<1>6. Len(args[seg].terms) \in 1 .. 2
  <2> DEFINE l == Len(args[seg].terms)
  <2>1. l \in Nat /\ l <= 2
    BY <1>1, <1>2, <1>3
  <2>2. term \in 1 .. l
    BY <1>1
  <2> HIDE DEF l
  <2>3. l \in 1 .. 2
    BY <2>1, <2>2
  <2>4. QED
    BY <2>3 DEF l
<1>7. QED
  BY <1>1, <1>2, <1>3, <1>4, <1>5, <1>6 DEF Now

LEMMA BeforeLeft ==
  ASSUME TypeInv, Names, Flow, RightInv, Searching, NEW k \in Key,
         Safe(Prefix(asked, seg)), Trusted(Prefix(asked, seg))
  PROVE  /\ Left(k, Before(k)) /\ Before(k) \subseteq Row[k]
         /\ bitmaps[k] # Absent => seg > 1
         /\ seg > 1 => Right(bitmaps[k], k, Before(k))
         /\ Meaning(Prefix(asked, seg), k) = {r \in Before(k) : Wanted(args[seg], k, r)}
<1>1. asked \in Seq(Segment) /\ seg \in 1 .. Len(asked) /\ args[seg] = asked[seg] /\ pc = "run"
  BY SafeSegment DEF Searching
<1>2. Meaning(Prefix(asked, seg), k) = {r \in Before(k) : Wanted(args[seg], k, r)}
  BY <1>1, MeaningNext DEF Before
<1>3. Before(k) \subseteq Row[k]
  BY DEF Before, Meaning
<1>4. CASE seg = 1
  BY <1>1, <1>2, <1>3, <1>4, NothingSelected DEF Flow, Left, Before
<1>5. CASE seg > 1
  <2> DEFINE w == Prefix(asked, seg)
             d == Prefix(asked, seg - 1)
  <2>1. seg - 1 \in 1 .. seg /\ seg \in 0 .. Len(asked) /\ Len(w) = seg /\ w \in Seq(Segment)
        /\ Prefix(w, seg - 1) = d
    BY <1>1, <1>5, Prefixes
  <2>2. Safe(d) /\ Trusted(d)
    BY <2>1, SafePrefix, TrustedBefore
  <2>3. Right(bitmaps[k], k, Meaning(d, k))
    BY <1>1, <1>5, <2>2 DEF RightInv, RunRight
  <2>4. Before(k) = Meaning(d, k)
    BY <1>5 DEF Before
  <2>5. QED
    BY <1>2, <1>3, <1>5, <2>3, <2>4 DEF Left, Right
<1>6. QED
  BY <1>1, <1>4, <1>5
-----------------------------------------------------------------------------
LEMMA TokenRight ==
  ASSUME TypeInv, Names, Flow, RightInv, Searching, SoleTerm, NEW k \in Key,
         Safe(Prefix(asked, seg)), Trusted(Prefix(asked, seg))
  PROVE  Right(TokenMap(k), k, Meaning(Prefix(asked, seg), k))
<1>1. seg \in 1 .. Len(args) /\ Len(args) = 1 /\ ~args[1].neg /\ Len(args[1].terms) = 1
  BY NowIs DEF SoleTerm
<1>2. seg = 1 /\ ~args[seg].neg /\ Len(args[seg].terms) = 1
  BY <1>1
<1>3. Now \in Terms /\ Now \notin Wild /\ Now = args[seg].terms[1]
  BY <1>2, SafeSegment
<1>4. Meaning(Prefix(asked, seg), k) = {r \in Row[k] : Wanted(args[seg], k, r)}
  BY <1>2, BeforeLeft DEF Before
<1>5. Has(Now, k) \subseteq Row[k]
  BY <1>3, Rows DEF Has
<1>6. Meaning(Prefix(asked, seg), k) = Has(Now, k)
  <2>1. \A r : Wanted(args[seg], k, r) <=> r \in Has(Now, k)
    BY <1>2, <1>3, SafeSegment, WantedOne
  <2>2. QED
    BY <1>4, <1>5, <2>1
<1>7. TokenMap(k) # Absent
  BY TokenResult, Maps DEF Result, Overrun
<1>8. CASE k = OUTL
  <2>1. TokenMap(k) = Partial(Match[Now][OUTL].rows) /\ Match[Now][OUTL].rows = Has(Now, k)
    BY <1>3, <1>8, OutlierHas DEF TokenMap
  <2>2. Match[Now][OUTL].rows \in SUBSET Nat
    BY <1>3, <1>8, Rows
  <2>3. TokenMap(k) \in RowMap /\ ~TokenMap(k).full /\ TokenMap(k).rows = Has(Now, k)
    BY <2>1, <2>2, Maps
  <2>4. QED
    BY <1>6, <1>7, <2>3, Maps DEF Right, Selected
<1>9. CASE k # OUTL
  <2>1. TokenMap(k) = OrNull(Search(Now, k))
    BY <1>9 DEF TokenMap
  <2>2. Selected(TokenMap(k), k) = Has(Now, k)
    <3>1. Search(Now, k) # Undefined
      BY <1>3, SafeSegment, Overruns DEF Overrun
    <3>2. QED
      BY <1>3, <2>1, <3>1, Searches, OrNullKeeps
  <2>3. QED
    BY <1>6, <1>7, <1>9, <2>2 DEF Right
<1>10. QED
  BY <1>8, <1>9

(* Without overruns each search ends with a map.                           *)
LEMMA TermDefined ==
  ASSUME TypeInv, Names, Searching, NEW k \in Key, Safe(Prefix(asked, seg))
  PROVE  TokenMap(k) # Undefined /\ NotMap(k) # Undefined /\ Result(Norm(Now, k), k)
<1>1. Now \in Terms /\ ~Match[Now][k].overrun
  BY SafeSegment
<1>2. Kept(bitmaps[k], k)
  BY DEF TypeInv, Keeps
<1>3. Result(TokenMap(k), k) /\ Result(NotMap(k), k) /\ Result(Norm(Now, k), k)
  BY <1>1, <1>2, TokenResult, NotResult, Norms DEF Overrun
<1>4. QED
  BY <1>3, KeptMap DEF Result

LEMMA NotRight ==
  ASSUME TypeInv, Names, Flow, RightInv, Searching, args[seg].neg, NEW k \in Key,
         Safe(Prefix(asked, seg)), Trusted(Prefix(asked, seg))
  PROVE  Right(NotMap(k), k, Meaning(Prefix(asked, seg), k))
<1>1. /\ seg > 1 /\ Len(args[seg].terms) = 1 /\ Now \in Terms /\ Now \notin Wild
      /\ Now = args[seg].terms[1] /\ Flat(Now, k)
  BY SafeSegment
<1>2. /\ Right(bitmaps[k], k, Before(k)) /\ Before(k) \subseteq Row[k]
      /\ Meaning(Prefix(asked, seg), k) = {r \in Before(k) : Wanted(args[seg], k, r)}
  BY <1>1, BeforeLeft
<1>3. Kept(bitmaps[k], k)
  BY DEF TypeInv, Keeps
<1>4. Right(NotMap(k), k, Before(k) \ Has(Now, k))
  <2>1. NotMap(k) # Undefined
    BY TermDefined
  <2>2. QED
    BY <1>1, <1>2, <1>3, <2>1, Nots DEF NotMap
<1>5. Meaning(Prefix(asked, seg), k) = Before(k) \ Has(Now, k)
  <2>1. \A r : Wanted(args[seg], k, r) <=> r \notin Has(Now, k)
    BY <1>1, SafeSegment, WantedOne
  <2>2. QED
    BY <1>2, <2>1
<1>6. QED
  BY <1>4, <1>5

(* When Norm makes a full map, and when one that is not                    *)
LEMMA NormFull ==
  ASSUME NEW k \in Key, NEW t \in Terms \ Wild, Kept(bitmaps[k], k), ~Dead(bitmaps[k], k),
         IsMap(Norm(t, k))
  PROVE  LET scratch == k # OUTL /\ (bitmaps[k] = Absent \/ (IsMap(bitmaps[k]) /\ BeSizeFul(bitmaps[k], k)))
         IN /\ Norm(t, k).full => scratch /\ FullAt(t, k)
            /\ scratch /\ ~Norm(t, k).full /\ Norm(t, k).rows # {}
                 => ~FullAt(t, k) /\ Match[t][k].rows # {}
<1> DEFINE b == bitmaps[k]
<1>1. b # Null /\ (b = Absent \/ IsMap(b))
  BY KeptMap DEF Dead
<1>2. CASE k # OUTL /\ (b = Absent \/ (IsMap(b) /\ BeSizeFul(b, k)))
  <2>1. Norm(t, k) = OrNull(Search(t, k))
    BY <1>2, Maps DEF Norm
  <2>2. Search(t, k) # Undefined
    BY <2>1, Overruns, Maps
  <2>3. Norm(t, k) = Search(t, k)
    BY <2>1, <2>2, Searches, OrNullKeeps
  <2>4. QED
    BY <1>2, <2>2, <2>3, Searches
<1>3. CASE k # OUTL /\ IsMap(b) /\ ~BeSizeFul(b, k)
  <2>1. Norm(t, k) = OrNull(Partial(SearchIn(t, k, b.rows)))
    BY <1>3, Maps DEF Norm
  <2>2. SearchIn(t, k, b.rows) \in SUBSET Row[k]
    BY <1>3, KeptMap, SearchWithin
  <2>3. ~Norm(t, k).full
    BY <2>1, <2>2, PartialKeeps
  <2>4. QED
    BY <1>3, <2>3, Maps
<1>4. CASE k = OUTL /\ b = Absent
  <2>1. Norm(t, k) = OrNull(Partial(Match[t][k].rows))
    BY <1>4, Maps DEF Norm
  <2>2. Match[t][k].rows \in SUBSET Row[k]
    BY Rows
  <2>3. ~Norm(t, k).full
    BY <2>1, <2>2, PartialKeeps
  <2>4. QED
    BY <1>4, <2>3
<1>5. CASE k = OUTL /\ IsMap(b)
  <2>1. ~b.full /\ ~Empty(b)
    BY <1>5 DEF Dead
  <2>2. Norm(t, k) = OrNull(Partial(b.rows \intersect Match[t][k].rows))
    BY <1>5, <2>1, Maps DEF Norm
  <2>3. b.rows \intersect Match[t][k].rows \in SUBSET Row[k]
    BY Rows
  <2>4. ~Norm(t, k).full
    BY <2>2, <2>3, PartialKeeps
  <2>5. QED
    BY <1>5, <2>4
<1>6. QED
  BY <1>1, <1>2, <1>3, <1>4, <1>5

(* Rows of the first of two terms are never merged into a full map.        *)
LEMMA LastDefined ==
  ASSUME TypeInv, Names, Flow, Searching, ~args[seg].neg, term = Len(args[seg].terms), NEW k \in Key,
         Safe(Prefix(asked, seg))
  PROVE  LastMap(k) # Undefined
<1>1. SUFFICES ASSUME LastMap(k) = Undefined PROVE FALSE
  OBVIOUS
<1> DEFINE terms == args[seg].terms
<1>2. /\ Kept(bitmaps[k], k) /\ Kept(temps[k], k)
      /\ Len(terms) \in 1 .. 2 /\ term \in 1 .. 2 /\ pc = "run" /\ seg <= Len(args)
      /\ Now = terms[term] /\ Now \in Terms \ Wild /\ \A n \in 1 .. Len(terms) : terms[n] \in Terms \ Wild
      /\ args[seg] = asked[seg] /\ Plain(asked[seg]) /\ \A p \in Pats : ~Clash(terms, p)
  BY SafeSegment DEF TypeInv, Keeps, Searching
<1>3. Kept(Norm(Now, k), k) /\ Norm(Now, k) # Absent
  BY TermDefined DEF Result
<1>4. /\ IsMap(Norm(Now, k)) /\ Norm(Now, k).full
      /\ IsMap(temps[k]) /\ ~temps[k].full /\ temps[k].rows # {}
  <2>1. ~Kept(Undefined, k)
    BY KeptMap
  <2>2. QED
    BY <1>1, <1>2, <1>3, <2>1, JoinedKeeps DEF LastMap
<1>5. term = 2
  <2>1. temps[k] # Absent
    BY <1>4, Maps
  <2>2. term # 1
    BY <1>2, <2>1, NothingSelected DEF Flow
  <2>3. QED
    BY <1>2, <2>2
<1>6. ~Dead(bitmaps[k], k) /\ temps[k] = Norm(terms[1], k)
  <2>1. temps[k] = IF Dead(bitmaps[k], k) THEN Absent ELSE Norm(asked[seg].terms[1], k)
    BY <1>2, <1>5 DEF Flow
  <2>2. temps[k] # Absent
    BY <1>4, Maps
  <2>3. QED
    BY <1>2, <2>1, <2>2
<1>7. terms[1] \in Terms \ Wild /\ Len(terms) = 2 /\ Now = terms[2]
  BY <1>2, <1>5
<1>8. /\ k # OUTL /\ FullAt(terms[2], k)
      /\ ~FullAt(terms[1], k) /\ Match[terms[1]][k].rows # {}
  BY <1>2, <1>4, <1>6, <1>7, NormFull
<1>9. Clash(terms, k) /\ k \in Pats
  <2>1. 1 \in 1 .. Len(terms) - 1
    BY <1>7
  <2>2. QED
    BY <1>7, <1>8, <2>1 DEF Clash, Key
<1>10. QED
  BY <1>2, <1>9

LEMMA LastRight ==
  ASSUME TypeInv, Names, Flow, RightInv, Searching, ~args[seg].neg, term = Len(args[seg].terms),
         NEW k \in Key, Safe(Prefix(asked, seg)), Trusted(Prefix(asked, seg))
  PROVE  Right(LastMap(k), k, Meaning(Prefix(asked, seg), k))
<1> DEFINE terms == args[seg].terms
           S == Before(k)
           b == bitmaps[k]
<1>1. /\ Kept(bitmaps[k], k) /\ Kept(temps[k], k)
      /\ Len(terms) \in 1 .. 2 /\ term \in 1 .. 2 /\ pc = "run" /\ seg <= Len(args)
      /\ Now = terms[term] /\ Now \in Terms \ Wild /\ terms[1] \in Terms \ Wild
      /\ args[seg] = asked[seg] /\ Plain(asked[seg])
      /\ seg > 1 => Flat(Now, k) /\ Flat(terms[1], k)
  BY SafeSegment DEF TypeInv, Keeps, Searching
<1>2. /\ Left(k, S) /\ S \subseteq Row[k] /\ (b # Absent => seg > 1)
      /\ Meaning(Prefix(asked, seg), k) = {r \in S : Wanted(args[seg], k, r)}
  BY BeforeLeft
<1>3. /\ Kept(Norm(Now, k), k) /\ Norm(Now, k) # Absent
      /\ Right(Norm(Now, k), k, S \intersect Has(Now, k))
  <2>1. Result(Norm(Now, k), k) /\ Norm(Now, k) # Undefined
    BY TermDefined, KeptMap DEF Result
  <2>2. QED
    BY <1>1, <1>2, <2>1, Norms DEF Result
<1>4. /\ LastMap(k) # Absent
      /\ Selected(LastMap(k), k) = Selected(Norm(Now, k), k) \union Selected(temps[k], k)
      /\ IsMap(LastMap(k)) /\ LastMap(k).full
           => (IsMap(Norm(Now, k)) /\ Norm(Now, k).full) \/ (IsMap(temps[k]) /\ temps[k].full)
  BY <1>1, <1>3, LastDefined, JoinedKeeps DEF LastMap
<1>5. CASE term = 1
  <2>1. temps[k] = Absent /\ Selected(temps[k], k) = {} /\ ~IsMap(temps[k])
    BY <1>1, <1>5, NothingSelected, Maps DEF Flow
  <2>2. Meaning(Prefix(asked, seg), k) = S \intersect Has(Now, k)
    <3>1. \A r : Wanted(args[seg], k, r) <=> r \in Has(Now, k)
      BY <1>1, <1>5, SafeSegment, WantedOne
    <3>2. QED
      BY <1>2, <3>1
  <2>3. QED
    BY <1>3, <1>4, <2>1, <2>2 DEF Right
<1>6. CASE term = 2
  <2>1. temps[k] = IF Dead(b, k) THEN Absent ELSE Norm(terms[1], k)
    BY <1>1, <1>6 DEF Flow
  <2>2. Norm(terms[1], k) # Undefined
          => Right(Norm(terms[1], k), k, S \intersect Has(terms[1], k))
    BY <1>1, <1>2, Norms
  <2>3. Meaning(Prefix(asked, seg), k) = (S \intersect Has(Now, k)) \union (S \intersect Has(terms[1], k))
    <3>1. Len(terms) = 2 /\ Now = terms[2] /\ args[seg].neg = FALSE
      BY <1>1, <1>6, SafeSegment
    <3>2. \A r : Wanted(args[seg], k, r) <=> r \in Has(Now, k) \/ r \in Has(terms[1], k)
      BY <3>1, WantedTwo
    <3>3. QED
      BY <1>2, <3>2
  <2>4. CASE Dead(b, k)
    <3>1. S = {}
      <4>1. b # Absent
        BY <2>4, Maps DEF Dead
      <4>2. Right(b, k, S)
        BY <1>2, <4>1 DEF Left
      <4>3. CASE b = Null
        BY <4>2, <4>3, Maps DEF Right, Selected
      <4>4. CASE k = OUTL /\ IsMap(b) /\ (b.full \/ Empty(b))
        <5>1. ~b.full /\ b.rows = {}
          BY <4>2, <4>4 DEF Right, Empty
        <5>2. QED
          BY <4>2, <4>4, <5>1 DEF Right, Selected
      <4>5. QED
        BY <2>4, <4>3, <4>4 DEF Dead
    <3>2. Selected(temps[k], k) = {} /\ ~IsMap(temps[k])
      BY <2>1, <2>4, NothingSelected, Maps
    <3>3. QED
      BY <1>3, <1>4, <2>3, <3>1, <3>2 DEF Right
  <2>5. CASE ~Dead(b, k)
    <3>1. temps[k] = Norm(terms[1], k) /\ temps[k] # Undefined
      BY <1>1, <2>1, <2>5, KeptMap
    <3>2. QED
      BY <1>3, <1>4, <2>2, <2>3, <3>1 DEF Right
  <2>6. QED
    BY <2>4, <2>5
<1>7. QED
  BY <1>1, <1>5, <1>6
-----------------------------------------------------------------------------
LEMMA FinishRight ==
  ASSUME TypeInv, Names, RightInv, Searching,
         NEW value, NEW name, Finish(value, name), Named(name), UNCHANGED <<asked, answer>>,
         Safe(Prefix(asked, seg)) => \A k \in Key : value[k] # Undefined,
         Safe(Prefix(asked, seg)) /\ Trusted(Prefix(asked, seg))
           => \A k \in Key : Right(value[k], k, Meaning(Prefix(asked, seg), k))
  PROVE  RightInv'
<1> DEFINE P == Prefix(asked, seg)
<1>1. seg \in 1 .. Len(asked) /\ asked \in Seq(Segment) /\ Len(asked) \in Nat /\ pc = "run"
  BY NowIs DEF TypeInv, Shape, Names, Searching
<1>2. CASE Aborts(value)
  <2>0. (\E k \in Key : value[k] = Undefined) /\ pc' = "undefined" /\ UNCHANGED <<sessions, misnamed>>
    BY <1>2 DEF Aborts
  <2>1. ~Safe(asked)
    BY <1>1, <2>0, SafePrefix
  <2>2. SessionsRight'
    BY <2>0 DEF RightInv, SessionsRight, Trusted
  <2>3. QED
    BY <2>0, <2>1, <2>2 DEF RightInv, RunRight, AnswerExact, SafeDefined
<1>3. CASE Completes(value, name)
  <2>0. /\ bitmaps' = value /\ pc' = pc
        /\ DOMAIN sessions' = DOMAIN sessions \union {name}
        /\ sessions'[name] = value
        /\ \A s \in DOMAIN sessions : s # name => sessions'[s] = sessions[s]
        /\ misnamed' = misnamed \union ({name} \ {P})
        /\ NextSegment
    BY <1>3 DEF Completes
  <2>1. \A s : Trusted(s)' => Trusted(s)
    BY <2>0, TrustedLess
  <2>2. ASSUME NEW s \in DOMAIN sessions', Safe(s), Trusted(s)', NEW k \in Key
        PROVE  Right(sessions'[s][k], k, Meaning(s, k))
    <3>1. CASE s # name
      BY <2>0, <2>1, <2>2, <3>1 DEF RightInv, SessionsRight
    <3>2. CASE s = name
      <4>1. Len(name) \in 1 .. Len(name) /\ Prefix(name, Len(name)) = name
        BY <1>1, Prefixes DEF Named
      <4>2. name \notin misnamed'
        BY <2>2, <3>2, <4>1 DEF Trusted
      <4>3. name = P
        BY <2>0, <4>2
      <4>4. QED
        BY <2>0, <2>1, <2>2, <3>2, <4>3
    <3>3. QED
      BY <3>1, <3>2
  <2>3. SessionsRight'
    BY <2>2 DEF SessionsRight
  <2>4. seg' - 1 = seg /\ pc' = "run"
    BY <1>1, <2>0 DEF NextSegment
  <2>5. RunRight'
    BY <2>0, <2>1, <2>4 DEF RunRight
  <2>6. QED
    BY <2>3, <2>4, <2>5 DEF RightInv, AnswerExact, SafeDefined
<1>4. QED
  BY <1>2, <1>3, Finished

LEMMA HitRight ==
  ASSUME TypeInv, Names, RightInv, Hit
  PROVE  RightInv'
<1>1. /\ Searching /\ key \in DOMAIN sessions /\ bitmaps' = sessions[key] /\ pc = "run" /\ pc' = pc
      /\ seg' = seg + 1 /\ UNCHANGED <<sessions, misnamed, asked, answer>>
  BY DEF Hit, Cached, NextSegment, Searching
<1>2. /\ seg \in 1 .. Len(asked) /\ asked \in Seq(Segment) /\ Len(asked) \in Nat /\ Len(args) = Len(asked)
      /\ key \in Seq(Segment) /\ Len(key) = seg
      /\ key[seg] = asked[seg] /\ \A j \in 1 .. seg - 1 : key[j] = args[j]
      /\ \A j \in 1 .. Len(args) : Plain(asked[j]) => args[j] = asked[j]
  BY <1>1, NowIs DEF TypeInv, Shape, Names, Searching
<1> DEFINE P == Prefix(asked, seg)
<1>3. ASSUME Safe(P)
      PROVE  key = P
  <2>1. P \in Seq(Segment) /\ Len(P) = seg /\ seg \in 0 .. Len(asked)
        /\ \A j \in 0 .. seg : Prefix(P, j) = Prefix(asked, j)
    BY <1>2, Prefixes
  <2>2. ASSUME NEW j \in 1 .. seg
        PROVE  Plain(asked[j])
    <3>1. Safe(Prefix(P, j))
      BY <1>3, <2>1, SafePrefix
    <3>2. j \in 0 .. seg /\ j \in 1 .. Len(asked)
      BY <1>2
    <3>3. Safe(Prefix(asked, j))
      BY <2>1, <3>1, <3>2
    <3>4. QED
      BY <1>2, <3>2, <3>3, SafeAt
  <2>3. \A j \in 1 .. seg : key[j] = asked[j]
    BY <1>2, <2>2
  <2>4. key = Prefix(asked, seg)
    BY ONLY <1>2, <2>1, <2>3, SamePrefix
  <2>5. QED
    BY <2>4
<1>4. SessionsRight'
  BY <1>1 DEF RightInv, SessionsRight, Trusted
<1>5. \A s : Trusted(s)' => Trusted(s)
  BY <1>1, TrustedLess
<1>6. seg' - 1 = seg
  BY <1>1, <1>2
<1>7. Safe(P) /\ Trusted(P) => \A k \in Key : Right(bitmaps'[k], k, Meaning(P, k))
  BY <1>1, <1>3 DEF RightInv, SessionsRight
<1>8. RunRight'
  BY <1>1, <1>5, <1>6, <1>7 DEF RunRight, Trusted
<1>9. QED
  BY <1>1, <1>4, <1>8 DEF RightInv, AnswerExact, SafeDefined

LEMMA OrRight ==
  ASSUME TypeInv, Names, Flow, RightInv, OrTerm
  PROVE  RightInv'
<1>1. /\ Searching /\ UNCHANGED <<seg, bitmaps, sessions, asked, answer, misnamed>>
      /\ term < Len(args[seg].terms) /\ pc = "run"
  BY OrStep DEF Searching
<1>2. PICK o \in RefOutliers(Now) :
        LET value(k) == IF k = OUTL THEN o ELSE RefPat(Now, k)
        IN (pc' = "undefined" /\ \E k \in Key : value(k) = Undefined) \/ pc' = pc
  BY OrStep
<1> DEFINE value(k) == IF k = OUTL THEN o ELSE RefPat(Now, k)
<1>3. SessionsRight'
  BY <1>1 DEF RightInv, SessionsRight, Trusted
<1>4. CASE pc' = "undefined" /\ \E k \in Key : value(k) = Undefined
  <2>1. SUFFICES ASSUME Safe(asked) PROVE FALSE
    BY <1>1, <1>3, <1>4 DEF RightInv, RunRight, AnswerExact, SafeDefined
  <2>2. seg \in 1 .. Len(asked) /\ asked \in Seq(Segment) /\ seg <= Len(args)
    BY <1>1, NowIs DEF TypeInv, Shape, Names, Searching
  <2>3. Safe(Prefix(asked, seg))
    BY <2>1, <2>2, SafePrefix
  <2>4. term = 1 /\ Now \in Terms \ Wild
    BY <1>1, <2>3, SafeSegment
  <2>5. PICK k \in Key : value(k) = Undefined
    BY <1>4
  <2>6. temps[k] = Absent
    BY <1>1, <2>4, NothingSelected DEF Flow
  <2>7. value(k) = IF Dead(bitmaps[k], k) THEN Absent ELSE Norm(Now, k)
    BY <1>1, <2>4, <2>6, OrResult
  <2>8. Kept(Norm(Now, k), k) /\ Kept(Absent, k)
    BY <1>1, <2>3, TermDefined DEF Result, Kept
  <2>9. QED
    BY <2>5, <2>7, <2>8, KeptMap
<1>5. CASE pc' = pc
  BY <1>1, <1>3, <1>5 DEF RightInv, RunRight, AnswerExact, SafeDefined, Trusted
<1>6. QED
  BY <1>2, <1>4, <1>5

LEMMA AnswerRight ==
  ASSUME TypeInv, Names, RightInv, Answer
  PROVE  RightInv'
<1>1. /\ pc = "run" /\ seg > Len(args) /\ pc' = "idle"
      /\ answer' = [k \in Key |-> Shown(bitmaps[k], k)]
      /\ UNCHANGED <<sessions, misnamed, asked>>
  BY DEF Answer
<1>2. /\ asked \in Seq(Segment) /\ Len(asked) \in Nat /\ Len(asked) > 0 /\ seg - 1 = Len(asked) /\ seg > 1
  BY <1>1 DEF TypeInv, Shape, Names
<1>3. Prefix(asked, seg - 1) = asked
  BY <1>2, Prefixes
<1>4. ASSUME Safe(asked), Trusted(asked), NEW k \in Key
      PROVE  answer'[k] = Meaning(asked, k)
  <2>1. Right(bitmaps[k], k, Meaning(asked, k))
    BY <1>1, <1>2, <1>3, <1>4 DEF RightInv, RunRight
  <2>2. Shown(bitmaps[k], k) = Meaning(asked, k)
    BY <2>1 DEF Shown, Right
  <2>3. QED
    BY <1>1, <2>2
<1>5. SessionsRight'
  BY <1>1 DEF RightInv, SessionsRight, Trusted
<1>6. Trusted(asked)' => Trusted(asked)
  BY <1>1 DEF Trusted
<1>7. AnswerExact'
  BY <1>1, <1>4, <1>6 DEF AnswerExact
<1>8. QED
  BY <1>1, <1>5, <1>7 DEF RightInv, RunRight, SafeDefined

LEMMA RightInit == Init => RightInv
BY DEF Init, RightInv, SessionsRight, RunRight, AnswerExact, SafeDefined

LEMMA RightStep == TypeInv /\ Names /\ Flow /\ RightInv /\ [Next]_vars => RightInv'
<1>1. SUFFICES ASSUME TypeInv, Names, Flow, RightInv, [Next]_vars PROVE RightInv'
  OBVIOUS
<1>2. CASE Hit
  BY <1>1, <1>2, HitRight
<1>3. CASE TokenSearch
  <2>1. /\ Searching /\ SoleTerm /\ Named(Prefix(Cut, 1)) /\ UNCHANGED <<asked, answer>>
        /\ Finish([k \in Key |-> TokenMap(k)], Prefix(Cut, 1))
    BY <1>1, <1>3, TokenFinish, TokenNamed
  <2>2. Safe(Prefix(asked, seg)) => \A k \in Key : TokenMap(k) # Undefined
    BY <1>1, <2>1, TermDefined
  <2>3. Safe(Prefix(asked, seg)) /\ Trusted(Prefix(asked, seg))
          => \A k \in Key : Right(TokenMap(k), k, Meaning(Prefix(asked, seg), k))
    BY <1>1, <2>1, TokenRight
  <2>4. QED
    BY <1>1, <2>1, <2>2, <2>3, FinishRight
<1>4. CASE OrTerm
  BY <1>1, <1>4, OrRight
<1>5. CASE LastTerm
  <2>1. /\ Searching /\ ~args[seg].neg /\ term = Len(args[seg].terms)
        /\ Named(key) /\ UNCHANGED <<asked, answer>>
        /\ Finish([k \in Key |-> LastMap(k)], key)
    BY <1>1, <1>5, LastFinish, KeyNamed
  <2>2. Safe(Prefix(asked, seg)) => \A k \in Key : LastMap(k) # Undefined
    BY <1>1, <2>1, LastDefined
  <2>3. Safe(Prefix(asked, seg)) /\ Trusted(Prefix(asked, seg))
          => \A k \in Key : Right(LastMap(k), k, Meaning(Prefix(asked, seg), k))
    BY <1>1, <2>1, LastRight
  <2>4. QED
    BY <1>1, <2>1, <2>2, <2>3, FinishRight
<1>6. CASE NotTerm
  <2>1. /\ Searching /\ args[seg].neg /\ Named(key) /\ UNCHANGED <<asked, answer>>
        /\ Finish([k \in Key |-> NotMap(k)], key)
    BY <1>1, <1>6, NotFinish, KeyNamed
  <2>2. Safe(Prefix(asked, seg)) => \A k \in Key : NotMap(k) # Undefined
    BY <1>1, <2>1, TermDefined
  <2>3. Safe(Prefix(asked, seg)) /\ Trusted(Prefix(asked, seg))
          => \A k \in Key : Right(NotMap(k), k, Meaning(Prefix(asked, seg), k))
    BY <1>1, <2>1, NotRight
  <2>4. QED
    BY <1>1, <2>1, <2>2, <2>3, FinishRight
<1>7. CASE Answer
  BY <1>1, <1>7, AnswerRight
<1>8. CASE \E q \in Queries : Submit(q)
  <2>1. pc' = "run" /\ seg' = 1 /\ UNCHANGED <<sessions, misnamed>>
    BY <1>8 DEF Submit
  <2>2. QED
    BY <1>1, <2>1 DEF RightInv, SessionsRight, RunRight, AnswerExact, SafeDefined, Trusted
<1>9. CASE UNCHANGED vars
  BY <1>1, <1>9 DEF vars, RightInv, SessionsRight, RunRight, AnswerExact, SafeDefined, Trusted
<1>10. QED
  BY <1>1, <1>2, <1>3, <1>4, <1>5, <1>6, <1>7, <1>8, <1>9 DEF Next, Work

LEMMA RightAlways == Spec => []RightInv
BY RunAlways, RightInit, RightStep, PTL DEF Spec

(* A safe query is answered with the rows it asks for, for any store and   *)
(* after any queries, unless one with a term a*b left its own result under *)
(* its text: cached or searched, single terms, or-lists, exclusions.       *)
THEOREM AnswersExact == Spec => []AnswerExact
<1>1. RightInv => AnswerExact
  BY DEF RightInv
<1>2. QED
  BY <1>1, RightAlways, PTL

(* Every result cached for a safe query text is that text's own result,    *)
(* unless a term a*b that strtok cut passed for another.                   *)
THEOREM SessionsStayTrue == Spec => []SessionsTrue
<1>1. RightInv => SessionsTrue
  BY DEF RightInv, SessionsRight, SessionsTrue, Right
<1>2. QED
  BY <1>1, RightAlways, PTL

(* A safe query, whose terms do not overrun a map in their own searches,   *)
(* never merges the rows of one term into the full map of another and uses *)
(* no null map, whatever was cached before.                                *)
THEOREM SafeIsDefined == Spec => []SafeDefined
<1>1. RightInv => SafeDefined
  BY DEF RightInv
<1>2. QED
  BY <1>1, RightAlways, PTL
-----------------------------------------------------------------------------
(***************************************************************************)
(* Dispatcher                                                              *)
(***************************************************************************)
LEMMA Intervals ==
  ASSUME NEW a \in Int, NEW b \in Int, NEW S \in SUBSET (a .. b)
  PROVE  IsFiniteSet(S) /\ Cardinality(S) \in Nat
BY FS_Interval, FS_Subset, FS_CardinalityType

-----------------------------------------------------------------------------
(* Types: the one conjunct that is not by shape is that every slot in use  *)
(* has a file open.                                                        *)
LiveFinite == IsFiniteSet(live) /\ Cardinality(live) \in Nat

LEMMA LiveIsFinite == DispatcherTypeOK => LiveFinite
<1>1. SUFFICES ASSUME DispatcherTypeOK PROVE LiveFinite
  OBVIOUS
<1>2. 0 \in Int /\ MaxFiles - 1 \in Int /\ live \in SUBSET (0 .. MaxFiles - 1)
  BY <1>1, DispatcherAssumption DEF DispatcherTypeOK
<1>3. QED
  BY <1>2, Intervals DEF LiveFinite

LEMMA ReleaseOpened ==
  ASSUME DispatcherTypeOK, Release
  PROVE  opened' \in Cardinality(live') .. MaxOpen
<1>1. IsFiniteSet(live) /\ Cardinality(live) \in Nat
  BY LiveIsFinite DEF LiveFinite
<1>2. live \intersect Slots = Slots
  BY DEF Slots
<1>3. /\ Cardinality(live \ Slots) = Cardinality(live) - Cardinality(Slots)
      /\ IsFiniteSet(Slots)
  BY <1>1, <1>2, FS_Difference, FS_Intersection DEF Slots
<1>4. Cardinality(Slots) \in Nat
  BY <1>3, FS_CardinalityType
<1>5. live' = live \ Slots /\ opened' = opened - Cardinality(Slots)
  BY DEF Release
<1>6. opened \in Cardinality(live) .. MaxOpen /\ MaxOpen \in Nat
  BY DispatcherAssumption DEF DispatcherTypeOK
<1>7. QED
  BY <1>1, <1>3, <1>4, <1>5, <1>6

LEMMA LoadOpened ==
  ASSUME DispatcherTypeOK, Load
  PROVE  opened' \in Cardinality(live') .. MaxOpen
<1>1. IsFiniteSet(live) /\ Cardinality(live) \in Nat
  BY LiveIsFinite DEF LiveFinite
<1>2. opened \in Cardinality(live) .. MaxOpen /\ MaxOpen \in Nat
  BY DispatcherAssumption DEF DispatcherTypeOK
<1>3. opened' = Least(opened + 1, MaxOpen)
  BY DEF Load
<1>4. CASE live' = live
  BY <1>1, <1>2, <1>3, <1>4 DEF Least
<1>5. CASE live' = live \union {count} /\ opened < MaxOpen
  <2>1. Cardinality(live') \in {Cardinality(live), Cardinality(live) + 1}
    BY <1>1, <1>5, FS_AddElement
  <2>2. QED
    BY <1>1, <1>2, <1>3, <1>5, <2>1 DEF Least
<1>6. QED
  BY <1>4, <1>5 DEF Load

LEMMA DispatcherTypeInit == DispatcherInit => DispatcherTypeOK
<1>1. SUFFICES ASSUME DispatcherInit PROVE DispatcherTypeOK
  OBVIOUS
<1>2. Cardinality({}) = 0
  BY FS_EmptySet
<1>3. opened \in Cardinality(live) .. MaxOpen
  BY <1>1, <1>2, DispatcherAssumption DEF DispatcherInit
<1>4. next \in 1 .. Len(Archives[dir]) + 1
  <2>1. Len(Archives[dir]) \in Nat
    BY <1>1, DispatcherAssumption DEF DispatcherInit
  <2>2. QED
    BY <1>1, <2>1 DEF DispatcherInit
<1>5. count \in 0 .. MaxFiles /\ itor \in 0 .. MaxFiles /\ total \in Int /\ matnum \in Int
  BY <1>1, DispatcherAssumption DEF DispatcherInit
<1>6. out \in Nat \union {FULL} /\ pats \in Seq(Nat) /\ found \in Nat /\ printed \in Nat
  BY <1>1 DEF DispatcherInit
<1>7. QED
  BY <1>1, <1>3, <1>4, <1>5, <1>6 DEF DispatcherInit, DispatcherTypeOK

LEMMA Entry ==
  ASSUME DispatcherTypeOK, next <= Len(Archives[dir])
  PROVE  /\ next \in 1 .. Len(Archives[dir])
         /\ next + 1 \in 1 .. Len(Archives[dir]) + 1
         /\ Archives[dir][next] \in BOOLEAN
<1>1. Archives[dir] \in Seq(BOOLEAN)
  BY DispatcherAssumption DEF DispatcherTypeOK
<1>2. next \in 1 .. Len(Archives[dir]) + 1
  BY DEF DispatcherTypeOK
<1>3. next \in 1 .. Len(Archives[dir])
  BY <1>1, <1>2
<1>4. QED
  BY <1>1, <1>2, <1>3

LEMMA PatsType ==
  ASSUME DispatcherTypeOK, pats # <<>>
  PROVE  Head(pats) \in Nat /\ Tail(pats) \in Seq(Nat)
BY DEF DispatcherTypeOK

LEMMA BeginType == DispatcherTypeOK /\ Begin /\ UNCHANGED conn => DispatcherTypeOK'
<1>1. SUFFICES ASSUME DispatcherTypeOK, Begin, UNCHANGED conn PROVE DispatcherTypeOK'
  OBVIOUS
<1>2. itor' \in 0 .. MaxFiles /\ total' \in Int /\ found' \in Nat /\ printed' \in Nat
  BY <1>1, DispatcherAssumption DEF Begin
<1>3. /\ phase' = "search" /\ anyFull' = FALSE
      /\ UNCHANGED <<out, pats, matnum>> /\ UNCHANGED conn
  BY <1>1 DEF Begin
<1>4. QED
  BY <1>1, <1>2, <1>3 DEF DispatcherTypeOK, conn

LEMMA DispatcherTypeStep == DispatcherTypeOK /\ [DispatcherNext]_dispatcherVars => DispatcherTypeOK'
<1> SUFFICES ASSUME DispatcherTypeOK, [DispatcherNext]_dispatcherVars PROVE DispatcherTypeOK'
  OBVIOUS
<1>1. CASE UNCHANGED dispatcherVars
  BY <1>1 DEF DispatcherTypeOK, dispatcherVars, conn, search
<1>2. ASSUME NEW d \in Dirs, Connect(d) PROVE DispatcherTypeOK'
  <2>1. Archives[d] \in Seq(BOOLEAN) /\ MaxFiles \in Nat
    BY DispatcherAssumption
  <2>2. 1 \in 1 .. Len(Archives[d]) + 1 /\ 0 \in 0 .. MaxFiles
    BY <2>1
  <2>3. QED
    BY <1>2, <2>2 DEF DispatcherTypeOK, Connect, search
<1>3. CASE NoDir
  <2>1. CASE test
    BY <1>3, <2>1, BeginType DEF NoDir
  <2>2. CASE ~test
    BY <1>3, <2>2 DEF DispatcherTypeOK, NoDir, conn, search
  <2>3. QED
    BY <2>1, <2>2
<1>4. CASE Load
  <2>1. next' \in 1 .. Len(Archives[dir']) + 1 /\ dir' \in Dirs
    BY <1>4, Entry DEF Load, DispatcherTypeOK
  <2>2. opened' \in Cardinality(live') .. MaxOpen
    BY <1>4, LoadOpened
  <2>3. /\ phase' \in {"load", "overrun"} /\ handle' \in {0, 1}
        /\ count' \in 0 .. MaxFiles /\ live' \subseteq 0 .. MaxFiles - 1
    <3>1. MaxFiles \in Nat /\ count \in 0 .. MaxFiles
      BY DispatcherAssumption DEF DispatcherTypeOK
    <3>2. count # MaxFiles => count \in 0 .. MaxFiles - 1 /\ count + 1 \in 0 .. MaxFiles
      BY <3>1
    <3>3. QED
      BY <1>4, <3>1, <3>2 DEF Load, DispatcherTypeOK
  <2>4. UNCHANGED <<test, gone, search>>
    BY <1>4 DEF Load
  <2>5. QED
    BY <2>1, <2>2, <2>3, <2>4 DEF DispatcherTypeOK, search
<1>5. CASE Loaded
  <2>1. CASE test
    BY <1>5, <2>1, BeginType DEF Loaded
  <2>2. CASE ~test
    BY <1>5, <2>2 DEF DispatcherTypeOK, Loaded, conn, search
  <2>3. QED
    BY <2>1, <2>2
<1>6. CASE Get
  BY <1>6, BeginType DEF Get
<1>7. CASE SearchStore
  <2>1. CASE itor \notin live
    BY <1>7, <2>1 DEF SearchStore, DispatcherTypeOK, conn, search
  <2>2. ASSUME NEW o \in OutCounts \union {FULL}, NEW c \in PatCounts,
               out' = o /\ pats' = c /\ matnum' = o,
               anyFull' = (anyFull \/ o = FULL),
               found' = found + (IF o = FULL THEN 0 ELSE o),
               phase' = "print", UNCHANGED <<itor, total, printed>>, UNCHANGED conn
        PROVE  DispatcherTypeOK'
    <3>1. o \in Nat \union {FULL} /\ o \in Int /\ c \in Seq(Nat)
      BY DispatcherAssumption
    <3>2. found' \in Nat
      BY <2>2, <3>1 DEF DispatcherTypeOK
    <3>3. anyFull' \in BOOLEAN
      BY <2>2
    <3>4. itor < count
      BY <1>7 DEF SearchStore
    <3>5. QED
      BY <2>2, <3>1, <3>2, <3>3, <3>4 DEF DispatcherTypeOK, conn
  <2>3. QED
    BY <1>7, <2>1, <2>2 DEF SearchStore
<1>8. CASE Materialization
  <2>1. Head(pats) \in Nat /\ Tail(pats) \in Seq(Nat)
    BY <1>8, PatsType DEF Materialization
  <2> DEFINE m == RowsPrinted(Head(pats))
  <2>2. m \in Nat
    BY <2>1 DEF DispatcherTypeOK, RowsPrinted, Least
  <2>3. /\ matnum' = matnum + m /\ printed' = printed + m
        /\ found' = found + Head(pats) /\ pats' = Tail(pats)
        /\ UNCHANGED <<phase, conn, itor, total, out, anyFull>>
    BY <1>8 DEF Materialization
  <2> HIDE DEF m
  <2>4. matnum' \in Int /\ printed' \in Nat /\ found' \in Nat
    BY <2>1, <2>2, <2>3 DEF DispatcherTypeOK
  <2>5. QED
    BY <2>1, <2>3, <2>4 DEF DispatcherTypeOK, conn
<1>9. CASE MaterializOutlier
  <2>1. out \in Int /\ total \in Int /\ matnum \in Int /\ printed \in Nat
    BY DispatcherAssumption DEF DispatcherTypeOK
  <2>2. printed' \in Nat /\ total' \in Int
    BY <1>9, <2>1 DEF MaterializOutlier, Lines, Least
  <2>5. itor' \in 0 .. MaxFiles
    BY <1>9, DispatcherAssumption DEF MaterializOutlier, DispatcherTypeOK
  <2>3. /\ itor' = itor + 1 /\ phase' = "search"
        /\ UNCHANGED <<conn, out, pats, matnum, found, anyFull>>
    BY <1>9 DEF MaterializOutlier
  <2>4. QED
    BY <2>2, <2>3, <2>5 DEF DispatcherTypeOK, conn
<1>10. CASE Searched
  BY <1>10 DEF Searched, DispatcherTypeOK, conn, search
<1>11. CASE DisConnect \/ Exit
  <2>1. Release /\ phase' \in {phase, "exited"}
    BY <1>11 DEF DisConnect, Exit
  <2>2. opened' \in Cardinality(live') .. MaxOpen
    BY <2>1, ReleaseOpened
  <2>3. /\ live' \subseteq live /\ gone' = TRUE
        /\ UNCHANGED <<dir, next, test, handle, count, search>>
    BY <2>1 DEF Release
  <2>4. QED
    BY <2>1, <2>2, <2>3 DEF DispatcherTypeOK, search
<1>12. QED
  BY <1>1, <1>2, <1>3, <1>4, <1>5, <1>6, <1>7, <1>8, <1>9, <1>10, <1>11 DEF DispatcherNext

(* Every slot in use has an open file, and no count leaves the range its   *)
(* use supposes, whatever commands come.                                   *)
THEOREM DispatcherTypeCorrect == DispatcherSpec => []DispatcherTypeOK
BY DispatcherTypeInit, DispatcherTypeStep, PTL DEF DispatcherSpec

-----------------------------------------------------------------------------
(* The budget.  Between two stores what is left of it and what was printed *)
(* add up to it, and nothing found was left out as long as any is left.    *)
Spent == /\ total > 0  => printed = MaxMat - total /\ found = printed
         /\ total <= 0 => printed = MaxMat /\ found >= MaxMat

(* While a store prints its templates, its outliers are off its share of   *)
(* the budget and not printed yet.                                         *)
Share == /\ total <= 0 => matnum = out /\ printed = MaxMat /\ found - out >= MaxMat
         /\ total > 0  => /\ matnum >= out
                          /\ printed = MaxMat - total + (matnum - out)
                          /\ out >= total => matnum = out
                          /\ out < total  => matnum <= total
                          /\ found >= printed + out
                          /\ matnum < total => found = printed + out

PrintInv == ~anyFull => IF phase = "print" THEN out \in Nat /\ Share ELSE Spent

LEMMA PrintInit == DispatcherInit => PrintInv
BY DispatcherAssumption DEF DispatcherInit, PrintInv, Spent

LEMMA PrintBegin == ASSUME Begin PROVE PrintInv'
BY DispatcherAssumption DEF Begin, PrintInv, Spent

(* Steps that leave the search alone and stay out of it                    *)
LEMMA PrintSame ==
  ASSUME PrintInv, UNCHANGED search, (phase = "print") <=> (phase' = "print")
  PROVE  PrintInv'
BY DEF PrintInv, Spent, Share, search

LEMMA PrintSearch == DispatcherTypeOK /\ PrintInv /\ SearchStore => PrintInv'
<1> SUFFICES ASSUME DispatcherTypeOK, PrintInv, SearchStore PROVE PrintInv'
  OBVIOUS
<1>1. CASE itor \notin live
  BY <1>1, PrintSame DEF SearchStore
<1>2. ASSUME NEW o \in OutCounts \union {FULL}, NEW c \in PatCounts,
             out' = o /\ pats' = c /\ matnum' = o,
             anyFull' = (anyFull \/ o = FULL),
             found' = found + (IF o = FULL THEN 0 ELSE o),
             phase' = "print", UNCHANGED <<itor, total, printed>>
      PROVE  PrintInv'
  <2>1. SUFFICES ASSUME ~anyFull' PROVE out' \in Nat /\ Share'
    BY <1>2 DEF PrintInv
  <2>2. ~anyFull /\ o # FULL /\ o \in Nat
    BY <1>2, <2>1, DispatcherAssumption
  <2>3. phase = "search" /\ Spent
    BY <2>2 DEF SearchStore, PrintInv
  <2>4. /\ out' = o /\ matnum' = o /\ found' = found + o
        /\ total' = total /\ printed' = printed
    BY <1>2, <2>2
  <2>5. total \in Int /\ found \in Nat /\ printed \in Nat /\ MaxMat \in Nat
    BY DispatcherAssumption DEF DispatcherTypeOK
  <2>6. QED
    BY <2>2, <2>3, <2>4, <2>5 DEF Spent, Share
<1>3. QED
  BY <1>1, <1>2 DEF SearchStore

LEMMA PrintTemplate == DispatcherTypeOK /\ PrintInv /\ Materialization => PrintInv'
<1> SUFFICES ASSUME DispatcherTypeOK, PrintInv, Materialization PROVE PrintInv'
  OBVIOUS
<1>1. SUFFICES ASSUME ~anyFull PROVE out' \in Nat /\ Share'
  BY DEF Materialization, PrintInv
<1> DEFINE h == Head(pats)
           m == RowsPrinted(h)
<1>2. h \in Nat
  BY PatsType DEF Materialization
<1>3. /\ matnum' = matnum + m /\ printed' = printed + m /\ found' = found + h
      /\ UNCHANGED <<total, out>>
  BY DEF Materialization
<1>4. out \in Nat /\ Share
  BY <1>1 DEF Materialization, PrintInv
<1>5. total \in Int /\ found \in Nat /\ printed \in Nat /\ MaxMat \in Nat /\ matnum \in Int
  BY DispatcherAssumption DEF DispatcherTypeOK
<1> HIDE DEF h
<1>6. CASE total <= 0
  BY <1>2, <1>3, <1>4, <1>5, <1>6 DEF Share, RowsPrinted
<1>7. CASE total > 0
  <2>1. CASE total - matnum > 0
    BY <1>2, <1>3, <1>4, <1>5, <1>7, <2>1 DEF Share, RowsPrinted, Least
  <2>2. CASE ~(total - matnum > 0)
    BY <1>2, <1>3, <1>4, <1>5, <1>7, <2>2 DEF Share, RowsPrinted
  <2>3. QED
    BY <2>1, <2>2
<1>8. QED
  BY <1>5, <1>6, <1>7

LEMMA PrintOutlier == DispatcherTypeOK /\ PrintInv /\ MaterializOutlier => PrintInv'
<1> SUFFICES ASSUME DispatcherTypeOK, PrintInv, MaterializOutlier PROVE PrintInv'
  OBVIOUS
<1>1. SUFFICES ASSUME ~anyFull PROVE Spent'
  BY DEF MaterializOutlier, PrintInv
<1>2. /\ printed' = printed + Lines
      /\ total' = total - matnum /\ found' = found
  BY DEF MaterializOutlier
<1>3. out \in Nat /\ Share
  BY <1>1 DEF MaterializOutlier, PrintInv
<1>4. total \in Int /\ found \in Nat /\ printed \in Nat /\ MaxMat \in Nat /\ matnum \in Int
  BY DispatcherAssumption DEF DispatcherTypeOK
<1>5. CASE total <= 0
  BY <1>2, <1>3, <1>4, <1>5 DEF Share, Spent, Lines, Least
<1>6. CASE total > 0
  BY <1>2, <1>3, <1>4, <1>6 DEF Share, Spent, Lines, Least
<1>7. QED
  BY <1>4, <1>5, <1>6

LEMMA PrintStep == DispatcherTypeOK /\ PrintInv /\ [DispatcherNext]_dispatcherVars => PrintInv'
<1> SUFFICES ASSUME DispatcherTypeOK, PrintInv, [DispatcherNext]_dispatcherVars PROVE PrintInv'
  OBVIOUS
<1>1. CASE UNCHANGED dispatcherVars
  BY <1>1, PrintSame DEF dispatcherVars
<1>2. CASE \E d \in Dirs : Connect(d)
  BY <1>2, PrintSame DEF Connect
<1>3. CASE NoDir \/ Loaded \/ Get
  BY <1>3, PrintSame, PrintBegin DEF NoDir, Loaded, Get
<1>4. CASE Load
  BY <1>4, PrintSame DEF Load
<1>5. CASE SearchStore
  BY <1>5, PrintSearch
<1>6. CASE Materialization
  BY <1>6, PrintTemplate
<1>7. CASE MaterializOutlier
  BY <1>7, PrintOutlier
<1>8. CASE Searched
  BY <1>8, PrintSame DEF Searched
<1>9. CASE DisConnect \/ Exit
  BY <1>9, PrintSame DEF DisConnect, Exit, Release
<1>10. QED
  BY <1>1, <1>2, <1>3, <1>4, <1>5, <1>6, <1>7, <1>8, <1>9 DEF DispatcherNext

(* A query prints all it found, or the budget, whichever is less, for any  *)
(* number of stores, templates and rows (SearchByWildcard_Seq).            *)
THEOREM BudgetSpent == DispatcherSpec => []AllPrinted
<1>1. DispatcherTypeOK /\ PrintInv => AllPrinted
  BY DispatcherAssumption DEF DispatcherTypeOK, PrintInv, Spent, AllPrinted, Least
<1>2. QED
  BY <1>1, DispatcherTypeInit, DispatcherTypeStep, PrintInit, PrintStep, PTL DEF DispatcherSpec

-----------------------------------------------------------------------------
(* The slots.  The archives of the directory that were tried and can be    *)
(* loaded are at least the stores counted, and exactly those unless the    *)
(* process ran out of files.                                               *)
Tried == {k \in 1 .. next - 1 : Archives[dir][k]}

Reaches == ~gone => 0 .. count - 1 \subseteq live

Counted == ~gone => /\ count <= Cardinality(Tried)
                    /\ phase # "overrun" /\ opened < MaxOpen => count = Cardinality(Tried)

AtEnd == /\ phase = "load" => ~gone
         /\ ~gone /\ phase \notin {"load", "overrun"} => next = Len(Archives[dir]) + 1

SlotInv == Reaches /\ Counted /\ AtEnd /\ SlotsDefined

LEMMA TriedFinite ==
  ASSUME DispatcherTypeOK
  PROVE  IsFiniteSet(Tried) /\ Cardinality(Tried) \in Nat
<1>1. 1 \in Int /\ next - 1 \in Int
  BY DispatcherAssumption DEF DispatcherTypeOK
<1>2. Tried \in SUBSET (1 .. next - 1)
  BY DEF Tried
<1>3. QED
  BY <1>1, <1>2, Intervals

LEMMA TriedNext ==
  ASSUME DispatcherTypeOK, next <= Len(Archives[dir]), next' = next + 1, dir' = dir
  PROVE  /\ Archives[dir][next]  => Cardinality(Tried') = Cardinality(Tried) + 1
         /\ ~Archives[dir][next] => Cardinality(Tried') = Cardinality(Tried)
<1>1. next \in 1 .. Len(Archives[dir]) /\ next \in Nat
  BY Entry
<1>2. IsFiniteSet(Tried) /\ next \notin Tried
  BY <1>1, TriedFinite DEF Tried
<1>3. 1 .. next' - 1 = (1 .. next - 1) \union {next}
  BY <1>1
<1>4. Archives[dir][next] => Tried' = Tried \union {next}
  BY <1>3 DEF Tried
<1>5. ~Archives[dir][next] => Tried' = Tried
  BY <1>3 DEF Tried
<1>6. QED
  BY <1>2, <1>4, <1>5, FS_AddElement

LEMMA TriedAll ==
  ASSUME DispatcherTypeOK, next = Len(Archives[dir]) + 1
  PROVE  Tried = Readable
<1>1. Archives[dir] \in Seq(BOOLEAN)
  BY DispatcherAssumption DEF DispatcherTypeOK
<1>2. DOMAIN Archives[dir] = 1 .. next - 1
  BY <1>1
<1>3. QED
  BY <1>2 DEF Tried, Readable

LEMMA TriedReadable ==
  ASSUME DispatcherTypeOK, next <= Len(Archives[dir]), Archives[dir][next]
  PROVE  Cardinality(Tried) + 1 <= Cardinality(Readable)
<1>1. Archives[dir] \in Seq(BOOLEAN) /\ next \in 1 .. Len(Archives[dir])
  BY Entry, DispatcherAssumption DEF DispatcherTypeOK
<1>2. DOMAIN Archives[dir] = 1 .. Len(Archives[dir]) /\ Len(Archives[dir]) \in Nat
  BY <1>1
<1>3. Readable \in SUBSET (1 .. Len(Archives[dir])) /\ 1 \in Int /\ Len(Archives[dir]) \in Int
  BY <1>2 DEF Readable
<1>4. IsFiniteSet(Readable)
  BY <1>3, Intervals
<1>5. Tried \union {next} \subseteq Readable /\ next \notin Tried
  BY <1>1, <1>2 DEF Tried, Readable
<1>6. Cardinality(Tried \union {next}) <= Cardinality(Readable)
  BY <1>4, <1>5, FS_Subset
<1>7. Cardinality(Tried \union {next}) = Cardinality(Tried) + 1
  BY <1>5, TriedFinite, FS_AddElement
<1>8. QED
  BY <1>6, <1>7

LEMMA SlotInit == DispatcherInit => SlotInv
BY DEF DispatcherInit, SlotInv, Reaches, Counted, AtEnd, SlotsDefined

(* Steps of a search use the slots and leave them alone.                   *)
LEMMA SlotSame ==
  ASSUME SlotInv, UNCHANGED conn,
         phase' = phase \/ (phase # "overrun" /\ phase' \notin {"load", "overrun"}
                     /\ (phase' = "null" => gone)
                     /\ (phase = "load" => next = Len(Archives[dir]) + 1))
  PROVE  SlotInv'
BY DEF conn, SlotInv, Reaches, Counted, AtEnd, SlotsDefined, Tried, Readable

LEMMA SlotConnect ==
  ASSUME NEW d \in Dirs, DispatcherTypeOK, Connect(d)
  PROVE  SlotInv'
<1>1. Tried' = {}
  BY DEF Connect, Tried
<1>2. Cardinality(Tried') = 0
  BY <1>1, FS_EmptySet
<1>3. count' = 0 /\ phase' = "load" /\ gone' = FALSE
  BY DEF Connect
<1>4. 0 .. count' - 1 = {}
  BY <1>3
<1>5. QED
  BY <1>2, <1>3, <1>4 DEF SlotInv, Reaches, Counted, AtEnd, SlotsDefined

LEMMA SlotLoad == DispatcherTypeOK /\ SlotInv /\ Load => SlotInv'
<1> SUFFICES ASSUME DispatcherTypeOK, SlotInv, Load PROVE SlotInv'
  OBVIOUS
<1>1. ~gone /\ ~gone' /\ dir' = dir /\ next' = next + 1 /\ phase' \in {"load", "overrun"}
  BY DEF Load, SlotInv, AtEnd
<1>2. AtEnd'
  BY <1>1 DEF AtEnd
<1>3. /\ Cardinality(Tried) \in Nat
      /\ count <= Cardinality(Tried)
      /\ opened < MaxOpen => count = Cardinality(Tried)
  BY <1>1, TriedFinite DEF SlotInv, Counted, Load
<1>4. /\ Archives[dir][next]  => Cardinality(Tried') = Cardinality(Tried) + 1
      /\ ~Archives[dir][next] => Cardinality(Tried') = Cardinality(Tried)
  BY <1>1, TriedNext DEF Load
<1>5. /\ opened \in Int /\ MaxOpen \in Nat /\ opened <= MaxOpen
      /\ count \in Nat /\ MaxFiles \in Nat
      /\ opened' = Least(opened + 1, MaxOpen)
  <2>1. Cardinality(live) \in Nat /\ MaxOpen \in Nat /\ MaxFiles \in Nat
    BY LiveIsFinite, DispatcherAssumption DEF LiveFinite
  <2>2. QED
    BY <2>1 DEF DispatcherTypeOK, Load
<1>6. opened' < MaxOpen => opened < MaxOpen
  BY <1>5 DEF Least
<1>7. CASE opened < MaxOpen /\ Archives[dir][next] /\ count # MaxFiles
  <2>1. /\ live' = live \union {count} /\ count' = count + 1 /\ phase' = "load"
    BY <1>7 DEF Load
  <2>2. Reaches'
    <3>1. 0 .. count - 1 \subseteq live
      BY <1>1 DEF SlotInv, Reaches
    <3>2. QED
      BY <1>5, <2>1, <3>1 DEF Reaches
  <2>3. Counted'
    BY <1>3, <1>4, <1>5, <1>7, <2>1 DEF Counted
  <2>4. QED
    BY <1>2, <2>1, <2>2, <2>3 DEF SlotInv, SlotsDefined
<1>8. CASE opened < MaxOpen /\ Archives[dir][next] /\ count = MaxFiles
  <2>1. live' = live /\ count' = count /\ phase' = "overrun"
    BY <1>8 DEF Load
  <2>2. Cardinality(Tried) + 1 <= Cardinality(Readable)
    BY <1>8, TriedReadable DEF Load
  <2>3. Readable' = Readable
    BY <1>1 DEF Readable
  <2>4. Cardinality(Readable) \in Nat
    <3>1. Archives[dir] \in Seq(BOOLEAN)
      BY DispatcherAssumption DEF DispatcherTypeOK
    <3>2. Readable \in SUBSET (1 .. Len(Archives[dir])) /\ 1 \in Int /\ Len(Archives[dir]) \in Int
      BY <3>1 DEF Readable
    <3>3. QED
      BY <3>2, Intervals
  <2>5. SlotsDefined'
    BY <1>3, <1>5, <1>8, <2>1, <2>2, <2>3, <2>4 DEF SlotsDefined
  <2>6. Reaches'
    BY <1>1, <2>1 DEF SlotInv, Reaches
  <2>7. Counted'
    <3>1. count' <= Cardinality(Tried')
      BY <1>3, <1>4, <1>5, <1>8, <2>1
    <3>2. QED
      BY <2>1, <3>1 DEF Counted
  <2>8. QED
    BY <1>2, <2>5, <2>6, <2>7 DEF SlotInv
<1>9. CASE ~(opened < MaxOpen /\ Archives[dir][next])
  <2>1. live' = live /\ count' = count /\ phase' = "load"
    BY <1>9 DEF Load
  <2>2. Reaches'
    BY <1>1, <2>1 DEF SlotInv, Reaches
  <2>3. Counted'
    <3>1. Archives[dir][next] \in BOOLEAN
      BY Entry DEF Load
    <3>2. QED
      BY <1>3, <1>4, <1>5, <1>6, <1>9, <2>1, <3>1 DEF Counted
  <2>4. QED
    BY <1>2, <2>1, <2>2, <2>3 DEF SlotInv, SlotsDefined
<1>10. QED
  BY <1>7, <1>8, <1>9

LEMMA SlotRelease == DispatcherTypeOK /\ SlotInv /\ (DisConnect \/ Exit) => SlotInv'
<1> SUFFICES ASSUME DispatcherTypeOK, SlotInv, DisConnect \/ Exit PROVE SlotInv'
  OBVIOUS
<1>1. gone' /\ phase' \in {"idle", "exited"}
  BY DEF DisConnect, Exit, Release, DispatcherTypeOK
<1>2. QED
  BY <1>1 DEF SlotInv, Reaches, Counted, AtEnd, SlotsDefined

LEMMA SlotStep == DispatcherTypeOK /\ SlotInv /\ [DispatcherNext]_dispatcherVars => SlotInv'
<1> SUFFICES ASSUME DispatcherTypeOK, SlotInv, [DispatcherNext]_dispatcherVars PROVE SlotInv'
  OBVIOUS
<1>1. CASE UNCHANGED dispatcherVars
  BY <1>1, SlotSame DEF dispatcherVars
<1>2. ASSUME NEW d \in Dirs, Connect(d) PROVE SlotInv'
  BY <1>2, SlotConnect
<1>3. CASE NoDir \/ Get
  BY <1>3, SlotSame DEF NoDir, Get, Begin
<1>4. CASE Load
  BY <1>4, SlotLoad
<1>5. CASE Loaded
  <2>1. next = Len(Archives[dir]) + 1
    <3>1. Archives[dir] \in Seq(BOOLEAN) /\ next \in 1 .. Len(Archives[dir]) + 1
      BY DispatcherAssumption DEF DispatcherTypeOK
    <3>2. QED
      BY <1>5, <3>1 DEF Loaded
  <2>2. QED
    BY <1>5, <2>1, SlotSame DEF Loaded, Begin
<1>6. CASE SearchStore
  <2>1. phase = "search" /\ UNCHANGED conn
    BY <1>6 DEF SearchStore
  <2>2. CASE itor \in live
    BY <1>6, <2>1, <2>2, SlotSame DEF SearchStore
  <2>3. CASE itor \notin live
    <3>1. itor \in 0 .. count - 1
      BY <1>6, DispatcherAssumption DEF SearchStore, DispatcherTypeOK
    <3>2. gone /\ phase' = "null"
      BY <1>6, <2>3, <3>1 DEF SearchStore, SlotInv, Reaches
    <3>3. QED
      BY <2>1, <3>2, SlotSame
  <2>4. QED
    BY <2>2, <2>3
<1>7. CASE Materialization
  BY <1>7, SlotSame DEF Materialization
<1>8. CASE MaterializOutlier \/ Searched
  BY <1>8, SlotSame DEF MaterializOutlier, Searched
<1>9. CASE DisConnect \/ Exit
  BY <1>9, SlotRelease
<1>10. QED
  BY <1>1, <1>2, <1>3, <1>4, <1>5, <1>6, <1>7, <1>8, <1>9 DEF DispatcherNext

(* A NULL slot is used only after a DisConnect, the array overrun only by  *)
(* a directory with more archives than it has slots.                       *)
THEOREM SlotsSafe == DispatcherSpec => []SlotsDefined
<1>1. SlotInv => SlotsDefined
  BY DEF SlotInv
<1>2. QED
  BY <1>1, DispatcherTypeInit, DispatcherTypeStep, SlotInit, SlotStep, PTL DEF DispatcherSpec

(* Every archive that can be loaded is searched, as long as the process    *)
(* can open files, whatever directories were connected before.             *)
THEOREM NoneSkipped == DispatcherSpec => []EveryArchive
<1>1. DispatcherTypeOK /\ SlotInv => EveryArchive
  BY TriedAll DEF SlotInv, Reaches, Counted, AtEnd, EveryArchive
<1>2. QED
  BY <1>1, DispatcherTypeInit, DispatcherTypeStep, SlotInit, SlotStep, PTL DEF DispatcherSpec
=============================================================================
