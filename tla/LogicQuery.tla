----------------------------- MODULE LogicQuery -----------------------------
(***************************************************************************)
(* How one log store answers queries with "and", "or" and "not" and keeps  *)
(* the results of a session (LogStore_API.cpp, SearchByWildcard_Token and  *)
(* the SearchByLogic family).                                              *)
(*                                                                         *)
(* A query is a sequence of segments.  Segments are separated by "and" or  *)
(* "not"; each is a list of terms separated by "or", and one that follows  *)
(* a "not" is a single term to be excluded.  The store searches a segment  *)
(* in every template, and in the lines that match no template (OUTL),      *)
(* within the rows the segments before it have left.  What it has after a  *)
(* segment is cached under the text of the query up to that segment.       *)
(*                                                                         *)
(* Bitmaps are those of RowMaps; when a merge is undefined the machine     *)
(* stops.                                                                  *)
(***************************************************************************)
EXTENDS RowMaps, Integers, Sequences, FiniteSets

CONSTANTS Pats,        \* m_patterns: the templates of the store
          OUTL,        \* OUTL_PAT_NAME
          Row,         \* Row[k]: the rows of template k, or the outlier lines
          Terms,       \* the strings searched for
          Wild, Stem,  \* those of the form a*b, and their part a
          Match,       \* where each term occurs, see MatchType
          Queries,     \* the queries the user may ask
          MaxSessions, \* bound on the cached results, for TLC
          Absent, Null

Key == Pats \union {OUTL}

(* text: the term is in the constant text of the template.  subpat: a      *)
(* sub-pattern that all values of a variable share contains it, and before *)
(* lists the rows found in the variables to its left.  rows: the rows that *)
(* have it in the value of another variable, or in the outlier line.       *)
(* overrun: the term has several tokens, and the search of the whole       *)
(* template merges rows into a map that is full already, of one place for  *)
(* the tokens or of outliers (PatternSearch.OverrunsKnown).                *)
MatchType == [text : BOOLEAN, subpat : BOOLEAN, overrun : BOOLEAN,
              before : SUBSET Nat, rows : SUBSET Nat]

Segment == [neg : BOOLEAN, terms : Seq(Terms)]
RowMap  == [full : BOOLEAN, rows : SUBSET Nat]

ASSUME QueryAssumption ==
  /\ Absent # Null /\ Absent # Undefined /\ Null # Undefined
  /\ \A x \in {Absent, Null, Undefined} : x \notin RowMap
  /\ OUTL \notin Pats
  /\ Row \in [Key -> SUBSET Nat]
  /\ \A p \in Pats : Row[p] # {}
  /\ Wild \subseteq Terms
  /\ Stem \in [Wild -> Terms \ Wild]
  /\ Match \in [Terms -> [Key -> MatchType]]
  /\ \A t \in Terms, k \in Key :
       /\ Match[t][k].rows \subseteq Row[k]
       /\ Match[t][k].before \subseteq Match[t][k].rows
  /\ \A t \in Terms : ~Match[t][OUTL].text /\ ~Match[t][OUTL].subpat /\ ~Match[t][OUTL].overrun
  /\ Queries \subseteq Seq(Segment)
  /\ \A q \in Queries : /\ Len(q) > 0
                        /\ \A j \in 1 .. Len(q) : /\ Len(q[j].terms) > 0
                                                  /\ q[j].neg => Len(q[j].terms) = 1

VARIABLES pc,       \* "idle", "run" or "undefined"
          args,     \* the query, as the searches have left its text
          seg, term,\* the segment searched, and the term in its or-list
          key,      \* the text of the query up to seg, taken when seg began
          bitmaps,  \* the rows selected so far
          temps,    \* tempbitmaps: the rows of the terms of an or-list
          sessions, \* m_sessions
          asked, answer, \* the last query asked, and the rows shown
          misnamed  \* history: texts that a result of another text was cached under

vars == <<pc, args, seg, term, key, bitmaps, temps, sessions, asked, answer, misnamed>>

Nothing == [k \in Key |-> Absent]
-----------------------------------------------------------------------------
IsMap(b)        == b \notin {Absent, Null, Undefined}
BeSizeFul(b, k) == b.full \/ b.rows = Row[k]

(* Mutant: a search that finds nothing leaves an empty map.                *)
OrEmpty(b) == b

OrNull(b)       == IF b # Undefined /\ Empty(b) THEN Null ELSE b

(* SearchSingleInPattern, SearchMultiInPattern on an empty map             *)
Found(m) == CASE m.overrun                          -> Undefined
              [] ~m.overrun /\ m.text               -> Full({})
              [] ~m.overrun /\ ~m.text /\ m.subpat  -> Full(m.before)
              [] OTHER                              -> Partial(m.rows)

Search(t, p) == IF t \in Wild THEN Partial({}) ELSE Found(Match[t][p])

(* Their _RefMap versions, within the rows S of a partial map, which merge *)
(* only into maps that are not full                                        *)
SearchIn(t, p, S) == LET m == Match[t][p] IN
                     IF t \in Wild THEN {} ELSE IF m.text THEN S ELSE S \intersect m.rows

(* SearchByLogic_norm: the last, or only, term of a segment                *)
Norm(t, k) ==
  LET b == bitmaps[k] IN
  IF k # OUTL
  THEN CASE b = Absent                       -> OrNull(Search(t, k))
         [] b = Null                         -> Null
         [] IsMap(b) /\ BeSizeFul(b, k)      -> OrNull(Search(t, k))
         [] IsMap(b) /\ ~BeSizeFul(b, k)     -> OrNull(Partial(SearchIn(t, k, b.rows)))
  ELSE CASE b = Absent /\ t \in Wild         -> Full({})
         [] b = Absent /\ t \notin Wild      -> OrNull(Partial(Match[t][k].rows))
         [] IsMap(b) /\ ~b.full /\ ~Empty(b) /\ t \notin Wild
                                -> OrNull(Partial(b.rows \intersect Match[t][k].rows))
         [] OTHER                            -> b

(* What is printed: a full map of outliers has a negative count.           *)
Selected(b, k) == IF ~IsMap(b) THEN {} ELSE IF b.full THEN Row[k] ELSE b.rows
Shown(b, k)    == IF k = OUTL /\ IsMap(b) /\ b.full THEN {} ELSE Selected(b, k)

(* Mutant: the outliers are searched without beReverse.                    *)
NotForward(t, k) ==
  LET b == bitmaps[k] IN
  IF k = OUTL /\ IsMap(b) /\ ~b.full THEN OrNull(Partial(b.rows \intersect Match[t][k].rows))
  ELSE IF ~IsMap(b) THEN Null
  ELSE OrNull(Partial(Selected(b, k) \ Selected(Search(t, k), k)))

(* SearchByLogic_not                                                       *)
Not(t, k) ==
  LET b == bitmaps[k]
      s == Search(t, k)
  IN CASE b \in {Absent, Null}                              -> Null
       [] IsMap(b) /\ k # OUTL /\ BeSizeFul(b, k) ->
            IF s = Undefined THEN Undefined
            ELSE IF BeSizeFul(s, k) THEN Null
            ELSE IF Empty(s) THEN Full({}) ELSE Partial(Row[k] \ s.rows)
       [] IsMap(b) /\ k # OUTL /\ ~BeSizeFul(b, k)          ->
            OrNull(Partial(b.rows \ SearchIn(t, k, b.rows)))
       [] IsMap(b) /\ k = OUTL /\ ~b.full /\ ~Empty(b) /\ t \notin Wild ->
            OrNull(Partial(b.rows \ Match[t][k].rows))
       [] OTHER                                             -> b

(* What norm_RefMap makes of the entry old of tempbitmaps for a template   *)
(* where the term was found as r.                                          *)
Stored(old, r) == CASE r = Undefined                             -> Undefined
                    [] r # Undefined /\ Empty(r)              -> IF old = Absent THEN Null ELSE old
                    [] r # Undefined /\ ~Empty(r)             -> IF IsMap(old) THEN Union(old, r) ELSE r

(* Mutant: the rows left by the earlier segments are not consulted.        *)
RefPatAnew(t, p) == Stored(temps[p], Search(t, p))

RefPat(t, p) ==
  LET b == bitmaps[p] IN
  CASE b = Null                                           -> temps[p]
    [] b = Absent \/ (IsMap(b) /\ BeSizeFul(b, p))        -> Stored(temps[p], Search(t, p))
    [] IsMap(b) /\ ~BeSizeFul(b, p)                       ->
         Stored(temps[p], Partial(SearchIn(t, p, b.rows)))

(* ... and of the entry of the outliers.  When an earlier term has one, it *)
(* is merged or replaced by what m_patterns.end() happens to refer to; and *)
(* within the rows of an earlier segment it is replaced, or a null pointer *)
(* is used.                                                                *)
RefOutliers(t) ==
  LET b == bitmaps[OUTL]
      old == temps[OUTL]
      r == IF t \in Wild THEN Full({}) ELSE Partial(Match[t][OUTL].rows)
  IN CASE b = Absent /\ (Empty(r) \/ old = Absent) -> {Stored(old, r)}
       [] b = Absent /\ ~Empty(r) /\ old # Absent  ->
            {r, IF old = Null THEN Undefined ELSE Union(old, r)}
       [] IsMap(b) /\ ~b.full /\ ~Empty(b)         ->
            {IF old = Null THEN Undefined
             ELSE OrNull(Partial(IF t \in Wild THEN {} ELSE b.rows \intersect r.rows))}
       [] OTHER                                    -> {old}

(* Mutant: the union is called on a null map.                              *)
JoinedUnchecked(b, extra) == CASE b = Undefined \/ extra = Absent -> b
                               [] extra # Absent /\ b = Null      -> Undefined
                               [] IsMap(b) /\ IsMap(extra)       -> Union(b, extra)
                               [] IsMap(b) /\ extra = Null       -> b

(* The union that ends SearchByLogic_norm_or                               *)
Joined(b, extra) == CASE b = Undefined \/ extra = Absent     -> b
                      [] extra # Absent /\ b \in {Absent, Null} -> extra
                      [] IsMap(extra) /\ IsMap(b)            -> Union(b, extra)
                      [] extra = Null /\ IsMap(b)            -> b

(* strtok cuts a term a*b at its star, in args                             *)
Cut == IF args[seg].terms[term] \in Wild
       THEN [args EXCEPT ![seg].terms[term] = Stem[@]]
       ELSE args

-----------------------------------------------------------------------------
Prefix(q, n) == SubSeq(q, 1, n)

(* Mutant: the session keeps the rows from before the segment.             *)
RememberBefore(name, value) ==
  [s \in DOMAIN sessions \union {name} |-> IF s = name THEN bitmaps ELSE sessions[s]]

Remember(name, value) ==
  [s \in DOMAIN sessions \union {name} |-> IF s = name THEN value ELSE sessions[s]]

Init == /\ pc = "idle" /\ args = <<>> /\ seg = 0 /\ term = 0 /\ key = <<>>
        /\ bitmaps = Nothing /\ temps = Nothing
        /\ sessions = [s \in {} |-> Nothing]
        /\ asked = <<>> /\ answer = [k \in Key |-> {}] /\ misnamed = {}

(* A query arrives.  The bound leaves out queries that would cache more    *)
(* than MaxSessions results; nothing is ever removed.                      *)
Submit(q) ==
  /\ pc = "idle"
  /\ Cardinality(DOMAIN sessions \union {Prefix(q, n) : n \in 1 .. Len(q)}) <= MaxSessions
  /\ pc' = "run" /\ args' = q /\ asked' = q
  /\ seg' = 1 /\ term' = 1 /\ key' = Prefix(q, 1)
  /\ UNCHANGED <<bitmaps, temps, sessions, answer, misnamed>>

Searching == pc = "run" /\ seg <= Len(args)
Cached    == term = 1 /\ key \in DOMAIN sessions
SoleTerm  == Len(args) = 1 /\ ~args[1].neg /\ Len(args[1].terms) = 1
Now       == args[seg].terms[term]

(* Mutant: the loop over the segments does not advance.                    *)
SameSegment == seg' = seg /\ term' = 1 /\ key' = key /\ temps' = Nothing

NextSegment == /\ seg' = seg + 1 /\ term' = 1
               /\ key' = IF seg < Len(args) THEN Prefix(args', seg + 1) ELSE key
               /\ temps' = Nothing

(* The segment is done: cache what it leaves, unless memory was corrupted. *)
Finish(value, name) ==
  IF \E k \in Key : value[k] = Undefined
  THEN pc' = "undefined" /\ UNCHANGED <<args, seg, term, key, bitmaps, temps, sessions, misnamed>>
  ELSE /\ bitmaps' = value
       /\ sessions' = Remember(name, value)
       /\ misnamed' = misnamed \union ({name} \ {Prefix(asked, seg)})
       /\ args' = Cut
       /\ NextSegment
       /\ UNCHANGED pc

Hit == /\ Searching /\ Cached
       /\ bitmaps' = sessions[key]
       /\ args' = args
       /\ NextSegment
       /\ UNCHANGED <<pc, sessions, asked, answer, misnamed>>

(* A query of one term, cached under the text that strtok has left of it   *)
TokenSearch ==
  /\ Searching /\ ~Cached /\ SoleTerm
  /\ LET t == Now
         o == IF t \in Wild THEN Stem[t] ELSE t
     IN Finish([k \in Key |-> IF k = OUTL THEN Partial(Match[o][k].rows)
                                          ELSE OrNull(Search(t, k))],
               Prefix(Cut, 1))
  /\ UNCHANGED <<asked, answer>>

OrTerm ==
  /\ Searching /\ ~Cached /\ ~args[seg].neg
  /\ term < Len(args[seg].terms)
  /\ \E o \in RefOutliers(Now) :
       LET value == [k \in Key |-> IF k = OUTL THEN o ELSE RefPat(Now, k)] IN
       IF \E k \in Key : value[k] = Undefined
       THEN pc' = "undefined" /\ UNCHANGED <<args, term, temps>>
       ELSE temps' = value /\ term' = term + 1 /\ args' = Cut /\ UNCHANGED pc
  /\ UNCHANGED <<seg, key, bitmaps, sessions, asked, answer, misnamed>>

LastTerm ==
  /\ Searching /\ ~Cached /\ ~SoleTerm /\ ~args[seg].neg
  /\ term = Len(args[seg].terms)
  /\ Finish([k \in Key |-> Joined(Norm(Now, k), temps[k])], key)
  /\ UNCHANGED <<asked, answer>>

NotTerm ==
  /\ Searching /\ ~Cached /\ args[seg].neg
  /\ Finish([k \in Key |-> Not(Now, k)], key)
  /\ UNCHANGED <<asked, answer>>

Answer == /\ pc = "run" /\ seg > Len(args)
          /\ pc' = "idle"
          /\ answer' = [k \in Key |-> Shown(bitmaps[k], k)]
          /\ bitmaps' = Nothing
          /\ UNCHANGED <<args, seg, term, key, temps, sessions, asked, misnamed>>

Work == Hit \/ TokenSearch \/ OrTerm \/ LastTerm \/ NotTerm \/ Answer

Next == Work \/ \E q \in Queries : Submit(q)

Spec == Init /\ [][Next]_vars /\ WF_vars(Work)
-----------------------------------------------------------------------------
(* What a query asks for (README.md, "multiple grep ... -v ... -E"): the   *)
(* lines that have one of the terms of every segment, and none of those    *)
(* excluded.                                                               *)
Has(t, k) == LET m == Match[t][k] IN IF m.text \/ m.subpat THEN Row[k] ELSE m.rows

Meaning(q, k) ==
  {r \in Row[k] : \A j \in 1 .. Len(q) :
     q[j].neg # (\E n \in 1 .. Len(q[j].terms) : r \in Has(q[j].terms[n], k))}

(* The queries the code answers as meant.  The others begin with "not",    *)
(* have a term a*b, an or-list of three terms, one whose last term is in   *)
(* the text of a template while another selects some of its rows, a later  *)
(* segment with a term that a sub-pattern contains, or a term whose search *)
(* in some template merges rows into a full map by itself.                 *)
FullAt(t, p) == Match[t][p].text \/ Match[t][p].subpat

Clash(terms, p) == /\ FullAt(terms[Len(terms)], p)
                   /\ \E n \in 1 .. Len(terms) - 1 :
                        ~FullAt(terms[n], p) /\ Match[terms[n]][p].rows # {}

Safe(q) ==
  /\ ~q[1].neg
  /\ \A j \in 1 .. Len(q) :
       /\ Len(q[j].terms) <= 2
       /\ \A n \in 1 .. Len(q[j].terms) : q[j].terms[n] \notin Wild
       /\ \A n \in 1 .. Len(q[j].terms), p \in Pats : ~Match[q[j].terms[n]][p].overrun
       /\ \A p \in Pats : ~Clash(q[j].terms, p)
       /\ j > 1 => \A n \in 1 .. Len(q[j].terms), p \in Pats :
                     ~Match[q[j].terms[n]][p].text => ~Match[q[j].terms[n]][p].subpat

(* strtok leaves a of a term a*b, so the result of the query a*b is cached *)
(* as that of a, and that of "a*b and c" as that of "a and c".  Trusted:   *)
(* no result of another text was cached for the text, or for a text it     *)
(* begins with.                                                            *)
Trusted(q) == \A n \in 1 .. Len(q) : Prefix(q, n) \notin misnamed
-----------------------------------------------------------------------------
(* Types.  A map of a template is null rather than empty (the searches     *)
(* test for either, and only for null after the last segment), and a map   *)
(* lists rows of its own template.                                         *)
MapOK(b, k) == \/ b \in {Absent, Null}
               \/ /\ b.full \in BOOLEAN /\ b.rows \subseteq Row[k]
                  /\ k # OUTL => ~Empty(b)

TypeOK == /\ pc \in {"idle", "run", "undefined"}
          /\ seg \in 0 .. Len(args) + 1
          /\ pc = "run" /\ seg <= Len(args) => term \in 1 .. Len(args[seg].terms)
          /\ \A k \in Key : MapOK(bitmaps[k], k) /\ MapOK(temps[k], k)
          /\ \A s \in DOMAIN sessions, k \in Key : MapOK(sessions[s][k], k)
          /\ \A k \in Key : answer[k] \subseteq Row[k]

(* A safe query is answered with the rows it asks for, whatever queries    *)
(* came before it and whichever of its prefixes they left in the cache,    *)
(* unless one with a term a*b left its own result under the query's text.  *)
AnswerExact == (pc = "idle" /\ asked # <<>> /\ Safe(asked) /\ Trusted(asked))
                 => \A k \in Key : answer[k] = Meaning(asked, k)

(* Every cached result of a safe query text is the result of that text: a  *)
(* search, its or-lists and its null maps never leave it something else,   *)
(* and only a term a*b that strtok cuts makes one text pass for another.   *)
SessionsTrue == \A s \in DOMAIN sessions :
                  Safe(s) /\ Trusted(s) => \A k \in Key : Selected(sessions[s][k], k) = Meaning(s, k)

(* A safe query never makes the store merge the rows of one term into the  *)
(* map of another that is full (LogStructure.h:492), nor use a null map.   *)
(* Safe leaves out the terms whose own search may do the first.            *)
SafeDefined == pc = "undefined" => ~Safe(asked)

(* Each further "and" or "not" can only narrow: what is cached for a text  *)
(* lies within what is cached for the text without its last segment, for   *)
(* unsafe queries too (the searches push the rows left so far down), as    *)
(* long as both are results of their own texts (Trusted).                  *)
Narrowing ==
  \A s \in DOMAIN sessions : Len(s) > 1 /\ ~s[1].neg /\ Trusted(s) =>
    LET before == Prefix(s, Len(s) - 1) IN
      /\ before \in DOMAIN sessions
      /\ \A k \in Key : Selected(sessions[s][k], k) \subseteq Selected(sessions[before][k], k)

(* Every query is answered, unless the program has left the memory of its  *)
(* bitmaps.  The store is single-threaded and its loops run to their end.  *)
Answered == (pc = "run") ~> (pc # "run")

(* README.md: "multiple grep to execute and logic, -v to execute not logic *)
(* and -E to execute or logic": every query is answered with the rows it   *)
(* asks for.                                                               *)
AnswerIsGrep == pc # "run" => /\ pc = "idle"
                              /\ asked # <<>> => \A k \in Key : answer[k] = Meaning(asked, k)
=============================================================================
