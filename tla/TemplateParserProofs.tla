------------------------ MODULE TemplateParserProofs ------------------------
(***************************************************************************)
(* TLAPS proofs about TemplateParser, for every log, any choice of lines   *)
(* to sample and any threshold: a stored line is read back as it was, a    *)
(* template is cut as its lines were, and a sampled line fits its          *)
(* template.                                                               *)
(***************************************************************************)
EXTENDS TemplateParser, FiniteSetTheorems, WellFoundedInduction, TLAPS

(***************************************************************************)
(* Induction.  The induction theorems of the library take a predicate,     *)
(* which cannot be instantiated here; that a set of numbers has a least    *)
(* one is a fact about sets, and is enough.                                *)
(***************************************************************************)
LEMMA LeastNumber ==
  ASSUME NEW T, T \subseteq Nat, T # {}
  PROVE  \E m \in T : \A k \in T : m <= k
<1>1. PICK m \in T : \A y \in T : ~ (<<y, m>> \in OpToRel(<, Nat))
  BY WFMin, NatLessThanWellFounded
<1>2. \A y \in T : ~ (<<y, m>> \in {ss \in Nat \X Nat : ss[1] < ss[2]})
  BY <1>1 DEF OpToRel
<1>3. ASSUME NEW y \in T PROVE m <= y
  <2>1. <<y, m>> \in Nat \X Nat
    OBVIOUS
  <2> QED
    BY <1>2, <2>1
<1> QED
  BY <1>3

LEMMA SetInduction ==
  ASSUME NEW P, 0 \in P, \A n \in Nat : n \in P => n + 1 \in P
  PROVE  Nat \subseteq P
<1> SUFFICES ASSUME ~(Nat \subseteq P) PROVE FALSE
  OBVIOUS
<1>1. PICK m \in Nat \ P : \A k \in Nat \ P : m <= k
  BY LeastNumber
<1>2. m - 1 \in Nat /\ m - 1 \in P
  BY <1>1
<1> QED
  BY <1>1, <1>2

(* A function that is built step by step, from c on                        *)
Unrolls(f, n, c, step) == f[0] = c /\ \A i \in 1 .. n : f[i] = step[<<i, f[i - 1]>>]

LEMMA StepsExist ==
  ASSUME NEW n \in Nat, NEW S, NEW c \in S, NEW step \in [(1 .. n) \X S -> S]
  PROVE  \E f \in [0 .. n -> S] : Unrolls(f, n, c, step)
<1> DEFINE Good(f, m) == f[0] = c /\ \A i \in 1 .. m : f[i] = step[<<i, f[i - 1]>>]
           P == {m \in Nat : m <= n => \E f \in [0 .. m -> S] : Good(f, m)}
<1>1. 0 \in P
  <2>1. Good([i \in 0 .. 0 |-> c], 0)
    OBVIOUS
  <2> QED
    BY <2>1
<1>2. ASSUME NEW m \in Nat, m \in P PROVE m + 1 \in P
  <2> SUFFICES ASSUME m + 1 <= n PROVE \E f \in [0 .. m + 1 -> S] : Good(f, m + 1)
    OBVIOUS
  <2>1. PICK f \in [0 .. m -> S] : Good(f, m)
    BY <1>2
  <2> DEFINE x == step[<<m + 1, f[m]>>]
             g == [i \in 0 .. m + 1 |-> IF i = m + 1 THEN x ELSE f[i]]
  <2>2. x \in S
    OBVIOUS
  <2>3. g \in [0 .. m + 1 -> S]
    BY <2>2
  <2>4. ASSUME NEW i \in 1 .. m + 1 PROVE g[i] = step[<<i, g[i - 1]>>]
    <3>1. CASE i = m + 1
      <4>1. i - 1 = m /\ m \in 0 .. m + 1 /\ m # m + 1 /\ m + 1 \in 0 .. m + 1
        BY <3>1
      <4>2. g[i] = x /\ g[i - 1] = f[m]
        BY <3>1, <4>1
      <4> QED
        BY <3>1, <4>2
    <3>2. CASE i # m + 1
      BY <3>2, <2>1
    <3> QED
      BY <3>1, <3>2
  <2>5. g[0] = c
    BY <2>1
  <2>6. Good(g, m + 1)
    BY <2>4, <2>5
  <2> HIDE DEF g
  <2> QED
    BY <2>3, <2>6
<1>3. n \in P
  <2> HIDE DEF P
  <2> QED
    BY <1>1, <1>2, SetInduction
<1>4. PICK f \in [0 .. n -> S] : Good(f, n)
  BY <1>3
<1>5. Unrolls(f, n, c, step)
  BY <1>4 DEF Unrolls
<1> QED
  BY <1>4, <1>5

(* InOrder collects what it should, step by step.                          *)
Collects(u, S, n) ==
  /\ u[0] = <<>> /\ InOrder(S, n) = u[n]
  /\ \A k \in 1 .. n : u[k] = IF k \in S THEN Append(u[k - 1], k) ELSE u[k - 1]

LEMMA InOrderSteps ==
  ASSUME NEW S, NEW n \in Nat
  PROVE  \E u \in [0 .. n -> Seq(S \cap Nat)] : Collects(u, S, n)
<1> DEFINE Q == Seq(S \cap Nat)
           next(w, k) == IF k \in S THEN Append(w, k) ELSE w
           step == [x \in (1 .. n) \X Q |-> next(x[2], x[1])]
           Def(u) == [k \in 0 .. n |-> IF k = 0 THEN <<>> ELSE next(u[k - 1], k)]
           v == CHOOSE v : v = Def(v)
<1>1. \A k \in 1 .. n, w \in Q : next(w, k) \in Q
  OBVIOUS
<1>2. <<>> \in Q
  OBVIOUS
<1>3. InOrder(S, n) = v[n]
  BY DEF InOrder
<1> HIDE DEF Q, next
<1>4. step \in [(1 .. n) \X Q -> Q]
  BY <1>1
<1>5. PICK u \in [0 .. n -> Q] : u[0] = <<>> /\ \A k \in 1 .. n : u[k] = step[<<k, u[k - 1]>>]
  <2> HIDE DEF step
  <2>1. PICK u \in [0 .. n -> Q] : Unrolls(u, n, <<>>, step)
    BY <1>2, <1>4, StepsExist
  <2> QED
    BY <2>1 DEF Unrolls
<1>6. ASSUME NEW k \in 1 .. n PROVE u[k] = next(u[k - 1], k)
  <2>1. <<k, u[k - 1]>> \in (1 .. n) \X Q
    OBVIOUS
  <2> QED
    BY <1>5, <2>1
<1>7. u = Def(u)
  BY <1>5, <1>6
<1>8. v = Def(v)
  <2> HIDE DEF Def
  <2> QED
    BY <1>7
<1>9. v[0] = <<>> /\ \A k \in 1 .. n : v[k] = next(v[k - 1], k)
  <2> HIDE DEF v
  <2> QED
    BY <1>8
<1>10. v[n] = u[n]
  <2> DEFINE P == {k \in Nat : k \in 0 .. n => v[k] = u[k]}
  <2> HIDE DEF v
  <2>1. 0 \in P
    BY <1>5, <1>9
  <2>2. ASSUME NEW k \in Nat, k \in P PROVE k + 1 \in P
    <3> SUFFICES ASSUME k + 1 \in 0 .. n PROVE v[k + 1] = u[k + 1]
      OBVIOUS
    <3>1. v[k] = u[k] /\ k + 1 \in 1 .. n /\ (k + 1) - 1 = k
      BY <2>2
    <3> QED
      BY <3>1, <1>6, <1>9
  <2> HIDE DEF P
  <2>3. Nat \subseteq P
    BY <2>1, <2>2, SetInduction
  <2> QED
    BY <2>3 DEF P
<1> HIDE DEF v
<1> QED
  BY <1>3, <1>5, <1>6, <1>10 DEF Q, next, Collects

(* InOrder of a set has its members, of one number that number, and of no  *)
(* number up to n nothing.                                                 *)
Collected(q, S, k) ==
  /\ q \in Seq(S \cap 1 .. k)
  /\ \A j \in S \cap 1 .. k : \E i \in DOMAIN q : q[i] = j
  /\ S \cap 1 .. k = {} => q = <<>>
  /\ \A x \in 1 .. k : S \cap 1 .. k = {x} => q = <<x>>

LEMMA OneMore ==
  ASSUME NEW k \in Nat
  PROVE  1 .. k + 1 = (1 .. k) \union {k + 1} /\ k + 1 \notin 1 .. k
OBVIOUS

LEMMA CollectedNext ==
  ASSUME NEW S, NEW k \in Nat, NEW w, Collected(w, S, k)
  PROVE  Collected(IF k + 1 \in S THEN Append(w, k + 1) ELSE w, S, k + 1)
<1>1. CASE k + 1 \notin S
  <2>1. S \cap 1 .. k + 1 = S \cap 1 .. k
    BY <1>1, OneMore
  <2>2. ASSUME NEW x \in 1 .. k + 1, S \cap 1 .. k + 1 = {x} PROVE w = <<x>>
    <3>1. x \in 1 .. k
      BY <1>1, <2>2, OneMore
    <3> QED
      BY <2>1, <2>2, <3>1 DEF Collected
  <2> QED
    BY <1>1, <2>1, <2>2 DEF Collected
<1>2. CASE k + 1 \in S
  <2> DEFINE A == S \cap 1 .. k
             B == A \union {k + 1}
  <2>1. S \cap 1 .. k + 1 = B
    BY <1>2, OneMore
  <2>2. /\ w \in Seq(A) /\ (A = {} => w = <<>>)
        /\ \A j \in A : \E i \in DOMAIN w : w[i] = j
    BY DEF Collected
  <2>3. w \in Seq(B) /\ k + 1 \in B
    BY <2>2
  <2>4. /\ Append(w, k + 1) \in Seq(B)
        /\ DOMAIN w = 1 .. Len(w) /\ Len(w) \in Nat
        /\ DOMAIN Append(w, k + 1) = 1 .. Len(w) + 1
        /\ \A i \in 1 .. Len(w) : Append(w, k + 1)[i] = w[i]
        /\ Append(w, k + 1)[Len(w) + 1] = k + 1
    <3> HIDE DEF B
    <3> QED
      BY <2>3
  <2>5. ASSUME NEW j \in B PROVE \E i \in DOMAIN Append(w, k + 1) : Append(w, k + 1)[i] = j
    <3>1. CASE j = k + 1
      <4>1. Len(w) + 1 \in DOMAIN Append(w, k + 1)
        BY <2>4
      <4> QED
        BY <2>4, <3>1, <4>1
    <3>2. CASE j \in A
      <4>1. PICK i \in DOMAIN w : w[i] = j
        BY <2>2, <3>2
      <4>2. i \in 1 .. Len(w) /\ i \in DOMAIN Append(w, k + 1)
        BY <2>4, <4>1
      <4> QED
        BY <2>4, <4>1, <4>2
    <3> QED
      BY <3>1, <3>2
  <2>6. ASSUME NEW x \in 1 .. k + 1, B = {x} PROVE Append(w, k + 1) = <<x>>
    <3>1. x = k + 1 /\ A = {}
      BY <2>6, OneMore
    <3>2. w = <<>>
      BY <2>2, <3>1
    <3> QED
      BY <3>1, <3>2
  <2>7. B # {}
    OBVIOUS
  <2> HIDE DEF B
  <2> QED
    BY <1>2, <2>1, <2>4, <2>5, <2>6, <2>7 DEF Collected
<1> QED
  BY <1>1, <1>2

LEMMA InOrderProperties ==
  ASSUME NEW S, NEW n \in Nat
  PROVE  Collected(InOrder(S, n), S, n)
<1>1. PICK u \in [0 .. n -> Seq(S \cap Nat)] : Collects(u, S, n)
  BY InOrderSteps
<1> DEFINE P == {k \in Nat : k <= n => Collected(u[k], S, k)}
<1>2. 0 \in P
  <2>1. u[0] = <<>>
    BY <1>1 DEF Collects
  <2>2. 1 .. 0 = {} /\ <<>> \in Seq(S \cap 1 .. 0)
    OBVIOUS
  <2> QED
    BY <2>1, <2>2 DEF Collected
<1>3. ASSUME NEW k \in Nat, k \in P PROVE k + 1 \in P
  <2>1. CASE k + 1 <= n
    <3>1. k + 1 \in 1 .. n /\ k <= n /\ (k + 1) - 1 = k
      BY <2>1
    <3>2. Collected(u[k], S, k)
      BY <1>3, <3>1
    <3>3. u[k + 1] = IF k + 1 \in S THEN Append(u[k], k + 1) ELSE u[k]
      BY <1>1, <3>1 DEF Collects
    <3> QED
      BY <3>2, <3>3, CollectedNext
  <2>2. CASE ~(k + 1 <= n)
    BY <2>2
  <2> QED
    BY <2>1, <2>2
<1>4. Nat \subseteq P
  <2> HIDE DEF P
  <2> QED
    BY <1>2, <1>3, SetInduction
<1>5. Collected(u[n], S, n)
  BY <1>4
<1> QED
  BY <1>1, <1>5 DEF Collects
-----------------------------------------------------------------------------
(***************************************************************************)
(* The inductive invariant.  Every variable of a template is numbered; a   *)
(* sampled line is, token by token, a variable of its template, equal or   *)
(* the beginning of a longer word; and once lines are matched, a line has  *)
(* a template it fits, and the columns that belong to one variable hold    *)
(* its values, one for each line of the template, in order.                *)
(***************************************************************************)
Tokens == {Var} \union UNION {UNION {ToSet(text[n]) : n \in DOMAIN text} : text \in Inputs}

Templates == [tokens : Seq(Tokens), vars : Seq(Nat)]

TypeOK ==
  /\ pc \in {"sample", "match", "stored"}
  /\ log \in Inputs /\ ended \in BOOLEAN /\ line \in Nat \ {0}
  /\ templates \in Seq(Templates)
  /\ home \in Seq([line : Nat, template : Nat])
  /\ eid \in Seq(Int)

WellFormed(t) ==
  /\ t.tokens \in Seq(Tokens) /\ t.vars \in Seq(DOMAIN t.tokens)
  /\ \A i \in DOMAIN t.tokens : t.tokens[i] = Var => \E v \in DOMAIN t.vars : t.vars[v] = i

Numbered == \A e \in DOMAIN templates : WellFormed(templates[e])

Holds(t, l) ==
  /\ Len(t.tokens) = Len(l)
  /\ \A i \in DOMAIN l : t.tokens[i] \in {Var, l[i]} \/ IsPrefix(l[i], t.tokens[i])

SampledHeld == \A h \in ToSet(home) :
  /\ h.line \in DOMAIN log /\ h.template \in DOMAIN templates
  /\ Holds(templates[h.template], log[h.line])

Names == UNION {{Name(e, v - 1) : v \in DOMAIN templates[e].vars} : e \in DOMAIN templates}

Matched == pc \in {"match", "stored"} =>
  /\ DOMAIN columns = Names /\ Len(eid) = line - 1
  /\ \A n \in DOMAIN eid : n \in DOMAIN log /\
       \/ eid[n] = -1
       \/ /\ eid[n] \in DOMAIN templates
          /\ Len(templates[eid[n]].tokens) = Len(log[n]) /\ Fits(templates[eid[n]], log[n])

Lines(e) == {m \in DOMAIN eid : eid[m] = e}

Column(e, v) ==
  LET c == columns[Name(e, v - 1)] IN
  /\ c \in Seq(Tokens) /\ Len(c) = Cardinality(Lines(e))
  /\ \A n \in Lines(e) : c[Row(n)] = log[n][templates[e].vars[v]]

Filled == pc \in {"match", "stored"} => \A e \in DOMAIN templates :
            OwnNames(e) => \A v \in DOMAIN templates[e].vars : Column(e, v)

Unmatched == pc = "sample" => eid = <<>>

IInv == TypeOK /\ Numbered /\ CutTheSame /\ SampledHeld /\ Unmatched /\ Matched /\ Filled
-----------------------------------------------------------------------------
(***************************************************************************)
(* Lines, and one step of parsing on one template                          *)
(***************************************************************************)
Usable(l) == /\ l \in Seq(Tokens) /\ IsLine(l)
             /\ \A i \in DOMAIN l : l[i] # Var /\ IsPrefix(l[i], l[i])

LEMMA PrefixOfItself ==
  ASSUME NEW s, IsSeq(s)
  PROVE  IsPrefix(s, s)
<1>1. Len(s) \in Nat
  BY DEF IsSeq
<1> QED
  BY <1>1 DEF IsPrefix

LEMMA LinesUsable ==
  ASSUME NEW text \in Inputs
  PROVE  /\ Len(text) \in Nat /\ DOMAIN text = 1 .. Len(text)
         /\ \A n \in DOMAIN text : Usable(text[n])
<1>1. IsSeq(text)
  BY ParserAssumption
<1>2. ASSUME NEW n \in DOMAIN text PROVE Usable(text[n])
  <2>1. /\ IsSeq(text[n]) /\ IsLine(text[n])
        /\ \A i \in DOMAIN text[n] : IsSeq(text[n][i]) /\ text[n][i] # Var
    BY ParserAssumption
  <2>2. ToSet(text[n]) \subseteq Tokens
    BY DEF Tokens
  <2>3. text[n] \in Seq(Tokens)
    BY <2>1, <2>2 DEF IsSeq
  <2> QED
    BY <2>1, <2>3, PrefixOfItself DEF Usable
<1> QED
  BY <1>1, <1>2 DEF IsSeq

LEMMA LeastIn ==
  ASSUME NEW T \in SUBSET Nat, T # {}
  PROVE  Min(T) \in T
BY LeastNumber DEF Min

LEMMA FreshHolds ==
  ASSUME NEW l, Usable(l)
  PROVE  /\ Fresh(l) \in Templates /\ WellFormed(Fresh(l))
         /\ Readable(Fresh(l)) /\ Holds(Fresh(l), l)
<1>1. /\ l \in Seq(Tokens) /\ IsLine(l) /\ \A i \in DOMAIN l : l[i] # Var
  BY DEF Usable
<1>2. Fresh(l).tokens = l /\ Fresh(l).vars = <<>>
  BY DEF Fresh
<1>3. WellFormed(Fresh(l))
  BY <1>1, <1>2 DEF WellFormed
<1>4. Readable(Fresh(l)) /\ Holds(Fresh(l), l)
  BY <1>1, <1>2 DEF Readable, Holds
<1> QED
  BY <1>1, <1>3, <1>4 DEF Fresh, Templates

(* What a merge does to each token, and to the numbers of the variables    *)
LEMMA MergeTokens ==
  ASSUME NEW l, Usable(l), NEW t, WellFormed(t), Len(t.tokens) = Len(l)
  PROVE  /\ Merge(t, l).tokens \in Seq(Tokens)
         /\ DOMAIN Merge(t, l).tokens = DOMAIN l /\ DOMAIN t.tokens = DOMAIN l
         /\ DOMAIN l = 1 .. Len(l) /\ Len(Merge(t, l).tokens) = Len(l)
         /\ \A i \in DOMAIN l : IF Differs(t, l, i) THEN Merge(t, l).tokens[i] = Var
                                                     ELSE Merge(t, l).tokens[i] = t.tokens[i]
<1>1. /\ l \in Seq(Tokens) /\ t.tokens \in Seq(Tokens) /\ Var \in Tokens
  BY DEF Usable, WellFormed, Tokens
<1>2. /\ DOMAIN l = 1 .. Len(l) /\ DOMAIN t.tokens = DOMAIN l /\ Len(l) \in Nat
      /\ \A i \in 1 .. Len(l) : t.tokens[i] \in Tokens
  BY <1>1
<1> DEFINE new == [i \in DOMAIN l |-> IF Differs(t, l, i) THEN Var ELSE t.tokens[i]]
<1>3. Merge(t, l).tokens = new
  BY DEF Merge
<1>4. new \in [1 .. Len(l) -> Tokens]
  BY <1>1, <1>2
<1>5. new \in Seq(Tokens) /\ Len(new) = Len(l) /\ DOMAIN new = DOMAIN l
  <2> HIDE DEF new
  <2> QED
    BY <1>2, <1>4
<1> QED
  BY <1>2, <1>3, <1>5

LEMMA MergeVars ==
  ASSUME NEW l, Usable(l), NEW t, WellFormed(t), Len(t.tokens) = Len(l)
  PROVE  WellFormed(Merge(t, l))
<1> DEFINE new == {i \in DOMAIN l : Differs(t, l, i)}
           q == InOrder(new, Len(l))
           D == DOMAIN l
<1>1. /\ DOMAIN Merge(t, l).tokens = D /\ DOMAIN t.tokens = D /\ D = 1 .. Len(l)
      /\ Merge(t, l).tokens \in Seq(Tokens)
      /\ \A i \in D : IF i \in new THEN Merge(t, l).tokens[i] = Var
                                    ELSE Merge(t, l).tokens[i] = t.tokens[i]
  BY MergeTokens
<1>2. Len(l) \in Nat
  BY DEF Usable
<1>3. q \in Seq(new \cap D) /\ \A i \in new \cap D : \E k \in DOMAIN q : q[k] = i
  <2>1. Collected(q, new, Len(l))
    BY <1>2, InOrderProperties
  <2> HIDE DEF q, new, D
  <2> QED
    BY <1>1, <2>1 DEF Collected
<1>4. t.vars \in Seq(D) /\ \A i \in D : t.tokens[i] = Var => \E v \in DOMAIN t.vars : t.vars[v] = i
  BY <1>1 DEF WellFormed
<1>5. Merge(t, l).vars = t.vars \o q
  BY DEF Merge
<1> HIDE DEF new, q, D
<1>6. q \in Seq(D)
  BY <1>3
<1> DEFINE r == t.vars \o q
<1>7. /\ r \in Seq(D) /\ Len(t.vars) \in Nat /\ Len(q) \in Nat
      /\ DOMAIN t.vars = 1 .. Len(t.vars) /\ DOMAIN q = 1 .. Len(q)
      /\ DOMAIN r = 1 .. Len(t.vars) + Len(q)
      /\ \A v \in 1 .. Len(t.vars) : r[v] = t.vars[v]
      /\ \A k \in 1 .. Len(q) : r[Len(t.vars) + k] = q[k]
  BY <1>4, <1>6
<1> HIDE DEF r
<1>8. ASSUME NEW i \in D, Merge(t, l).tokens[i] = Var PROVE \E v \in DOMAIN r : r[v] = i
  <2>1. CASE i \in new
    <3>1. PICK k \in DOMAIN q : q[k] = i
      BY <1>3, <2>1
    <3>2. Len(t.vars) + k \in DOMAIN r /\ r[Len(t.vars) + k] = i
      BY <1>7, <3>1
    <3> QED
      BY <3>2
  <2>2. CASE i \notin new
    <3>1. PICK v \in DOMAIN t.vars : t.vars[v] = i
      BY <1>1, <1>4, <1>8, <2>2
    <3>2. v \in DOMAIN r /\ r[v] = i
      BY <1>7, <3>1
    <3> QED
      BY <3>2
  <2> QED
    BY <2>1, <2>2
<1> QED
  BY <1>1, <1>5, <1>7, <1>8 DEF WellFormed, r

LEMMA MergeReadable ==
  ASSUME NEW l, Usable(l), NEW t, WellFormed(t), Len(t.tokens) = Len(l),
         Similar(t, l), Tab \notin ToSet(l)
  PROVE  Readable(Merge(t, l))
<1>1. /\ DOMAIN l = 1 .. Len(l) /\ Len(Merge(t, l).tokens) = Len(l) /\ Len(l) \in Nat
      /\ \A i \in DOMAIN l : ~Differs(t, l, i) => Merge(t, l).tokens[i] = t.tokens[i]
  BY MergeTokens DEF Usable
<1>2. ASSUME NEW i \in DOMAIN l, l[i] \in Delims PROVE Merge(t, l).tokens[i] \in Delims
  <2>1. l[i] # Tab
    BY DEF ToSet
  <2>2. t.tokens[i] = l[i]
    BY <1>2, <2>1 DEF Similar
  <2>3. ~Differs(t, l, i)
    BY <2>2 DEF Differs, Usable
  <2> QED
    BY <1>1, <1>2, <2>2, <2>3
<1>3. IsLine(l)
  BY DEF Usable
<1>4. ASSUME NEW i \in 1 .. Len(l) - 1
      PROVE  Merge(t, l).tokens[i] \in Delims \/ Merge(t, l).tokens[i + 1] \in Delims
  <2>1. i \in DOMAIN l /\ i + 1 \in DOMAIN l
    BY <1>1
  <2>2. l[i] \in Delims \/ l[i + 1] \in Delims
    BY <1>3 DEF IsLine
  <2> QED
    BY <1>2, <2>1, <2>2
<1> QED
  BY <1>1, <1>4 DEF Readable, IsLine

LEMMA MergeHolds ==
  ASSUME NEW l, Usable(l), NEW t, WellFormed(t), Len(t.tokens) = Len(l)
  PROVE  /\ Holds(Merge(t, l), l)
         /\ \A k : Holds(t, k) /\ DOMAIN k = 1 .. Len(k) => Holds(Merge(t, l), k)
<1>1. /\ DOMAIN l = 1 .. Len(l) /\ Len(Merge(t, l).tokens) = Len(l)
      /\ \A i \in DOMAIN l : IF Differs(t, l, i) THEN Merge(t, l).tokens[i] = Var
                                                  ELSE Merge(t, l).tokens[i] = t.tokens[i]
  BY MergeTokens
<1>2. ASSUME NEW i \in DOMAIN l
      PROVE  Merge(t, l).tokens[i] = Var \/ IsPrefix(l[i], Merge(t, l).tokens[i])
  BY <1>1 DEF Differs
<1>3. ASSUME NEW k, Holds(t, k), DOMAIN k = 1 .. Len(k) PROVE Holds(Merge(t, l), k)
  <2>1. DOMAIN k = DOMAIN l /\ Len(Merge(t, l).tokens) = Len(k)
    BY <1>1, <1>3 DEF Holds
  <2>2. ASSUME NEW i \in DOMAIN k
        PROVE  Merge(t, l).tokens[i] \in {Var, k[i]} \/ IsPrefix(k[i], Merge(t, l).tokens[i])
    BY <1>1, <1>3, <2>1 DEF Holds
  <2> QED
    BY <2>1, <2>2 DEF Holds
<1> QED
  BY <1>1, <1>2, <1>3 DEF Holds

LEMMA MergeTyped ==
  ASSUME NEW l, Usable(l), NEW t, WellFormed(t), Len(t.tokens) = Len(l)
  PROVE  Merge(t, l) \in Templates
<1>1. /\ Merge(t, l).tokens \in Seq(Tokens) /\ DOMAIN Merge(t, l).tokens = 1 .. Len(l)
      /\ Len(l) \in Nat
  BY MergeTokens DEF Usable
<1>2. Merge(t, l).vars \in Seq(1 .. Len(l))
  BY <1>1, MergeVars DEF WellFormed
<1>3. Merge(t, l).vars \in Seq(Nat)
  BY <1>1, <1>2
<1>4. Merge(t, l) = [tokens |-> Merge(t, l).tokens, vars |-> Merge(t, l).vars]
  BY DEF Merge
<1> QED
  BY <1>1, <1>3, <1>4 DEF Templates

LEMMA Appended ==
  ASSUME NEW S, NEW s \in Seq(S), NEW x \in S
  PROVE  /\ Append(s, x) \in Seq(S) /\ Len(s) \in Nat /\ Len(Append(s, x)) = Len(s) + 1
         /\ DOMAIN s = 1 .. Len(s) /\ DOMAIN Append(s, x) = 1 .. Len(s) + 1
         /\ DOMAIN Append(s, x) = DOMAIN s \union {Len(s) + 1} /\ Len(s) + 1 \notin DOMAIN s
         /\ \A i \in DOMAIN s : Append(s, x)[i] = s[i]
         /\ Append(s, x)[Len(s) + 1] = x
         /\ ToSet(Append(s, x)) = ToSet(s) \union {x}
<1>1. /\ Append(s, x) \in Seq(S) /\ Len(s) \in Nat /\ Len(Append(s, x)) = Len(s) + 1
      /\ DOMAIN s = 1 .. Len(s) /\ DOMAIN Append(s, x) = 1 .. Len(s) + 1
      /\ \A i \in DOMAIN s : Append(s, x)[i] = s[i]
      /\ Append(s, x)[Len(s) + 1] = x
  OBVIOUS
<1>2. DOMAIN Append(s, x) = DOMAIN s \union {Len(s) + 1} /\ Len(s) + 1 \notin DOMAIN s
  BY <1>1
<1>3. ToSet(Append(s, x)) = ToSet(s) \union {x}
  <2> DEFINE r == Append(s, x)
             D == DOMAIN s
             m == Len(s) + 1
  <2>1. DOMAIN r = D \union {m} /\ (\A i \in D : r[i] = s[i]) /\ r[m] = x
    BY <1>1, <1>2
  <2> HIDE DEF r, m
  <2>2. ASSUME NEW y PROVE (\E i \in DOMAIN r : y = r[i]) <=> ((\E i \in D : y = s[i]) \/ y = x)
    BY <2>1
  <2>3. ASSUME NEW y PROVE y \in ToSet(r) <=> (y \in ToSet(s) \/ y = x)
    BY <2>2 DEF ToSet
  <2> QED
    BY <2>3 DEF r
<1> QED
  BY <1>1, <1>2, <1>3

LEMMA Replaced ==
  ASSUME NEW S, NEW s \in Seq(S), NEW e \in DOMAIN s, NEW x \in S,
         NEW r, r = [s EXCEPT ![e] = x]
  PROVE  /\ r \in Seq(S) /\ DOMAIN r = DOMAIN s
         /\ r[e] = x /\ \A f \in DOMAIN s \ {e} : r[f] = s[f]
<1>1. Len(s) \in Nat /\ DOMAIN s = 1 .. Len(s) /\ \A f \in 1 .. Len(s) : s[f] \in S
  OBVIOUS
<1>2. r \in [1 .. Len(s) -> S]
  BY <1>1
<1>3. r \in Seq(S)
  BY <1>1, <1>2
<1> QED
  BY <1>3

(* Where a sampled line ends up                                            *)
Placed(e, l) ==
  /\ home' = Append(home, [line |-> line, template |-> e])
  /\ templates' \in Seq(Templates)
  /\ DOMAIN templates' = DOMAIN templates \union {e}
  /\ \A f \in DOMAIN templates \ {e} : templates'[f] = templates[f]
  /\ WellFormed(templates'[e]) /\ Holds(templates'[e], l)
  /\ Readable(templates'[e]) \/ Tab \in ToSet(l)
  /\ e \in DOMAIN templates =>
       \A k : Holds(templates[e], k) /\ DOMAIN k = 1 .. Len(k) => Holds(templates'[e], k)

LEMMA ParsePlaces ==
  ASSUME NEW l, Usable(l), templates \in Seq(Templates), Numbered, ParseTemplate(l)
  PROVE  \E e \in Nat : Placed(e, l)
<1> DEFINE near == {e \in Pool(l) : Similar(templates[e], l)}
<1>0. Len(templates) \in Nat /\ DOMAIN templates = 1 .. Len(templates)
  OBVIOUS
<1>1. CASE near = {}
  <2> DEFINE n == Len(templates) + 1
  <2>1. /\ templates' = Append(templates, Fresh(l))
        /\ home' = Append(home, [line |-> line, template |-> n])
    BY <1>1 DEF ParseTemplate
  <2>2. Fresh(l) \in Templates
    BY FreshHolds
  <2>3. /\ templates' \in Seq(Templates) /\ DOMAIN templates' = DOMAIN templates \union {n}
        /\ n \notin DOMAIN templates /\ templates'[n] = Fresh(l)
        /\ \A f \in DOMAIN templates : templates'[f] = templates[f]
    BY <2>1, <2>2, Appended
  <2> HIDE DEF n
  <2>4. Placed(n, l)
    BY <2>1, <2>3, FreshHolds DEF Placed
  <2> QED
    BY <1>0, <2>4 DEF n
<1>2. CASE near # {}
  <2>1. near \subseteq Nat /\ near \subseteq DOMAIN templates
    BY <1>0 DEF Pool
  <2>2. Min(near) \in near
    BY <1>2, <2>1, LeastIn
  <2>3. PICK e \in near : e = Min(near)
    BY <2>2
  <2>4. /\ templates' = [templates EXCEPT ![e] = Merge(templates[e], l)]
        /\ home' = Append(home, [line |-> line, template |-> e])
    BY <1>2, <2>3 DEF ParseTemplate
  <2>5. /\ e \in DOMAIN templates /\ Len(templates[e].tokens) = Len(l) /\ Similar(templates[e], l)
        /\ e \in Nat /\ WellFormed(templates[e])
    BY <2>1 DEF Pool, Numbered
  <2> HIDE DEF near
  <2> DEFINE m == Merge(templates[e], l)
  <2>6. m \in Templates
    BY <2>5, MergeTyped
  <2>7. WellFormed(m) /\ Holds(m, l) /\ (Readable(m) \/ Tab \in ToSet(l))
        /\ \A k : Holds(templates[e], k) /\ DOMAIN k = 1 .. Len(k) => Holds(m, k)
    BY <2>5, MergeVars, MergeHolds, MergeReadable
  <2> HIDE DEF m
  <2>8. /\ templates' \in Seq(Templates) /\ DOMAIN templates' = DOMAIN templates \union {e}
        /\ templates'[e] = m
        /\ \A f \in DOMAIN templates \ {e} : templates'[f] = templates[f]
    <3>1. templates' = [templates EXCEPT ![e] = m]
      BY <2>4 DEF m
    <3>2. e \in DOMAIN templates
      BY <2>5
    <3>3. /\ templates' \in Seq(Templates) /\ DOMAIN templates' = DOMAIN templates
          /\ templates'[e] = m /\ \A f \in DOMAIN templates \ {e} : templates'[f] = templates[f]
      BY <2>6, <3>1, <3>2, Replaced, Zenon
    <3> QED
      BY <3>2, <3>3
  <2>9. Placed(e, l)
    BY <2>4, <2>7, <2>8 DEF Placed
  <2> QED
    BY <2>5, <2>9
<1> QED
  BY <1>1, <1>2
-----------------------------------------------------------------------------
(***************************************************************************)
(* The rows of a template                                                  *)
(***************************************************************************)
LEMMA RowsOfLines ==
  ASSUME eid \in Seq(Int), NEW e
  PROVE  /\ IsFiniteSet(Lines(e)) /\ Cardinality(Lines(e)) \in Nat
         /\ \A n \in Lines(e) : Row(n) \in 1 .. Cardinality(Lines(e))
<1>1. Len(eid) \in Nat /\ DOMAIN eid = 1 .. Len(eid)
  OBVIOUS
<1>2. IsFiniteSet(1 .. Len(eid))
  BY <1>1, FS_Interval
<1>3. Lines(e) \in SUBSET (1 .. Len(eid))
  BY <1>1 DEF Lines
<1>4. IsFiniteSet(Lines(e)) /\ Cardinality(Lines(e)) \in Nat
  BY <1>2, <1>3, FS_Subset, FS_CardinalityType
<1>5. ASSUME NEW n \in Lines(e) PROVE Row(n) \in 1 .. Cardinality(Lines(e))
  <2> DEFINE T == {m \in 1 .. n : eid[m] = eid[n]}
  <2>1. n \in T /\ T \in SUBSET Lines(e) /\ Row(n) = Cardinality(T)
    BY <1>1 DEF Lines, Row
  <2> HIDE DEF T
  <2>2. IsFiniteSet(T) /\ Cardinality(T) <= Cardinality(Lines(e))
    BY <1>4, <2>1, FS_Subset
  <2>3. Cardinality(T) \in Nat /\ Cardinality(T) # 0
    BY <2>1, <2>2, FS_CardinalityType, FS_EmptySet
  <2> QED
    BY <1>4, <2>1, <2>2, <2>3
<1> QED
  BY <1>4, <1>5

LEMMA RowsAppended ==
  ASSUME eid \in Seq(Int), NEW x \in Int, eid' = Append(eid, x), NEW e,
         NEW k \in Nat, k = Len(eid) + 1
  PROVE  /\ \A n \in DOMAIN eid : Row(n)' = Row(n)
         /\ x # e => Lines(e)' = Lines(e)
         /\ x = e => /\ Lines(e)' = Lines(e) \union {k}
                     /\ Cardinality(Lines(e)') = Cardinality(Lines(e)) + 1
                     /\ Row(k)' = Cardinality(Lines(e)) + 1
<1>1. /\ Len(eid) \in Nat /\ DOMAIN eid = 1 .. Len(eid) /\ DOMAIN eid' = 1 .. k
      /\ DOMAIN eid' = DOMAIN eid \union {k} /\ k \notin DOMAIN eid
      /\ (\A i \in DOMAIN eid : eid'[i] = eid[i]) /\ eid'[k] = x
  BY Appended
<1>2. ASSUME NEW n \in DOMAIN eid PROVE Row(n)' = Row(n)
  <2>1. {m \in 1 .. n : eid'[m] = eid'[n]} = {m \in 1 .. n : eid[m] = eid[n]}
    BY <1>1
  <2> QED
    BY <2>1 DEF Row
<1>3. CASE x # e
  BY <1>1, <1>2, <1>3 DEF Lines
<1>4. CASE x = e
  <2>1. Lines(e)' = Lines(e) \union {k} /\ k \notin Lines(e)
    BY <1>1, <1>4 DEF Lines
  <2>2. Cardinality(Lines(e)') = Cardinality(Lines(e)) + 1
    BY <2>1, RowsOfLines, FS_AddElement
  <2>3. {m \in 1 .. k : eid'[m] = eid'[k]} = Lines(e)'
    BY <1>1, <1>4 DEF Lines
  <2>4. Row(k)' = Cardinality(Lines(e)')
    BY <2>3 DEF Row
  <2> QED
    BY <1>2, <1>4, <2>1, <2>2, <2>4
<1> QED
  BY <1>3, <1>4

(* What a line leaves in the columns of a template with names of its own   *)
LEMMA ExtractOther ==
  ASSUME NEW e \in DOMAIN templates, OwnNames(e), NEW v \in DOMAIN templates[e].vars,
         NEW f \in DOMAIN templates, f # e, Len(templates[f].vars) \in Nat, NEW l, NEW c, c = columns[Name(e, v - 1)], NEW S, c \in Seq(S),
         Name(e, v - 1) \in DOMAIN columns
  PROVE  Extract(f, l)[Name(e, v - 1)] = c
<1> DEFINE mine == {w \in DOMAIN templates[f].vars : Name(f, w - 1) = Name(e, v - 1)}
           of == InOrder(mine, Len(templates[f].vars))
           value == [i \in DOMAIN of |-> l[templates[f].vars[of[i]]]]
<1>1. mine = {}
  BY DEF OwnNames
<1>2. Collected(of, mine, Len(templates[f].vars))
  BY InOrderProperties
<1>3. of = <<>>
  <2> HIDE DEF of, mine
  <2> QED
    BY <1>1, <1>2 DEF Collected
<1>4. Extract(f, l)[Name(e, v - 1)] = c \o value
  BY DEF Extract
<1> HIDE DEF of
<1>5. value = <<>>
  BY <1>3
<1> HIDE DEF value
<1> QED
  BY <1>4, <1>5

LEMMA ExtractOwn ==
  ASSUME NEW e \in DOMAIN templates, OwnNames(e), NEW v \in DOMAIN templates[e].vars,
         NEW l, NEW k \in Nat, k = Len(templates[e].vars), DOMAIN templates[e].vars = 1 .. k,
         NEW c, c = columns[Name(e, v - 1)], NEW S, c \in Seq(S),
         Name(e, v - 1) \in DOMAIN columns
  PROVE  Extract(e, l)[Name(e, v - 1)] = Append(c, l[templates[e].vars[v]])
<1> DEFINE mine == {w \in DOMAIN templates[e].vars : Name(e, w - 1) = Name(e, v - 1)}
           of == InOrder(mine, Len(templates[e].vars))
           x(j) == l[templates[e].vars[j]]
           value == [i \in DOMAIN of |-> x(of[i])]
<1>1. mine = {v}
  BY DEF OwnNames
<1>2. Collected(of, mine, k)
  BY InOrderProperties
<1>3. of = <<v>>
  <2> HIDE DEF of
  <2>1. mine \cap 1 .. k = {v}
    BY <1>1
  <2> HIDE DEF mine
  <2> QED
    BY <1>2, <2>1 DEF Collected
<1>4. Extract(e, l)[Name(e, v - 1)] = c \o value
  BY DEF Extract
<1> HIDE DEF of, x
<1>5. value = <<x(v)>>
  BY <1>3
<1> HIDE DEF value
<1>6. c \o <<x(v)>> = Append(c, x(v))
  OBVIOUS
<1> QED
  BY <1>4, <1>5, <1>6 DEF x
-----------------------------------------------------------------------------
(***************************************************************************)
(* The steps                                                               *)
(***************************************************************************)
LEMMA LinesRead ==
  ASSUME TypeOK, line \in Read
  PROVE  line \in DOMAIN log /\ Usable(log[line])
<1>1. Len(log) \in Nat /\ DOMAIN log = 1 .. Len(log) /\ \A n \in DOMAIN log : Usable(log[n])
  BY LinesUsable DEF TypeOK
<1> QED
  BY <1>1 DEF Read

LEMMA InitInv ==
  ASSUME Init
  PROVE  IInv
<1>1. TypeOK
  BY DEF Init, TypeOK
<1>2. DOMAIN templates = {} /\ ToSet(home) = {} /\ eid = <<>> /\ pc = "sample"
  BY DEF Init, ToSet
<1> QED
  BY <1>1, <1>2 DEF IInv, Numbered, CutTheSame, SampledHeld, Unmatched, Matched, Filled

LEMMA SampleInv ==
  ASSUME IInv, Sample
  PROVE  IInv'
<1>1. /\ pc = "sample" /\ line \in Read /\ line' = line + 1 /\ sampled' \in BOOLEAN
      /\ pc' = pc /\ log' = log /\ ended' = ended /\ eid' = eid /\ columns' = columns
  BY DEF Sample
<1>2. Unmatched' /\ Matched' /\ Filled'
  BY <1>1 DEF IInv, Unmatched, Matched, Filled
<1>3. line \in DOMAIN log /\ Usable(log[line])
  BY <1>1, LinesRead DEF IInv
<1>4. CASE UNCHANGED <<templates, home>>
  <2>1. TypeOK'
    BY <1>1, <1>4 DEF IInv, TypeOK
  <2>2. Numbered' /\ SampledHeld'
    BY <1>1, <1>4 DEF IInv, Numbered, SampledHeld
  <2>3. CutTheSame'
    BY <1>1, <1>4 DEF IInv, CutTheSame, HasTab
  <2> QED
    BY <1>2, <2>1, <2>2, <2>3 DEF IInv
<1>5. CASE ParseTemplate(log[line])
  <2> DEFINE l == log[line]
  <2>1. PICK e \in Nat : Placed(e, l)
    BY <1>3, <1>5, ParsePlaces DEF IInv, TypeOK
  <2> DEFINE h == [line |-> line, template |-> e]
  <2>2. h \in [line : Nat, template : Nat] /\ home \in Seq([line : Nat, template : Nat])
    BY DEF IInv, TypeOK
  <2>3. home' = Append(home, h)
    BY <2>1 DEF Placed
  <2>5. h.line = line /\ h.template = e
    OBVIOUS
  <2> HIDE DEF h
  <2>4. home' \in Seq([line : Nat, template : Nat]) /\ ToSet(home') = ToSet(home) \union {h}
    <3>1. PICK T : T = [line : Nat, template : Nat]
      OBVIOUS
    <3>2. Append(home, h) \in Seq(T) /\ ToSet(Append(home, h)) = ToSet(home) \union {h}
      <4>1. home \in Seq(T) /\ h \in T
        BY <2>2, <3>1
      <4> QED
        BY <4>1, Appended
    <3> QED
      BY <2>3, <3>1, <3>2
  <2>6. /\ DOMAIN templates' = DOMAIN templates \union {e} /\ templates' \in Seq(Templates)
        /\ \A f \in DOMAIN templates \ {e} : templates'[f] = templates[f]
        /\ WellFormed(templates'[e]) /\ Holds(templates'[e], l)
        /\ Readable(templates'[e]) \/ Tab \in ToSet(l)
    BY <2>1 DEF Placed
  <2> HIDE DEF l
  <2>7. TypeOK'
    BY <1>1, <2>4, <2>6 DEF IInv, TypeOK
  <2>8. Numbered'
    BY <2>6 DEF IInv, Numbered
  <2>9. CutTheSame'
    <3> SUFFICES ASSUME NEW f \in DOMAIN templates' PROVE Readable(templates'[f]) \/ HasTab(f)'
      BY DEF CutTheSame
    <3>1. CASE f = e
      <4>1. Tab \in ToSet(l) => HasTab(e)'
        BY <1>1, <2>4, <2>5 DEF HasTab, l
      <4> QED
        BY <2>6, <3>1, <4>1
    <3>2. CASE f # e
      <4>1. f \in DOMAIN templates /\ templates'[f] = templates[f]
        BY <2>6, <3>2
      <4>2. HasTab(f) => HasTab(f)'
        BY <1>1, <2>4 DEF HasTab
      <4> QED
        BY <4>1, <4>2 DEF IInv, CutTheSame
    <3> QED
      BY <3>1, <3>2
  <2>10. SampledHeld'
    <3> SUFFICES ASSUME NEW k \in ToSet(home')
                 PROVE  /\ k.line \in DOMAIN log /\ k.template \in DOMAIN templates'
                        /\ Holds(templates'[k.template], log[k.line])
      BY <1>1 DEF SampledHeld
    <3>1. CASE k = h
      BY <1>3, <2>5, <2>6, <3>1 DEF l
    <3>2. CASE k \in ToSet(home)
      <4>1. /\ k.line \in DOMAIN log /\ k.template \in DOMAIN templates
            /\ Holds(templates[k.template], log[k.line])
        BY <3>2 DEF IInv, SampledHeld
      <4>2. DOMAIN log[k.line] = 1 .. Len(log[k.line])
        BY <4>1, LinesUsable DEF IInv, TypeOK, Usable
      <4>3. CASE k.template = e
        BY <2>1, <2>6, <4>1, <4>2, <4>3 DEF Placed
      <4>4. CASE k.template # e
        BY <2>6, <4>1, <4>4
      <4> QED
        BY <4>3, <4>4
    <3> QED
      BY <2>4, <3>1, <3>2
  <2> QED
    BY <1>2, <2>7, <2>8, <2>9, <2>10 DEF IInv
<1> QED
  BY <1>4, <1>5 DEF Sample

LEMMA StartMatchInv ==
  ASSUME IInv, StartMatch
  PROVE  IInv'
<1>1. /\ pc = "sample" /\ pc' = "match" /\ line' = 1 /\ log' = log /\ ended' = ended
      /\ templates' = templates /\ home' = home /\ eid' = eid /\ eid = <<>>
      /\ columns' = [n \in Names |-> <<>>]
  BY DEF StartMatch, Names, IInv, Unmatched
<1>2. TypeOK' /\ Unmatched'
  BY <1>1 DEF IInv, TypeOK, Unmatched
<1>3. Numbered' /\ SampledHeld'
  BY <1>1 DEF IInv, Numbered, SampledHeld
<1>4. CutTheSame'
  BY <1>1 DEF IInv, CutTheSame, HasTab
<1>5. Matched'
  <2>1. Names' = Names
    BY <1>1 DEF Names
  <2> QED
    BY <1>1, <2>1 DEF Matched
<1>6. Filled'
  <2> SUFFICES ASSUME NEW e \in DOMAIN templates, NEW v \in DOMAIN templates[e].vars
               PROVE  Column(e, v)'
    BY <1>1 DEF Filled
  <2>1. Name(e, v - 1) \in Names
    BY DEF Names
  <2>2. columns'[Name(e, v - 1)] = <<>>
    BY <1>1, <2>1
  <2>3. Lines(e)' = {}
    BY <1>1 DEF Lines
  <2>4. Cardinality(Lines(e)') = 0
    BY <2>3, FS_EmptySet
  <2> QED
    BY <2>2, <2>3, <2>4 DEF Column
<1> QED
  BY <1>2, <1>3, <1>4, <1>5, <1>6 DEF IInv

(* The template a line goes to, or -1                                      *)
Took(x) == LET l == log[line] IN
  /\ eid' = Append(eid, x)
  /\ \/ x = -1 /\ columns' = columns
     \/ /\ x \in DOMAIN templates /\ columns' = Extract(x, l)
        /\ Len(templates[x].tokens) = Len(l) /\ Fits(templates[x], l)

LEMMA MatchTakes ==
  ASSUME IInv, MatchLine
  PROVE  \E x \in Int : Took(x)
<1> DEFINE l == log[line]
           fit == {e \in Pool(l) : Fits(templates[e], l)}
<1>0. Len(templates) \in Nat /\ DOMAIN templates = 1 .. Len(templates)
  BY DEF IInv, TypeOK
<1>1. CASE fit = {}
  BY <1>1 DEF MatchLine, Took
<1>2. CASE fit # {}
  <2>1. eid' = Append(eid, Min(fit)) /\ columns' = Extract(Min(fit), l)
    BY <1>2 DEF MatchLine
  <2>2. fit \subseteq Nat
    BY <1>0 DEF Pool
  <2>3. Min(fit) \in fit
    BY <1>2, <2>2, LeastIn
  <2>4. PICK x \in fit : x = Min(fit)
    BY <2>3
  <2>5. x \in Int /\ x \in DOMAIN templates /\ Len(templates[x].tokens) = Len(l) /\ Fits(templates[x], l)
    BY <2>2 DEF Pool
  <2>6. eid' = Append(eid, x) /\ columns' = Extract(x, l)
    BY <2>1, <2>4
  <2> QED
    BY <2>5, <2>6 DEF Took
<1> QED
  BY <1>1, <1>2

LEMMA ColumnKept ==
  ASSUME IInv, MatchLine, NEW x \in Int, Took(x), NEW e \in DOMAIN templates, OwnNames(e),
         NEW v \in DOMAIN templates[e].vars
  PROVE  Column(e, v)'
<1> DEFINE l == log[line]
           name == Name(e, v - 1)
           c == columns[name]
           u == templates[e].vars[v]
<1>1. /\ pc = "match" /\ line \in Read /\ log' = log /\ templates' = templates
      /\ eid' = Append(eid, x)
  BY DEF MatchLine, Took
<1>2. line \in DOMAIN log /\ Usable(l)
  BY <1>1, LinesRead DEF IInv
<1>3. /\ c \in Seq(Tokens) /\ Len(c) = Cardinality(Lines(e))
      /\ \A n \in Lines(e) : c[Row(n)] = log[n][u]
  BY <1>1 DEF IInv, Filled, Column
<1>4. name \in DOMAIN columns
  BY <1>1 DEF IInv, Matched, Names
<1>5. eid \in Seq(Int) /\ line = Len(eid) + 1 /\ line \in Nat /\ Len(eid) \in Nat /\ DOMAIN eid = 1 .. Len(eid)
  BY <1>1 DEF IInv, TypeOK, Matched
<1>6. DOMAIN templates = 1 .. Len(templates) /\ Len(templates) \in Nat /\ WellFormed(templates[e])
  BY DEF IInv, TypeOK, Numbered
<1>7. /\ \A n \in Lines(e) : Row(n) \in 1 .. Len(c) /\ n \in DOMAIN eid
      /\ Len(c) \in Nat
  BY <1>3, <1>5, RowsOfLines DEF Lines
<1>8. PICK k \in Nat : k = line
  BY <1>5
<1>9. /\ \A n \in DOMAIN eid : Row(n)' = Row(n)
      /\ x # e => Lines(e)' = Lines(e)
      /\ x = e => /\ Lines(e)' = Lines(e) \union {k}
                  /\ Cardinality(Lines(e)') = Cardinality(Lines(e)) + 1
                  /\ Row(k)' = Cardinality(Lines(e)) + 1
  BY <1>1, <1>5, <1>8, RowsAppended
<1>10. CASE x # e
  <2>1. columns'[name] = c
    <3>1. CASE x = -1 /\ columns' = columns
      BY <3>1
    <3>2. CASE x \in DOMAIN templates /\ columns' = Extract(x, l)
      <4>1. WellFormed(templates[x])
        BY <3>2 DEF IInv, Numbered
      <4>2. Len(templates[x].vars) \in Nat
        BY <4>1 DEF WellFormed
      <4>3. Extract(x, l)[name] = c
        BY <1>3, <1>4, <1>10, <3>2, <4>2, ExtractOther
      <4> QED
        BY <3>2, <4>3
    <3>3. x \in DOMAIN templates \/ x = -1
      BY DEF Took
    <3> QED
      BY <1>6, <3>1, <3>2, <3>3 DEF Took
  <2>2. Lines(e)' = Lines(e) /\ \A n \in Lines(e) : Row(n)' = Row(n)
    BY <1>7, <1>9, <1>10
  <2>3. Column(e, v)' <=> /\ columns'[name] \in Seq(Tokens) /\ Len(columns'[name]) = Cardinality(Lines(e)')
                          /\ \A n \in Lines(e)' : columns'[name][Row(n)'] = log'[n][templates'[e].vars[v]]
    BY DEF Column
  <2> QED
    BY <1>1, <1>3, <2>1, <2>2, <2>3
<1>11. CASE x = e
  <2>1. columns' = Extract(e, l) /\ Len(templates[e].tokens) = Len(l)
    BY <1>6, <1>11 DEF Took
  <2>2. templates[e].vars \in Seq(DOMAIN templates[e].tokens) /\ templates[e].tokens \in Seq(Tokens)
    BY <1>6 DEF WellFormed
  <2>3. PICK m \in Nat : m = Len(templates[e].vars) /\ DOMAIN templates[e].vars = 1 .. m
    BY <2>2
  <2>4. Extract(e, l)[name] = Append(c, l[u])
    <3>1. PICK d \in Seq(Tokens) : d = columns[Name(e, v - 1)]
      BY <1>3
    <3>2. Extract(e, l)[Name(e, v - 1)] = Append(d, l[templates[e].vars[v]])
      BY <1>4, <2>3, <3>1, ExtractOwn
    <3> QED
      BY <3>1, <3>2
  <2>5. u \in DOMAIN l
    <3>1. u \in DOMAIN templates[e].tokens
      BY <2>2
    <3>2. DOMAIN templates[e].tokens = DOMAIN l
      BY <1>2, <2>1, <2>2 DEF Usable
    <3> QED
      BY <3>1, <3>2
  <2>6. l[u] \in Tokens
    BY <1>2, <2>5 DEF Usable
  <2> DEFINE d == Append(c, l[u])
  <2>7. columns'[name] = d
    BY <2>1, <2>4
  <2>8. /\ d \in Seq(Tokens) /\ Len(d) = Len(c) + 1 /\ d[Len(c) + 1] = l[u]
        /\ \A i \in 1 .. Len(c) : d[i] = c[i]
    <3> HIDE DEF c
    <3> QED
      BY <1>3, <2>6, Appended
  <2>9. /\ Lines(e)' = Lines(e) \union {k} /\ Cardinality(Lines(e)') = Len(c) + 1
        /\ Row(k)' = Len(c) + 1 /\ \A n \in Lines(e) : Row(n)' = Row(n)
    BY <1>3, <1>7, <1>9, <1>11
  <2>10. log[k][u] = l[u]
    BY <1>8
  <2> HIDE DEF c, d, u, l
  <2>11. \A n \in Lines(e)' : d[Row(n)'] = log[n][u]
    BY <1>3, <1>7, <2>8, <2>9, <2>10
  <2>12. Column(e, v)' <=> /\ columns'[name] \in Seq(Tokens) /\ Len(columns'[name]) = Cardinality(Lines(e)')
                           /\ \A n \in Lines(e)' : columns'[name][Row(n)'] = log'[n][templates'[e].vars[v]]
    BY DEF Column
  <2>13. Len(columns'[name]) = Cardinality(Lines(e)')
    BY <2>7, <2>8, <2>9
  <2> QED
    BY <1>1, <2>7, <2>8, <2>11, <2>12, <2>13 DEF u
<1> QED
  BY <1>10, <1>11

LEMMA MatchLineInv ==
  ASSUME IInv, MatchLine
  PROVE  IInv'
<1>1. PICK x \in Int : Took(x)
  BY MatchTakes
<1> DEFINE l == log[line]
<1>2. /\ pc = "match" /\ line \in Read /\ line' = line + 1
      /\ pc' = pc /\ log' = log /\ ended' = ended /\ sampled' = sampled
      /\ templates' = templates /\ home' = home
  BY DEF MatchLine
<1>3. line \in DOMAIN log /\ Usable(l)
  BY <1>2, LinesRead DEF IInv
<1>4. eid \in Seq(Int) /\ line = Len(eid) + 1 /\ line \in Nat
  BY <1>2 DEF IInv, TypeOK, Matched
<1>5. /\ eid' \in Seq(Int) /\ Len(eid') = line /\ DOMAIN eid' = DOMAIN eid \union {line}
      /\ (\A n \in DOMAIN eid : eid'[n] = eid[n]) /\ eid'[line] = x
  BY <1>1, <1>4, Appended DEF Took
<1>6. TypeOK' /\ Unmatched'
  BY <1>2, <1>4, <1>5 DEF IInv, TypeOK, Unmatched
<1>7. Numbered' /\ SampledHeld'
  BY <1>2 DEF IInv, Numbered, SampledHeld
<1>8. CutTheSame'
  BY <1>2 DEF IInv, CutTheSame, HasTab
<1>9. Matched'
  <2>1. DOMAIN columns = Names /\ Names' = Names
    BY <1>2 DEF IInv, Matched, Names
  <2>2. DOMAIN columns' = DOMAIN columns
    BY <1>1 DEF Took, Extract
  <2>3. \/ x = -1
        \/ x \in DOMAIN templates /\ Len(templates[x].tokens) = Len(l) /\ Fits(templates[x], l)
    BY <1>1 DEF Took
  <2>4. ASSUME NEW n \in DOMAIN eid'
        PROVE  n \in DOMAIN log /\ \/ eid'[n] = -1
                                   \/ /\ eid'[n] \in DOMAIN templates
                                      /\ Len(templates[eid'[n]].tokens) = Len(log[n])
                                      /\ Fits(templates[eid'[n]], log[n])
    <3>1. CASE n = line
      BY <1>3, <1>5, <2>3, <3>1
    <3>2. CASE n \in DOMAIN eid
      BY <1>2, <1>5, <3>2 DEF IInv, Matched
    <3> QED
      BY <1>5, <3>1, <3>2
  <2>5. Len(eid') = line' - 1
    BY <1>2, <1>4, <1>5
  <2> QED
    BY <1>2, <2>1, <2>2, <2>4, <2>5 DEF Matched
<1>10. Filled'
  <2> SUFFICES ASSUME NEW e \in DOMAIN templates, OwnNames(e), NEW v \in DOMAIN templates[e].vars
               PROVE  Column(e, v)'
    BY <1>2 DEF Filled, OwnNames
  <2> QED
    BY <1>1, ColumnKept
<1> QED
  BY <1>6, <1>7, <1>8, <1>9, <1>10 DEF IInv

LEMMA StoreInv ==
  ASSUME IInv, Store \/ UNCHANGED vars
  PROVE  IInv'
<1>1. /\ log' = log /\ ended' = ended /\ line' = line /\ sampled' = sampled
      /\ templates' = templates /\ home' = home /\ eid' = eid /\ columns' = columns
      /\ pc' = pc \/ (pc = "match" /\ pc' = "stored")
  BY DEF Store, vars
<1>2. TypeOK' /\ Unmatched'
  BY <1>1 DEF IInv, TypeOK, Unmatched
<1>3. Numbered' /\ SampledHeld'
  BY <1>1 DEF IInv, Numbered, SampledHeld
<1>4. CutTheSame'
  BY <1>1 DEF IInv, CutTheSame, HasTab
<1>5. Matched'
  <2>1. Names' = Names
    BY <1>1 DEF Names
  <2> QED
    BY <1>1, <2>1 DEF IInv, Matched
<1>6. Filled'
  <2> SUFFICES ASSUME pc \in {"match", "stored"}, NEW e \in DOMAIN templates, OwnNames(e),
                      NEW v \in DOMAIN templates[e].vars
               PROVE  Column(e, v)'
    BY <1>1 DEF Filled, OwnNames
  <2>1. Column(e, v)
    BY DEF IInv, Filled
  <2>2. Column(e, v)' <=> Column(e, v)
    BY <1>1 DEF Column, Lines, Row
  <2> QED
    BY <2>1, <2>2
<1> QED
  BY <1>2, <1>3, <1>4, <1>5, <1>6 DEF IInv
-----------------------------------------------------------------------------
(***************************************************************************)
(* The theorems                                                            *)
(***************************************************************************)
(* The inductive invariant holds: types, the numbering of the variables,   *)
(* the sampled lines, the matched ones, and the columns they fill.         *)
THEOREM Invariance == Spec => []IInv
<1>1. Init => IInv
  BY InitInv
<1>2. IInv /\ [Next]_vars => IInv'
  <2> SUFFICES ASSUME IInv, [Next]_vars PROVE IInv'
    OBVIOUS
  <2> QED
    BY SampleInv, StartMatchInv, MatchLineInv, StoreInv DEF Next
<1> QED
  BY <1>1, <1>2, PTL DEF Spec

(* No two words of a template come to lie side by side, whatever is merged *)
(* into it (merge of template.cpp), unless a line with a tab was: the      *)
(* store cuts its text as the line was cut.                                *)
THEOREM CutsTheSame == Spec => []CutTheSame
<1>1. IInv => CutTheSame
  BY DEF IInv
<1> QED
  BY <1>1, Invariance, PTL

(* A sampled line fits the template it was merged into to the end, unless  *)
(* a word of it begins the template's, as merge compares as many           *)
(* characters as the word of the line has.                                 *)
THEOREM SampledStayFit == Spec => []SampledFits
<1>1. ASSUME IInv PROVE SampledFits
  <2> SUFFICES ASSUME NEW h \in ToSet(home), ~Fits(templates[h.template], log[h.line])
               PROVE  \E i \in DOMAIN log[h.line] :
                        /\ templates[h.template].tokens[i] \notin {Var, log[h.line][i]}
                        /\ IsPrefix(log[h.line][i], templates[h.template].tokens[i])
    BY DEF SampledFits
  <2>1. Holds(templates[h.template], log[h.line])
    BY <1>1 DEF IInv, SampledHeld
  <2> QED
    BY <2>1 DEF Holds, Fits
<1> QED
  BY <1>1, Invariance, PTL

(* The line of a template that is read as it was written, printed from it  *)
(* and the columns that are its own, is the line of the log.               *)
LEMMA PrintsTheLine ==
  ASSUME IInv, pc = "stored", NEW n \in DOMAIN eid, NEW e, e = eid[n], e # -1,
         Readable(templates[e]), OwnNames(e),
         ToSet(templates[e].tokens) \cap DOMAIN Marks = {}
  PROVE  Printed(e, Row(n)) = log[n] /\ (log[n] # <<>> => e \in Loaded)
<1> DEFINE t == templates[e]
           l == log[n]
           number(i) == CHOOSE v \in DOMAIN t.vars : t.vars[v] = i
           p(i) == IF ~Alone(t, i) THEN t.tokens[i]
                   ELSE IF t.tokens[i] = Var THEN Cell(Name(e, number(i) - 1), Row(n))
                   ELSE IF t.tokens[i] \in DOMAIN Marks THEN Cell(Name(e, Marks[t.tokens[i]]), Row(n))
                   ELSE t.tokens[i]
<1>1. n \in DOMAIN log /\ e \in DOMAIN templates /\ Len(t.tokens) = Len(l) /\ Fits(t, l)
  BY DEF IInv, Matched
<1>2. Usable(l) /\ WellFormed(t)
  BY <1>1, LinesUsable DEF IInv, TypeOK, Numbered
<1>3. /\ l \in Seq(Tokens) /\ t.tokens \in Seq(Tokens) /\ DOMAIN l = 1 .. Len(l) /\ Len(l) \in Nat
      /\ DOMAIN t.tokens = DOMAIN l
  BY <1>1, <1>2 DEF Usable, WellFormed
<1>4. ASSUME NEW i \in DOMAIN l PROVE p(i) = l[i]
  <2>1. t.tokens[i] \in {Var, l[i]}
    BY <1>1 DEF Fits
  <2>2. t.tokens[i] \notin DOMAIN Marks
    BY <1>3 DEF ToSet
  <2>3. CASE t.tokens[i] # Var
    BY <2>1, <2>2, <2>3
  <2>4. CASE t.tokens[i] = Var
    <3>1. Alone(t, i)
      <4> SUFFICES ASSUME NEW j \in {i - 1, i + 1} \cap DOMAIN t.tokens PROVE t.tokens[j] \in Delims
        BY DEF Alone
      <4>1. t.tokens[i] \notin Delims
        BY <2>4, ParserAssumption
      <4>2. \A k \in 1 .. Len(t.tokens) - 1 : t.tokens[k] \in Delims \/ t.tokens[k + 1] \in Delims
        BY DEF Readable, IsLine
      <4>3. CASE j = i + 1
        <5>1. i \in 1 .. Len(t.tokens) - 1
          BY <1>1, <1>3, <4>3
        <5> QED
          BY <4>1, <4>2, <4>3, <5>1
      <4>4. CASE j = i - 1
        <5>1. j \in 1 .. Len(t.tokens) - 1 /\ j + 1 = i
          BY <1>1, <1>3, <4>4
        <5> QED
          BY <4>1, <4>2, <5>1
      <4> QED
        BY <4>3, <4>4
    <3>2. \E v \in DOMAIN t.vars : t.vars[v] = i
      BY <1>2, <1>3, <2>4 DEF WellFormed
    <3>3. number(i) \in DOMAIN t.vars /\ t.vars[number(i)] = i
      BY <3>2
    <3>4. PICK v \in DOMAIN t.vars : v = number(i) /\ t.vars[v] = i
      BY <3>3
    <3>5. Column(e, v) /\ n \in Lines(e) /\ eid \in Seq(Int)
      BY <1>1 DEF IInv, Filled, Lines, TypeOK
    <3> DEFINE name == Name(e, v - 1)
               c == columns[name]
    <3>6. name \in DOMAIN columns
      BY <1>1 DEF IInv, Matched, Names
    <3>7. Row(n) \in 1 .. Cardinality(Lines(e))
      BY <3>5, RowsOfLines
    <3>8. c \in Seq(Tokens) /\ Len(c) = Cardinality(Lines(e)) /\ c[Row(n)] = l[t.vars[v]]
      BY <3>5 DEF Column
    <3>9. Row(n) \in DOMAIN c
      BY <3>7, <3>8
    <3>10. Cell(name, Row(n)) = l[i]
      BY <3>4, <3>6, <3>8, <3>9 DEF Cell
    <3> QED
      BY <2>4, <3>1, <3>4, <3>10
  <2> QED
    BY <2>3, <2>4
<1>5. Printed(e, Row(n)) = [i \in DOMAIN t.tokens |-> p(i)]
  BY DEF Printed
<1>6. Printed(e, Row(n)) = l
  <2> HIDE DEF p, l
  <2>1. l = [i \in DOMAIN l |-> l[i]]
    BY <1>3
  <2> QED
    BY <1>3, <1>4, <1>5, <2>1
<1>7. ASSUME l # <<>> PROVE e \in Loaded
  <2>1. t.tokens # <<>>
    BY <1>1, <1>3, <1>7
  <2> QED
    BY <1>1, <2>1 DEF Loaded
<1> QED
  BY <1>6, <1>7

(* A line is printed as it was: the numbers the store gives the variables  *)
(* of a template (AddMainPatternToMap) are those the columns were filled   *)
(* by (VarArray::Add), and each line finds its row.                        *)
THEOREM KeepsLines == Spec => []LinesKept
<1>1. ASSUME IInv PROVE LinesKept
  <2> SUFFICES ASSUME pc = "stored", NEW n \in DOMAIN eid, eid[n] # -1, log[n] # <<>>,
                      Readable(templates[eid[n]]), OwnNames(eid[n]),
                      ToSet(templates[eid[n]].tokens) \intersect DOMAIN Marks = {}
               PROVE  eid[n] \in Loaded /\ Printed(eid[n], Row(n)) = log[n]
    BY DEF LinesKept
  <2> QED
    BY <1>1, PrintsTheLine
<1> QED
  BY <1>1, Invariance, PTL
=============================================================================
