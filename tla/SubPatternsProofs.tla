------------------------- MODULE SubPatternsProofs --------------------------
(***************************************************************************)
(* TLAPS proofs about SubPatterns, for all values of a variable, every     *)
(* sample, however it is split, and any threshold of at least one half:    *)
(* what is kept of a value along a sub-pattern, what the search may filter *)
(* with, what is printed, and that extraction agrees with splitting.       *)
(***************************************************************************)
EXTENDS SubPatterns, FiniteSetTheorems, SequenceTheorems, WellFoundedInduction, TLAPS

(***************************************************************************)
(* The inductive invariant: Types; what is known of a part that was closed *)
(* (ClosedRight); where two parts meet (Joined); and what was kept of the  *)
(* values taken apart (Extracted).                                         *)
(***************************************************************************)
Kinds == {"open", "const", "fixed", "var"}
Data  == UNION {[L -> Strings] : L \in SUBSET sample}
Parts == [kind : Kinds, data : Data, text : Strings, len : Nat]

Types ==
  /\ pc \in {"split", "extract", "done"}
  /\ value \in Seq(Strings \ {<<>>}) /\ value # <<>>
  /\ sample \subseteq DOMAIN value
  /\ parts \in Seq(Parts)

(* A part that every live row has as the string m                          *)
Same(p, m) == m # <<>> /\ Most(Live(p)) /\ \A r \in Live(p) : p.data[r] = m

(* What is known of a part that was closed                                 *)
Right(p) ==
  /\ p.kind = "const" => p.text \in Constants(p) /\ p.text # <<>> /\ p.len = Len(p.text)
  /\ p.kind \in {"fixed", "var"} => Constants(p) = {}

ClosedRight == \A i \in DOMAIN parts : Right(parts[i]) /\ (pc # "split" => parts[i].kind # "open")

(* In x before m, m occurs at the end first.                               *)
EndsFirst(x, m) == \A k \in 1 .. Len(x) : ~At(x \o m, k, m)

(* Of two parts side by side one is a string that was split at, and what   *)
(* is before such a string does not run into an earlier place of it.       *)
Meet(p, q) ==
  \/ \E m \in Range(p.data) : Same(p, m)
  \/ \E m \in Range(q.data) : /\ Same(q, m)
                              /\ \A r \in Live(p) \cap Live(q) : EndsFirst(p.data[r], m)

Joined == \A i \in 1 .. Len(parts) - 1 : Meet(parts[i], parts[i + 1])

Fits(s) == Ends(s)[Len(parts)] # -1

Extracted ==
  /\ Len(cells) = row /\ row \in 0 .. Len(value) /\ outliers \subseteq 1 .. row
  /\ cells \in Seq([DOMAIN parts -> Strings])
  /\ pc = "split" => row = 0
  /\ pc = "extract" => row < Len(value)
  /\ pc = "done" => row = Len(value)
  /\ pc # "split" => /\ lens \in [DOMAIN parts -> Int]
                      /\ \A i \in DOMAIN parts : parts[i].kind = "fixed" => lens[i] = parts[i].len
  /\ \A r \in 1 .. row :
       /\ r \in outliers <=> ~Fits(value[r])
       /\ cells[r] = [i \in DOMAIN parts |-> IF Fits(value[r]) THEN Piece(i, value[r]) ELSE <<>>]
       /\ \A i \in Columns : Ends(value[r])[i] # -1 =>
            Classes(Piece(i, value[r])) \subseteq tags[i] /\ Len(Piece(i, value[r])) <= lens[i]

IInv == Types /\ ClosedRight /\ Joined /\ Extracted
-----------------------------------------------------------------------------
(***************************************************************************)
(* Induction.  The induction theorems of the library take a predicate,     *)
(* which cannot be instantiated here; that a set of numbers has a least    *)
(* one is a fact about sets, and is enough.                                *)
(***************************************************************************)
LEMMA LeastNumber ==
  ASSUME NEW T, T \subseteq Nat, T # {}
  PROVE  \E m \in T : \A k \in T : m <= k
<1>1. PICK m \in T : \A y \in T : ~ (<<y, m>> \in OpToRel(<, Nat))
  BY WFMin, NatLessThanWellFounded
<1>2. \A y \in T : ~ (<<y, m>> \in {ss \in Nat \X Nat : ss[1] < ss[2]})
  BY <1>1 DEF OpToRel
<1>3. ASSUME NEW y \in T PROVE m <= y
  <2>1. <<y, m>> \in Nat \X Nat
    OBVIOUS
  <2> QED
    BY <1>2, <2>1
<1> QED
  BY <1>3

LEMMA SetInduction ==
  ASSUME NEW P, 0 \in P, \A n \in Nat : n \in P => n + 1 \in P
  PROVE  Nat \subseteq P
<1> SUFFICES ASSUME ~(Nat \subseteq P) PROVE FALSE
  OBVIOUS
<1>1. PICK m \in Nat \ P : \A k \in Nat \ P : m <= k
  BY LeastNumber
<1>2. m - 1 \in Nat /\ m - 1 \in P
  BY <1>1
<1> QED
  BY <1>1, <1>2

(* A function that is built step by step, from c on                        *)
Unrolls(f, n, c, step) == f[0] = c /\ \A i \in 1 .. n : f[i] = step[<<i, f[i - 1]>>]

LEMMA StepsExist ==
  ASSUME NEW n \in Nat, NEW S, NEW c \in S, NEW step \in [(1 .. n) \X S -> S]
  PROVE  \E f \in [0 .. n -> S] : Unrolls(f, n, c, step)
<1> DEFINE Good(f, m) == f[0] = c /\ \A i \in 1 .. m : f[i] = step[<<i, f[i - 1]>>]
           P == {m \in Nat : m <= n => \E f \in [0 .. m -> S] : Good(f, m)}
<1>1. 0 \in P
  <2>1. Good([i \in 0 .. 0 |-> c], 0)
    OBVIOUS
  <2> QED
    BY <2>1
<1>2. ASSUME NEW m \in Nat, m \in P PROVE m + 1 \in P
  <2> SUFFICES ASSUME m + 1 <= n PROVE \E f \in [0 .. m + 1 -> S] : Good(f, m + 1)
    OBVIOUS
  <2>1. PICK f \in [0 .. m -> S] : Good(f, m)
    BY <1>2
  <2> DEFINE x == step[<<m + 1, f[m]>>]
             g == [i \in 0 .. m + 1 |-> IF i = m + 1 THEN x ELSE f[i]]
  <2>2. x \in S
    OBVIOUS
  <2>3. g \in [0 .. m + 1 -> S]
    BY <2>2
  <2>4. ASSUME NEW i \in 1 .. m + 1 PROVE g[i] = step[<<i, g[i - 1]>>]
    <3>1. CASE i = m + 1
      <4>1. i - 1 = m /\ m \in 0 .. m + 1 /\ m # m + 1 /\ m + 1 \in 0 .. m + 1
        BY <3>1
      <4>2. g[i] = x /\ g[i - 1] = f[m]
        BY <3>1, <4>1
      <4> QED
        BY <3>1, <4>2
    <3>2. CASE i # m + 1
      BY <3>2, <2>1
    <3> QED
      BY <3>1, <3>2
  <2>5. g[0] = c
    BY <2>1
  <2>6. Good(g, m + 1)
    BY <2>4, <2>5
  <2> HIDE DEF g
  <2> QED
    BY <2>3, <2>6
<1>3. n \in P
  <2> HIDE DEF P
  <2> QED
    BY <1>1, <1>2, SetInduction
<1>4. PICK f \in [0 .. n -> S] : Good(f, n)
  BY <1>3
<1>5. Unrolls(f, n, c, step)
  BY <1>4 DEF Unrolls
<1> QED
  BY <1>4, <1>5

(* A function defined by recursion is the one built step by step, if its   *)
(* definition agrees with the steps on the values they have.               *)
Follows(v, n, S, c, step) ==
  v[0] = c /\ \A k \in 1 .. n : v[k - 1] \in S => v[k] = step[<<k, v[k - 1]>>]

Stays(f, n, S) == \A k \in 0 .. n : f[k] \in S

Agree(v, f, n) == \A k \in 0 .. n : v[k] = f[k]

LEMMA RecursionIs ==
  ASSUME NEW n \in Nat, NEW S, NEW c, NEW step,
         NEW f, Stays(f, n, S), Unrolls(f, n, c, step),
         NEW v, Follows(v, n, S, c, step)
  PROVE  Agree(v, f, n)
<1> DEFINE P == {k \in Nat : k <= n => v[k] = f[k]}
<1>1. 0 \in P
  BY DEF Unrolls, Follows
<1>2. ASSUME NEW k \in Nat, k \in P PROVE k + 1 \in P
  <2>1. CASE k + 1 <= n
    <3>1. k + 1 \in 1 .. n /\ k \in 0 .. n /\ (k + 1) - 1 = k /\ v[k] = f[k] /\ f[k] \in S
      BY <1>2, <2>1 DEF Stays
    <3>2. v[k + 1] = step[<<k + 1, v[k]>>] /\ f[k + 1] = step[<<k + 1, f[k]>>]
      BY <3>1 DEF Unrolls, Follows
    <3> QED
      BY <3>1, <3>2
  <2>2. CASE ~(k + 1 <= n)
    BY <2>2
  <2> QED
    BY <2>1, <2>2
<1>3. Nat \subseteq P
  <2> HIDE DEF P
  <2> QED
    BY <1>1, <1>2, SetInduction
<1> QED
  BY <1>3 DEF Agree

(* What FlattenSeq puts together, one sequence after the other             *)
Flattens(g, seqs) == g[0] = <<>> /\ g[Len(seqs)] = FlattenSeq(seqs)
                     /\ \A i \in 1 .. Len(seqs) : g[i] = g[i - 1] \o seqs[i]

LEMMA FlattenSteps ==
  ASSUME NEW S, NEW seqs \in Seq(Seq(S))
  PROVE  \E g \in [0 .. Len(seqs) -> Seq(S)] : Flattens(g, seqs)
<1> DEFINE n == Len(seqs)
           Q == Seq(S)
           step == [x \in (1 .. n) \X Q |-> x[2] \o seqs[x[1]]]
           Def(u) == [i \in 1 .. n |-> IF i = 1 THEN seqs[i] ELSE u[i - 1] \o seqs[i]]
           v == CHOOSE v : v = Def(v)
           v0 == [i \in 0 .. n |-> IF i = 0 THEN <<>> ELSE v[i]]
<1>1. n \in Nat /\ <<>> \in Q /\ \A i \in 1 .. n : seqs[i] \in Q
  OBVIOUS
<1>2. \A w \in Q, i \in 1 .. n : w \o seqs[i] \in Q
  BY <1>1
<1>3. FlattenSeq(seqs) = IF n = 0 THEN seqs ELSE v[n]
  BY DEF FlattenSeq
<1>4. step \in [(1 .. n) \X Q -> Q]
  BY <1>2
<1>5. \A w \in Q : <<>> \o w = w
  OBVIOUS
<1>10. ASSUME NEW i \in 1 .. n, NEW w \in Q PROVE step[<<i, w>>] = w \o seqs[i]
  OBVIOUS
<1> HIDE DEF Q, n, step
<1>6. PICK g \in [0 .. n -> Q] : Unrolls(g, n, <<>>, step)
  <2> QED
    BY <1>1, <1>4, StepsExist
<1>7. g[0] = <<>> /\ \A i \in 1 .. n : g[i] = g[i - 1] \o seqs[i]
  <2>1. ASSUME NEW i \in 1 .. n PROVE g[i] = g[i - 1] \o seqs[i]
    <3>1. g[i - 1] \in Q
      BY <1>1
    <3> QED
      BY <1>6, <1>10, <3>1 DEF Unrolls
  <2> QED
    BY <1>6, <2>1 DEF Unrolls
<1>8. CASE n = 0
  BY <1>3, <1>7, <1>8 DEF Flattens, n, Q
<1>9. CASE n # 0
  <2> DEFINE h == [i \in 1 .. n |-> g[i]]
  <2>1. h = Def(h)
    <3>1. ASSUME NEW i \in 1 .. n PROVE h[i] = IF i = 1 THEN seqs[i] ELSE h[i - 1] \o seqs[i]
      <4>1. CASE i = 1
        BY <1>1, <1>5, <1>7, <4>1
      <4>2. CASE i # 1
        <5>1. i - 1 \in 1 .. n
          BY <1>1, <4>2
        <5> QED
          BY <1>7, <4>2, <5>1
      <4> QED
        BY <4>1, <4>2
    <3> QED
      BY <3>1
  <2>2. v = Def(v)
    <3> HIDE DEF Def, h
    <3> QED
      BY <2>1
  <2>3. \A i \in 1 .. n : v[i] = IF i = 1 THEN seqs[i] ELSE v[i - 1] \o seqs[i]
    <3> HIDE DEF v
    <3> QED
      BY <2>2
  <2> HIDE DEF v
  <2>4. v0[0] = <<>>
    BY <1>1
  <2>5. ASSUME NEW k \in 1 .. n, v0[k - 1] \in Q PROVE v0[k] = step[<<k, v0[k - 1]>>]
    <3>1. step[<<k, v0[k - 1]>>] = v0[k - 1] \o seqs[k]
      BY <1>10, <2>5
    <3>2. v0[k] = v[k] /\ (k = 1 => v0[k - 1] = <<>>) /\ (k # 1 => v0[k - 1] = v[k - 1])
      BY <1>1
    <3> QED
      BY <1>1, <1>5, <2>3, <3>1, <3>2
  <2>6. \A k \in 0 .. n : v0[k] = g[k]
    <3> HIDE DEF v0
    <3>1. Follows(v0, n, Q, <<>>, step)
      BY <2>4, <2>5 DEF Follows
    <3> HIDE DEF Def, h
    <3>2. Stays(g, n, Q)
      BY <1>6 DEF Stays
    <3>3. Agree(v0, g, n)
      BY <1>1, <1>6, <3>1, <3>2, RecursionIs
    <3> QED
      BY <3>3 DEF Agree
  <2>7. v0[n] = v[n] /\ n \in 0 .. n
    BY <1>1, <1>9
  <2>8. g[n] = FlattenSeq(seqs)
    BY <1>3, <1>9, <2>6, <2>7
  <2> QED
    BY <1>7, <2>8 DEF Flattens, n, Q
<1> QED
  BY <1>8, <1>9
-----------------------------------------------------------------------------
(***************************************************************************)
(* Taking a string apart along the parts, when all are closed              *)
(***************************************************************************)
Settled == Types /\ ClosedRight /\ pc # "split"

LEMMA PartsSettled ==
  ASSUME Settled
  PROVE  /\ Len(parts) \in Nat /\ DOMAIN parts = 1 .. Len(parts)
         /\ \A i \in DOMAIN parts :
              /\ parts[i].kind \in {"const", "fixed", "var"}
              /\ parts[i].text \in Strings /\ parts[i].len \in Nat
              /\ IsConst(i) => parts[i].len = Len(parts[i].text) /\ parts[i].text # <<>>
<1>1. Len(parts) \in Nat /\ DOMAIN parts = 1 .. Len(parts) /\ \A i \in DOMAIN parts : parts[i] \in Parts
  BY DEF Settled, Types
<1>2. ASSUME NEW i \in DOMAIN parts
      PROVE  /\ parts[i].kind \in {"const", "fixed", "var"}
             /\ parts[i].text \in Strings /\ parts[i].len \in Nat
             /\ IsConst(i) => parts[i].len = Len(parts[i].text) /\ parts[i].text # <<>>
  BY <1>1 DEF Settled, ClosedRight, Right, Parts, Kinds, IsConst
<1> QED
  BY <1>1, <1>2

LEMMA LeastIn ==
  ASSUME NEW T \in SUBSET Nat, T # {}
  PROVE  Min(T) \in T /\ \A x \in T : Min(T) <= x
BY LeastNumber DEF Min

(* The constants that follow a part are those up to some last one.         *)
NextUpTo(i, last) ==
  /\ \A j \in i + 1 .. last : IsConst(j)
  /\ last < Len(parts) => ~IsConst(last + 1)
  /\ NextConstant(i) = FlattenSeq([k \in 1 .. last - i |-> parts[i + k].text])

LEMMA NextConstantIs ==
  ASSUME Settled, NEW i \in DOMAIN parts
  PROVE  \E last \in i .. Len(parts) : NextUpTo(i, last)
<1> DEFINE n == Len(parts)
           stop == {j \in i + 1 .. n : parts[j].kind # "const"}
<1>1. n \in Nat /\ DOMAIN parts = 1 .. n /\ i \in 1 .. n
  BY PartsSettled
<1> HIDE DEF n
<1>2. CASE stop = {}
  <2>1. NextConstant(i) = FlattenSeq([k \in 1 .. n - i |-> parts[i + k].text])
    BY <1>2 DEF NextConstant, n
  <2>2. NextUpTo(i, n) /\ n \in i .. n
    BY <1>1, <1>2, <2>1 DEF NextUpTo, IsConst, n
  <2> QED
    BY <2>2 DEF n
<1>3. CASE stop # {}
  <2>1. PICK m \in Nat : m = Min(stop)
    <3>1. stop \subseteq Nat
      BY <1>1
    <3> QED
      BY <1>3, <3>1, LeastIn
  <2>2. m \in stop /\ \A j \in stop : m <= j
    <3>1. stop \subseteq Nat
      BY <1>1
    <3> HIDE DEF stop
    <3> QED
      BY <1>3, <2>1, <3>1, LeastIn
  <2>3. NextConstant(i) = FlattenSeq([k \in 1 .. (m - 1) - i |-> parts[i + k].text])
    BY <1>3, <2>1 DEF NextConstant, n
  <2>4. m \in i + 1 .. n /\ parts[m].kind # "const"
    BY <2>2
  <2>5. \A j \in i + 1 .. m - 1 : parts[j].kind = "const"
    BY <1>1, <2>2, <2>4
  <2>6. PICK last \in i .. n : last = m - 1
    BY <1>1, <2>4
  <2>7. last + 1 = m
    BY <2>4, <2>6
  <2>8. NextUpTo(i, last)
    BY <2>3, <2>4, <2>5, <2>6, <2>7 DEF NextUpTo, IsConst
  <2> QED
    BY <2>8 DEF n
<1> QED
  BY <1>2, <1>3

LEMMA NextIsString ==
  ASSUME Settled, NEW i \in DOMAIN parts
  PROVE  NextConstant(i) \in Strings /\ (i = Len(parts) => NextConstant(i) = <<>>)
<1>1. PICK last \in i .. Len(parts) : NextUpTo(i, last)
  BY NextConstantIs
<1> DEFINE texts == [k \in 1 .. last - i |-> parts[i + k].text]
<1>2. NextConstant(i) = FlattenSeq(texts)
  BY <1>1 DEF NextUpTo
<1>3. /\ Len(parts) \in Nat /\ DOMAIN parts = 1 .. Len(parts) /\ i \in 1 .. Len(parts)
      /\ \A j \in DOMAIN parts : parts[j].text \in Strings
  BY PartsSettled
<1>4. texts \in Seq(Strings) /\ Len(texts) = last - i
  <2>1. last - i \in Nat
    BY <1>3
  <2>2. \A k \in 1 .. last - i : parts[i + k].text \in Strings
    BY <1>3
  <2>3. PICK m \in Nat : m = last - i
    BY <2>1
  <2>4. texts \in [1 .. m -> Strings]
    BY <2>2, <2>3
  <2> HIDE DEF texts
  <2> QED
    BY <2>3, <2>4
<1> HIDE DEF texts
<1>5. PICK g \in [0 .. Len(texts) -> Strings] : Flattens(g, texts)
  BY <1>4, FlattenSteps DEF Strings
<1>6. Len(texts) \in Nat
  BY <1>4
<1> QED
  BY <1>2, <1>3, <1>4, <1>5, <1>6 DEF Flattens

(* Where a part ends                                                       *)
EndsAt(i, s, at, e) ==
  /\ e \in -1 .. Len(s) /\ (e # -1 => at <= e)
  /\ IsConst(i) => e = IF at + Len(parts[i].text) <= Len(s)
                          /\ SubSeq(s, at + 1, at + Len(parts[i].text)) = parts[i].text
                       THEN at + Len(parts[i].text) ELSE -1
  /\ parts[i].kind = "fixed" => e = IF at < Len(s) /\ at + parts[i].len <= Len(s)
                                    THEN at + parts[i].len ELSE -1
  /\ parts[i].kind = "var" => (e = -1 <=> at = Len(s)) /\ (i = Len(parts) /\ e # -1 => e = Len(s))

LEMMA ExtractEnds ==
  ASSUME Settled, NEW i \in DOMAIN parts, NEW s \in Strings, NEW at \in 0 .. Len(s)
  PROVE  EndsAt(i, s, at, Extract(i, s, at))
<1> DEFINE p == parts[i]
<1>1. /\ p.kind \in {"const", "fixed", "var"} /\ p.text \in Strings /\ p.len \in Nat
      /\ IsConst(i) => p.len = Len(p.text)
  BY PartsSettled
<1>2. Len(s) \in Nat /\ Len(p.text) \in Nat
  BY <1>1 DEF Strings
<1>3. CASE p.kind = "const"
  <2>1. Extract(i, s, at) = IF at + p.len <= Len(s) /\ At(s, at + 1, p.text) THEN at + p.len ELSE -1
    BY <1>3 DEF Extract
  <2>2. At(s, at + 1, p.text) <=> SubSeq(s, at + 1, at + Len(p.text)) = p.text
    <3>1. at \in Nat
      BY <1>2
    <3>2. at + 1 + Len(p.text) - 1 = at + Len(p.text)
      <4>1. \A b \in Nat : at + 1 + b - 1 = at + b
        BY <3>1
      <4> QED
        BY <1>2, <4>1
    <3> QED
      BY <3>2 DEF At
  <2>3. p.len = Len(p.text) /\ p.len \in Nat
    BY <1>1, <1>3 DEF IsConst
  <2> QED
    BY <1>2, <1>3, <2>1, <2>2, <2>3 DEF EndsAt
<1>4. CASE p.kind = "fixed"
  <2>1. Extract(i, s, at) = IF at < Len(s) /\ at + p.len <= Len(s) THEN at + p.len ELSE -1
    BY <1>4 DEF Extract
  <2> QED
    BY <1>1, <1>2, <1>4, <2>1 DEF EndsAt, IsConst
<1>5. CASE p.kind = "var"
  <2>1. Extract(i, s, at) = IF at < Len(s) THEN Variable(i, s, at) ELSE -1
    BY <1>5 DEF Extract
  <2> DEFINE w == NextConstant(i)
             stop == {n \in 0 .. Len(s) - at : \/ at + n + Len(w) >= Len(s)
                                               \/ w # <<>> /\ At(s, at + n + 1, w)}
  <2>2. w \in Strings /\ (i = Len(parts) => w = <<>>)
    BY NextIsString
  <2>3. Len(w) \in Nat
    BY <2>2 DEF Strings
  <2>4. Len(s) - at \in stop /\ stop \subseteq Nat
    <3> HIDE DEF w
    <3> QED
      BY <1>2, <2>3
  <2>5. PICK m \in stop : m = Min(stop)
    BY <2>4, LeastIn
  <2>6. Variable(i, s, at) = at + m
    BY <2>5 DEF Variable
  <2>7. m \in 0 .. Len(s) - at
    OBVIOUS
  <2>8. i = Len(parts) => at + m = Len(s)
    <3>1. Len(<<>>) = 0
      OBVIOUS
    <3>2. ASSUME i = Len(parts) PROVE at + m >= Len(s)
      <4>1. w = <<>>
        BY <2>2, <3>2
      <4>2. at + m + Len(w) >= Len(s)
        BY <4>1
      <4> QED
        BY <1>2, <3>1, <4>1, <4>2
    <3> QED
      BY <1>2, <2>7, <3>2
  <2> HIDE DEF stop
  <2> QED
    BY <1>2, <1>5, <2>1, <2>6, <2>7, <2>8 DEF EndsAt, IsConst
<1> QED
  BY <1>1, <1>3, <1>4, <1>5

(* Ends, part by part                                                      *)
Walks(e, s) ==
  /\ e \in [0 .. Len(parts) -> -1 .. Len(s)] /\ e[0] = 0
  /\ \A i \in DOMAIN parts : IF e[i - 1] = -1 THEN e[i] = -1
                             ELSE e[i - 1] \in 0 .. Len(s) /\ EndsAt(i, s, e[i - 1], e[i])
                                  /\ e[i] = Extract(i, s, e[i - 1])

LEMMA EndsWalks ==
  ASSUME Settled, NEW s \in Strings
  PROVE  Walks(Ends(s), s)
<1> DEFINE n == Len(parts)
           Q == -1 .. Len(s)
           next(i, at) == IF at = -1 THEN -1 ELSE Extract(i, s, at)
           step == [x \in (1 .. n) \X Q |-> next(x[1], x[2])]
           Def(u) == [i \in 0 .. n |-> IF i = 0 THEN 0 ELSE next(i, u[i - 1])]
           v == CHOOSE v : v = Def(v)
<1>1. n \in Nat /\ DOMAIN parts = 1 .. n /\ Len(s) \in Nat
  BY PartsSettled DEF Strings
<1>2. Ends(s) = v
  BY DEF Ends
<1>3. ASSUME NEW i \in 1 .. n, NEW at \in Q PROVE next(i, at) \in Q
  <2>1. CASE at = -1
    BY <1>1, <2>1
  <2>2. CASE at # -1
    <3>1. at \in 0 .. Len(s)
      BY <1>1, <2>2
    <3>2. EndsAt(i, s, at, Extract(i, s, at))
      BY <1>1, <3>1, ExtractEnds
    <3> QED
      BY <2>2, <3>2 DEF EndsAt
  <2> QED
    BY <2>1, <2>2
<1>4. 0 \in Q
  BY <1>1
<1> HIDE DEF n, next, Q
<1>5. step \in [(1 .. n) \X Q -> Q]
  BY <1>3
<1>6. ASSUME NEW i \in 1 .. n, NEW at \in Q PROVE step[<<i, at>>] = next(i, at)
  OBVIOUS
<1> HIDE DEF step
<1>7. PICK u \in [0 .. n -> Q] : Unrolls(u, n, 0, step)
  BY <1>1, <1>4, <1>5, StepsExist
<1>8. u[0] = 0 /\ \A i \in 1 .. n : u[i] = next(i, u[i - 1])
  <2>1. ASSUME NEW i \in 1 .. n PROVE u[i] = next(i, u[i - 1])
    <3>1. u[i - 1] \in Q
      BY <1>1
    <3> QED
      BY <1>6, <1>7, <3>1 DEF Unrolls
  <2> QED
    BY <1>7, <2>1 DEF Unrolls
<1>9. u = Def(u)
  BY <1>8
<1>10. v = Def(v)
  <2> HIDE DEF Def
  <2> QED
    BY <1>9
<1>11. DOMAIN v = 0 .. n /\ v[0] = 0 /\ \A i \in 1 .. n : v[i] = next(i, v[i - 1])
  <2> HIDE DEF v
  <2>1. v = [i \in 0 .. n |-> IF i = 0 THEN 0 ELSE next(i, v[i - 1])]
    BY <1>10
  <2>2. 0 \in 0 .. n
    BY <1>1
  <2>3. \A i \in 1 .. n : i \in 0 .. n /\ i # 0
    BY <1>1
  <2> QED
    BY <2>1, <2>2, <2>3
<1> HIDE DEF v
<1> DEFINE P == {k \in Nat : k <= n => v[k] = u[k]}
<1>13. \A k \in 0 .. n : v[k] = u[k]
  <2>1. 0 \in P
    BY <1>8, <1>11
  <2>2. ASSUME NEW k \in Nat, k \in P PROVE k + 1 \in P
    <3>1. CASE k + 1 <= n
      <4>1. k + 1 \in 1 .. n /\ (k + 1) - 1 = k /\ v[k] = u[k]
        BY <1>1, <2>2, <3>1
      <4> QED
        BY <1>8, <1>11, <4>1
    <3>2. CASE ~(k + 1 <= n)
      BY <3>2
    <3> QED
      BY <3>1, <3>2
  <2>3. Nat \subseteq P
    <3> HIDE DEF P
    <3> QED
      BY <2>1, <2>2, SetInduction
  <2> QED
    BY <1>1, <2>3
<1>14. v \in [0 .. n -> Q]
  <2>1. v = [i \in 0 .. n |-> v[i]]
    BY <1>10, <1>11
  <2> QED
    BY <1>13, <2>1
<1>15. ASSUME NEW i \in 1 .. n, v[i - 1] # -1
       PROVE  v[i - 1] \in 0 .. Len(s) /\ v[i] = Extract(i, s, v[i - 1])
  <2>1. v[i - 1] \in Q
    BY <1>1, <1>14
  <2> QED
    BY <1>1, <1>11, <1>15, <2>1 DEF Q, next
<1>16. ASSUME NEW i \in 1 .. n PROVE IF v[i - 1] = -1 THEN v[i] = -1
         ELSE v[i - 1] \in 0 .. Len(s) /\ EndsAt(i, s, v[i - 1], v[i]) /\ v[i] = Extract(i, s, v[i - 1])
  <2>1. CASE v[i - 1] = -1
    BY <1>11, <2>1 DEF next
  <2>2. CASE v[i - 1] # -1
    BY <1>1, <1>15, <2>2, ExtractEnds
  <2> QED
    BY <2>1, <2>2
<1> QED
  BY <1>1, <1>2, <1>11, <1>14, <1>16 DEF Walks, n, Q

LEMMA EndsAscend ==
  ASSUME Settled, NEW s \in Strings
  PROVE  /\ \A i \in DOMAIN parts : Ends(s)[i] # -1 =>
              /\ Ends(s)[i - 1] \in 0 .. Len(s) /\ Ends(s)[i] \in 0 .. Len(s) /\ Ends(s)[i - 1] <= Ends(s)[i]
              /\ EndsAt(i, s, Ends(s)[i - 1], Ends(s)[i])
         /\ Fits(s) => \A i \in 0 .. Len(parts) : Ends(s)[i] \in 0 .. Len(s)
<1> DEFINE n == Len(parts)
           e == Ends(s)
<1>1. Walks(e, s)
  BY EndsWalks
<1>2. n \in Nat /\ DOMAIN parts = 1 .. n /\ Len(s) \in Nat
  BY PartsSettled DEF Strings
<1> HIDE DEF n, e
<1>3. ASSUME NEW i \in 1 .. n, e[i] # -1
      PROVE  e[i - 1] \in 0 .. Len(s) /\ e[i] \in 0 .. Len(s) /\ e[i - 1] <= e[i] /\ EndsAt(i, s, e[i - 1], e[i])
  <2>1. e[i - 1] \in 0 .. Len(s) /\ EndsAt(i, s, e[i - 1], e[i])
    BY <1>1, <1>2, <1>3 DEF Walks
  <2> QED
    BY <1>2, <1>3, <2>1 DEF EndsAt
<1>4. ASSUME e[n] # -1, NEW i \in 0 .. n PROVE e[i] \in 0 .. Len(s)
  <2> DEFINE P == {k \in Nat : k <= n => e[n - k] # -1}
  <2>1. 0 \in P
    <3>1. n - 0 = n
      BY <1>2
    <3> QED
      BY <1>4, <3>1
  <2>2. ASSUME NEW k \in Nat, k \in P PROVE k + 1 \in P
    <3>1. CASE k + 1 <= n
      <4>1. n - k \in 1 .. n /\ (n - k) - 1 = n - (k + 1)
        BY <1>2, <3>1
      <4>2. e[n - k] # -1
        BY <1>2, <2>2, <3>1
      <4>3. e[(n - k) - 1] \in 0 .. Len(s)
        BY <1>3, <4>1, <4>2
      <4>4. e[n - (k + 1)] # -1
        BY <1>2, <4>1, <4>3
      <4> QED
        BY <4>4
    <3>2. CASE ~(k + 1 <= n)
      BY <3>2
    <3> QED
      BY <3>1, <3>2
  <2>3. Nat \subseteq P
    <3> HIDE DEF P
    <3> QED
      BY <2>1, <2>2, SetInduction
  <2>4. n - i \in Nat /\ n - i <= n /\ n - (n - i) = i
    BY <1>2
  <2>5. e[i] # -1
    BY <2>3, <2>4
  <2>6. e[i] \in -1 .. Len(s)
    BY <1>1, <1>2 DEF Walks, n
  <2> QED
    BY <1>2, <2>5, <2>6
<1> QED
  BY <1>2, <1>3, <1>4 DEF Fits, n, e

(* A piece is what lies between two ends.                                  *)
LEMMA PieceIs ==
  ASSUME Settled, NEW s \in Strings, NEW i \in DOMAIN parts
  PROVE  /\ Piece(i, s) \in Strings
         /\ Ends(s)[i] # -1 => /\ Piece(i, s) = SubSeq(s, Ends(s)[i - 1] + 1, Ends(s)[i])
                               /\ Len(Piece(i, s)) = Ends(s)[i] - Ends(s)[i - 1]
                               /\ IsConst(i) => Piece(i, s) = parts[i].text
<1> DEFINE from == Ends(s)[i - 1]
           to   == Ends(s)[i]
<1>1. Piece(i, s) = IF to = -1 THEN <<>> ELSE SubSeq(s, from + 1, to)
  BY DEF Piece
<1>2. CASE to = -1
  BY <1>1, <1>2 DEF Strings
<1>3. CASE to # -1
  <2>1. from \in 0 .. Len(s) /\ to \in 0 .. Len(s) /\ from <= to /\ EndsAt(i, s, from, to)
    BY <1>3, EndsAscend
  <2> HIDE DEF from, to
  <2>2. Len(s) \in Nat /\ s \in Seq(DOMAIN Class)
    BY DEF Strings
  <2>3. /\ from + 1 \in Int /\ to \in Int /\ (\A j \in from + 1 .. to : s[j] \in DOMAIN Class)
        /\ to - (from + 1) + 1 = to - from /\ (~(from + 1 <= to) => to - from = 0)
    BY <2>1, <2>2
  <2>4. SubSeq(s, from + 1, to) \in Strings /\ Len(SubSeq(s, from + 1, to)) = to - from
    BY <2>3, SubSeqProperties DEF Strings
  <2>5. ASSUME IsConst(i) PROVE SubSeq(s, from + 1, to) = parts[i].text
    BY <1>3, <2>1, <2>5 DEF EndsAt
  <2> QED
    BY <1>1, <1>3, <2>4, <2>5 DEF from, to
<1> QED
  BY <1>2, <1>3

(* What is kept of a string that fits is the string up to the last end.    *)
Pieces(s) == [i \in DOMAIN parts |-> Piece(i, s)]

LEMMA PiecesFlatten ==
  ASSUME Settled, NEW s \in Strings, Fits(s)
  PROVE  \E g \in [0 .. Len(parts) -> Strings] :
           Flattens(g, Pieces(s)) /\ \A i \in 0 .. Len(parts) : g[i] = SubSeq(s, 1, Ends(s)[i])
<1> DEFINE n == Len(parts)
           e == Ends(s)
<1>1. n \in Nat /\ DOMAIN parts = 1 .. n /\ Len(s) \in Nat /\ s \in Seq(DOMAIN Class)
  BY PartsSettled DEF Strings
<1>2. Pieces(s) \in Seq(Strings) /\ Len(Pieces(s)) = n /\ \A i \in 1 .. n : Pieces(s)[i] = Piece(i, s)
  <2>1. Pieces(s) \in [1 .. n -> Strings]
    BY <1>1, PieceIs DEF Pieces
  <2> HIDE DEF n
  <2>2. Pieces(s) \in Seq(Strings) /\ Len(Pieces(s)) = n
    BY <1>1, <2>1
  <2> QED
    BY <1>1, <2>2 DEF Pieces
<1>3. PICK g \in [0 .. n -> Strings] : Flattens(g, Pieces(s))
  BY <1>2, FlattenSteps DEF Strings
<1>4. \A i \in 0 .. n : e[i] \in 0 .. Len(s)
  BY EndsAscend
<1>5. \A i \in 1 .. n : e[i - 1] <= e[i] /\ Piece(i, s) = SubSeq(s, e[i - 1] + 1, e[i])
  <2>1. \A i \in 1 .. n : e[i] # -1
    BY <1>1, <1>4
  <2> QED
    BY <1>1, <2>1, EndsAscend, PieceIs
<1>6. e[0] = 0
  BY EndsWalks DEF Walks
<1> HIDE DEF n, e
<1> DEFINE P == {k \in Nat : k <= n => g[k] = SubSeq(s, 1, e[k])}
<1>7. 0 \in P
  <2>1. g[0] = <<>>
    BY <1>3 DEF Flattens
  <2>2. SubSeq(s, 1, 0) = <<>>
    BY SubSeqEmpty
  <2> QED
    BY <1>6, <2>1, <2>2
<1>8. ASSUME NEW k \in Nat, k \in P PROVE k + 1 \in P
  <2>1. CASE k + 1 <= n
    <3>1. k + 1 \in 1 .. n /\ (k + 1) - 1 = k /\ k \in 0 .. n /\ k + 1 \in 0 .. n /\ g[k] = SubSeq(s, 1, e[k])
      BY <1>1, <1>8, <2>1
    <3>2. g[k + 1] = g[k] \o Piece(k + 1, s)
      BY <1>2, <1>3, <3>1 DEF Flattens
    <3>3. /\ Piece(k + 1, s) = SubSeq(s, e[k] + 1, e[k + 1]) /\ e[k] <= e[k + 1]
          /\ e[k] \in 0 .. Len(s) /\ e[k + 1] \in 0 .. Len(s)
      BY <1>4, <1>5, <3>1
    <3>4. 1 \in 1 .. Len(s) + 1 /\ e[k] \in 1 - 1 .. Len(s) /\ e[k + 1] \in e[k] .. Len(s)
      BY <1>1, <3>3
    <3>5. SubSeq(s, 1, e[k]) \o SubSeq(s, e[k] + 1, e[k + 1]) = SubSeq(s, 1, e[k + 1])
      BY <1>1, <3>4, ConcatAdjacentSubSeq
    <3>6. g[k + 1] = SubSeq(s, 1, e[k + 1])
      BY <3>1, <3>2, <3>3, <3>5, Zenon
    <3> QED
      BY <3>6
  <2>2. CASE ~(k + 1 <= n)
    BY <2>2
  <2> QED
    BY <2>1, <2>2
<1>9. Nat \subseteq P
  <2> HIDE DEF P
  <2> QED
    BY <1>7, <1>8, SetInduction
<1>10. \A i \in 0 .. n : g[i] = SubSeq(s, 1, e[i])
  BY <1>1, <1>9
<1> QED
  BY <1>3, <1>10 DEF n, e
-----------------------------------------------------------------------------
(***************************************************************************)
(* The inductive invariant is one: what is so of the parts                 *)
(***************************************************************************)
LEMMA PartIs ==
  ASSUME Types
  PROVE  /\ Len(parts) \in Nat /\ DOMAIN parts = 1 .. Len(parts)
         /\ \A i \in DOMAIN parts : parts[i] \in Parts
BY DEF Types

(* The rows of the sample are finitely many.                               *)
LEMMA FiniteSample ==
  ASSUME Types
  PROVE  IsFiniteSet(sample)
<1>1. DOMAIN value = 1 .. Len(value) /\ Len(value) \in Nat
  BY DEF Types
<1>2. IsFiniteSet(1 .. Len(value))
  BY <1>1, FS_Interval
<1> QED
  BY <1>1, <1>2, FS_Subset DEF Types

(* The rows that are most of the sample are some rows, and more rows are   *)
(* most of it too.                                                         *)
LEMMA MostGrows ==
  ASSUME Types, NEW S, NEW T, S \subseteq T, T \subseteq sample, Most(S)
  PROVE  Most(T) /\ S # {}
<1>1. IsFiniteSet(sample)
  BY FiniteSample
<1>2. IsFiniteSet(T) /\ IsFiniteSet(S)
  BY <1>1, FS_Subset
<1>3. Cardinality(S) <= Cardinality(T) /\ Cardinality(S) \in Nat /\ Cardinality(T) \in Nat /\ Cardinality(sample) \in Nat
  BY <1>1, <1>2, FS_Subset, FS_CardinalityType
<1>4. S = {} => Cardinality(S) = 0
  BY FS_EmptySet
<1>5. Threshold \in Nat
  BY SubPatternsAssumption
<1>6. Threshold * Cardinality(sample) \in Nat
  BY <1>3, <1>5
<1>7. 100 * Cardinality(S) > Threshold * Cardinality(sample)
  BY DEF Most
<1>8. 100 * Cardinality(T) > Threshold * Cardinality(sample)
  <2>1. \A a, b, c \in Nat : a <= b /\ 100 * a > c => 100 * b > c
    OBVIOUS
  <2> QED
    BY <1>3, <1>6, <1>7, <2>1
<1> QED
  BY <1>3, <1>4, <1>6, <1>7, <1>8 DEF Most

(* Three sequences one after the other                                     *)
Concatenates(q, a, b, c) ==
  /\ Len(q) = Len(a) + Len(b) + Len(c)
  /\ \A j \in 1 .. Len(a) : q[j] = a[j]
  /\ \A j \in 1 .. Len(b) : q[Len(a) + j] = b[j]
  /\ \A j \in 1 .. Len(c) : q[Len(a) + Len(b) + j] = c[j]

LEMMA ThreeJoined ==
  ASSUME NEW S, NEW a \in Seq(S), NEW b \in Seq(S), NEW c \in Seq(S)
  PROVE  a \o b \o c \in Seq(S) /\ Concatenates(a \o b \o c, a, b, c)
<1>1. Len(a) \in Nat /\ Len(b) \in Nat /\ Len(c) \in Nat
  OBVIOUS
<1>2. PICK d \in Seq(S) : d = a \o b
  <2>1. a \o b \in Seq(S)
    OBVIOUS
  <2> QED
    BY <2>1
<1>3. /\ Len(d) = Len(a) + Len(b) /\ (\A j \in 1 .. Len(a) : d[j] = a[j])
      /\ \A j \in 1 .. Len(b) : d[Len(a) + j] = b[j]
  BY <1>1, <1>2
<1>4. PICK q \in Seq(S) : q = d \o c
  <2>1. d \o c \in Seq(S)
    OBVIOUS
  <2> QED
    BY <2>1
<1>5. /\ Len(q) = Len(d) + Len(c) /\ (\A j \in 1 .. Len(d) : q[j] = d[j])
      /\ \A j \in 1 .. Len(c) : q[Len(d) + j] = c[j]
  BY <1>1, <1>4
<1>6. ASSUME NEW j \in 1 .. Len(b) PROVE q[Len(a) + j] = b[j]
  <2>1. Len(a) + j \in 1 .. Len(d)
    BY <1>1, <1>3
  <2> QED
    BY <1>3, <1>5, <2>1
<1>7. \A j \in 1 .. Len(a) : q[j] = a[j]
  BY <1>1, <1>3, <1>5
<1>8. Concatenates(q, a, b, c)
  BY <1>1, <1>3, <1>5, <1>6, <1>7 DEF Concatenates
<1> QED
  BY <1>2, <1>4, <1>8

(* q is the parts with others in the place of part i.                      *)
Replaced(q, i, new) ==
  /\ q \in Seq(Parts) /\ Len(q) = Len(parts) - 1 + Len(new)
  /\ \A j \in 1 .. i - 1 : q[j] = parts[j]
  /\ \A j \in 1 .. Len(new) : q[i - 1 + j] = new[j]
  /\ \A j \in i + 1 .. Len(parts) : q[j + Len(new) - 1] = parts[j]

LEMMA Replacing ==
  ASSUME Types, NEW i \in DOMAIN parts, NEW new \in Seq(Parts)
  PROVE  Replaced(SubSeq(parts, 1, i - 1) \o new \o SubSeq(parts, i + 1, Len(parts)), i, new)
<1> DEFINE n == Len(parts)
           a == SubSeq(parts, 1, i - 1)
           c == SubSeq(parts, i + 1, n)
           q == a \o new \o c
<1>1. n \in Nat /\ i \in 1 .. n /\ parts \in Seq(Parts) /\ Len(new) \in Nat
  BY PartIs DEF Types
<1>2. a \in Seq(Parts) /\ Len(a) = i - 1 /\ \A j \in 1 .. i - 1 : a[j] = parts[j]
  BY <1>1
<1>3. c \in Seq(Parts) /\ Len(c) = n - i /\ \A j \in 1 .. n - i : c[j] = parts[i + j]
  BY <1>1
<1> HIDE DEF a, c, n
<1>4. q \in Seq(Parts) /\ Concatenates(q, a, new, c)
  BY <1>2, <1>3, ThreeJoined
<1> HIDE DEF q
<1>5. Len(q) = (i - 1) + Len(new) + (n - i) /\ \A j \in 1 .. i - 1 : q[j] = parts[j]
  BY <1>1, <1>2, <1>3, <1>4 DEF Concatenates
<1>6. \A j \in 1 .. Len(new) : q[i - 1 + j] = new[j]
  BY <1>1, <1>2, <1>3, <1>4 DEF Concatenates
<1>7. ASSUME NEW j \in i + 1 .. n PROVE q[j + Len(new) - 1] = parts[j]
  <2>1. j - i \in 1 .. n - i /\ i + (j - i) = j
    BY <1>1
  <2>2. c[j - i] = parts[j]
    BY <1>3, <2>1
  <2>3. q[(i - 1) + Len(new) + (j - i)] = c[j - i]
    BY <1>2, <1>3, <1>4, <2>1 DEF Concatenates
  <2>4. (i - 1) + Len(new) + (j - i) = j + Len(new) - 1
    BY <1>1
  <2> QED
    BY <2>2, <2>3, <2>4
<1>8. (i - 1) + Len(new) + (n - i) = n - 1 + Len(new)
  BY <1>1
<1>9. Replaced(q, i, new)
  BY <1>4, <1>5, <1>6, <1>7, <1>8 DEF Replaced, n
<1> QED
  BY <1>9 DEF q, a, c, n
-----------------------------------------------------------------------------
(***************************************************************************)
(* Splitting a part                                                        *)
(***************************************************************************)
CutFrom(t, s, m, n) ==
  t \in Strings /\ Len(t) = n - m + 1 /\ \A j \in 1 .. n - m + 1 : t[j] = s[m - 1 + j]

LEMMA Cuts ==
  ASSUME NEW s \in Strings, NEW m \in 1 .. Len(s) + 1, NEW n \in m - 1 .. Len(s)
  PROVE  CutFrom(SubSeq(s, m, n), s, m, n)
<1>1. s \in Seq(DOMAIN Class) /\ Len(s) \in Nat
  BY DEF Strings
<1>2. SubSeq(s, m, n) \in Seq(DOMAIN Class) /\ Len(SubSeq(s, m, n)) = n - m + 1
  BY <1>1, SubSeqProperties
<1>3. ASSUME NEW j \in 1 .. n - m + 1 PROVE SubSeq(s, m, n)[j] = s[m - 1 + j]
  <2>1. SubSeq(s, m, n)[j] = s[m + j - 1] /\ m + j - 1 = m - 1 + j
    BY <1>1, SubSeqProperties
  <2> QED
    BY <2>1
<1> QED
  BY <1>2, <1>3 DEF Strings, CutFrom

LEMMA GreatestIn ==
  ASSUME NEW n \in Nat, NEW T \in SUBSET (0 .. n), T # {}
  PROVE  Max(T) \in T
<1> DEFINE U == {k \in Nat : n - k \in T}
<1>1. PICK x \in T : TRUE
  OBVIOUS
<1>2. n - x \in U
  BY <1>1
<1>3. PICK m \in U : \A k \in U : m <= k
  BY <1>2, LeastNumber
<1>4. ASSUME NEW y \in T PROVE n - m >= y
  <2>1. n - y \in U
    BY <1>4
  <2>2. m <= n - y
    BY <1>3, <2>1
  <2> QED
    BY <2>2
<1>5. \E z \in T : \A y \in T : z >= y
  BY <1>3, <1>4
<1> QED
  BY <1>5 DEF Max

(* The first place of a string in another                                  *)
LEMMA FirstPlace ==
  ASSUME NEW s \in Strings, NEW w \in Strings, Has(s, w)
  PROVE  LET m == Min(Places(s, w))
         IN m \in 1 .. Len(s) - Len(w) + 1 /\ At(s, m, w) /\ \A k \in 1 .. m - 1 : ~At(s, k, w)
<1> DEFINE m == Min(Places(s, w))
<1>1. Len(s) \in Nat /\ Len(w) \in Nat
  BY DEF Strings
<1>2. Places(s, w) \in SUBSET Nat /\ Places(s, w) # {}
  BY <1>1 DEF Places, Has
<1>3. m \in Places(s, w) /\ \A k \in Places(s, w) : m <= k
  BY <1>2, LeastIn
<1> HIDE DEF m
<1>4. m \in 1 .. Len(s) - Len(w) + 1 /\ At(s, m, w)
  BY <1>3 DEF Places
<1>5. ASSUME NEW k \in 1 .. m - 1, At(s, k, w) PROVE FALSE
  <2>1. k \in Places(s, w)
    BY <1>1, <1>4, <1>5 DEF Places
  <2> QED
    BY <1>1, <1>3, <1>4, <2>1
<1> QED
  BY <1>4, <1>5 DEF m

LEMMA LCSString ==
  ASSUME NEW a \in Strings, NEW b \in Strings
  PROVE  LCS(a, b) \in Strings
<1> DEFINE s == IF Len(a) > Len(b) THEN b ELSE a
           t == IF Len(a) > Len(b) THEN a ELSE b
           common(n) == {i \in 1 .. Len(s) - n + 1 : Has(t, SubSeq(s, i, i + n - 1))}
           longest   == CHOOSE n \in 0 .. Len(s) : common(n) # {} /\ common(n + 1) = {}
           first     == Min(common(longest))
<1>1. LCS(a, b) = SubSeq(s, first, first + longest - 1)
  BY DEF LCS
<1>2. s \in Strings /\ t \in Strings
  OBVIOUS
<1> HIDE DEF s, t
<1>3. Len(s) \in Nat /\ Len(t) \in Nat
  BY <1>2 DEF Strings
<1>4. common(0) # {}
  <2>1. SubSeq(s, 1, 0) = <<>> /\ SubSeq(t, 1, 0) = <<>>
    BY SubSeqEmpty
  <2>2. Len(<<>>) = 0
    OBVIOUS
  <2>3. 1 \in Places(t, <<>>)
    BY <1>3, <2>1, <2>2 DEF Places, At
  <2>4. 1 \in 1 .. Len(s) - 0 + 1 /\ 1 + 0 - 1 = 0
    BY <1>3
  <2>5. Has(t, SubSeq(s, 1, 1 + 0 - 1))
    BY <2>1, <2>3, <2>4 DEF Has
  <2> QED
    BY <2>4, <2>5
<1>5. common(Len(s) + 1) = {}
  BY <1>3
<1> DEFINE T == {n \in Nat : common(n + 1) = {}}
<1>6. Len(s) \in T
  BY <1>3, <1>5
<1>7. PICK m \in T : \A k \in T : m <= k
  <2> HIDE DEF common
  <2> QED
    BY <1>6, LeastNumber
<1>8. m \in 0 .. Len(s) /\ common(m + 1) = {}
  BY <1>3, <1>6, <1>7
<1>9. common(m) # {}
  <2> HIDE DEF common
  <2>1. CASE m = 0
    BY <1>4, <2>1
  <2>2. CASE m # 0
    <3>1. m - 1 \in Nat /\ m - 1 \notin T /\ (m - 1) + 1 = m
      BY <1>3, <1>7, <1>8, <2>2
    <3> QED
      BY <3>1
  <2> QED
    BY <2>1, <2>2
<1>10. longest \in 0 .. Len(s) /\ common(longest) # {}
  <2> HIDE DEF common
  <2> QED
    BY <1>8, <1>9
<1>11. PICK k \in 0 .. Len(s) : k = longest
  BY <1>10
<1> HIDE DEF longest
<1>12. common(k) \in SUBSET Nat /\ common(k) # {}
  BY <1>3, <1>10, <1>11
<1>13. PICK from \in common(k) : from = first
  <2> HIDE DEF common
  <2>1. Min(common(k)) \in common(k)
    BY <1>12, LeastIn
  <2> QED
    BY <1>11, <2>1
<1>14. from \in 1 .. Len(s) - k + 1
  OBVIOUS
<1>15. first \in 1 .. Len(s) - k + 1
  BY <1>13, <1>14, Zenon
<1> HIDE DEF first
<1>16. first \in 1 .. Len(s) + 1 /\ first + k - 1 \in first - 1 .. Len(s)
  BY <1>3, <1>15
<1> QED
  BY <1>1, <1>2, <1>11, <1>16, Cuts DEF CutFrom

(* How a part is split: at a string w that most of its rows have           *)
SplitAt(p, tested, w, three) ==
  /\ tested \in Strings /\ w \in Strings /\ w # <<>> /\ Most(With(p, tested))
  /\ \A r \in With(p, tested) : Has(p.data[r], w)
  /\ three = ThreeParts(p, tested, w)

LEMMA PartData ==
  ASSUME NEW p \in Parts
  PROVE  /\ Live(p) \subseteq sample /\ p.data \in [Live(p) -> Strings]
         /\ \A r \in Live(p) : p.data[r] \in Strings
BY DEF Parts, Data, Live

(* testSpliter: what a part is split at is a character that passed.        *)
LEMMA SpliterIs ==
  ASSUME NEW p \in Parts, NEW a \in Live(p), SpliterOf(p, a) # <<>>
  PROVE  \E c \in DOMAIN Class : SpliterOf(p, a) = <<c>> /\ Spliter(p, c)
<1> DEFINE s == p.data[a]
           good == {i \in DOMAIN s : Class[s[i]] = Symbol /\ Spliter(p, s[i])}
           w == SpliterOf(p, a)
<1>1. s \in Strings /\ Len(s) \in Nat /\ DOMAIN s = 1 .. Len(s)
  BY PartData DEF Strings
<1>2. w = IF good = {} THEN <<>> ELSE <<s[Min(good)]>>
  BY DEF SpliterOf
<1>3. good # {} /\ w = <<s[Min(good)]>>
  <2> HIDE DEF good, s
  <2> QED
    BY <1>2
<1>4. good \in SUBSET Nat
  BY <1>1
<1>5. PICK i \in good : i = Min(good)
  <2> HIDE DEF good
  <2> QED
    BY <1>3, <1>4, LeastIn
<1>6. i \in DOMAIN s /\ Spliter(p, s[i]) /\ w = <<s[i]>>
  BY <1>3, <1>5
<1>7. s[i] \in DOMAIN Class
  BY <1>1, <1>6 DEF Strings
<1> QED
  BY <1>6, <1>7

(* testSpliter: with a character, most rows have it.                       *)
LEMMA AtSpliter ==
  ASSUME Types, NEW p \in Parts, NEW a \in Live(p), SpliterOf(p, a) # <<>>
  PROVE  SplitAt(p, SpliterOf(p, a), SpliterOf(p, a), ThreeParts(p, SpliterOf(p, a), SpliterOf(p, a)))
<1>1. PICK w : w = SpliterOf(p, a)
  OBVIOUS
<1>2. PICK c \in DOMAIN Class : w = <<c>> /\ Spliter(p, c)
  BY <1>1, SpliterIs
<1>3. w \in Strings /\ w # <<>>
  BY <1>2 DEF Strings
<1>4. Most(With(p, w))
  <2>1. Most({r \in With(p, <<c>>) : Len(p.data[r]) # 1})
    BY <1>2 DEF Spliter
  <2>2. With(p, w) \subseteq sample
    BY PartData DEF With
  <2> QED
    BY <1>2, <2>1, <2>2, MostGrows
<1>5. \A r \in With(p, w) : Has(p.data[r], w)
  BY DEF With
<1> QED
  BY <1>1, <1>3, <1>4, <1>5 DEF SplitAt

(* A string that has another has what the other is without its end.        *)
LEMMA HasFront ==
  ASSUME NEW s \in Strings, NEW w \in Strings, Len(w) >= 1, Has(s, w)
  PROVE  Front(w) \in Strings /\ Len(Front(w)) = Len(w) - 1 /\ Has(s, Front(w))
<1>1. Len(s) \in Nat /\ Len(w) \in Nat
  BY DEF Strings
<1>2. Front(w) \in Strings /\ Len(Front(w)) = Len(w) - 1 /\ \A j \in 1 .. Len(w) - 1 : Front(w)[j] = w[j]
  <2>1. 1 \in 1 .. Len(w) + 1 /\ Len(w) - 1 \in 1 - 1 .. Len(w)
    BY <1>1
  <2>2. Front(w) = SubSeq(w, 1, Len(w) - 1)
    BY DEF Front
  <2>3. /\ Front(w) \in Strings /\ Len(Front(w)) = (Len(w) - 1) - 1 + 1
        /\ \A j \in 1 .. (Len(w) - 1) - 1 + 1 : Front(w)[j] = w[1 - 1 + j]
    <3>1. CutFrom(Front(w), w, 1, Len(w) - 1)
      BY <2>1, <2>2, Cuts
    <3> QED
      BY <3>1 DEF CutFrom
  <2>4. (Len(w) - 1) - 1 + 1 = Len(w) - 1
    BY <1>1
  <2>5. ASSUME NEW j \in 1 .. Len(w) - 1 PROVE Front(w)[j] = w[j]
    <3>1. 1 - 1 + j = j
      BY <1>1
    <3>2. Front(w)[j] = w[1 - 1 + j]
      BY <2>3, <2>4
    <3> QED
      BY <3>1, <3>2
  <2> QED
    BY <2>3, <2>4, <2>5
<1>3. PICK m \in 1 .. Len(s) - Len(w) + 1 : SubSeq(s, m, m + Len(w) - 1) = w
  BY DEF Has, Places, At
<1>4. m \in 1 .. Len(s) + 1 /\ m + Len(w) - 1 \in m - 1 .. Len(s) /\ m + Len(w) - 2 \in m - 1 .. Len(s)
  BY <1>1
<1>5. \A j \in 1 .. Len(w) : w[j] = s[m - 1 + j]
  <2>1. (m + Len(w) - 1) - m + 1 = Len(w)
    BY <1>1
  <2>2. CutFrom(w, s, m, m + Len(w) - 1)
    BY <1>3, <1>4, Cuts
  <2> QED
    BY <2>1, <2>2 DEF CutFrom
<1>6. SubSeq(s, m, m + Len(w) - 2) = Front(w)
  <2> DEFINE u == SubSeq(s, m, m + Len(w) - 2)
  <2>1. (m + Len(w) - 2) - m + 1 = Len(w) - 1
    BY <1>1
  <2>2. u \in Strings /\ Len(u) = Len(w) - 1 /\ \A j \in 1 .. Len(w) - 1 : u[j] = s[m - 1 + j]
    <3>1. CutFrom(u, s, m, m + Len(w) - 2)
      BY <1>4, Cuts
    <3> HIDE DEF u
    <3> QED
      BY <2>1, <3>1 DEF CutFrom
  <2> HIDE DEF u
  <2>3. ASSUME NEW j \in 1 .. Len(u) PROVE u[j] = Front(w)[j]
    <3>1. j \in 1 .. Len(w) - 1 /\ j \in 1 .. Len(w)
      BY <1>1, <2>2
    <3>2. u[j] = s[m - 1 + j] /\ w[j] = s[m - 1 + j] /\ Front(w)[j] = w[j]
      BY <1>2, <1>5, <2>2, <3>1
    <3> QED
      BY <3>2
  <2>4. u = Front(w)
    BY <1>2, <2>2, <2>3, SeqEqual DEF Strings
  <2> QED
    BY <2>4 DEF u
<1>7. m \in Places(s, Front(w))
  <2>1. m \in 1 .. Len(s) - Len(Front(w)) + 1 /\ m + Len(Front(w)) - 1 = m + Len(w) - 2
    BY <1>1, <1>2
  <2> QED
    BY <1>6, <2>1 DEF Places, At
<1> QED
  BY <1>2, <1>7 DEF Has

(* testLCS: what is tested is the longest part that most rows have, and    *)
(* what is split at is shorter by one, and something still.                *)
LEMMA AtShared ==
  ASSUME Types, NEW p \in Parts, NEW a \in Live(p), NEW b \in Live(p), Shared(p, a, b) # <<>>
  PROVE  SplitAt(p, Shared(p, a, b), Front(Shared(p, a, b)), ThreeParts(p, Shared(p, a, b), Front(Shared(p, a, b))))
<1> DEFINE lcs == LCS(p.data[a], p.data[b])
           n   == Tested(p, lcs)
           w   == Shared(p, a, b)
<1>1. lcs \in Strings
  BY PartData, LCSString
<1>2. n # {} /\ w = SubSeq(lcs, 1, Max(n))
  BY DEF Shared
<1> HIDE DEF lcs, w
<1>3. Len(lcs) \in Nat
  BY <1>1 DEF Strings
<1>4. n \in SUBSET (0 .. Len(lcs))
  BY <1>3 DEF Tested
<1>5. PICK m \in n : m = Max(n)
  <2> HIDE DEF n
  <2> QED
    BY <1>2, <1>3, <1>4, GreatestIn
<1>6. m \in 2 .. Len(lcs) /\ Most(With(p, w)) /\ w = SubSeq(lcs, 1, m)
  BY <1>2, <1>5 DEF Tested
<1>7. w \in Strings /\ Len(w) = m
  <2>1. 1 \in 1 .. Len(lcs) + 1 /\ m \in 1 - 1 .. Len(lcs) /\ m - 1 + 1 = m
    BY <1>3, <1>6
  <2>2. CutFrom(w, lcs, 1, m)
    BY <1>1, <1>6, <2>1, Cuts
  <2> QED
    BY <2>1, <2>2 DEF CutFrom
<1>8. ASSUME NEW r \in With(p, w)
      PROVE  Front(w) \in Strings /\ Len(Front(w)) = Len(w) - 1 /\ Has(p.data[r], Front(w))
  <2>1. p.data[r] \in Strings /\ Has(p.data[r], w) /\ Len(w) >= 1
    BY <1>3, <1>6, <1>7, PartData DEF With
  <2> QED
    BY <1>7, <2>1, HasFront
<1>9. With(p, w) # {}
  <2>1. With(p, w) \subseteq sample
    BY PartData DEF With
  <2> QED
    BY <1>6, <2>1, MostGrows
<1>10. Front(w) \in Strings /\ Len(Front(w)) = Len(w) - 1
  BY <1>8, <1>9
<1>11. Front(w) # <<>>
  <2>1. Len(Front(w)) # 0
    BY <1>3, <1>6, <1>7, <1>10
  <2> QED
    BY <2>1
<1>12. SplitAt(p, w, Front(w), ThreeParts(p, w, Front(w)))
  BY <1>6, <1>7, <1>8, <1>10, <1>11 DEF SplitAt
<1> QED
  BY <1>12 DEF w

LEMMA SplitIsAt ==
  ASSUME Types, NEW p \in Parts, NEW three \in Splits(p)
  PROVE  \E tested, w : SplitAt(p, tested, w, three)
<1>1. PICK a \in Live(p), b \in Live(p) : three \in SplitsAt(p, a, b)
  <2>1. PICK x \in Live(p) \X Live(p) : three \in SplitsAt(p, x[1], x[2])
    BY DEF Splits
  <2> QED
    BY <2>1
<1>2. \/ \E w \in {SpliterOf(p, a)} \ {<<>>} : three = ThreeParts(p, w, w)
      \/ \E w \in {Shared(p, a, b)} \ {<<>>} : three = ThreeParts(p, w, Front(w))
  BY <1>1 DEF SplitsAt
<1>3. CASE \E w \in {SpliterOf(p, a)} \ {<<>>} : three = ThreeParts(p, w, w)
  BY <1>3, AtSpliter
<1>4. CASE \E w \in {Shared(p, a, b)} \ {<<>>} : three = ThreeParts(p, w, Front(w))
  BY <1>4, AtShared
<1> QED
  BY <1>2, <1>3, <1>4

(* A string is at the same place in a part of another and in the other.    *)
LEMMA AtShift ==
  ASSUME NEW y \in Strings, NEW s \in Strings, NEW w \in Strings, NEW off \in Nat,
         off + Len(y) <= Len(s), \A j \in 1 .. Len(y) : y[j] = s[off + j],
         NEW k \in 1 .. Len(y) - Len(w) + 1
  PROVE  At(y, k, w) <=> At(s, off + k, w)
<1> DEFINE l == Len(w)
<1>1. Len(s) \in Nat /\ Len(y) \in Nat /\ l \in Nat
  BY DEF Strings
<1>2. PICK u \in Strings : u = SubSeq(s, off + k, off + k + l - 1) /\ CutFrom(u, s, off + k, off + k + l - 1)
  <2>1. off + k \in 1 .. Len(s) + 1 /\ off + k + l - 1 \in off + k - 1 .. Len(s)
    BY <1>1
  <2>2. CutFrom(SubSeq(s, off + k, off + k + l - 1), s, off + k, off + k + l - 1)
    BY <2>1, Cuts
  <2> QED
    BY <2>2 DEF CutFrom
<1>3. PICK x \in Strings : x = SubSeq(y, k, k + l - 1) /\ CutFrom(x, y, k, k + l - 1)
  <2>1. k \in 1 .. Len(y) + 1 /\ k + l - 1 \in k - 1 .. Len(y)
    BY <1>1
  <2>2. CutFrom(SubSeq(y, k, k + l - 1), y, k, k + l - 1)
    BY <2>1, Cuts
  <2> QED
    BY <2>2 DEF CutFrom
<1>4. (k + l - 1) - k + 1 = l /\ (off + k + l - 1) - (off + k) + 1 = l
  BY <1>1
<1>5. Len(u) = l /\ Len(x) = l
  BY <1>2, <1>3, <1>4 DEF CutFrom
<1>6. ASSUME NEW j \in 1 .. Len(u) PROVE u[j] = x[j]
  <2>1. j \in 1 .. l /\ off + k - 1 + j = off + (k - 1 + j) /\ k - 1 + j \in 1 .. Len(y)
    BY <1>1, <1>5
  <2>2. u[j] = s[off + k - 1 + j] /\ x[j] = y[k - 1 + j]
    BY <1>2, <1>3, <1>4, <2>1 DEF CutFrom
  <2> QED
    BY <2>1, <2>2
<1>7. u = x
  BY <1>5, <1>6, SeqEqual DEF Strings
<1> QED
  BY <1>2, <1>3, <1>7 DEF At

(* What is before a string in another, up to its first place, does not run *)
(* into an earlier one.                                                    *)
LEMMA BeforeFirst ==
  ASSUME NEW s \in Strings, NEW w \in Strings, NEW m \in 1 .. Len(s) - Len(w) + 1,
         At(s, m, w), \A k \in 1 .. m - 1 : ~At(s, k, w)
  PROVE  SubSeq(s, 1, m - 1) \in Strings /\ EndsFirst(SubSeq(s, 1, m - 1), w)
<1> DEFINE x == SubSeq(s, 1, m - 1)
           l == Len(w)
<1>1. Len(s) \in Nat /\ l \in Nat /\ s \in Seq(DOMAIN Class) /\ w \in Seq(DOMAIN Class)
  BY DEF Strings
<1>2. x \in Strings /\ Len(x) = m - 1
  <2>1. 1 \in 1 .. Len(s) + 1 /\ m - 1 \in 1 - 1 .. Len(s) /\ (m - 1) - 1 + 1 = m - 1
    BY <1>1
  <2>2. CutFrom(x, s, 1, m - 1)
    BY <2>1, Cuts
  <2> QED
    BY <2>1, <2>2 DEF CutFrom
<1>3. x \o w = SubSeq(s, 1, m + l - 1)
  <2>1. w = SubSeq(s, m, m + l - 1)
    BY DEF At
  <2>2. (m - 1) + 1 = m /\ m - 1 \in 1 - 1 .. Len(s) /\ m + l - 1 \in m - 1 .. Len(s) /\ 1 \in 1 .. Len(s) + 1
    BY <1>1
  <2>3. SubSeq(s, 1, m - 1) \o SubSeq(s, (m - 1) + 1, m + l - 1) = SubSeq(s, 1, m + l - 1)
    BY <1>1, <2>2, ConcatAdjacentSubSeq
  <2> QED
    BY <2>1, <2>2, <2>3
<1>4. ASSUME NEW k \in 1 .. Len(x), At(x \o w, k, w) PROVE FALSE
  <2>1. k \in 1 .. m - 1 /\ SubSeq(x \o w, k, k + l - 1) = w
    BY <1>2, <1>4 DEF At
  <2>2. CutFrom(x \o w, s, 1, m + l - 1)
    <3>1. 1 \in 1 .. Len(s) + 1 /\ m + l - 1 \in 1 - 1 .. Len(s)
      BY <1>1
    <3> QED
      BY <1>3, <3>1, Cuts
  <2>3. x \o w \in Strings /\ Len(x \o w) = m + l - 1 /\ \A j \in 1 .. m + l - 1 : (x \o w)[j] = s[j]
    <3>1. (m + l - 1) - 1 + 1 = m + l - 1 /\ \A j \in 1 .. m + l - 1 : 1 - 1 + j = j
      BY <1>1
    <3> QED
      BY <2>2, <3>1 DEF CutFrom
  <2> HIDE DEF x
  <2>4. PICK y \in Strings : y = x \o w
    BY <2>3
  <2>5. 0 \in Nat /\ 0 + Len(y) <= Len(s) /\ k \in 1 .. Len(y) - l + 1 /\ 0 + k = k
    BY <1>1, <2>1, <2>3, <2>4
  <2>6. ASSUME NEW j \in 1 .. Len(y) PROVE y[j] = s[0 + j]
    <3>1. j \in 1 .. m + l - 1 /\ 0 + j = j
      BY <2>3, <2>4
    <3> QED
      BY <2>3, <2>4, <3>1
  <2>7. At(y, k, w)
    BY <1>4, <2>4
  <2>8. At(s, 0 + k, w)
    BY <2>5, <2>6, <2>7, AtShift
  <2> QED
    BY <2>1, <2>5, <2>8
<1> QED
  BY <1>2, <1>4 DEF EndsFirst

(* Two strings one after the other                                         *)
Follow(y, x, w) ==
  /\ y \in Strings /\ Len(y) = Len(x) + Len(w)
  /\ \A j \in 1 .. Len(x) : y[j] = x[j]
  /\ \A j \in 1 .. Len(w) : y[Len(x) + j] = w[j]

LEMMA StringsFollow ==
  ASSUME NEW x \in Strings, NEW w \in Strings
  PROVE  Follow(x \o w, x, w)
<1>1. x \in Seq(DOMAIN Class) /\ w \in Seq(DOMAIN Class) /\ Len(x) \in Nat /\ Len(w) \in Nat
  BY DEF Strings
<1>2. PICK y : y = x \o w
  OBVIOUS
<1>3. y \in Seq(DOMAIN Class) /\ Len(y) = Len(x) + Len(w)
  BY <1>1, <1>2
<1>4. (\A j \in 1 .. Len(x) : y[j] = x[j]) /\ \A j \in 1 .. Len(w) : y[Len(x) + j] = w[j]
  BY <1>1, <1>2
<1> QED
  BY <1>2, <1>3, <1>4 DEF Follow, Strings

(* What is after some place in a string runs into what the string does.    *)
LEMMA AfterFirst ==
  ASSUME NEW s \in Strings, NEW w \in Strings, NEW m \in 1 .. Len(s) + 1, EndsFirst(s, w)
  PROVE  SubSeq(s, m, Len(s)) \in Strings /\ EndsFirst(SubSeq(s, m, Len(s)), w)
<1>1. Len(s) \in Nat /\ Len(w) \in Nat /\ s \in Seq(DOMAIN Class) /\ w \in Seq(DOMAIN Class)
  BY DEF Strings
<1>2. PICK x : x = SubSeq(s, m, Len(s))
  OBVIOUS
<1>3. x \in Strings /\ Len(x) = Len(s) - m + 1 /\ \A j \in 1 .. Len(s) - m + 1 : x[j] = s[m - 1 + j]
  <2>1. Len(s) \in m - 1 .. Len(s)
    BY <1>1
  <2>2. CutFrom(x, s, m, Len(s))
    BY <1>2, <2>1, Cuts
  <2> QED
    BY <2>2 DEF CutFrom
<1>4. PICK y \in Strings : y = x \o w /\ Follow(y, x, w)
  <2>1. x \in Strings
    BY <1>3
  <2>2. Follow(x \o w, x, w)
    BY <2>1, StringsFollow, Zenon
  <2>3. x \o w \in Strings
    BY <2>2, Zenon DEF Follow
  <2> QED
    BY <2>2, <2>3, Zenon
<1>5. PICK z \in Strings : z = s \o w /\ Follow(z, s, w)
  <2>2. Follow(s \o w, s, w)
    BY StringsFollow, Zenon
  <2>3. s \o w \in Strings
    BY <2>2, Zenon DEF Follow
  <2> QED
    BY <2>2, <2>3, Zenon
<1>6. m - 1 \in Nat /\ (m - 1) + Len(y) <= Len(z)
  BY <1>1, <1>3, <1>4, <1>5 DEF Follow
<1>7. ASSUME NEW j \in 1 .. Len(y) PROVE y[j] = z[(m - 1) + j]
  <2>1. CASE j \in 1 .. Len(x)
    <3>1. m - 1 + j \in 1 .. Len(s) /\ j \in 1 .. Len(s) - m + 1
      BY <1>1, <1>3, <2>1
    <3> QED
      BY <1>3, <1>4, <1>5, <2>1, <3>1 DEF Follow
  <2>2. CASE j \notin 1 .. Len(x)
    <3>1. j - Len(x) \in 1 .. Len(w) /\ Len(x) + (j - Len(x)) = j /\ Len(s) + (j - Len(x)) = (m - 1) + j
      BY <1>1, <1>3, <1>4, <2>2 DEF Follow
    <3>2. y[Len(x) + (j - Len(x))] = w[j - Len(x)] /\ z[Len(s) + (j - Len(x))] = w[j - Len(x)]
      BY <1>4, <1>5, <3>1 DEF Follow
    <3> QED
      BY <3>1, <3>2
  <2> QED
    BY <2>1, <2>2
<1>8. ASSUME NEW k \in 1 .. Len(x), At(y, k, w) PROVE FALSE
  <2>1. k \in 1 .. Len(y) - Len(w) + 1 /\ (m - 1) + k \in 1 .. Len(s)
    BY <1>1, <1>3, <1>4 DEF Follow
  <2>2. At(z, (m - 1) + k, w)
    BY <1>6, <1>7, <1>8, <2>1, AtShift
  <2> QED
    BY <1>5, <2>1, <2>2 DEF EndsFirst
<1> QED
  BY <1>2, <1>3, <1>4, <1>8 DEF EndsFirst

(* The three parts that a part is split into                               *)
ThreeOf(three, p, w) ==
  /\ three \in Seq(Parts) /\ Len(three) = 3
  /\ \A k \in 1 .. 3 : three[k].kind = "open" /\ Live(three[k]) \subseteq Live(p)
  /\ w \in Range(three[2].data) /\ Same(three[2], w)
  /\ \A r \in Live(three[1]) : EndsFirst(three[1].data[r], w)
  /\ \A r \in Live(three[3]) : \E m \in 1 .. Len(p.data[r]) + 1 :
       three[3].data[r] = SubSeq(p.data[r], m, Len(p.data[r]))

LEMMA ThreePartsAre ==
  ASSUME Types, NEW p \in Parts, NEW tested, NEW w, NEW three, SplitAt(p, tested, w, three)
  PROVE  ThreeOf(three, p, w)
<1> DEFINE live == With(p, tested)
           at == [r \in live |-> Min(Places(p.data[r], w))]
           before == [r \in live |-> SubSeq(p.data[r], 1, at[r] - 1)]
           after == [r \in live |-> SubSeq(p.data[r], at[r] + Len(w), Len(p.data[r]))]
           same == [r \in live |-> w]
<1>1. w \in Strings /\ w # <<>> /\ Most(live) /\ (\A r \in live : Has(p.data[r], w)) /\ Len(w) \in Nat
  BY DEF SplitAt, Strings
<1>2. live \subseteq Live(p) /\ live \subseteq sample /\ live # {} /\ \A r \in live : p.data[r] \in Strings
  <2>1. live \subseteq Live(p)
    BY DEF With
  <2>2. live \subseteq sample /\ \A r \in live : p.data[r] \in Strings
    BY <2>1, PartData
  <2> QED
    BY <1>1, <2>1, <2>2, MostGrows
<1>3. three = <<Open(before), Open(same), Open(after)>>
  BY DEF SplitAt, ThreeParts
<1> HIDE DEF live
<1>4. ASSUME NEW r \in live
      PROVE  /\ before[r] \in Strings /\ EndsFirst(before[r], w) /\ after[r] \in Strings
             /\ \E m \in 1 .. Len(p.data[r]) + 1 : after[r] = SubSeq(p.data[r], m, Len(p.data[r]))
  <2>1. PICK s \in Strings : s = p.data[r]
    BY <1>2
  <2>2. PICK m : m = Min(Places(s, w))
    OBVIOUS
  <2>3. m \in 1 .. Len(s) - Len(w) + 1 /\ At(s, m, w) /\ \A k \in 1 .. m - 1 : ~At(s, k, w)
    BY <1>1, <2>1, <2>2, FirstPlace
  <2>4. before[r] = SubSeq(s, 1, m - 1) /\ after[r] = SubSeq(s, m + Len(w), Len(s))
    BY <2>1, <2>2
  <2>5. m + Len(w) \in 1 .. Len(s) + 1 /\ Len(s) \in (m + Len(w)) - 1 .. Len(s)
    <3>1. Len(s) \in Nat
      BY DEF Strings
    <3> QED
      BY <1>1, <2>3, <3>1
  <2>6. CutFrom(SubSeq(s, m + Len(w), Len(s)), s, m + Len(w), Len(s))
    BY <2>5, Cuts
  <2>7. before[r] \in Strings /\ EndsFirst(before[r], w)
    BY <1>1, <2>3, <2>4, BeforeFirst
  <2> HIDE DEF before, after
  <2> QED
    BY <2>1, <2>4, <2>5, <2>6, <2>7 DEF CutFrom
<1>5. before \in [live -> Strings] /\ after \in [live -> Strings] /\ same \in [live -> Strings]
  BY <1>1, <1>4
<1>6. DOMAIN before = live /\ DOMAIN after = live /\ DOMAIN same = live
  OBVIOUS
<1>7. Same(Open(same), w) /\ w \in Range(same)
  BY <1>1, <1>2 DEF Same, Live, Open, Range
<1> HIDE DEF before, after, same
<1>8. \A d \in [live -> Strings] : Open(d) \in Parts
  <2>1. <<>> \in Strings
    BY DEF Strings
  <2>2. \A d \in [live -> Strings] : d \in Data
    BY <1>2 DEF Data
  <2> QED
    BY <2>1, <2>2 DEF Open, Parts, Kinds
<1>9. \A d : Open(d).kind = "open" /\ Open(d).data = d /\ Live(Open(d)) = DOMAIN d
  BY DEF Open, Live
<1>10. PICK a \in Parts, b \in Parts, c \in Parts : a = Open(before) /\ b = Open(same) /\ c = Open(after)
  BY <1>5, <1>8
<1>11. /\ three \in Seq(Parts) /\ Len(three) = 3 /\ three[1] = a /\ three[2] = b /\ three[3] = c
       /\ \A k \in 1 .. 3 : three[k] \in {a, b, c}
  BY <1>3, <1>10
<1>12. \A k \in 1 .. 3 : three[k].kind = "open" /\ Live(three[k]) \subseteq Live(p)
  BY <1>2, <1>6, <1>9, <1>10, <1>11
<1>13. w \in Range(three[2].data) /\ Same(three[2], w)
  BY <1>7, <1>9, <1>10, <1>11
<1>14. \A r \in Live(three[1]) : EndsFirst(three[1].data[r], w)
  BY <1>4, <1>6, <1>9, <1>10, <1>11
<1>15. \A r \in Live(three[3]) : \E m \in 1 .. Len(p.data[r]) + 1 :
         three[3].data[r] = SubSeq(p.data[r], m, Len(p.data[r]))
  <2>1. Live(three[3]) = live /\ three[3].data = after
    BY <1>6, <1>9, <1>10, <1>11
  <2> QED
    BY <1>4, <2>1
<1> QED
  BY <1>11, <1>12, <1>13, <1>14, <1>15 DEF ThreeOf
-----------------------------------------------------------------------------
(***************************************************************************)
(* Where parts meet, when one is replaced                                  *)
(***************************************************************************)
MeetAll(q) == \A j \in 1 .. Len(q) - 1 : Meet(q[j], q[j + 1])

MeetInPlace(i, new) ==
  /\ \A k \in 1 .. Len(new) - 1 : Meet(new[k], new[k + 1])
  /\ Len(new) > 0 /\ i > 1 => Meet(parts[i - 1], new[1])
  /\ Len(new) > 0 /\ i < Len(parts) => Meet(new[Len(new)], parts[i + 1])
  /\ Len(new) = 0 /\ i > 1 /\ i < Len(parts) => Meet(parts[i - 1], parts[i + 1])

LEMMA ReplacedMeet ==
  ASSUME Types, Joined, NEW i \in DOMAIN parts, NEW new \in Seq(Parts), NEW q,
         Replaced(q, i, new), MeetInPlace(i, new)
  PROVE  MeetAll(q)
<1> DEFINE n == Len(parts)
           l == Len(new)
<1>1. n \in Nat /\ i \in 1 .. n /\ l \in Nat
  BY PartIs
<1>2. \A j \in 1 .. n - 1 : Meet(parts[j], parts[j + 1])
  BY DEF Joined
<1>3. /\ Len(q) = n - 1 + l
      /\ \A j \in 1 .. i - 1 : q[j] = parts[j]
      /\ \A j \in 1 .. l : q[i - 1 + j] = new[j]
      /\ \A j \in i + 1 .. n : q[j + l - 1] = parts[j]
  BY DEF Replaced
<1>4. /\ \A k \in 1 .. l - 1 : Meet(new[k], new[k + 1])
      /\ l > 0 /\ i > 1 => Meet(parts[i - 1], new[1])
      /\ l > 0 /\ i < n => Meet(new[l], parts[i + 1])
      /\ l = 0 /\ i > 1 /\ i < n => Meet(parts[i - 1], parts[i + 1])
  BY DEF MeetInPlace
<1> HIDE DEF n, l
<1>5. ASSUME NEW j \in 1 .. Len(q) - 1 PROVE Meet(q[j], q[j + 1])
  <2>0. j \in Nat /\ j >= 1 /\ j <= n + l - 2
    <3>1. Len(q) = n - 1 + l
      BY <1>3
    <3>2. j \in 1 .. (n - 1 + l) - 1
      BY <3>1
    <3> QED
      BY <1>1, <3>2
  <2>1. CASE j + 1 < i
    <3>1. j \in 1 .. i - 1 /\ j + 1 \in 1 .. i - 1 /\ j \in 1 .. n - 1
      BY <1>1, <2>1
    <3> QED
      BY <1>2, <1>3, <3>1
  <2>2. CASE j + 1 = i /\ l > 0
    <3>1. j \in 1 .. i - 1 /\ j = i - 1 /\ j + 1 = i - 1 + 1 /\ 1 \in 1 .. l /\ i > 1
      BY <1>1, <2>2
    <3>2. q[j] = parts[i - 1] /\ q[j + 1] = new[1]
      BY <1>3, <3>1
    <3> QED
      BY <1>4, <2>2, <3>1, <3>2
  <2>3. CASE j + 1 = i /\ l = 0
    <3>1. j \in 1 .. i - 1 /\ j = i - 1 /\ i + 1 \in i + 1 .. n /\ j + 1 = (i + 1) + l - 1 /\ i > 1 /\ i < n
      BY <1>1, <2>0, <2>3
    <3>2. q[j] = parts[i - 1] /\ q[j + 1] = parts[i + 1]
      BY <1>3, <3>1
    <3> QED
      BY <1>4, <2>3, <3>1, <3>2
  <2>4. CASE j >= i /\ j + 1 < i + l
    <3>1. PICK k \in 1 .. l - 1 : j = i - 1 + k
      <4>1. j - i + 1 \in 1 .. l - 1 /\ j = i - 1 + (j - i + 1)
        BY <1>1, <2>0, <2>4
      <4> QED
        BY <4>1
    <3>2. k \in 1 .. l /\ k + 1 \in 1 .. l /\ j + 1 = i - 1 + (k + 1)
      BY <1>1, <3>1
    <3>3. q[j] = new[k] /\ q[j + 1] = new[k + 1]
      BY <1>3, <3>1, <3>2
    <3> QED
      BY <1>4, <3>1, <3>3
  <2>5. CASE j >= i /\ j + 1 = i + l
    <3>1. l \in 1 .. l /\ j = i - 1 + l /\ i + 1 \in i + 1 .. n /\ j + 1 = (i + 1) + l - 1 /\ l > 0 /\ i < n
      BY <1>1, <2>0, <2>5
    <3>2. q[j] = new[l] /\ q[j + 1] = parts[i + 1]
      BY <1>3, <3>1
    <3> QED
      BY <1>4, <3>1, <3>2
  <2>6. CASE j >= i + l
    <3>1. PICK k \in 1 .. n - 1 : j = k + l - 1 /\ k \in i + 1 .. n
      <4>1. j - l + 1 \in 1 .. n - 1 /\ j = (j - l + 1) + l - 1 /\ j - l + 1 \in i + 1 .. n
        BY <1>1, <2>0, <2>6
      <4> QED
        BY <4>1
    <3>2. k + 1 \in i + 1 .. n /\ j + 1 = (k + 1) + l - 1
      BY <1>1, <3>1
    <3>3. q[j] = parts[k] /\ q[j + 1] = parts[k + 1]
      BY <1>3, <3>1, <3>2
    <3> QED
      BY <1>2, <3>1, <3>3
  <2> QED
    BY <1>1, <2>0, <2>1, <2>2, <2>3, <2>4, <2>5, <2>6
<1> QED
  BY <1>5 DEF MeetAll

(* A string that most rows have is a constant: a part that has no constant *)
(* or an empty one is not the same string in every row.                    *)
LEMMA NotTheSame ==
  ASSUME Types, NEW p \in Parts, Constants(p) = {} \/ <<>> \in Constants(p)
  PROVE  \A m \in Range(p.data) : ~Same(p, m)
<1> SUFFICES ASSUME NEW m \in Range(p.data), Same(p, m) PROVE FALSE
  OBVIOUS
<1>1. m # <<>> /\ Most(Live(p)) /\ \A r \in Live(p) : p.data[r] = m
  BY DEF Same
<1>2. CASE Constants(p) = {}
  <2>1. {r \in Live(p) : p.data[r] = m} = Live(p)
    BY <1>1
  <2> QED
    BY <1>1, <1>2, <2>1 DEF Constants
<1>3. CASE <<>> \in Constants(p)
  <2>1. Most({r \in Live(p) : p.data[r] = <<>>})
    BY <1>3 DEF Constants
  <2>2. {r \in Live(p) : p.data[r] = <<>>} # {}
    BY <2>1, MostGrows, PartData
  <2> QED
    BY <1>1, <2>2
<1> QED
  BY <1>2, <1>3

(* A part that is not meets the one before at the string of that.          *)
LEMMA MeetBefore ==
  ASSUME NEW o, NEW p, NEW q, Meet(o, p), \A m \in Range(p.data) : ~Same(p, m)
  PROVE  Meet(o, q)
BY DEF Meet

LEMMA ThreeMeet ==
  ASSUME Types, Joined, NEW i \in DOMAIN parts, Constants(parts[i]) = {},
         NEW w, NEW three, ThreeOf(three, parts[i], w)
  PROVE  MeetInPlace(i, three)
<1> DEFINE p == parts[i]
<1>1. /\ Len(parts) \in Nat /\ i \in 1 .. Len(parts) /\ p \in Parts
      /\ \A j \in 1 .. Len(parts) : parts[j] \in Parts
  BY PartIs
<1>2. Meet(three[1], three[2]) /\ Meet(three[2], three[3])
  BY DEF ThreeOf, Meet
<1>3. Len(three) = 3
  BY DEF ThreeOf
<1>4. ASSUME i > 1 PROVE Meet(parts[i - 1], three[1])
  <2>1. i - 1 \in 1 .. Len(parts) - 1 /\ (i - 1) + 1 = i
    BY <1>1, <1>4
  <2>2. Meet(parts[i - 1], p)
    BY <2>1 DEF Joined
  <2> QED
    BY <1>1, <2>2, NotTheSame, MeetBefore
<1>5. ASSUME i < Len(parts) PROVE Meet(three[3], parts[i + 1])
  <2>1. i \in 1 .. Len(parts) - 1
    BY <1>1, <1>5
  <2>2. Meet(p, parts[i + 1])
    BY <2>1 DEF Joined
  <2>3. \A m \in Range(p.data) : ~Same(p, m)
    BY <1>1, NotTheSame
  <2>4. PICK m \in Range(parts[i + 1].data) :
          /\ Same(parts[i + 1], m)
          /\ \A r \in Live(p) \cap Live(parts[i + 1]) : EndsFirst(p.data[r], m)
    BY <2>2, <2>3 DEF Meet
  <2>5. m \in Strings
    <3>1. i + 1 \in 1 .. Len(parts)
      BY <1>1, <1>5
    <3>2. parts[i + 1] \in Parts
      BY <1>1, <3>1
    <3> QED
      BY <2>4, <3>2, PartData DEF Range, Live
  <2>6. ASSUME NEW r \in Live(three[3]) \cap Live(parts[i + 1]) PROVE EndsFirst(three[3].data[r], m)
    <3>1. Live(three[3]) \subseteq Live(p)
      BY DEF ThreeOf
    <3>2. PICK s \in Strings : s = p.data[r] /\ EndsFirst(s, m)
      BY <1>1, <2>4, <3>1, PartData
    <3>3. PICK k \in 1 .. Len(s) + 1 : three[3].data[r] = SubSeq(s, k, Len(s))
      BY <3>2 DEF ThreeOf
    <3> QED
      BY <2>5, <3>2, <3>3, AfterFirst
  <2> QED
    BY <2>4, <2>6 DEF Meet
<1>6. ASSUME NEW k \in 1 .. Len(three) - 1 PROVE Meet(three[k], three[k + 1])
  <2>1. (k = 1 /\ k + 1 = 2) \/ (k = 2 /\ k + 1 = 3)
    BY <1>3
  <2> QED
    BY <1>2, <2>1
<1> QED
  BY <1>3, <1>4, <1>5, <1>6 DEF MeetInPlace

LEMMA OnePart ==
  ASSUME Types, Joined, NEW i \in DOMAIN parts, NEW x \in Parts, x.data = parts[i].data
  PROVE  /\ <<x>> \in Seq(Parts) /\ MeetInPlace(i, <<x>>)
         /\ Replaced([parts EXCEPT ![i] = x], i, <<x>>)
<1> DEFINE q == [parts EXCEPT ![i] = x]
<1>1. /\ Len(parts) \in Nat /\ i \in 1 .. Len(parts) /\ parts \in Seq(Parts)
      /\ DOMAIN parts = 1 .. Len(parts)
  BY PartIs DEF Types
<1>2. <<x>> \in Seq(Parts) /\ Len(<<x>>) = 1 /\ <<x>>[1] = x
  OBVIOUS
<1>3. \A o : (Meet(o, parts[i]) => Meet(o, x)) /\ (Meet(parts[i], o) => Meet(x, o))
  BY DEF Meet, Same, Live
<1>4. MeetInPlace(i, <<x>>)
  <2>1. ASSUME i > 1 PROVE Meet(parts[i - 1], x)
    <3>1. i - 1 \in 1 .. Len(parts) - 1 /\ (i - 1) + 1 = i
      BY <1>1, <2>1
    <3>2. Meet(parts[i - 1], parts[i])
      BY <3>1 DEF Joined
    <3> QED
      BY <1>3, <3>2
  <2>2. ASSUME i < Len(parts) PROVE Meet(x, parts[i + 1])
    <3>1. i \in 1 .. Len(parts) - 1
      BY <1>1, <2>2
    <3>2. Meet(parts[i], parts[i + 1])
      BY <3>1 DEF Joined
    <3> QED
      BY <1>3, <3>2
  <2>3. 1 .. Len(<<x>>) - 1 = {}
    BY <1>2
  <2> QED
    BY <1>2, <2>1, <2>2, <2>3 DEF MeetInPlace
<1>5. Replaced(q, i, <<x>>)
  <2>1. q \in Seq(Parts) /\ Len(q) = Len(parts)
    BY <1>1
  <2>2. q[i] = x /\ \A j \in 1 .. Len(parts) : j # i => q[j] = parts[j]
    BY <1>1
  <2> HIDE DEF q
  <2>3. PICK new : new = <<x>>
    OBVIOUS
  <2>4. Len(new) = 1 /\ new[1] = x
    BY <2>3
  <2>5. Len(q) = Len(parts) - 1 + Len(new)
    BY <1>1, <2>1, <2>4
  <2>6. \A j \in 1 .. i - 1 : q[j] = parts[j]
    BY <1>1, <2>2
  <2>7. ASSUME NEW j \in 1 .. Len(new) PROVE q[i - 1 + j] = new[j]
    <3>1. j = 1 /\ i - 1 + j = i
      BY <1>1, <2>4
    <3> QED
      BY <2>2, <2>4, <3>1
  <2>8. ASSUME NEW j \in i + 1 .. Len(parts) PROVE q[j + Len(new) - 1] = parts[j]
    <3>1. j + Len(new) - 1 = j /\ j # i /\ j \in 1 .. Len(parts)
      BY <1>1, <2>4
    <3> QED
      BY <2>2, <3>1
  <2>9. Replaced(q, i, new)
    BY <2>1, <2>5, <2>6, <2>7, <2>8 DEF Replaced
  <2> QED
    BY <2>3, <2>9
<1> QED
  BY <1>2, <1>4, <1>5

(* A step that replaces a part by parts that are as they should be keeps   *)
(* all three.                                                              *)
LEMMA PartsKept ==
  ASSUME Types, ClosedRight, Joined, pc = "split", UNCHANGED <<pc, value, sample>>,
         NEW i \in DOMAIN parts, NEW new \in Seq(Parts), Replaced(parts', i, new), MeetInPlace(i, new),
         \A k \in 1 .. Len(new) : Right(new[k])
  PROVE  Types' /\ ClosedRight' /\ Joined'
<1>1. Len(parts) \in Nat /\ i \in 1 .. Len(parts) /\ Len(new) \in Nat /\ DOMAIN parts = 1 .. Len(parts)
  BY PartIs
<1>2. Parts' = Parts
  BY DEF Parts, Data
<1>3. parts' \in Seq(Parts) /\ Len(parts') = Len(parts) - 1 + Len(new) /\ DOMAIN parts' = 1 .. Len(parts')
  BY <1>1 DEF Replaced
<1>4. Types'
  BY <1>2, <1>3 DEF Types
<1>5. ASSUME NEW j \in 1 .. Len(parts') PROVE Right(parts'[j])
  <2>1. CASE j < i
    <3>1. parts'[j] = parts[j] /\ j \in DOMAIN parts
      BY <1>1, <2>1 DEF Replaced
    <3> QED
      BY <3>1 DEF ClosedRight
  <2>2. CASE j >= i /\ j < i + Len(new)
    <3>1. j - i + 1 \in 1 .. Len(new) /\ j = i - 1 + (j - i + 1)
      BY <1>1, <2>2
    <3>2. parts'[j] = new[j - i + 1]
      BY <3>1 DEF Replaced
    <3> QED
      BY <3>1, <3>2
  <2>3. CASE j >= i + Len(new)
    <3>1. j - Len(new) + 1 \in i + 1 .. Len(parts) /\ j = (j - Len(new) + 1) + Len(new) - 1 /\ j - Len(new) + 1 \in DOMAIN parts
      BY <1>1, <1>3, <2>3
    <3>2. parts'[j] = parts[j - Len(new) + 1]
      BY <3>1 DEF Replaced
    <3> QED
      BY <3>1, <3>2 DEF ClosedRight
  <2> QED
    BY <1>1, <2>1, <2>2, <2>3
<1>6. ClosedRight'
  <2>1. ASSUME NEW j \in DOMAIN parts' PROVE Right(parts[j])'
    <3>1. Right(parts'[j])
      BY <1>3, <1>5, <2>1
    <3> QED
      BY <3>1 DEF Right, Constants, Most
  <2> QED
    BY <2>1 DEF ClosedRight
<1>7. MeetAll(parts')
  BY ReplacedMeet
<1>8. Joined'
  BY <1>7 DEF MeetAll, Joined, Meet, Same, Most
<1> QED
  BY <1>4, <1>6, <1>8
-----------------------------------------------------------------------------
(***************************************************************************)
(* The steps that split the sample                                         *)
(***************************************************************************)
Before == Types /\ ClosedRight /\ Joined

LEMMA ConstantKeeps ==
  ASSUME Before, NEW i \in DOMAIN parts, Constant(i)
  PROVE  Before'
<1> USE DEF Before
<1> DEFINE p == parts[i]
<1>1. PICK s \in Constants(p) :
        parts' = IF s = <<>> THEN RemoveAt(parts, i)
                 ELSE [parts EXCEPT ![i].kind = "const", ![i].text = s, ![i].len = Len(s)]
  BY DEF Constant
<1>2. pc = "split" /\ p.kind = "open" /\ UNCHANGED <<pc, value, sample>>
  BY DEF Constant, Due
<1>3. /\ Len(parts) \in Nat /\ i \in 1 .. Len(parts) /\ p \in Parts
      /\ \A j \in 1 .. Len(parts) : parts[j] \in Parts
  BY PartIs
<1>4. s \in Range(p.data) /\ s \in Strings
  BY <1>3, PartData DEF Constants, Range, Live
<1>5. CASE s = <<>>
  <2>1. <<>> \in Seq(Parts) /\ Len(<<>>) = 0
    OBVIOUS
  <2>2. parts' = SubSeq(parts, 1, i - 1) \o <<>> \o SubSeq(parts, i + 1, Len(parts))
    <3>1. parts' = SubSeq(parts, 1, i - 1) \o SubSeq(parts, i + 1, Len(parts))
      BY <1>1, <1>5 DEF RemoveAt
    <3>2. SubSeq(parts, 1, i - 1) \in Seq(Parts)
      BY <1>3 DEF Types
    <3>3. SubSeq(parts, 1, i - 1) \o <<>> = SubSeq(parts, 1, i - 1)
      BY <3>2, ConcatEmptySeq
    <3> QED
      BY <3>1, <3>3
  <2>3. Replaced(parts', i, <<>>)
    BY <2>1, <2>2, Replacing
  <2>4. ASSUME i > 1, i < Len(parts) PROVE Meet(parts[i - 1], parts[i + 1])
    <3>1. i - 1 \in 1 .. Len(parts) - 1 /\ (i - 1) + 1 = i
      BY <1>3, <2>4
    <3>2. Meet(parts[i - 1], p)
      BY <3>1 DEF Joined
    <3>3. \A m \in Range(p.data) : ~Same(p, m)
      BY <1>1, <1>3, <1>5, NotTheSame
    <3> QED
      BY <3>2, <3>3, MeetBefore
  <2>5. MeetInPlace(i, <<>>)
    <3>1. 1 .. Len(<<>>) - 1 = {}
      BY <2>1
    <3> QED
      BY <2>1, <2>4, <3>1 DEF MeetInPlace
  <2>6. 1 .. Len(<<>>) = {}
    BY <2>1
  <2> QED
    BY <1>2, <2>1, <2>3, <2>5, <2>6, PartsKept
<1>6. CASE s # <<>>
  <2> DEFINE x == [p EXCEPT !.kind = "const", !.text = s, !.len = Len(s)]
  <2>1. x \in Parts /\ x.data = p.data /\ x.kind = "const" /\ x.text = s /\ x.len = Len(s)
    <3>1. Len(s) \in Nat
      BY <1>4 DEF Strings
    <3> QED
      BY <1>3, <1>4, <3>1 DEF Parts, Kinds
  <2>2. parts' = [parts EXCEPT ![i] = x]
    BY <1>1, <1>6
  <2> HIDE DEF x
  <2>3. Constants(x) = Constants(p)
    BY <2>1 DEF Constants, Live
  <2>4. Right(x)
    BY <1>1, <1>6, <2>1, <2>3 DEF Right
  <2>5. <<x>> \in Seq(Parts) /\ MeetInPlace(i, <<x>>) /\ Replaced(parts', i, <<x>>)
    BY <1>3, <2>1, <2>2, OnePart
  <2>6. \A k \in 1 .. Len(<<x>>) : Right(<<x>>[k])
    BY <2>4
  <2> QED
    BY <1>2, <2>5, <2>6, PartsKept
<1> QED
  BY <1>5, <1>6

LEMMA SplitKeeps ==
  ASSUME Before, NEW i \in DOMAIN parts, Split(i)
  PROVE  Before'
<1> USE DEF Before
<1>1. PICK three \in Splits(parts[i]) :
        parts' = SubSeq(parts, 1, i - 1) \o three \o SubSeq(parts, i + 1, Len(parts))
  BY DEF Split
<1>2. pc = "split" /\ Constants(parts[i]) = {} /\ UNCHANGED <<pc, value, sample>>
  BY DEF Split, Due
<1>3. parts[i] \in Parts
  BY PartIs
<1>4. PICK tested, w : SplitAt(parts[i], tested, w, three)
  BY <1>3, SplitIsAt
<1>5. ThreeOf(three, parts[i], w)
  BY <1>3, <1>4, ThreePartsAre
<1>6. three \in Seq(Parts) /\ Len(three) = 3 /\ \A k \in 1 .. 3 : three[k].kind = "open"
  BY <1>5 DEF ThreeOf
<1>7. Replaced(parts', i, three)
  BY <1>1, <1>6, Replacing
<1>8. MeetInPlace(i, three)
  BY <1>2, <1>5, ThreeMeet
<1>9. \A k \in 1 .. Len(three) : Right(three[k])
  BY <1>6 DEF Right
<1> QED
  BY <1>2, <1>6, <1>7, <1>8, <1>9, PartsKept

LEMMA CloseKeeps ==
  ASSUME Before, NEW i \in DOMAIN parts, Close(i)
  PROVE  Before'
<1> USE DEF Before
<1> DEFINE p == parts[i]
           fixed == {n \in {Len(s) : s \in Range(p.data)} : Most({r \in Live(p) : Len(p.data[r]) = n})}
<1>1. parts' = IF fixed = {} THEN [parts EXCEPT ![i].kind = "var"]
               ELSE [parts EXCEPT ![i].kind = "fixed", ![i].len = CHOOSE n \in fixed : TRUE]
  BY DEF Close
<1>2. pc = "split" /\ Constants(p) = {} /\ UNCHANGED <<pc, value, sample>>
  BY DEF Close, Due
<1>3. p \in Parts
  BY PartIs
<1>4. \A n \in fixed : n \in Nat
  BY <1>3, PartData DEF Range, Live, Strings
<1>5. PICK x \in Parts : x.data = p.data /\ x.kind \in {"fixed", "var"} /\ parts' = [parts EXCEPT ![i] = x]
  <2> HIDE DEF fixed
  <2>1. CASE fixed = {}
    <3> DEFINE x == [p EXCEPT !.kind = "var"]
    <3>1. x \in Parts /\ x.data = p.data /\ x.kind = "var"
      BY <1>3 DEF Parts, Kinds
    <3>2. parts' = [parts EXCEPT ![i] = x]
      BY <1>1, <2>1
    <3> QED
      BY <3>1, <3>2
  <2>2. CASE fixed # {}
    <3>1. PICK n \in fixed : n = CHOOSE m \in fixed : TRUE
      BY <2>2
    <3> DEFINE x == [p EXCEPT !.kind = "fixed", !.len = n]
    <3>2. x \in Parts /\ x.data = p.data /\ x.kind = "fixed"
      BY <1>3, <1>4 DEF Parts, Kinds
    <3>3. parts' = [parts EXCEPT ![i] = x]
      BY <1>1, <2>2, <3>1
    <3> QED
      BY <3>2, <3>3
  <2> QED
    BY <2>1, <2>2
<1>6. Right(x)
  <2>1. Constants(x) = Constants(p)
    BY <1>5 DEF Constants, Live
  <2> QED
    BY <1>2, <1>5, <2>1 DEF Right
<1>7. <<x>> \in Seq(Parts) /\ MeetInPlace(i, <<x>>) /\ Replaced(parts', i, <<x>>)
  BY <1>5, OnePart
<1>8. \A k \in 1 .. Len(<<x>>) : Right(<<x>>[k])
  BY <1>6
<1> QED
  BY <1>2, <1>7, <1>8, PartsKept

(* While the sample is split nothing is taken apart yet.                   *)
LEMMA SplittingKeeps ==
  ASSUME Extracted, pc = "split", pc' = "split", UNCHANGED <<value, row, cells, outliers>>
  PROVE  Extracted'
<1>1. Len(cells) = 0 /\ row = 0 /\ outliers = {} /\ \E S : cells \in Seq(S)
  BY DEF Extracted
<1>2. cells = <<>>
  BY <1>1
<1>3. cells' \in Seq([DOMAIN parts' -> Strings]) /\ 1 .. row' = {}
  BY <1>1, <1>2
<1>4. Len(cells') = row' /\ row' \in 0 .. Len(value') /\ outliers' \subseteq 1 .. row'
  BY <1>1 DEF Extracted
<1> QED
  BY <1>1, <1>3, <1>4 DEF Extracted

LEMMA InitIInv == ASSUME Init PROVE IInv
<1>1. pc = "split" /\ value \in Inputs /\ sample \subseteq DOMAIN value /\ row = 0 /\ cells = <<>> /\ outliers = {}
  BY DEF Init
<1>2. value \in Seq(Strings \ {<<>>}) /\ value # <<>>
  BY <1>1, SubPatternsAssumption
<1> DEFINE d == [r \in sample |-> value[r]]
           x == Open(d)
<1>3. d \in [sample -> Strings]
  BY <1>1, <1>2
<1>4. x \in Parts /\ x.kind = "open"
  <2>1. <<>> \in Strings
    BY DEF Strings
  <2>2. d \in Data
    BY <1>3 DEF Data
  <2> HIDE DEF d
  <2> QED
    BY <2>1, <2>2 DEF Open, Parts, Kinds
<1>5. parts = <<x>>
  BY DEF Init
<1> HIDE DEF x
<1>6. parts \in Seq(Parts) /\ Len(parts) = 1 /\ DOMAIN parts = 1 .. 1 /\ parts[1] = x
  BY <1>4, <1>5
<1>7. Types
  BY <1>1, <1>2, <1>6 DEF Types
<1>8. ClosedRight
  BY <1>1, <1>4, <1>6 DEF ClosedRight, Right
<1>9. Joined
  BY <1>6 DEF Joined
<1>10. Extracted
  <2>1. Len(cells) = 0 /\ cells \in Seq([DOMAIN parts -> Strings]) /\ 1 .. row = {}
    BY <1>1
  <2>2. Len(value) \in Nat
    BY <1>2
  <2> QED
    BY <1>1, <2>1, <2>2 DEF Extracted
<1> QED
  BY <1>7, <1>8, <1>9, <1>10 DEF IInv

LEMMA BuildKeeps == ASSUME IInv, Build PROVE IInv'
<1> USE DEF IInv
<1>1. pc = "split" /\ pc' = "extract" /\ UNCHANGED <<value, sample, parts, row, cells, outliers>>
  BY DEF Build
<1>2. Types' /\ Joined'
  <2>1. Types'
    BY <1>1 DEF Types, Parts, Data
  <2>2. Joined'
    <3>1. Joined /\ parts' = parts /\ sample' = sample
      BY <1>1
    <3> HIDE DEF IInv
    <3>2. \A p, m : Same(p, m)' <=> Same(p, m)
      BY <3>1 DEF Same, Most
    <3>3. \A p, q : Meet(p, q)' <=> Meet(p, q)
      BY <3>2 DEF Meet
    <3> QED
      BY <3>1, <3>3 DEF Joined
  <2> QED
    BY <2>1, <2>2
<1>3. /\ Len(parts) \in Nat /\ DOMAIN parts = 1 .. Len(parts)
      /\ \A i \in DOMAIN parts : parts[i] \in Parts
  BY PartIs
<1>4. \A i \in DOMAIN parts : parts[i].kind # "open"
  BY <1>3 DEF Build, Closed
<1>5. ClosedRight'
  <2>1. ASSUME NEW i \in DOMAIN parts' PROVE Right(parts[i])' /\ (parts[i].kind # "open")'
    <3>1. Right(parts[i]) /\ i \in DOMAIN parts
      BY <1>1, <2>1 DEF ClosedRight
    <3>2. Right(parts'[i])
      BY <1>1, <3>1
    <3> QED
      BY <1>1, <1>4, <3>1, <3>2 DEF Right, Constants, Most
  <2> QED
    BY <2>1 DEF ClosedRight
<1>6. \A i \in DOMAIN parts : parts[i].len \in Int
  BY <1>3 DEF Parts
<1>7. /\ lens' \in [DOMAIN parts -> Int]
      /\ \A i \in DOMAIN parts : parts[i].kind = "fixed" => lens'[i] = parts[i].len
  BY <1>6 DEF Build
<1>8. row = 0 /\ Len(value) \in Nat /\ Len(value) # 0
  BY <1>1 DEF Types, Extracted
<1>9. Extracted'
  <2>1. 1 .. row = {} /\ row < Len(value)
    BY <1>8
  <2> QED
    BY <1>1, <1>7, <2>1 DEF Extracted
<1> QED
  BY <1>2, <1>5, <1>9

(* What is taken apart along the parts is the same in the next state, if   *)
(* these are.                                                              *)
LEMMA AsBefore ==
  ASSUME parts' = parts, NEW s
  PROVE  /\ Ends(s)' = Ends(s) /\ (Fits(s)' <=> Fits(s)) /\ Columns' = Columns
         /\ \A i \in DOMAIN parts : Piece(i, s)' = Piece(i, s)
<1>1. Ends(s)' = Ends(s)
  BY DEF Ends, Extract, Variable, NextConstant
<1> QED
  BY <1>1 DEF Fits, Columns, Piece

(* What the classes and lengths admit                                      *)
Admitted(i, s) ==
  Ends(s)[i] # -1 => Classes(Piece(i, s)) \subseteq tags[i] /\ Len(Piece(i, s)) <= lens[i]

(* What was kept of one value                                              *)
RowKept(r) ==
  /\ r \in outliers <=> ~Fits(value[r])
  /\ cells[r] = [i \in DOMAIN parts |-> IF Fits(value[r]) THEN Piece(i, value[r]) ELSE <<>>]
  /\ \A i \in Columns : Admitted(i, value[r])

LEMMA ExtractRowKeeps == ASSUME IInv, ExtractRow PROVE IInv'
<1> USE DEF IInv
<1> DEFINE s == value[row + 1]
           fits == Fits(s)
<1>1. pc = "extract" /\ UNCHANGED <<value, sample, parts>> /\ pc' \in {"extract", "done"} /\ pc' # "split"
  BY DEF ExtractRow
<1>2. row' = row + 1 /\ pc' = IF row' = Len(value) THEN "done" ELSE pc
  BY DEF ExtractRow
<1>3. outliers' = IF fits THEN outliers ELSE outliers \union {row + 1}
  BY DEF ExtractRow, Fits
<1>4. cells' = Append(cells, [i \in DOMAIN parts |-> IF fits THEN Piece(i, s) ELSE <<>>])
  BY DEF ExtractRow, Fits, Add
<1>5. tags' = [i \in DOMAIN parts |-> tags[i] \union Classes(Piece(i, s))]
  BY DEF ExtractRow, Seen
<1>6. lens' = [i \in DOMAIN parts |->
                IF parts[i].kind = "var" /\ Ends(s)[i] # -1 /\ Len(Piece(i, s)) > lens[i]
                THEN Len(Piece(i, s)) ELSE lens[i]]
  BY DEF ExtractRow
<1>7. /\ Len(cells) = row /\ row \in 0 .. Len(value) /\ outliers \subseteq 1 .. row /\ row < Len(value)
      /\ cells \in Seq([DOMAIN parts -> Strings]) /\ lens \in [DOMAIN parts -> Int]
      /\ \A i \in DOMAIN parts : parts[i].kind = "fixed" => lens[i] = parts[i].len
      /\ \A r \in 1 .. row : RowKept(r)
  BY <1>1 DEF Extracted, RowKept, Admitted
<1>8. Len(value) \in Nat /\ \A r \in 1 .. Len(value) : value[r] \in Strings
  BY DEF Types
<1>9. s \in Strings /\ row \in Nat /\ row + 1 \in 1 .. Len(value)
  <2>1. row \in Nat /\ row + 1 \in 1 .. Len(value)
    BY <1>7, <1>8
  <2> QED
    BY <1>8, <2>1
<1>10. Settled
  BY <1>1 DEF Settled
<1> HIDE DEF s, fits
<1>11. \A i \in DOMAIN parts : Piece(i, s) \in Strings /\ Len(Piece(i, s)) \in Nat
  BY <1>9, <1>10, PieceIs DEF Strings
<1>12. Types' /\ Joined'
  BY <1>1 DEF Types, Parts, Data, Joined, Meet, Same, Most
<1>13. ClosedRight'
  <2>1. ASSUME NEW i \in DOMAIN parts' PROVE Right(parts[i])' /\ (parts[i].kind # "open")'
    <3>1. Right(parts[i]) /\ i \in DOMAIN parts /\ parts[i].kind # "open"
      BY <1>1, <2>1 DEF ClosedRight
    <3>2. Right(parts'[i]) /\ parts'[i].kind # "open"
      BY <1>1, <3>1
    <3> QED
      BY <1>1, <3>2 DEF Right, Constants, Most
  <2> QED
    BY <2>1 DEF ClosedRight
<1> DEFINE new == [i \in DOMAIN parts |-> IF fits THEN Piece(i, s) ELSE <<>>]
<1>14. new \in [DOMAIN parts -> Strings]
  <2>1. <<>> \in Strings
    BY DEF Strings
  <2> QED
    BY <1>11, <2>1
<1>15. /\ cells' \in Seq([DOMAIN parts -> Strings]) /\ Len(cells') = row + 1 /\ cells'[row + 1] = new
       /\ \A r \in 1 .. row : cells'[r] = cells[r]
  <2>1. PICK T : T = [DOMAIN parts -> Strings]
    OBVIOUS
  <2>2. PICK x \in T : x = new
    BY <1>14, <2>1
  <2>3. cells \in Seq(T) /\ cells' = Append(cells, x)
    BY <1>4, <1>7, <2>1, <2>2
  <2> HIDE DEF new
  <2>4. cells' \in Seq(T) /\ Len(cells') = row + 1 /\ cells'[row + 1] = x
    BY <1>7, <1>9, <2>3
  <2>5. \A r \in 1 .. row : cells'[r] = cells[r]
    BY <1>7, <1>9, <2>3
  <2> QED
    BY <2>1, <2>2, <2>4, <2>5
<1>16. lens' \in [DOMAIN parts -> Int] /\ \A i \in DOMAIN parts : lens[i] <= lens'[i]
  BY <1>6, <1>7, <1>11
<1>17. \A i \in DOMAIN parts : parts[i].kind = "fixed" => lens'[i] = parts[i].len
  BY <1>6, <1>7
<1>18. ASSUME NEW i \in Columns, Ends(s)[i] # -1
       PROVE  Classes(Piece(i, s)) \subseteq tags'[i] /\ Len(Piece(i, s)) <= lens'[i]
  <2>1. i \in DOMAIN parts /\ parts[i].kind \in {"fixed", "var"}
    BY DEF Columns
  <2>2. Classes(Piece(i, s)) \subseteq tags'[i]
    BY <1>5, <2>1
  <2>3. CASE parts[i].kind = "fixed"
    <3>1. Len(Piece(i, s)) = Ends(s)[i] - Ends(s)[i - 1]
      BY <1>9, <1>10, <1>18, <2>1, PieceIs
    <3>2. EndsAt(i, s, Ends(s)[i - 1], Ends(s)[i]) /\ Ends(s)[i - 1] \in 0 .. Len(s)
      BY <1>9, <1>10, <1>18, <2>1, EndsAscend
    <3>3. Ends(s)[i] = Ends(s)[i - 1] + parts[i].len
      BY <1>18, <2>3, <3>2 DEF EndsAt
    <3>4. parts[i].len \in Nat /\ Len(s) \in Nat
      BY <1>9, <1>10, <2>1, PartsSettled DEF Strings
    <3> QED
      BY <1>17, <2>1, <2>2, <2>3, <3>1, <3>2, <3>3, <3>4
  <2>4. CASE parts[i].kind = "var"
    BY <1>6, <1>7, <1>11, <1>18, <2>1, <2>2, <2>4
  <2> QED
    BY <2>1, <2>3, <2>4
<1>19. ASSUME NEW r \in 1 .. row + 1
       PROVE  /\ r \in outliers' <=> ~Fits(value[r])
              /\ cells'[r] = [i \in DOMAIN parts |-> IF Fits(value[r]) THEN Piece(i, value[r]) ELSE <<>>]
              /\ \A i \in Columns : Ends(value[r])[i] # -1 =>
                   Classes(Piece(i, value[r])) \subseteq tags'[i] /\ Len(Piece(i, value[r])) <= lens'[i]
  <2>1. CASE r \in 1 .. row
    <3>1. RowKept(r) /\ value[r] \in Strings /\ r # row + 1
      BY <1>7, <1>8, <1>9, <2>1
    <3>2. (r \in outliers' <=> r \in outliers) /\ cells'[r] = cells[r]
      BY <1>3, <1>15, <2>1, <3>1
    <3>3. ASSUME NEW i \in Columns, Ends(value[r])[i] # -1
          PROVE  Classes(Piece(i, value[r])) \subseteq tags'[i] /\ Len(Piece(i, value[r])) <= lens'[i]
      <4>1. i \in DOMAIN parts
        BY DEF Columns
      <4>2. Classes(Piece(i, value[r])) \subseteq tags[i] /\ Len(Piece(i, value[r])) <= lens[i]
        BY <3>1, <3>3 DEF RowKept, Admitted
      <4>3. Len(Piece(i, value[r])) \in Nat
        BY <1>10, <3>1, <4>1, PieceIs DEF Strings
      <4>4. tags[i] \subseteq tags'[i] /\ lens[i] <= lens'[i] /\ lens[i] \in Int /\ lens'[i] \in Int
        BY <1>5, <1>7, <1>16, <4>1
      <4> QED
        BY <4>2, <4>3, <4>4
    <3> QED
      BY <3>1, <3>2, <3>3 DEF RowKept
  <2>2. CASE r = row + 1
    <3>1. value[r] = s
      BY <2>2 DEF s
    <3>2. row + 1 \notin outliers
      BY <1>7, <1>9
    <3>3. r \in outliers' <=> ~fits
      BY <1>3, <2>2, <3>2
    <3> QED
      BY <1>15, <1>18, <2>2, <3>1, <3>3 DEF fits
  <2> QED
    BY <1>9, <2>1, <2>2
<1>20. Extracted'
  <2>1. \A x : /\ Ends(x)' = Ends(x) /\ (Fits(x)' <=> Fits(x))
              /\ \A i \in DOMAIN parts : Piece(i, x)' = Piece(i, x)
    BY <1>1, AsBefore
  <2>2. Columns' = Columns
    BY <1>1, AsBefore
  <2>3. Len(cells') = row' /\ row' \in 0 .. Len(value) /\ outliers' \subseteq 1 .. row'
    BY <1>2, <1>3, <1>7, <1>8, <1>9, <1>15
  <2>4. (pc' = "extract" => row' < Len(value)) /\ (pc' = "done" => row' = Len(value))
    BY <1>1, <1>2, <1>7, <1>8, <1>9
  <2>5. ASSUME NEW r \in 1 .. row'
        PROVE  (/\ r \in outliers <=> ~Fits(value[r])
                /\ cells[r] = [i \in DOMAIN parts |-> IF Fits(value[r]) THEN Piece(i, value[r]) ELSE <<>>]
                /\ \A i \in Columns : Ends(value[r])[i] # -1 =>
                     Classes(Piece(i, value[r])) \subseteq tags[i] /\ Len(Piece(i, value[r])) <= lens[i])'
    <3>1. PICK x : x = value'[r] /\ x = value[r] /\ r \in 1 .. row + 1
      BY <1>1, <1>2
    <3>2. r \in outliers' <=> ~Fits(x)'
      BY <1>19, <2>1, <3>1
    <3>3. cells'[r] = [i \in DOMAIN parts |-> IF Fits(x) THEN Piece(i, x) ELSE <<>>]
      BY <1>19, <3>1
    <3>4. cells'[r] = [i \in DOMAIN parts |-> IF Fits(x) THEN Piece(i, x) ELSE <<>>]'
      BY <1>1, <2>1, <3>3
    <3>5. ASSUME NEW i \in Columns', Ends(x)'[i] # -1
          PROVE  Classes(Piece(i, x)') \subseteq tags'[i] /\ Len(Piece(i, x)') <= lens'[i]
      <4>1. i \in DOMAIN parts /\ i \in Columns
        BY <2>2 DEF Columns
      <4>2. Piece(i, x)' = Piece(i, x)
        BY <2>1, <4>1
      <4> QED
        BY <1>19, <2>1, <3>1, <3>5, <4>1, <4>2
    <3> QED
      BY <3>1, <3>2, <3>4, <3>5
  <2> QED
    BY <1>1, <1>15, <1>16, <1>17, <2>3, <2>4, <2>5 DEF Extracted
<1> QED
  BY <1>12, <1>13, <1>20

LEMMA NextKeeps == ASSUME IInv, [Next]_vars PROVE IInv'
<1>1. Before /\ Extracted
  BY DEF IInv, Before
<1>2. ASSUME NEW i \in DOMAIN parts, Constant(i) \/ Split(i) \/ Close(i) PROVE IInv'
  <2>1. pc = "split" /\ pc' = "split" /\ UNCHANGED <<value, row, cells, outliers>>
    BY <1>2 DEF Constant, Split, Close, Due
  <2>2. Extracted'
    BY <1>1, <2>1, SplittingKeeps
  <2>3. Before'
    BY <1>1, <1>2, ConstantKeeps, SplitKeeps, CloseKeeps
  <2> QED
    BY <2>2, <2>3 DEF IInv, Before
<1>3. CASE Build
  BY <1>3, BuildKeeps
<1>4. CASE ExtractRow
  BY <1>4, ExtractRowKeeps
<1>5. CASE UNCHANGED vars
  <2>1. UNCHANGED <<pc, value, sample, parts, row, cells, outliers, tags, lens>>
    BY <1>5 DEF vars
  <2>2. Types' /\ Joined'
    BY <1>1, <2>1 DEF Before, Types, Parts, Data, Joined, Meet, Same, Most
  <2>3. ClosedRight'
    <3>1. ASSUME NEW i \in DOMAIN parts' PROVE Right(parts[i])' /\ (pc # "split" => parts[i].kind # "open")'
      <4>1. Right(parts'[i]) /\ (pc # "split" => parts'[i].kind # "open")
        BY <1>1, <2>1, <3>1 DEF Before, ClosedRight
      <4> QED
        BY <2>1, <4>1 DEF Right, Constants, Most
    <3> QED
      BY <3>1 DEF ClosedRight
  <2>4. Extracted'
    <3>1. /\ Columns' = Columns
          /\ \A s : /\ Ends(s)' = Ends(s) /\ (Fits(s)' <=> Fits(s))
                   /\ \A i \in DOMAIN parts : Piece(i, s)' = Piece(i, s)
      BY <2>1, AsBefore
    <3>2. ASSUME NEW r \in 1 .. row'
          PROVE  (/\ r \in outliers <=> ~Fits(value[r])
                  /\ cells[r] = [i \in DOMAIN parts |-> IF Fits(value[r]) THEN Piece(i, value[r]) ELSE <<>>]
                  /\ \A i \in Columns : Ends(value[r])[i] # -1 =>
                       Classes(Piece(i, value[r])) \subseteq tags[i] /\ Len(Piece(i, value[r])) <= lens[i])'
      <4>1. PICK x : x = value'[r] /\ x = value[r] /\ r \in 1 .. row
        BY <2>1
      <4>2. RowKept(r)
        BY <1>1, <4>1 DEF Extracted, RowKept, Admitted
      <4>3. r \in outliers' <=> ~Fits(x)'
        BY <2>1, <3>1, <4>1, <4>2 DEF RowKept
      <4>4. cells'[r] = [i \in DOMAIN parts |-> IF Fits(x) THEN Piece(i, x) ELSE <<>>]
        BY <2>1, <4>1, <4>2 DEF RowKept
      <4>5. cells'[r] = [i \in DOMAIN parts |-> IF Fits(x) THEN Piece(i, x) ELSE <<>>]'
        BY <2>1, <3>1, <4>4
      <4>6. ASSUME NEW i \in Columns', Ends(x)'[i] # -1
            PROVE  Classes(Piece(i, x)') \subseteq tags'[i] /\ Len(Piece(i, x)') <= lens'[i]
        <5>1. i \in DOMAIN parts /\ i \in Columns
          BY <3>1 DEF Columns
        <5>2. Piece(i, x)' = Piece(i, x)
          BY <3>1, <5>1
        <5> QED
          BY <2>1, <3>1, <4>1, <4>2, <4>6, <5>1, <5>2 DEF RowKept, Admitted
      <4> QED
        BY <4>1, <4>3, <4>5, <4>6
    <3> QED
      BY <1>1, <2>1, <3>2 DEF Extracted
  <2> QED
    BY <2>2, <2>3, <2>4 DEF IInv
<1> QED
  BY <1>2, <1>3, <1>4, <1>5 DEF Next

(* In every reachable state the parts that were closed are right, parts    *)
(* side by side meet at a string that was split at, and what was kept of a *)
(* value is its pieces along the parts.                                    *)
THEOREM Invariance == Spec => []IInv
<1>1. Init => IInv
  BY InitIInv
<1>2. IInv /\ [Next]_vars => IInv'
  BY NextKeeps
<1> QED
  BY <1>1, <1>2, PTL DEF Spec
-----------------------------------------------------------------------------
(***************************************************************************)
(* What is kept of a value                                                 *)
(***************************************************************************)
LEMMA RowIs ==
  ASSUME IInv, NEW r \in 1 .. Len(cells)
  PROVE  /\ Settled /\ RowKept(r) /\ r \in 1 .. Len(value) /\ value[r] \in Strings /\ value[r] # <<>>
<1>1. Types /\ ClosedRight /\ Extracted
  BY DEF IInv
<1>2. Len(cells) = row /\ row \in 0 .. Len(value) /\ Len(value) \in Nat
  BY <1>1 DEF Extracted, Types
<1>3. r \in 1 .. row /\ r \in 1 .. Len(value)
  BY <1>2
<1>4. row # 0
  BY <1>2, <1>3
<1>5. Settled
  BY <1>1, <1>4 DEF Settled, Extracted
<1>6. value[r] \in Strings \ {<<>>}
  BY <1>1, <1>3 DEF Types
<1>7. RowKept(r)
  BY <1>1, <1>3 DEF Extracted, RowKept, Admitted
<1> QED
  BY <1>3, <1>5, <1>6, <1>7

(* The classes and lengths that the search filters with admit every cell   *)
(* that was kept: dataType and maxLen are those of the values that fit and *)
(* of some that do not, and no search misses a value for them.             *)
THEOREM FiltersRight == Spec => []FiltersAdmit
<1>1. ASSUME IInv PROVE FiltersAdmit
  <2> SUFFICES ASSUME NEW r \in 1 .. Len(cells), NEW i \in Columns, r \notin outliers
               PROVE  Classes(cells[r][i]) \subseteq tags[i] /\ Len(cells[r][i]) <= lens[i]
    BY DEF FiltersAdmit
  <2>1. Settled /\ RowKept(r) /\ value[r] \in Strings
    BY <1>1, RowIs
  <2>2. i \in DOMAIN parts
    BY DEF Columns
  <2>3. Fits(value[r]) /\ cells[r][i] = Piece(i, value[r])
    BY <2>1, <2>2 DEF RowKept
  <2>4. Ends(value[r])[i] # -1
    <3>1. Ends(value[r])[i] \in 0 .. Len(value[r])
      BY <2>1, <2>2, <2>3, EndsAscend, PartsSettled
    <3>2. Len(value[r]) \in Nat
      BY <2>1 DEF Strings
    <3> QED
      BY <3>1, <3>2
  <2> QED
    BY <2>1, <2>3, <2>4 DEF RowKept, Admitted
<1> QED
  BY <1>1, Invariance, PTL

(* What is kept of a value that fits, put together                         *)
LEMMA KeptIs ==
  ASSUME IInv, NEW r \in 1 .. Len(cells), r \notin outliers
  PROVE  /\ Fits(value[r]) /\ Kept(r) = FlattenSeq(Pieces(value[r]))
         /\ Ends(value[r])[Len(parts)] \in 0 .. Len(value[r])
         /\ Kept(r) = SubSeq(value[r], 1, Ends(value[r])[Len(parts)])
<1> DEFINE s == value[r]
<1>1. Settled /\ RowKept(r) /\ s \in Strings
  BY RowIs
<1>2. Fits(s) /\ cells[r] = [i \in DOMAIN parts |-> Piece(i, s)]
  BY <1>1 DEF RowKept
<1>3. /\ Len(parts) \in Nat /\ DOMAIN parts = 1 .. Len(parts) /\ Len(s) \in Nat
  BY <1>1, PartsSettled DEF Strings
<1> HIDE DEF s
<1>4. \A i \in DOMAIN parts : Ends(s)[i] # -1
  BY <1>1, <1>2, <1>3, EndsAscend
<1>5. ASSUME NEW i \in DOMAIN parts
      PROVE  (IF IsConst(i) THEN parts[i].text ELSE cells[r][i]) = Piece(i, s)
  BY <1>1, <1>2, <1>4, PieceIs
<1>6. Kept(r) = FlattenSeq(Pieces(s))
  <2>1. [i \in DOMAIN parts |-> IF IsConst(i) THEN parts[i].text ELSE cells[r][i]] = [i \in DOMAIN parts |-> Piece(i, s)]
    BY <1>5
  <2> QED
    BY <2>1 DEF Kept, Pieces
<1>7. PICK g \in [0 .. Len(parts) -> Strings] :
        Flattens(g, Pieces(s)) /\ \A i \in 0 .. Len(parts) : g[i] = SubSeq(s, 1, Ends(s)[i])
  BY <1>1, <1>2, PiecesFlatten
<1>8. Len(Pieces(s)) = Len(parts)
  BY <1>3 DEF Pieces
<1>9. Kept(r) = SubSeq(s, 1, Ends(s)[Len(parts)])
  <2>1. g[Len(parts)] = FlattenSeq(Pieces(s))
    BY <1>7, <1>8 DEF Flattens
  <2>2. Len(parts) \in 0 .. Len(parts)
    BY <1>3
  <2> QED
    BY <1>6, <1>7, <2>1, <2>2
<1>10. Ends(s)[Len(parts)] \in 0 .. Len(s)
  BY <1>1, <1>2, <1>3, EndsAscend
<1> QED
  BY <1>2, <1>6, <1>9, <1>10 DEF s

(* What is kept of a value along a sub-pattern is a beginning of it, and   *)
(* all of it if the last part is one of any length: SubPattern::extract    *)
(* mixes up nothing and takes nothing twice, and loses only what goes on   *)
(* after a constant or fixed last part.                                    *)
THEOREM KeepsExactly == Spec => []KeptExactly
<1>1. ASSUME IInv PROVE KeptExactly
  <2> SUFFICES ASSUME NEW r \in (1 .. Len(cells)) \ outliers
               PROVE  /\ IsPrefix(Kept(r), value[r])
                      /\ parts # <<>> /\ Last(parts).kind = "var" => Kept(r) = value[r]
    BY DEF KeptExactly
  <2> DEFINE s == value[r]
             m == Ends(s)[Len(parts)]
  <2>1. Settled /\ s \in Strings
    BY <1>1, RowIs
  <2>2. Fits(s) /\ m \in 0 .. Len(s) /\ Kept(r) = SubSeq(s, 1, m)
    BY <1>1, KeptIs
  <2>3. Len(s) \in Nat /\ s \in Seq(DOMAIN Class) /\ Len(parts) \in Nat /\ DOMAIN parts = 1 .. Len(parts)
    BY <2>1, PartsSettled DEF Strings
  <2>4. ASSUME parts # <<>>, Last(parts).kind = "var" PROVE m = Len(s)
    <3>1. Len(parts) \in DOMAIN parts
      <4>1. Len(parts) # 0
        BY <2>1, <2>4 DEF Settled, Types
      <4> QED
        BY <2>3, <4>1
    <3>2. m # -1 /\ parts[Len(parts)].kind = "var"
      BY <2>2, <2>3, <2>4 DEF Last
    <3>3. EndsAt(Len(parts), s, Ends(s)[Len(parts) - 1], m)
      BY <2>1, <3>1, <3>2, EndsAscend
    <3> QED
      BY <3>2, <3>3 DEF EndsAt
  <2> HIDE DEF s, m
  <2>5. Len(Kept(r)) = m /\ SubSeq(Kept(r), 1, m) = Kept(r)
    <3>1. 1 \in 1 .. Len(s) + 1 /\ m \in 1 - 1 .. Len(s) /\ m - 1 + 1 = m
      BY <2>2, <2>3
    <3>2. CutFrom(Kept(r), s, 1, m)
      BY <2>1, <2>2, <3>1, Cuts
    <3>3. Len(Kept(r)) = m /\ Kept(r) \in Seq(DOMAIN Class)
      BY <3>1, <3>2 DEF CutFrom, Strings
    <3>4. SubSeq(Kept(r), 1, Len(Kept(r))) = Kept(r)
      BY <3>3, SubSeqFull
    <3> QED
      BY <3>3, <3>4
  <2>6. IsPrefix(Kept(r), s)
    BY <2>2, <2>3, <2>5 DEF IsPrefix
  <2>7. SubSeq(s, 1, Len(s)) = s
    BY <2>3, SubSeqFull
  <2> QED
    BY <2>2, <2>4, <2>6, <2>7 DEF s, m
<1> QED
  BY <1>1, Invariance, PTL
-----------------------------------------------------------------------------
(***************************************************************************)
(* What is printed of a value                                              *)
(***************************************************************************)
Output == [text : Strings \union {Undefined}, const : Strings, first : BOOLEAN]
Nothing == [text |-> <<>>, const |-> <<>>, first |-> TRUE]

(* One part of what Printed puts together                                  *)
PrintStep(r, i, p) ==
  CASE p.text = Undefined -> p
    [] p.text # Undefined /\ parts[i].kind = "const" -> [p EXCEPT !.const = p.const \o parts[i].text]
    [] p.text # Undefined /\ parts[i].kind # "const" ->
         [text |-> IF Unreadable(i) THEN Undefined ELSE PrintPart(r, p.text, p.const, p.first, i),
          const |-> <<>>, first |-> FALSE]

LEMMA Concat ==
  ASSUME NEW a \in Strings, NEW b \in Strings
  PROVE  a \o b \in Strings
BY DEF Strings

LEMMA Regroup ==
  ASSUME NEW a \in Strings, NEW b \in Strings, NEW c \in Strings
  PROVE  a \o (b \o c) = (a \o b) \o c
<1>1. PICK S : S = DOMAIN Class
  OBVIOUS
<1>2. a \in Seq(S) /\ b \in Seq(S) /\ c \in Seq(S)
  BY <1>1 DEF Strings
<1> QED
  BY <1>2

LEMMA PrintStepIn ==
  ASSUME IInv, NEW r \in 1 .. Len(cells), NEW i \in DOMAIN parts, NEW p \in Output
  PROVE  PrintStep(r, i, p) \in Output
<1>1. Settled /\ value[r] \in Strings /\ parts[i].text \in Strings
  BY RowIs, PartsSettled
<1>2. cells[r][i] \in Strings
  <2>1. cells \in Seq([DOMAIN parts -> Strings])
    BY DEF IInv, Extracted
  <2>2. cells[r] \in [DOMAIN parts -> Strings]
    BY <2>1
  <2> QED
    BY <2>2
<1>3. <<>> \in Strings
  BY DEF Strings
<1>4. CASE p.text = Undefined
  BY <1>4 DEF PrintStep
<1>5. CASE p.text # Undefined /\ parts[i].kind = "const"
  <2>1. p.const \o parts[i].text \in Strings
    BY <1>1, Concat DEF Output
  <2>2. PrintStep(r, i, p) = [p EXCEPT !.const = p.const \o parts[i].text]
    BY <1>5 DEF PrintStep
  <2> QED
    BY <2>1, <2>2 DEF Output
<1>6. CASE p.text # Undefined /\ parts[i].kind # "const"
  <2>1. PICK a \in Strings, c \in Strings, first \in BOOLEAN : a = p.text /\ c = p.const /\ first = p.first
    BY <1>6 DEF Output
  <2>2. a \o c \in Strings /\ (a \o c) \o cells[r][i] \in Strings
    BY <1>2, Concat
  <2>3. Overwritten(a \o c, value[r]) \in Strings
    <3>1. PICK x \in Strings : x = a \o c
      BY <2>2
    <3>2. Len(x) \in Nat /\ Len(value[r]) \in Nat
      BY <1>1 DEF Strings
    <3>3. SubSeq(x, Len(value[r]) + 1, Len(x)) \in Strings
      <4>1. CASE Len(value[r]) <= Len(x)
        <5>1. Len(value[r]) + 1 \in 1 .. Len(x) + 1 /\ Len(x) \in (Len(value[r]) + 1) - 1 .. Len(x)
          BY <3>2, <4>1
        <5> QED
          BY <5>1, Cuts DEF CutFrom
      <4>2. CASE Len(value[r]) > Len(x)
        <5>1. SubSeq(x, Len(value[r]) + 1, Len(x)) = <<>>
          <6>1. Len(value[r]) + 1 \in Int /\ Len(x) \in Int /\ Len(x) < Len(value[r]) + 1
            BY <3>2, <4>2
          <6> QED
            BY <6>1, SubSeqEmpty, Zenon
        <5> QED
          BY <1>3, <5>1
      <4> QED
        BY <3>2, <4>1, <4>2
    <3> QED
      BY <1>1, <3>1, <3>3, Concat DEF Overwritten
  <2>4. PrintPart(r, a, c, first, i) \in Strings \union {Undefined}
    <3>1. CASE outliers = {} \/ cells[r][i] # <<>>
      <4>1. PrintPart(r, a, c, first, i) = (a \o c) \o cells[r][i]
        BY <3>1 DEF PrintPart
      <4> QED
        BY <2>2, <4>1
    <3>2. CASE outliers # {} /\ cells[r][i] = <<>> /\ ~first
      BY <2>2, <3>2 DEF PrintPart
    <3>3. CASE outliers # {} /\ cells[r][i] = <<>> /\ first
      <4>1. PrintPart(r, a, c, first, i) = IF r \in outliers THEN Overwritten(a \o c, value[r]) ELSE Undefined
        BY <3>3 DEF PrintPart
      <4> QED
        BY <2>3, <4>1
    <3> QED
      BY <3>1, <3>2, <3>3
  <2>5. PrintStep(r, i, p) = [text |-> IF Unreadable(i) THEN Undefined ELSE PrintPart(r, a, c, first, i),
                              const |-> <<>>, first |-> FALSE]
    BY <1>6, <2>1 DEF PrintStep
  <2> QED
    <3>1. PICK t \in Strings \union {Undefined} : t = IF Unreadable(i) THEN Undefined ELSE PrintPart(r, a, c, first, i)
      BY <2>4
    <3>2. PrintStep(r, i, p) = [text |-> t, const |-> <<>>, first |-> FALSE]
      BY <2>5, <3>1
    <3> QED
      BY <1>3, <3>2 DEF Output
<1> QED
  BY <1>4, <1>5, <1>6

(* Printed, part by part                                                   *)
Prints(v, r) ==
  /\ v[0] = Nothing /\ \A i \in DOMAIN parts : v[i] = PrintStep(r, i, v[i - 1])
  /\ Printed(r) = IF v[Len(parts)].text = Undefined THEN Undefined
                  ELSE v[Len(parts)].text \o v[Len(parts)].const

LEMMA PrintsWalk ==
  ASSUME IInv, NEW r \in 1 .. Len(cells)
  PROVE  \E v \in [0 .. Len(parts) -> Output] : Prints(v, r)
<1> DEFINE n == Len(parts)
           next(i, p) == PrintStep(r, i, p)
           Q == Output
           step == [x \in (1 .. n) \X Q |-> next(x[1], x[2])]
           Def(u) == [i \in 0 .. n |-> IF i = 0 THEN Nothing ELSE next(i, u[i - 1])]
           v == CHOOSE v : v = Def(v)
<1>1. n \in Nat /\ DOMAIN parts = 1 .. n
  BY RowIs, PartsSettled
<1>2. Printed(r) = IF v[n].text = Undefined THEN Undefined ELSE v[n].text \o v[n].const
  BY DEF Printed, PrintStep, Nothing
<1>3. ASSUME NEW i \in 1 .. n, NEW p \in Q PROVE next(i, p) \in Q
  BY <1>1, PrintStepIn
<1>4. Nothing \in Q
  <2>1. <<>> \in Strings
    BY DEF Strings
  <2> QED
    BY <2>1 DEF Nothing, Output
<1> HIDE DEF n, next, Q
<1>5. step \in [(1 .. n) \X Q -> Q]
  BY <1>3
<1>6. ASSUME NEW i \in 1 .. n, NEW p \in Q PROVE step[<<i, p>>] = next(i, p)
  OBVIOUS
<1> HIDE DEF step
<1>7. PICK u \in [0 .. n -> Q] : Unrolls(u, n, Nothing, step)
  BY <1>1, <1>4, <1>5, StepsExist
<1>8. u[0] = Nothing /\ \A i \in 1 .. n : u[i] = next(i, u[i - 1])
  <2>1. ASSUME NEW i \in 1 .. n PROVE u[i] = next(i, u[i - 1])
    <3>1. u[i - 1] \in Q
      BY <1>1
    <3> QED
      BY <1>6, <1>7, <3>1 DEF Unrolls
  <2> QED
    BY <1>7, <2>1 DEF Unrolls
<1>9. u = Def(u)
  BY <1>8
<1>10. v = Def(v)
  <2> HIDE DEF Def
  <2> QED
    BY <1>9
<1>11. DOMAIN v = 0 .. n /\ v[0] = Nothing /\ \A i \in 1 .. n : v[i] = next(i, v[i - 1])
  <2> HIDE DEF v
  <2>1. v = [i \in 0 .. n |-> IF i = 0 THEN Nothing ELSE next(i, v[i - 1])]
    BY <1>10
  <2>2. 0 \in 0 .. n
    BY <1>1
  <2>3. \A i \in 1 .. n : i \in 0 .. n /\ i # 0
    BY <1>1
  <2> QED
    BY <2>1, <2>2, <2>3
<1> HIDE DEF v
<1> DEFINE P == {k \in Nat : k <= n => v[k] = u[k]}
<1>12. \A k \in 0 .. n : v[k] = u[k]
  <2>1. 0 \in P
    BY <1>8, <1>11
  <2>2. ASSUME NEW k \in Nat, k \in P PROVE k + 1 \in P
    <3>1. CASE k + 1 <= n
      <4>1. k + 1 \in 1 .. n /\ (k + 1) - 1 = k /\ v[k] = u[k]
        BY <1>1, <2>2, <3>1
      <4> QED
        BY <1>8, <1>11, <4>1
    <3>2. CASE ~(k + 1 <= n)
      BY <3>2
    <3> QED
      BY <3>1, <3>2
  <2>3. Nat \subseteq P
    <3> HIDE DEF P
    <3> QED
      BY <2>1, <2>2, SetInduction
  <2> QED
    BY <1>1, <2>3
<1>13. n \in 0 .. n
  BY <1>1
<1>14. Printed(r) = IF u[n].text = Undefined THEN Undefined ELSE u[n].text \o u[n].const
  BY <1>2, <1>12, <1>13
<1>15. Prints(u, r)
  BY <1>1, <1>8, <1>14 DEF Prints, n, next
<1> QED
  BY <1>15 DEF n, Q

(* What is printed of a value that fits, when no sub-variable is           *)
(* unreadable or taken for that of an outlier, is what was kept of it.     *)
GoodSoFar(v, g, k) ==
  /\ v[k].text \in Strings /\ v[k].text \o v[k].const = g[k]
  /\ v[k].first = (\A j \in 1 .. k : IsConst(j))

LEMMA PrintsKept ==
  ASSUME IInv, NEW r \in 1 .. Len(cells), r \notin outliers,
         outliers = {} \/ ~FirstEmpty(r), \A i \in DOMAIN parts : ~Unreadable(i)
  PROVE  Printed(r) = Kept(r)
<1> DEFINE n == Len(parts)
           s == value[r]
<1>1. Settled /\ RowKept(r) /\ s \in Strings
  BY RowIs
<1>2. Fits(s) /\ Kept(r) = FlattenSeq(Pieces(s))
  BY KeptIs
<1>3. n \in Nat /\ DOMAIN parts = 1 .. n
  BY <1>1, PartsSettled
<1> HIDE DEF s
<1>4. PICK g \in [0 .. n -> Strings] : Flattens(g, Pieces(s))
  BY <1>1, <1>2, PiecesFlatten
<1>5. \A i \in 1 .. n : Ends(s)[i] # -1
  <2>1. \A i \in 0 .. n : Ends(s)[i] \in 0 .. Len(s)
    BY <1>1, <1>2, EndsAscend
  <2>2. Len(s) \in Nat
    BY <1>1 DEF Strings
  <2> QED
    BY <1>3, <2>1, <2>2
<1>6. /\ Len(Pieces(s)) = n
      /\ \A i \in 1 .. n : g[i - 1] \in Strings /\ g[i] = g[i - 1] \o Piece(i, s) /\ Piece(i, s) \in Strings
  <2>1. Len(Pieces(s)) = n /\ \A i \in 1 .. n : Pieces(s)[i] = Piece(i, s)
    BY <1>3 DEF Pieces
  <2>2. ASSUME NEW i \in 1 .. n PROVE i - 1 \in 0 .. n
    BY <1>3
  <2> QED
    BY <1>1, <1>3, <1>4, <2>1, <2>2, PieceIs DEF Flattens
<1>7. \A i \in DOMAIN parts : cells[r][i] = Piece(i, s) /\ (IsConst(i) => Piece(i, s) = parts[i].text)
  <2>1. cells[r] = [i \in DOMAIN parts |-> Piece(i, s)]
    BY <1>1, <1>2 DEF RowKept, s
  <2> QED
    BY <1>1, <1>3, <1>5, <2>1, PieceIs
<1>8. PICK v \in [0 .. n -> Output] : Prints(v, r)
  BY PrintsWalk
<1> HIDE DEF n
<1> DEFINE P == {k \in Nat : k <= n => GoodSoFar(v, g, k)}
<1>9. 0 \in P
  <2>1. v[0] = Nothing /\ g[0] = <<>>
    BY <1>4, <1>8 DEF Prints, Flattens
  <2>2. <<>> \in Strings /\ <<>> \o <<>> = <<>> /\ 1 .. 0 = {}
    BY DEF Strings
  <2>3. v[0].text = <<>> /\ v[0].const = <<>> /\ v[0].first = TRUE
    BY <2>1 DEF Nothing
  <2>4. \A j \in 1 .. 0 : IsConst(j)
    BY <2>2
  <2>5. GoodSoFar(v, g, 0)
    BY <2>1, <2>2, <2>3, <2>4 DEF GoodSoFar
  <2> QED
    BY <2>5
<1>10. ASSUME NEW k \in Nat, k \in P PROVE k + 1 \in P
  <2> SUFFICES ASSUME k + 1 <= n PROVE GoodSoFar(v, g, k + 1)
    OBVIOUS
  <2>1. k + 1 \in 1 .. n /\ k + 1 \in DOMAIN parts /\ (k + 1) - 1 = k /\ k \in 0 .. n
    BY <1>3
  <2>2. GoodSoFar(v, g, k)
    BY <1>3, <1>10
  <2>3. PICK a \in Strings, c \in Strings : a = v[k].text /\ c = v[k].const /\ a \o c = g[k] /\ a # Undefined
    <3>1. v[k] \in Output
      BY <2>1
    <3> QED
      BY <2>2, <3>1, SubPatternsAssumption DEF Output, GoodSoFar
  <2>4. v[k + 1] = PrintStep(r, k + 1, v[k])
    BY <1>8, <2>1 DEF Prints
  <2>5. g[k + 1] = (a \o c) \o Piece(k + 1, s) /\ Piece(k + 1, s) \in Strings
    BY <1>6, <2>1, <2>3
  <2>6. CASE IsConst(k + 1)
    <3>1. v[k + 1] = [v[k] EXCEPT !.const = c \o parts[k + 1].text]
      BY <2>3, <2>4, <2>6 DEF PrintStep, IsConst
    <3>2. v[k + 1].text = a /\ v[k + 1].const = c \o Piece(k + 1, s) /\ v[k + 1].first = v[k].first
      <4>1. v[k] \in Output
        BY <2>1
      <4> QED
        BY <1>7, <2>1, <2>3, <2>6, <3>1, <4>1 DEF Output
    <3>3. a \o (c \o Piece(k + 1, s)) = (a \o c) \o Piece(k + 1, s)
      <4>1. PICK z \in Strings : z = Piece(k + 1, s)
        BY <2>5
      <4>2. a \o (c \o z) = (a \o c) \o z
        BY Regroup, Zenon
      <4> QED
        BY <4>1, <4>2, Zenon
    <3>4. (\A j \in 1 .. k + 1 : IsConst(j)) <=> \A j \in 1 .. k : IsConst(j)
      BY <2>6
    <3> QED
      BY <2>2, <2>3, <2>5, <3>2, <3>3, <3>4 DEF GoodSoFar
  <2>7. CASE ~IsConst(k + 1)
    <3>1. v[k + 1] = [text |-> IF Unreadable(k + 1) THEN Undefined ELSE PrintPart(r, a, c, v[k].first, k + 1),
                      const |-> <<>>, first |-> FALSE]
      BY <2>3, <2>4, <2>7 DEF PrintStep, IsConst
    <3>2. cells[r][k + 1] = Piece(k + 1, s) /\ ~Unreadable(k + 1)
      BY <1>7, <2>1
    <3>3. PrintPart(r, a, c, v[k].first, k + 1) = (a \o c) \o Piece(k + 1, s)
      <4>1. CASE outliers = {} \/ cells[r][k + 1] # <<>>
        BY <3>2, <4>1 DEF PrintPart
      <4>2. CASE outliers # {} /\ cells[r][k + 1] = <<>>
        <5>1. ~v[k].first
          <6> SUFFICES ASSUME \A j \in 1 .. k : IsConst(j) PROVE FALSE
            BY <2>2 DEF GoodSoFar
          <6>1. k + 1 \in Columns
            BY <1>1, <2>1, <2>7, PartsSettled DEF Columns, IsConst
          <6>2. ASSUME NEW j \in Columns PROVE k + 1 <= j
            <7>1. j \in 1 .. n /\ ~IsConst(j)
              BY <1>3 DEF Columns, IsConst
            <7> QED
              BY <1>3, <7>1
          <6> QED
            BY <4>2, <6>1, <6>2 DEF FirstEmpty
        <5>2. PrintPart(r, a, c, v[k].first, k + 1) = a \o c
          BY <4>2, <5>1 DEF PrintPart
        <5>3. a \o c \in Strings /\ Piece(k + 1, s) = <<>>
          BY <3>2, <4>2, Concat
        <5>4. (a \o c) \o <<>> = a \o c
          BY <5>3, ConcatEmptySeq DEF Strings
        <5> QED
          BY <5>2, <5>3, <5>4
      <4> QED
        BY <4>1, <4>2
    <3>4. v[k + 1].text = g[k + 1] /\ v[k + 1].const = <<>> /\ v[k + 1].first = FALSE
      BY <2>5, <3>1, <3>2, <3>3
    <3>5. g[k + 1] \in Strings /\ g[k + 1] \o <<>> = g[k + 1]
      <4>1. g[k + 1] \in Strings
        BY <1>3, <2>1
      <4> QED
        BY <4>1, ConcatEmptySeq DEF Strings
    <3>6. ~\A j \in 1 .. k + 1 : IsConst(j)
      BY <2>7
    <3> QED
      BY <3>4, <3>5, <3>6 DEF GoodSoFar
  <2> QED
    BY <2>6, <2>7
<1>11. Nat \subseteq P
  <2> HIDE DEF P
  <2> QED
    BY <1>9, <1>10, SetInduction
<1>12. v[n].text \in Strings /\ v[n].text \o v[n].const = g[n]
  <2>1. n \in P /\ n <= n
    BY <1>3, <1>11
  <2>2. GoodSoFar(v, g, n)
    BY <2>1
  <2> QED
    BY <2>2 DEF GoodSoFar
<1>13. g[n] = Kept(r)
  BY <1>2, <1>4, <1>6 DEF Flattens
<1> QED
  BY <1>8, <1>12, <1>13, SubPatternsAssumption DEF Prints, n

(* An outlier is written by the first sub-variable, over nothing when the  *)
(* sub-pattern has no constant.                                            *)
LEMMA PrintsOutlier ==
  ASSUME IInv, NEW r \in 1 .. Len(cells), r \in outliers,
         \A i \in DOMAIN parts : ~IsConst(i) /\ ~Unreadable(i)
  PROVE  Printed(r) = value[r]
<1> DEFINE n == Len(parts)
           s == value[r]
           told == [text |-> s, const |-> <<>>, first |-> FALSE]
<1>1. Settled /\ RowKept(r) /\ s \in Strings /\ <<>> \in Strings
  BY RowIs DEF Strings
<1>2. n \in Nat /\ DOMAIN parts = 1 .. n
  BY <1>1, PartsSettled
<1>3. ~Fits(s) /\ \A i \in DOMAIN parts : cells[r][i] = <<>>
  BY <1>1 DEF RowKept
<1>4. n # 0
  <2>1. Ends(s)[0] = 0
    BY <1>1, EndsWalks DEF Walks
  <2> QED
    BY <1>3, <2>1 DEF Fits
<1>5. PICK v \in [0 .. n -> Output] : Prints(v, r)
  BY PrintsWalk
<1>6. s \o <<>> = s /\ <<>> \o <<>> = <<>> /\ s # Undefined
  BY <1>1, SubPatternsAssumption, ConcatEmptySeq DEF Strings
<1>7. ASSUME NEW i \in 1 .. n, NEW a \in Strings, NEW first \in BOOLEAN,
             v[i - 1] = [text |-> a, const |-> <<>>, first |-> first]
      PROVE  v[i] = [text |-> PrintPart(r, a, <<>>, first, i), const |-> <<>>, first |-> FALSE]
  <2>1. v[i] = PrintStep(r, i, v[i - 1])
    BY <1>2, <1>5 DEF Prints
  <2>2. v[i - 1].text = a /\ v[i - 1].const = <<>> /\ v[i - 1].first = first /\ a # Undefined
    BY <1>7, SubPatternsAssumption
  <2>3. ~Unreadable(i) /\ parts[i].kind # "const"
    BY <1>2 DEF IsConst
  <2> QED
    BY <2>1, <2>2, <2>3 DEF PrintStep
<1> HIDE DEF n, s
<1>8. v[1] = told
  <2>1. 1 \in 1 .. n /\ 1 - 1 = 0 /\ 1 \in DOMAIN parts
    BY <1>2, <1>4
  <2>2. v[1 - 1] = [text |-> <<>>, const |-> <<>>, first |-> TRUE]
    BY <1>5, <2>1 DEF Prints, Nothing
  <2>3. v[1] = [text |-> PrintPart(r, <<>>, <<>>, TRUE, 1), const |-> <<>>, first |-> FALSE]
    BY <1>1, <1>7, <2>1, <2>2
  <2>4. PrintPart(r, <<>>, <<>>, TRUE, 1) = Overwritten(<<>>, s)
    BY <1>3, <1>6, <2>1 DEF PrintPart, s
  <2>5. SubSeq(<<>>, Len(s) + 1, Len(<<>>)) = <<>>
    <3>1. Len(<<>>) = 0 /\ Len(s) \in Nat
      BY <1>1 DEF Strings
    <3>2. Len(s) + 1 \in Int /\ Len(<<>>) \in Int /\ Len(<<>>) < Len(s) + 1
      BY <3>1
    <3> QED
      BY <3>2, SubSeqEmpty, Zenon
  <2>6. Overwritten(<<>>, s) = s
    BY <1>6, <2>5 DEF Overwritten
  <2> QED
    BY <2>3, <2>4, <2>6
<1> DEFINE P == {k \in Nat : k + 1 <= n => v[k + 1] = told}
<1>9. 0 \in P
  BY <1>8
<1>10. ASSUME NEW k \in Nat, k \in P PROVE k + 1 \in P
  <2> SUFFICES ASSUME (k + 1) + 1 <= n PROVE v[(k + 1) + 1] = told
    OBVIOUS
  <2>1. (k + 1) + 1 \in 1 .. n /\ ((k + 1) + 1) - 1 = k + 1 /\ (k + 1) + 1 \in DOMAIN parts
    BY <1>2
  <2>2. v[((k + 1) + 1) - 1] = [text |-> s, const |-> <<>>, first |-> FALSE]
    BY <1>2, <1>10, <2>1
  <2>3. v[(k + 1) + 1] = [text |-> PrintPart(r, s, <<>>, FALSE, (k + 1) + 1), const |-> <<>>, first |-> FALSE]
    BY <1>1, <1>7, <2>1, <2>2
  <2>4. PrintPart(r, s, <<>>, FALSE, (k + 1) + 1) = s
    BY <1>3, <1>6, <2>1 DEF PrintPart
  <2> QED
    BY <2>3, <2>4
<1>11. Nat \subseteq P
  <2> HIDE DEF P
  <2> QED
    BY <1>9, <1>10, SetInduction
<1>12. v[n] = told
  <2>1. n - 1 \in Nat /\ (n - 1) + 1 = n /\ n <= n
    BY <1>2, <1>4
  <2>2. n - 1 \in P
    BY <1>11, <2>1
  <2> QED
    BY <2>1, <2>2
<1>13. Printed(r) = s
  BY <1>5, <1>6, <1>12 DEF Prints, n
<1> QED
  BY <1>13 DEF s

(* What is printed of a row is the value the row has, but for a value cut  *)
(* when it was kept, one taken for an outlier by its empty first sub-      *)
(* variable, an outlier that constants are written over or after, and a    *)
(* sub-variable that nothing is read of: Materializ_Subpat errs in no      *)
(* other way.                                                              *)
THEOREM PrintsRight == Spec => []PrintedRight
<1>1. ASSUME IInv PROVE PrintedRight
  <2> SUFFICES ASSUME pc = "done", NEW r \in DOMAIN value,
                      ~(r \notin outliers /\ Kept(r) # value[r]),
                      ~(r \notin outliers /\ outliers # {} /\ FirstEmpty(r)),
                      ~(r \in outliers /\ \E i \in DOMAIN parts : IsConst(i)),
                      ~\E i \in DOMAIN parts : Unreadable(i)
               PROVE  Printed(r) = value[r]
    BY DEF PrintedRight
  <2>1. r \in 1 .. Len(cells)
    BY <1>1 DEF IInv, Types, Extracted
  <2>2. CASE r \in outliers
    BY <1>1, <2>1, <2>2, PrintsOutlier
  <2>3. CASE r \notin outliers
    BY <1>1, <2>1, <2>3, PrintsKept
  <2> QED
    BY <2>2, <2>3
<1> QED
  BY <1>1, Invariance, PTL
-----------------------------------------------------------------------------
(***************************************************************************)
(* Extraction agrees with splitting                                        *)
(***************************************************************************)
(* Where the strings end that another is put together from                 *)
CutsAt(e, seqs, s) ==
  /\ e \in [0 .. Len(seqs) -> 0 .. Len(s)] /\ e[0] = 0 /\ e[Len(seqs)] = Len(s)
  /\ \A k \in 0 .. Len(seqs) : \A i \in 0 .. k : e[i] <= e[k]
  /\ \A i \in 1 .. Len(seqs) : e[i] = e[i - 1] + Len(seqs[i]) /\ seqs[i] = SubSeq(s, e[i - 1] + 1, e[i])

(* x is a beginning of y.                                                  *)
Begins(x, y) == Len(x) <= Len(y) /\ \A j \in 1 .. Len(x) : y[j] = x[j]

LEMMA FlattenBegins ==
  ASSUME NEW seqs \in Seq(Strings), NEW g \in [0 .. Len(seqs) -> Strings], Flattens(g, seqs)
  PROVE  \A k \in 0 .. Len(seqs) : \A i \in 0 .. k : Begins(g[i], g[k])
<1> DEFINE n == Len(seqs)
           P == {k \in Nat : k <= n => \A i \in 0 .. k : Begins(g[i], g[k])}
<1>1. n \in Nat /\ \A i \in 1 .. n : seqs[i] \in Strings
  OBVIOUS
<1>2. \A k \in 0 .. n : g[k] \in Strings /\ Len(g[k]) \in Nat
  BY DEF Strings
<1> HIDE DEF n
<1>3. 0 \in P
  BY <1>1, <1>2 DEF Begins
<1>4. ASSUME NEW k \in Nat, k \in P PROVE k + 1 \in P
  <2> SUFFICES ASSUME k + 1 <= n, NEW i \in 0 .. k + 1 PROVE Begins(g[i], g[k + 1])
    OBVIOUS
  <2>1. k + 1 \in 1 .. n /\ (k + 1) - 1 = k /\ k \in 0 .. n /\ k + 1 \in 0 .. n /\ k <= n
    BY <1>1
  <2>2. CASE i = k + 1
    BY <1>2, <2>1, <2>2 DEF Begins
  <2>3. CASE i # k + 1
    <3>1. i \in 0 .. k /\ i \in 0 .. n
      BY <1>1, <2>1, <2>3
    <3>2. Begins(g[i], g[k])
      BY <1>4, <2>1, <3>1
    <3>3. g[k + 1] = g[k] \o seqs[k + 1]
      BY <2>1 DEF Flattens, n
    <3>4. Follow(g[k + 1], g[k], seqs[k + 1])
      BY <1>1, <1>2, <2>1, <3>3, StringsFollow
    <3>5. Len(seqs[k + 1]) \in Nat
      BY <1>1, <2>1 DEF Strings
    <3> QED
      <4>1. PICK x \in Strings, y \in Strings, z \in Strings : x = g[i] /\ y = g[k] /\ z = g[k + 1]
        BY <1>2, <2>1, <3>1
      <4>2. Len(x) \in Nat /\ Len(y) \in Nat /\ Len(z) \in Nat
        BY DEF Strings
      <4>3. Begins(x, y) /\ Follow(z, y, seqs[k + 1])
        BY <3>2, <3>4, <4>1
      <4>4. Begins(x, z)
        BY <3>5, <4>2, <4>3 DEF Begins, Follow
      <4> QED
        BY <4>1, <4>4
  <2> QED
    BY <2>2, <2>3
<1>5. Nat \subseteq P
  <2> HIDE DEF P
  <2> QED
    BY <1>3, <1>4, SetInduction
<1> QED
  BY <1>1, <1>5 DEF n

LEMMA FlattenCuts ==
  ASSUME NEW seqs \in Seq(Strings)
  PROVE  FlattenSeq(seqs) \in Strings /\ \E e : CutsAt(e, seqs, FlattenSeq(seqs))
<1> DEFINE n == Len(seqs)
           s == FlattenSeq(seqs)
<1>1. PICK g \in [0 .. n -> Strings] : Flattens(g, seqs)
  BY FlattenSteps DEF Strings
<1>2. n \in Nat /\ \A i \in 1 .. n : seqs[i] \in Strings /\ Len(seqs[i]) \in Nat
  BY DEF Strings
<1>3. \A k \in 0 .. n : g[k] \in Strings /\ Len(g[k]) \in Nat
  BY DEF Strings
<1>4. \A k \in 0 .. n : \A i \in 0 .. k : Begins(g[i], g[k])
  BY <1>1, FlattenBegins
<1>5. g[0] = <<>> /\ g[n] = s /\ \A i \in 1 .. n : g[i] = g[i - 1] \o seqs[i]
  BY <1>1 DEF Flattens
<1>6. s \in Strings /\ Len(s) \in Nat
  BY <1>2, <1>3, <1>5
<1> DEFINE e == [k \in 0 .. n |-> Len(g[k])]
<1>7. \A k \in 0 .. n : e[k] = Len(g[k]) /\ Len(g[k]) <= Len(s)
  <2> SUFFICES ASSUME NEW k \in 0 .. n PROVE Len(g[k]) <= Len(s)
    OBVIOUS
  <2>1. n \in 0 .. n /\ k \in 0 .. n
    BY <1>2
  <2>2. Begins(g[k], s)
    BY <1>4, <1>5, <2>1
  <2> QED
    BY <2>2 DEF Begins
<1>8. e \in [0 .. n -> 0 .. Len(s)] /\ e[0] = 0 /\ e[n] = Len(s)
  BY <1>2, <1>3, <1>5, <1>6, <1>7
<1>9. \A k \in 0 .. n : \A i \in 0 .. k : e[i] <= e[k]
  BY <1>2, <1>4, <1>7 DEF Begins
<1> HIDE DEF e, s, n
<1>10. ASSUME NEW i \in 1 .. n PROVE e[i] = e[i - 1] + Len(seqs[i]) /\ seqs[i] = SubSeq(s, e[i - 1] + 1, e[i])
  <2>1. i \in 0 .. n /\ i - 1 \in 0 .. n /\ n \in 0 .. n
    BY <1>2
  <2>2. Follow(g[i], g[i - 1], seqs[i])
    BY <1>2, <1>3, <1>5, <2>1, StringsFollow
  <2>3. Begins(g[i], s)
    BY <1>2, <1>4, <1>5, <2>1
  <2>4. PICK a \in Nat, b \in Nat, c \in Nat, d \in Strings :
          /\ a = e[i - 1] /\ b = e[i] /\ d = seqs[i] /\ c = Len(d)
          /\ Len(g[i - 1]) = a /\ Len(g[i]) = b /\ b <= Len(s)
    BY <1>2, <1>3, <1>7, <2>1
  <2>5. b = a + c
    BY <2>2, <2>4 DEF Follow
  <2>6. \A j \in 1 .. Len(d) : s[a + j] = d[j]
    <3> SUFFICES ASSUME NEW j \in 1 .. Len(d) PROVE s[a + j] = d[j]
      OBVIOUS
    <3>1. \A x, y, z \in Nat : z = x + y => \A k \in 1 .. y : x + k \in 1 .. z
      OBVIOUS
    <3>2. a + j \in 1 .. b
      BY <2>4, <2>5, <3>1
    <3>3. g[i][a + j] = d[j]
      BY <2>2, <2>4 DEF Follow
    <3> QED
      BY <2>3, <2>4, <3>2, <3>3 DEF Begins
  <2>7. a + 1 \in 1 .. Len(s) + 1 /\ b \in (a + 1) - 1 .. Len(s) /\ b - (a + 1) + 1 = Len(d)
    <3>1. \A x, y, z, m \in Nat : z = x + y /\ z <= m =>
            x + 1 \in 1 .. m + 1 /\ z \in (x + 1) - 1 .. m /\ z - (x + 1) + 1 = y
      OBVIOUS
    <3>2. PICK m \in Nat : m = Len(s) /\ b <= m
      BY <1>6, <2>4
    <3>3. a + 1 \in 1 .. m + 1 /\ b \in (a + 1) - 1 .. m /\ b - (a + 1) + 1 = c
      BY <2>5, <3>1, <3>2
    <3> QED
      BY <2>4, <3>2, <3>3
  <2>8. PICK u \in Strings : u = SubSeq(s, a + 1, b) /\ CutFrom(u, s, a + 1, b)
    <3>1. CutFrom(SubSeq(s, a + 1, b), s, a + 1, b)
      BY <1>6, <2>7, Cuts
    <3> QED
      BY <3>1 DEF CutFrom
  <2>9. Len(u) = Len(d)
    BY <2>7, <2>8 DEF CutFrom
  <2>10. ASSUME NEW j \in 1 .. Len(u) PROVE u[j] = d[j]
    <3>1. j \in 1 .. Len(d) /\ (a + 1) - 1 + j = a + j
      BY <2>4, <2>9
    <3>2. u[j] = s[(a + 1) - 1 + j]
      BY <2>7, <2>8, <3>1 DEF CutFrom
    <3> QED
      BY <2>6, <3>1, <3>2
  <2>11. u = d
    BY <2>9, <2>10, SeqEqual DEF Strings
  <2> QED
    BY <2>4, <2>5, <2>8, <2>11
<1>11. CutsAt(e, seqs, s)
  BY <1>8, <1>9, <1>10 DEF CutsAt, n
<1> QED
  BY <1>6, <1>11 DEF s

(* What the parts have of a sampled value                                  *)
Datum(r) == [i \in DOMAIN parts |-> parts[i].data[r]]

LEMMA DatumIs ==
  ASSUME Settled, NEW r, Typical(r)
  PROVE  /\ Datum(r) \in Seq(Strings) /\ Len(Datum(r)) = Len(parts) /\ FlattenSeq(Datum(r)) = value[r]
         /\ parts # <<>> /\ Last(parts).data[r] # <<>>
         /\ \A i \in DOMAIN parts : /\ Datum(r)[i] = parts[i].data[r] /\ Datum(r)[i] \in Strings
                                    /\ Len(Datum(r)[i]) \in Nat /\ r \in Live(parts[i])
                                    /\ IsConst(i) => Datum(r)[i] = parts[i].text
                                    /\ parts[i].kind = "fixed" => Len(Datum(r)[i]) = parts[i].len
<1>1. Len(parts) \in Nat /\ DOMAIN parts = 1 .. Len(parts) /\ \A i \in DOMAIN parts : parts[i] \in Parts
  BY PartIs DEF Settled
<1>2. \A i \in DOMAIN parts : /\ r \in Live(parts[i]) /\ (IsConst(i) => parts[i].data[r] = parts[i].text)
                              /\ parts[i].kind = "fixed" => Len(parts[i].data[r]) = parts[i].len
  BY DEF Typical
<1>3. \A i \in DOMAIN parts : parts[i].data[r] \in Strings
  BY <1>1, <1>2, PartData
<1>4. Datum(r) \in [1 .. Len(parts) -> Strings]
  BY <1>1, <1>3 DEF Datum
<1>5. Datum(r) \in Seq(Strings) /\ Len(Datum(r)) = Len(parts)
  BY <1>1, <1>4
<1>6. \A i \in DOMAIN parts : Datum(r)[i] = parts[i].data[r]
  BY DEF Datum
<1>7. \A i \in DOMAIN parts : Len(Datum(r)[i]) \in Nat
  BY <1>3, <1>6 DEF Strings
<1>8. FlattenSeq(Datum(r)) = value[r] /\ parts # <<>> /\ Last(parts).data[r] # <<>>
  BY DEF Typical, Datum
<1> QED
  BY <1>2, <1>3, <1>5, <1>6, <1>7, <1>8

LEMMA TypicalCuts ==
  ASSUME Settled, NEW r, Typical(r)
  PROVE  value[r] \in Strings /\ \E e : CutsAt(e, Datum(r), value[r])
BY DatumIs, FlattenCuts

(* The constants that follow a part are in the value where they should be. *)
LEMMA NextLies ==
  ASSUME Settled, NEW r, Typical(r), NEW e, CutsAt(e, Datum(r), value[r]),
         NEW i \in DOMAIN parts, NEW last \in i .. Len(parts), NextUpTo(i, last)
  PROVE  NextConstant(i) = SubSeq(value[r], e[i] + 1, e[last])
<1> DEFINE n == Len(parts)
           s == value[r]
           texts == [k \in 1 .. last - i |-> parts[i + k].text]
<1>1. n \in Nat /\ DOMAIN parts = 1 .. n /\ i \in 1 .. n /\ \A j \in DOMAIN parts : parts[j].text \in Strings
  BY PartsSettled
<1>2. s \in Seq(DOMAIN Class) /\ Len(s) \in Nat
  BY TypicalCuts DEF Strings
<1>3. PICK m \in Nat : m = last - i
  BY <1>1
<1>4. texts \in Seq(Strings) /\ Len(texts) = m /\ \A k \in 1 .. m : texts[k] = parts[i + k].text
  <2>1. \A k \in 1 .. m : i + k \in DOMAIN parts
    BY <1>1, <1>3
  <2>2. texts \in [1 .. m -> Strings]
    BY <1>1, <1>3, <2>1
  <2>3. texts \in Seq(Strings) /\ Len(texts) = m
    <3> HIDE DEF texts
    <3> QED
      BY <2>2
  <2> QED
    BY <1>3, <2>3
<1>5. NextConstant(i) = FlattenSeq(texts) /\ \A j \in i + 1 .. last : IsConst(j)
  BY DEF NextUpTo
<1> HIDE DEF texts, s, n
<1>6. PICK g \in [0 .. m -> Strings] : Flattens(g, texts)
  BY <1>4, FlattenSteps DEF Strings
<1>7. g[0] = <<>> /\ g[m] = NextConstant(i) /\ \A k \in 1 .. m : g[k] = g[k - 1] \o texts[k]
  BY <1>4, <1>5, <1>6 DEF Flattens
<1>8. /\ \A k \in 0 .. n : e[k] \in 0 .. Len(s)
      /\ \A k \in 0 .. n : \A j \in 0 .. k : e[j] <= e[k]
      /\ \A j \in 1 .. n : Datum(r)[j] = SubSeq(s, e[j - 1] + 1, e[j])
  BY DatumIs DEF CutsAt, n, s
<1>9. \A j \in DOMAIN parts : IsConst(j) => Datum(r)[j] = parts[j].text
  <2> SUFFICES ASSUME NEW j \in DOMAIN parts, IsConst(j) PROVE Datum(r)[j] = parts[j].text
    OBVIOUS
  <2>1. Datum(r)[j] = parts[j].data[r]
    BY DEF Datum
  <2> QED
    BY <2>1 DEF Typical
<1> DEFINE P == {k \in Nat : k <= m => g[k] = SubSeq(s, e[i] + 1, e[i + k])}
<1>10. 0 \in P
  <2>1. i + 0 = i /\ i \in 0 .. n
    BY <1>1
  <2>2. PICK a \in Nat : a = e[i]
    BY <1>2, <1>8, <2>1
  <2>3. SubSeq(s, a + 1, a) = <<>>
    <3>1. a + 1 \in Int /\ a \in Int /\ a < a + 1
      OBVIOUS
    <3> QED
      BY <3>1, SubSeqEmpty
  <2> QED
    BY <1>7, <2>1, <2>2, <2>3
<1>11. ASSUME NEW k \in Nat, k \in P PROVE k + 1 \in P
  <2> SUFFICES ASSUME k + 1 <= m PROVE g[k + 1] = SubSeq(s, e[i] + 1, e[i + (k + 1)])
    OBVIOUS
  <2>1. /\ k + 1 \in 1 .. m /\ (k + 1) - 1 = k /\ i + (k + 1) \in i + 1 .. last /\ i + (k + 1) \in DOMAIN parts
        /\ (i + (k + 1)) - 1 = i + k /\ i + k \in 0 .. n /\ i + (k + 1) \in 0 .. n /\ i \in 0 .. n
        /\ i \in 0 .. i + k /\ i + k \in 0 .. i + (k + 1) /\ i + (k + 1) \in 1 .. n
    BY <1>1, <1>3
  <2>2. g[k] = SubSeq(s, e[i] + 1, e[i + k])
    BY <1>3, <1>11
  <2>3. texts[k + 1] = SubSeq(s, e[i + k] + 1, e[i + (k + 1)])
    <3>1. texts[k + 1] = parts[i + (k + 1)].text /\ IsConst(i + (k + 1))
      BY <1>4, <1>5, <2>1
    <3>2. Datum(r)[i + (k + 1)] = texts[k + 1]
      BY <1>9, <2>1, <3>1
    <3> QED
      BY <1>8, <2>1, <3>2
  <2>4. PICK a \in 0 .. Len(s), b \in 0 .. Len(s), c \in 0 .. Len(s) :
          a = e[i] /\ b = e[i + k] /\ c = e[i + (k + 1)] /\ a <= b /\ b <= c
    BY <1>8, <2>1
  <2>5. a + 1 \in 1 .. Len(s) + 1 /\ b \in (a + 1) - 1 .. Len(s) /\ c \in b .. Len(s)
    <3>1. \A z \in Nat : \A x, y, w \in 0 .. z :
            x <= y /\ y <= w => x + 1 \in 1 .. z + 1 /\ y \in (x + 1) - 1 .. z /\ w \in y .. z
      OBVIOUS
    <3> QED
      BY <1>2, <2>4, <3>1, Zenon
  <2>6. SubSeq(s, a + 1, b) \o SubSeq(s, b + 1, c) = SubSeq(s, a + 1, c)
    BY <1>2, <2>5, ConcatAdjacentSubSeq
  <2>7. g[k + 1] = g[k] \o texts[k + 1]
    BY <1>7, <2>1
  <2> QED
    BY <2>2, <2>3, <2>4, <2>6, <2>7
<1>12. Nat \subseteq P
  <2> HIDE DEF P
  <2> QED
    BY <1>10, <1>11, SetInduction
<1>13. m \in P /\ m <= m /\ i + m = last
  BY <1>1, <1>3, <1>12
<1> QED
  BY <1>7, <1>13 DEF s

(* A string is where another is that it begins.                            *)
LEMMA AtBegins ==
  ASSUME NEW s \in Strings, NEW w \in Strings, NEW m \in Strings, Begins(m, w),
         NEW k \in 1 .. Len(s) - Len(w) + 1, At(s, k, w)
  PROVE  At(s, k, m)
<1>1. Len(s) \in Nat /\ Len(w) \in Nat /\ Len(m) \in Nat /\ Len(m) <= Len(w) /\ \A j \in 1 .. Len(m) : w[j] = m[j]
  BY DEF Strings, Begins
<1>2. CutFrom(w, s, k, k + Len(w) - 1)
  <2>1. k \in 1 .. Len(s) + 1 /\ k + Len(w) - 1 \in k - 1 .. Len(s)
    BY <1>1
  <2>2. w = SubSeq(s, k, k + Len(w) - 1)
    BY DEF At
  <2> QED
    BY <2>1, <2>2, Cuts
<1>3. PICK u \in Strings : u = SubSeq(s, k, k + Len(m) - 1) /\ CutFrom(u, s, k, k + Len(m) - 1)
  <2>1. k \in 1 .. Len(s) + 1 /\ k + Len(m) - 1 \in k - 1 .. Len(s)
    BY <1>1
  <2>2. CutFrom(SubSeq(s, k, k + Len(m) - 1), s, k, k + Len(m) - 1)
    BY <2>1, Cuts
  <2> QED
    BY <2>2 DEF CutFrom
<1>4. (k + Len(m) - 1) - k + 1 = Len(m) /\ (k + Len(w) - 1) - k + 1 = Len(w)
  BY <1>1
<1>5. Len(u) = Len(m)
  BY <1>3, <1>4 DEF CutFrom
<1>6. ASSUME NEW j \in 1 .. Len(u) PROVE u[j] = m[j]
  <2>1. j \in 1 .. Len(m) /\ j \in 1 .. Len(w)
    BY <1>1, <1>5
  <2>2. u[j] = s[k - 1 + j] /\ w[j] = s[k - 1 + j]
    BY <1>2, <1>3, <1>4, <2>1 DEF CutFrom
  <2> QED
    BY <1>1, <2>1, <2>2
<1>7. u = m
  BY <1>5, <1>6, SeqEqual DEF Strings
<1> QED
  BY <1>3, <1>7 DEF At

(* The places where the scan for a part of any length may stop             *)
Stops(s, at, w) == {n \in 0 .. Len(s) - at : \/ at + n + Len(w) >= Len(s)
                                             \/ w # <<>> /\ At(s, at + n + 1, w)}

(* It stops at b, if what is from b on to c is looked for, and what is     *)
(* before b does not run into an earlier place of how that begins.         *)
LEMMA StopsAt ==
  ASSUME NEW s \in Strings, NEW at \in 0 .. Len(s), NEW b \in at .. Len(s), NEW c \in b .. Len(s),
         c = b => b = Len(s),
         c # b => \E f \in b + 1 .. c : EndsFirst(SubSeq(s, at + 1, b), SubSeq(s, b + 1, f))
  PROVE  at + Min(Stops(s, at, SubSeq(s, b + 1, c))) = b
<1>1. Len(s) \in Nat /\ s \in Seq(DOMAIN Class)
  BY DEF Strings
<1>2. PICK w \in Strings : w = SubSeq(s, b + 1, c) /\ CutFrom(w, s, b + 1, c)
  <2>1. b + 1 \in 1 .. Len(s) + 1 /\ c \in (b + 1) - 1 .. Len(s)
    BY <1>1
  <2>2. CutFrom(SubSeq(s, b + 1, c), s, b + 1, c)
    BY <2>1, Cuts
  <2> QED
    BY <2>2 DEF CutFrom
<1>3. Len(w) = c - b /\ (w = <<>> <=> c = b)
  <2>1. c - (b + 1) + 1 = c - b /\ c - b \in Nat /\ (c - b = 0 <=> c = b)
    BY <1>1
  <2>2. Len(w) = c - b
    BY <1>2, <2>1 DEF CutFrom
  <2>3. w = <<>> <=> Len(w) = 0
    BY DEF Strings
  <2> QED
    BY <2>1, <2>2, <2>3
<1>4. b - at \in Stops(s, at, w)
  <2>1. b - at \in 0 .. Len(s) - at /\ at + (b - at) = b
    BY <1>1
  <2>2. CASE c = b
    BY <1>1, <1>3, <2>1, <2>2 DEF Stops
  <2>3. CASE c # b
    <3>1. at + (b - at) + 1 = b + 1 /\ (b + 1) + Len(w) - 1 = c
      BY <1>1, <1>3
    <3>2. At(s, at + (b - at) + 1, w)
      BY <1>2, <3>1 DEF At
    <3> QED
      BY <1>3, <2>1, <2>3, <3>2 DEF Stops
  <2> QED
    BY <2>2, <2>3
<1>5. ASSUME NEW x \in Stops(s, at, w), x < b - at PROVE FALSE
  <2>1. x \in 0 .. Len(s) - at /\ (at + x + Len(w) >= Len(s) \/ (w # <<>> /\ At(s, at + x + 1, w)))
    BY DEF Stops
  <2>2. ~(at + x + Len(w) >= Len(s))
    BY <1>1, <1>3, <1>5, <2>1
  <2>3. c # b /\ At(s, at + x + 1, w)
    BY <1>3, <2>1, <2>2
  <2>4. PICK f \in b + 1 .. c : EndsFirst(SubSeq(s, at + 1, b), SubSeq(s, b + 1, f))
    BY <2>3
  <2>5. PICK d \in Strings, m \in Strings, y \in Strings :
          /\ d = SubSeq(s, at + 1, b) /\ CutFrom(d, s, at + 1, b)
          /\ m = SubSeq(s, b + 1, f) /\ CutFrom(m, s, b + 1, f)
          /\ y = SubSeq(s, at + 1, f) /\ CutFrom(y, s, at + 1, f)
    <3>1. /\ at + 1 \in 1 .. Len(s) + 1 /\ b \in (at + 1) - 1 .. Len(s) /\ f \in (at + 1) - 1 .. Len(s)
          /\ b + 1 \in 1 .. Len(s) + 1 /\ f \in (b + 1) - 1 .. Len(s)
      BY <1>1
    <3>2. /\ CutFrom(SubSeq(s, at + 1, b), s, at + 1, b)
          /\ CutFrom(SubSeq(s, b + 1, f), s, b + 1, f)
          /\ CutFrom(SubSeq(s, at + 1, f), s, at + 1, f)
      BY <3>1, Cuts
    <3>3. \A z, i, j : CutFrom(z, s, i, j) => z \in Strings
      BY DEF CutFrom
    <3> QED
      BY <3>2, <3>3, Zenon
  <2>6. Len(d) = b - at /\ Len(m) = f - b /\ Len(y) = f - at
    <3>1. b - (at + 1) + 1 = b - at /\ f - (b + 1) + 1 = f - b /\ f - (at + 1) + 1 = f - at
      BY <1>1
    <3> QED
      BY <2>5, <3>1 DEF CutFrom
  <2>7. y = d \o m
    <3>1. at + 1 \in 1 .. Len(s) + 1 /\ b \in (at + 1) - 1 .. Len(s) /\ f \in b .. Len(s)
      BY <1>1
    <3>2. SubSeq(s, at + 1, b) \o SubSeq(s, b + 1, f) = SubSeq(s, at + 1, f)
      BY <1>1, <3>1, ConcatAdjacentSubSeq
    <3> QED
      BY <2>5, <3>2
  <2>8. Begins(m, w)
    <3>1. Len(m) <= Len(w) /\ f - (b + 1) + 1 = Len(m) /\ c - (b + 1) + 1 = Len(w)
      BY <1>1, <1>3, <2>6
    <3>2. ASSUME NEW j \in 1 .. Len(m) PROVE w[j] = m[j]
      <4>1. j \in 1 .. Len(w)
        BY <1>1, <1>3, <2>6, <3>1
      <4> QED
        BY <1>2, <2>5, <3>1, <4>1 DEF CutFrom
    <3> QED
      BY <3>1, <3>2 DEF Begins
  <2>9. At(s, at + (x + 1), m)
    <3>1. at + x + 1 \in 1 .. Len(s) - Len(w) + 1 /\ at + x + 1 = at + (x + 1)
      BY <1>1, <1>3, <1>5, <2>1
    <3>2. At(s, at + x + 1, m)
      BY <2>3, <2>8, <3>1, AtBegins
    <3> QED
      BY <3>1, <3>2
  <2>10. At(y, x + 1, m)
    <3>1. at \in Nat /\ at + Len(y) <= Len(s) /\ x + 1 \in 1 .. Len(y) - Len(m) + 1
      BY <1>1, <1>5, <2>1, <2>6
    <3>2. ASSUME NEW j \in 1 .. Len(y) PROVE y[j] = s[at + j]
      <4>1. f - (at + 1) + 1 = Len(y) /\ (at + 1) - 1 + j = at + j
        BY <1>1, <2>6
      <4>2. y[j] = s[(at + 1) - 1 + j]
        BY <2>5, <4>1 DEF CutFrom
      <4> QED
        BY <4>1, <4>2
    <3> QED
      BY <2>9, <3>1, <3>2, AtShift
  <2>11. x + 1 \in 1 .. Len(d)
    BY <1>1, <1>5, <2>1, <2>6
  <2> QED
    BY <2>4, <2>5, <2>7, <2>10, <2>11 DEF EndsFirst
<1>6. Stops(s, at, w) \in SUBSET Nat /\ Stops(s, at, w) # {}
  <2>1. Stops(s, at, w) \subseteq 0 .. Len(s) - at
    BY DEF Stops
  <2>2. 0 .. Len(s) - at \subseteq Nat
    BY <1>1
  <2>3. Stops(s, at, w) # {}
    BY <1>4, Zenon
  <2> QED
    BY <2>1, <2>2, <2>3
<1>7. PICK m \in Stops(s, at, w) : m = Min(Stops(s, at, w)) /\ m \in Nat /\ \A x \in Stops(s, at, w) : m <= x
  <2>1. PICK T \in SUBSET Nat : T = Stops(s, at, w) /\ T # {}
    BY <1>6
  <2>2. Min(T) \in T /\ \A x \in T : Min(T) <= x
    BY <2>1, LeastIn
  <2> QED
    BY <2>1, <2>2
<1>8. m = b - at
  <2>1. m <= b - at /\ ~(m < b - at)
    BY <1>4, <1>5, <1>7
  <2> QED
    BY <1>1, <1>7, <2>1
<1>9. at + m = b
  BY <1>1, <1>8
<1> QED
  BY <1>2, <1>7, <1>9

(* A part of any length has a constant after it, if it is not the last:    *)
(* one of two parts side by side was split at, and is a constant; and what *)
(* the part has does not run into an earlier place of it.                  *)
LEMMA VarThenConst ==
  ASSUME Settled, Joined, NEW r, Typical(r), NEW i \in DOMAIN parts, parts[i].kind = "var", i < Len(parts)
  PROVE  /\ i + 1 \in DOMAIN parts /\ IsConst(i + 1)
         /\ EndsFirst(parts[i].data[r], parts[i + 1].text)
<1> DEFINE p == parts[i]
           q == parts[i + 1]
<1>1. /\ Len(parts) \in Nat /\ DOMAIN parts = 1 .. Len(parts) /\ i + 1 \in DOMAIN parts
      /\ i \in 1 .. Len(parts) - 1 /\ p \in Parts /\ q \in Parts
  BY PartIs DEF Settled
<1>2. Meet(p, q)
  BY <1>1 DEF Joined
<1>3. Constants(p) = {}
  BY DEF Settled, ClosedRight, Right
<1>4. \A m \in Range(p.data) : ~Same(p, m)
  BY <1>1, <1>3, NotTheSame DEF Settled
<1>5. PICK m \in Range(q.data) : Same(q, m) /\ \A x \in Live(p) \cap Live(q) : EndsFirst(p.data[x], m)
  BY <1>2, <1>4 DEF Meet
<1>6. Constants(q) # {}
  BY <1>1, <1>5, NotTheSame DEF Settled
<1>7. IsConst(i + 1)
  <2>1. q.kind \in {"const", "fixed", "var"}
    BY <1>1, PartsSettled
  <2>2. q.kind \in {"fixed", "var"} => Constants(q) = {}
    BY <1>1 DEF Settled, ClosedRight, Right
  <2> QED
    BY <1>6, <2>1, <2>2 DEF IsConst
<1>8. r \in Live(p) /\ r \in Live(q) /\ q.data[r] = q.text
  BY <1>1, <1>7 DEF Typical
<1>9. m = q.text
  BY <1>5, <1>8 DEF Same
<1> QED
  BY <1>1, <1>5, <1>7, <1>8, <1>9

LEMMA VariableAgrees ==
  ASSUME Settled, Joined, NEW r, Typical(r), NEW e, CutsAt(e, Datum(r), value[r]),
         NEW i \in DOMAIN parts, parts[i].kind = "var"
  PROVE  Variable(i, value[r], e[i - 1]) = e[i]
<1> DEFINE n == Len(parts)
           s == value[r]
<1>1. n \in Nat /\ DOMAIN parts = 1 .. n /\ i \in 1 .. n
  BY PartsSettled
<1>2. s \in Strings /\ Len(s) \in Nat
  BY TypicalCuts DEF Strings
<1>3. /\ \A k \in 0 .. n : e[k] \in 0 .. Len(s)
      /\ \A k \in 0 .. n : \A j \in 0 .. k : e[j] <= e[k]
      /\ \A j \in 1 .. n : e[j] = e[j - 1] + Len(Datum(r)[j]) /\ Datum(r)[j] = SubSeq(s, e[j - 1] + 1, e[j])
      /\ e[n] = Len(s)
  BY DatumIs DEF CutsAt
<1>4. PICK last \in i .. n : NextUpTo(i, last)
  BY NextConstantIs
<1>5. NextConstant(i) = SubSeq(s, e[i] + 1, e[last])
  BY <1>4, NextLies
<1>6. Variable(i, s, e[i - 1]) = e[i - 1] + Min(Stops(s, e[i - 1], NextConstant(i)))
  BY DEF Variable, Stops
<1>7. (last < n => ~IsConst(last + 1)) /\ \A j \in i + 1 .. last : IsConst(j)
  BY <1>4 DEF NextUpTo
<1> HIDE DEF n, s
<1>8. e[i - 1] \in 0 .. Len(s) /\ e[i] \in e[i - 1] .. Len(s) /\ e[last] \in e[i] .. Len(s)
  <2>1. i - 1 \in 0 .. n /\ i \in 0 .. n /\ last \in 0 .. n /\ i - 1 \in 0 .. i /\ i \in 0 .. last
    BY <1>1
  <2>2. PICK a \in 0 .. Len(s), b \in 0 .. Len(s), c \in 0 .. Len(s) :
          a = e[i - 1] /\ b = e[i] /\ c = e[last] /\ a <= b /\ b <= c
    BY <1>3, <2>1
  <2> QED
    BY <1>2, <2>2
<1>9. CASE i = n
  <2>1. last = i /\ e[i] = Len(s) /\ e[last] = e[i]
    BY <1>1, <1>3, <1>9
  <2> QED
    BY <1>2, <1>5, <1>6, <1>8, <2>1, StopsAt DEF s
<1>10. CASE i # n
  <2>1. i < n
    BY <1>1, <1>10
  <2>2. i + 1 \in DOMAIN parts /\ IsConst(i + 1) /\ EndsFirst(parts[i].data[r], parts[i + 1].text)
    BY <2>1, VarThenConst DEF n
  <2>3. last # i
    BY <1>7, <2>1, <2>2
  <2>4. /\ i + 1 \in 0 .. n /\ last \in 0 .. n /\ i + 1 \in 0 .. last /\ i \in 0 .. n
        /\ (i + 1) - 1 = i /\ i + 1 \in 1 .. n
    BY <1>1, <2>1, <2>3
  <2>5. e[i + 1] = e[i] + Len(Datum(r)[i + 1]) /\ Datum(r)[i + 1] = SubSeq(s, e[i] + 1, e[i + 1])
    BY <1>3, <2>4
  <2>6. Datum(r)[i + 1] = parts[i + 1].text /\ Datum(r)[i] = parts[i].data[r] /\ Datum(r)[i] = SubSeq(s, e[i - 1] + 1, e[i])
    <3>1. Datum(r)[i + 1] = parts[i + 1].data[r] /\ Datum(r)[i] = parts[i].data[r]
      BY <2>2 DEF Datum
    <3>2. parts[i + 1].data[r] = parts[i + 1].text
      BY <2>2 DEF Typical
    <3> QED
      BY <1>1, <1>3, <3>1, <3>2
  <2>7. Len(Datum(r)[i + 1]) \in Nat /\ Len(Datum(r)[i + 1]) # 0
    <3>1. parts[i + 1].text # <<>> /\ parts[i + 1].text \in Strings
      BY <2>2, PartsSettled
    <3>2. PICK x \in Strings : x = parts[i + 1].text /\ x # <<>>
      BY <3>1
    <3>3. Len(x) \in Nat /\ Len(x) # 0
      BY <3>2 DEF Strings
    <3> QED
      BY <2>6, <3>2, <3>3, Zenon
  <2>8. e[i + 1] \in e[i] + 1 .. e[last]
    <3>1. PICK b \in 0 .. Len(s), f \in 0 .. Len(s), c \in 0 .. Len(s) :
            b = e[i] /\ f = e[i + 1] /\ c = e[last] /\ f <= c
      BY <1>3, <2>4
    <3>2. PICK l \in Nat : l = Len(Datum(r)[i + 1]) /\ l # 0 /\ f = b + l
      BY <2>5, <2>7, <3>1
    <3>3. PICK m \in Nat : m = Len(s)
      BY <1>2
    <3>4. \A x, y, z, w \in Nat : w # 0 /\ y = x + w /\ y <= z => y \in x + 1 .. z
      OBVIOUS
    <3>5. b \in Nat /\ f \in Nat /\ c \in Nat
      BY <3>3
    <3>6. f \in b + 1 .. c
      BY <3>1, <3>2, <3>4, <3>5
    <3> QED
      BY <3>1, <3>6
  <2>9. EndsFirst(SubSeq(s, e[i - 1] + 1, e[i]), SubSeq(s, e[i] + 1, e[i + 1]))
    BY <2>2, <2>5, <2>6
  <2>10. e[last] # e[i]
    <3>1. PICK b \in 0 .. Len(s), f \in 0 .. Len(s), c \in 0 .. Len(s) :
            b = e[i] /\ f = e[i + 1] /\ c = e[last] /\ f \in b + 1 .. c
      BY <1>3, <2>4, <2>8
    <3> QED
      BY <1>2, <3>1
  <2>11. e[i - 1] + Min(Stops(s, e[i - 1], SubSeq(s, e[i] + 1, e[last]))) = e[i]
    BY <1>2, <1>8, <2>8, <2>9, <2>10, StopsAt
  <2> QED
    BY <1>5, <1>6, <2>11 DEF s
<1> QED
  BY <1>9, <1>10

(* A sampled value that is what the parts say is taken apart as it was     *)
(* split.                                                                  *)
LEMMA EndsAgree ==
  ASSUME Settled, Joined, NEW r, Typical(r), NEW e, CutsAt(e, Datum(r), value[r])
  PROVE  \A k \in 0 .. Len(parts) : Ends(value[r])[k] = e[k]
<1> DEFINE n == Len(parts)
           s == value[r]
           f == Ends(s)
<1>1. n \in Nat /\ DOMAIN parts = 1 .. n
  BY PartsSettled
<1>2. s \in Strings /\ Len(s) \in Nat
  BY TypicalCuts DEF Strings
<1>3. /\ \A k \in 0 .. n : e[k] \in 0 .. Len(s)
      /\ \A k \in 0 .. n : \A j \in 0 .. k : e[j] <= e[k]
      /\ \A j \in 1 .. n : e[j] = e[j - 1] + Len(Datum(r)[j]) /\ Datum(r)[j] = SubSeq(s, e[j - 1] + 1, e[j])
      /\ e[n] = Len(s) /\ e[0] = 0
  BY DatumIs DEF CutsAt
<1>4. Walks(f, s)
  BY <1>2, EndsWalks
<1>5. n # 0 /\ Len(Datum(r)[n]) \in Nat /\ Len(Datum(r)[n]) # 0
  <2>1. parts # <<>> /\ n # 0
    <3>1. parts # <<>>
      BY DEF Typical
    <3> QED
      BY <3>1 DEF Settled, Types
  <2>2. n \in DOMAIN parts
    BY <1>1, <2>1
  <2>3. Datum(r)[n] = parts[n].data[r] /\ parts[n].data[r] # <<>>
    BY <2>2 DEF Datum, Typical, Last
  <2>4. Datum(r)[n] \in Strings
    BY <2>2, DatumIs
  <2>5. PICK x \in Strings : x = Datum(r)[n] /\ x # <<>>
    BY <2>3, <2>4
  <2>6. Len(x) \in Nat /\ Len(x) # 0
    BY <2>5 DEF Strings
  <2> QED
    BY <2>1, <2>5, <2>6
<1>6. \A i \in 1 .. n : e[i - 1] < Len(s)
  <2> SUFFICES ASSUME NEW i \in 1 .. n PROVE e[i - 1] < Len(s)
    OBVIOUS
  <2>1. i - 1 \in 0 .. n - 1 /\ n - 1 \in 0 .. n /\ i - 1 \in 0 .. n /\ n \in 1 .. n
    BY <1>1, <1>5
  <2>2. PICK a \in 0 .. Len(s), b \in 0 .. Len(s) : a = e[i - 1] /\ b = e[n - 1] /\ a <= b
    BY <1>3, <2>1
  <2>3. Len(s) = b + Len(Datum(r)[n])
    BY <1>3, <2>1, <2>2
  <2> QED
    BY <1>2, <1>5, <2>2, <2>3
<1>7. ASSUME NEW i \in 1 .. n PROVE Extract(i, s, e[i - 1]) = e[i]
  <2>1. /\ parts[i].kind \in {"const", "fixed", "var"}
        /\ IsConst(i) => parts[i].len = Len(parts[i].text)
    BY <1>1, PartsSettled
  <2>2. PICK a \in 0 .. Len(s), b \in 0 .. Len(s), d \in Strings :
          a = e[i - 1] /\ b = e[i] /\ d = Datum(r)[i] /\ b = a + Len(d) /\ d = SubSeq(s, a + 1, b) /\ a < Len(s)
    <3>1. i - 1 \in 0 .. n /\ i \in 0 .. n
      BY <1>1
    <3>2. Datum(r)[i] \in Strings
      BY <1>1, DatumIs
    <3> QED
      BY <1>3, <1>6, <3>1, <3>2
  <2>3. Datum(r)[i] = parts[i].data[r]
    BY <1>1 DEF Datum
  <2>4. CASE IsConst(i)
    <3>1. parts[i].text = d
      BY <1>1, <2>2, <2>3, <2>4 DEF Typical
    <3>2. (a + 1) + Len(d) - 1 = b /\ a + Len(d) <= Len(s)
      <4>1. PICK l \in Nat : l = Len(d)
        BY DEF Strings
      <4>2. PICK m \in Nat : m = Len(s)
        BY <1>2
      <4>3. a \in 0 .. m /\ b \in 0 .. m
        BY <4>2, Zenon
      <4>5. b = a + l
        BY <2>2, <4>1, Zenon
      <4>6. a \in Nat /\ b \in Nat /\ b <= m
        BY <4>3
      <4>4. \A x, y \in Nat : (x + 1) + y - 1 = x + y
        OBVIOUS
      <4> QED
        BY <4>1, <4>2, <4>4, <4>5, <4>6
    <3>3. At(s, a + 1, d)
      BY <2>2, <3>2 DEF At
    <3> QED
      BY <2>1, <2>2, <2>4, <3>1, <3>2, <3>3 DEF Extract, IsConst
  <2>5. CASE parts[i].kind = "fixed"
    <3>1. Len(d) = parts[i].len
      BY <1>1, <2>2, <2>3, <2>5 DEF Typical
    <3>2. a < Len(s) /\ a + parts[i].len <= Len(s) /\ a + parts[i].len = b
      <4>1. b <= Len(s)
        BY <1>2
      <4> QED
        BY <2>2, <3>1, <4>1, Zenon
    <3>3. Extract(i, s, a) = IF a < Len(s) /\ a + parts[i].len <= Len(s) THEN a + parts[i].len ELSE -1
      BY <2>5 DEF Extract
    <3> QED
      BY <2>2, <3>2, <3>3, Zenon
  <2>6. CASE parts[i].kind = "var"
    <3>1. Variable(i, s, e[i - 1]) = e[i]
      BY <1>1, <2>6, VariableAgrees
    <3> QED
      BY <2>2, <2>6, <3>1 DEF Extract
  <2> QED
    BY <2>1, <2>4, <2>5, <2>6 DEF IsConst
<1> HIDE DEF n, s, f
<1> DEFINE P == {k \in Nat : k <= n => f[k] = e[k]}
<1>8. 0 \in P
  BY <1>3, <1>4 DEF Walks
<1>9. ASSUME NEW k \in Nat, k \in P PROVE k + 1 \in P
  <2> SUFFICES ASSUME k + 1 <= n PROVE f[k + 1] = e[k + 1]
    OBVIOUS
  <2>1. k + 1 \in 1 .. n /\ k + 1 \in DOMAIN parts /\ (k + 1) - 1 = k /\ k \in 0 .. n /\ k <= n
    BY <1>1
  <2>2. f[k] = e[k]
    BY <1>9, <2>1
  <2>3. f[k] # -1
    BY <1>2, <1>3, <2>1, <2>2
  <2>4. f[k + 1] = Extract(k + 1, s, f[k])
    BY <1>4, <2>1, <2>3 DEF Walks
  <2> QED
    BY <1>7, <2>1, <2>2, <2>4
<1>10. Nat \subseteq P
  <2> HIDE DEF P
  <2> QED
    BY <1>8, <1>9, SetInduction
<1> QED
  BY <1>1, <1>10 DEF n, s, f

(* A sampled value that is what the parts say, part by part, fits the sub- *)
(* pattern, and its cells are what the parts had of it when the sample was *)
(* split: SubPattern::extract, which scans for the constants that follow,  *)
(* finds the places where matchSpliter and matchLCS split.                 *)
THEOREM SplittingAgrees == Spec => []SplitAgrees
<1>1. ASSUME IInv PROVE SplitAgrees
  <2> SUFFICES ASSUME pc = "done", NEW r \in sample, Typical(r)
               PROVE  r \notin outliers /\ \A i \in Columns : cells[r][i] = parts[i].data[r]
    BY DEF SplitAgrees
  <2> DEFINE s == value[r]
  <2>1. Settled /\ Joined
    BY <1>1 DEF IInv, Settled
  <2>2. r \in 1 .. Len(cells)
    BY <1>1 DEF IInv, Types, Extracted
  <2>3. RowKept(r)
    BY <1>1, <2>2, RowIs
  <2>4. PICK e : CutsAt(e, Datum(r), s)
    BY <2>1, TypicalCuts
  <2>5. \A k \in 0 .. Len(parts) : Ends(s)[k] = e[k]
    BY <2>1, <2>4, EndsAgree
  <2>6. Len(parts) \in Nat /\ DOMAIN parts = 1 .. Len(parts) /\ s \in Strings /\ Len(s) \in Nat
    BY <2>1, PartsSettled, TypicalCuts DEF Strings
  <2>7. /\ \A k \in 0 .. Len(parts) : e[k] \in 0 .. Len(s)
        /\ \A j \in 1 .. Len(parts) : Datum(r)[j] = SubSeq(s, e[j - 1] + 1, e[j])
    BY <2>1, <2>4, DatumIs DEF CutsAt
  <2> HIDE DEF s
  <2>8. Fits(s)
    BY <2>5, <2>6, <2>7 DEF Fits
  <2>9. r \notin outliers /\ cells[r] = [i \in DOMAIN parts |-> Piece(i, s)]
    BY <2>3, <2>8 DEF RowKept, s
  <2>10. ASSUME NEW i \in Columns PROVE cells[r][i] = parts[i].data[r]
    <3>1. i \in DOMAIN parts /\ i \in 1 .. Len(parts) /\ i \in 0 .. Len(parts) /\ i - 1 \in 0 .. Len(parts)
      BY <2>6 DEF Columns
    <3>2. Ends(s)[i] # -1 /\ Ends(s)[i] = e[i] /\ Ends(s)[i - 1] = e[i - 1]
      BY <2>5, <2>6, <2>7, <3>1
    <3>3. Piece(i, s) = SubSeq(s, e[i - 1] + 1, e[i])
      BY <3>2 DEF Piece
    <3>4. Datum(r)[i] = parts[i].data[r]
      BY <3>1 DEF Datum
    <3> QED
      BY <2>7, <2>9, <3>1, <3>3, <3>4
  <2> QED
    BY <2>9, <2>10
<1> QED
  BY <1>1, Invariance, PTL
-----------------------------------------------------------------------------
(***************************************************************************)
(* Sums (SumFunction).  A sum over a finite set is defined by taking out   *)
(* the elements one after the other, in an order that is not said; it may  *)
(* be any.                                                                 *)
(***************************************************************************)
AnyOf(T) == CHOOSE x \in T : TRUE

Sums(v, f, S) == \A T \in SUBSET S : v[T] = IF T = {} THEN 0 ELSE f[AnyOf(T)] + v[T \ {AnyOf(T)}]

Numbers(f, S) == IsFiniteSet(S) /\ \A x \in S : f[x] \in Nat

SumsTo(v, f, S) == v \in [SUBSET S -> Nat] /\ Sums(v, f, S)

LEMMA Without ==
  ASSUME NEW S, IsFiniteSet(S), NEW T \in SUBSET S, T # {}, NEW x \in T
  PROVE  /\ AnyOf(T) \in T /\ T \ {x} \in SUBSET S
         /\ IsFiniteSet(T) /\ Cardinality(T) \in Nat \ {0} /\ Cardinality(T \ {x}) = Cardinality(T) - 1
<1>1. IsFiniteSet(T) /\ AnyOf(T) \in T
  BY FS_Subset DEF AnyOf
<1>2. Cardinality(T) \in Nat /\ Cardinality(T \ {x}) = Cardinality(T) - 1
  BY <1>1, FS_CardinalityType, FS_RemoveElement
<1>3. Cardinality(T) # 0
  BY <1>1, FS_EmptySet
<1> QED
  BY <1>1, <1>2, <1>3

LEMMA SumsExist ==
  ASSUME NEW f, NEW S, Numbers(f, S)
  PROVE  \E v : SumsTo(v, f, S)
<1> DEFINE Small(k) == {T \in SUBSET S : Cardinality(T) <= k}
           Good(v, k) == /\ v \in [Small(k) -> Nat]
                         /\ \A T \in Small(k) : v[T] = IF T = {} THEN 0 ELSE f[AnyOf(T)] + v[T \ {AnyOf(T)}]
           P == {k \in Nat : \E v : Good(v, k)}
<1>1. IsFiniteSet(S) /\ \A x \in S : f[x] \in Nat
  BY DEF Numbers
<1>2. \A T \in SUBSET S : IsFiniteSet(T) /\ Cardinality(T) \in Nat /\ (Cardinality(T) = 0 <=> T = {})
  BY <1>1, FS_Subset, FS_CardinalityType, FS_EmptySet
<1>3. 0 \in P
  <2>1. \A T \in Small(0) : T = {}
    BY <1>2
  <2>2. Good([T \in Small(0) |-> 0], 0)
    BY <2>1
  <2> QED
    BY <2>2
<1>4. ASSUME NEW k \in Nat, k \in P PROVE k + 1 \in P
  <2>1. PICK v : Good(v, k)
    BY <1>4
  <2> DEFINE next(T) == IF T = {} THEN 0 ELSE f[AnyOf(T)] + v[T \ {AnyOf(T)}]
             w == [T \in Small(k + 1) |-> next(T)]
  <2>2. ASSUME NEW T \in Small(k + 1), T # {}
        PROVE  AnyOf(T) \in S /\ T \ {AnyOf(T)} \in Small(k) /\ T \ {AnyOf(T)} \in Small(k + 1)
    <3>1. AnyOf(T) \in T
      BY <2>2 DEF AnyOf
    <3>2. Cardinality(T) \in Nat /\ Cardinality(T \ {AnyOf(T)}) = Cardinality(T) - 1 /\ T \ {AnyOf(T)} \in SUBSET S
      BY <1>1, <2>2, <3>1, Without
    <3> QED
      BY <3>1, <3>2
  <2>3. ASSUME NEW T \in Small(k + 1) PROVE next(T) \in Nat
    <3>1. CASE T = {}
      BY <3>1
    <3>2. CASE T # {}
      <4>1. f[AnyOf(T)] \in Nat /\ v[T \ {AnyOf(T)}] \in Nat
        BY <1>1, <2>1, <2>2, <3>2
      <4> QED
        BY <3>2, <4>1
    <3> QED
      BY <3>1, <3>2
  <2>4. ASSUME NEW T \in Small(k) PROVE w[T] = v[T]
    <3>1. T \in Small(k + 1)
      BY <1>2
    <3>2. w[T] = next(T)
      BY <3>1
    <3> QED
      BY <2>1, <3>2
  <2>5. \A T \in Small(k + 1) : w[T] = IF T = {} THEN 0 ELSE f[AnyOf(T)] + w[T \ {AnyOf(T)}]
    <3> SUFFICES ASSUME NEW T \in Small(k + 1) PROVE w[T] = IF T = {} THEN 0 ELSE f[AnyOf(T)] + w[T \ {AnyOf(T)}]
      OBVIOUS
    <3>1. w[T] = next(T)
      OBVIOUS
    <3> HIDE DEF w
    <3>2. CASE T = {}
      BY <3>1, <3>2
    <3>3. CASE T # {}
      BY <2>2, <2>4, <3>1, <3>3
    <3> QED
      BY <3>2, <3>3
  <2>6. w \in [Small(k + 1) -> Nat]
    BY <2>3
  <2>7. Good(w, k + 1)
    <3> HIDE DEF w
    <3> QED
      BY <2>5, <2>6
  <2>8. k + 1 \in Nat
    OBVIOUS
  <2> HIDE DEF Good, w
  <2> QED
    BY <2>7, <2>8
<1>5. Cardinality(S) \in P
  <2>1. Cardinality(S) \in Nat
    BY <1>2
  <2>2. Nat \subseteq P
    <3> HIDE DEF P
    <3> QED
      BY <1>3, <1>4, SetInduction
  <2> HIDE DEF P
  <2> QED
    BY <2>1, <2>2
<1>6. PICK v : Good(v, Cardinality(S))
  BY <1>5
<1>7. Small(Cardinality(S)) = SUBSET S
  BY <1>1, FS_Subset
<1>8. SumsTo(v, f, S)
  BY <1>6, <1>7 DEF SumsTo, Sums
<1> QED
  BY <1>8

LEMMA SumFunctionSums ==
  ASSUME NEW f, Numbers(f, DOMAIN f)
  PROVE  \E v : SumsTo(v, f, DOMAIN f) /\ SumFunction(f) = v[DOMAIN f]
<1> DEFINE S == DOMAIN f
           Def(u) == [T \in SUBSET S |-> IF T = {} THEN 0 ELSE f[AnyOf(T)] + u[T \ {AnyOf(T)}]]
           v == CHOOSE u : u = Def(u)
<1>1. SumFunction(f) = v[S]
  BY DEF SumFunction, SumFunctionOnSet, FoldFunctionOnSet, MapThenFoldSet, AnyOf
<1>2. PICK w : SumsTo(w, f, S)
  BY SumsExist
<1>3. w = Def(w)
  <2>1. w = [T \in SUBSET S |-> w[T]]
    BY <1>2 DEF SumsTo
  <2>2. \A T \in SUBSET S : w[T] = IF T = {} THEN 0 ELSE f[AnyOf(T)] + w[T \ {AnyOf(T)}]
    BY <1>2 DEF SumsTo, Sums
  <2> QED
    BY <2>1, <2>2
<1>4. v = Def(v)
  <2> HIDE DEF Def
  <2> QED
    BY <1>3
<1> HIDE DEF v
<1>5. \A T \in SUBSET S : v[T] = IF T = {} THEN 0 ELSE f[AnyOf(T)] + v[T \ {AnyOf(T)}]
  BY <1>4
<1>6. DOMAIN v = SUBSET S /\ v = [T \in SUBSET S |-> v[T]]
  BY <1>4
<1>7. IsFiniteSet(S) /\ \A T \in SUBSET S : Cardinality(T) \in Nat
  BY FS_Subset, FS_CardinalityType DEF Numbers
<1> DEFINE P == {k \in Nat : \A T \in SUBSET S : Cardinality(T) = k => v[T] = w[T]}
<1>8. 0 \in P
  <2> SUFFICES ASSUME NEW T \in SUBSET S, Cardinality(T) = 0 PROVE v[T] = w[T]
    OBVIOUS
  <2>1. T = {}
    BY <1>7, FS_EmptySet, FS_Subset
  <2> QED
    BY <1>2, <1>5, <2>1 DEF SumsTo, Sums
<1>9. ASSUME NEW k \in Nat, k \in P PROVE k + 1 \in P
  <2> SUFFICES ASSUME NEW T \in SUBSET S, Cardinality(T) = k + 1 PROVE v[T] = w[T]
    OBVIOUS
  <2>1. T # {}
    BY FS_EmptySet
  <2>2. AnyOf(T) \in T
    BY <2>1 DEF AnyOf
  <2>3. T \ {AnyOf(T)} \in SUBSET S /\ Cardinality(T \ {AnyOf(T)}) = k
    BY <1>7, <2>1, <2>2, Without
  <2>4. v[T \ {AnyOf(T)}] = w[T \ {AnyOf(T)}]
    BY <1>9, <2>3
  <2> QED
    BY <1>2, <1>5, <2>1, <2>4 DEF SumsTo, Sums
<1>10. \A T \in SUBSET S : v[T] = w[T]
  <2>1. Nat \subseteq P
    <3> HIDE DEF P
    <3> QED
      BY <1>8, <1>9, SetInduction
  <2> QED
    BY <1>7, <2>1
<1>11. v = w
  <2>1. w = [T \in SUBSET S |-> w[T]]
    BY <1>2 DEF SumsTo
  <2> QED
    BY <1>6, <1>10, <2>1
<1> QED
  BY <1>1, <1>2, <1>11

(* Any element may be the first that is taken out.                         *)
TakesOut(v, f, S) == \A T \in SUBSET S : \A x \in T : v[T] = f[x] + v[T \ {x}]

LEMMA SumTakesOut ==
  ASSUME NEW f, NEW S, Numbers(f, S), NEW v, SumsTo(v, f, S)
  PROVE  TakesOut(v, f, S)
<1> USE DEF TakesOut
<1>1. IsFiniteSet(S) /\ (\A x \in S : f[x] \in Nat) /\ \A T \in SUBSET S : v[T] \in Nat
  BY DEF Numbers, SumsTo
<1>2. \A T \in SUBSET S : T # {} => v[T] = f[AnyOf(T)] + v[T \ {AnyOf(T)}]
  BY DEF SumsTo, Sums
<1>3. \A T \in SUBSET S : Cardinality(T) \in Nat /\ (Cardinality(T) = 0 => T = {})
  BY <1>1, FS_Subset, FS_CardinalityType, FS_EmptySet
<1> DEFINE P == {k \in Nat : \A T \in SUBSET S : Cardinality(T) = k => \A x \in T : v[T] = f[x] + v[T \ {x}]}
<1>4. 0 \in P
  BY <1>3
<1>5. ASSUME NEW k \in Nat, k \in P PROVE k + 1 \in P
  <2> SUFFICES ASSUME NEW T \in SUBSET S, Cardinality(T) = k + 1, NEW x \in T PROVE v[T] = f[x] + v[T \ {x}]
    OBVIOUS
  <2>1. PICK c : c = AnyOf(T)
    OBVIOUS
  <2>2. c \in T /\ v[T] = f[c] + v[T \ {c}]
    BY <1>2, <2>1 DEF AnyOf
  <2>3. CASE x = c
    BY <2>2, <2>3
  <2>4. CASE x # c
    <3> DEFINE A == T \ {c}
               B == T \ {x}
               D == A \ {x}
    <3>1. /\ A \in SUBSET S /\ Cardinality(A) = k /\ x \in A
          /\ B \in SUBSET S /\ Cardinality(B) = k /\ c \in B
          /\ D = B \ {c} /\ D \in SUBSET S
      BY <1>1, <2>2, <2>4, Without
    <3>2. v[A] = f[x] + v[D] /\ v[B] = f[c] + v[D]
      <4> HIDE DEF A, B, D
      <4>1. v[A] = f[x] + v[A \ {x}] /\ v[B] = f[c] + v[B \ {c}]
        BY <1>5, <3>1
      <4>2. A \ {x} = D
        BY DEF D
      <4> QED
        BY <3>1, <4>1, <4>2
    <3>3. PICK a \in Nat, b \in Nat, d \in Nat : a = f[c] /\ b = f[x] /\ d = v[D]
      BY <1>1, <2>2, <3>1
    <3> QED
      BY <2>2, <3>2, <3>3
  <2> QED
    BY <2>3, <2>4
<1>6. Nat \subseteq P
  <2> HIDE DEF P
  <2> QED
    BY <1>4, <1>5, SetInduction
<1> QED
  BY <1>3, <1>6

(* A sum of numbers none of which is greater, and one of which is smaller, *)
(* is smaller, also over a part of the set.                                *)
LEMMA SumIsLess ==
  ASSUME NEW f, NEW g, DOMAIN f \subseteq DOMAIN g, IsFiniteSet(DOMAIN g),
         \A x \in DOMAIN g : g[x] \in Nat,
         \A x \in DOMAIN f : f[x] \in Nat /\ f[x] <= g[x],
         \E x \in DOMAIN f : f[x] < g[x]
  PROVE  SumFunction(f) < SumFunction(g)
<1> DEFINE S == DOMAIN f
           R == DOMAIN g
<1>1. IsFiniteSet(S)
  BY FS_Subset
<1>2. PICK v : SumsTo(v, f, S) /\ SumFunction(f) = v[S]
  BY <1>1, SumFunctionSums DEF Numbers
<1>3. PICK w : SumsTo(w, g, R) /\ SumFunction(g) = w[R]
  BY SumFunctionSums DEF Numbers
<1>4. /\ \A T \in SUBSET S : v[T] \in Nat
      /\ \A T \in SUBSET R : w[T] \in Nat
      /\ v[{}] = 0
  BY <1>2, <1>3 DEF SumsTo, Sums
<1>5. /\ \A T \in SUBSET S : \A x \in T : v[T] = f[x] + v[T \ {x}]
      /\ \A T \in SUBSET R : \A x \in T : w[T] = g[x] + w[T \ {x}]
  <2>1. Numbers(f, S) /\ Numbers(g, R)
    BY <1>1 DEF Numbers
  <2>2. TakesOut(v, f, S) /\ TakesOut(w, g, R)
    <3> HIDE DEF S, R
    <3> QED
      BY <1>2, <1>3, <2>1, SumTakesOut, Zenon
  <2> QED
    BY <2>2 DEF TakesOut
<1>6. \A T \in SUBSET R : Cardinality(T) \in Nat /\ (Cardinality(T) = 0 => T = {})
  BY FS_Subset, FS_CardinalityType, FS_EmptySet
<1> HIDE DEF S, R
<1> DEFINE Less(U, W) == v[U] <= w[W] /\ ((\E x \in U : f[x] < g[x]) => v[U] < w[W])
           P == {k \in Nat : \A W \in SUBSET R : Cardinality(W) = k => \A U \in SUBSET S : U \subseteq W => Less(U, W)}
<1>7. 0 \in P
  <2> SUFFICES ASSUME NEW W \in SUBSET R, Cardinality(W) = 0, NEW U \in SUBSET S, U \subseteq W PROVE Less(U, W)
    OBVIOUS
  <2>1. U = {} /\ w[W] \in Nat
    BY <1>4, <1>6
  <2> QED
    BY <1>4, <2>1
<1>8. ASSUME NEW k \in Nat, k \in P PROVE k + 1 \in P
  <2> SUFFICES ASSUME NEW W \in SUBSET R, Cardinality(W) = k + 1, NEW U \in SUBSET S, U \subseteq W PROVE Less(U, W)
    OBVIOUS
  <2>1. PICK x \in W : TRUE
    BY FS_EmptySet
  <2>2. W \ {x} \in SUBSET R /\ Cardinality(W \ {x}) = k /\ U \ {x} \in SUBSET S /\ U \ {x} \subseteq W \ {x}
    BY Without DEF R
  <2>3. v[U \ {x}] <= w[W \ {x}] /\ ((\E y \in U \ {x} : f[y] < g[y]) => v[U \ {x}] < w[W \ {x}])
    BY <1>8, <2>2
  <2>4. PICK b \in Nat, d \in Nat, y \in Nat : b = w[W \ {x}] /\ d = v[U \ {x}] /\ y = g[x]
    BY <1>4, <2>2 DEF R
  <2>5. w[W] = y + b
    BY <1>5, <2>4
  <2>6. CASE x \in U
    <3>1. PICK z \in Nat : z = f[x] /\ z <= y
      BY <2>4, <2>6 DEF S
    <3>2. v[U] = z + d
      BY <1>5, <2>4, <2>6, <3>1
    <3>3. (\E e \in U : f[e] < g[e]) => z < y \/ \E e \in U \ {x} : f[e] < g[e]
      BY <2>4, <3>1
    <3> QED
      BY <2>3, <2>4, <2>5, <3>1, <3>2, <3>3
  <2>7. CASE x \notin U
    <3>1. U \ {x} = U
      BY <2>7
    <3> QED
      BY <2>3, <2>4, <2>5, <3>1
  <2> QED
    BY <2>6, <2>7
<1>9. Nat \subseteq P
  <2> HIDE DEF P
  <2> QED
    BY <1>7, <1>8, SetInduction
<1>10. Cardinality(R) \in Nat /\ R \in SUBSET R
  BY <1>6
<1>11. S \in SUBSET S /\ S \subseteq R /\ \E x \in S : f[x] < g[x]
  BY DEF S, R
<1>12. Less(S, R)
  <2> HIDE DEF Less
  <2> QED
    BY <1>9, <1>10, <1>11
<1> QED
  BY <1>2, <1>3, <1>11, <1>12
-----------------------------------------------------------------------------
(***************************************************************************)
(* Splitting makes parts smaller                                           *)
(***************************************************************************)
(* What a part is split at is not all of every row that has what was       *)
(* tested.                                                                 *)
Short(p, tested, w) == \E r \in With(p, tested) : Len(w) < Len(p.data[r])

LEMMA HasIsLonger ==
  ASSUME NEW s \in Strings, NEW w \in Strings, Has(s, w)
  PROVE  Len(w) <= Len(s) /\ Len(s) \in Nat /\ Len(w) \in Nat
<1>1. Len(s) \in Nat /\ Len(w) \in Nat
  BY DEF Strings
<1>2. PICK m : m \in 1 .. Len(s) - Len(w) + 1
  BY DEF Has, Places
<1> QED
  BY <1>1, <1>2

LEMMA SplitIsShort ==
  ASSUME Types, NEW p \in Parts, NEW three \in Splits(p)
  PROVE  \E tested, w : SplitAt(p, tested, w, three) /\ Short(p, tested, w)
<1>1. PICK a \in Live(p), b \in Live(p) : three \in SplitsAt(p, a, b)
  <2>1. PICK x \in Live(p) \X Live(p) : three \in SplitsAt(p, x[1], x[2])
    BY DEF Splits
  <2> QED
    BY <2>1
<1>2. \/ \E w \in {SpliterOf(p, a)} \ {<<>>} : three = ThreeParts(p, w, w)
      \/ \E w \in {Shared(p, a, b)} \ {<<>>} : three = ThreeParts(p, w, Front(w))
  BY <1>1 DEF SplitsAt
<1>3. CASE \E w \in {SpliterOf(p, a)} \ {<<>>} : three = ThreeParts(p, w, w)
  <2>1. PICK w : w = SpliterOf(p, a) /\ w # <<>> /\ three = ThreeParts(p, w, w)
    BY <1>3
  <2>2. SplitAt(p, w, w, three)
    BY <2>1, AtSpliter
  <2>3. PICK c \in DOMAIN Class : w = <<c>> /\ Spliter(p, c)
    BY <2>1, SpliterIs
  <2> DEFINE more == {r \in With(p, <<c>>) : Len(p.data[r]) # 1}
  <2>4. Most(more) /\ more \subseteq sample
    BY <2>3, PartData DEF Spliter, With
  <2>5. more # {}
    <3> HIDE DEF more
    <3> QED
      BY <2>4, MostGrows
  <2>6. PICK r \in With(p, w) : Len(p.data[r]) # 1
    BY <2>3, <2>5
  <2>7. p.data[r] \in Strings /\ Has(p.data[r], w)
    BY <2>6, PartData DEF With
  <2>8. w \in Strings /\ Len(w) = 1
    BY <2>3 DEF Strings
  <2>9. Len(w) < Len(p.data[r])
    <3>1. Len(w) <= Len(p.data[r]) /\ Len(p.data[r]) \in Nat
      BY <2>7, <2>8, HasIsLonger, Zenon
    <3>2. \A n \in Nat : 1 <= n /\ n # 1 => 1 < n
      OBVIOUS
    <3> QED
      BY <2>6, <2>8, <3>1, <3>2
  <2> QED
    BY <2>2, <2>9 DEF Short
<1>4. CASE \E w \in {Shared(p, a, b)} \ {<<>>} : three = ThreeParts(p, w, Front(w))
  <2>1. PICK w : w = Shared(p, a, b) /\ w # <<>> /\ three = ThreeParts(p, w, Front(w))
    BY <1>4
  <2>2. SplitAt(p, w, Front(w), three)
    BY <2>1, AtShared
  <2>3. w \in Strings
    BY <2>2 DEF SplitAt
  <2>4. PICK r \in With(p, w) : TRUE
    <3>1. With(p, w) \subseteq sample /\ Most(With(p, w))
      BY <2>2, PartData DEF With, SplitAt
    <3>2. With(p, w) # {}
      BY <3>1, MostGrows
    <3> QED
      BY <3>2
  <2>5. p.data[r] \in Strings /\ Has(p.data[r], w)
    BY <2>4, PartData DEF With
  <2>6. Len(w) >= 1
    BY <2>1, <2>3 DEF Strings
  <2>7. Len(w) <= Len(p.data[r]) /\ Len(p.data[r]) \in Nat /\ Len(w) \in Nat
    BY <2>3, <2>5, HasIsLonger
  <2>8. Len(Front(w)) = Len(w) - 1
    BY <2>3, <2>5, <2>6, HasFront
  <2>9. Len(Front(w)) < Len(p.data[r])
    BY <2>7, <2>8
  <2> QED
    BY <2>2, <2>9 DEF Short
<1> QED
  BY <1>2, <1>3, <1>4

(* Each of the three parts has less than the part that was split, in all.  *)
LEMMA PiecesAreLess ==
  ASSUME Types, NEW p \in Parts, NEW tested, NEW w, NEW three,
         SplitAt(p, tested, w, three), Short(p, tested, w)
  PROVE  \A k \in 1 .. 3 : Total(three[k]) < Total(p)
<1> DEFINE live == With(p, tested)
           at == [r \in live |-> Min(Places(p.data[r], w))]
           before == [r \in live |-> SubSeq(p.data[r], 1, at[r] - 1)]
           after == [r \in live |-> SubSeq(p.data[r], at[r] + Len(w), Len(p.data[r]))]
           same == [r \in live |-> w]
           long == [r \in Live(p) |-> Len(p.data[r])]
           sizes(d) == [r \in DOMAIN d |-> Len(d[r])]
<1>1. w \in Strings /\ w # <<>> /\ Len(w) \in Nat /\ Len(w) > 0 /\ \A r \in live : Has(p.data[r], w)
  BY DEF SplitAt, Strings
<1>2. live \subseteq Live(p) /\ Live(p) \subseteq sample /\ \A r \in Live(p) : p.data[r] \in Strings
  BY PartData DEF With
<1>3. three = <<Open(before), Open(same), Open(after)>>
  BY DEF SplitAt, ThreeParts
<1>4. PICK r0 \in live : Len(w) < Len(p.data[r0])
  BY DEF Short
<1> HIDE DEF live
<1>5. IsFiniteSet(Live(p)) /\ DOMAIN long = Live(p) /\ \A r \in Live(p) : long[r] = Len(p.data[r]) /\ long[r] \in Nat
  BY <1>2, FiniteSample, FS_Subset DEF Strings
<1>6. ASSUME NEW r \in live
      PROVE  /\ Len(before[r]) \in Nat /\ Len(before[r]) < long[r]
             /\ Len(same[r]) \in Nat /\ Len(same[r]) <= long[r]
             /\ Len(after[r]) \in Nat /\ Len(after[r]) < long[r]
  <2>1. PICK s \in Strings : s = p.data[r]
    BY <1>2
  <2>2. PICK m : m = Min(Places(s, w))
    OBVIOUS
  <2>3. m \in 1 .. Len(s) - Len(w) + 1
    BY <1>1, <2>1, <2>2, FirstPlace
  <2>4. PICK n \in Nat : n = Len(s) /\ n = long[r]
    BY <1>2, <1>5, <2>1
  <2>5. before[r] = SubSeq(s, 1, m - 1) /\ after[r] = SubSeq(s, m + Len(w), n) /\ same[r] = w
    BY <2>1, <2>2, <2>4
  <2> HIDE DEF before, after, same, long
  <2>6. PICK l \in Nat : l = Len(w) /\ l > 0 /\ m \in 1 .. n - l + 1
    BY <1>1, <2>3, <2>4
  <2>7. CutFrom(before[r], s, 1, m - 1)
    <3>1. 1 \in 1 .. Len(s) + 1 /\ m - 1 \in 1 - 1 .. Len(s)
      BY <2>4, <2>6
    <3> QED
      BY <2>5, <3>1, Cuts
  <2>8. CutFrom(after[r], s, m + l, n)
    <3>1. m + l \in 1 .. Len(s) + 1 /\ n \in (m + l) - 1 .. Len(s)
      BY <2>4, <2>6
    <3> QED
      BY <2>5, <2>6, <3>1, Cuts
  <2>9. Len(before[r]) = m - 1 /\ Len(after[r]) = n - (m + l) + 1
    BY <2>6, <2>7, <2>8 DEF CutFrom
  <2>10. /\ m - 1 \in Nat /\ m - 1 < n /\ l <= n
         /\ n - (m + l) + 1 \in Nat /\ n - (m + l) + 1 < n
    BY <2>6
  <2>11. Len(same[r]) = l /\ long[r] = n
    BY <2>4, <2>5, <2>6
  <2> QED
    BY <2>6, <2>9, <2>10, <2>11
<1>7. ASSUME NEW d, DOMAIN d = live,
             \A r \in live : Len(d[r]) \in Nat /\ Len(d[r]) <= long[r],
             \E r \in live : Len(d[r]) < long[r]
      PROVE  Total(Open(d)) < Total(p)
  <2>1. PICK f : f = sizes(d)
    OBVIOUS
  <2>2. DOMAIN f = live /\ \A r \in live : f[r] = Len(d[r])
    BY <1>7, <2>1
  <2>3. Total(Open(d)) = SumFunction(f)
    BY <2>1 DEF Total, Open, Live
  <2>4. Total(p) = SumFunction(long)
    BY DEF Total
  <2> HIDE DEF long
  <2>5. SumFunction(f) < SumFunction(long)
    BY <1>2, <1>5, <1>7, <2>2, SumIsLess
  <2> QED
    BY <2>3, <2>4, <2>5
<1>8. DOMAIN before = live /\ DOMAIN same = live /\ DOMAIN after = live /\ Len(same[r0]) < long[r0]
  BY <1>2, <1>4
<1> HIDE DEF before, same, after, long
<1>9. Total(Open(before)) < Total(p)
  <2>1. \A x, y \in Nat : x < y => x <= y
    OBVIOUS
  <2>2. \A r \in live : long[r] \in Nat
    BY <1>2, <1>5
  <2> QED
    BY <1>4, <1>6, <1>7, <1>8, <2>1, <2>2
<1>10. Total(Open(same)) < Total(p)
  BY <1>4, <1>6, <1>7, <1>8
<1>11. Total(Open(after)) < Total(p)
  <2>1. \A x, y \in Nat : x < y => x <= y
    OBVIOUS
  <2>2. \A r \in live : long[r] \in Nat
    BY <1>2, <1>5
  <2> QED
    BY <1>4, <1>6, <1>7, <1>8, <2>1, <2>2
<1>12. PICK x, y, z : x = Open(before) /\ y = Open(same) /\ z = Open(after)
  OBVIOUS
<1>13. three = <<x, y, z>>
  BY <1>3, <1>12
<1>14. three[1] = x /\ three[2] = y /\ three[3] = z
  BY <1>13
<1> QED
  BY <1>9, <1>10, <1>11, <1>12, <1>14

LEMMA SameLength ==
  ASSUME Types, NEW i \in DOMAIN parts, NEW x
  PROVE  Len([parts EXCEPT ![i] = x]) = Len(parts)
<1>1. parts \in Seq(Parts)
  BY DEF Types
<1>2. \A s \in Seq(Parts) : \A y : DOMAIN [s EXCEPT ![i] = y] = 1 .. Len(s) /\ Len(s) \in Nat
  OBVIOUS
<1> QED
  BY <1>1, <1>2

(* Splitting ends: each of the parts a part is split into has less than it *)
(* had, in all its rows, whatever the sample and however it is split.      *)
THEOREM SplitsGetSmaller == Spec => SplitsShrink
<1> DEFINE Shrinks == \A i \in DOMAIN parts : Due(i) /\ Len(parts') > Len(parts) =>
                        \A k \in i .. i + 2 : Total(parts'[k]) < Total(parts[i])
<1>1. ASSUME IInv, Next PROVE Shrinks
  <2> SUFFICES ASSUME NEW i \in DOMAIN parts, Due(i), Len(parts') > Len(parts), NEW k \in i .. i + 2
               PROVE  Total(parts'[k]) < Total(parts[i])
    OBVIOUS
  <2>1. Types
    BY <1>1 DEF IInv
  <2>2. /\ Len(parts) \in Nat /\ DOMAIN parts = 1 .. Len(parts) /\ i \in 1 .. Len(parts)
        /\ parts[i] \in Parts /\ pc = "split" /\ parts[i].kind = "open"
    BY <2>1, PartIs DEF Due
  <2>3. ASSUME NEW j \in DOMAIN parts, Due(j) PROVE j = i
    BY <2>2, <2>3 DEF Due, Closed
  <2>4. Split(i)
    <3>1. PICK j \in DOMAIN parts : Constant(j) \/ Split(j) \/ Close(j)
      BY <1>1, <2>2 DEF Next, Build, ExtractRow
    <3>2. j = i
      BY <2>3, <3>1 DEF Constant, Split, Close
    <3>3. ~Constant(i)
      <4> SUFFICES ASSUME Constant(i) PROVE Len(parts') <= Len(parts)
        BY <2>2
      <4>1. PICK s : parts' = IF s = <<>> THEN RemoveAt(parts, i)
                ELSE [parts EXCEPT ![i].kind = "const", ![i].text = s, ![i].len = Len(s)]
        BY DEF Constant
      <4>2. CASE s # <<>>
        <5>1. PICK x : parts' = [parts EXCEPT ![i] = x]
          BY <4>1, <4>2
        <5> QED
          BY <2>1, <2>2, <5>1, SameLength
      <4>3. CASE s = <<>>
        <5>1. parts' = SubSeq(parts, 1, i - 1) \o SubSeq(parts, i + 1, Len(parts))
          BY <4>1, <4>3 DEF RemoveAt
        <5>2. PICK n \in Nat : n = Len(parts) /\ i \in 1 .. n /\ parts \in Seq(Parts)
          BY <2>1, <2>2 DEF Types
        <5>3. SubSeq(parts, 1, i - 1) \in Seq(Parts) /\ Len(SubSeq(parts, 1, i - 1)) = i - 1
          BY <5>2
        <5>4. SubSeq(parts, i + 1, n) \in Seq(Parts) /\ Len(SubSeq(parts, i + 1, n)) = n - i
          BY <5>2
        <5>5. Len(parts') = (i - 1) + (n - i)
          BY <5>1, <5>2, <5>3, <5>4
        <5> QED
          BY <5>2, <5>5
      <4> QED
        BY <4>2, <4>3
    <3>4. ~Close(i)
      <4> SUFFICES ASSUME Close(i) PROVE Len(parts') = Len(parts)
        BY <2>2
      <4>1. PICK x : parts' = [parts EXCEPT ![i] = x]
        BY DEF Close
      <4> QED
        BY <2>1, <2>2, <4>1, SameLength
    <3> QED
      BY <3>1, <3>2, <3>3, <3>4
  <2>5. PICK three \in Splits(parts[i]) :
          parts' = SubSeq(parts, 1, i - 1) \o three \o SubSeq(parts, i + 1, Len(parts))
    BY <2>4 DEF Split
  <2>6. PICK tested, w : SplitAt(parts[i], tested, w, three) /\ Short(parts[i], tested, w)
    BY <2>1, <2>2, SplitIsShort
  <2>7. three \in Seq(Parts) /\ Len(three) = 3
    <3>1. ThreeOf(three, parts[i], w)
      BY <2>1, <2>2, <2>6, ThreePartsAre
    <3> QED
      BY <3>1 DEF ThreeOf
  <2>8. Replaced(parts', i, three)
    BY <2>1, <2>5, <2>7, Replacing
  <2>9. PICK l \in 1 .. 3 : l = k - i + 1 /\ k = i - 1 + l
    BY <2>2
  <2>10. parts'[k] = three[l]
    BY <2>7, <2>8, <2>9 DEF Replaced
  <2> QED
    BY <2>1, <2>2, <2>6, <2>10, PiecesAreLess
<1>2. ASSUME UNCHANGED vars, IInv PROVE Shrinks
  <2>1. Len(parts') = Len(parts) /\ Len(parts) \in Nat
    BY <1>2, PartIs DEF vars, IInv
  <2> QED
    BY <2>1
<1>3. IInv /\ [Next]_vars => [Shrinks]_vars
  BY <1>1
<1>4. Spec => []IInv
  BY Invariance
<1> QED
  BY <1>3, <1>4, PTL DEF Spec, SplitsShrink
=============================================================================
