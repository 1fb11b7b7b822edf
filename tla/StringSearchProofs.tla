------------------------- MODULE StringSearchProofs -------------------------
(***************************************************************************)
(* TLAPS proofs about StringSearch, for every column, string and width of  *)
(* rows: first the tables and searches of one string in another, then the  *)
(* rows of a padded column, then the maps a search leaves.                 *)
(***************************************************************************)
EXTENDS StringSearch, FiniteSetTheorems, SequenceTheorems, WellFoundedInduction, TLAPS

-----------------------------------------------------------------------------
(***************************************************************************)
(* Induction                                                               *)
(***************************************************************************)
LEMMA LeastNumber ==
  ASSUME NEW T, T \subseteq Nat, T # {}
  PROVE  \E m \in T : \A k \in T : m <= k
<1>1. PICK m \in T : \A y \in T : ~ (<<y, m>> \in OpToRel(<, Nat))
  BY WFMin, NatLessThanWellFounded
<1>2. \A y \in T : ~ (<<y, m>> \in {ss \in Nat \X Nat : ss[1] < ss[2]})
  BY <1>1 DEF OpToRel
<1>3. ASSUME NEW y \in T PROVE m <= y
  <2>1. <<y, m>> \in Nat \X Nat
    OBVIOUS
  <2> QED
    BY <1>2, <2>1
<1> QED
  BY <1>3

LEMMA SetInduction ==
  ASSUME NEW P, 0 \in P, \A n \in Nat : n \in P => n + 1 \in P
  PROVE  Nat \subseteq P
<1> SUFFICES ASSUME ~(Nat \subseteq P) PROVE FALSE
  OBVIOUS
<1>1. PICK m \in Nat \ P : \A k \in Nat \ P : m <= k
  BY LeastNumber
<1>2. m - 1 \in Nat /\ m - 1 \in P
  BY <1>1
<1> QED
  BY <1>1, <1>2

(* A function that is defined by recursion along nxt, on which mu descends *)
Descends(F, D, stop, val, nxt) ==
  F = [d \in D |-> IF d \in stop THEN val[d] ELSE F[nxt[d]]]

LEMMA DescentExists ==
  ASSUME NEW D, NEW N \in Nat, NEW mu \in [D -> 0 .. N], NEW stop, NEW val, NEW nxt,
         \A d \in D \ stop : nxt[d] \in D /\ mu[nxt[d]] < mu[d]
  PROVE  \E F : Descends(F, D, stop, val, nxt)
<1> DEFINE E(k) == {d \in D : mu[d] <= k}
           body(F, d) == IF d \in stop THEN val[d] ELSE F[nxt[d]]
           Good(F, k) == \A d \in E(k) : F[d] = body(F, d)
           P == {k \in Nat : \E F : Good(F, k)}
<1>1. ASSUME NEW k \in Nat, NEW F, \A d \in D : mu[d] < k => F[d] = body(F, d)
      PROVE  \E G : Good(G, k)
  <2> DEFINE G == [d \in D |-> IF mu[d] < k THEN F[d] ELSE body(F, d)]
  <2>1. ASSUME NEW d \in E(k) PROVE G[d] = body(G, d)
    <3>1. CASE d \in stop
      BY <1>1, <3>1
    <3>2. CASE d \notin stop
      <4>1. nxt[d] \in D /\ mu[nxt[d]] < mu[d] /\ mu[d] <= k /\ mu[d] \in Nat /\ mu[nxt[d]] \in Nat
        BY <3>2
      <4>2. G[nxt[d]] = F[nxt[d]]
        BY <4>1
      <4>3. G[d] = F[nxt[d]]
        BY <1>1, <3>2
      <4> QED
        BY <3>2, <4>2, <4>3
    <3> QED
      BY <3>1, <3>2
  <2> QED
    BY <2>1
<1>2. 0 \in P
  <2>1. \A d \in D : ~(mu[d] < 0)
    OBVIOUS
  <2>2. \E G : Good(G, 0)
    BY <1>1, <2>1
  <2> QED
    BY <2>2
<1>3. ASSUME NEW k \in Nat, k \in P PROVE k + 1 \in P
  <2>1. PICK F : Good(F, k)
    BY <1>3
  <2>2. \A d \in D : mu[d] < k + 1 => d \in E(k)
    OBVIOUS
  <2>3. \E G : Good(G, k + 1)
    BY <1>1, <2>1, <2>2
  <2> QED
    BY <2>3
<1>4. N \in P
  <2> HIDE DEF P
  <2> QED
    BY <1>2, <1>3, SetInduction
<1>5. PICK F : Good(F, N)
  BY <1>4
<1>6. \A d \in D : F[d] = body(F, d)
  BY <1>5
<1> DEFINE G == [d \in D |-> body(F, d)]
<1>7. \A d \in D : G[d] = F[d]
  BY <1>6
<1>8. \A d \in D : body(G, d) = body(F, d)
  BY <1>7
<1>9. G = [d \in D |-> body(G, d)]
  <2> HIDE DEF body
  <2>1. G = [d \in D |-> body(F, d)]
    OBVIOUS
  <2> HIDE DEF G
  <2> QED
    BY <1>8, <2>1
<1> QED
  BY <1>9 DEF Descends

-----------------------------------------------------------------------------
(***************************************************************************)
(* Strings                                                                 *)
(***************************************************************************)
(* The n characters of s from i on are those of t from k on.               *)
Alike(s, i, t, k, n) == \A m \in 0 .. n - 1 : At(s, i + m) = At(t, k + m)

LEMMA SubSeqIs ==
  ASSUME NEW C, NEW s \in Seq(C), NEW i \in Nat, NEW n \in Nat, i + n <= Len(s)
  PROVE  /\ SubSeq(s, i + 1, i + n) \in Seq(C) /\ Len(SubSeq(s, i + 1, i + n)) = n
         /\ \A m \in 1 .. n : SubSeq(s, i + 1, i + n)[m] = s[i + m]
<1>1. i + 1 \in 1 .. Len(s) + 1 /\ i + n \in i + 1 - 1 .. Len(s)
  OBVIOUS
<1>2. SubSeq(s, i + 1, i + n) \in Seq(C) /\ Len(SubSeq(s, i + 1, i + n)) = (i + n) - (i + 1) + 1
  BY <1>1, SubSeqProperties
<1>3. (i + n) - (i + 1) + 1 = n
  OBVIOUS
<1>4. ASSUME NEW m \in 1 .. n PROVE SubSeq(s, i + 1, i + n)[m] = s[i + m]
  <2>1. SubSeq(s, i + 1, i + n)[m] = s[(i + 1) + m - 1]
    BY <1>1, <1>3, SubSeqProperties
  <2>2. (i + 1) + m - 1 = i + m
    OBVIOUS
  <2> QED
    BY <2>1, <2>2
<1> QED
  BY <1>2, <1>3, <1>4

LEMMA SubSeqAlike ==
  ASSUME NEW C, NEW s \in Seq(C), NEW t \in Seq(C), NEW i \in Nat, NEW k \in Nat, NEW n \in Nat,
         i + n <= Len(s), k + n <= Len(t)
  PROVE  SubSeq(s, i + 1, i + n) = SubSeq(t, k + 1, k + n) <=> Alike(s, i, t, k, n)
<1>1. PICK u : u = SubSeq(s, i + 1, i + n)
  OBVIOUS
<1>2. PICK v : v = SubSeq(t, k + 1, k + n)
  OBVIOUS
<1>3. u \in Seq(C) /\ Len(u) = n /\ \A m \in 1 .. n : u[m] = s[i + m]
  BY <1>1, SubSeqIs
<1>4. v \in Seq(C) /\ Len(v) = n /\ \A m \in 1 .. n : v[m] = t[k + m]
  BY <1>2, SubSeqIs
<1>5. u = v <=> \A m \in 1 .. n : u[m] = v[m]
  <2>1. (\A m \in 1 .. n : u[m] = v[m]) => u = v
    BY <1>3, <1>4, SeqEqual
  <2> QED
    BY <2>1
<1>6. (\A m \in 1 .. n : u[m] = v[m]) => Alike(s, i, t, k, n)
  <2> SUFFICES ASSUME \A m \in 1 .. n : u[m] = v[m], NEW m \in 0 .. n - 1 PROVE s[(i + m) + 1] = t[(k + m) + 1]
    BY DEF Alike, At
  <2>1. m + 1 \in 1 .. n /\ i + (m + 1) = (i + m) + 1 /\ k + (m + 1) = (k + m) + 1
    OBVIOUS
  <2>2. u[m + 1] = s[i + (m + 1)] /\ v[m + 1] = t[k + (m + 1)]
    BY <1>3, <1>4, <2>1
  <2> QED
    BY <2>1, <2>2
<1>7. Alike(s, i, t, k, n) => \A m \in 1 .. n : u[m] = v[m]
  <2> SUFFICES ASSUME Alike(s, i, t, k, n), NEW m \in 1 .. n PROVE s[i + m] = t[k + m]
    BY <1>3, <1>4
  <2>1. m - 1 \in 0 .. n - 1 /\ (i + (m - 1)) + 1 = i + m /\ (k + (m - 1)) + 1 = k + m
    OBVIOUS
  <2>2. At(s, i + (m - 1)) = At(t, k + (m - 1))
    BY <2>1 DEF Alike
  <2> QED
    BY <2>1, <2>2 DEF At
<1> QED
  BY <1>1, <1>2, <1>5, <1>6, <1>7

LEMMA WholeIs ==
  ASSUME NEW C, NEW s \in Seq(C)
  PROVE  Len(s) \in Nat /\ SubSeq(s, 0 + 1, 0 + Len(s)) = s
<1>1. PICK u : u = SubSeq(s, 0 + 1, 0 + Len(s))
  OBVIOUS
<1>2. u \in Seq(C) /\ Len(u) = Len(s) /\ \A m \in 1 .. Len(s) : u[m] = s[0 + m]
  BY <1>1, SubSeqIs
<1>3. \A m \in 1 .. Len(s) : u[m] = s[m]
  BY <1>2
<1>4. u = s
  BY <1>2, <1>3, SeqEqual
<1> QED
  BY <1>1, <1>4

LEMMA OccursIs ==
  ASSUME NEW C, NEW s \in Seq(C), NEW p \in Seq(C), NEW i \in Int
  PROVE  Occurs(s, p, i) <=> i >= 0 /\ i + Len(p) <= Len(s) /\ Alike(s, i, p, 0, Len(p))
<1>1. CASE i >= 0 /\ i + Len(p) <= Len(s)
  <2>1. SubSeq(s, i + 1, i + Len(p)) = SubSeq(p, 0 + 1, 0 + Len(p)) <=> Alike(s, i, p, 0, Len(p))
    <3>1. i \in Nat /\ 0 \in Nat /\ Len(p) \in Nat /\ i + Len(p) <= Len(s) /\ 0 + Len(p) <= Len(p)
      BY <1>1
    <3> QED
      BY <3>1, SubSeqAlike
  <2>2. SubSeq(p, 0 + 1, 0 + Len(p)) = p
    BY WholeIs
  <2>3. SubSeq(s, i + 1, i + Len(p)) = p <=> Alike(s, i, p, 0, Len(p))
    BY <2>1, <2>2
  <2> QED
    BY <1>1, <2>3 DEF Occurs
<1>2. CASE ~(i >= 0 /\ i + Len(p) <= Len(s))
  BY <1>2 DEF Occurs
<1> QED
  BY <1>1, <1>2

(* Parts that are alike have parts that are alike, and it may be turned    *)
(* round and chained.                                                      *)
LEMMA AlikePart ==
  ASSUME NEW s, NEW t, NEW i \in Int, NEW k \in Int, NEW n \in Int, Alike(s, i, t, k, n),
         NEW d \in Nat, NEW l \in Int, d + l <= n
  PROVE  Alike(s, i + d, t, k + d, l)
<1> SUFFICES ASSUME NEW m \in 0 .. l - 1 PROVE At(s, (i + d) + m) = At(t, (k + d) + m)
  BY DEF Alike
<1>1. d + m \in 0 .. n - 1 /\ i + (d + m) = (i + d) + m /\ k + (d + m) = (k + d) + m
  OBVIOUS
<1>2. At(s, i + (d + m)) = At(t, k + (d + m))
  BY <1>1 DEF Alike
<1> QED
  BY <1>1, <1>2

LEMMA AlikeTurned ==
  ASSUME NEW s, NEW t, NEW i, NEW k, NEW n, Alike(s, i, t, k, n)
  PROVE  Alike(t, k, s, i, n)
BY DEF Alike

LEMMA AlikeChained ==
  ASSUME NEW s, NEW t, NEW u, NEW i, NEW k, NEW l, NEW n, Alike(s, i, t, k, n), Alike(t, k, u, l, n)
  PROVE  Alike(s, i, u, l, n)
BY DEF Alike

LEMMA AlikeLonger ==
  ASSUME NEW s, NEW t, NEW i \in Int, NEW k \in Int, NEW n \in Nat, Alike(s, i, t, k, n), At(s, i + n) = At(t, k + n)
  PROVE  Alike(s, i, t, k, n + 1)
BY DEF Alike

-----------------------------------------------------------------------------
(***************************************************************************)
(* Boyer-Moore: the tables                                                 *)
(***************************************************************************)
Word(C) == Seq(C) \ {<<>>}

LEMMA WordIs ==
  ASSUME NEW C, NEW p \in Word(C)
  PROVE  p \in Seq(C) /\ Len(p) \in Nat /\ Len(p) > 0
BY DEF Word

IsGreatest(x, T) == x \in T /\ \A k \in T : k <= x

LEMMA GreatestExists ==
  ASSUME NEW n \in Nat, NEW T \in SUBSET (0 .. n), T # {}
  PROVE  \E x : IsGreatest(x, T)
<1> DEFINE U == {k \in Nat : n - k \in T}
<1>1. PICK y \in T : TRUE
  OBVIOUS
<1>2. n - y \in U
  BY <1>1
<1>3. PICK m \in U : \A k \in U : m <= k
  BY <1>2, LeastNumber
<1>4. ASSUME NEW z \in T PROVE z <= n - m
  <2>1. n - z \in U
    BY <1>4
  <2>2. m <= n - z
    BY <1>3, <2>1
  <2> QED
    BY <2>2
<1> QED
  BY <1>3, <1>4 DEF IsGreatest

LEMMA BadCIs ==
  ASSUME NEW C, NEW p \in Word(C), NEW c
  PROVE  /\ BadC(p, c) \in 0 .. Len(p)
         /\ \A k \in 0 .. Len(p) - 1 : At(p, k) = c => BadC(p, c) <= Len(p) - 1 - k
         /\ (\A k \in 0 .. Len(p) - 1 : At(p, k) # c) => BadC(p, c) = Len(p)
<1> DEFINE last == {i \in 0 .. Len(p) - 1 : At(p, i) = c}
           x == CHOOSE i \in last : \A k \in last : k <= i
<1>1. Len(p) \in Nat /\ Len(p) > 0
  BY WordIs
<1>2. BadC(p, c) = IF last = {} THEN Len(p) ELSE Len(p) - 1 - x
  BY DEF BadC
<1>3. CASE last = {}
  BY <1>1, <1>2, <1>3
<1>4. CASE last # {}
  <2>1. x \in last /\ \A k \in last : k <= x
    <3>1. last \in SUBSET (0 .. Len(p))
      BY <1>1
    <3> HIDE DEF last
    <3>2. \E y : IsGreatest(y, last)
      BY <1>1, <1>4, <3>1, GreatestExists
    <3> QED
      BY <3>2 DEF IsGreatest
  <2> HIDE DEF x
  <2>2. x \in 0 .. Len(p) - 1 /\ BadC(p, c) = Len(p) - 1 - x
    BY <1>2, <1>4, <2>1
  <2>3. \A k \in 0 .. Len(p) - 1 : At(p, k) = c => k <= x
    BY <2>1
  <2>4. At(p, x) = c
    BY <2>1
  <2> QED
    BY <1>1, <2>2, <2>3, <2>4
<1> QED
  BY <1>3, <1>4

LEMMA BorderIs ==
  ASSUME NEW C, NEW p \in Word(C)
  PROVE  /\ Border(p) \subseteq 1 .. Len(p) - 1
         /\ \A n \in 1 .. Len(p) - 1 : n \in Border(p) <=> Alike(p, 0, p, Len(p) - n, n)
<1>1. p \in Seq(C) /\ Len(p) \in Nat /\ Len(p) > 0
  BY WordIs
<1>2. ASSUME NEW n \in 1 .. Len(p) - 1
      PROVE  SubSeq(p, 1, n) = SubSeq(p, Len(p) - n + 1, Len(p)) <=> Alike(p, 0, p, Len(p) - n, n)
  <2>1. PICK k \in Nat : k = Len(p) - n /\ k + n = Len(p)
    BY <1>1
  <2>2. SubSeq(p, 0 + 1, 0 + n) = SubSeq(p, k + 1, k + n) <=> Alike(p, 0, p, k, n)
    <3>1. n \in Nat /\ 0 \in Nat /\ 0 + n <= Len(p) /\ k + n <= Len(p)
      BY <1>1, <2>1
    <3> QED
      BY <1>1, <3>1, SubSeqAlike
  <2>3. 0 + 1 = 1 /\ 0 + n = n
    OBVIOUS
  <2> QED
    BY <2>1, <2>2, <2>3
<1> QED
  BY <1>2 DEF Border

LEMMA AgainIs ==
  ASSUME NEW C, NEW p \in Word(C), NEW i \in 0 .. Len(p) - 1
  PROVE  /\ Again(p, i) \subseteq 1 .. i
         /\ \A j \in 1 .. i : j \in Again(p, i) <=> /\ Alike(p, j, p, i + 1, Len(p) - 1 - i)
                                                   /\ At(p, i) # At(p, j - 1)
<1>1. p \in Seq(C) /\ Len(p) \in Nat /\ Len(p) > 0
  BY WordIs
<1>2. ASSUME NEW j \in 1 .. i
      PROVE  Occurs(SubSeq(p, j + 1, j + Len(p) - 1 - i), SubSeq(p, i + 2, Len(p)), 0)
               <=> Alike(p, j, p, i + 1, Len(p) - 1 - i)
  <2>1. PICK n : n = Len(p) - 1 - i
    OBVIOUS
  <2>9. n \in Nat /\ j + Len(p) - 1 - i = j + n /\ (i + 1) + n = Len(p) /\ (i + 1) + 1 = i + 2
    BY <1>1, <2>1
  <2>2. PICK u : u = SubSeq(p, j + 1, j + n)
    OBVIOUS
  <2>3. PICK v : v = SubSeq(p, (i + 1) + 1, (i + 1) + n)
    OBVIOUS
  <2>4. j \in Nat /\ i + 1 \in Nat /\ j + n <= Len(p) /\ (i + 1) + n <= Len(p)
    BY <1>1, <2>1, <2>9
  <2>5. u \in Seq(C) /\ Len(u) = n
    BY <1>1, <2>2, <2>4, <2>9, SubSeqIs
  <2>6. v \in Seq(C) /\ Len(v) = n
    BY <1>1, <2>3, <2>4, <2>9, SubSeqIs
  <2>7. u = v <=> Alike(p, j, p, i + 1, n)
    <3>1. SubSeq(p, j + 1, j + n) = SubSeq(p, (i + 1) + 1, (i + 1) + n) <=> Alike(p, j, p, i + 1, n)
      BY <1>1, <2>4, <2>9, SubSeqAlike
    <3> QED
      BY <2>2, <2>3, <3>1
  <2>8. Occurs(u, v, 0) <=> u = v
    <3>1. SubSeq(u, 0 + 1, 0 + n) = u
      BY <2>5, WholeIs
    <3>2. 0 >= 0 /\ 0 + n <= n
      BY <2>9
    <3> QED
      BY <2>5, <2>6, <3>1, <3>2 DEF Occurs
  <2> QED
    BY <2>1, <2>2, <2>3, <2>7, <2>8, <2>9
<1> QED
  BY <1>2 DEF Again

LEMMA OneOnly ==
  ASSUME NEW S, IsFiniteSet(S), Cardinality(S) <= 1, NEW a \in S, NEW b \in S
  PROVE  a = b
<1> SUFFICES ASSUME a # b PROVE FALSE
  OBVIOUS
<1>1. IsFiniteSet({a}) /\ Cardinality({a}) = 1
  BY FS_Singleton
<1>2. Cardinality({a} \union {b}) = 1 + 1
  BY <1>1, FS_AddElement
<1>3. {a} \union {b} \in SUBSET S
  OBVIOUS
<1>4. Cardinality({a} \union {b}) <= Cardinality(S)
  BY <1>3, FS_Subset
<1>5. Cardinality(S) \in Nat
  BY FS_CardinalityType
<1> QED
  BY <1>2, <1>4, <1>5

LEMMA GoodSIs ==
  ASSUME NEW C, NEW p \in Word(C), NEW i \in 0 .. Len(p) - 1, NEW n, n = Len(p) - 1 - i
  PROVE  /\ GoodS(p, i) \in n + 1 .. n + Len(p)
         /\ \A d \in 1 .. i : Alike(p, i + 1 - d, p, i + 1, n) /\ At(p, i - d) # At(p, i) => GoodS(p, i) <= n + d
         /\ Cardinality(Border(p)) <= 1 =>
              \A d \in i + 1 .. Len(p) - 1 : Alike(p, 0, p, d, Len(p) - d) => GoodS(p, i) <= n + d
<1> DEFINE T == Again(p, i)
           x == CHOOSE j \in T : \A k \in T : k <= j
           B == Border(p)
           c == IF B = {} THEN 0 ELSE CHOOSE b \in B : \A k \in B : k <= b
<1>1. PICK l \in Nat : l = Len(p) /\ l > 0
  BY WordIs
<1>2. n \in Nat /\ i \in Nat /\ n = l - 1 - i
  BY <1>1
<1>3. GoodS(p, i) = IF n = 0 THEN 1 ELSE IF T # {} THEN l - x ELSE n + l - (IF c # 0 /\ n >= c THEN c ELSE 0)
  BY <1>1, <1>2 DEF GoodS
<1>4. T \subseteq 1 .. i /\ \A j \in 1 .. i : j \in T <=> Alike(p, j, p, i + 1, n) /\ At(p, i) # At(p, j - 1)
  BY <1>1, <1>2, AgainIs
<1>5. T # {} => x \in T /\ \A k \in T : k <= x
  <2> SUFFICES ASSUME T # {} PROVE \E j \in T : \A k \in T : k <= j
    OBVIOUS
  <2>1. T \in SUBSET (0 .. l)
    BY <1>1, <1>2, <1>4
  <2> HIDE DEF T
  <2>2. \E y : IsGreatest(y, T)
    BY <1>1, <2>1, GreatestExists
  <2> QED
    BY <2>2 DEF IsGreatest
<1>6. /\ B \subseteq 1 .. l - 1
      /\ \A b \in 1 .. l - 1 : b \in B <=> Alike(p, 0, p, l - b, b)
  BY <1>1, BorderIs
<1>7. B # {} => c \in B
  <2> SUFFICES ASSUME B # {} PROVE \E b \in B : \A k \in B : k <= b
    OBVIOUS
  <2>1. B \in SUBSET (0 .. l)
    BY <1>1, <1>2, <1>6
  <2> HIDE DEF B
  <2>2. \E y : IsGreatest(y, B)
    BY <1>1, <2>1, GreatestExists
  <2> QED
    BY <2>2 DEF IsGreatest
<1>8. B = {} => c = 0
  OBVIOUS
<1> HIDE DEF T, x, B, c
<1>9. c \in 0 .. l - 1
  <2>1. B \subseteq 1 .. l - 1
    BY <1>6
  <2>2. CASE B = {}
    BY <1>1, <1>8, <2>2
  <2>3. CASE B # {}
    <3>1. c \in 1 .. l - 1
      BY <1>7, <2>1, <2>3
    <3> QED
      BY <1>1, <3>1
  <2> QED
    BY <2>2, <2>3
<1>10. T # {} => x \in 1 .. i
  BY <1>4, <1>5
<1>11. GoodS(p, i) \in n + 1 .. n + l
  BY <1>1, <1>2, <1>3, <1>9, <1>10
<1>12. ASSUME NEW d \in 1 .. i, Alike(p, i + 1 - d, p, i + 1, n), At(p, i - d) # At(p, i)
       PROVE  GoodS(p, i) <= n + d
  <2>1. i + 1 - d \in 1 .. i /\ (i + 1 - d) - 1 = i - d
    BY <1>2
  <2>2. i + 1 - d \in T
    BY <1>4, <1>12, <2>1
  <2>3. x >= i + 1 - d /\ x \in 1 .. i /\ T # {}
    BY <1>4, <1>5, <2>2
  <2> QED
    BY <1>1, <1>2, <1>3, <2>1, <2>3
<1>13. ASSUME Cardinality(B) <= 1, NEW d \in i + 1 .. l - 1, Alike(p, 0, p, d, l - d)
       PROVE  GoodS(p, i) <= n + d
  <2>1. l - d \in 1 .. l - 1 /\ l - (l - d) = d
    BY <1>1, <1>2
  <2>2. l - d \in B
    BY <1>6, <1>13, <2>1
  <2>3. c = l - d
    <3>1. IsFiniteSet(1 .. l - 1)
      BY <1>1, FS_Interval
    <3>2. IsFiniteSet(B)
      BY <1>6, <3>1, FS_Subset
    <3>3. c \in B
      BY <1>7, <2>2
    <3> QED
      BY <1>13, <2>2, <3>2, <3>3, OneOnly
  <2>4. d \in Nat /\ d > i /\ d < l /\ n + d >= l
    BY <1>1, <1>2
  <2>5. CASE T # {}
    BY <1>1, <1>2, <1>3, <1>10, <2>4, <2>5
  <2>6. CASE T = {}
    <3>1. c # 0 /\ n >= c /\ c \in Int
      BY <1>1, <1>2, <2>1, <2>3, <2>4
    <3>2. GoodS(p, i) = IF n = 0 THEN 1 ELSE n + l - c
      BY <1>3, <2>6, <3>1
    <3> QED
      BY <1>1, <1>2, <2>1, <2>3, <2>4, <3>2
  <2> QED
    BY <2>5, <2>6
<1> QED
  BY <1>1, <1>11, <1>12, <1>13 DEF B

LEMMA AgreeIs ==
  ASSUME NEW C, NEW p \in Word(C), NEW s, NEW j \in Nat
  PROVE  /\ Agree(s, p, j) \in 0 .. Len(p)
         /\ \A k \in 0 .. Agree(s, p, j) - 1 : At(s, j - k) = At(p, Len(p) - 1 - k)
         /\ Agree(s, p, j) < Len(p) => At(s, j - Agree(s, p, j)) # At(p, Len(p) - 1 - Agree(s, p, j))
<1>1. PICK l \in Nat : l = Len(p)
  BY WordIs
<1> DEFINE Differ(n) == n = l \/ At(s, j - n) # At(p, l - 1 - n)
           T == {n \in 0 .. l : Differ(n)}
           Good(n) == /\ \A k \in 0 .. n - 1 : At(s, j - k) = At(p, l - 1 - k)
                      /\ n < l => At(s, j - n) # At(p, l - 1 - n)
<1>2. l \in T /\ T \subseteq Nat
  BY <1>1
<1>3. PICK n \in T : \A k \in T : n <= k
  <2> HIDE DEF T
  <2> QED
    BY <1>2, LeastNumber
<1>4. \A k \in 0 .. n - 1 : k \in 0 .. l /\ k \notin T
  BY <1>1, <1>3
<1>5. Good(n) /\ n \in 0 .. l
  BY <1>1, <1>3, <1>4
<1>6. Agree(s, p, j) = CHOOSE m \in 0 .. l : Good(m)
  BY <1>1 DEF Agree
<1>7. Good(Agree(s, p, j)) /\ Agree(s, p, j) \in 0 .. l
  <2> HIDE DEF Good
  <2> QED
    BY <1>5, <1>6
<1> QED
  BY <1>1, <1>7

(* A jump goes on, and never over a match.                                 *)
LEMMA JumpIs ==
  ASSUME NEW C, NEW p \in Word(C), NEW s, NEW j \in Nat, NEW n \in 0 .. Len(p) - 1,
         \A k \in 0 .. n - 1 : At(s, j - k) = At(p, Len(p) - 1 - k),
         At(s, j - n) # At(p, Len(p) - 1 - n),
         NEW to, to = j - n + Shift(p, Len(p) - 1 - n, At(s, j - n))
  PROVE  /\ to \in Nat /\ to > j
         /\ Cardinality(Border(p)) <= 1 =>
              \A q \in Nat : Alike(s, q, p, 0, Len(p)) /\ q + Len(p) - 1 > j => to <= q + Len(p) - 1
<1>1. PICK l \in Nat : l = Len(p) /\ l > 0
  BY WordIs
<1>2. PICK i \in 0 .. l - 1 : i = l - 1 - n
  BY <1>1
<1>3. n = l - 1 - i /\ n \in 0 .. l - 1
  BY <1>1, <1>2
<1>4. PICK c : c = At(s, j - n)
  OBVIOUS
<1>5. PICK g : g = GoodS(p, i)
  OBVIOUS
<1>6. PICK b : b = BadC(p, c)
  OBVIOUS
<1>7. to = j - n + (IF g > b THEN g ELSE b)
  BY <1>1, <1>2, <1>4, <1>5, <1>6 DEF Shift
<1>8. g \in n + 1 .. n + l
  BY <1>1, <1>3, <1>5, GoodSIs
<1>9. b \in 0 .. l
  BY <1>1, <1>6, BadCIs
<1>10. to \in Nat /\ to > j
  BY <1>1, <1>3, <1>7, <1>8, <1>9
<1>11. ASSUME Cardinality(Border(p)) <= 1, NEW q \in Nat, Alike(s, q, p, 0, l), q + l - 1 > j
       PROVE  to <= q + l - 1
  <2>0. PICK d : d = q + l - 1 - j
    OBVIOUS
  <2>1. d \in Nat /\ d = q + l - 1 - j /\ d >= 1
    BY <1>1, <1>11, <2>0
  <2>2. \A k \in 0 .. l - 1 : At(s, q + k) = At(p, k)
    <3> SUFFICES ASSUME NEW k \in 0 .. l - 1 PROVE At(s, q + k) = At(p, 0 + k)
      OBVIOUS
    <3> QED
      BY <1>11 DEF Alike
  <2>3. \A k \in 0 .. n - 1 : At(s, j - k) = At(p, l - 1 - k)
    BY <1>1
  <2>4. b <= n + d
    <3>1. CASE d <= i
      <4>1. i - d \in 0 .. l - 1 /\ q + (i - d) = j - n /\ l - 1 - (i - d) = n + d
        BY <1>1, <1>2, <1>3, <2>1, <3>1
      <4>2. At(p, i - d) = c
        BY <1>4, <2>2, <4>1
      <4>3. b <= l - 1 - (i - d)
        BY <1>1, <1>6, <4>1, <4>2, BadCIs
      <4> QED
        BY <4>1, <4>3
    <3>2. CASE d > i
      BY <1>1, <1>2, <1>3, <1>9, <2>1, <3>2
    <3> QED
      BY <1>2, <2>1, <3>1, <3>2
  <2>5. g <= n + d
    <3>1. CASE d <= i
      <4>1. d \in 1 .. i /\ q + (i - d) = j - n /\ i - d \in 0 .. l - 1 /\ i = l - 1 - n
        BY <1>1, <1>2, <1>3, <2>1, <3>1
      <4>2. At(p, i - d) # At(p, i)
        <5>1. At(p, i - d) = At(s, j - n)
          BY <2>2, <4>1
        <5>2. At(s, j - n) # At(p, i)
          BY <1>1, <4>1
        <5> QED
          BY <5>1, <5>2
      <4>3. Alike(p, i + 1 - d, p, i + 1, n)
        <5> SUFFICES ASSUME NEW m \in 0 .. n - 1 PROVE At(p, (i + 1 - d) + m) = At(p, (i + 1) + m)
          BY DEF Alike
        <5>1. (i + 1 - d) + m \in 0 .. l - 1 /\ q + ((i + 1 - d) + m) = j - (n - 1 - m)
          BY <1>1, <1>2, <1>3, <2>1, <3>1
        <5>2. n - 1 - m \in 0 .. n - 1 /\ l - 1 - (n - 1 - m) = (i + 1) + m
          BY <1>1, <1>2, <1>3
        <5>3. At(s, j - (n - 1 - m)) = At(p, (i + 1 - d) + m)
          BY <2>2, <5>1
        <5>4. At(s, j - (n - 1 - m)) = At(p, (i + 1) + m)
          BY <2>3, <5>2
        <5> QED
          BY <5>3, <5>4
      <4> QED
        BY <1>1, <1>3, <1>5, <4>1, <4>2, <4>3, GoodSIs
    <3>2. CASE d \in i + 1 .. l - 1
      <4>1. Alike(p, 0, p, d, l - d)
        <5> SUFFICES ASSUME NEW m \in 0 .. (l - d) - 1 PROVE At(p, 0 + m) = At(p, d + m)
          BY DEF Alike
        <5>1. m \in 0 .. l - 1 /\ q + m = j - (l - 1 - d - m) /\ 0 + m = m
          BY <1>1, <1>2, <1>3, <2>1, <3>2
        <5>2. l - 1 - d - m \in 0 .. n - 1 /\ l - 1 - (l - 1 - d - m) = d + m
          BY <1>1, <1>2, <1>3, <2>1, <3>2
        <5>3. At(s, q + m) = At(p, m)
          BY <2>2, <5>1
        <5>4. At(s, j - (l - 1 - d - m)) = At(p, d + m)
          BY <2>3, <5>2
        <5> QED
          BY <5>1, <5>3, <5>4
      <4> QED
        BY <1>1, <1>3, <1>5, <1>11, <3>2, <4>1, GoodSIs
    <3>3. CASE d >= l
      BY <1>1, <1>3, <1>8, <2>1, <3>3
    <3> QED
      BY <1>1, <1>2, <2>1, <3>1, <3>2, <3>3
  <2>6. to = j - n + g \/ to = j - n + b
    BY <1>7
  <2>7. g \in Int /\ b \in Int
    BY <1>1, <1>3, <1>8, <1>9
  <2> QED
    BY <1>1, <1>3, <2>1, <2>4, <2>5, <2>6, <2>7
<1> QED
  BY <1>1, <1>10, <1>11

(* BM_Once finds a string only where it is, and a string with at most one  *)
(* border wherever there is one: its jumps pass over no match.             *)
THEOREM BMOnceIs ==
  ASSUME NEW C, NEW p \in Word(C), NEW s \in Seq(C)
  PROVE  /\ BMOnce(s, p) >= 0 => \E q \in Nat : Occurs(s, p, q)
         /\ Cardinality(Border(p)) <= 1 => \A q \in Nat : Occurs(s, p, q) => BMOnce(s, p) >= 0
<1> DEFINE n(j)    == Agree(s, p, j)
           to(j)   == j - n(j) + Shift(p, Len(p) - 1 - n(j), At(s, j - n(j)))
           Def(u)  == [j \in Nat |-> IF j >= Len(s) THEN -1
                                     ELSE IF n(j) = Len(p) THEN j - n(j) + 1
                                     ELSE u[to(j)]]
           scan == CHOOSE u : u = Def(u)
           stop    == {j \in Nat : j >= Len(s) \/ n(j) = Len(p)}
           val     == [j \in Nat |-> IF j >= Len(s) THEN -1 ELSE j - n(j) + 1]
           nxt     == [j \in Nat |-> to(j)]
           mu      == [j \in Nat |-> IF j < Len(s) THEN Len(s) - j ELSE 0]
<1>1. PICK l \in Nat : l = Len(p) /\ l > 0
  BY WordIs
<1>2. PICK e \in Nat : e = Len(s)
  OBVIOUS
<1>3. BMOnce(s, p) = scan[l - 1]
  BY <1>1 DEF BMOnce
<1>4. \A j \in Nat : /\ n(j) \in 0 .. l
                     /\ \A k \in 0 .. n(j) - 1 : At(s, j - k) = At(p, l - 1 - k)
                     /\ n(j) < l => At(s, j - n(j)) # At(p, l - 1 - n(j))
  BY <1>1, AgreeIs
<1>5. ASSUME NEW j \in Nat, n(j) < l
      PROVE  /\ to(j) \in Nat /\ to(j) > j
             /\ Cardinality(Border(p)) <= 1 =>
                  \A q \in Nat : Alike(s, q, p, 0, l) /\ q + l - 1 > j => to(j) <= q + l - 1
  <2>1. PICK m : m = n(j)
    OBVIOUS
  <2>2. m \in 0 .. l - 1
    BY <1>1, <1>4, <1>5, <2>1
  <2>3. PICK x : x = to(j)
    OBVIOUS
  <2>4. x = j - m + Shift(p, l - 1 - m, At(s, j - m))
    BY <1>1, <2>1, <2>3
  <2>5. /\ \A k \in 0 .. m - 1 : At(s, j - k) = At(p, l - 1 - k)
        /\ At(s, j - m) # At(p, l - 1 - m)
    BY <1>4, <1>5, <2>1
  <2> HIDE DEF n, to
  <2>6. /\ x \in Nat /\ x > j
        /\ Cardinality(Border(p)) <= 1 =>
             \A q \in Nat : Alike(s, q, p, 0, l) /\ q + l - 1 > j => x <= q + l - 1
    BY <1>1, <2>2, <2>4, <2>5, JumpIs
  <2> QED
    BY <2>3, <2>6
<1> HIDE DEF n, to
<1>6. \A j \in Nat : scan[j] = IF j >= e THEN -1 ELSE IF n(j) = l THEN j - n(j) + 1 ELSE scan[to(j)]
  <2>1. mu \in [Nat -> 0 .. e]
    BY <1>2
  <2>2. \A j \in Nat \ stop : nxt[j] \in Nat /\ mu[nxt[j]] < mu[j]
    <3> SUFFICES ASSUME NEW j \in Nat \ stop PROVE nxt[j] \in Nat /\ mu[nxt[j]] < mu[j]
      OBVIOUS
    <3>1. j \in Nat /\ j < e /\ n(j) # l
      BY <1>1, <1>2
    <3>2. n(j) < l
      BY <1>1, <1>4, <3>1
    <3>3. to(j) \in Nat /\ to(j) > j
      BY <1>5, <3>1, <3>2
    <3>4. nxt[j] = to(j) /\ mu[j] = e - j /\ mu[to(j)] = IF to(j) < e THEN e - to(j) ELSE 0
      BY <1>2, <3>1, <3>3
    <3> HIDE DEF nxt, mu
    <3> QED
      BY <1>2, <3>1, <3>3, <3>4
  <2>3. PICK F : Descends(F, Nat, stop, val, nxt)
    <3> HIDE DEF stop, val, nxt, mu
    <3> QED
      BY <2>1, <2>2, DescentExists
  <2>4. F = [j \in Nat |-> IF j \in stop THEN val[j] ELSE F[nxt[j]]]
    BY <2>3 DEF Descends
  <2>5. F = Def(F)
    <3>1. \A j \in Nat : (IF j \in stop THEN val[j] ELSE F[nxt[j]])
                         = IF j >= Len(s) THEN -1 ELSE IF n(j) = Len(p) THEN j - n(j) + 1 ELSE F[to(j)]
      BY <1>2
    <3> HIDE DEF stop, val, nxt
    <3> QED
      BY <2>4, <3>1
  <2>6. scan = Def(scan)
    <3> HIDE DEF Def
    <3> QED
      BY <2>5
  <2> HIDE DEF scan
  <2>7. \A j \in Nat : scan[j] = Def(scan)[j]
    BY <2>6
  <2> QED
    BY <1>1, <1>2, <2>7
<1> HIDE DEF scan
<1> DEFINE Good(j) == /\ scan[j] = -1 \/ (scan[j] \in Nat /\ Occurs(s, p, scan[j]))
                      /\ Cardinality(Border(p)) <= 1 /\ scan[j] = -1 =>
                           \A q \in Nat : Occurs(s, p, q) => q + l - 1 < j
           P == {k \in Nat : \A j \in Nat : j >= l - 1 /\ e - j <= k => Good(j)}
<1>7. p \in Seq(C)
  BY WordIs
<1>8. \A q \in Int : Occurs(s, p, q) <=> q >= 0 /\ q + l <= e /\ Alike(s, q, p, 0, l)
  BY <1>1, <1>2, <1>7, OccursIs
<1>9. ASSUME NEW j \in Nat, j >= l - 1, j < e /\ n(j) < l => Good(to(j))
      PROVE  Good(j)
  <2>1. CASE j >= e
    <3>1. scan[j] = -1
      BY <1>6, <2>1
    <3>2. ASSUME NEW q \in Nat, Occurs(s, p, q) PROVE q + l - 1 < j
      <4>1. q + l <= e
        BY <1>8, <3>2
      <4> QED
        BY <1>1, <1>2, <2>1, <4>1
    <3> QED
      BY <3>1, <3>2
  <2>2. CASE j < e /\ n(j) = l
    <3>1. scan[j] = j - l + 1
      BY <1>2, <1>6, <2>2
    <3>2. j - l + 1 \in Nat /\ (j - l + 1) + l <= e
      BY <1>1, <1>2, <1>9, <2>2
    <3>3. Alike(s, j - l + 1, p, 0, l)
      <4> SUFFICES ASSUME NEW m \in 0 .. l - 1 PROVE At(s, (j - l + 1) + m) = At(p, 0 + m)
        BY DEF Alike
      <4>1. l - 1 - m \in 0 .. l - 1 /\ j - (l - 1 - m) = (j - l + 1) + m /\ l - 1 - (l - 1 - m) = 0 + m
        BY <1>1
      <4>2. \A k \in 0 .. l - 1 : At(s, j - k) = At(p, l - 1 - k)
        BY <1>4, <2>2
      <4>3. At(s, j - (l - 1 - m)) = At(p, l - 1 - (l - 1 - m))
        BY <4>1, <4>2
      <4> QED
        BY <4>1, <4>3
    <3>4. Occurs(s, p, j - l + 1)
      BY <1>8, <3>2, <3>3
    <3>5. scan[j] \in Nat /\ Occurs(s, p, scan[j]) /\ scan[j] # -1
      BY <3>1, <3>2, <3>4
    <3> QED
      BY <3>5
  <2>3. CASE j < e /\ n(j) # l
    <3>1. n(j) \in 0 .. l /\ n(j) < l
      BY <1>1, <1>4, <2>3
    <3>2. scan[j] = scan[to(j)]
      BY <1>2, <1>6, <2>3
    <3>3. to(j) \in Nat /\ to(j) > j
      BY <1>5, <3>1
    <3>4. Good(to(j))
      BY <1>9, <2>3, <3>1
    <3>5. ASSUME Cardinality(Border(p)) <= 1, scan[j] = -1, NEW q \in Nat, Occurs(s, p, q)
          PROVE  q + l - 1 < j
      <4>1. Alike(s, q, p, 0, l)
        BY <1>8, <3>5
      <4>2. q + l - 1 < to(j)
        BY <3>2, <3>4, <3>5
      <4>3. ~(q + l - 1 > j)
        BY <1>1, <1>5, <3>1, <3>3, <3>5, <4>1, <4>2
      <4>4. q + l - 1 # j
        <5> SUFFICES ASSUME q + l - 1 = j PROVE FALSE
          OBVIOUS
        <5>1. l - 1 - n(j) \in 0 .. l - 1 /\ q + (l - 1 - n(j)) = j - n(j) /\ 0 + (l - 1 - n(j)) = l - 1 - n(j)
          BY <1>1, <3>1
        <5>2. At(s, q + (l - 1 - n(j))) = At(p, 0 + (l - 1 - n(j)))
          BY <4>1, <5>1 DEF Alike
        <5> QED
          BY <1>4, <3>1, <5>1, <5>2
      <4> QED
        BY <1>1, <4>3, <4>4
    <3>6. scan[j] = -1 \/ (scan[j] \in Nat /\ Occurs(s, p, scan[j]))
      BY <3>2, <3>4
    <3> QED
      BY <3>5, <3>6
  <2> QED
    BY <1>2, <2>1, <2>2, <2>3
<1>10. 0 \in P
  <2> SUFFICES ASSUME NEW j \in Nat, j >= l - 1, e - j <= 0 PROVE Good(j)
    OBVIOUS
  <2>1. ~(j < e)
    BY <1>2
  <2> HIDE DEF Good
  <2> QED
    BY <1>9, <2>1
<1>11. ASSUME NEW k \in Nat, k \in P PROVE k + 1 \in P
  <2> SUFFICES ASSUME NEW j \in Nat, j >= l - 1, e - j <= k + 1 PROVE Good(j)
    OBVIOUS
  <2>1. ASSUME j < e, n(j) < l PROVE Good(to(j))
    <3>1. to(j) \in Nat /\ to(j) > j
      BY <1>5, <2>1
    <3>2. to(j) >= l - 1 /\ e - to(j) <= k
      BY <1>1, <1>2, <3>1
    <3> HIDE DEF Good
    <3> QED
      BY <1>11, <3>1, <3>2
  <2> HIDE DEF Good
  <2> QED
    BY <1>9, <2>1
<1>12. Good(l - 1)
  <2>1. Nat \subseteq P
    <3> HIDE DEF P
    <3> QED
      BY <1>10, <1>11, SetInduction
  <2>2. e \in P
    BY <1>2, <2>1
  <2>3. l - 1 \in Nat /\ l - 1 >= l - 1 /\ e - (l - 1) <= e
    BY <1>1, <1>2
  <2> HIDE DEF Good
  <2> QED
    BY <2>2, <2>3
<1>13. PICK x : x = BMOnce(s, p)
  OBVIOUS
<1>14. /\ x = -1 \/ (x \in Nat /\ Occurs(s, p, x))
       /\ Cardinality(Border(p)) <= 1 /\ x = -1 => \A q \in Nat : Occurs(s, p, q) => q + l - 1 < l - 1
  BY <1>3, <1>12, <1>13
<1>15. x >= 0 => \E q \in Nat : Occurs(s, p, q)
  BY <1>14
<1>16. ASSUME Cardinality(Border(p)) <= 1, NEW q \in Nat, Occurs(s, p, q) PROVE x >= 0
  <2>1. ~(q + l - 1 < l - 1)
    BY <1>1
  <2> QED
    BY <1>14, <1>16, <2>1
<1> QED
  BY <1>13, <1>15, <1>16

-----------------------------------------------------------------------------
(***************************************************************************)
(* Knuth-Morris-Pratt: the table                                           *)
(***************************************************************************)
(* The first k characters of p end with the first b                        *)
EndsWith(p, k, b) == Alike(p, 0, p, k - b, b)

(* n is the place to go on from when the character at k does not agree,    *)
(* and j the longest border before i.                                      *)
IsNext(p, k, n) ==
  /\ n \in -1 .. k - 1
  /\ n >= 0 => EndsWith(p, k, n) /\ At(p, n) # At(p, k)
  /\ \A b \in 0 .. k - 1 : EndsWith(p, k, b) /\ At(p, b) # At(p, k) => b <= n

Longest(p, i, j) ==
  /\ j \in -1 .. i - 1
  /\ j >= 0 => EndsWith(p, i, j)
  /\ \A b \in 0 .. i - 1 : EndsWith(p, i, b) => b <= j

LEMMA BorderOfBorder ==
  ASSUME NEW p, NEW i \in Nat, NEW j \in Nat, NEW b \in Nat, EndsWith(p, i, j), b <= j
  PROVE  EndsWith(p, i, b) <=> EndsWith(p, j, b)
<1>1. Alike(p, 0 + (j - b), p, (i - j) + (j - b), b)
  <2>1. Alike(p, 0, p, i - j, j)
    BY DEF EndsWith
  <2>2. j - b \in Nat /\ (j - b) + b <= j /\ i - j \in Int /\ 0 \in Int /\ j \in Int /\ b \in Int
    OBVIOUS
  <2> QED
    BY <2>1, <2>2, AlikePart
<1>2. 0 + (j - b) = j - b /\ (i - j) + (j - b) = i - b
  OBVIOUS
<1>3. Alike(p, j - b, p, i - b, b) /\ Alike(p, i - b, p, j - b, b)
  BY <1>1, <1>2, AlikeTurned
<1> QED
  BY <1>3, AlikeChained DEF EndsWith

LEMMA NextReaches ==
  ASSUME NEW p, NEW s, NEW i \in Int, NEW j \in Nat, NEW n, Alike(s, i - j, p, 0, j),
         At(s, i) # At(p, j), IsNext(p, j, n)
  PROVE  /\ n >= 0 => Alike(s, i - n, p, 0, n)
         /\ \A b \in 0 .. j - 1 : Alike(s, i - b, p, 0, b) /\ At(s, i) = At(p, b) => b <= n
<1>1. ASSUME NEW b \in Nat, b <= j PROVE Alike(s, i - b, p, j - b, b)
  <2>1. Alike(s, (i - j) + (j - b), p, 0 + (j - b), b)
    BY <1>1, AlikePart
  <2>2. 0 + (j - b) = j - b /\ (i - j) + (j - b) = i - b
    BY <1>1
  <2> QED
    BY <2>1, <2>2
<1>2. ASSUME n >= 0 PROVE Alike(s, i - n, p, 0, n)
  <2>1. n \in Nat /\ n <= j
    BY <1>2 DEF IsNext
  <2>2. Alike(s, i - n, p, j - n, n)
    BY <1>1, <2>1
  <2>3. Alike(p, j - n, p, 0, n)
    BY <1>2, AlikeTurned DEF IsNext, EndsWith
  <2> QED
    BY <2>2, <2>3, AlikeChained
<1>3. ASSUME NEW b \in 0 .. j - 1, Alike(s, i - b, p, 0, b), At(s, i) = At(p, b) PROVE b <= n
  <2>1. b \in Nat /\ b <= j
    OBVIOUS
  <2>2. Alike(s, i - b, p, j - b, b)
    BY <1>1, <2>1
  <2>3. Alike(p, 0, s, i - b, b)
    BY <1>3, AlikeTurned
  <2>4. EndsWith(p, j, b)
    BY <2>2, <2>3, AlikeChained DEF EndsWith
  <2> QED
    BY <1>3, <2>4 DEF IsNext
<1> QED
  BY <1>2, <1>3

(* The loop that looks for the longest border before i                     *)
LEMMA BackIs ==
  ASSUME NEW p, NEW i \in Nat, i > 0, NEW next, \A k \in 0 .. i - 1 : IsNext(p, k, next[k]),
         NEW back, \A j \in -1 .. i - 1 : back[j] = IF j = -1 \/ At(p, i - 1) = At(p, j) THEN j + 1 ELSE back[next[j]],
         NEW j0, Longest(p, i - 1, j0)
  PROVE  Longest(p, i, back[j0]) /\ back[j0] \in 0 .. i - 1
<1> DEFINE Here(j) == j >= 0 => Alike(p, (i - 1) - j, p, 0, j)
           Good(j) == /\ back[j] \in 0 .. i - 1
                      /\ Alike(p, i - back[j], p, 0, back[j])
                      /\ \A b \in 0 .. i - 1 : Alike(p, i - b, p, 0, b) /\ b <= j + 1 => b <= back[j]
           P == {k \in Nat : \A j \in -1 .. i - 2 : j + 1 <= k /\ Here(j) => Good(j)}
<1>1. ASSUME NEW j \in -1 .. i - 2, Here(j),
             j # -1 => next[j] \in -1 .. j - 1 /\ (Here(next[j]) => Good(next[j]))
      PROVE  Good(j)
  <2>1. CASE j = -1
    <3>1. back[j] = 0
      BY <2>1
    <3>2. Alike(p, i - 0, p, 0, 0)
      BY DEF Alike
    <3> QED
      BY <2>1, <3>1, <3>2
  <2>2. CASE j # -1 /\ At(p, i - 1) = At(p, j)
    <3>1. back[j] = j + 1 /\ j \in Nat
      BY <2>2
    <3>2. ((i - 1) - j) + j = i - 1 /\ 0 + j = j /\ i - (j + 1) = (i - 1) - j /\ (i - 1) - j \in Int
      BY <3>1
    <3>3. Alike(p, (i - 1) - j, p, 0, j + 1)
      BY <1>1, <2>2, <3>1, <3>2, AlikeLonger
    <3> QED
      BY <3>1, <3>2, <3>3
  <2>3. CASE j # -1 /\ At(p, i - 1) # At(p, j)
    <3>1. PICK n : n = next[j]
      OBVIOUS
    <3>2. j \in Nat /\ j \in 0 .. i - 1 /\ back[j] = back[n]
      BY <2>3, <3>1
    <3>3. IsNext(p, j, n)
      BY <3>1, <3>2
    <3>4. n \in -1 .. j - 1
      BY <1>1, <2>3, <3>1
    <3>5. Here(n) /\ \A b \in 0 .. j - 1 : Alike(p, (i - 1) - b, p, 0, b) /\ At(p, i - 1) = At(p, b) => b <= n
      <4>1. Alike(p, (i - 1) - j, p, 0, j) /\ i - 1 \in Int
        BY <1>1, <3>2
      <4> QED
        BY <2>3, <3>2, <3>3, <4>1, NextReaches
    <3>6. Good(n)
      BY <1>1, <2>3, <3>1, <3>5
    <3>7. ASSUME NEW b \in 0 .. i - 1, Alike(p, i - b, p, 0, b), b <= j + 1, b > n + 1 PROVE FALSE
      <4>1. b - 1 \in 0 .. j /\ (i - 1) - (b - 1) = i - b /\ i - b \in Int /\ b \in Int /\ (i - b) + 0 = i - b /\ 0 + 0 = 0
        BY <3>2, <3>4, <3>7
      <4>2. Alike(p, (i - b) + 0, p, 0 + 0, b - 1)
        <5>1. 0 \in Nat /\ 0 + (b - 1) <= b /\ b - 1 \in Int /\ 0 \in Int
          BY <4>1
        <5> QED
          BY <3>7, <4>1, <5>1, AlikePart
      <4>3. At(p, (i - b) + (b - 1)) = At(p, 0 + (b - 1))
        BY <3>7, <4>1 DEF Alike
      <4>4. At(p, i - 1) = At(p, b - 1)
        <5>1. (i - b) + (b - 1) = i - 1 /\ 0 + (b - 1) = b - 1
          BY <4>1
        <5> QED
          BY <4>3, <5>1
      <4>5. b - 1 # j
        BY <2>3, <4>4
      <4>6. b - 1 <= n
        BY <3>2, <3>5, <4>1, <4>2, <4>4, <4>5
      <4> QED
        BY <3>4, <3>7, <4>1, <4>6
    <3>8. \A b \in 0 .. i - 1 : Alike(p, i - b, p, 0, b) /\ b <= j + 1 => b <= n + 1
      BY <3>4, <3>7
    <3> QED
      BY <3>2, <3>6, <3>8
  <2> QED
    BY <2>1, <2>2, <2>3
<1>2. 0 \in P
  <2> SUFFICES ASSUME NEW j \in -1 .. i - 2, j + 1 <= 0, Here(j) PROVE Good(j)
    OBVIOUS
  <2>1. j = -1
    OBVIOUS
  <2> HIDE DEF Good, Here
  <2> QED
    BY <1>1, <2>1
<1>3. ASSUME NEW k \in Nat, k \in P PROVE k + 1 \in P
  <2> SUFFICES ASSUME NEW j \in -1 .. i - 2, j + 1 <= k + 1, Here(j) PROVE Good(j)
    OBVIOUS
  <2>1. ASSUME j # -1 PROVE next[j] \in -1 .. j - 1 /\ (Here(next[j]) => Good(next[j]))
    <3>1. j \in 0 .. i - 1
      BY <2>1
    <3>2. next[j] \in -1 .. j - 1
      BY <3>1 DEF IsNext
    <3>3. next[j] \in -1 .. i - 2 /\ next[j] + 1 <= k
      BY <3>1, <3>2
    <3> HIDE DEF Good, Here
    <3> QED
      BY <1>3, <3>2, <3>3
  <2> HIDE DEF Good, Here
  <2> QED
    BY <1>1, <2>1
<1>4. Good(j0) /\ j0 \in -1 .. i - 2
  <2>1. Nat \subseteq P
    <3> HIDE DEF P
    <3> QED
      BY <1>2, <1>3, SetInduction
  <2>2. i \in P
    BY <2>1
  <2>3. j0 \in -1 .. i - 2 /\ j0 + 1 <= i
    BY DEF Longest
  <2>4. Here(j0)
    BY AlikeTurned DEF Longest, EndsWith
  <2> HIDE DEF Good, Here
  <2> QED
    BY <2>2, <2>3, <2>4
<1>5. PICK r : r = back[j0]
  OBVIOUS
<1>6. EndsWith(p, i, r)
  BY <1>4, <1>5, AlikeTurned DEF EndsWith
<1>7. ASSUME NEW b \in 0 .. i - 1, EndsWith(p, i, b) PROVE b <= r
  <2>1. Alike(p, i - b, p, 0, b)
    BY <1>7, AlikeTurned DEF EndsWith
  <2>2. b <= j0 + 1
    <3> SUFFICES ASSUME b > 0 PROVE b - 1 <= j0
      BY <1>4
    <3>1. b - 1 \in 0 .. (i - 1) - 1 /\ (i - 1) - (b - 1) = i - b /\ b \in Int /\ i - b \in Int /\ (i - b) + 0 = i - b /\ 0 + 0 = 0
      OBVIOUS
    <3>2. Alike(p, 0 + 0, p, (i - b) + 0, b - 1)
      BY <1>7, <3>1, AlikePart DEF EndsWith
    <3> QED
      BY <3>1, <3>2 DEF Longest, EndsWith
  <2> QED
    BY <1>4, <1>5, <2>1, <2>2
<1> QED
  BY <1>4, <1>5, <1>6, <1>7 DEF Longest

LEMMA StepIs ==
  ASSUME NEW p, NEW i \in Nat, i > 0, NEW t, Longest(p, i - 1, t.j), \A k \in 0 .. i - 1 : IsNext(p, k, t.next[k])
  PROVE  /\ Longest(p, i, TableStep(p, i, t).j)
         /\ \A k \in 0 .. i : IsNext(p, k, TableStep(p, i, t).next[k])
<1> DEFINE D      == -1 .. i - 1
           Def(u) == [j \in D |-> IF j = -1 \/ At(p, i - 1) = At(p, j) THEN j + 1 ELSE u[t.next[j]]]
           back   == CHOOSE u : u = Def(u)
           j      == back[t.j]
           n      == IF At(p, i) # At(p, j) THEN j ELSE t.next[j]
           stop   == {d \in D : d = -1 \/ At(p, i - 1) = At(p, d)}
           val    == [d \in D |-> d + 1]
           nxt    == [d \in D |-> t.next[d]]
           mu     == [d \in D |-> d + 1]
<1>1. TableStep(p, i, t) = [j |-> j, next |-> [k \in 0 .. i |-> IF k < i THEN t.next[k] ELSE n]]
  BY DEF TableStep
<1>2. TableStep(p, i, t).j = j /\ TableStep(p, i, t).next = [k \in 0 .. i |-> IF k < i THEN t.next[k] ELSE n]
  <2> HIDE DEF j, n
  <2> QED
    BY <1>1
<1>3. \A d \in D : back[d] = IF d = -1 \/ At(p, i - 1) = At(p, d) THEN d + 1 ELSE back[t.next[d]]
  <2>1. mu \in [D -> 0 .. i]
    OBVIOUS
  <2>2. ASSUME NEW d \in D \ stop PROVE nxt[d] \in D /\ mu[nxt[d]] < mu[d]
    <3>1. d \in 0 .. i - 1
      OBVIOUS
    <3>2. t.next[d] \in -1 .. d - 1
      BY <3>1 DEF IsNext
    <3>3. nxt[d] = t.next[d] /\ t.next[d] \in D /\ mu[d] = d + 1
      BY <3>1, <3>2
    <3>4. mu[t.next[d]] = t.next[d] + 1
      BY <3>3
    <3> QED
      BY <3>1, <3>2, <3>3, <3>4
  <2>3. PICK F : Descends(F, D, stop, val, nxt)
    <3> HIDE DEF D, stop, val, nxt, mu
    <3> QED
      BY <2>1, <2>2, DescentExists
  <2>4. F = [d \in D |-> IF d \in stop THEN val[d] ELSE F[nxt[d]]]
    BY <2>3 DEF Descends
  <2>5. F = Def(F)
    <3>1. \A d \in D : (IF d \in stop THEN val[d] ELSE F[nxt[d]])
                         = IF d = -1 \/ At(p, i - 1) = At(p, d) THEN d + 1 ELSE F[t.next[d]]
      OBVIOUS
    <3> HIDE DEF D, stop, val, nxt
    <3> QED
      BY <2>4, <3>1
  <2>6. back = Def(back)
    <3> HIDE DEF Def
    <3> QED
      BY <2>5
  <2> HIDE DEF back
  <2>7. \A d \in D : back[d] = Def(back)[d]
    BY <2>6
  <2> QED
    BY <2>7
<1>4. Longest(p, i, j) /\ j \in 0 .. i - 1
  <2> HIDE DEF back
  <2> QED
    BY <1>3, BackIs
<1> HIDE DEF j
<1>5. IsNext(p, i, n)
  <2>1. CASE At(p, i) # At(p, j)
    <3>1. n = j
      BY <2>1
    <3> QED
      BY <1>4, <2>1, <3>1 DEF IsNext, Longest
  <2>2. CASE At(p, i) = At(p, j)
    <3>1. n = t.next[j] /\ IsNext(p, j, n)
      BY <1>4, <2>2
    <3> HIDE DEF n
    <3>2. n \in -1 .. j - 1 /\ EndsWith(p, i, j) /\ j \in Nat
      BY <1>4, <3>1 DEF IsNext, Longest
    <3>3. n >= 0 => EndsWith(p, i, n) /\ At(p, n) # At(p, i)
      BY <2>2, <3>1, <3>2, BorderOfBorder DEF IsNext
    <3>4. ASSUME NEW b \in 0 .. i - 1, EndsWith(p, i, b), At(p, b) # At(p, i) PROVE b <= n
      <4>1. b <= j /\ b # j /\ b \in Nat
        BY <1>4, <2>2, <3>4 DEF Longest
      <4>2. EndsWith(p, j, b) /\ b \in 0 .. j - 1
        BY <3>2, <3>4, <4>1, BorderOfBorder
      <4> QED
        BY <2>2, <3>1, <3>4, <4>2 DEF IsNext
    <3> QED
      BY <1>4, <3>2, <3>3, <3>4 DEF IsNext
  <2> QED
    BY <2>1, <2>2
<1> HIDE DEF n
<1> QED
  BY <1>2, <1>4, <1>5

LEMMA TableIs ==
  ASSUME NEW C, NEW p \in Word(C)
  PROVE  \A k \in 0 .. Len(p) - 1 : IsNext(p, k, Table(p)[k])
<1>1. PICK l \in Nat : l = Len(p) /\ l > 0
  BY WordIs
<1> DEFINE first    == [j |-> -1, next |-> [k \in {0} |-> -1]]
           Is(u, k) == u = [i \in 0 .. k |-> IF i = 0 THEN first ELSE TableStep(p, i, u[i - 1])]
           T        == CHOOSE u : Is(u, l - 1)
           P        == {k \in Nat : \E u : Is(u, k)}
           Good(t, i) == Longest(p, i, t.j) /\ \A k \in 0 .. i : IsNext(p, k, t.next[k])
           Q        == {k \in Nat : k <= l - 1 => Good(T[k], k)}
<1>2. Table(p) = T[l - 1].next
  BY <1>1 DEF Table
<1>3. 0 \in P
  <2>1. Is([i \in 0 .. 0 |-> first], 0)
    <3> HIDE DEF first
    <3> QED
      OBVIOUS
  <2> QED
    BY <2>1
<1>4. ASSUME NEW k \in Nat, k \in P PROVE k + 1 \in P
  <2>1. PICK u : Is(u, k)
    BY <1>4
  <2> DEFINE w == [i \in 0 .. k + 1 |-> IF i <= k THEN u[i] ELSE TableStep(p, k + 1, u[k])]
  <2> HIDE DEF first
  <2>2. \A i \in 0 .. k : u[i] = IF i = 0 THEN first ELSE TableStep(p, i, u[i - 1])
    BY <2>1
  <2>3. ASSUME NEW i \in 0 .. k + 1 PROVE w[i] = IF i = 0 THEN first ELSE TableStep(p, i, w[i - 1])
    <3>1. CASE i = 0
      BY <2>2, <3>1
    <3>2. CASE i \in 1 .. k
      <4>1. w[i] = u[i] /\ w[i - 1] = u[i - 1]
        BY <3>2
      <4> QED
        BY <2>2, <3>2, <4>1
    <3>3. CASE i = k + 1
      <4>1. w[i] = TableStep(p, k + 1, u[k]) /\ w[i - 1] = u[k]
        BY <3>3
      <4> QED
        BY <3>3, <4>1
    <3> QED
      BY <3>1, <3>2, <3>3
  <2>4. w = [i \in 0 .. k + 1 |-> w[i]]
    OBVIOUS
  <2> HIDE DEF w
  <2>5. Is(w, k + 1)
    BY <2>3, <2>4
  <2> QED
    BY <2>5
<1>5. Is(T, l - 1)
  <2>1. Nat \subseteq P
    <3> HIDE DEF P
    <3> QED
      BY <1>3, <1>4, SetInduction
  <2>2. l - 1 \in P
    BY <1>1, <2>1
  <2> HIDE DEF Is
  <2> QED
    BY <2>2
<1> HIDE DEF T
<1>6. T[0] = first /\ \A i \in 1 .. l - 1 : T[i] = TableStep(p, i, T[i - 1])
  <2> HIDE DEF first
  <2>1. \A i \in 0 .. l - 1 : T[i] = IF i = 0 THEN first ELSE TableStep(p, i, T[i - 1])
    BY <1>5
  <2> QED
    BY <1>1, <2>1
<1>7. 0 \in Q
  <2>1. T[0].j = -1 /\ T[0].next[0] = -1
    BY <1>6
  <2>2. Longest(p, 0, -1) /\ IsNext(p, 0, -1)
    BY DEF Longest, IsNext
  <2> QED
    BY <2>1, <2>2
<1>8. ASSUME NEW k \in Nat, k \in Q PROVE k + 1 \in Q
  <2> SUFFICES ASSUME k + 1 <= l - 1 PROVE Good(T[k + 1], k + 1)
    OBVIOUS
  <2>1. Good(T[k], k)
    BY <1>1, <1>8
  <2>2. T[k + 1] = TableStep(p, k + 1, T[k])
    <3>1. k + 1 \in 1 .. l - 1 /\ (k + 1) - 1 = k
      BY <1>1
    <3> QED
      BY <1>6, <3>1
  <2>3. k + 1 > 0 /\ k + 1 \in Nat /\ (k + 1) - 1 = k
    OBVIOUS
  <2>4. Good(TableStep(p, k + 1, T[k]), k + 1)
    BY <2>1, <2>3, StepIs
  <2> QED
    BY <2>2, <2>4
<1>9. Good(T[l - 1], l - 1)
  <2>1. Nat \subseteq Q
    <3> HIDE DEF Q
    <3> QED
      BY <1>7, <1>8, SetInduction
  <2>2. l - 1 \in Q
    BY <1>1, <2>1
  <2> QED
    BY <1>1, <2>2
<1> QED
  BY <1>1, <1>2, <1>9

-----------------------------------------------------------------------------
(***************************************************************************)
(* Knuth-Morris-Pratt: the search                                          *)
(***************************************************************************)
Scans(scan, s, p, next) ==
  \A i \in 0 .. Len(s), j \in -1 .. Len(p) :
    scan[<<i, j>>] = IF j = Len(p) THEN i - j
                     ELSE IF i = Len(s) THEN -1
                     ELSE IF j = -1 \/ At(s, i) = At(p, j) THEN scan[<<i + 1, j + 1>>]
                     ELSE scan[<<i, next[j]>>]

LEMMA FirstUnfolds ==
  ASSUME NEW C, NEW p \in Word(C), NEW s \in Seq(C)
  PROVE  \E scan : First(s, p) = scan[<<0, 0>>] /\ Scans(scan, s, p, Table(p))
<1>1. PICK l \in Nat : l = Len(p) /\ l > 0
  BY WordIs
<1>2. PICK e \in Nat : e = Len(s)
  OBVIOUS
<1>3. PICK next : next = Table(p)
  OBVIOUS
<1>4. \A k \in 0 .. l - 1 : IsNext(p, k, next[k])
  BY <1>1, <1>3, TableIs
<1> DEFINE D    == (0 .. e) \X (-1 .. l)
           Def(u) == [d \in D |-> IF d[2] = l THEN d[1] - d[2]
                                  ELSE IF d[1] = e THEN -1
                                  ELSE IF d[2] = -1 \/ At(s, d[1]) = At(p, d[2])
                                  THEN u[<<d[1] + 1, d[2] + 1>>] ELSE u[<<d[1], next[d[2]]>>]]
           scan == CHOOSE u : u = Def(u)
           stop == {d \in D : d[2] = l \/ d[1] = e}
           val  == [d \in D |-> IF d[2] = l THEN d[1] - d[2] ELSE -1]
           nxt  == [d \in D |-> IF d[2] = -1 \/ At(s, d[1]) = At(p, d[2]) THEN <<d[1] + 1, d[2] + 1>>
                                ELSE <<d[1], next[d[2]]>>]
           mu   == [d \in D |-> 2 * (e - d[1]) + (d[2] + 1)]
<1>5. First(s, p) = scan[<<0, 0>>]
  BY <1>1, <1>2, <1>3 DEF First
<1>6. ASSUME NEW d \in D \ stop PROVE nxt[d] \in D /\ mu[nxt[d]] < mu[d]
  <2>1. PICK i \in 0 .. e, j \in -1 .. l : d = <<i, j>>
    OBVIOUS
  <2>2. d[1] = i /\ d[2] = j /\ i \in 0 .. e - 1 /\ j \in -1 .. l - 1
    BY <1>1, <1>2, <2>1
  <2>3. mu[d] = 2 * (e - i) + (j + 1)
    BY <2>1, <2>2
  <2>4. CASE j = -1 \/ At(s, i) = At(p, j)
    <3>1. nxt[d] = <<i + 1, j + 1>> /\ <<i + 1, j + 1>> \in D
      BY <1>1, <1>2, <2>2, <2>4
    <3>2. mu[<<i + 1, j + 1>>] = 2 * (e - (i + 1)) + ((j + 1) + 1)
      BY <3>1
    <3> HIDE DEF nxt, mu
    <3>3. mu[nxt[d]] = 2 * (e - (i + 1)) + ((j + 1) + 1)
      BY <3>1, <3>2
    <3>4. 2 * (e - (i + 1)) + ((j + 1) + 1) < 2 * (e - i) + (j + 1)
      BY <1>1, <1>2, <2>2
    <3>5. mu[nxt[d]] < mu[d]
      BY <2>3, <3>3, <3>4
    <3>6. nxt[d] \in D
      BY <3>1
    <3> QED
      BY <3>5, <3>6
  <2>5. CASE ~(j = -1 \/ At(s, i) = At(p, j))
    <3>1. nxt[d] = <<i, next[j]>> /\ j \in 0 .. l - 1
      BY <1>1, <1>2, <2>2, <2>5
    <3>2. next[j] \in -1 .. j - 1
      BY <1>4, <3>1 DEF IsNext
    <3>3. <<i, next[j]>> \in D
      BY <1>1, <2>2, <3>1, <3>2
    <3>4. mu[<<i, next[j]>>] = 2 * (e - i) + (next[j] + 1)
      BY <3>3
    <3> HIDE DEF nxt, mu
    <3>5. mu[nxt[d]] = 2 * (e - i) + (next[j] + 1)
      BY <3>1, <3>4
    <3> QED
      BY <1>1, <1>2, <2>2, <2>3, <3>1, <3>2, <3>3, <3>5
  <2> QED
    BY <2>4, <2>5
<1>7. mu \in [D -> 0 .. 2 * e + (l + 1)]
  BY <1>1, <1>2
<1>8. PICK F : Descends(F, D, stop, val, nxt)
  <2>1. 2 * e + (l + 1) \in Nat
    BY <1>1, <1>2
  <2> HIDE DEF D, stop, val, nxt, mu
  <2> QED
    BY <1>6, <1>7, <2>1, DescentExists
<1>9. F = Def(F)
  <2>1. F = [d \in D |-> IF d \in stop THEN val[d] ELSE F[nxt[d]]]
    BY <1>8 DEF Descends
  <2>2. ASSUME NEW d \in D
        PROVE  (IF d \in stop THEN val[d] ELSE F[nxt[d]])
                 = IF d[2] = l THEN d[1] - d[2]
                   ELSE IF d[1] = e THEN -1
                   ELSE IF d[2] = -1 \/ At(s, d[1]) = At(p, d[2])
                   THEN F[<<d[1] + 1, d[2] + 1>>] ELSE F[<<d[1], next[d[2]]>>]
    <3>4. d \in stop <=> d[2] = l \/ d[1] = e
      OBVIOUS
    <3>5. val[d] = IF d[2] = l THEN d[1] - d[2] ELSE -1
      OBVIOUS
    <3>6. nxt[d] = IF d[2] = -1 \/ At(s, d[1]) = At(p, d[2]) THEN <<d[1] + 1, d[2] + 1>> ELSE <<d[1], next[d[2]]>>
      OBVIOUS
    <3> HIDE DEF stop, val, nxt, D
    <3> QED
      BY <3>4, <3>5, <3>6
  <2> HIDE DEF D, stop, val, nxt
  <2> QED
    BY <2>1, <2>2
<1>10. scan = Def(scan)
  <2> HIDE DEF Def
  <2> QED
    BY <1>9
<1>11. ASSUME NEW i \in 0 .. e, NEW j \in -1 .. l
       PROVE  scan[<<i, j>>] = IF j = l THEN i - j
                               ELSE IF i = e THEN -1
                               ELSE IF j = -1 \/ At(s, i) = At(p, j) THEN scan[<<i + 1, j + 1>>]
                               ELSE scan[<<i, next[j]>>]
  <2> HIDE DEF scan
  <2>1. PICK d \in D : d = <<i, j>>
    OBVIOUS
  <2>2. d[1] = i /\ d[2] = j
    BY <2>1
  <2>3. scan[d] = Def(scan)[d]
    BY <1>10
  <2> QED
    BY <2>1, <2>2, <2>3
<1> HIDE DEF scan
<1>12. Scans(scan, s, p, next)
  BY <1>1, <1>2, <1>11 DEF Scans
<1> QED
  BY <1>3, <1>5, <1>12

(* The search finds the first match.                                       *)
IsFirst(s, p, at) ==
  \/ at = -1 /\ \A q \in Nat : ~Occurs(s, p, q)
  \/ at \in Nat /\ Occurs(s, p, at) /\ \A q \in Nat : Occurs(s, p, q) => at <= q

(* KMP, with the table that InitKmpNext builds, returns the first place of *)
(* a string, and -1 only if there is none.                                 *)
THEOREM FirstIs ==
  ASSUME NEW C, NEW p \in Word(C), NEW s \in Seq(C)
  PROVE  IsFirst(s, p, First(s, p))
<1>1. PICK l \in Nat : l = Len(p) /\ l > 0
  BY WordIs
<1>2. PICK e \in Nat : e = Len(s)
  OBVIOUS
<1>3. PICK next : next = Table(p)
  OBVIOUS
<1>4. \A k \in 0 .. l - 1 : IsNext(p, k, next[k])
  BY <1>1, <1>3, TableIs
<1>5. PICK scan : First(s, p) = scan[<<0, 0>>] /\ Scans(scan, s, p, next)
  BY <1>3, FirstUnfolds
<1>6. p \in Seq(C)
  BY WordIs
<1>7. \A q \in Int : Occurs(s, p, q) <=> q >= 0 /\ q + l <= e /\ Alike(s, q, p, 0, l)
  BY <1>1, <1>2, <1>6, OccursIs
<1> DEFINE States == (0 .. e) \X (-1 .. l)
           Here(i, j) == /\ j >= 0 => j <= i /\ Alike(s, i - j, p, 0, j)
                         /\ \A q \in Nat : Occurs(s, p, q) => q >= i - j
           P == {k \in Nat : \A i \in 0 .. e, j \in -1 .. l :
                               2 * (e - i) + (j + 1) <= k /\ Here(i, j) => IsFirst(s, p, scan[<<i, j>>])}
<1>8. ASSUME NEW k \in Nat, NEW i \in 0 .. e, NEW j \in -1 .. l, Here(i, j), 2 * (e - i) + (j + 1) <= k,
             \A a \in 0 .. e, b \in -1 .. l :
               2 * (e - a) + (b + 1) < k /\ Here(a, b) => IsFirst(s, p, scan[<<a, b>>])
      PROVE  IsFirst(s, p, scan[<<i, j>>])
  <2>0. scan[<<i, j>>] = IF j = l THEN i - j
                         ELSE IF i = e THEN -1
                         ELSE IF j = -1 \/ At(s, i) = At(p, j) THEN scan[<<i + 1, j + 1>>]
                         ELSE scan[<<i, next[j]>>]
    BY <1>1, <1>2, <1>5 DEF Scans
  <2>1. CASE j = l
    <3>1. scan[<<i, j>>] = i - l
      BY <2>0, <2>1
    <3>2. i - l \in Nat /\ (i - l) + l <= e /\ i - l \in Int
      BY <1>1, <1>2, <1>8, <2>1
    <3>3. Occurs(s, p, i - l)
      BY <1>1, <1>7, <1>8, <2>1, <3>2
    <3>4. \A q \in Nat : Occurs(s, p, q) => i - l <= q
      BY <1>1, <1>8, <2>1, <3>2
    <3> QED
      BY <3>1, <3>2, <3>3, <3>4 DEF IsFirst
  <2>2. CASE j # l /\ i = e
    <3>1. scan[<<i, j>>] = -1
      BY <2>0, <2>2
    <3>2. ASSUME NEW q \in Nat, Occurs(s, p, q) PROVE FALSE
      <4>1. q + l <= e
        BY <1>7, <3>2
      <4>2. q >= i - j
        BY <1>8, <3>2
      <4> QED
        BY <1>1, <1>2, <2>2, <4>1, <4>2
    <3> QED
      BY <3>1, <3>2 DEF IsFirst
  <2>3. CASE j = -1 /\ i # e
    <3>1. scan[<<i, j>>] = scan[<<i + 1, 0>>]
      BY <1>1, <2>0, <2>3
    <3>2. i + 1 \in 0 .. e /\ 0 \in -1 .. l
      BY <1>1, <1>2, <2>3
    <3>3. 2 * (e - (i + 1)) + (0 + 1) < k
      BY <1>2, <1>8, <2>3
    <3>4. Here(i + 1, 0)
      <4>1. Alike(s, (i + 1) - 0, p, 0, 0)
        BY DEF Alike
      <4>2. ASSUME NEW q \in Nat, Occurs(s, p, q) PROVE q >= (i + 1) - 0
        <5>1. q >= i - j
          BY <1>8, <4>2
        <5> QED
          BY <2>3, <5>1
      <4> QED
        BY <3>2, <4>1, <4>2
    <3> HIDE DEF Here
    <3> QED
      BY <1>8, <3>1, <3>2, <3>3, <3>4
  <2>4. CASE j \in 0 .. l - 1 /\ i # e /\ At(s, i) = At(p, j)
    <3>1. scan[<<i, j>>] = scan[<<i + 1, j + 1>>]
      BY <1>1, <2>0, <2>4
    <3>2. i + 1 \in 0 .. e /\ j + 1 \in -1 .. l /\ (i + 1) - (j + 1) = i - j
      BY <1>1, <1>2, <2>4
    <3>3. 2 * (e - (i + 1)) + ((j + 1) + 1) < k
      BY <1>2, <1>8, <2>4
    <3>4. Here(i + 1, j + 1)
      <4>1. j <= i /\ Alike(s, i - j, p, 0, j) /\ j \in Nat
        BY <1>8, <2>4
      <4>2. (i - j) + j = i /\ 0 + j = j /\ i - j \in Int
        BY <2>4
      <4>3. Alike(s, i - j, p, 0, j + 1)
        BY <2>4, <4>1, <4>2, AlikeLonger
      <4> QED
        BY <1>8, <3>2, <4>1, <4>3
    <3> HIDE DEF Here
    <3> QED
      BY <1>8, <3>1, <3>2, <3>3, <3>4
  <2>5. CASE j \in 0 .. l - 1 /\ i # e /\ At(s, i) # At(p, j)
    <3>1. PICK n : n = next[j]
      OBVIOUS
    <3>2. scan[<<i, j>>] = scan[<<i, n>>] /\ IsNext(p, j, n)
      <4>1. j \in 0 .. l - 1 /\ j # l /\ j # -1
        BY <1>1, <2>5
      <4>2. scan[<<i, j>>] = scan[<<i, n>>]
        BY <2>0, <2>5, <3>1, <4>1
      <4>3. IsNext(p, j, n)
        BY <1>4, <3>1, <4>1
      <4> QED
        BY <4>2, <4>3
    <3>3. n \in -1 .. j - 1 /\ n \in -1 .. l
      BY <1>1, <2>5, <3>2 DEF IsNext
    <3>4. 2 * (e - i) + (n + 1) < k
      BY <1>2, <1>8, <2>5, <3>3
    <3>5. j \in Nat /\ j <= i /\ Alike(s, i - j, p, 0, j)
      BY <1>8, <2>5
    <3>6. /\ n >= 0 => Alike(s, i - n, p, 0, n)
          /\ \A b \in 0 .. j - 1 : Alike(s, i - b, p, 0, b) /\ At(s, i) = At(p, b) => b <= n
      BY <2>5, <3>2, <3>5, NextReaches
    <3>7. ASSUME NEW q \in Nat, Occurs(s, p, q), ~(q >= i - n) PROVE FALSE
      <4>1. q >= i - j /\ Alike(s, q, p, 0, l)
        BY <1>7, <1>8, <3>7
      <4>2. PICK b : b = i - q
        OBVIOUS
      <4>3. b \in 0 .. j /\ b > n /\ i - b = q /\ q + b = i /\ 0 + b = b /\ b \in 0 .. l - 1 /\ b \in Int
        BY <1>1, <2>5, <3>3, <3>7, <4>1, <4>2
      <4>4. At(s, q + b) = At(p, 0 + b)
        BY <4>1, <4>3 DEF Alike
      <4>5. b \in 0 .. j - 1
        BY <2>5, <4>3, <4>4
      <4>6. Alike(s, q, p, 0, b)
        <5>1. 0 \in Nat /\ 0 \in Int /\ q \in Int /\ l \in Int /\ 0 + b <= l /\ q + 0 = q /\ 0 + 0 = 0
          BY <1>1, <4>3
        <5>2. Alike(s, q + 0, p, 0 + 0, b)
          BY <4>1, <4>3, <5>1, AlikePart
        <5> QED
          BY <5>1, <5>2
      <4> QED
        BY <3>3, <3>6, <4>3, <4>4, <4>5, <4>6
    <3>8. Here(i, n)
      BY <3>3, <3>5, <3>6, <3>7
    <3> HIDE DEF Here
    <3> QED
      BY <1>8, <3>2, <3>3, <3>4, <3>8
  <2> QED
    BY <1>1, <2>1, <2>2, <2>3, <2>4, <2>5
<1>9. 0 \in P
  <2> SUFFICES ASSUME NEW i \in 0 .. e, NEW j \in -1 .. l, 2 * (e - i) + (j + 1) <= 0, Here(i, j)
               PROVE  IsFirst(s, p, scan[<<i, j>>])
    OBVIOUS
  <2>1. \A a \in 0 .. e, b \in -1 .. l : ~(2 * (e - a) + (b + 1) < 0)
    BY <1>1, <1>2
  <2> HIDE DEF Here
  <2> QED
    BY <1>8, <2>1
<1>10. ASSUME NEW k \in Nat, k \in P PROVE k + 1 \in P
  <2> SUFFICES ASSUME NEW i \in 0 .. e, NEW j \in -1 .. l, 2 * (e - i) + (j + 1) <= k + 1, Here(i, j)
               PROVE  IsFirst(s, p, scan[<<i, j>>])
    OBVIOUS
  <2>1. ASSUME NEW a \in 0 .. e, NEW b \in -1 .. l, 2 * (e - a) + (b + 1) < k + 1, Here(a, b)
        PROVE  IsFirst(s, p, scan[<<a, b>>])
    <3>1. 2 * (e - a) + (b + 1) <= k
      BY <1>1, <1>2, <2>1
    <3> HIDE DEF Here
    <3> QED
      BY <1>10, <2>1, <3>1
  <2>2. k + 1 \in Nat
    OBVIOUS
  <2> HIDE DEF Here, P
  <2> QED
    BY <1>8, <2>1, <2>2
<1>11. Here(0, 0)
  BY DEF Alike
<1>12. IsFirst(s, p, scan[<<0, 0>>])
  <2>1. Nat \subseteq P
    <3> HIDE DEF P
    <3> QED
      BY <1>9, <1>10, SetInduction
  <2>2. 2 * e + 1 \in P
    BY <1>2, <2>1
  <2>3. 0 \in 0 .. e /\ 0 \in -1 .. l /\ 2 * (e - 0) + (0 + 1) <= 2 * e + 1
    BY <1>1, <1>2
  <2> HIDE DEF Here
  <2> QED
    BY <1>11, <2>2, <2>3
<1> QED
  BY <1>5, <1>12

-----------------------------------------------------------------------------
(***************************************************************************)
(* The text of a column of fixed width                                     *)
(***************************************************************************)
Letters == Chars \union {Blank}

LEMMA Products ==
  ASSUME NEW n \in Nat
  PROVE  /\ \A a \in Nat : a * n \in Nat /\ (a + 1) * n = a * n + n
         /\ \A a, b \in Nat : a < b => a * n + n <= b * n
<1>1. \A a \in Nat : a * n \in Nat /\ (a + 1) * n = a * n + n
  OBVIOUS
<1>2. ASSUME NEW a \in Nat, NEW b \in Nat, a < b PROVE a * n + n <= b * n
  <2>1. PICK c : c = b - (a + 1)
    OBVIOUS
  <2>2. c \in Nat /\ b = (a + 1) + c
    BY <1>2, <2>1
  <2>3. b * n = (a + 1) * n + c * n
    BY <2>2
  <2>4. c * n \in Nat /\ (a + 1) * n \in Nat /\ a * n \in Nat
    BY <1>1, <2>2
  <2> QED
    BY <1>1, <2>3, <2>4
<1> QED
  BY <1>1, <1>2

LEMMA ColumnIs ==
  ASSUME column \in Columns
  PROVE  /\ column \in Seq(Seq(Chars)) /\ Len(column) \in Nat /\ Len(column) > 0
         /\ \A r \in Rows : Value(r) \in Seq(Chars) /\ Len(Value(r)) \in 0 .. LineLen
         /\ LineLen \in Nat /\ LineLen > 0
<1>1. column \in Seq(Seq(Chars)) /\ column # <<>> /\ \A r \in DOMAIN column : Len(column[r]) <= LineLen
  BY ColumnAssumption
<1>2. Len(column) \in Nat /\ Len(column) > 0
  BY <1>1
<1>3. LineLen \in Nat /\ LineLen > 0
  BY ColumnAssumption
<1>4. ASSUME NEW r \in Rows PROVE Value(r) \in Seq(Chars) /\ Len(Value(r)) \in 0 .. LineLen
  <2>1. r + 1 \in DOMAIN column
    BY <1>1, <1>2, <1>4 DEF Rows
  <2>2. column[r + 1] \in Seq(Chars) /\ Len(column[r + 1]) <= LineLen
    BY <1>1, <2>1
  <2>3. Len(column[r + 1]) \in Nat
    BY <2>2
  <2> QED
    BY <1>3, <2>2, <2>3 DEF Value
<1> QED
  BY <1>1, <1>2, <1>3, <1>4

LEMMA PadIs ==
  ASSUME NEW v \in Seq(Chars), Len(v) <= LineLen
  PROVE  /\ Pad(v) \in Seq(Letters) /\ Len(Pad(v)) = LineLen
         /\ \A m \in 0 .. LineLen - Len(v) - 1 : At(Pad(v), m) = Blank
         /\ \A m \in 0 .. Len(v) - 1 : At(Pad(v), LineLen - Len(v) + m) = At(v, m)
<1>1. PICK n : n = LineLen - Len(v)
  OBVIOUS
<1>2. n \in Nat /\ LineLen \in Nat /\ Len(v) \in Nat /\ n + Len(v) = LineLen
  BY <1>1, ColumnAssumption
<1>3. PICK b : b = [i \in 1 .. n |-> Blank]
  OBVIOUS
<1>4. b \in Seq(Letters) /\ Len(b) = n
  BY <1>2, <1>3 DEF Letters
<1>5. v \in Seq(Letters)
  BY DEF Letters
<1>6. Pad(v) = b \o v
  BY <1>1, <1>3 DEF Pad
<1>7. /\ b \o v \in Seq(Letters) /\ Len(b \o v) = n + Len(v)
      /\ \A i \in 1 .. n + Len(v) : (b \o v)[i] = IF i <= n THEN b[i] ELSE v[i - n]
  BY <1>4, <1>5, ConcatProperties
<1>8. ASSUME NEW m \in 0 .. n - 1 PROVE At(b \o v, m) = Blank
  <2>1. m + 1 \in 1 .. n /\ m + 1 \in 1 .. n + Len(v)
    BY <1>2
  <2>2. (b \o v)[m + 1] = b[m + 1]
    BY <1>7, <2>1
  <2> QED
    BY <1>3, <2>1, <2>2 DEF At
<1>9. ASSUME NEW m \in 0 .. Len(v) - 1 PROVE At(b \o v, n + m) = At(v, m)
  <2>1. (n + m) + 1 \in 1 .. n + Len(v) /\ ~((n + m) + 1 <= n) /\ ((n + m) + 1) - n = m + 1
    BY <1>2
  <2>2. (b \o v)[(n + m) + 1] = v[m + 1]
    BY <1>7, <2>1
  <2> QED
    BY <2>2 DEF At
<1> QED
  BY <1>1, <1>2, <1>6, <1>7, <1>8, <1>9

LEMMA TextIs ==
  ASSUME column \in Columns
  PROVE  /\ Text \in Seq(Letters) /\ Len(Text) = Len(column) * LineLen
         /\ \A r \in Rows, m \in 0 .. LineLen - 1 : At(Text, r * LineLen + m) = At(Pad(Value(r)), m)
<1>1. PICK N \in Nat : N = Len(column)
  BY ColumnIs
<1>2. PICK n \in Nat : n = LineLen
  BY ColumnIs
<1> DEFINE Is(u, k) == u = [r \in 0 .. k |-> IF r = 0 THEN <<>> ELSE u[r - 1] \o Pad(Value(r - 1))]
           T == CHOOSE u : Is(u, N)
           P == {k \in Nat : \E u : Is(u, k)}
           Good(t, k) == /\ t \in Seq(Letters) /\ Len(t) = k * n
                         /\ \A r \in 0 .. k - 1, m \in 0 .. n - 1 : At(t, r * n + m) = At(Pad(Value(r)), m)
           Q == {k \in Nat : k <= N => Good(T[k], k)}
<1>3. Text = T[N]
  BY <1>1 DEF Text
<1>4. 0 \in P
  <2>1. Is([r \in 0 .. 0 |-> <<>>], 0)
    OBVIOUS
  <2> QED
    BY <2>1
<1>5. ASSUME NEW k \in Nat, k \in P PROVE k + 1 \in P
  <2>1. PICK u : Is(u, k)
    BY <1>5
  <2> DEFINE w == [r \in 0 .. k + 1 |-> IF r <= k THEN u[r] ELSE u[k] \o Pad(Value(k))]
  <2>2. \A r \in 0 .. k : u[r] = IF r = 0 THEN <<>> ELSE u[r - 1] \o Pad(Value(r - 1))
    BY <2>1
  <2>3. ASSUME NEW r \in 0 .. k + 1 PROVE w[r] = IF r = 0 THEN <<>> ELSE w[r - 1] \o Pad(Value(r - 1))
    <3>1. CASE r = 0
      BY <2>2, <3>1
    <3>2. CASE r \in 1 .. k
      <4>1. w[r] = u[r] /\ w[r - 1] = u[r - 1]
        BY <3>2
      <4> QED
        BY <2>2, <3>2, <4>1
    <3>3. CASE r = k + 1
      <4>1. w[r] = u[k] \o Pad(Value(k)) /\ w[r - 1] = u[k] /\ r - 1 = k
        BY <3>3
      <4> QED
        BY <3>3, <4>1
    <3> QED
      BY <3>1, <3>2, <3>3
  <2>4. w = [r \in 0 .. k + 1 |-> w[r]]
    OBVIOUS
  <2> HIDE DEF w
  <2>5. Is(w, k + 1)
    BY <2>3, <2>4
  <2> QED
    BY <2>5
<1>6. Is(T, N)
  <2>1. Nat \subseteq P
    <3> HIDE DEF P
    <3> QED
      BY <1>4, <1>5, SetInduction
  <2>2. N \in P
    BY <2>1
  <2> HIDE DEF Is
  <2> QED
    BY <2>2
<1> HIDE DEF T
<1>7. T[0] = <<>> /\ \A r \in 1 .. N : T[r] = T[r - 1] \o Pad(Value(r - 1))
  <2>1. \A r \in 0 .. N : T[r] = IF r = 0 THEN <<>> ELSE T[r - 1] \o Pad(Value(r - 1))
    BY <1>6
  <2>2. T[0] = <<>>
    BY <2>1
  <2>3. ASSUME NEW r \in 1 .. N PROVE T[r] = T[r - 1] \o Pad(Value(r - 1))
    <3>1. r \in 0 .. N /\ r # 0
      OBVIOUS
    <3> QED
      BY <2>1, <3>1
  <2> QED
    BY <2>2, <2>3
<1>8. 0 \in Q
  <2>1. <<>> \in Seq(Letters) /\ Len(<<>>) = 0 /\ 0 * n = 0
    OBVIOUS
  <2>2. \A r \in 0 .. 0 - 1 : FALSE
    OBVIOUS
  <2>3. Good(T[0], 0)
    BY <1>7, <2>1, <2>2
  <2> HIDE DEF Good
  <2> QED
    BY <2>3
<1>9. ASSUME NEW k \in Nat, k \in Q PROVE k + 1 \in Q
  <2> SUFFICES ASSUME k + 1 <= N PROVE Good(T[k + 1], k + 1)
    OBVIOUS
  <2>1. Good(T[k], k)
    BY <1>1, <1>9
  <2>2. k \in Rows /\ k + 1 \in 1 .. N /\ (k + 1) - 1 = k
    BY <1>1 DEF Rows
  <2>3. PICK x : x = Pad(Value(k))
    OBVIOUS
  <2>4. x \in Seq(Letters) /\ Len(x) = n
    BY <1>2, <2>2, <2>3, ColumnIs, PadIs
  <2>5. PICK t : t = T[k]
    OBVIOUS
  <2>6. T[k + 1] = t \o x
    BY <1>7, <2>2, <2>3, <2>5
  <2>7. t \in Seq(Letters) /\ Len(t) = k * n
    BY <2>1, <2>5
  <2>8. /\ t \o x \in Seq(Letters) /\ Len(t \o x) = k * n + n
        /\ \A i \in 1 .. k * n + n : (t \o x)[i] = IF i <= k * n THEN t[i] ELSE x[i - k * n]
    BY <2>4, <2>7, ConcatProperties
  <2>9. (k + 1) * n = k * n + n /\ k * n \in Nat
    BY Products
  <2>10. ASSUME NEW r \in 0 .. (k + 1) - 1, NEW m \in 0 .. n - 1
         PROVE  At(t \o x, r * n + m) = At(Pad(Value(r)), m)
    <3>1. CASE r = k
      <4>1. (k * n + m) + 1 \in 1 .. k * n + n /\ ~((k * n + m) + 1 <= k * n) /\ ((k * n + m) + 1) - k * n = m + 1
        BY <2>9
      <4>2. (t \o x)[(k * n + m) + 1] = x[m + 1]
        BY <2>8, <4>1
      <4> QED
        BY <2>3, <3>1, <4>2 DEF At
    <3>2. CASE r \in 0 .. k - 1
      <4>1. r * n + n <= k * n /\ r * n \in Nat
        BY <3>2, Products
      <4>2. PICK y : y = r * n + m
        OBVIOUS
      <4>3. y + 1 \in 1 .. k * n + n /\ y + 1 <= k * n
        BY <2>9, <4>1, <4>2
      <4>4. At(t \o x, y) = At(t, y)
        BY <2>8, <4>3 DEF At
      <4> QED
        BY <2>1, <2>5, <3>2, <4>2, <4>4
    <3> QED
      BY <3>1, <3>2
  <2> QED
    BY <2>6, <2>8, <2>9, <2>10
<1>10. Good(T[N], N)
  <2>1. Nat \subseteq Q
    <3> HIDE DEF Q
    <3> QED
      BY <1>8, <1>9, SetInduction
  <2>2. N \in Q
    BY <2>1
  <2> QED
    BY <2>2
<1>11. Rows = 0 .. N - 1
  BY <1>1 DEF Rows
<1> QED
  BY <1>1, <1>2, <1>3, <1>10, <1>11

LEMMA PadRowIs ==
  ASSUME column \in Columns, NEW r \in Rows
  PROVE  PadRow(r) = Pad(Value(r))
<1>1. PICK n \in Nat : n = LineLen
  BY ColumnIs
<1>2. PICK N \in Nat : N = Len(column)
  BY ColumnIs
<1>3. r \in Nat /\ r < N
  BY <1>2 DEF Rows
<1>4. PICK o : o = r * n
  OBVIOUS
<1>5. o \in Nat /\ (r + 1) * n = o + n /\ o + n <= N * n /\ N * n \in Nat
  BY <1>3, <1>4, Products
<1>6. Text \in Seq(Letters) /\ Len(Text) = N * n /\ \A m \in 0 .. n - 1 : At(Text, o + m) = At(Pad(Value(r)), m)
  BY <1>1, <1>2, <1>4, TextIs
<1>7. PICK u : u = SubSeq(Text, o + 1, o + n)
  OBVIOUS
<1>8. u \in Seq(Letters) /\ Len(u) = n /\ \A m \in 1 .. n : u[m] = Text[o + m]
  BY <1>5, <1>6, <1>7, SubSeqIs
<1>9. PICK v : v = Pad(Value(r))
  OBVIOUS
<1>10. v \in Seq(Letters) /\ Len(v) = n
  BY <1>1, <1>9, ColumnIs, PadIs
<1>11. ASSUME NEW m \in 1 .. n PROVE u[m] = v[m]
  <2>1. m - 1 \in 0 .. n - 1 /\ (o + (m - 1)) + 1 = o + m /\ (m - 1) + 1 = m
    BY <1>5
  <2>2. At(Text, o + (m - 1)) = At(v, m - 1)
    BY <1>6, <1>9, <2>1
  <2> QED
    BY <1>8, <2>1, <2>2 DEF At
<1>12. u = v
  BY <1>8, <1>10, <1>11, SeqEqual
<1> QED
  BY <1>1, <1>4, <1>5, <1>7, <1>9, <1>12 DEF PadRow

(* Where row r lies in the text                                            *)
LEMMA RowText ==
  ASSUME column \in Columns, NEW r \in Rows, NEW o, o = r * LineLen, NEW st, st = o + (LineLen - Len(Value(r)))
  PROVE  /\ o \in Nat /\ st \in Nat /\ o <= st /\ st + Len(Value(r)) = o + LineLen /\ o + LineLen <= Len(Text)
         /\ \A i \in o .. st - 1 : At(Text, i) = Blank
         /\ \A m \in 0 .. Len(Value(r)) - 1 : At(Text, st + m) = At(Value(r), m)
<1>1. PICK n \in Nat : n = LineLen /\ n > 0
  BY ColumnIs
<1>2. PICK N \in Nat : N = Len(column)
  BY ColumnIs
<1>3. PICK v : v = Value(r)
  OBVIOUS
<1>0. PICK w : w = Len(v)
  OBVIOUS
<1>4. v \in Seq(Chars) /\ w \in 0 .. n /\ w \in Nat
  BY <1>0, <1>1, <1>3, ColumnIs
<1>5. r \in Nat /\ r < N
  BY <1>2 DEF Rows
<1>6. r * n \in Nat /\ r * n + n <= N * n
  BY <1>2, <1>5, Products
<1>7. o = r * n /\ o \in Nat /\ o + n <= N * n
  BY <1>1, <1>6
<1>8. Len(Text) = N * n /\ \A m \in 0 .. n - 1 : At(Text, o + m) = At(Pad(v), m)
  BY <1>1, <1>2, <1>3, <1>7, TextIs
<1>9. st = o + (n - w) /\ st \in Nat
  BY <1>0, <1>1, <1>3, <1>4, <1>7
<1>10. /\ \A m \in 0 .. n - w - 1 : At(Pad(v), m) = Blank
       /\ \A m \in 0 .. w - 1 : At(Pad(v), n - w + m) = At(v, m)
  BY <1>0, <1>1, <1>4, PadIs
<1>11. ASSUME NEW i \in o .. st - 1 PROVE At(Text, i) = Blank
  <2>0. o \in Nat /\ i \in Nat /\ o <= i /\ i - o < n - w
    <3>1. o \in Nat /\ st \in Nat
      BY <1>7, <1>9
    <3>2. i \in Int /\ o <= i /\ i < st
      BY <3>1
    <3> QED
      BY <1>4, <1>9, <3>1, <3>2
  <2>1. i - o \in 0 .. n - 1 /\ o + (i - o) = i /\ i - o \in 0 .. n - w - 1
    BY <1>4, <2>0
  <2>2. At(Text, o + (i - o)) = At(Pad(v), i - o)
    BY <1>8, <2>1
  <2> QED
    BY <1>10, <2>1, <2>2
<1>12. ASSUME NEW m \in 0 .. w - 1 PROVE At(Text, st + m) = At(v, m)
  <2>1. n - w + m \in 0 .. n - 1 /\ o + (n - w + m) = st + m
    BY <1>1, <1>4, <1>7, <1>9
  <2>2. At(Text, o + (n - w + m)) = At(Pad(v), n - w + m)
    BY <1>8, <2>1
  <2> QED
    BY <1>10, <2>1, <2>2
<1>13. st + w = o + n /\ o <= st
  BY <1>1, <1>4, <1>7, <1>9
<1> QED
  BY <1>0, <1>1, <1>3, <1>7, <1>8, <1>9, <1>11, <1>12, <1>13

-----------------------------------------------------------------------------
(***************************************************************************)
(* Skipping the padding                                                    *)
(***************************************************************************)
LEMMA ShiftLast ==
  ASSUME NEW C, NEW p \in Word(C), NEW c
  PROVE  /\ Shift(p, Len(p) - 1, c) \in 1 .. Len(p)
         /\ \A k \in 0 .. Len(p) - 2 : At(p, k) = c => Shift(p, Len(p) - 1, c) <= Len(p) - 1 - k
<1>1. PICK l \in Nat : l = Len(p) /\ l > 0
  BY WordIs
<1>2. GoodS(p, l - 1) = 1
  <2>1. l - 1 - (l - 1) = 0
    BY <1>1
  <2> QED
    BY <1>1, <2>1 DEF GoodS
<1>3. PICK b : b = BadC(p, c)
  OBVIOUS
<1>4. b \in 0 .. l /\ \A k \in 0 .. l - 1 : At(p, k) = c => b <= l - 1 - k
  BY <1>1, <1>3, BadCIs
<1>5. Shift(p, l - 1, c) = IF 1 > b THEN 1 ELSE b
  BY <1>2, <1>3 DEF Shift
<1>6. Shift(p, l - 1, c) \in 1 .. l
  BY <1>1, <1>4, <1>5
<1>7. ASSUME NEW k \in 0 .. l - 2, At(p, k) = c PROVE Shift(p, l - 1, c) <= l - 1 - k
  <2>1. k \in 0 .. l - 1 /\ l - 1 - k >= 1
    BY <1>1
  <2>2. b <= l - 1 - k
    BY <1>4, <1>7, <2>1
  <2> QED
    BY <1>1, <1>4, <1>5, <2>1, <2>2
<1> QED
  BY <1>1, <1>6, <1>7

EndOf(t, p, i) == IF i + Len(p) <= Len(t) THEN At(t, i + Len(p) - 1) ELSE ""

LEMMA SkipUnfolds ==
  ASSUME NEW C, NEW p \in Word(C), NEW D, NEW t \in Seq(D), NEW from
  PROVE  \E skip : /\ Skip(t, p, from) = skip[from]
                   /\ \A i \in Nat : skip[i] = IF i < Len(t) /\ At(t, i) = Blank
                                               THEN skip[i + Shift(p, Len(p) - 1, EndOf(t, p, i))] ELSE i
<1>1. PICK e \in Nat : e = Len(t)
  OBVIOUS
<1> DEFINE to(i)  == i + Shift(p, Len(p) - 1, IF i + Len(p) <= Len(t) THEN At(t, i + Len(p) - 1) ELSE "")
           Def(u) == [i \in Nat |-> IF i < Len(t) /\ At(t, i) = Blank THEN u[to(i)] ELSE i]
           skip   == CHOOSE u : u = Def(u)
           stop   == {i \in Nat : ~(i < Len(t) /\ At(t, i) = Blank)}
           val    == [i \in Nat |-> i]
           nxt    == [i \in Nat |-> to(i)]
           mu     == [i \in Nat |-> IF i < e THEN e - i ELSE 0]
<1>2. Skip(t, p, from) = skip[from]
  BY DEF Skip
<1>3. \A i \in Nat : to(i) \in Nat /\ to(i) > i
  <2> SUFFICES ASSUME NEW i \in Nat PROVE to(i) \in Nat /\ to(i) > i
    OBVIOUS
  <2>1. PICK c : c = IF i + Len(p) <= Len(t) THEN At(t, i + Len(p) - 1) ELSE ""
    OBVIOUS
  <2>2. PICK h : h = Shift(p, Len(p) - 1, c)
    OBVIOUS
  <2>3. h \in 1 .. Len(p) /\ Len(p) \in Nat
    BY <2>2, ShiftLast, WordIs
  <2>4. to(i) = i + h
    BY <2>1, <2>2
  <2> HIDE DEF to
  <2> QED
    BY <2>3, <2>4
<1> HIDE DEF to
<1>4. mu \in [Nat -> 0 .. e]
  BY <1>1
<1>5. ASSUME NEW i \in Nat \ stop PROVE nxt[i] \in Nat /\ mu[nxt[i]] < mu[i]
  <2>1. i \in Nat /\ i < e /\ nxt[i] = to(i)
    BY <1>1
  <2>2. to(i) \in Nat /\ to(i) > i
    BY <1>3, <2>1
  <2>3. mu[i] = e - i /\ mu[to(i)] = IF to(i) < e THEN e - to(i) ELSE 0
    BY <2>1, <2>2
  <2> HIDE DEF nxt, mu
  <2> QED
    BY <1>1, <2>1, <2>2, <2>3
<1>6. PICK F : Descends(F, Nat, stop, val, nxt)
  <2> HIDE DEF stop, val, nxt, mu
  <2> QED
    BY <1>1, <1>4, <1>5, DescentExists
<1>7. F = Def(F)
  <2>1. F = [i \in Nat |-> IF i \in stop THEN val[i] ELSE F[nxt[i]]]
    BY <1>6 DEF Descends
  <2>2. \A i \in Nat : (IF i \in stop THEN val[i] ELSE F[nxt[i]])
                        = IF i < Len(t) /\ At(t, i) = Blank THEN F[to(i)] ELSE i
    OBVIOUS
  <2> HIDE DEF stop, val, nxt
  <2> QED
    BY <2>1, <2>2
<1>8. skip = Def(skip)
  <2> HIDE DEF Def
  <2> QED
    BY <1>7
<1> HIDE DEF skip
<1>9. ASSUME NEW i \in Nat
      PROVE  skip[i] = IF i < Len(t) /\ At(t, i) = Blank THEN skip[i + Shift(p, Len(p) - 1, EndOf(t, p, i))] ELSE i
  <2>1. to(i) = i + Shift(p, Len(p) - 1, EndOf(t, p, i))
    BY DEF to, EndOf
  <2>2. skip[i] = Def(skip)[i]
    BY <1>8
  <2> QED
    BY <2>1, <2>2
<1> QED
  BY <1>2, <1>9

(* Skipping ends in a value that is not shorter than p, and at its start   *)
(* when the value begins with p.                                           *)
LEMMA SkipIs ==
  ASSUME NEW C, NEW p \in Word(C), NEW D, NEW t \in Seq(D), NEW o \in Nat, NEW st \in Nat, o <= st,
         NEW n \in Nat, Len(p) <= n, st + n <= Len(t),
         \A i \in o .. st - 1 : At(t, i) = Blank,
         \A i \in st .. st + n - 1 : At(t, i) # Blank
  PROVE  /\ Skip(t, p, o) \in st .. st + Len(p) - 1
         /\ Alike(t, st, p, 0, Len(p)) => Skip(t, p, o) = st
<1>1. PICK l \in Nat : l = Len(p) /\ l > 0
  BY WordIs
<1>2. PICK e \in Nat : e = Len(t)
  OBVIOUS
<1>3. PICK skip : /\ Skip(t, p, o) = skip[o]
                  /\ \A i \in Nat : skip[i] = IF i < e /\ At(t, i) = Blank
                                              THEN skip[i + Shift(p, l - 1, EndOf(t, p, i))] ELSE i
  BY <1>1, <1>2, SkipUnfolds
<1> DEFINE Good(i) == /\ skip[i] \in st .. st + l - 1
                      /\ Alike(t, st, p, 0, l) /\ i <= st => skip[i] = st
           P == {k \in Nat : \A i \in o .. st + l - 1 : st - i <= k => Good(i)}
<1>4. ASSUME NEW i \in st .. st + l - 1 PROVE Good(i)
  <2>1. i \in Nat /\ At(t, i) # Blank
    BY <1>1
  <2>2. skip[i] = i
    BY <1>3, <2>1
  <2> QED
    BY <1>1, <2>2
<1>5. 0 \in P
  <2> SUFFICES ASSUME NEW i \in o .. st + l - 1, st - i <= 0 PROVE Good(i)
    OBVIOUS
  <2>1. i \in st .. st + l - 1
    BY <1>1
  <2> HIDE DEF Good
  <2> QED
    BY <1>4, <2>1
<1>6. ASSUME NEW k \in Nat, k \in P PROVE k + 1 \in P
  <2> SUFFICES ASSUME NEW i \in o .. st + l - 1, st - i <= k + 1 PROVE Good(i)
    OBVIOUS
  <2>1. CASE i >= st
    <3>1. i \in st .. st + l - 1
      BY <1>1, <2>1
    <3> HIDE DEF Good
    <3> QED
      BY <1>4, <3>1
  <2>2. CASE i < st
    <3>1. i \in Nat /\ i \in o .. st - 1 /\ i < e /\ i + l <= e
      BY <1>1, <1>2, <2>2
    <3>2. PICK c : c = EndOf(t, p, i)
      OBVIOUS
    <3>3. c = At(t, i + l - 1)
      BY <1>1, <1>2, <3>1, <3>2 DEF EndOf
    <3>4. PICK h : h = Shift(p, l - 1, c)
      OBVIOUS
    <3>5. h \in 1 .. l /\ \A m \in 0 .. l - 2 : At(p, m) = c => h <= l - 1 - m
      BY <1>1, <3>4, ShiftLast
    <3>6. skip[i] = skip[i + h]
      BY <1>3, <3>1, <3>2, <3>4
    <3>7. i + h \in o .. st + l - 1 /\ st - (i + h) <= k
      BY <1>1, <2>2, <3>1, <3>5
    <3>8. Good(i + h)
      <4> HIDE DEF Good
      <4> QED
        BY <1>6, <3>7
    <3>9. ASSUME Alike(t, st, p, 0, l) PROVE i + h <= st
      <4>1. CASE i + l <= st
        BY <1>1, <3>1, <3>5, <4>1
      <4>2. CASE i + l > st
        <5>1. PICK m : m = i + l - 1 - st
          OBVIOUS
        <5>2. m \in 0 .. l - 2 /\ m \in 0 .. l - 1 /\ st + m = i + l - 1 /\ 0 + m = m /\ l - 1 - m = st - i
          BY <1>1, <2>2, <3>1, <4>2, <5>1
        <5>3. At(t, st + m) = At(p, 0 + m)
          BY <3>9, <5>2 DEF Alike
        <5>4. h <= st - i
          BY <3>3, <3>5, <5>2, <5>3
        <5> QED
          BY <1>1, <3>1, <3>5, <5>4
      <4> QED
        BY <1>1, <3>1, <4>1, <4>2
    <3> QED
      BY <3>6, <3>8, <3>9
  <2> QED
    BY <1>1, <2>1, <2>2
<1>7. Good(o)
  <2>1. Nat \subseteq P
    <3> HIDE DEF P
    <3> QED
      BY <1>5, <1>6, SetInduction
  <2>2. st \in P
    BY <2>1
  <2>3. o \in o .. st + l - 1 /\ st - o <= st
    BY <1>1
  <2> HIDE DEF Good
  <2> QED
    BY <2>2, <2>3
<1> QED
  BY <1>1, <1>3, <1>7

-----------------------------------------------------------------------------
(***************************************************************************)
(* What the searches find in a row of fixed width                          *)
(***************************************************************************)
LEMMA CharsIs ==
  ASSUME NEW p \in Seq(Chars)
  PROVE  /\ p \in Seq(Letters)
         /\ \A m \in 0 .. Len(p) - 1 : At(p, m) \in Chars /\ At(p, m) # Blank
<1>1. p \in Seq(Letters)
  BY DEF Letters
<1>2. ASSUME NEW m \in 0 .. Len(p) - 1 PROVE At(p, m) \in Chars
  <2>1. m + 1 \in 1 .. Len(p)
    OBVIOUS
  <2> QED
    BY <2>1 DEF At
<1> QED
  BY <1>1, <1>2, ColumnAssumption

(* A string without a blank is in the padded value where it is in the      *)
(* value.                                                                  *)
LEMMA PadOccurs ==
  ASSUME NEW v \in Seq(Chars), Len(v) <= LineLen, NEW p \in Word(Chars), NEW q \in Int
  PROVE  Occurs(Pad(v), p, q) <=> Occurs(v, p, q - (LineLen - Len(v)))
<1>1. PICK l \in Nat : l = Len(p) /\ l > 0
  BY WordIs
<1>2. PICK w \in Nat : w = Len(v)
  OBVIOUS
<1>3. PICK n \in Nat : n = LineLen
  BY ColumnAssumption
<1>4. PICK u : u = Pad(v)
  OBVIOUS
<1>5. PICK o : o = n - w
  OBVIOUS
<1>6. o \in Nat /\ o + w = n
  BY <1>2, <1>3, <1>5
<1>7. /\ u \in Seq(Letters) /\ Len(u) = n
      /\ \A m \in 0 .. o - 1 : At(u, m) = Blank
      /\ \A m \in 0 .. w - 1 : At(u, o + m) = At(v, m)
  BY <1>2, <1>3, <1>4, <1>5, PadIs
<1>8. p \in Seq(Letters) /\ p \in Seq(Chars) /\ \A m \in 0 .. l - 1 : At(p, m) # Blank
  BY <1>1, WordIs, CharsIs
<1>9. Occurs(u, p, q) <=> q >= 0 /\ q + l <= n /\ Alike(u, q, p, 0, l)
  BY <1>1, <1>7, <1>8, OccursIs
<1>10. q - o \in Int
  BY <1>6
<1>11. Occurs(v, p, q - o) <=> q - o >= 0 /\ (q - o) + l <= w /\ Alike(v, q - o, p, 0, l)
  BY <1>1, <1>2, <1>8, <1>10, OccursIs
<1>12. CASE q >= o /\ q + l <= n
  <2>1. ASSUME NEW m \in 0 .. l - 1 PROVE At(u, q + m) = At(v, (q - o) + m)
    <3>1. (q - o) + m \in 0 .. w - 1 /\ o + ((q - o) + m) = q + m
      BY <1>1, <1>6, <1>12
    <3>2. At(u, o + ((q - o) + m)) = At(v, (q - o) + m)
      BY <1>7, <3>1
    <3> QED
      BY <3>1, <3>2
  <2>2. Alike(u, q, p, 0, l) <=> Alike(v, q - o, p, 0, l)
    BY <2>1 DEF Alike
  <2>3. q >= 0 /\ q - o >= 0 /\ (q - o) + l <= w
    BY <1>1, <1>6, <1>12
  <2> QED
    BY <1>2, <1>3, <1>4, <1>5, <1>9, <1>11, <1>12, <2>2, <2>3
<1>13. CASE q < o
  <2>1. ~(q - o >= 0)
    BY <1>6, <1>13
  <2>2. ~Occurs(v, p, q - o)
    BY <1>11, <2>1
  <2>3. ASSUME q >= 0, Alike(u, q, p, 0, l) PROVE FALSE
    <3>1. 0 \in 0 .. l - 1 /\ q + 0 = q /\ 0 + 0 = 0 /\ q \in 0 .. o - 1
      BY <1>1, <1>6, <1>13, <2>3
    <3>2. At(u, q + 0) = At(p, 0 + 0)
      BY <2>3, <3>1 DEF Alike
    <3> QED
      BY <1>7, <1>8, <3>1, <3>2
  <2>4. ~Occurs(u, p, q)
    BY <1>9, <2>3
  <2> QED
    BY <1>2, <1>3, <1>4, <1>5, <2>2, <2>4
<1>14. CASE q >= o /\ ~(q + l <= n)
  <2>1. ~((q - o) + l <= w)
    BY <1>1, <1>6, <1>14
  <2> QED
    BY <1>2, <1>3, <1>4, <1>5, <1>9, <1>11, <1>14, <2>1
<1> QED
  BY <1>6, <1>12, <1>13, <1>14

LEMMA EndsIs ==
  ASSUME column \in Columns, NEW r \in Rows, NEW p \in Word(Chars)
  PROVE  Ends(PadRow(r), p) <=> Ends(Value(r), p)
<1>1. PICK v : v = Value(r)
  OBVIOUS
<1>2. v \in Seq(Chars) /\ Len(v) <= LineLen /\ Len(v) \in Nat /\ LineLen \in Nat
  BY <1>1, ColumnIs
<1>3. PICK l \in Nat : l = Len(p)
  BY WordIs
<1>4. Len(Pad(v)) = LineLen
  BY <1>2, PadIs
<1>5. LineLen - l \in Int /\ (LineLen - l) - (LineLen - Len(v)) = Len(v) - l
  BY <1>2
<1>6. Occurs(Pad(v), p, LineLen - l) <=> Occurs(v, p, (LineLen - l) - (LineLen - Len(v)))
  BY <1>2, <1>5, PadOccurs
<1> QED
  BY <1>1, <1>3, <1>4, <1>5, <1>6, PadRowIs DEF Ends

LEMMA BlankIs ==
  ASSUME column \in Columns, NEW r \in Rows
  PROVE  /\ At(PadRow(r), LineLen - 1) = Blank <=> Value(r) = <<>>
         /\ Ends(PadRow(r), <<Blank>>) <=> Value(r) = <<>>
<1>1. PICK v : v = Value(r)
  OBVIOUS
<1>2. PICK n \in Nat : n = LineLen /\ n > 0
  BY ColumnIs
<1>3. v \in Seq(Chars) /\ Len(v) \in 0 .. n
  BY <1>1, <1>2, ColumnIs
<1>4. PICK u : u = Pad(v)
  OBVIOUS
<1>5. PICK w : w = Len(v)
  OBVIOUS
<1>6. w \in 0 .. n
  BY <1>3, <1>5
<1>7. /\ u \in Seq(Letters) /\ Len(u) = n
      /\ \A m \in 0 .. n - w - 1 : At(u, m) = Blank
      /\ \A m \in 0 .. w - 1 : At(u, n - w + m) = At(v, m)
  BY <1>2, <1>3, <1>4, <1>5, PadIs
<1>8. At(u, n - 1) = Blank <=> v = <<>>
  <2>1. CASE v = <<>>
    <3>1. w = 0
      BY <1>5, <2>1
    <3>2. n - 1 \in 0 .. n - w - 1
      BY <1>2, <3>1
    <3> QED
      BY <1>7, <2>1, <3>2
  <2>2. CASE v # <<>>
    <3>1. w # 0
      BY <1>3, <1>5, <2>2
    <3>2. w - 1 \in 0 .. w - 1 /\ n - w + (w - 1) = n - 1
      BY <1>6, <3>1
    <3>3. At(u, n - 1) = At(v, w - 1)
      BY <1>7, <3>2
    <3>4. At(v, w - 1) # Blank
      BY <1>3, <1>5, <3>2, CharsIs
    <3> QED
      BY <2>2, <3>3, <3>4
  <2> QED
    BY <2>1, <2>2
<1>9. Ends(u, <<Blank>>) <=> At(u, n - 1) = Blank
  <2>1. PICK b : b = <<Blank>>
    OBVIOUS
  <2>2. b \in Seq(Letters) /\ Len(b) = 1 /\ b[1] = Blank
    BY <2>1 DEF Letters
  <2>3. n - 1 \in Int /\ n - 1 >= 0 /\ (n - 1) + 1 <= n
    BY <1>2
  <2>4. Occurs(u, b, n - 1) <=> Alike(u, n - 1, b, 0, 1)
    BY <1>7, <2>2, <2>3, OccursIs
  <2>5. Alike(u, n - 1, b, 0, 1) <=> At(u, n - 1) = Blank
    <3>1. At(b, 0) = Blank
      BY <2>2 DEF At
    <3>2. \A m \in 0 .. 1 - 1 : m = 0
      OBVIOUS
    <3>3. 0 \in 0 .. 1 - 1 /\ (n - 1) + 0 = n - 1 /\ 0 + 0 = 0
      BY <1>2
    <3> QED
      BY <3>1, <3>2, <3>3 DEF Alike
  <2> QED
    BY <1>7, <2>1, <2>2, <2>4, <2>5 DEF Ends
<1>10. PadRow(r) = u
  BY <1>1, <1>4, PadRowIs
<1> QED
  BY <1>1, <1>2, <1>8, <1>9, <1>10

LEMMA AnyIs ==
  ASSUME column \in Columns, NEW r \in Rows, NEW p \in Word(Chars)
  PROVE  /\ BMOnce(PadRow(r), p) >= 0 => \E i \in 0 .. Len(Value(r)) : Occurs(Value(r), p, i)
         /\ Cardinality(Border(p)) <= 1 =>
              \A i \in Nat : Occurs(Value(r), p, i) => BMOnce(PadRow(r), p) >= 0
<1>1. PICK v : v = Value(r)
  OBVIOUS
<1>2. v \in Seq(Chars) /\ Len(v) <= LineLen /\ Len(v) \in Nat /\ LineLen \in Nat
  BY <1>1, ColumnIs
<1>3. PICK u : u = PadRow(r)
  OBVIOUS
<1>4. u = Pad(v) /\ u \in Seq(Letters)
  BY <1>1, <1>2, <1>3, PadIs, PadRowIs
<1>5. p \in Word(Letters)
  BY CharsIs DEF Word
<1>6. PICK o : o = LineLen - Len(v)
  OBVIOUS
<1>7. o \in Nat
  BY <1>2, <1>6
<1>8. /\ BMOnce(u, p) >= 0 => \E q \in Nat : Occurs(u, p, q)
      /\ Cardinality(Border(p)) <= 1 => \A q \in Nat : Occurs(u, p, q) => BMOnce(u, p) >= 0
  BY <1>4, <1>5, BMOnceIs
<1>9. \A q \in Int : Occurs(u, p, q) <=> Occurs(v, p, q - o)
  BY <1>2, <1>4, <1>6, PadOccurs
<1>10. ASSUME BMOnce(u, p) >= 0 PROVE \E i \in 0 .. Len(v) : Occurs(v, p, i)
  <2>1. PICK q \in Nat : Occurs(u, p, q)
    BY <1>8, <1>10
  <2>2. Occurs(v, p, q - o)
    BY <1>9, <2>1
  <2>3. q - o >= 0 /\ (q - o) + Len(p) <= Len(v)
    BY <2>2 DEF Occurs
  <2>4. Len(p) \in Nat
    BY WordIs
  <2>5. q - o \in 0 .. Len(v)
    BY <1>2, <1>7, <2>3, <2>4
  <2> QED
    BY <2>2, <2>5
<1>11. ASSUME Cardinality(Border(p)) <= 1, NEW i \in Nat, Occurs(v, p, i) PROVE BMOnce(u, p) >= 0
  <2>1. i + o \in Nat /\ i + o \in Int /\ (i + o) - o = i
    BY <1>7
  <2>2. Occurs(u, p, i + o)
    BY <1>9, <1>11, <2>1
  <2> QED
    BY <1>8, <1>11, <2>1, <2>2
<1> QED
  BY <1>1, <1>3, <1>10, <1>11

LEMMA LeftIs ==
  ASSUME column \in Columns, NEW r \in Rows, NEW p \in Word(Chars), Len(p) <= Len(Value(r))
  PROVE  /\ FixedLeft(Text, p, r) <=> Occurs(Value(r), p, 0)
         /\ \A garbage : RowLeft(Text, p, r, garbage) <=> Occurs(Value(r), p, 0)
<1>1. PICK v : v = Value(r)
  OBVIOUS
<1>2. PICK n \in Nat : n = LineLen /\ n > 0
  BY ColumnIs
<1>3. PICK w : w = Len(v)
  OBVIOUS
<1>4. v \in Seq(Chars) /\ w \in 0 .. n /\ w \in Nat
  BY <1>1, <1>2, <1>3, ColumnIs
<1>5. PICK l \in Nat : l = Len(p) /\ l > 0
  BY WordIs
<1>6. PICK t : t = Text
  OBVIOUS
<1>7. PICK o : o = r * n
  OBVIOUS
<1>8. PICK st : st = o + (n - w)
  OBVIOUS
<1>9. /\ o \in Nat /\ st \in Nat /\ o <= st /\ st + w = o + n /\ o + n <= Len(t)
      /\ \A i \in o .. st - 1 : At(t, i) = Blank
      /\ \A m \in 0 .. w - 1 : At(t, st + m) = At(v, m)
  BY <1>1, <1>2, <1>3, <1>6, <1>7, <1>8, RowText
<1>10. t \in Seq(Letters) /\ Len(t) \in Nat
  BY <1>6, TextIs
<1>11. \A m \in 0 .. w - 1 : At(v, m) # Blank
  BY <1>3, <1>4, CharsIs
<1>12. ASSUME NEW i \in st .. st + w - 1 PROVE At(t, i) # Blank
  <2>1. i - st \in 0 .. w - 1 /\ st + (i - st) = i
    BY <1>4, <1>9
  <2>2. At(t, st + (i - st)) = At(v, i - st)
    BY <1>9, <2>1
  <2> QED
    BY <1>11, <2>1, <2>2
<1>13. l <= w
  BY <1>1, <1>3, <1>5
<1>14. PICK i : i = Skip(t, p, o)
  OBVIOUS
<1>15. i \in st .. st + l - 1 /\ (Alike(t, st, p, 0, l) => i = st)
  <2>1. st + w <= Len(t) /\ l <= w
    BY <1>9, <1>13
  <2> QED
    BY <1>4, <1>5, <1>9, <1>10, <1>12, <1>14, <2>1, SkipIs
<1>16. p \in Seq(Letters) /\ p \in Seq(Chars)
  BY WordIs, CharsIs
<1>17. Occurs(v, p, 0) <=> Alike(t, st, p, 0, l)
  <2>1. Occurs(v, p, 0) <=> Alike(v, 0, p, 0, l)
    <3>1. 0 \in Int /\ 0 >= 0 /\ 0 + l <= w
      BY <1>13
    <3> QED
      BY <1>3, <1>4, <1>5, <1>16, <3>1, OccursIs
  <2>2. ASSUME NEW m \in 0 .. l - 1 PROVE At(t, st + m) = At(v, 0 + m)
    <3>1. m \in 0 .. w - 1 /\ 0 + m = m
      BY <1>4, <1>13
    <3> QED
      BY <1>9, <3>1
  <2>3. Alike(v, 0, p, 0, l) <=> Alike(t, st, p, 0, l)
    BY <2>2 DEF Alike
  <2> QED
    BY <2>1, <2>3
<1>18. Occurs(t, p, st) <=> Alike(t, st, p, 0, l)
  <2>1. st \in Int /\ st >= 0 /\ st + l <= Len(t)
    BY <1>4, <1>9, <1>10, <1>13
  <2> QED
    BY <1>5, <1>10, <1>16, <2>1, OccursIs
<1>19. i # st => At(t, i - 1) # Blank /\ i # o /\ ~(i % n = 0)
  <2> SUFFICES ASSUME i # st PROVE At(t, i - 1) # Blank /\ i # o /\ ~(i % n = 0)
    OBVIOUS
  <2>1. i - 1 \in st .. st + w - 1 /\ i # o /\ i - o \in 1 .. n - 1
    BY <1>4, <1>5, <1>9, <1>13, <1>15
  <2>2. r \in Nat
    BY DEF Rows
  <2>3. PICK x : x = i - o
    OBVIOUS
  <2>4. x \in 1 .. n - 1 /\ i = r * n + x
    <3>1. o \in Nat /\ i \in Nat
      BY <1>9, <1>15
    <3> QED
      BY <1>7, <2>1, <2>3, <3>1
  <2>5. (r * n + x) % n # 0
    BY <1>2, <2>2, <2>4
  <2> QED
    BY <1>12, <2>1, <2>4, <2>5
<1>20. i = st => i = o \/ At(t, i - 1) = Blank
  <2> SUFFICES ASSUME i = st, i # o PROVE At(t, i - 1) = Blank
    OBVIOUS
  <2>1. i - 1 \in o .. st - 1
    BY <1>9
  <2> QED
    BY <1>9, <2>1
<1>21. o % n = 0
  <2>1. r \in Nat
    BY DEF Rows
  <2> QED
    BY <1>2, <1>7, <2>1
<1>22. Occurs(t, p, i) /\ (i % n = 0 \/ At(t, i - 1) = Blank) <=> Occurs(v, p, 0)
  <2>1. CASE i = st
    <3>1. i % n = 0 \/ At(t, i - 1) = Blank
      BY <1>20, <1>21, <2>1
    <3> QED
      BY <1>17, <1>18, <2>1, <3>1
  <2>2. CASE i # st
    BY <1>15, <1>17, <1>19, <2>2
  <2> QED
    BY <2>1, <2>2
<1>23. Occurs(t, p, i) /\ (i = o \/ At(t, i - 1) = Blank) <=> Occurs(v, p, 0)
  <2>1. CASE i = st
    BY <1>17, <1>18, <1>20, <2>1
  <2>2. CASE i # st
    BY <1>15, <1>17, <1>19, <2>2
  <2> QED
    BY <2>1, <2>2
<1>24. ~(i > Len(t))
  BY <1>4, <1>5, <1>9, <1>10, <1>13, <1>15
<1>25. FixedLeft(t, p, r) <=> Occurs(v, p, 0)
  BY <1>2, <1>7, <1>14, <1>22 DEF FixedLeft
<1>26. \A garbage : RowLeft(t, p, r, garbage) <=> Occurs(v, p, 0)
  BY <1>2, <1>7, <1>14, <1>23, <1>24 DEF RowLeft
<1> QED
  BY <1>1, <1>6, <1>25, <1>26

-----------------------------------------------------------------------------
(***************************************************************************)
(* What a search finds, and what is asked of a value                       *)
(***************************************************************************)
IsCall(p, align) == \/ p \in Word(Chars) /\ align \in Align
                    \/ p = <<Blank>> /\ align \in {"LEFT", "RIGHT"}

LEMMA CallIs ==
  ASSUME column \in Columns, NEW c \in Calls
  PROVE  IsCall(c[1], c[2])
<1>1. c[1] \in Patterns[column] /\ c[2] \in Align /\ (c[1] = <<Blank>> => c[2] \in {"LEFT", "RIGHT"})
  BY DEF Calls
<1>2. Patterns[column] \subseteq (Seq(Chars) \ {<<>>}) \union {<<Blank>>}
  BY ColumnAssumption
<1> QED
  BY <1>1, <1>2 DEF IsCall, Word

LEMMA WordNotBlank ==
  ASSUME NEW p \in Word(Chars)
  PROVE  p # <<Blank>> /\ Len(p) \in Nat /\ Len(p) > 0
<1>1. p \in Seq(Chars) /\ Len(p) \in Nat /\ Len(p) > 0
  BY WordIs
<1>2. 0 \in 0 .. Len(p) - 1
  BY <1>1
<1>3. At(p, 0) # Blank
  BY <1>1, <1>2, CharsIs
<1> QED
  BY <1>1, <1>3 DEF At

LEMMA IsCallLen ==
  ASSUME NEW p, NEW align, IsCall(p, align)
  PROVE  Len(p) \in Nat /\ Len(p) > 0 /\ align \in Align /\ (p = <<Blank>> => Len(p) = 1 /\ align \in {"LEFT", "RIGHT"})
<1>1. CASE p \in Word(Chars) /\ align \in Align
  BY <1>1, WordNotBlank
<1>2. CASE p = <<Blank>> /\ align \in {"LEFT", "RIGHT"}
  <2>1. Len(p) = 1
    BY <1>2
  <2> QED
    BY <1>2, <2>1 DEF Align
<1> QED
  BY <1>1, <1>2 DEF IsCall

LEMMA OccursWithin ==
  ASSUME NEW v \in Seq(Chars), NEW p \in Word(Chars), NEW i \in Int, Occurs(v, p, i)
  PROVE  i \in 0 .. Len(v) /\ i \in Nat /\ i <= Len(v) - Len(p) /\ Len(p) <= Len(v)
<1>1. i >= 0 /\ i + Len(p) <= Len(v)
  BY DEF Occurs
<1>2. Len(p) \in Nat /\ Len(p) > 0 /\ Len(v) \in Nat
  BY WordIs
<1> QED
  BY <1>1, <1>2

LEMMA WholeOccurs ==
  ASSUME NEW v \in Seq(Chars)
  PROVE  Occurs(v, v, 0) /\ Ends(v, v)
<1>1. Len(v) \in Nat /\ SubSeq(v, 0 + 1, 0 + Len(v)) = v
  BY WholeIs
<1>2. 0 >= 0 /\ 0 + Len(v) <= Len(v) /\ Len(v) - Len(v) = 0
  BY <1>1
<1> QED
  BY <1>1, <1>2 DEF Occurs, Ends

(* A value that has a string as long as itself is that string.             *)
LEMMA SameWhole ==
  ASSUME NEW v \in Seq(Chars), NEW p \in Word(Chars), NEW i \in Int, Occurs(v, p, i), Len(v) <= Len(p)
  PROVE  v = p /\ i = 0
<1>1. i \in Nat /\ i <= Len(v) - Len(p) /\ Len(p) \in Nat /\ Len(v) \in Nat
  BY OccursWithin, WordIs
<1>2. i = 0 /\ Len(v) = Len(p)
  BY <1>1
<1>3. SubSeq(v, 0 + 1, 0 + Len(v)) = p
  BY <1>2 DEF Occurs
<1> QED
  BY <1>2, <1>3, WholeIs

LEMMA KMPIs ==
  ASSUME NEW v \in Seq(Chars), NEW p \in Word(Chars), NEW align \in Align
  PROVE  /\ KMP(v, p, align) => Holds(v, p, IF align = "FULL" THEN "ANY" ELSE align)
         /\ Holds(v, p, align) /\ (align = "RIGHT" => Cardinality({i \in 0 .. Len(v) : Occurs(v, p, i)}) = 1)
              => KMP(v, p, align)
<1>1. PICK at : at = First(v, p)
  OBVIOUS
<1>2. IsFirst(v, p, at)
  BY <1>1, FirstIs
<1>3. KMP(v, p, align) <=> at >= 0 /\ (align = "RIGHT" => at + Len(p) = Len(v)) /\ (align = "LEFT" => at = 0)
  BY <1>1 DEF KMP
<1>4. Len(p) \in Nat /\ Len(v) \in Nat /\ p # <<Blank>>
  BY WordNotBlank
<1>5. at >= 0 => at \in Nat /\ Occurs(v, p, at)
  BY <1>2 DEF IsFirst
<1>6. \A i \in Int : Occurs(v, p, i) => at \in Nat /\ at >= 0 /\ at <= i
  <2> SUFFICES ASSUME NEW i \in Int, Occurs(v, p, i) PROVE at \in Nat /\ at >= 0 /\ at <= i
    OBVIOUS
  <2>1. i \in Nat
    BY OccursWithin
  <2> QED
    BY <1>2, <2>1 DEF IsFirst
<1>7. ASSUME KMP(v, p, align) PROVE Holds(v, p, IF align = "FULL" THEN "ANY" ELSE align)
  <2>1. at \in Nat /\ Occurs(v, p, at) /\ at \in 0 .. Len(v)
    BY <1>3, <1>5, <1>7, OccursWithin
  <2>2. CASE align \in {"FULL", "ANY"}
    BY <1>4, <2>1, <2>2 DEF Holds
  <2>3. CASE align = "LEFT"
    BY <1>3, <1>4, <1>7, <2>1, <2>3 DEF Holds
  <2>4. CASE align = "RIGHT"
    <3>1. at = Len(v) - Len(p)
      BY <1>3, <1>4, <1>7, <2>1, <2>4
    <3> QED
      BY <1>4, <2>1, <2>4, <3>1 DEF Holds, Ends
  <2> QED
    BY <2>2, <2>3, <2>4 DEF Align
<1>8. ASSUME Holds(v, p, align), align = "RIGHT" => Cardinality({i \in 0 .. Len(v) : Occurs(v, p, i)}) = 1
      PROVE  KMP(v, p, align)
  <2>1. CASE align = "FULL"
    <3>1. Occurs(v, p, 0)
      BY <1>4, <1>8, <2>1, WholeOccurs DEF Holds
    <3> QED
      BY <1>3, <1>6, <2>1, <3>1
  <2>2. CASE align = "ANY"
    <3>1. PICK i \in 0 .. Len(v) : Occurs(v, p, i)
      BY <1>4, <1>8, <2>2 DEF Holds
    <3> QED
      BY <1>3, <1>6, <2>2, <3>1
  <2>3. CASE align = "LEFT"
    <3>1. Occurs(v, p, 0)
      BY <1>4, <1>8, <2>3 DEF Holds
    <3>2. at \in Nat /\ at >= 0 /\ at <= 0
      BY <1>6, <3>1
    <3> QED
      BY <1>3, <2>3, <3>2
  <2>4. CASE align = "RIGHT"
    <3>1. PICK x : x = Len(v) - Len(p)
      OBVIOUS
    <3>2. Occurs(v, p, x) /\ x \in Int
      BY <1>4, <1>8, <2>4, <3>1 DEF Holds, Ends
    <3>3. PICK S : S = {i \in 0 .. Len(v) : Occurs(v, p, i)}
      OBVIOUS
    <3>4. at \in Nat /\ at >= 0
      BY <1>6, <3>2
    <3>5. x \in S /\ at \in S
      BY <1>5, <3>2, <3>3, <3>4, OccursWithin
    <3>6. IsFiniteSet(S)
      <4>1. IsFiniteSet(0 .. Len(v)) /\ S \in SUBSET (0 .. Len(v))
        BY <1>4, <3>3, FS_Interval
      <4> QED
        BY <4>1, FS_Subset
    <3>7. Cardinality(S) <= 1
      BY <1>8, <2>4, <3>3
    <3>8. x = at
      BY <3>5, <3>6, <3>7, OneOnly
    <3> QED
      BY <1>3, <1>4, <2>4, <3>1, <3>4, <3>8
  <2> QED
    BY <2>1, <2>2, <2>3, <2>4 DEF Align
<1> QED
  BY <1>7, <1>8

(* No value has a blank, or is taken to have one.                          *)
LEMMA KMPBlank ==
  ASSUME NEW v \in Seq(Chars), NEW align
  PROVE  ~KMP(v, <<Blank>>, align)
<1>1. PICK p : p = <<Blank>>
  OBVIOUS
<1>2. p \in Word(Letters) /\ Len(p) = 1 /\ p[1] = Blank
  BY <1>1 DEF Word, Letters
<1>3. p \in Seq(Letters) /\ v \in Seq(Letters)
  BY <1>2, CharsIs DEF Word
<1>4. ASSUME NEW i \in Nat, Occurs(v, p, i) PROVE FALSE
  <2>1. i + 1 <= Len(v) /\ Alike(v, i, p, 0, 1)
    <3>1. i \in Int
      OBVIOUS
    <3>2. Occurs(v, p, i) <=> i >= 0 /\ i + Len(p) <= Len(v) /\ Alike(v, i, p, 0, Len(p))
      BY <1>3, <3>1, OccursIs
    <3> QED
      BY <1>2, <1>4, <3>2
  <2>2. 0 \in 0 .. 1 - 1 /\ i + 0 = i /\ 0 + 0 = 0 /\ i \in 0 .. Len(v) - 1
    BY <2>1
  <2>3. At(v, i + 0) = At(p, 0 + 0)
    BY <2>1, <2>2 DEF Alike
  <2>4. At(p, 0) = Blank
    BY <1>2 DEF At
  <2> QED
    BY <2>2, <2>3, <2>4, CharsIs
<1>5. IsFirst(v, p, First(v, p))
  BY <1>2, <1>3, FirstIs
<1>6. First(v, p) = -1
  BY <1>4, <1>5 DEF IsFirst
<1> QED
  BY <1>1, <1>6 DEF KMP

(* A row of fixed width, found by a search of the column or of one row     *)
Meets(v, p, align) ==
  \/ Holds(v, p, IF align = "FULL" THEN "RIGHT" ELSE align)
  \/ align = "LEFT" /\ Len(v) < Len(p)

LEMMA FixedIs ==
  ASSUME column \in Columns, NEW r \in Rows, NEW p, NEW align, IsCall(p, align)
  PROVE  /\ FixedFinds(p, align, r) => Meets(Value(r), p, align)
         /\ Holds(Value(r), p, align) /\ (align = "ANY" => Cardinality(Border(p)) <= 1) => FixedFinds(p, align, r)
<1>1. PICK v : v = Value(r)
  OBVIOUS
<1>2. v \in Seq(Chars) /\ Len(v) <= LineLen /\ Len(v) \in Nat /\ LineLen \in Nat /\ LineLen > 0
  BY <1>1, ColumnIs
<1>3. CASE p = <<Blank>> /\ align \in {"LEFT", "RIGHT"}
  <2>1. FixedFinds(p, align, r) <=> v = <<>>
    <3>1. Len(p) = 1 /\ Len(p) <= LineLen
      BY <1>2, <1>3
    <3>2. CASE align = "LEFT"
      BY <1>1, <1>3, <3>1, <3>2, BlankIs DEF FixedFinds
    <3>3. CASE align = "RIGHT"
      BY <1>1, <1>3, <3>1, <3>3, BlankIs DEF FixedFinds
    <3> QED
      BY <1>3, <3>2, <3>3
  <2>2. Holds(v, p, align) <=> v = <<>>
    BY <1>3 DEF Holds
  <2>3. align # "FULL"
    BY <1>3
  <2> QED
    BY <1>1, <2>1, <2>2, <2>3 DEF Meets
<1>4. CASE p \in Word(Chars) /\ align \in Align
  <2>1. Len(p) \in Nat /\ Len(p) > 0 /\ p # <<Blank>>
    BY <1>4, WordNotBlank
  <2>2. CASE align \in {"FULL", "RIGHT"}
    <3>1. FixedFinds(p, align, r) <=> Len(p) <= LineLen /\ Ends(v, p)
      BY <1>1, <1>4, <2>2, EndsIs DEF FixedFinds
    <3>2. Holds(v, p, "RIGHT") <=> Ends(v, p)
      BY <2>1 DEF Holds
    <3>3. Holds(v, p, align) => Ends(v, p) /\ Len(p) <= LineLen
      <4>1. CASE align = "FULL"
        BY <1>2, <2>1, <4>1, WholeOccurs DEF Holds
      <4>2. CASE align = "RIGHT"
        <5> SUFFICES ASSUME Ends(v, p) PROVE Len(p) <= LineLen
          BY <3>2, <4>2
        <5>1. Len(v) - Len(p) >= 0
          BY DEF Ends, Occurs
        <5> QED
          BY <1>2, <2>1, <5>1
      <4> QED
        BY <2>2, <4>1, <4>2
    <3> QED
      BY <1>1, <2>2, <3>1, <3>2, <3>3 DEF Meets
  <2>3. CASE align = "ANY"
    <3>1. FixedFinds(p, align, r) <=> Len(p) <= LineLen /\ BMOnce(PadRow(r), p) >= 0
      BY <2>3 DEF FixedFinds
    <3>2. Holds(v, p, align) <=> \E i \in 0 .. Len(v) : Occurs(v, p, i)
      BY <2>1, <2>3 DEF Holds
    <3>3. FixedFinds(p, align, r) => Holds(v, p, align)
      BY <1>1, <1>4, <3>1, <3>2, AnyIs
    <3>4. ASSUME Holds(v, p, align), Cardinality(Border(p)) <= 1 PROVE FixedFinds(p, align, r)
      <4>1. PICK i \in 0 .. Len(v) : Occurs(v, p, i)
        BY <3>2, <3>4
      <4>2. i \in Nat /\ i \in Int
        BY <1>2
      <4>3. Len(p) <= Len(v)
        BY <1>2, <1>4, <4>1, <4>2, OccursWithin
      <4>4. Len(p) <= LineLen
        BY <1>2, <2>1, <4>3
      <4>5. BMOnce(PadRow(r), p) >= 0
        BY <1>1, <1>4, <3>4, <4>1, <4>2, AnyIs
      <4> QED
        BY <3>1, <4>4, <4>5
    <3> QED
      BY <1>1, <2>3, <3>3, <3>4 DEF Meets
  <2>4. CASE align = "LEFT"
    <3>1. FixedFinds(p, align, r) <=> Len(p) <= LineLen /\ FixedLeft(Text, p, r)
      BY <2>1, <2>4 DEF FixedFinds
    <3>2. Holds(v, p, align) <=> Occurs(v, p, 0)
      BY <2>1, <2>4 DEF Holds
    <3>3. CASE Len(v) < Len(p)
      <4>1. ~Occurs(v, p, 0)
        BY <1>2, <1>4, <2>1, <3>3, OccursWithin
      <4> QED
        BY <1>1, <2>4, <3>2, <3>3, <4>1 DEF Meets
    <3>4. CASE Len(p) <= Len(v)
      <4>1. FixedLeft(Text, p, r) <=> Occurs(v, p, 0)
        BY <1>1, <1>4, <3>4, LeftIs
      <4>2. Len(p) <= LineLen
        BY <1>2, <2>1, <3>4
      <4> QED
        BY <1>1, <2>4, <3>1, <3>2, <4>1, <4>2 DEF Meets
    <3> QED
      BY <1>2, <2>1, <3>3, <3>4
  <2> QED
    BY <1>4, <2>2, <2>3, <2>4 DEF Align
<1> QED
  BY <1>3, <1>4 DEF IsCall

(* A search of one row gives what a search of the column gives of it,      *)
(* except from the left in a value that is shorter than the string.        *)
LEMMA RowIs ==
  ASSUME column \in Columns, NEW r \in Rows, NEW p, NEW align, IsCall(p, align),
         ~(p = <<Blank>> /\ align = "LEFT"), NEW garbage
  PROVE  (align = "LEFT" => Len(Value(r)) >= Len(p)) => (RowFinds(p, align, r, garbage) <=> FixedFinds(p, align, r))
<1>1. CASE align # "LEFT"
  BY <1>1 DEF RowFinds, FixedFinds
<1>2. CASE align = "LEFT"
  <2>1. p \in Word(Chars) /\ p # <<Blank>> /\ Len(p) \in Nat
    BY <1>2, WordNotBlank DEF IsCall
  <2>2. Len(Value(r)) \in Nat
    BY ColumnIs
  <2> SUFFICES ASSUME Len(Value(r)) >= Len(p) PROVE RowFinds(p, align, r, garbage) <=> FixedFinds(p, align, r)
    BY <1>2
  <2>3. Len(p) <= Len(Value(r))
    BY <2>1, <2>2
  <2>4. (FixedLeft(Text, p, r) <=> Occurs(Value(r), p, 0)) /\ (RowLeft(Text, p, r, garbage) <=> Occurs(Value(r), p, 0))
    BY <2>1, <2>3, LeftIs
  <2> QED
    BY <1>2, <2>1, <2>4 DEF RowFinds, FixedFinds
<1> QED
  BY <1>1, <1>2

LEMMA RowMeets ==
  ASSUME column \in Columns, NEW r \in Rows, NEW p, NEW align, IsCall(p, align),
         ~(p = <<Blank>> /\ align = "LEFT"), NEW garbage
  PROVE  /\ RowFinds(p, align, r, garbage) => Meets(Value(r), p, align)
         /\ Holds(Value(r), p, align) /\ (align = "ANY" => Cardinality(Border(p)) <= 1)
              => RowFinds(p, align, r, garbage)
<1>1. PICK v : v = Value(r)
  OBVIOUS
<1>2. Len(v) \in Nat /\ v \in Seq(Chars)
  BY <1>1, ColumnIs
<1>3. CASE align = "LEFT" /\ ~(Len(v) >= Len(p))
  <2>1. p \in Word(Chars) /\ p # <<Blank>> /\ Len(p) \in Nat
    BY <1>3, WordNotBlank DEF IsCall
  <2>2. Len(v) < Len(p)
    BY <1>2, <1>3, <2>1
  <2>3. ~Holds(v, p, align)
    <3>1. ~Occurs(v, p, 0)
      BY <1>2, <2>1, <2>2, OccursWithin
    <3> QED
      BY <1>3, <2>1, <3>1 DEF Holds
  <2> QED
    BY <1>1, <1>3, <2>2, <2>3 DEF Meets
<1>4. CASE align = "LEFT" => Len(v) >= Len(p)
  BY <1>1, <1>4, FixedIs, RowIs
<1> QED
  BY <1>3, <1>4

-----------------------------------------------------------------------------
(***************************************************************************)
(* Lists of rows                                                           *)
(***************************************************************************)
Distinct(m) == \A i, j \in DOMAIN m : m[i] = m[j] => i = j

LEMMA DistinctCounted ==
  ASSUME NEW X, NEW m \in Seq(X), Distinct(m)
  PROVE  IsFiniteSet(Listed(m)) /\ Cardinality(Listed(m)) = Len(m)
<1>1. PICK n \in Nat : n = Len(m)
  OBVIOUS
<1>2. DOMAIN m = 1 .. n
  BY <1>1
<1>3. m \in Bijection(1 .. n, Listed(m))
  BY <1>2 DEF Bijection, Injection, Surjection, IsInjective, Distinct, Listed
<1>4. ExistsBijection(1 .. n, Listed(m))
  BY <1>3 DEF ExistsBijection
<1>5. IsFiniteSet(1 .. n) /\ Cardinality(1 .. n) = n
  <2>1. 1 \in Int /\ n \in Int /\ (n < 1 => n = 0) /\ n - 1 + 1 = n
    BY <1>1
  <2>2. IsFiniteSet(1 .. n) /\ Cardinality(1 .. n) = IF 1 > n THEN 0 ELSE n - 1 + 1
    BY <2>1, FS_Interval
  <2> QED
    BY <2>1, <2>2
<1> QED
  BY <1>1, <1>4, <1>5, FS_Bijection

LEMMA JoinIs ==
  ASSUME NEW X, NEW a \in Seq(X), NEW b \in Seq(X)
  PROVE  /\ a \o b \in Seq(X) /\ Listed(a \o b) = Listed(a) \union Listed(b)
         /\ Distinct(a) /\ Distinct(b) /\ Listed(a) \intersect Listed(b) = {} => Distinct(a \o b)
<1>1. PICK k \in Nat : k = Len(a)
  OBVIOUS
<1>2. PICK l \in Nat : l = Len(b)
  OBVIOUS
<1>3. PICK c : c = a \o b
  OBVIOUS
<1>4. /\ c \in Seq(X) /\ Len(c) = k + l
      /\ \A i \in 1 .. k + l : c[i] = IF i <= k THEN a[i] ELSE b[i - k]
  BY <1>1, <1>2, <1>3, ConcatProperties
<1>5. DOMAIN a = 1 .. k /\ DOMAIN b = 1 .. l /\ DOMAIN c = 1 .. k + l
  BY <1>1, <1>2, <1>4
<1>6. ASSUME NEW i \in 1 .. k PROVE i \in 1 .. k + l /\ c[i] = a[i]
  BY <1>4
<1>7. ASSUME NEW i \in 1 .. l PROVE k + i \in 1 .. k + l /\ c[k + i] = b[i]
  <2>1. k + i \in 1 .. k + l /\ ~(k + i <= k) /\ (k + i) - k = i
    OBVIOUS
  <2> QED
    BY <1>4, <2>1
<1>8. ASSUME NEW i \in 1 .. k + l, ~(i \in 1 .. k) PROVE i - k \in 1 .. l /\ c[i] = b[i - k]
  <2>1. i - k \in 1 .. l /\ ~(i <= k)
    BY <1>8
  <2> QED
    BY <1>4, <2>1
<1>9. Listed(c) = Listed(a) \union Listed(b)
  <2>1. ASSUME NEW x \in Listed(c) PROVE x \in Listed(a) \union Listed(b)
    <3>1. PICK i \in 1 .. k + l : x = c[i]
      BY <1>5 DEF Listed
    <3> QED
      BY <1>5, <1>6, <1>8, <3>1 DEF Listed
  <2>2. ASSUME NEW x \in Listed(a) PROVE x \in Listed(c)
    BY <1>5, <1>6 DEF Listed
  <2>3. ASSUME NEW x \in Listed(b) PROVE x \in Listed(c)
    BY <1>5, <1>7 DEF Listed
  <2> QED
    BY <2>1, <2>2, <2>3
<1>10. ASSUME Distinct(a), Distinct(b), Listed(a) \intersect Listed(b) = {} PROVE Distinct(c)
  <2>1. \A i \in 1 .. k, j \in 1 .. l : a[i] # b[j]
    BY <1>5, <1>10 DEF Listed
  <2> SUFFICES ASSUME NEW i \in 1 .. k + l, NEW j \in 1 .. k + l, c[i] = c[j] PROVE i = j
    BY <1>5 DEF Distinct
  <2>2. CASE i \in 1 .. k /\ j \in 1 .. k
    BY <1>5, <1>6, <1>10, <2>2 DEF Distinct
  <2>3. CASE i \in 1 .. k /\ ~(j \in 1 .. k)
    BY <1>6, <1>8, <2>1, <2>3
  <2>4. CASE ~(i \in 1 .. k) /\ j \in 1 .. k
    BY <1>6, <1>8, <2>1, <2>4
  <2>5. CASE ~(i \in 1 .. k) /\ ~(j \in 1 .. k)
    <3>1. i - k \in 1 .. l /\ j - k \in 1 .. l /\ b[i - k] = b[j - k]
      BY <1>8, <2>5
    <3>2. i - k = j - k
      BY <1>5, <1>10, <3>1 DEF Distinct
    <3> QED
      BY <3>2
  <2> QED
    BY <2>2, <2>3, <2>4, <2>5
<1> QED
  BY <1>3, <1>4, <1>9, <1>10

LEMMA SingleIs ==
  ASSUME NEW X, NEW x \in X
  PROVE  <<x>> \in Seq(X) /\ Listed(<<x>>) = {x} /\ Distinct(<<x>>)
<1>1. <<x>> \in Seq(X) /\ Len(<<x>>) = 1 /\ <<x>>[1] = x
  OBVIOUS
<1>2. DOMAIN <<x>> = {1}
  OBVIOUS
<1> QED
  BY <1>1, <1>2 DEF Listed, Distinct

LEMMA NoneIs ==
  ASSUME NEW X
  PROVE  <<>> \in Seq(X) /\ Listed(<<>>) = {} /\ Distinct(<<>>)
<1>1. <<>> \in Seq(X) /\ DOMAIN <<>> = {}
  OBVIOUS
<1> QED
  BY <1>1 DEF Listed, Distinct

LEMMA OnlyIs ==
  ASSUME NEW X, NEW s \in Seq(X), NEW S
  PROVE  /\ Only(s, S) \in Seq(X) /\ Listed(Only(s, S)) = Listed(s) \intersect S
         /\ Distinct(s) => Distinct(Only(s, S))
<1>1. PICK N \in Nat : N = Len(s)
  OBVIOUS
<1>2. DOMAIN s = 1 .. N
  BY <1>1
<1> DEFINE part(n)  == IF s[n] \in S THEN <<s[n]>> ELSE <<>>
           Is(u, k) == u = [n \in 0 .. k |-> IF n = 0 THEN <<>> ELSE u[n - 1] \o part(n)]
           T == CHOOSE u : Is(u, N)
           P == {k \in Nat : \E u : Is(u, k)}
           Got(k) == {s[i] : i \in {i \in 1 .. k : s[i] \in S}}
           Good(t, k) == /\ t \in Seq(X) /\ Listed(t) = Got(k)
                         /\ Distinct(s) => Distinct(t)
           Q == {k \in Nat : k <= N => Good(T[k], k)}
<1>3. Only(s, S) = T[N]
  BY <1>1 DEF Only
<1> HIDE DEF part
<1>4. 0 \in P
  <2>1. Is([n \in 0 .. 0 |-> <<>>], 0)
    OBVIOUS
  <2> QED
    BY <2>1
<1>5. ASSUME NEW k \in Nat, k \in P PROVE k + 1 \in P
  <2>1. PICK u : Is(u, k)
    BY <1>5
  <2> DEFINE w == [n \in 0 .. k + 1 |-> IF n <= k THEN u[n] ELSE u[k] \o part(k + 1)]
  <2>2. \A n \in 0 .. k : u[n] = IF n = 0 THEN <<>> ELSE u[n - 1] \o part(n)
    BY <2>1
  <2>3. ASSUME NEW n \in 0 .. k + 1 PROVE w[n] = IF n = 0 THEN <<>> ELSE w[n - 1] \o part(n)
    <3>1. CASE n = 0
      BY <2>2, <3>1
    <3>2. CASE n \in 1 .. k
      <4>1. w[n] = u[n] /\ w[n - 1] = u[n - 1]
        BY <3>2
      <4> QED
        BY <2>2, <3>2, <4>1
    <3>3. CASE n = k + 1
      <4>1. w[n] = u[k] \o part(k + 1) /\ w[n - 1] = u[k]
        BY <3>3
      <4> QED
        BY <3>3, <4>1
    <3> QED
      BY <3>1, <3>2, <3>3
  <2>4. w = [n \in 0 .. k + 1 |-> w[n]]
    OBVIOUS
  <2> HIDE DEF w
  <2>5. Is(w, k + 1)
    BY <2>3, <2>4
  <2> HIDE DEF Is
  <2> QED
    BY <2>5
<1>6. Is(T, N)
  <2>1. Nat \subseteq P
    <3> HIDE DEF P
    <3> QED
      BY <1>4, <1>5, SetInduction
  <2>2. N \in P
    BY <2>1
  <2> HIDE DEF Is
  <2> QED
    BY <2>2
<1> HIDE DEF T
<1>7. T[0] = <<>> /\ \A n \in 1 .. N : T[n] = T[n - 1] \o part(n)
  <2>1. \A n \in 0 .. N : T[n] = IF n = 0 THEN <<>> ELSE T[n - 1] \o part(n)
    BY <1>6
  <2>2. T[0] = <<>>
    BY <2>1
  <2>3. ASSUME NEW n \in 1 .. N PROVE T[n] = T[n - 1] \o part(n)
    <3>1. n \in 0 .. N /\ n # 0
      OBVIOUS
    <3> QED
      BY <2>1, <3>1
  <2> QED
    BY <2>2, <2>3
<1>8. 0 \in Q
  <2>1. Got(0) = {}
    OBVIOUS
  <2>2. Good(T[0], 0)
    BY <1>7, <2>1, NoneIs
  <2> HIDE DEF Good
  <2> QED
    BY <2>2
<1>9. ASSUME NEW k \in Nat, k \in Q PROVE k + 1 \in Q
  <2> SUFFICES ASSUME k + 1 <= N PROVE Good(T[k + 1], k + 1)
    OBVIOUS
  <2>1. Good(T[k], k)
    BY <1>1, <1>9
  <2>2. PICK t : t = T[k]
    OBVIOUS
  <2>3. k + 1 \in 1 .. N /\ (k + 1) - 1 = k
    BY <1>1
  <2>4. T[k + 1] = t \o part(k + 1)
    BY <1>7, <2>2, <2>3
  <2>5. PICK x : x = s[k + 1]
    OBVIOUS
  <2>6. x \in X
    BY <1>1, <2>3, <2>5
  <2>7. \A i \in 1 .. k + 1 : i \in 1 .. k \/ i = k + 1
    OBVIOUS
  <2>8. 1 .. k \subseteq 1 .. k + 1 /\ k + 1 \in 1 .. k + 1
    OBVIOUS
  <2>9. CASE x \in S
    <3>1. part(k + 1) = <<x>>
      BY <2>5, <2>9 DEF part
    <3>2. Got(k + 1) = Got(k) \union {x}
      <4>1. ASSUME NEW y \in Got(k + 1) PROVE y \in Got(k) \union {x}
        BY <2>5, <2>7
      <4>2. Got(k) \subseteq Got(k + 1)
        BY <2>8
      <4>3. x \in Got(k + 1)
        BY <2>5, <2>8, <2>9
      <4> QED
        BY <4>1, <4>2, <4>3
    <3>3. Distinct(s) => x \notin Got(k)
      <4> SUFFICES ASSUME Distinct(s), NEW i \in 1 .. k, s[i] = x PROVE FALSE
        OBVIOUS
      <4>1. i \in DOMAIN s /\ k + 1 \in DOMAIN s /\ i # k + 1
        BY <1>2, <2>3
      <4> QED
        BY <2>5, <4>1 DEF Distinct
    <3>4. <<x>> \in Seq(X) /\ Listed(<<x>>) = {x} /\ Distinct(<<x>>)
      BY <2>6, SingleIs
    <3>5. t \in Seq(X) /\ Listed(t) = Got(k) /\ (Distinct(s) => Distinct(t))
      BY <2>1, <2>2
    <3> HIDE DEF Got
    <3>6. t \o <<x>> \in Seq(X) /\ Listed(t \o <<x>>) = Got(k + 1)
      <4>1. PICK y : y = <<x>>
        OBVIOUS
      <4>2. y \in Seq(X) /\ Listed(y) = {x}
        BY <3>4, <4>1
      <4>3. t \o y \in Seq(X) /\ Listed(t \o y) = Listed(t) \union Listed(y)
        BY <3>5, <4>2, JoinIs
      <4> QED
        BY <3>2, <3>5, <4>1, <4>2, <4>3
    <3>7. Distinct(s) => Distinct(t \o <<x>>)
      <4> SUFFICES ASSUME Distinct(s) PROVE Distinct(t \o <<x>>)
        OBVIOUS
      <4>1. Distinct(t) /\ Listed(t) \intersect Listed(<<x>>) = {}
        BY <3>3, <3>4, <3>5
      <4> QED
        BY <3>4, <3>5, <4>1, JoinIs
    <3> QED
      BY <2>4, <3>1, <3>6, <3>7
  <2>10. CASE x \notin S
    <3>1. part(k + 1) = <<>>
      BY <2>5, <2>10 DEF part
    <3>2. Got(k + 1) = Got(k)
      <4>1. ASSUME NEW y \in Got(k + 1) PROVE y \in Got(k)
        BY <2>5, <2>7, <2>10
      <4>2. Got(k) \subseteq Got(k + 1)
        BY <2>8
      <4> QED
        BY <4>1, <4>2
    <3>3. t \in Seq(X) /\ Listed(t) = Got(k) /\ (Distinct(s) => Distinct(t))
      BY <2>1, <2>2
    <3> HIDE DEF Got
    <3>4. t \o <<>> = t
      BY <3>3
    <3> QED
      BY <2>4, <3>1, <3>2, <3>3, <3>4
  <2> QED
    BY <2>9, <2>10
<1>10. Good(T[N], N)
  <2>1. Nat \subseteq Q
    <3> HIDE DEF Q
    <3> QED
      BY <1>8, <1>9, SetInduction
  <2>2. N \in Q
    BY <2>1
  <2> HIDE DEF Good
  <2> QED
    BY <2>2
<1>11. Got(N) = Listed(s) \intersect S
  BY <1>2 DEF Listed
<1> HIDE DEF Got
<1> QED
  BY <1>3, <1>10, <1>11

LEMMA RowListIs ==
  ASSUME column \in Columns
  PROVE  RowList \in Seq(Rows) /\ Listed(RowList) = Rows /\ Distinct(RowList) /\ Len(RowList) = Len(column)
<1>1. PICK N \in Nat : N = Len(column)
  BY ColumnIs
<1>2. DOMAIN column = 1 .. N /\ Rows = 0 .. N - 1
  BY <1>1, ColumnIs DEF Rows
<1>3. PICK l : l = RowList
  OBVIOUS
<1>4. l = [i \in 1 .. N |-> i - 1]
  BY <1>2, <1>3 DEF RowList
<1>5. \A i \in 1 .. N : i - 1 \in Rows
  BY <1>2
<1>6. l \in Seq(Rows) /\ Len(l) = N /\ DOMAIN l = 1 .. N
  BY <1>4, <1>5
<1>7. Distinct(l)
  <2> SUFFICES ASSUME NEW i \in 1 .. N, NEW j \in 1 .. N, l[i] = l[j] PROVE i = j
    BY <1>6 DEF Distinct
  <2> QED
    BY <1>4
<1>8. Listed(l) = Rows
  <2>1. ASSUME NEW x \in Listed(l) PROVE x \in Rows
    BY <1>4, <1>5, <1>6 DEF Listed
  <2>2. ASSUME NEW x \in Rows PROVE x \in Listed(l)
    <3>1. x + 1 \in 1 .. N /\ (x + 1) - 1 = x
      BY <1>2
    <3>2. l[x + 1] = x
      BY <1>4, <3>1
    <3> QED
      BY <1>6, <3>1, <3>2 DEF Listed
  <2> QED
    BY <2>1, <2>2
<1> QED
  BY <1>1, <1>3, <1>6, <1>7, <1>8

LEMMA FoundIs ==
  ASSUME column \in Columns, NEW p, NEW align
  PROVE  /\ Found(p, align) \in Seq(Rows) /\ Distinct(Found(p, align))
         /\ Listed(Found(p, align)) = {r \in Rows : Finds(p, align, r)}
<1>1. RowList \in Seq(Rows) /\ Listed(RowList) = Rows /\ Distinct(RowList)
  BY RowListIs
<1>2. PICK S : S = {r \in Rows : Finds(p, align, r)}
  OBVIOUS
<1>3. Only(RowList, S) \in Seq(Rows) /\ Listed(Only(RowList, S)) = Rows \intersect S /\ Distinct(Only(RowList, S))
  BY <1>1, OnlyIs
<1> QED
  BY <1>2, <1>3 DEF Found

LEMMA UnionIs ==
  ASSUME NEW X, NEW m \in Seq(X), NEW f \in Seq(X), X \subseteq Rows, Distinct(m), Distinct(f)
  PROVE  Union(m, f) \in Seq(X) /\ Distinct(Union(m, f)) /\ Listed(Union(m, f)) = Listed(m) \union Listed(f)
<1>1. PICK S : S = Rows \ Listed(m)
  OBVIOUS
<1>2. PICK g : g = Only(f, S)
  OBVIOUS
<1>3. g \in Seq(X) /\ Listed(g) = Listed(f) \intersect S /\ Distinct(g)
  BY <1>2, OnlyIs
<1>4. Listed(f) \subseteq Rows
  <2>1. ASSUME NEW i \in DOMAIN f PROVE f[i] \in X
    OBVIOUS
  <2> QED
    BY <2>1 DEF Listed
<1>5. Listed(m) \intersect Listed(g) = {}
  BY <1>1, <1>3
<1>6. m \o g \in Seq(X) /\ Listed(m \o g) = Listed(m) \union Listed(g) /\ Distinct(m \o g)
  BY <1>3, <1>5, JoinIs
<1>7. Listed(m) \union Listed(g) = Listed(m) \union Listed(f)
  BY <1>1, <1>3, <1>4
<1> QED
  BY <1>1, <1>2, <1>6, <1>7 DEF Union

LEMMA KeepIs ==
  ASSUME NEW X, NEW m \in Seq(X), NEW places
  PROVE  /\ KeepPlaces(m, places) \in Seq(X)
         /\ Listed(KeepPlaces(m, places)) = {m[n] : n \in DOMAIN m \intersect places}
         /\ Distinct(m) => Distinct(KeepPlaces(m, places))
<1>1. PICK N \in Nat : N = Len(m)
  OBVIOUS
<1>2. DOMAIN m = 1 .. N
  BY <1>1
<1>3. PICK l : l = [n \in DOMAIN m |-> n]
  OBVIOUS
<1>4. l = [n \in 1 .. N |-> n] /\ l \in Seq(1 .. N) /\ DOMAIN l = 1 .. N
  BY <1>2, <1>3
<1>5. Distinct(l) /\ Listed(l) = 1 .. N
  <2>1. \A n \in 1 .. N : l[n] = n
    BY <1>4
  <2>2. Listed(l) = {l[n] : n \in 1 .. N}
    BY <1>4 DEF Listed
  <2> QED
    BY <1>4, <2>1, <2>2 DEF Distinct
<1>6. PICK keep : keep = Only(l, places)
  OBVIOUS
<1>7. keep \in Seq(1 .. N) /\ Listed(keep) = (1 .. N) \intersect places /\ Distinct(keep)
  <2>1. keep \in Seq(1 .. N) /\ Listed(keep) = Listed(l) \intersect places /\ (Distinct(l) => Distinct(keep))
    <3>1. l \in Seq(1 .. N)
      BY <1>4
    <3> QED
      BY <1>6, <3>1, OnlyIs
  <2> QED
    BY <1>5, <2>1
<1>8. PICK k : k = KeepPlaces(m, places)
  OBVIOUS
<1>9. k = [n \in DOMAIN keep |-> m[keep[n]]]
  BY <1>3, <1>6, <1>8 DEF KeepPlaces
<1>10. PICK h \in Nat : h = Len(keep)
  BY <1>7
<1>11. DOMAIN keep = 1 .. h /\ \A n \in 1 .. h : keep[n] \in 1 .. N
  BY <1>7, <1>10
<1>12. \A n \in 1 .. N : m[n] \in X
  BY <1>2
<1>13. k \in Seq(X) /\ DOMAIN k = 1 .. h /\ \A n \in 1 .. h : k[n] = m[keep[n]]
  BY <1>9, <1>11, <1>12
<1>14. Listed(k) = {m[n] : n \in DOMAIN m \intersect places}
  <2>1. ASSUME NEW x \in Listed(k) PROVE x \in {m[n] : n \in DOMAIN m \intersect places}
    <3>1. PICK n \in 1 .. h : x = m[keep[n]]
      BY <1>13 DEF Listed
    <3>2. keep[n] \in (1 .. N) \intersect places
      BY <1>7, <1>11 DEF Listed
    <3> QED
      BY <1>2, <3>1, <3>2
  <2>2. ASSUME NEW n \in DOMAIN m \intersect places PROVE m[n] \in Listed(k)
    <3>1. n \in Listed(keep)
      BY <1>2, <1>7
    <3>2. PICK i \in 1 .. h : keep[i] = n
      BY <1>11, <3>1 DEF Listed
    <3> QED
      BY <1>13, <3>2 DEF Listed
  <2> QED
    BY <2>1, <2>2
<1>15. ASSUME Distinct(m) PROVE Distinct(k)
  <2> SUFFICES ASSUME NEW i \in 1 .. h, NEW j \in 1 .. h, k[i] = k[j] PROVE i = j
    BY <1>13 DEF Distinct
  <2>1. m[keep[i]] = m[keep[j]] /\ keep[i] \in DOMAIN m /\ keep[j] \in DOMAIN m
    BY <1>2, <1>11, <1>13
  <2>2. keep[i] = keep[j]
    BY <1>15, <2>1 DEF Distinct
  <2> QED
    BY <1>7, <1>11, <2>2 DEF Distinct
<1> QED
  BY <1>8, <1>13, <1>14, <1>15

Ascends(m) == \A i \in 1 .. Len(m) - 1 : m[i] < m[i + 1]

LEMMA LastIsMost ==
  ASSUME NEW X, X \subseteq Int, NEW m \in Seq(X), Ascends(m)
  PROVE  \A j \in 1 .. Len(m) : m[j] \in Int /\ m[j] <= m[Len(m)]
<1>1. PICK N \in Nat : N = Len(m)
  OBVIOUS
<1> DEFINE P == {k \in Nat : \A j \in 1 .. N : N - j <= k => m[j] <= m[N]}
<1>2. \A j \in 1 .. N : m[j] \in Int
  <2>1. \A j \in 1 .. N : m[j] \in X
    BY <1>1
  <2> QED
    BY <2>1
<1>3. 0 \in P
  <2> SUFFICES ASSUME NEW j \in 1 .. N, N - j <= 0 PROVE m[j] <= m[N]
    OBVIOUS
  <2>1. j = N
    BY <1>1
  <2> QED
    BY <1>2, <2>1
<1>4. ASSUME NEW k \in Nat, k \in P PROVE k + 1 \in P
  <2> SUFFICES ASSUME NEW j \in 1 .. N, N - j <= k + 1 PROVE m[j] <= m[N]
    OBVIOUS
  <2>1. CASE j = N
    BY <1>2, <2>1
  <2>2. CASE j # N
    <3>1. j \in 1 .. N - 1 /\ j + 1 \in 1 .. N /\ N - (j + 1) <= k
      BY <1>1, <2>2
    <3>2. m[j] < m[j + 1]
      BY <1>1, <3>1 DEF Ascends
    <3>3. m[j + 1] <= m[N]
      BY <1>4, <3>1
    <3>4. m[j] \in Int /\ m[j + 1] \in Int /\ m[N] \in Int
      <4>1. N \in 1 .. N
        BY <1>1, <3>1
      <4> QED
        BY <1>2, <3>1, <4>1
    <3> QED
      BY <3>2, <3>3, <3>4
  <2> QED
    BY <2>1, <2>2
<1>5. Nat \subseteq P
  <2> HIDE DEF P
  <2> QED
    BY <1>3, <1>4, SetInduction
<1>6. ASSUME NEW j \in 1 .. N PROVE m[j] <= m[N]
  <2>1. N - j \in Nat /\ N - j <= N - j
    BY <1>1
  <2>2. N - j \in P
    BY <1>5, <2>1
  <2> QED
    BY <2>1, <2>2
<1> QED
  BY <1>1, <1>2, <1>6

LEMMA InStepIs ==
  ASSUME column \in Columns, NEW m \in Seq(Rows), Distinct(m), NEW stale
  PROVE  /\ InStep(m, stale) \in Seq(Rows) /\ Distinct(InStep(m, stale))
         /\ Ascends(m) => Listed(m) \subseteq Listed(InStep(m, stale))
<1>1. PICK N \in Nat : N = Len(m)
  OBVIOUS
<1>2. DOMAIN m = 1 .. N
  BY <1>1
<1>3. PICK K : K = {k \in 1 .. N : \A i \in 1 .. k - 1 : m[i] < m[i + 1]}
  OBVIOUS
<1>4. PICK n : n = Cardinality(K)
  OBVIOUS
<1>5. IsFiniteSet(1 .. N) /\ Cardinality(1 .. N) = N
  <2>1. 1 \in Int /\ N \in Int /\ (N < 1 => N = 0) /\ N - 1 + 1 = N
    BY <1>1
  <2>2. IsFiniteSet(1 .. N) /\ Cardinality(1 .. N) = IF 1 > N THEN 0 ELSE N - 1 + 1
    BY <2>1, FS_Interval
  <2> QED
    BY <2>1, <2>2
<1>6. K \in SUBSET (1 .. N)
  BY <1>3
<1>7. IsFiniteSet(K) /\ n <= N /\ (n = N => K = 1 .. N)
  BY <1>4, <1>5, <1>6, FS_Subset
<1>8. n \in Nat
  BY <1>4, <1>7, FS_CardinalityType
<1>9. n = N <=> Ascends(m)
  <2>1. ASSUME n = N PROVE Ascends(m)
    <3> SUFFICES ASSUME NEW i \in 1 .. N - 1 PROVE m[i] < m[i + 1]
      BY <1>1 DEF Ascends
    <3>1. N \in 1 .. N
      BY <1>1
    <3>2. N \in K
      BY <1>7, <2>1, <3>1
    <3> QED
      BY <1>3, <3>2
  <2>2. ASSUME Ascends(m) PROVE n = N
    <3>1. ASSUME NEW k \in 1 .. N PROVE k \in K
      <4>1. \A i \in 1 .. k - 1 : i \in 1 .. N - 1
        BY <1>1
      <4> QED
        BY <1>1, <1>3, <2>2, <4>1 DEF Ascends
    <3>2. K = 1 .. N
      BY <1>6, <3>1
    <3> QED
      BY <1>4, <1>5, <3>2
  <2> QED
    BY <2>1, <2>2
<1>10. PICK later : later = {r \in stale : n > 0 => m[n] < r}
  OBVIOUS
<1>11. InStep(m, stale) = IF n < N THEN SubSeq(m, 1, n) ELSE m \o Only(RowList, later)
  BY <1>1, <1>2, <1>3, <1>4, <1>10 DEF InStep
<1>12. CASE n < N
  <2>1. PICK u : u = SubSeq(m, 0 + 1, 0 + n)
    OBVIOUS
  <2>2. n \in Nat /\ 0 \in Nat /\ 0 + n <= Len(m)
    BY <1>1, <1>8, <1>12
  <2>3. u \in Seq(Rows) /\ Len(u) = n /\ \A i \in 1 .. n : u[i] = m[0 + i]
    BY <2>1, <2>2, SubSeqIs
  <2>4. InStep(m, stale) = u
    <3>1. 0 + 1 = 1 /\ 0 + n = n
      BY <1>8
    <3> QED
      BY <1>11, <1>12, <2>1, <3>1
  <2>5. Distinct(u)
    <3>1. DOMAIN u = 1 .. n
      BY <2>3
    <3> SUFFICES ASSUME NEW i \in 1 .. n, NEW j \in 1 .. n, u[i] = u[j] PROVE i = j
      BY <3>1 DEF Distinct
    <3>2. i \in DOMAIN m /\ j \in DOMAIN m /\ 0 + i = i /\ 0 + j = j
      BY <1>1, <1>2, <1>8, <1>12
    <3>3. m[i] = m[j]
      BY <2>3, <3>2
    <3> QED
      BY <3>2, <3>3 DEF Distinct
  <2>6. ~Ascends(m)
    BY <1>1, <1>8, <1>9, <1>12
  <2> QED
    BY <2>3, <2>4, <2>5, <2>6
<1>13. CASE ~(n < N)
  <2>1. n = N
    BY <1>1, <1>7, <1>8, <1>13
  <2>2. PICK g : g = Only(RowList, later)
    OBVIOUS
  <2>3. RowList \in Seq(Rows) /\ Listed(RowList) = Rows /\ Distinct(RowList)
    BY RowListIs
  <2>4. g \in Seq(Rows) /\ Listed(g) = Rows \intersect later /\ Distinct(g)
    BY <2>2, <2>3, OnlyIs
  <2>5. Listed(m) \intersect Listed(g) = {}
    <3> SUFFICES ASSUME NEW j \in 1 .. N, m[j] \in later PROVE FALSE
      BY <1>2, <2>4 DEF Listed
    <3>1. Rows \subseteq Int /\ Ascends(m)
      BY <1>9, <2>1 DEF Rows
    <3>2. m[j] \in Int /\ m[N] \in Int /\ m[j] <= m[N]
      <4>1. N \in 1 .. N
        BY <1>1
      <4> QED
        BY <1>1, <3>1, <4>1, LastIsMost
    <3>3. m[N] < m[j]
      BY <1>1, <1>10, <2>1
    <3> QED
      BY <3>2, <3>3
  <2>6. m \o g \in Seq(Rows) /\ Listed(m \o g) = Listed(m) \union Listed(g) /\ Distinct(m \o g)
    BY <2>4, <2>5, JoinIs
  <2>7. InStep(m, stale) = m \o g
    BY <1>11, <1>13, <2>2
  <2> QED
    BY <2>6, <2>7
<1> QED
  BY <1>12, <1>13

-----------------------------------------------------------------------------
(***************************************************************************)
(* The maps list rows of the column, each once                             *)
(***************************************************************************)
Map(m) == m \in Seq(Rows) /\ Distinct(m)

Inv == /\ column \in Columns /\ fixed \in BOOLEAN
       /\ Map(map) /\ Map(ref)

LEMMA FullIs ==
  ASSUME column \in Columns, NEW m, Map(m), BeSizeFul(m)
  PROVE  Listed(m) = Rows /\ m # <<>>
<1>1. PICK N \in Nat : N = Len(column) /\ N > 0
  BY ColumnIs
<1>2. m \in Seq(Rows) /\ Distinct(m) /\ Len(m) = N
  BY <1>1 DEF Map, BeSizeFul
<1>3. m # <<>>
  BY <1>1, <1>2
<1>4. IsFiniteSet(Listed(m)) /\ Cardinality(Listed(m)) = N
  BY <1>2, DistinctCounted
<1>5. IsFiniteSet(Rows) /\ Cardinality(Rows) = N
  <2>1. 0 \in Int /\ N - 1 \in Int /\ ~(0 > N - 1) /\ (N - 1) - 0 + 1 = N
    BY <1>1
  <2>2. IsFiniteSet(0 .. N - 1) /\ Cardinality(0 .. N - 1) = IF 0 > N - 1 THEN 0 ELSE (N - 1) - 0 + 1
    BY <2>1, FS_Interval
  <2> QED
    BY <1>1, <2>1, <2>2 DEF Rows
<1>6. Listed(m) \in SUBSET Rows
  <2>1. \A i \in DOMAIN m : m[i] \in Rows
    BY <1>2
  <2> QED
    BY <2>1 DEF Listed
<1> QED
  BY <1>3, <1>4, <1>5, <1>6, FS_Subset

LEMMA ScanIs ==
  ASSUME Inv, NEW p, NEW align, NEW m \in Scan(p, align)
  PROVE  /\ Map(m)
         /\ Listed(m) = Listed(map)
              \union {r \in Rows : Finds(p, IF fixed /\ Len(p) = LineLen THEN "FULL" ELSE align, r)}
<1>1. PICK a : a = IF fixed /\ Len(p) = LineLen THEN "FULL" ELSE align
  OBVIOUS
<1>2. m = Union(map, Found(p, a))
  BY <1>1 DEF Scan
<1>3. /\ Found(p, a) \in Seq(Rows) /\ Distinct(Found(p, a))
      /\ Listed(Found(p, a)) = {r \in Rows : Finds(p, a, r)}
  BY FoundIs DEF Inv
<1>4. map \in Seq(Rows) /\ Distinct(map) /\ Rows \subseteq Rows
  BY DEF Inv, Map
<1>5. /\ Union(map, Found(p, a)) \in Seq(Rows) /\ Distinct(Union(map, Found(p, a)))
      /\ Listed(Union(map, Found(p, a))) = Listed(map) \union Listed(Found(p, a))
  BY <1>3, <1>4, UnionIs
<1> QED
  BY <1>1, <1>2, <1>3, <1>5 DEF Map

LEMMA PushdownIs ==
  ASSUME Inv, NEW p, Len(p) \in Int, NEW align, NEW m \in Pushdown(p, align)
  PROVE  /\ Map(m)
         /\ BeSizeFul(map) => Listed(map) = Rows /\ m = Found(p, align) /\ Listed(m) = {r \in Rows : Finds(p, align, r)}
         /\ ~BeSizeFul(map) /\ ~fixed => Listed(m) = {r \in Listed(map) : Finds(p, align, r)}
         /\ ~BeSizeFul(map) /\ fixed /\ Len(p) <= LineLen /\ ~(p = <<Blank>> /\ align = "LEFT") =>
              \E garbage : Listed(m) = {r \in Listed(map) : RowFinds(p, align, r, garbage)}
<1>1. column \in Columns /\ fixed \in BOOLEAN /\ map \in Seq(Rows) /\ Distinct(map) /\ Map(map)
  BY DEF Inv, Map
<1>2. PICK f : f = Found(p, align)
  OBVIOUS
<1>3. f \in Seq(Rows) /\ Distinct(f) /\ Listed(f) = {r \in Rows : Finds(p, align, r)}
  BY <1>1, <1>2, FoundIs
<1>4. CASE BeSizeFul(map)
  <2>1. Listed(map) = Rows /\ map # <<>>
    BY <1>1, <1>4, FullIs
  <2>2. m = f
    BY <1>2, <1>4, <2>1 DEF Pushdown
  <2> QED
    BY <1>2, <1>3, <1>4, <2>1, <2>2 DEF Map
<1>5. CASE ~BeSizeFul(map) /\ ~fixed
  <2>1. m = Only(f, Listed(map))
    BY <1>2, <1>5 DEF Pushdown
  <2>2. /\ Only(f, Listed(map)) \in Seq(Rows) /\ Listed(Only(f, Listed(map))) = Listed(f) \intersect Listed(map)
        /\ Distinct(Only(f, Listed(map)))
    BY <1>3, OnlyIs
  <2>3. Listed(map) \subseteq Rows
    <3>1. \A i \in DOMAIN map : map[i] \in Rows
      BY <1>1
    <3> QED
      BY <3>1 DEF Listed
  <2>4. Listed(m) = {r \in Listed(map) : Finds(p, align, r)}
    BY <1>3, <2>1, <2>2, <2>3
  <2> QED
    BY <1>5, <2>1, <2>2, <2>4 DEF Map
<1>6. CASE ~BeSizeFul(map) /\ fixed /\ Len(p) > LineLen
  <2>1. m = map
    BY <1>6 DEF Pushdown
  <2>2. ~(Len(p) <= LineLen)
    BY <1>6, ColumnAssumption
  <2> QED
    BY <1>1, <1>6, <2>1, <2>2
<1>7. CASE ~BeSizeFul(map) /\ fixed /\ ~(Len(p) > LineLen)
  <2>1. PICK garbage \in Garbage : m = KeepPlaces(map, {n \in DOMAIN map : PlaceFinds(p, align, map, n, garbage)})
    BY <1>7 DEF Pushdown
  <2>2. PICK places : places = {n \in DOMAIN map : PlaceFinds(p, align, map, n, garbage)}
    OBVIOUS
  <2>3. m \in Seq(Rows) /\ Listed(m) = {map[n] : n \in DOMAIN map \intersect places} /\ Distinct(m)
    BY <1>1, <2>1, <2>2, KeepIs
  <2>4. ASSUME ~(p = <<Blank>> /\ align = "LEFT")
        PROVE  Listed(m) = {r \in Listed(map) : RowFinds(p, align, r, garbage)}
    <3>1. places = {n \in DOMAIN map : RowFinds(p, align, map[n], garbage)}
      BY <2>2, <2>4 DEF PlaceFinds
    <3>2. ASSUME NEW x \in Listed(m) PROVE x \in Listed(map) /\ RowFinds(p, align, x, garbage)
      BY <2>3, <3>1 DEF Listed
    <3>3. ASSUME NEW x \in Listed(map), RowFinds(p, align, x, garbage) PROVE x \in Listed(m)
      <4>1. PICK n \in DOMAIN map : x = map[n]
        BY DEF Listed
      <4>2. n \in DOMAIN map \intersect places
        BY <3>1, <3>3, <4>1
      <4> QED
        BY <2>3, <4>1, <4>2
    <3> QED
      BY <3>2, <3>3
  <2> QED
    BY <1>7, <2>3, <2>4 DEF Map
<1> QED
  BY <1>1, <1>4, <1>5, <1>6, <1>7

LEMMA RefIs ==
  ASSUME Inv, NEW p, NEW align, NEW m \in RefScan(p, align)
  PROVE  /\ Map(m)
         /\ BeSizeFul(ref) => Listed(ref) = Rows /\ Listed(m) = Listed(map) \union {r \in Rows : Finds(p, align, r)}
         /\ ~BeSizeFul(ref) /\ ref = <<>> => m = map
         /\ ~BeSizeFul(ref) /\ ref # <<>> /\ fixed =>
              \E garbage : Listed(m) = Listed(map) \union {r \in Listed(ref) : RowFinds(p, align, r, garbage)}
         /\ ~BeSizeFul(ref) /\ ref # <<>> /\ ~fixed /\ Ascends(ref) =>
              {r \in Listed(ref) : Finds(p, align, r)} \subseteq Listed(m)
<1>1. /\ column \in Columns /\ fixed \in BOOLEAN /\ map \in Seq(Rows) /\ Distinct(map) /\ Map(map)
      /\ ref \in Seq(Rows) /\ Distinct(ref) /\ Map(ref) /\ Rows \subseteq Rows
  BY DEF Inv, Map
<1>2. PICK f : f = Found(p, align)
  OBVIOUS
<1>3. f \in Seq(Rows) /\ Distinct(f) /\ Listed(f) = {r \in Rows : Finds(p, align, r)}
  BY <1>1, <1>2, FoundIs
<1>4. ASSUME NEW g \in Seq(Rows), Distinct(g)
      PROVE  Map(Union(map, g)) /\ Listed(Union(map, g)) = Listed(map) \union Listed(g)
  BY <1>1, <1>4, UnionIs DEF Map
<1>5. Listed(ref) \subseteq Rows
  <2>1. \A i \in DOMAIN ref : ref[i] \in Rows
    BY <1>1
  <2> QED
    BY <2>1 DEF Listed
<1>6. CASE BeSizeFul(ref)
  <2>1. Listed(ref) = Rows
    BY <1>1, <1>6, FullIs
  <2>2. m = Union(map, f)
    BY <1>2, <1>6 DEF RefScan
  <2> QED
    BY <1>3, <1>4, <1>6, <2>1, <2>2
<1>7. CASE ~BeSizeFul(ref) /\ ref = <<>>
  <2>1. m = map
    BY <1>7 DEF RefScan
  <2> QED
    BY <1>1, <1>7, <2>1
<1>8. CASE ~BeSizeFul(ref) /\ ref # <<>> /\ fixed
  <2>1. PICK garbage \in Garbage : m = Union(map, Only(ref, {r \in Rows : RowFinds(p, align, r, garbage)}))
    BY <1>8 DEF RefScan
  <2>2. PICK S : S = {r \in Rows : RowFinds(p, align, r, garbage)}
    OBVIOUS
  <2>3. PICK g : g = Only(ref, S)
    OBVIOUS
  <2>4. g \in Seq(Rows) /\ Listed(g) = Listed(ref) \intersect S /\ Distinct(g)
    BY <1>1, <2>3, OnlyIs
  <2>5. Map(m) /\ Listed(m) = Listed(map) \union Listed(g)
    BY <1>4, <2>1, <2>2, <2>3, <2>4
  <2>6. Listed(g) = {r \in Listed(ref) : RowFinds(p, align, r, garbage)}
    BY <1>5, <2>2, <2>4
  <2> QED
    BY <1>8, <2>5, <2>6
<1>9. CASE ~BeSizeFul(ref) /\ ref # <<>> /\ ~fixed
  <2>1. PICK stale \in Stale : m = Union(map, Only(InStep(ref, stale), {r \in Rows : KMP(Value(r), p, align)}))
    BY <1>9 DEF RefScan
  <2>2. PICK S : S = {r \in Rows : KMP(Value(r), p, align)}
    OBVIOUS
  <2>3. PICK h : h = InStep(ref, stale)
    OBVIOUS
  <2>4. h \in Seq(Rows) /\ Distinct(h) /\ (Ascends(ref) => Listed(ref) \subseteq Listed(h))
    BY <1>1, <2>3, InStepIs
  <2>5. PICK g : g = Only(h, S)
    OBVIOUS
  <2>6. g \in Seq(Rows) /\ Listed(g) = Listed(h) \intersect S /\ Distinct(g)
    BY <2>4, <2>5, OnlyIs
  <2>7. Map(m) /\ Listed(m) = Listed(map) \union Listed(g)
    BY <1>4, <2>1, <2>2, <2>3, <2>5, <2>6
  <2>8. \A r : Finds(p, align, r) <=> KMP(Value(r), p, align)
    BY <1>9 DEF Finds
  <2>9. Ascends(ref) => {r \in Listed(ref) : Finds(p, align, r)} \subseteq Listed(m)
    BY <1>5, <2>2, <2>4, <2>6, <2>7, <2>8
  <2> QED
    BY <1>9, <2>7, <2>9
<1> QED
  BY <1>1, <1>6, <1>7, <1>8, <1>9

(* Whatever searches are made one after the other, a bitmap lists rows of  *)
(* the column, none twice (BitMap::Union, the loops over Index).           *)
THEOREM MapsAreRows == Spec => []Inv
<1>1. Init => Inv
  <2> SUFFICES ASSUME Init PROVE Inv
    OBVIOUS
  <2>1. Map(<<>>)
    BY NoneIs DEF Map
  <2> QED
    BY <2>1 DEF Init, Inv
<1>2. Inv /\ [Next]_vars => Inv'
  <2> SUFFICES ASSUME Inv, [Next]_vars PROVE Inv'
    OBVIOUS
  <2>1. ASSUME column' = column, fixed' = fixed, Map(map'), Map(ref') PROVE Inv'
    <3>1. Rows' = Rows
      BY <2>1 DEF Rows
    <3> QED
      BY <2>1, <3>1 DEF Inv, Map, Distinct
  <2>2. CASE Advance
    <3>1. Map(<<>>)
      BY NoneIs DEF Map
    <3>2. map' = <<>> /\ ref' = map /\ column' = column /\ fixed' = fixed /\ Map(map)
      BY <2>2 DEF Advance, Inv
    <3> QED
      BY <2>1, <3>1, <3>2
  <2>3. ASSUME NEW op \in Ops, NEW c \in Calls, Search(op, c[1], c[2]) PROVE Inv'
    <3>1. map' \in Result(op, c[1], c[2]) /\ column' = column /\ fixed' = fixed /\ ref' = ref /\ Map(ref)
      BY <2>3 DEF Search, Inv
    <3>2. CASE op = "scan"
      <4>1. map' \in Scan(c[1], c[2])
        BY <3>1, <3>2 DEF Result
      <4>2. Map(map')
        BY <4>1, ScanIs
      <4> QED
        BY <2>1, <3>1, <4>2
    <3>3. CASE op = "pushdown"
      <4>1. map' \in Pushdown(c[1], c[2])
        BY <3>1, <3>3 DEF Result
      <4>2. Len(c[1]) \in Int
        BY CallIs, IsCallLen DEF Inv
      <4>3. Map(map')
        BY <4>1, <4>2, PushdownIs
      <4> QED
        BY <2>1, <3>1, <4>3
    <3>4. CASE op = "ref"
      <4>1. map' \in RefScan(c[1], c[2])
        BY <3>1, <3>4 DEF Result
      <4>2. Map(map')
        BY <4>1, RefIs
      <4> QED
        BY <2>1, <3>1, <4>2
    <3> QED
      BY <3>2, <3>3, <3>4 DEF Ops
  <2>4. CASE UNCHANGED vars
    BY <2>1, <2>4 DEF vars, Inv
  <2> QED
    BY <2>2, <2>3, <2>4 DEF Next
<1> QED
  BY <1>1, <1>2, PTL DEF Spec

-----------------------------------------------------------------------------
(***************************************************************************)
(* The three properties, of every state where the maps list rows           *)
(***************************************************************************)
(* One search that agrees with the scan, misses nothing, invents nothing   *)
Agrees(op, p, align) ==
  \A m \in Result(op, p, align), r \in Asked(op) \ Kept(op) :
    (align = "LEFT" => Len(Value(r)) >= Len(p)) => (r \in Listed(m) <=> r \in Listed(Found(p, align)))

LEMMA PushdownAgrees ==
  ASSUME Inv, NEW p, NEW align, IsCall(p, align), fixed, Len(p) <= LineLen, ~Astray("pushdown", p, align)
  PROVE  Agrees("pushdown", p, align)
<1>1. column \in Columns /\ Map(map) /\ Len(p) \in Int
  BY IsCallLen DEF Inv
<1>2. Asked("pushdown") = Listed(map) /\ Kept("pushdown") = {} /\ Result("pushdown", p, align) = Pushdown(p, align)
  BY DEF Asked, Kept, Result
<1>3. Listed(Found(p, align)) = {r \in Rows : Finds(p, align, r)}
  BY <1>1, FoundIs
<1>4. Listed(map) \subseteq Rows
  <2>1. \A i \in DOMAIN map : map[i] \in Rows
    BY <1>1 DEF Map
  <2> QED
    BY <2>1 DEF Listed
<1> SUFFICES ASSUME NEW m \in Pushdown(p, align), NEW r \in Listed(map), align = "LEFT" => Len(Value(r)) >= Len(p)
             PROVE  r \in Listed(m) <=> r \in Rows /\ Finds(p, align, r)
  BY <1>2, <1>3 DEF Agrees
<1>5. CASE BeSizeFul(map)
  <2>1. Listed(m) = {x \in Rows : Finds(p, align, x)}
    BY <1>1, <1>5, PushdownIs
  <2> QED
    BY <2>1
<1>6. CASE ~BeSizeFul(map)
  <2>1. ~(p = <<Blank>> /\ align = "LEFT")
    BY <1>6 DEF Astray
  <2>2. PICK garbage : Listed(m) = {x \in Listed(map) : RowFinds(p, align, x, garbage)}
    BY <1>1, <1>6, <2>1, PushdownIs
  <2>3. RowFinds(p, align, r, garbage) <=> FixedFinds(p, align, r)
    BY <1>1, <1>4, <2>1, RowIs
  <2>4. Finds(p, align, r) <=> FixedFinds(p, align, r)
    BY DEF Finds
  <2> QED
    BY <1>4, <2>2, <2>3, <2>4
<1> QED
  BY <1>5, <1>6

LEMMA RefAgrees ==
  ASSUME Inv, NEW p, NEW align, IsCall(p, align), fixed, Len(p) <= LineLen, ~Astray("ref", p, align)
  PROVE  Agrees("ref", p, align)
<1>1. column \in Columns /\ Map(map) /\ Map(ref) /\ Len(p) \in Int
  BY IsCallLen DEF Inv
<1>2. Asked("ref") = Listed(ref) /\ Kept("ref") = Listed(map) /\ Result("ref", p, align) = RefScan(p, align)
  BY DEF Asked, Kept, Result
<1>3. Listed(Found(p, align)) = {r \in Rows : Finds(p, align, r)}
  BY <1>1, FoundIs
<1>4. Listed(ref) \subseteq Rows
  <2>1. \A i \in DOMAIN ref : ref[i] \in Rows
    BY <1>1 DEF Map
  <2> QED
    BY <2>1 DEF Listed
<1> SUFFICES ASSUME NEW m \in RefScan(p, align), NEW r \in Listed(ref) \ Listed(map),
                    align = "LEFT" => Len(Value(r)) >= Len(p)
             PROVE  r \in Listed(m) <=> r \in Rows /\ Finds(p, align, r)
  BY <1>2, <1>3 DEF Agrees
<1>5. CASE BeSizeFul(ref)
  <2>1. Listed(m) = Listed(map) \union {x \in Rows : Finds(p, align, x)}
    BY <1>1, <1>5, RefIs
  <2> QED
    BY <2>1
<1>6. CASE ~BeSizeFul(ref)
  <2>1. ~(p = <<Blank>> /\ align = "LEFT")
    BY <1>6 DEF Astray
  <2>2. ref # <<>>
    <3>1. ref = <<>> => Listed(ref) = {}
      BY NoneIs
    <3> QED
      BY <3>1
  <2>3. PICK garbage : Listed(m) = Listed(map) \union {x \in Listed(ref) : RowFinds(p, align, x, garbage)}
    BY <1>1, <1>6, <2>2, RefIs
  <2>4. RowFinds(p, align, r, garbage) <=> FixedFinds(p, align, r)
    BY <1>1, <1>4, <2>1, RowIs
  <2>5. Finds(p, align, r) <=> FixedFinds(p, align, r)
    BY DEF Finds
  <2> QED
    BY <1>4, <2>3, <2>4, <2>5
<1> QED
  BY <1>5, <1>6

(* In every state that Spec reaches, a search within the rows of a bitmap  *)
(* gives those that the search of the whole column gives: the loops of     *)
(* SearchAlgorithm.cpp over Index agree with those over the column.        *)
THEOREM PushdownAgreesWithScan == Spec => []PushdownIsScan
<1>1. Inv => PushdownIsScan
  <2> SUFFICES ASSUME Inv, NEW op \in Ops \ {"scan"}, NEW c \in Calls,
                      fixed, Len(c[1]) <= LineLen, ~Astray(op, c[1], c[2])
               PROVE  Agrees(op, c[1], c[2])
    BY DEF PushdownIsScan, Agrees
  <2>1. IsCall(c[1], c[2])
    BY CallIs DEF Inv
  <2>2. CASE op = "pushdown"
    BY <2>1, <2>2, PushdownAgrees
  <2>3. CASE op = "ref"
    BY <2>1, <2>3, RefAgrees
  <2> QED
    BY <2>2, <2>3 DEF Ops
<1> QED
  BY <1>1, MapsAreRows, PTL

-----------------------------------------------------------------------------
(* What a row holds is found, by either kind of search                     *)
LEMMA HoldsWithin ==
  ASSUME NEW v \in Seq(Chars), NEW p \in Word(Chars), NEW align \in Align, Holds(v, p, align)
  PROVE  (\E i \in Int : Occurs(v, p, i)) /\ Len(p) <= Len(v)
<1>1. p # <<Blank>> /\ Len(p) \in Nat /\ Len(v) \in Nat
  BY WordNotBlank
<1>2. CASE align = "FULL"
  <2>1. v = p
    BY <1>1, <1>2 DEF Holds
  <2>2. Occurs(v, p, 0)
    BY <2>1, WholeOccurs
  <2> QED
    BY <1>1, <2>1, <2>2
<1>3. ASSUME align # "FULL" PROVE \E i \in Int : Occurs(v, p, i)
  <2>1. CASE align = "LEFT"
    BY <1>1, <2>1 DEF Holds
  <2>2. CASE align = "RIGHT"
    <3>1. Occurs(v, p, Len(v) - Len(p)) /\ Len(v) - Len(p) \in Int
      BY <1>1, <2>2 DEF Holds, Ends
    <3> QED
      BY <3>1
  <2>3. CASE align = "ANY"
    <3>1. PICK i \in 0 .. Len(v) : Occurs(v, p, i)
      BY <1>1, <2>3 DEF Holds
    <3>2. i \in Int
      BY <1>1
    <3> QED
      BY <3>1, <3>2
  <2> QED
    BY <1>3, <2>1, <2>2, <2>3 DEF Align
<1>4. ASSUME align # "FULL" PROVE Len(p) <= Len(v)
  <2>1. PICK i \in Int : Occurs(v, p, i)
    BY <1>3, <1>4
  <2> QED
    BY <2>1, OccursWithin
<1> QED
  BY <1>2, <1>3, <1>4

LEMMA FoundWhenHeld ==
  ASSUME column \in Columns, fixed \in BOOLEAN, NEW r \in Rows, NEW p, NEW align, IsCall(p, align),
         Holds(Value(r), p, align), Sound(p, align, Value(r))
  PROVE  Finds(p, align, r)
<1>1. CASE fixed
  <2>1. align = "ANY" => Cardinality(Border(p)) <= 1
    BY <1>1 DEF Sound
  <2>2. FixedFinds(p, align, r)
    BY <2>1, FixedIs
  <2> QED
    BY <1>1, <2>2 DEF Finds
<1>2. CASE ~fixed
  <2>1. PICK v : v = Value(r)
    OBVIOUS
  <2>2. v \in Seq(Chars)
    BY <2>1, ColumnIs
  <2>3. p # <<Blank>> /\ (align = "RIGHT" => Cardinality({i \in 0 .. Len(v) : Occurs(v, p, i)}) = 1)
    BY <1>2, <2>1 DEF Sound
  <2>4. p \in Word(Chars) /\ align \in Align
    BY <2>3 DEF IsCall
  <2>5. KMP(v, p, align)
    BY <2>1, <2>2, <2>3, <2>4, KMPIs
  <2> QED
    BY <1>2, <2>1, <2>5 DEF Finds
<1> QED
  BY <1>1, <1>2

LEMMA FoundWhole ==
  ASSUME column \in Columns, fixed, NEW r \in Rows, NEW p, NEW align, IsCall(p, align),
         Len(p) = LineLen, Holds(Value(r), p, align)
  PROVE  Finds(p, "FULL", r)
<1>1. PICK v : v = Value(r)
  OBVIOUS
<1>2. v \in Seq(Chars) /\ Len(v) \in Nat /\ Len(v) <= LineLen /\ LineLen \in Nat
  BY <1>1, ColumnIs
<1>3. Ends(PadRow(r), p) => Finds(p, "FULL", r)
  BY <1>2 DEF Finds, FixedFinds
<1>4. CASE p = <<Blank>>
  <2>1. v = <<>>
    BY <1>1, <1>4 DEF Holds
  <2> QED
    BY <1>1, <1>3, <1>4, <2>1, BlankIs
<1>5. CASE p \in Word(Chars) /\ align \in Align
  <2>1. PICK i \in Int : Occurs(v, p, i)
    BY <1>1, <1>2, <1>5, HoldsWithin
  <2>2. v = p
    BY <1>2, <1>5, <2>1, SameWhole
  <2>3. Ends(v, p)
    BY <1>2, <2>2, WholeOccurs
  <2> QED
    BY <1>1, <1>3, <1>5, <2>3, EndsIs
<1> QED
  BY <1>4, <1>5 DEF IsCall

FindsAll(op, p, align) ==
  \A m \in Result(op, p, align), r \in Asked(op) :
    Holds(Value(r), p, align) /\ Sound(p, align, Value(r)) => r \in Listed(m)

LEMMA ScanFindsAll ==
  ASSUME Inv, NEW p, NEW align, IsCall(p, align)
  PROVE  FindsAll("scan", p, align)
<1>1. column \in Columns /\ fixed \in BOOLEAN /\ Asked("scan") = Rows /\ Result("scan", p, align) = Scan(p, align)
  BY DEF Inv, Asked, Result
<1> SUFFICES ASSUME NEW m \in Scan(p, align), NEW r \in Rows,
                    Holds(Value(r), p, align), Sound(p, align, Value(r))
             PROVE  r \in Listed(m)
  BY <1>1 DEF FindsAll
<1>2. Finds(p, IF fixed /\ Len(p) = LineLen THEN "FULL" ELSE align, r)
  <2>1. CASE fixed /\ Len(p) = LineLen
    BY <1>1, <2>1, FoundWhole
  <2>2. CASE ~(fixed /\ Len(p) = LineLen)
    BY <1>1, <2>2, FoundWhenHeld
  <2> QED
    BY <2>1, <2>2
<1> QED
  BY <1>2, ScanIs

LEMMA PushdownFindsAll ==
  ASSUME Inv, NEW p, NEW align, IsCall(p, align), ~Astray("pushdown", p, align)
  PROVE  FindsAll("pushdown", p, align)
<1>1. /\ column \in Columns /\ fixed \in BOOLEAN /\ Map(map) /\ Asked("pushdown") = Listed(map)
      /\ Result("pushdown", p, align) = Pushdown(p, align) /\ Len(p) \in Int
  BY IsCallLen DEF Inv, Asked, Result
<1>2. Listed(map) \subseteq Rows
  <2>1. \A i \in DOMAIN map : map[i] \in Rows
    BY <1>1 DEF Map
  <2> QED
    BY <2>1 DEF Listed
<1> SUFFICES ASSUME NEW m \in Pushdown(p, align), NEW r \in Listed(map),
                    Holds(Value(r), p, align), Sound(p, align, Value(r))
             PROVE  r \in Listed(m)
  BY <1>1 DEF FindsAll
<1>3. r \in Rows /\ Finds(p, align, r)
  BY <1>1, <1>2, FoundWhenHeld
<1>4. CASE BeSizeFul(map)
  <2>1. Listed(m) = {x \in Rows : Finds(p, align, x)}
    BY <1>1, <1>4, PushdownIs
  <2> QED
    BY <1>3, <2>1
<1>5. CASE ~BeSizeFul(map) /\ ~fixed
  <2>1. Listed(m) = {x \in Listed(map) : Finds(p, align, x)}
    BY <1>1, <1>5, PushdownIs
  <2> QED
    BY <1>3, <2>1
<1>6. CASE ~BeSizeFul(map) /\ fixed
  <2>1. ~(p = <<Blank>> /\ align = "LEFT")
    BY <1>6 DEF Astray
  <2>2. Len(p) <= LineLen
    BY <1>3, <1>6 DEF Finds, FixedFinds
  <2>3. PICK garbage : Listed(m) = {x \in Listed(map) : RowFinds(p, align, x, garbage)}
    BY <1>1, <1>6, <2>1, <2>2, PushdownIs
  <2>4. align = "ANY" => Cardinality(Border(p)) <= 1
    BY <1>6 DEF Sound
  <2>5. RowFinds(p, align, r, garbage)
    BY <1>1, <1>3, <2>1, <2>4, RowMeets
  <2> QED
    BY <2>3, <2>5
<1> QED
  BY <1>1, <1>4, <1>5, <1>6

LEMMA RefFindsAll ==
  ASSUME Inv, NEW p, NEW align, IsCall(p, align), ~Astray("ref", p, align)
  PROVE  FindsAll("ref", p, align)
<1>1. /\ column \in Columns /\ fixed \in BOOLEAN /\ Map(ref) /\ Asked("ref") = Listed(ref)
      /\ Result("ref", p, align) = RefScan(p, align)
  BY DEF Inv, Asked, Result
<1>2. \A i \in DOMAIN ref : ref[i] \in Rows
  BY <1>1 DEF Map
<1> SUFFICES ASSUME NEW m \in RefScan(p, align), NEW r \in Listed(ref),
                    Holds(Value(r), p, align), Sound(p, align, Value(r))
             PROVE  r \in Listed(m)
  BY <1>1 DEF FindsAll
<1>3. r \in Rows /\ Finds(p, align, r)
  <2>1. r \in Rows
    BY <1>2 DEF Listed
  <2> QED
    BY <1>1, <2>1, FoundWhenHeld
<1>4. CASE BeSizeFul(ref)
  <2>1. Listed(m) = Listed(map) \union {x \in Rows : Finds(p, align, x)}
    BY <1>4, RefIs
  <2> QED
    BY <1>3, <2>1
<1>5. ref # <<>>
  <2>1. ref = <<>> => Listed(ref) = {}
    BY NoneIs
  <2> QED
    BY <2>1
<1>6. CASE ~BeSizeFul(ref) /\ fixed
  <2>1. ~(p = <<Blank>> /\ align = "LEFT")
    BY <1>6 DEF Astray
  <2>2. PICK garbage : Listed(m) = Listed(map) \union {x \in Listed(ref) : RowFinds(p, align, x, garbage)}
    BY <1>5, <1>6, RefIs
  <2>3. align = "ANY" => Cardinality(Border(p)) <= 1
    BY <1>6 DEF Sound
  <2>4. RowFinds(p, align, r, garbage)
    BY <1>1, <1>3, <2>1, <2>3, RowMeets
  <2> QED
    BY <2>2, <2>4
<1>7. CASE ~BeSizeFul(ref) /\ ~fixed
  <2>1. Ascends(ref)
    <3> SUFFICES ASSUME NEW i \in 1 .. Len(ref) - 1 PROVE ref[i] < ref[i + 1]
      BY DEF Ascends
    <3>1. ref \in Seq(Rows) /\ Len(ref) \in Nat /\ DOMAIN ref = 1 .. Len(ref) /\ Distinct(ref)
      BY <1>1 DEF Map
    <3>2. i \in DOMAIN ref /\ i + 1 \in DOMAIN ref /\ i # i + 1
      BY <3>1
    <3>3. ref[i] # ref[i + 1]
      BY <3>1, <3>2 DEF Distinct
    <3>4. ref[i] \in Int /\ ref[i + 1] \in Int
      <4>1. Rows \subseteq Int
        BY DEF Rows
      <4> QED
        BY <1>2, <3>2, <4>1
    <3>5. ~(ref[i] > ref[i + 1])
      BY <1>7 DEF Astray
    <3> QED
      BY <3>3, <3>4, <3>5
  <2>2. {x \in Listed(ref) : Finds(p, align, x)} \subseteq Listed(m)
    BY <1>5, <1>7, <2>1, RefIs
  <2> QED
    BY <1>3, <2>2
<1> QED
  BY <1>1, <1>4, <1>6, <1>7

(* In every state that Spec reaches, no search leaves out a row it was     *)
(* asked to look at and whose value holds the string, as long as the       *)
(* tables of SearchAlgorithm.cpp are sound for that string.                *)
THEOREM NoRowIsMissed == Spec => []NothingMissed
<1>1. Inv => NothingMissed
  <2> SUFFICES ASSUME Inv, NEW op \in Ops, NEW c \in Calls, ~Astray(op, c[1], c[2])
               PROVE  FindsAll(op, c[1], c[2])
    BY DEF NothingMissed, FindsAll
  <2>1. IsCall(c[1], c[2])
    BY CallIs DEF Inv
  <2>2. CASE op = "scan"
    BY <2>1, <2>2, ScanFindsAll
  <2>3. CASE op = "pushdown"
    BY <2>1, <2>3, PushdownFindsAll
  <2>4. CASE op = "ref"
    BY <2>1, <2>4, RefFindsAll
  <2> QED
    BY <2>2, <2>3, <2>4 DEF Ops
<1> QED
  BY <1>1, MapsAreRows, PTL

-----------------------------------------------------------------------------
(* What is found has what was asked for, up to what KMP and Boyer-Moore    *)
(* take for a whole value.                                                 *)
Fits(v, p, align) ==
  \/ Holds(v, p, IF align # "FULL" THEN align ELSE IF fixed THEN "RIGHT" ELSE "ANY")
  \/ fixed /\ align = "LEFT" /\ Len(v) < Len(p)

LEMMA FoundFits ==
  ASSUME column \in Columns, fixed \in BOOLEAN, NEW r \in Rows, NEW p, NEW align, IsCall(p, align),
         Finds(p, align, r)
  PROVE  Fits(Value(r), p, align)
<1>1. CASE fixed
  <2>1. FixedFinds(p, align, r)
    BY <1>1 DEF Finds
  <2>2. Meets(Value(r), p, align)
    BY <2>1, FixedIs
  <2> QED
    BY <1>1, <2>2 DEF Meets, Fits
<1>2. CASE ~fixed
  <2>1. PICK v : v = Value(r)
    OBVIOUS
  <2>2. v \in Seq(Chars)
    BY <2>1, ColumnIs
  <2>3. KMP(v, p, align)
    BY <1>2, <2>1 DEF Finds
  <2>4. p # <<Blank>>
    BY <2>2, <2>3, KMPBlank
  <2>5. p \in Word(Chars) /\ align \in Align
    BY <2>4 DEF IsCall
  <2>6. Holds(v, p, IF align = "FULL" THEN "ANY" ELSE align)
    BY <2>2, <2>3, <2>5, KMPIs
  <2> QED
    BY <1>2, <2>1, <2>6 DEF Fits
<1> QED
  BY <1>1, <1>2

LEMMA RowFits ==
  ASSUME column \in Columns, fixed, NEW r \in Rows, NEW p, NEW align, IsCall(p, align),
         ~(p = <<Blank>> /\ align = "LEFT"), NEW garbage, RowFinds(p, align, r, garbage)
  PROVE  Fits(Value(r), p, align)
<1>1. Meets(Value(r), p, align)
  BY RowMeets
<1> QED
  BY <1>1 DEF Meets, Fits

LEMMA WholeFits ==
  ASSUME column \in Columns, fixed, NEW r \in Rows, NEW p, NEW align, IsCall(p, align),
         Len(p) = LineLen, Finds(p, "FULL", r)
  PROVE  Fits(Value(r), p, align)
<1>1. PICK v : v = Value(r)
  OBVIOUS
<1>2. v \in Seq(Chars) /\ Len(v) \in Nat /\ Len(v) <= LineLen
  BY <1>1, ColumnIs
<1>3. Ends(PadRow(r), p)
  BY DEF Finds, FixedFinds
<1>4. \A a \in Align : Holds(v, p, a)
  <2>1. CASE p = <<Blank>>
    <3>1. v = <<>>
      BY <1>1, <1>3, <2>1, BlankIs
    <3> QED
      BY <2>1, <3>1 DEF Holds
  <2>2. CASE p \in Word(Chars)
    <3>1. Ends(v, p) /\ Len(p) \in Nat /\ p # <<Blank>>
      BY <1>1, <1>3, <2>2, EndsIs, WordNotBlank
    <3>2. Occurs(v, p, Len(v) - Len(p)) /\ Len(v) - Len(p) \in Int
      BY <1>2, <3>1 DEF Ends
    <3>3. v = p
      BY <1>2, <2>2, <3>2, SameWhole
    <3>4. Occurs(v, p, 0) /\ Ends(v, p) /\ 0 \in 0 .. Len(v)
      BY <1>2, <3>3, WholeOccurs
    <3> SUFFICES ASSUME NEW a \in Align PROVE Holds(v, p, a)
      OBVIOUS
    <3> QED
      BY <3>1, <3>3, <3>4 DEF Align, Holds
  <2> QED
    BY <2>1, <2>2 DEF IsCall
<1>5. align \in Align
  BY IsCallLen
<1> QED
  BY <1>1, <1>4, <1>5 DEF Fits, Align

ListsFitting(op, p, align) ==
  \A m \in Result(op, p, align) :
    /\ Cardinality(Listed(m)) = Len(m)
    /\ \A r \in Listed(m) \ Kept(op) : r \in Asked(op) /\ Fits(Value(r), p, align)

LEMMA ScanFits ==
  ASSUME Inv, NEW p, NEW align, IsCall(p, align)
  PROVE  ListsFitting("scan", p, align)
<1>1. /\ column \in Columns /\ fixed \in BOOLEAN /\ Asked("scan") = Rows /\ Kept("scan") = Listed(map)
      /\ Result("scan", p, align) = Scan(p, align)
  BY DEF Inv, Asked, Kept, Result
<1> SUFFICES ASSUME NEW m \in Scan(p, align)
             PROVE  /\ Cardinality(Listed(m)) = Len(m)
                    /\ \A r \in Listed(m) \ Listed(map) : r \in Rows /\ Fits(Value(r), p, align)
  BY <1>1 DEF ListsFitting
<1>2. Cardinality(Listed(m)) = Len(m)
  <2>1. m \in Seq(Rows) /\ Distinct(m)
    BY ScanIs DEF Map
  <2> QED
    BY <2>1, DistinctCounted
<1>3. ASSUME NEW r \in Listed(m), r \notin Listed(map) PROVE r \in Rows /\ Fits(Value(r), p, align)
  <2>1. r \in Rows /\ Finds(p, IF fixed /\ Len(p) = LineLen THEN "FULL" ELSE align, r)
    BY <1>3, ScanIs
  <2>2. CASE fixed /\ Len(p) = LineLen
    BY <1>1, <2>1, <2>2, WholeFits
  <2>3. CASE ~(fixed /\ Len(p) = LineLen)
    BY <1>1, <2>1, <2>3, FoundFits
  <2> QED
    BY <2>1, <2>2, <2>3
<1> QED
  BY <1>2, <1>3

LEMMA PushdownFits ==
  ASSUME Inv, NEW p, NEW align, IsCall(p, align), ~Astray("pushdown", p, align), Len(p) <= LineLen
  PROVE  ListsFitting("pushdown", p, align)
<1>1. /\ column \in Columns /\ fixed \in BOOLEAN /\ Map(map) /\ Asked("pushdown") = Listed(map)
      /\ Kept("pushdown") = {} /\ Result("pushdown", p, align) = Pushdown(p, align) /\ Len(p) \in Int
  BY IsCallLen DEF Inv, Asked, Kept, Result
<1>2. Listed(map) \subseteq Rows
  <2>1. \A i \in DOMAIN map : map[i] \in Rows
    BY <1>1 DEF Map
  <2> QED
    BY <2>1 DEF Listed
<1> SUFFICES ASSUME NEW m \in Pushdown(p, align)
             PROVE  /\ Cardinality(Listed(m)) = Len(m)
                    /\ \A r \in Listed(m) : r \in Listed(map) /\ Fits(Value(r), p, align)
  BY <1>1 DEF ListsFitting
<1>3. Cardinality(Listed(m)) = Len(m)
  <2>1. m \in Seq(Rows) /\ Distinct(m)
    BY <1>1, PushdownIs DEF Map
  <2> QED
    BY <2>1, DistinctCounted
<1>4. ASSUME NEW r \in Listed(m) PROVE r \in Listed(map) /\ Fits(Value(r), p, align)
  <2>1. CASE BeSizeFul(map)
    <3>1. Listed(m) = {x \in Rows : Finds(p, align, x)} /\ Listed(map) = Rows
      BY <1>1, <2>1, PushdownIs
    <3>2. r \in Rows /\ Finds(p, align, r)
      BY <1>4, <3>1
    <3> QED
      BY <1>1, <3>1, <3>2, FoundFits
  <2>2. CASE ~BeSizeFul(map) /\ ~fixed
    <3>1. Listed(m) = {x \in Listed(map) : Finds(p, align, x)}
      BY <1>1, <2>2, PushdownIs
    <3>2. r \in Listed(map) /\ r \in Rows /\ Finds(p, align, r)
      BY <1>2, <1>4, <3>1
    <3> QED
      BY <1>1, <3>2, FoundFits
  <2>3. CASE ~BeSizeFul(map) /\ fixed
    <3>1. ~(p = <<Blank>> /\ align = "LEFT")
      BY <2>3 DEF Astray
    <3>2. PICK garbage : Listed(m) = {x \in Listed(map) : RowFinds(p, align, x, garbage)}
      BY <1>1, <2>3, <3>1, PushdownIs
    <3>3. r \in Listed(map) /\ r \in Rows /\ RowFinds(p, align, r, garbage)
      BY <1>2, <1>4, <3>2
    <3> QED
      BY <1>1, <2>3, <3>1, <3>3, RowFits
  <2> QED
    BY <1>1, <2>1, <2>2, <2>3
<1> QED
  BY <1>3, <1>4

LEMMA RefFits ==
  ASSUME Inv, NEW p, NEW align, IsCall(p, align), ~Astray("ref", p, align), fixed
  PROVE  ListsFitting("ref", p, align)
<1>1. /\ column \in Columns /\ fixed \in BOOLEAN /\ Map(ref) /\ Asked("ref") = Listed(ref)
      /\ Kept("ref") = Listed(map) /\ Result("ref", p, align) = RefScan(p, align)
  BY DEF Inv, Asked, Kept, Result
<1>2. Listed(ref) \subseteq Rows
  <2>1. \A i \in DOMAIN ref : ref[i] \in Rows
    BY <1>1 DEF Map
  <2> QED
    BY <2>1 DEF Listed
<1> SUFFICES ASSUME NEW m \in RefScan(p, align)
             PROVE  /\ Cardinality(Listed(m)) = Len(m)
                    /\ \A r \in Listed(m) \ Listed(map) : r \in Listed(ref) /\ Fits(Value(r), p, align)
  BY <1>1 DEF ListsFitting
<1>3. Cardinality(Listed(m)) = Len(m)
  <2>1. m \in Seq(Rows) /\ Distinct(m)
    BY RefIs DEF Map
  <2> QED
    BY <2>1, DistinctCounted
<1>4. ASSUME NEW r \in Listed(m), r \notin Listed(map) PROVE r \in Listed(ref) /\ Fits(Value(r), p, align)
  <2>1. CASE BeSizeFul(ref)
    <3>1. Listed(m) = Listed(map) \union {x \in Rows : Finds(p, align, x)} /\ Listed(ref) = Rows
      BY <2>1, RefIs
    <3>2. r \in Rows /\ Finds(p, align, r)
      BY <1>4, <3>1
    <3> QED
      BY <1>1, <3>1, <3>2, FoundFits
  <2>2. CASE ~BeSizeFul(ref) /\ ref = <<>>
    <3>1. m = map
      BY <2>2, RefIs
    <3> QED
      BY <1>4, <3>1
  <2>3. CASE ~BeSizeFul(ref) /\ ref # <<>>
    <3>1. ~(p = <<Blank>> /\ align = "LEFT")
      BY <2>3 DEF Astray
    <3>2. PICK garbage : Listed(m) = Listed(map) \union {x \in Listed(ref) : RowFinds(p, align, x, garbage)}
      BY <2>3, RefIs
    <3>3. r \in Listed(ref) /\ r \in Rows /\ RowFinds(p, align, r, garbage)
      BY <1>2, <1>4, <3>2
    <3> QED
      BY <1>1, <3>1, <3>3, RowFits
  <2> QED
    BY <2>1, <2>2, <2>3
<1> QED
  BY <1>3, <1>4

(* In every state that Spec reaches, a search lists each row once, lists   *)
(* none it was not asked to look at, and none whose value lacks the        *)
(* string, but for what SearchAlgorithm.cpp takes for a whole value and    *)
(* for values shorter than the string.                                     *)
THEOREM NoRowIsInvented == Spec => []NothingInvented
<1>1. Inv => NothingInvented
  <2> SUFFICES ASSUME Inv, NEW op \in Ops, NEW c \in Calls, ~Astray(op, c[1], c[2]),
                      op = "ref" => fixed, op = "pushdown" => Len(c[1]) <= LineLen
               PROVE  ListsFitting(op, c[1], c[2])
    BY DEF NothingInvented, ListsFitting, Fits
  <2>1. IsCall(c[1], c[2])
    BY CallIs DEF Inv
  <2>2. CASE op = "scan"
    BY <2>1, <2>2, ScanFits
  <2>3. CASE op = "pushdown"
    BY <2>1, <2>3, PushdownFits
  <2>4. CASE op = "ref"
    BY <2>1, <2>4, RefFits
  <2> QED
    BY <2>2, <2>3, <2>4 DEF Ops
<1> QED
  BY <1>1, MapsAreRows, PTL
====
