---------------------------- MODULE ArchiveProofs ---------------------------
(***************************************************************************)
(* TLAPS proofs about Archive, for every number of variables, every length *)
(* of the lines and however many coffers fail to compress: where a coffer  *)
(* is in the file, what a load finds, which lines no template matched are  *)
(* kept, and when a store opens.                                           *)
(***************************************************************************)
EXTENDS Archive, FiniteSetTheorems, TLAPS

Serializing == {"templates", "outliers", "variables"}
Reading     == {"read meta", "boot templates", "boot variables", "boot outliers", "open"}
What        == {"null", "stored", "garbage", "unset"}

(* What has been done at each place                                        *)
Phases ==
  /\ pc \in Serializing \union Reading \union {"compress", "empty", "write", "closed"}
  /\ pc \in Serializing => meta = <<>> /\ offset = 0
  /\ pc \in Serializing \union {"compress", "empty"} => at = <<>> /\ pos = 0
  /\ pc \in Reading \union {"write"} => Len(meta) = Len(data)
  /\ pc \in Reading => Len(at) = Len(data)
  /\ pc \notin Reading \union {"closed"} => DOMAIN glb = {} /\ line = 1
  /\ pc \in Reading \ {"read meta"} => line > Len(meta)
  /\ pc = "closed" /\ at # <<>> => Len(at) = Len(meta) /\ Len(meta) = Len(data)
  /\ boot \in {"failed", "crash"} => pc = "closed"
  /\ boot = "ok" => pc = "open"
  /\ answer # Undefined => pc = "open"

(* The offset the line of coffer i has, or will have, and what the encoder *)
(* believes the coffer takes                                               *)
Start(i) == IF i <= Len(meta) THEN meta[i].offset ELSE offset
Size(i)  == IF meta[i].compressed THEN data[i].dest + 4 ELSE data[i].dest

Offsets ==
  /\ Start(1) = 0
  /\ \A i \in 1 .. Len(meta) : /\ Start(i + 1) = Start(i) + Size(i)
                               /\ meta[i].src = 0 => data[i].dest = 0 /\ ~meta[i].compressed

(* While it is written, the file is longer than the offsets say by four    *)
(* bytes for each coffer that did not compress.                            *)
Positions ==
  /\ \A i \in DOMAIN data : data[i].src # 0 => data[i].lines # 0
  /\ pc = "write" => pos = Start(out) + 4 * FailedBefore(out)
  /\ \A i \in 1 .. Len(at) : meta[i].src # 0 => at[i] # -1

(* The table of a store has, for each name of the lines that were read,    *)
(* the last one, with its data if it was loaded.                           *)
Table ==
  /\ line <= Len(meta) + 1
  /\ glb \in [DOMAIN glb -> [line : Nat, data : What]]
  /\ \A n \in DOMAIN glb : LET i == glb[n].line IN
       /\ i \in 1 .. line - 1 /\ meta[i].name = n
       /\ glb[n].data = "null" \/ glb[n].data \in Found(i)
  /\ \A i \in 1 .. line - 1 : meta[i].name \in DOMAIN glb /\ i <= glb[meta[i].name].line

(* The coffers every archive has                                           *)
Present ==
  /\ pc # "templates" => \E i \in DOMAIN data : data[i].name = Templates
  /\ pc \notin {"templates", "outliers"} => \E i \in DOMAIN data : data[i].name = Outliers
  /\ pc \notin Serializing => \E i \in DOMAIN data : data[i].name = Variables

(* A coffer of outliers that has no other beside it has all the lines.     *)
Only(i) == \A j \in DOMAIN data : data[j].name = Outliers <=> j = i
Whole(i) == /\ data[i].first = 1 /\ data[i].lines = Len(failed)
            /\ data[i].src = 0 => Len(failed) = 0

BlockOK == /\ block.src = 0 <=> block.first = block.next
           /\ block.first <= block.next /\ block.next <= Len(failed) + 1

(* A coffer of outliers that is empty has no lines to lose.                *)
EmptyCoffer(c) == c.name = Outliers /\ c.src = 0 => c.first = 1 /\ c.lines = 0
EmptyBlocks == /\ block.src = 0 => block.first = 1
               /\ \A j \in DOMAIN data : EmptyCoffer(data[j])

Blocks ==
  /\ pc \in {"templates", "outliers"} =>
       block.first = 1 \/ \E j \in DOMAIN data : data[j].name = Outliers
  /\ pc \notin {"templates", "outliers"} => \A i \in DOMAIN data : Only(i) => Whole(i)

Inv == TypeOK /\ BlockOK /\ Phases /\ Offsets /\ Positions /\ Shifted
ReadInv == Inv /\ Table
-----------------------------------------------------------------------------
LEMMA SeqAppend ==
  ASSUME NEW S, NEW q \in Seq(S), NEW x \in S
  PROVE  /\ Append(q, x) \in Seq(S)
         /\ Len(Append(q, x)) = Len(q) + 1 /\ Len(q) \in Nat
         /\ \A i \in 1 .. Len(q) : Append(q, x)[i] = q[i]
         /\ Append(q, x)[Len(q) + 1] = x
OBVIOUS

LEMMA SeqTwo ==
  ASSUME NEW S, NEW x \in S, NEW y \in S
  PROVE  /\ <<x>> \in Seq(S) /\ Len(<<x>>) = 1
         /\ <<x, y>> \in Seq(S) /\ Len(<<x, y>>) = 2
         /\ <<x>>[1] = x /\ <<x, y>>[1] = x /\ <<x, y>>[2] = y
OBVIOUS

LEMMA SeqConcat ==
  ASSUME NEW S, NEW q \in Seq(S), NEW r \in Seq(S)
  PROVE  /\ q \o r \in Seq(S) /\ Len(q) \in Nat /\ Len(r) \in Nat
         /\ Len(q \o r) = Len(q) + Len(r)
         /\ \A i \in 1 .. Len(q) : (q \o r)[i] = q[i]
         /\ \A i \in 1 .. Len(r) : (q \o r)[Len(q) + i] = r[i]
OBVIOUS

LEMMA Names ==
  /\ Templates \in Name /\ Outliers \in Name /\ Variables \in Name
  /\ Templates # Outliers /\ Outliers # Variables /\ Templates # Variables
  /\ \A v \in 1 .. NVars, k \in {"var", "entry", "dic", "svar", "outlier"} :
       <<v, k>> \in Name /\ <<v, k>> # Outliers
BY DEF Name, Templates, Outliers, Variables

LEMMA NewCofferType ==
  ASSUME NEW name \in Name, NEW type \in 0 .. 7, NEW src \in Nat
  PROVE  /\ NewCoffer(name, type, src, 0) \in Coffer
         /\ NewCoffer(name, type, src, 0).name = name
         /\ NewCoffer(name, type, src, 0).src = src
         /\ src # 0 => NewCoffer(name, type, src, 0).lines # 0
BY DEF NewCoffer, Coffer

LEMMA LogCoffers ==
  ASSUME NEW src \in Nat
  PROVE  /\ NewCoffer(Templates, 0, src, 0) \in Coffer
         /\ NewCoffer(Templates, 0, src, 0).name = Templates
         /\ NewCoffer(Templates, 0, src, 0).src # 0 => NewCoffer(Templates, 0, src, 0).lines # 0
         /\ NewCoffer(Variables, 2, src, 0) \in Coffer
         /\ NewCoffer(Variables, 2, src, 0).name = Variables
         /\ NewCoffer(Variables, 2, src, 0).src # 0 => NewCoffer(Variables, 2, src, 0).lines # 0
<1>1. 0 \in 0 .. 7 /\ 2 \in 0 .. 7 /\ Templates \in Name /\ Variables \in Name
  BY Names
<1>2. QED
  BY <1>1, NewCofferType

(* What SerializeVariable adds                                             *)
OfVariable(c) == c \in Coffer /\ c.name # Outliers /\ (c.src # 0 => c.lines # 0)

LEMMA VariableCoffer ==
  ASSUME NEW name \in Name, NEW type \in 0 .. 7, NEW src \in Nat, name # Outliers
  PROVE  OfVariable(NewCoffer(name, type, src, 0))
BY DEF NewCoffer, Coffer, OfVariable

LEMMA VariableType ==
  ASSUME NEW v \in 1 .. NVars,
         NEW added \in {Plain(v, 0), Plain(v, 1), Dictionary(v), SubPatterns(v, 0), SubPatterns(v, 1)}
  PROVE  /\ added \in Seq(Coffer)
         /\ \A i \in 1 .. Len(added) : OfVariable(added[i])
<1>2. \E c, d : OfVariable(c) /\ OfVariable(d) /\ (added = <<c>> \/ added = <<c, d>>)
  <2>1. /\ 0 \in Nat /\ 1 \in Nat
        /\ 3 \in 0 .. 7 /\ 4 \in 0 .. 7 /\ 5 \in 0 .. 7 /\ 6 \in 0 .. 7 /\ 7 \in 0 .. 7
    OBVIOUS
  <2>2. \A k \in {"var", "entry", "dic", "svar", "outlier"} : <<v, k>> \in Name /\ <<v, k>> # Outliers
    BY Names
  <2>3. \A k \in {"var", "entry", "dic", "svar", "outlier"}, t \in 0 .. 7, src \in Nat :
          OfVariable(NewCoffer(<<v, k>>, t, src, 0))
    BY <2>2, VariableCoffer, Zenon
  <2>4. /\ OfVariable(NewCoffer(<<v, "var">>, 5, 0, 0)) /\ OfVariable(NewCoffer(<<v, "var">>, 5, 1, 0))
        /\ OfVariable(NewCoffer(<<v, "entry">>, 4, 1, 0)) /\ OfVariable(NewCoffer(<<v, "dic">>, 3, 1, 0))
        /\ OfVariable(NewCoffer(<<v, "svar">>, 6, 1, 0))
        /\ OfVariable(NewCoffer(<<v, "outlier">>, 7, 0, 0)) /\ OfVariable(NewCoffer(<<v, "outlier">>, 7, 1, 0))
    BY ONLY <2>1, <2>3, Zenon
  <2>5. QED
    BY ONLY <2>4, added \in {Plain(v, 0), Plain(v, 1), Dictionary(v), SubPatterns(v, 0), SubPatterns(v, 1)}, Zenon
       DEF Plain, Dictionary, SubPatterns
<1>3. PICK c, d : OfVariable(c) /\ OfVariable(d) /\ (added = <<c>> \/ added = <<c, d>>)
  BY <1>2
<1>4. added \in Seq(Coffer) /\ \A i \in 1 .. Len(added) : added[i] = c \/ added[i] = d
  <2>1. c \in Coffer /\ d \in Coffer
    BY <1>3 DEF OfVariable
  <2>2. CASE added = <<c>>
    <3>1. <<c>> \in Seq(Coffer) /\ Len(<<c>>) = 1 /\ <<c>>[1] = c
      BY <2>1, SeqTwo
    <3>2. QED
      BY ONLY <3>1, <2>2
  <2>3. CASE added = <<c, d>>
    <3>1. <<c, d>> \in Seq(Coffer) /\ Len(<<c, d>>) = 2 /\ <<c, d>>[1] = c /\ <<c, d>>[2] = d
      BY <2>1, SeqTwo
    <3>2. \A i \in 1 .. 2 : i = 1 \/ i = 2
      OBVIOUS
    <3>3. QED
      BY ONLY <3>1, <3>2, <2>3
  <2>4. QED
    BY <1>3, <2>2, <2>3
<1>5. QED
  BY <1>3, <1>4

LEMMA BlockType ==
  ASSUME TypeOK, BlockOK
  PROVE  /\ Block \in Coffer /\ Block.name = Outliers /\ Block.first = block.first
         /\ Block.src = block.src /\ Block.lines = block.next - block.first
         /\ Block.src # 0 => Block.lines # 0
<1>1. /\ block.src \in Nat /\ block.first \in Nat /\ block.next \in Nat
      /\ block.next - block.first \in Nat
      /\ block.src # 0 => block.next - block.first # 0
  BY DEF TypeOK, BlockOK
<1>2. QED
  BY <1>1, Names DEF Block, NewCoffer, Coffer

(* What the serialization does to the coffers                              *)
Grown == /\ data' \in Seq(Coffer) /\ Len(data) <= Len(data')
         /\ \A i \in 1 .. Len(data) : data'[i] = data[i]
         /\ \A i \in 1 .. Len(data') : i <= Len(data) \/ (data'[i].src # 0 => data'[i].lines # 0)

LEMMA GrownByOne ==
  ASSUME TypeOK, NEW c \in Coffer, c.src # 0 => c.lines # 0, data' = Append(data, c)
  PROVE  Grown /\ Len(data') = Len(data) + 1 /\ data'[Len(data) + 1] = c
<1>1. data \in Seq(Coffer)
  BY DEF TypeOK
<1>2. /\ data' \in Seq(Coffer) /\ Len(data') = Len(data) + 1 /\ Len(data) \in Nat
      /\ \A i \in 1 .. Len(data) : data'[i] = data[i]
      /\ data'[Len(data) + 1] = c
  BY <1>1, SeqAppend
<1>3. \A i \in 1 .. Len(data') : i <= Len(data) \/ i = Len(data) + 1
  BY <1>2
<1>4. Len(data) <= Len(data')
  BY <1>2
<1>5. QED
  BY <1>2, <1>3, <1>4 DEF Grown

LEMMA GrownByVariable ==
  ASSUME TypeOK, SerializeVariable
  PROVE  /\ Grown
         /\ \A i \in 1 .. Len(data') : i <= Len(data) \/ data'[i].name # Outliers
<1>1. PICK added \in {Plain(var, 0), Plain(var, 1), Dictionary(var), SubPatterns(var, 0), SubPatterns(var, 1)} :
        data' = data \o added
  BY DEF SerializeVariable
<1>2. var \in 1 .. NVars
  BY ArchiveAssumption DEF SerializeVariable, TypeOK
<1>3. added \in Seq(Coffer) /\ \A i \in 1 .. Len(added) : OfVariable(added[i])
  BY <1>2, VariableType
<1>4. data \in Seq(Coffer)
  BY DEF TypeOK
<1>5. /\ data' \in Seq(Coffer) /\ Len(data) \in Nat /\ Len(added) \in Nat
      /\ Len(data') = Len(data) + Len(added)
      /\ \A i \in 1 .. Len(data) : data'[i] = data[i]
      /\ \A i \in 1 .. Len(added) : data'[Len(data) + i] = added[i]
  BY <1>1, <1>3, <1>4, SeqConcat
<1>6. \A i \in 1 .. Len(data') : i <= Len(data) \/ OfVariable(data'[i])
  <2> SUFFICES ASSUME NEW i \in 1 .. Len(data'), ~(i <= Len(data)) PROVE OfVariable(data'[i])
    OBVIOUS
  <2>1. i - Len(data) \in 1 .. Len(added) /\ Len(data) + (i - Len(data)) = i
    BY <1>5
  <2>2. data'[i] = added[i - Len(data)]
    BY <1>5, <2>1
  <2>3. QED
    BY <1>3, <2>1, <2>2
<1>7. Len(data) <= Len(data')
  BY <1>5
<1>8. QED
  BY <1>5, <1>6, <1>7 DEF Grown, OfVariable

LEMMA SerializeGrows == ASSUME TypeOK, BlockOK, Serialize PROVE Grown
<1>1. CASE SerializeTemplate
  <2>1. PICK src \in Nat : data' = Append(data, NewCoffer(Templates, 0, src, 0))
    BY <1>1 DEF SerializeTemplate, Overlong
  <2>2. /\ NewCoffer(Templates, 0, src, 0) \in Coffer
        /\ NewCoffer(Templates, 0, src, 0).src # 0 => NewCoffer(Templates, 0, src, 0).lines # 0
    BY LogCoffers
  <2>3. QED
    BY <2>1, <2>2, GrownByOne
<1>2. CASE OutlierLine
  <2>1. CASE data' = data
    BY <2>1 DEF Grown, TypeOK
  <2>2. CASE data' = Append(data, Block)
    BY <2>2, BlockType, GrownByOne
  <2>3. QED
    BY <1>2, <2>1, <2>2 DEF OutlierLine
<1>3. CASE SerializeTemplateOutlier
  BY <1>3, BlockType, GrownByOne DEF SerializeTemplateOutlier
<1>4. CASE SerializeVariable
  BY <1>4, GrownByVariable
<1>5. CASE SerializeSubpattern
  <2>1. PICK src \in Nat : data' = Append(data, NewCoffer(Variables, 2, src, 0))
    BY <1>5 DEF SerializeSubpattern, Overlong
  <2>2. /\ NewCoffer(Variables, 2, src, 0) \in Coffer
        /\ NewCoffer(Variables, 2, src, 0).src # 0 => NewCoffer(Variables, 2, src, 0).lines # 0
    BY LogCoffers
  <2>3. QED
    BY <2>1, <2>2, GrownByOne
<1>6. QED
  BY <1>1, <1>2, <1>3, <1>4, <1>5 DEF Serialize

(* What Compress does: coffer c, from place j, takes the next place.       *)
Compressing(n, j, c, compressed) ==
  /\ n = Len(meta) + 1 /\ n \in 1 .. Len(data)
  /\ c.name = data[j].name /\ c.src = data[j].src /\ c.lines = data[j].lines /\ c.first = data[j].first
  /\ c.src = 0 => ~compressed /\ c.dest = 0
  /\ data' \in Seq(Coffer) /\ Len(data') = Len(data)
  /\ \A i \in 1 .. Len(data) : data'[i] = IF i = n THEN c ELSE IF i = j THEN data[n] ELSE data[i]
  /\ meta' \in Seq(Line) /\ Len(meta') = n
  /\ \A i \in 1 .. Len(meta) : meta'[i] = meta[i]
  /\ meta'[n].name = c.name /\ meta'[n].src = c.src
  /\ meta'[n].compressed = compressed /\ meta'[n].offset = offset
  /\ offset' \in Nat /\ offset' = offset + (IF compressed THEN c.dest + 4 ELSE c.dest)

LEMMA CompressDoes ==
  ASSUME TypeOK, Compress
  PROVE  \E n \in 1 .. Len(data), j \in 1 .. Len(data), c \in Coffer, compressed \in BOOLEAN :
           n <= j /\ Compressing(n, j, c, compressed)
<1> DEFINE n == Len(meta) + 1
<1>1. PICK j \in n .. Len(data), compressed \in BOOLEAN, size \in Sizes :
        LET c    == Compressed(data[j], compressed, size)
            dest == Returned(c, compressed)
        IN /\ c.src = 0 => ~compressed
           /\ data' = Sorted(n, j, c)
           /\ meta' = Append(meta, MetaLine(c, compressed, dest))
           /\ offset' = offset + dest
  BY DEF Compress
<1> DEFINE c    == Compressed(data[j], compressed, size)
           dest == Returned(c, compressed)
<1>2. /\ data \in Seq(Coffer) /\ meta \in Seq(Line) /\ Len(meta) \in Nat /\ Len(data) \in Nat
      /\ n \in 1 .. Len(data) /\ j \in 1 .. Len(data) /\ n <= j /\ size \in Nat /\ offset \in Nat
  <2>1. data \in Seq(Coffer) /\ meta \in Seq(Line) /\ offset \in Nat
    BY DEF TypeOK
  <2>2. Len(meta) \in Nat /\ Len(data) \in Nat
    BY <2>1
  <2>3. size \in Nat
    BY ArchiveAssumption
  <2>4. QED
    BY ONLY <2>1, <2>2, <2>3, j \in n .. Len(data)
<1>3. data[j] \in Coffer /\ data[n] \in Coffer
  BY <1>2, SMT
<1>4. /\ c \in Coffer /\ c.dest \in Nat
      /\ c.name = data[j].name /\ c.src = data[j].src /\ c.lines = data[j].lines /\ c.first = data[j].first
      /\ c.src = 0 => c.dest = 0
  BY <1>2, <1>3 DEF Compressed, Coffer
<1>5. dest \in Nat /\ dest = IF compressed THEN c.dest + 4 ELSE c.dest
  BY <1>4 DEF Returned
<1>6. /\ MetaLine(c, compressed, dest) \in Line
      /\ MetaLine(c, compressed, dest).name = c.name
      /\ MetaLine(c, compressed, dest).src = c.src
      /\ MetaLine(c, compressed, dest).compressed = compressed
      /\ MetaLine(c, compressed, dest).offset = offset
  BY <1>2, <1>4, <1>5 DEF MetaLine, Line, Coffer
<1> HIDE DEF c, dest
<1>7. /\ meta' = Append(meta, MetaLine(c, compressed, dest)) /\ data' = Sorted(n, j, c)
      /\ offset' = offset + dest /\ (c.src = 0 => ~compressed)
  BY <1>1 DEF c, dest
<1>8. /\ meta' \in Seq(Line) /\ Len(meta') = Len(meta) + 1
      /\ \A i \in 1 .. Len(meta) : meta'[i] = meta[i]
      /\ meta'[n] = MetaLine(c, compressed, dest)
  BY <1>2, <1>6, <1>7, SeqAppend
<1>9. /\ data' \in Seq(Coffer) /\ Len(data') = Len(data)
      /\ \A i \in 1 .. Len(data) : data'[i] = IF i = n THEN c ELSE IF i = j THEN data[n] ELSE data[i]
  <2>1. c \in Coffer /\ data' = [data EXCEPT ![j] = data[n], ![n] = c]
    BY <1>4, <1>7 DEF Sorted
  <2>2. QED
    BY ONLY <2>1, <1>2, <1>3
<1>10. offset' \in Nat /\ offset' = offset + (IF compressed THEN c.dest + 4 ELSE c.dest)
  <2>1. offset \in Nat
    BY <1>2
  <2>2. QED
    BY ONLY <2>1, <1>5, <1>7
<1>11. Compressing(n, j, c, compressed)
  BY <1>2, <1>4, <1>6, <1>7, <1>8, <1>9, <1>10 DEF Compressing
<1>12. QED
  BY <1>2, <1>4, <1>11
-----------------------------------------------------------------------------
LEMMA TypeInit == Init => TypeOK /\ BlockOK
<1> SUFFICES ASSUME Init PROVE TypeOK /\ BlockOK
  OBVIOUS
<1>1. /\ failed \in Seq(Nat) /\ Len(failed) \in Nat
      /\ block = [first |-> 1, next |-> 1, src |-> 0]
  BY ArchiveAssumption DEF Init
<1>2. BlockOK
  BY <1>1 DEF BlockOK
<1>3. TypeOK
  BY <1>1, ArchiveAssumption DEF Init, TypeOK
<1>4. QED
  BY <1>2, <1>3

LEMMA SerializeType == ASSUME TypeOK, BlockOK, Serialize PROVE TypeOK' /\ BlockOK'
<1>1. Grown
  BY SerializeGrows
<1>2. UNCHANGED <<failed, meta, offset, out, pos, at, line>>
  BY DEF Serialize, SerializeTemplate, OutlierLine, SerializeTemplateOutlier, SerializeVariable,
         SerializeSubpattern, reader
<1>3. /\ var' \in 0 .. NVars
  <2>1. var \in 0 .. NVars /\ NVars \in Nat
    BY ArchiveAssumption DEF TypeOK
  <2>2. QED
    BY <2>1 DEF Serialize, SerializeTemplate, OutlierLine, SerializeTemplateOutlier, SerializeVariable,
         SerializeSubpattern
<1>4. /\ block' \in [first : Nat \ {0}, next : Nat \ {0}, src : Nat]
      /\ block'.src = 0 <=> block'.first = block'.next
      /\ block'.first <= block'.next /\ block'.next <= Len(failed) + 1
  <2>1. /\ block \in [first : Nat \ {0}, next : Nat \ {0}, src : Nat] /\ failed \in Seq(Nat)
        /\ block.src = 0 <=> block.first = block.next
        /\ block.first <= block.next /\ block.next <= Len(failed) + 1
    BY DEF TypeOK, BlockOK
  <2>2. CASE UNCHANGED block
    BY <2>1, <2>2
  <2>3. CASE OutlierLine
    <3>1. block.next \in 1 .. Len(failed) /\ Len(failed) \in Nat
      BY <2>1, <2>3 DEF OutlierLine
    <3>2. failed[block.next] \in Nat
      BY <2>1, <3>1
    <3>3. \/ block' = [first |-> block.next, next |-> block.next + 1, src |-> failed[block.next] + 1]
          \/ block' = [block EXCEPT !.next = @ + 1, !.src = @ + failed[block.next] + 1]
      BY <2>3 DEF OutlierLine
    <3>4. /\ block.first \in Nat \ {0} /\ block.next \in Nat \ {0} /\ block.src \in Nat
          /\ block.next + 1 \in Nat \ {0}
          /\ failed[block.next] + 1 \in Nat \ {0} /\ block.src + failed[block.next] + 1 \in Nat \ {0}
      <4>1. block.first \in Nat \ {0} /\ block.next \in Nat \ {0} /\ block.src \in Nat
        BY ONLY <2>1
      <4>2. QED
        BY ONLY <4>1, <3>2
    <3>5. \E first, src : /\ block' = [first |-> first, next |-> block.next + 1, src |-> src]
                         /\ first \in {block.first, block.next} /\ src \in Nat \ {0}
      BY ONLY <2>1, <3>3, <3>4
    <3>6. PICK first, src : /\ block' = [first |-> first, next |-> block.next + 1, src |-> src]
                            /\ first \in {block.first, block.next} /\ src \in Nat \ {0}
      BY <3>5
    <3>7. /\ first \in Nat \ {0} /\ first < block.next + 1 /\ block.next + 1 <= Len(failed) + 1
      <4>1. block.first <= block.next
        BY <2>1
      <4>2. QED
        BY ONLY <4>1, <3>1, <3>4, <3>6
    <3>8. block'.first = first /\ block'.next = block.next + 1 /\ block'.src = src
      BY <3>6
    <3>9. block' \in [first : Nat \ {0}, next : Nat \ {0}, src : Nat]
      BY ONLY <3>4, <3>6, <3>7
    <3>10. QED
      BY ONLY <3>4, <3>6, <3>7, <3>8, <3>9
  <2>4. QED
    BY <2>2, <2>3 DEF Serialize, SerializeTemplate, SerializeTemplateOutlier, SerializeVariable, SerializeSubpattern
<1>5. Len(data) \in Nat /\ Len(data') \in Nat /\ Len(data) <= Len(data') /\ data' \in Seq(Coffer)
      /\ Len(meta) \in Nat
  BY <1>1 DEF Grown, TypeOK
<1>6. \A i \in 1 .. Len(meta) : data'[i] = data[i]
  <2>1. Len(meta) <= Len(data)
    BY DEF TypeOK
  <2>2. \A i \in 1 .. Len(meta) : i \in 1 .. Len(data)
    BY ONLY <2>1, <1>5
  <2>3. QED
    BY <2>2, <1>1 DEF Grown
<1>7. TypeOK'
  <2>1. /\ out \in 1 .. Len(data) + 1 /\ Len(meta) <= Len(data)
        /\ \A i \in 1 .. Len(meta) : meta[i].name = data[i].name /\ meta[i].src = data[i].src
    BY DEF TypeOK
  <2>2. out' \in 1 .. Len(data') + 1 /\ Len(meta') <= Len(data')
    BY ONLY <2>1, <1>2, <1>5
  <2>3. \A i \in 1 .. Len(meta') : meta'[i].name = data'[i].name /\ meta'[i].src = data'[i].src
    BY ONLY <2>1, <1>2, <1>6
  <2>4. /\ failed' \in Seq(Nat) /\ meta' \in Seq(Line) /\ at' \in Seq(Nat \union {-1})
        /\ offset' \in Nat /\ pos' \in Nat /\ line' \in Nat \ {0} /\ Len(at') = out' - 1
    BY <1>2 DEF TypeOK
  <2>5. QED
    BY ONLY <2>2, <2>3, <2>4, <1>3, <1>4, <1>5 DEF TypeOK
<1>8. QED
  BY <1>2, <1>4, <1>7 DEF BlockOK

LEMMA CompressType == ASSUME TypeOK, BlockOK, Compress PROVE TypeOK' /\ BlockOK'
<1>1. UNCHANGED <<failed, block, var, out, pos, at, line>>
  BY DEF Compress, reader
<1>2. PICK n \in 1 .. Len(data), j \in 1 .. Len(data), c \in Coffer, compressed \in BOOLEAN :
        n <= j /\ Compressing(n, j, c, compressed)
  BY CompressDoes
<1>3. /\ data' \in Seq(Coffer) /\ meta' \in Seq(Line) /\ offset' \in Nat
      /\ Len(meta') <= Len(data') /\ Len(data') = Len(data)
  BY <1>2 DEF Compressing
<1>4. \A i \in 1 .. Len(meta') : meta'[i].name = data'[i].name /\ meta'[i].src = data'[i].src
  <2> SUFFICES ASSUME NEW i \in 1 .. Len(meta')
               PROVE  meta'[i].name = data'[i].name /\ meta'[i].src = data'[i].src
    OBVIOUS
  <2>1. Len(meta) \in Nat /\ Len(meta) <= Len(data) /\ Len(data) \in Nat
    BY DEF TypeOK
  <2>2. CASE i = n
    BY <1>2, <2>2 DEF Compressing
  <2>3. CASE i # n
    <3>1. i \in 1 .. Len(meta) /\ i \in 1 .. Len(data) /\ i # j
      BY <1>2, <2>1, <2>3 DEF Compressing
    <3>2. data'[i] = data[i] /\ meta'[i] = meta[i]
      BY <1>2, <2>3, <3>1 DEF Compressing
    <3>3. QED
      BY <3>1, <3>2 DEF TypeOK
  <2>4. QED
    BY <2>2, <2>3
<1>5. TypeOK'
  BY <1>1, <1>3, <1>4 DEF TypeOK
<1>6. QED
  BY <1>1, <1>5 DEF BlockOK

LEMMA WriteType == ASSUME TypeOK, BlockOK, Write PROVE TypeOK' /\ BlockOK'
<1>1. UNCHANGED <<failed, block, var, data, meta, offset, line>> /\ out' = out + 1 /\ out <= Len(data)
  BY DEF Write, reader
<1>2. /\ at \in Seq(Nat \union {-1}) /\ pos \in Nat /\ data \in Seq(Coffer) /\ Len(data) \in Nat
      /\ out \in 1 .. Len(data) /\ Len(at) = out - 1
  BY <1>1 DEF TypeOK
<1>3. data[out].dest \in Nat
  <2>1. data[out] \in Coffer
    BY <1>2
  <2>2. QED
    BY <2>1 DEF Coffer
<1>4. PICK x \in Nat \union {-1} : at' = Append(at, x)
  BY <1>2 DEF Write
<1>5. at' \in Seq(Nat \union {-1}) /\ Len(at') = out' - 1
  BY <1>1, <1>2, <1>4, SeqAppend
<1>6. pos' \in Nat
  BY <1>2, <1>3 DEF Write, Length
<1>7. out' \in 1 .. Len(data) + 1
  BY <1>1, <1>2
<1>8. TypeOK'
  BY <1>1, <1>5, <1>6, <1>7 DEF TypeOK
<1>9. QED
  BY <1>1, <1>8 DEF BlockOK

(* The steps that only read change none of what was written.               *)
Reads == WriteHead \/ Close \/ Boot \/ \E name \in Name : Load(name)

LEMMA ReadsOnly == ASSUME Reads PROVE UNCHANGED writer
BY DEF Reads, WriteHead, Close, Boot, ReadNothing, ReadMeta, MetaRead, BootTemplates, BootVariables,
       BootPart, BootOutliers, Crash, Load

LEMMA TypeStep == TypeOK /\ BlockOK /\ [Next]_vars => TypeOK' /\ BlockOK'
<1> SUFFICES ASSUME TypeOK, BlockOK, [Next]_vars PROVE TypeOK' /\ BlockOK'
  OBVIOUS
<1>1. CASE Serialize
  BY <1>1, SerializeType
<1>2. CASE Compress
  BY <1>2, CompressType
<1>3. CASE Write
  BY <1>3, WriteType
<1>4. CASE Reads
  <2>1. UNCHANGED <<failed, block, var, data, meta, offset, out, pos, at>>
    BY <1>4, ReadsOnly DEF writer
  <2>2. line' \in Nat \ {0}
    <3>1. line \in Nat \ {0}
      BY DEF TypeOK
    <3>2. line' = line \/ line' = line + 1
      BY <1>4 DEF Reads, WriteHead, Close, Boot, ReadNothing, ReadMeta, MetaRead, BootTemplates,
                  BootVariables, BootPart, BootOutliers, Crash, Load, reader
    <3>3. QED
      BY <3>1, <3>2
  <2>3. QED
    BY <2>1, <2>2 DEF TypeOK, BlockOK
<1>5. CASE UNCHANGED vars
  BY <1>5 DEF vars, writer, reader, TypeOK, BlockOK
<1>6. QED
  BY <1>1, <1>2, <1>3, <1>4, <1>5 DEF Next, WriteFile, Reads
-----------------------------------------------------------------------------
LEMMA PhasesInit == Init => Phases
BY DEF Init, Phases, Serializing, Reading

LEMMA PhasesStep == TypeOK /\ Phases /\ [Next]_vars => Phases'
<1> SUFFICES ASSUME TypeOK, Phases, [Next]_vars PROVE Phases'
  OBVIOUS
<1>0. Len(meta) \in Nat /\ Len(data) \in Nat /\ Len(at) = out - 1 /\ out \in 1 .. Len(data) + 1
  BY DEF TypeOK
<1> USE DEF Phases, Serializing, Reading
<1>1. CASE Serialize
  BY <1>1 DEF Serialize, SerializeTemplate, OutlierLine, SerializeTemplateOutlier, SerializeVariable,
              SerializeSubpattern, reader
<1>2. CASE Compress
  BY <1>2 DEF Compress, reader
<1>3. CASE WriteHead
  BY <1>3 DEF WriteHead, reader, writer
<1>4. CASE Write
  BY <1>4 DEF Write, reader
<1>5. CASE Close
  <2>1. Len(at) = Len(data)
    <3>1. out > Len(data) 
      BY <1>5 DEF Close
    <3>2. QED
      BY ONLY <1>0, <3>1
  <2>2. QED
    BY <2>1, <1>5 DEF Close, reader, writer
<1>6. CASE ReadNothing
  BY <1>6 DEF ReadNothing, writer
<1>7. CASE ReadMeta
  BY <1>7 DEF ReadMeta, Crash, writer
<1>8. CASE MetaRead
  BY <1>8 DEF MetaRead, writer, reader
<1>9. CASE BootTemplates \/ BootVariables
  BY <1>9 DEF BootTemplates, BootVariables, BootPart, writer
<1>10. CASE BootOutliers
  BY <1>10 DEF BootOutliers, Crash, writer
<1>11. CASE \E name \in Name : Load(name)
  BY <1>11 DEF Load, Store, writer
<1>12. CASE UNCHANGED vars
  BY <1>12 DEF vars, writer, reader
<1>13. QED
  BY <1>1, <1>2, <1>3, <1>4, <1>5, <1>6, <1>7, <1>8, <1>9, <1>10, <1>11, <1>12 DEF Next, WriteFile, Boot
-----------------------------------------------------------------------------
LEMMA FailedBeforeNext ==
  ASSUME NEW i \in Nat \ {0}
  PROVE  /\ FailedBefore(i) \in Nat
         /\ FailedBefore(i + 1) = FailedBefore(i) + (IF Failed(i) THEN 1 ELSE 0)
         /\ FailedBefore(1) = 0
<1> DEFINE S == {j \in 1 .. i - 1 : Failed(j)}
           T == {j \in 1 .. i : Failed(j)}
<1>1. IsFiniteSet(1 .. i - 1) /\ S \subseteq 1 .. i - 1
  BY FS_Interval
<1>2. IsFiniteSet(S) /\ Cardinality(S) \in Nat
  BY ONLY <1>1, FS_Subset, FS_CardinalityType, Zenon
<1>3. i \notin S /\ T = IF Failed(i) THEN S \union {i} ELSE S
  OBVIOUS
<1>4. Cardinality(S \union {i}) = Cardinality(S) + 1
  BY <1>2, <1>3, FS_AddElement
<1>5. FailedBefore(i) = Cardinality(S) /\ FailedBefore(i + 1) = Cardinality(T)
  <2>1. (i + 1) - 1 = i
    OBVIOUS
  <2>2. QED
    BY ONLY <2>1, Zenon DEF FailedBefore
<1>6. FailedBefore(1) = 0
  <2>1. {j \in 1 .. 1 - 1 : Failed(j)} = {}
    OBVIOUS
  <2>2. QED
    BY <2>1, FS_EmptySet DEF FailedBefore
<1>7. QED
  BY ONLY <1>2, <1>3, <1>4, <1>5, <1>6

LEMMA OffsetsInit == Init => Offsets
<1> SUFFICES ASSUME Init PROVE Offsets
  OBVIOUS
<1>1. meta = <<>> /\ offset = 0 /\ Len(meta) = 0
  BY DEF Init
<1>2. QED
  BY <1>1 DEF Offsets, Start

LEMMA OffsetsStep == TypeOK /\ Phases /\ Offsets /\ [Next]_vars => Offsets'
<1> SUFFICES ASSUME TypeOK, Phases, Offsets, [Next]_vars PROVE Offsets'
  OBVIOUS
<1>1. CASE Serialize
  <2>1. meta = <<>> /\ meta' = meta /\ offset' = offset /\ offset = 0
    BY <1>1 DEF Phases, Serializing, Serialize, SerializeTemplate, OutlierLine, SerializeTemplateOutlier,
                SerializeVariable, SerializeSubpattern
  <2>2. QED
    BY <2>1 DEF Offsets, Start
<1>2. CASE Compress
  <2>1. PICK n \in 1 .. Len(data), j \in 1 .. Len(data), c \in Coffer, compressed \in BOOLEAN :
          n <= j /\ Compressing(n, j, c, compressed)
    BY <1>2, CompressDoes
  <2>2. /\ n = Len(meta) + 1 /\ Len(meta') = n /\ Len(meta) \in Nat /\ Len(data) \in Nat
        /\ \A i \in 1 .. Len(meta) : i \in 1 .. Len(data) /\ i # n /\ i # j
    <3>1. n = Len(meta) + 1 /\ Len(meta') = n /\ n <= j
      BY <2>1 DEF Compressing
    <3>2. Len(meta) \in Nat /\ Len(data) \in Nat
      BY DEF TypeOK
    <3>3. QED
      BY ONLY <3>1, <3>2, n \in 1 .. Len(data), j \in 1 .. Len(data)
  <2>3. \A i \in 1 .. Len(meta) : meta'[i] = meta[i] /\ data'[i] = data[i]
    BY <2>1, <2>2 DEF Compressing
  <2>4. /\ data'[n] = c /\ meta'[n].src = c.src /\ meta'[n].compressed = compressed
        /\ meta'[n].offset = offset
        /\ c.src = 0 => ~compressed /\ c.dest = 0
        /\ offset' = offset + (IF compressed THEN c.dest + 4 ELSE c.dest)
    BY <2>1 DEF Compressing
  <2>5. \A i \in 1 .. Len(meta) : Start(i)' = Start(i) /\ Size(i)' = Size(i)
    BY <2>2, <2>3 DEF Start, Size
  <2>6. Start(n)' = offset /\ Start(n) = offset /\ Start(n + 1)' = offset'
    BY <2>2, <2>4 DEF Start
  <2>7. Size(n)' = IF compressed THEN c.dest + 4 ELSE c.dest
    BY <2>4 DEF Size
  <2>8. Start(1)' = 0
    <3>1. 1 \in 1 .. Len(meta) \/ 1 = n
      BY <2>2
    <3>2. QED
      BY <3>1, <2>5, <2>6 DEF Offsets
  <2>9. ASSUME NEW i \in 1 .. Len(meta')
        PROVE  /\ Start(i + 1)' = Start(i)' + Size(i)'
               /\ meta'[i].src = 0 => data'[i].dest = 0 /\ ~meta'[i].compressed
    <3>1. CASE i = n
      BY <3>1, <2>4, <2>6, <2>7
    <3>2. CASE i # n
      <4>1. i \in 1 .. Len(meta) /\ (i + 1 \in 1 .. Len(meta) \/ i + 1 = n)
        BY <3>2, <2>2
      <4>2. Start(i + 1)' = Start(i + 1)
        BY <4>1, <2>5, <2>6
      <4>3. QED
        BY <4>1, <4>2, <2>3, <2>5 DEF Offsets
    <3>3. QED
      BY <3>1, <3>2
  <2>10. QED
    BY <2>8, <2>9 DEF Offsets
<1>3. CASE Write
  BY <1>3 DEF Write, Offsets, Start, Size
<1>4. CASE Reads
  BY <1>4, ReadsOnly DEF writer, Offsets, Start, Size
<1>5. CASE UNCHANGED vars
  BY <1>5 DEF vars, writer, Offsets, Start, Size
<1>6. QED
  BY <1>1, <1>2, <1>3, <1>4, <1>5 DEF Next, WriteFile, Reads
-----------------------------------------------------------------------------
LEMMA PositionsInit == Init => Positions /\ Shifted
<1> SUFFICES ASSUME Init PROVE Positions /\ Shifted
  OBVIOUS
<1>1. data = <<>> /\ at = <<>> /\ pc = "templates" /\ Len(at) = 0 /\ DOMAIN data = {}
  BY DEF Init
<1>2. QED
  BY <1>1 DEF Positions, Shifted

(* Before the file is written only the first part of Positions says        *)
(* something.                                                              *)
LEMMA NotWritten ==
  ASSUME at' = <<>>, pc' # "write", \A i \in DOMAIN data' : data'[i].src # 0 => data'[i].lines # 0
  PROVE  Positions' /\ Shifted'
<1>1. Len(at') = 0
  OBVIOUS
<1>2. QED
  BY <1>1 DEF Positions, Shifted

LEMMA Advance ==
  ASSUME NEW start \in Nat, NEW dest \in Nat, NEW failures \in Nat
  PROVE  /\ start + 4 * failures = (start + 0) + 4 * (failures + 0)
         /\ (start + 4 * failures) + (4 + dest) = (start + (dest + 4)) + 4 * (failures + 0)
         /\ (start + 4 * failures) + (4 + dest) = (start + dest) + 4 * (failures + 1)
OBVIOUS

LEMMA WritePosition ==
  ASSUME TypeOK, Phases, Offsets, Positions, Shifted, Write
  PROVE  Positions' /\ Shifted'
<1>1. /\ pc = "write" /\ pc' = pc /\ out' = out + 1 /\ out <= Len(data)
      /\ data' = data /\ meta' = meta /\ offset' = offset
  BY DEF Write
<1>2. /\ data \in Seq(Coffer) /\ meta \in Seq(Line) /\ at \in Seq(Nat \union {-1})
      /\ Len(data) \in Nat /\ Len(meta) \in Nat /\ Len(at) \in Nat
      /\ out \in 1 .. Len(data) /\ out \in Nat \ {0} /\ Len(at) = out - 1 /\ pos \in Nat /\ offset \in Nat
  BY <1>1 DEF TypeOK
<1>3. Len(meta) = Len(data) /\ out \in 1 .. Len(meta)
  BY <1>1, <1>2 DEF Phases, Reading
<1>4. data[out] \in Coffer /\ meta[out] \in Line
  BY <1>2, <1>3
<1>5. data[out].dest \in Nat /\ meta[out].compressed \in BOOLEAN /\ meta[out].offset \in Nat
  BY <1>4 DEF Coffer, Line
<1>6. /\ pos = Start(out) + 4 * FailedBefore(out) /\ Start(out) = meta[out].offset
      /\ Start(out + 1) = Start(out) + Size(out)
      /\ meta[out].src = data[out].src
      /\ meta[out].src = 0 => data[out].dest = 0 /\ ~meta[out].compressed
      /\ data[out].src # 0 => data[out].lines # 0
  <2>1. pos = Start(out) + 4 * FailedBefore(out)
    BY <1>1 DEF Positions
  <2>2. Start(out) = meta[out].offset
    BY <1>3 DEF Start
  <2>3. /\ Start(out + 1) = Start(out) + Size(out)
        /\ meta[out].src = 0 => data[out].dest = 0 /\ ~meta[out].compressed
    BY <1>3 DEF Offsets
  <2>4. meta[out].src = data[out].src
    BY <1>3 DEF TypeOK
  <2>5. data[out].src # 0 => data[out].lines # 0
    BY <1>2 DEF Positions
  <2>6. QED
    BY <2>1, <2>2, <2>3, <2>4, <2>5
<1>7. /\ FailedBefore(out) \in Nat
      /\ FailedBefore(out + 1) = FailedBefore(out) + (IF Failed(out) THEN 1 ELSE 0)
  BY <1>2, FailedBeforeNext
<1>8. /\ at' = Append(at, IF meta[out].src # 0 THEN pos ELSE -1)
      /\ pos' = IF meta[out].src # 0 THEN pos + (4 + data[out].dest) ELSE pos
  <2>1. (data[out].lines # 0 /\ meta[out].src # 0) <=> meta[out].src # 0
    BY <1>6
  <2>2. at' = Append(at, IF meta[out].src # 0 THEN pos ELSE -1)
    BY <2>1 DEF Write
  <2>3. pos' = IF meta[out].src # 0 THEN pos + (4 + data[out].dest) ELSE pos
    BY <2>1 DEF Write, Length
  <2>4. QED
    BY <2>2, <2>3
<1>9. pos' = Start(out + 1) + 4 * FailedBefore(out + 1)
  <2> DEFINE d == data[out].dest
             f == FailedBefore(out)
  <2>1. Start(out) \in Nat /\ d \in Nat /\ f \in Nat
    BY <1>5, <1>6, <1>7
  <2>2. /\ pos = (Start(out) + 0) + 4 * (f + 0)
        /\ pos + (4 + d) = (Start(out) + (d + 4)) + 4 * (f + 0)
        /\ pos + (4 + d) = (Start(out) + d) + 4 * (f + 1)
    BY <2>1, <1>6, Advance
  <2>3. CASE meta[out].src = 0
    <3>1. ~Failed(out) /\ Size(out) = 0
      BY <2>3, <1>6 DEF Failed, Size
    <3>2. QED
      BY <3>1, <2>2, <2>3, <1>6, <1>7, <1>8, Zenon
  <2>4. CASE meta[out].src # 0 /\ meta[out].compressed
    <3>1. ~Failed(out) /\ Size(out) = d + 4
      BY <2>4 DEF Failed, Size
    <3>2. QED
      BY <3>1, <2>2, <2>4, <1>6, <1>7, <1>8, Zenon
  <2>5. CASE meta[out].src # 0 /\ ~meta[out].compressed
    <3>1. Failed(out) /\ Size(out) = d
      BY <2>5 DEF Failed, Size
    <3>2. QED
      BY <3>1, <2>2, <2>5, <1>6, <1>7, <1>8, Zenon
  <2>6. QED
    BY <2>3, <2>4, <2>5
<1>10. /\ Len(at') = out
       /\ \A i \in 1 .. Len(at) : at'[i] = at[i]
       /\ at'[out] = IF meta[out].src # 0 THEN pos ELSE -1
  <2>1. (IF meta[out].src # 0 THEN pos ELSE -1) \in Nat \union {-1}
    BY <1>2
  <2>2. Len(at) + 1 = out
    BY <1>2
  <2>3. QED
    BY <1>2, <1>8, <2>1, <2>2, SeqAppend
<1>11. \A i \in 1 .. Len(at') : i = out \/ i \in 1 .. Len(at)
  BY <1>2, <1>10
<1>12. /\ \A i : FailedBefore(i)' = FailedBefore(i)
       /\ FailedBefore(out)' = FailedBefore(out + 1) /\ Start(out)' = Start(out + 1)
  BY <1>1 DEF FailedBefore, Failed, Start
<1>13. Positions'
  <2>1. \A i \in 1 .. Len(at') : meta[i].src # 0 => at'[i] # -1
    <3> SUFFICES ASSUME NEW i \in 1 .. Len(at'), meta[i].src # 0 PROVE at'[i] # -1
      OBVIOUS
    <3>1. CASE i = out
      BY <3>1, <1>2, <1>10
    <3>2. CASE i \in 1 .. Len(at)
      BY <3>2, <1>10 DEF Positions
    <3>3. QED
      BY <3>1, <3>2, <1>11
  <2>2. QED
    BY <2>1, <1>1, <1>9, <1>12 DEF Positions
<1>14. Shifted'
  <2> SUFFICES ASSUME NEW i \in 1 .. Len(at'), at'[i] # -1
               PROVE  at'[i] = meta[i].offset + 4 * FailedBefore(i)
    BY <1>1, <1>12 DEF Shifted
  <2>1. CASE i = out
    BY <2>1, <1>6, <1>10
  <2>2. CASE i \in 1 .. Len(at)
    BY <2>2, <1>10 DEF Shifted
  <2>3. QED
    BY <2>1, <2>2, <1>11
<1>15. QED
  BY <1>13, <1>14

LEMMA PositionsStep == TypeOK /\ BlockOK /\ Phases /\ Offsets /\ Positions /\ Shifted /\ [Next]_vars
                         => Positions' /\ Shifted'
<1> SUFFICES ASSUME TypeOK, BlockOK, Phases, Offsets, Positions, Shifted, [Next]_vars
             PROVE  Positions' /\ Shifted'
  OBVIOUS
<1>0. /\ data \in Seq(Coffer) /\ Len(data) \in Nat /\ DOMAIN data = 1 .. Len(data)
      /\ \A i \in 1 .. Len(data) : data[i].src # 0 => data[i].lines # 0
  BY DEF TypeOK, Positions
<1>1. CASE Serialize
  <2>1. pc \in Serializing /\ pc' # "write" /\ at' = at
    BY <1>1 DEF Serializing, Serialize, SerializeTemplate, OutlierLine, SerializeTemplateOutlier,
                SerializeVariable, SerializeSubpattern
  <2>2. at' = <<>>
    BY <2>1 DEF Phases
  <2>3. Grown
    BY <1>1, SerializeGrows
  <2>4. \A i \in DOMAIN data' : data'[i].src # 0 => data'[i].lines # 0
    <3>1. DOMAIN data' = 1 .. Len(data') /\ Len(data') \in Nat
      BY <2>3 DEF Grown
    <3>2. \A i \in 1 .. Len(data') : i <= Len(data) => i \in 1 .. Len(data)
      BY <1>0, <3>1
    <3>3. QED
      BY <1>0, <2>3, <3>1, <3>2 DEF Grown
  <2>5. QED
    BY <2>1, <2>2, <2>4, NotWritten
<1>2. CASE Compress
  <2>1. pc = "compress" /\ pc' # "write" /\ at' = at
    BY <1>2 DEF Compress
  <2>2. at' = <<>>
    BY <2>1 DEF Phases
  <2>3. PICK n \in 1 .. Len(data), j \in 1 .. Len(data), c \in Coffer, compressed \in BOOLEAN :
          n <= j /\ Compressing(n, j, c, compressed)
    BY <1>2, CompressDoes
  <2>4. \A i \in DOMAIN data' : data'[i].src # 0 => data'[i].lines # 0
    <3>1. DOMAIN data' = 1 .. Len(data)
      BY <2>3 DEF Compressing
    <3>2. c.src # 0 => c.lines # 0
      BY <1>0, <2>3 DEF Compressing
    <3>3. \A i \in 1 .. Len(data) : data'[i] = c \/ data'[i] = data[n] \/ data'[i] = data[i]
      BY <2>3 DEF Compressing
    <3>4. QED
      BY <1>0, <2>3, <3>1, <3>2, <3>3
  <2>5. QED
    BY <2>1, <2>2, <2>4, NotWritten
<1>3. CASE Write
  BY <1>3, WritePosition
<1>4. CASE Reads \/ UNCHANGED vars
  <2>1. UNCHANGED <<data, meta, offset, out, pos, at>>
    BY <1>4, ReadsOnly DEF vars, writer
  <2>2. /\ \A i : FailedBefore(i)' = FailedBefore(i)
        /\ FailedBefore(out)' = FailedBefore(out) /\ Start(out)' = Start(out)
    BY <2>1 DEF FailedBefore, Failed, Start
  <2>3. pc' = "write" => pos = Start(out) + 4 * FailedBefore(out)
    <3>1. CASE pc = "write"
      BY <3>1 DEF Positions
    <3>2. CASE WriteHead
      <4>1. at = <<>> /\ pos = 0
        BY <3>2 DEF WriteHead, Phases
      <4>2. out = 1
        <5>1. Len(at) = 0 /\ Len(at) = out - 1 /\ out \in 1 .. Len(data) + 1
          BY <4>1 DEF TypeOK
        <5>2. QED
          BY ONLY <5>1, <1>0
      <4>3. Start(out) = 0 /\ FailedBefore(out) = 0
        BY <4>2, FailedBeforeNext DEF Offsets
      <4>4. QED
        BY <4>1, <4>3
    <3>3. CASE pc # "write" /\ ~WriteHead
      BY <3>3, <1>4 DEF Reads, Close, Boot, ReadNothing, ReadMeta, MetaRead, BootTemplates, BootVariables,
                        BootPart, BootOutliers, Crash, Load, vars
    <3>4. QED
      BY <3>1, <3>2, <3>3
  <2>4. Positions'
    BY <2>1, <2>2, <2>3 DEF Positions
  <2>5. Shifted'
    BY <2>1, <2>2 DEF Shifted
  <2>6. QED
    BY <2>4, <2>5
<1>5. QED
  BY <1>1, <1>2, <1>3, <1>4 DEF Next, WriteFile, Reads

LEMMA InvInit == Init => Inv
BY TypeInit, PhasesInit, OffsetsInit, PositionsInit DEF Inv

LEMMA InvStep == Inv /\ [Next]_vars => Inv'
BY TypeStep, PhasesStep, OffsetsStep, PositionsStep DEF Inv

LEMMA InvAlways == Spec => []Inv
BY InvInit, InvStep, PTL DEF Spec

THEOREM TypeCorrect == Spec => []TypeOK
<1>1. Inv => TypeOK
  BY DEF Inv
<1>2. QED
  BY <1>1, InvAlways, PTL

(* However many coffers fail to compress, and wherever: the offset in the  *)
(* line of a coffer is where it was written, but for four bytes for each   *)
(* coffer before it that failed.                                           *)
THEOREM OffsetsShifted == Spec => []Shifted
<1>1. Inv => Shifted
  BY DEF Inv
<1>2. QED
  BY <1>1, InvAlways, PTL
-----------------------------------------------------------------------------
LEMMA FoundIs == ASSUME NEW i PROVE Found(i) \subseteq What
BY DEF Found, What

LEMMA TableInit == Init => Table
<1> SUFFICES ASSUME Init PROVE Table
  OBVIOUS
<1>1. line = 1 /\ meta = <<>> /\ Len(meta) = 0 /\ glb = [n \in {} |-> Undefined]
  BY DEF Init
<1>2. DOMAIN glb = {} /\ glb \in [DOMAIN glb -> [line : Nat, data : What]]
  BY <1>1
<1>3. QED
  BY <1>1, <1>2 DEF Table

(* Nothing was read yet.                                                   *)
LEMMA TableEmpty ==
  ASSUME Table, UNCHANGED <<glb, line>>, DOMAIN glb = {}, line = 1, Len(meta') \in Nat
  PROVE  Table'
BY DEF Table

LEMMA TableRead ==
  ASSUME Inv, Table, ReadMeta, line' = line + 1
  PROVE  Table'
<1>1. /\ line \in 1 .. Len(meta) /\ line' = line + 1 /\ meta' = meta /\ at' = at
      /\ Len(meta) \in Nat
  <2>1. line \in Nat \ {0} /\ Len(meta) \in Nat
    BY DEF Inv, TypeOK
  <2>2. line <= Len(meta) /\ line' = line + 1 /\ meta' = meta /\ at' = at
    BY DEF ReadMeta, writer
  <2>3. QED
    BY ONLY <2>1, <2>2
<1>2. PICK what \in What : (what = "null" \/ what \in Found(line)) /\ glb' = Made(line, what)
  <2>0. line' # line
    BY <1>1
  <2>1. PICK what \in IF meta[line].name \in VarOutliers /\ meta[line].lines > 0
                      THEN Found(line) ELSE {"null"} : glb' = Made(line, what)
    BY <2>0, Zenon DEF ReadMeta
  <2>2. what = "null" \/ what \in Found(line)
    BY <2>1
  <2>3. "null" \in What
    BY DEF What
  <2>4. what \in What
    BY <2>2, <2>3, FoundIs
  <2>5. QED
    BY <2>1, <2>2, <2>4
<1> DEFINE name == meta[line].name
<1>3. /\ DOMAIN glb' = DOMAIN glb \union {name}
      /\ glb'[name] = [line |-> line, data |-> what]
      /\ \A n \in DOMAIN glb \ {name} : glb'[n] = glb[n]
      /\ glb' = [n \in DOMAIN glb \union {name} |-> IF n = name THEN [line |-> line, data |-> what] ELSE glb[n]]
  BY <1>2 DEF Made
<1>4. /\ glb \in [DOMAIN glb -> [line : Nat, data : What]]
      /\ \A n \in DOMAIN glb : /\ glb[n].line \in 1 .. line - 1 /\ meta[glb[n].line].name = n
                               /\ glb[n].data = "null" \/ glb[n].data \in Found(glb[n].line)
      /\ \A i \in 1 .. line - 1 : meta[i].name \in DOMAIN glb /\ i <= glb[meta[i].name].line
  BY DEF Table
<1>5. [line |-> line, data |-> what] \in [line : Nat, data : What]
  BY <1>1, <1>2
<1> HIDE DEF name
<1>6. \A n \in DOMAIN glb : glb[n] \in [line : Nat, data : What]
  BY <1>4
<1>7. glb' \in [DOMAIN glb' -> [line : Nat, data : What]]
  BY <1>3, <1>5, <1>6
<1>8. \A i : Found(i)' = Found(i)
  BY <1>1 DEF Found
<1>9. \A n \in DOMAIN glb' : /\ glb'[n].line \in 1 .. line' - 1 /\ meta[glb'[n].line].name = n
                             /\ glb'[n].data = "null" \/ glb'[n].data \in Found(glb'[n].line)
  <2> SUFFICES ASSUME NEW n \in DOMAIN glb'
               PROVE  /\ glb'[n].line \in 1 .. line' - 1 /\ meta[glb'[n].line].name = n
                      /\ glb'[n].data = "null" \/ glb'[n].data \in Found(glb'[n].line)
    OBVIOUS
  <2>1. CASE n = name
    <3>1. glb'[n].line = line /\ glb'[n].data = what
      BY <2>1, <1>3
    <3>2. line \in 1 .. line' - 1
      BY <1>1
    <3>3. QED
      BY <3>1, <3>2, <2>1, <1>2 DEF name
  <2>2. CASE n # name
    <3>1. n \in DOMAIN glb /\ glb'[n] = glb[n]
      BY <2>2, <1>3
    <3>2. \A k \in 1 .. line - 1 : k \in 1 .. line' - 1
      BY <1>1
    <3>3. QED
      BY <3>1, <3>2, <1>4
  <2>3. QED
    BY <2>1, <2>2
<1>10. \A i \in 1 .. line' - 1 : meta[i].name \in DOMAIN glb' /\ i <= glb'[meta[i].name].line
  <2> SUFFICES ASSUME NEW i \in 1 .. line' - 1
               PROVE  meta[i].name \in DOMAIN glb' /\ i <= glb'[meta[i].name].line
    OBVIOUS
  <2>1. i = line \/ i \in 1 .. line - 1
    BY <1>1
  <2>2. i <= line
    BY <1>1
  <2>3. CASE meta[i].name = name
    BY <2>2, <2>3, <1>3
  <2>4. CASE meta[i].name # name
    <3>1. i \in 1 .. line - 1
      BY <2>1, <2>4 DEF name
    <3>2. QED
      BY <3>1, <2>4, <1>3, <1>4
  <2>5. QED
    BY <2>3, <2>4
<1>11. line' <= Len(meta) + 1
  BY <1>1
<1>12. QED
  BY <1>1, <1>7, <1>8, <1>9, <1>10, <1>11 DEF Table

LEMMA TableLoad ==
  ASSUME Inv, Table, NEW name \in Name, Load(name)
  PROVE  Table'
<1>1. /\ line' = line /\ meta' = meta /\ at' = at /\ name \in DOMAIN glb
  BY DEF Load, writer
<1>2. CASE glb' = glb
  BY <1>1, <1>2 DEF Table, Found
<1>3. CASE glb' # glb
  <2>1. PICK what \in Found(glb[name].line) : glb' = [glb EXCEPT ![name].data = what]
    BY <1>3 DEF Load, Store
  <2>2. what \in What
    BY <2>1, FoundIs
  <2>3. /\ glb \in [DOMAIN glb -> [line : Nat, data : What]]
        /\ glb[name] \in [line : Nat, data : What]
    BY <1>1 DEF Table
  <2>4. /\ DOMAIN glb' = DOMAIN glb
        /\ glb' \in [DOMAIN glb -> [line : Nat, data : What]]
        /\ \A n \in DOMAIN glb : glb'[n].line = glb[n].line /\ glb'[n].data = IF n = name THEN what ELSE glb[n].data
    BY ONLY <2>1, <2>2, <2>3, <1>1
  <2>5. \A i : Found(i)' = Found(i)
    BY <1>1 DEF Found
  <2>6. \A n \in DOMAIN glb : glb'[n].data = "null" \/ glb'[n].data \in Found(glb[n].line)
    <3>1. \A n \in DOMAIN glb : glb[n].data = "null" \/ glb[n].data \in Found(glb[n].line)
      BY DEF Table
    <3>2. QED
      BY ONLY <3>1, <2>1, <2>4
  <2>7. QED
    BY <1>1, <2>4, <2>5, <2>6 DEF Table
<1>4. QED
  BY <1>2, <1>3

LEMMA TableStep == Inv /\ Inv' /\ Table /\ [Next]_vars => Table'
<1> SUFFICES ASSUME Inv, Inv', Table, [Next]_vars PROVE Table'
  OBVIOUS
<1>1. CASE Serialize \/ Compress \/ Write
  <2>1. pc \notin Reading \union {"closed"} /\ UNCHANGED <<glb, line>>
    BY <1>1 DEF Reading, Serialize, SerializeTemplate, OutlierLine, SerializeTemplateOutlier,
                SerializeVariable, SerializeSubpattern, Compress, Write, reader
  <2>2. DOMAIN glb = {} /\ line = 1
    BY <2>1 DEF Inv, Phases
  <2>3. Len(meta') \in Nat
    BY DEF Inv, TypeOK
  <2>4. QED
    BY <2>1, <2>2, <2>3, TableEmpty
<1>2. CASE ReadMeta
  <2>1. CASE line' = line + 1
    BY <1>2, <2>1, TableRead
  <2>2. CASE UNCHANGED <<glb, line>>
    BY <1>2, <2>2 DEF ReadMeta, writer, Table, Found
  <2>3. QED
    BY <1>2, <2>1, <2>2 DEF ReadMeta
<1>3. CASE \E name \in Name : Load(name)
  BY <1>3, TableLoad
<1>4. CASE UNCHANGED <<glb, line, meta, at>>
  BY <1>4 DEF Table, Found
<1>5. QED
  <2>1. Reads \/ UNCHANGED vars => ReadMeta \/ (\E name \in Name : Load(name)) \/ UNCHANGED <<glb, line, meta, at>>
    BY DEF Reads, WriteHead, Close, Boot, ReadNothing, MetaRead, BootTemplates, BootVariables,
           BootPart, BootOutliers, Crash, vars, writer, reader
  <2>2. QED
    BY <2>1, <1>1, <1>2, <1>3, <1>4 DEF Next, WriteFile, Reads
-----------------------------------------------------------------------------
(* What is found at a line that was read, once everything was written      *)
LEMMA FoundWhat ==
  ASSUME Inv, pc \in Reading, NEW i \in 1 .. Len(meta), NEW what \in Found(i)
  PROVE  /\ data[i].name = meta[i].name
         /\ what = "null" <=> data[i].src = 0
         /\ what \in {"garbage", "unset"} => FailedBefore(i) > 0
<1>1. meta[i].src = data[i].src /\ meta[i].name = data[i].name
  BY DEF Inv, TypeOK
<1>2. what = "null" <=> meta[i].src = 0
  BY DEF Found
<1>3. ASSUME what \in {"garbage", "unset"} PROVE FailedBefore(i) > 0
  <2>1. meta[i].src # 0 /\ at[i] # meta[i].offset
    BY <1>3 DEF Found
  <2>2. i \in 1 .. Len(at)
    BY DEF Inv, Phases, Reading
  <2>3. at[i] = meta[i].offset + 4 * FailedBefore(i)
    BY <2>1, <2>2 DEF Inv, Positions, Shifted
  <2>4. FailedBefore(i) \in Nat
    <3>1. i \in Nat \ {0}
      OBVIOUS
    <3>2. QED
      BY <3>1, FailedBeforeNext
  <2>5. meta[i].offset \in Nat
    <3>1. meta \in Seq(Line)
      BY DEF Inv, TypeOK
    <3>2. meta[i] \in Line
      BY <3>1
    <3>3. QED
      BY <3>2 DEF Line
  <2>6. FailedBefore(i) # 0
    BY ONLY <2>1, <2>3, <2>5
  <2>7. QED
    BY ONLY <2>4, <2>6
<1>4. QED
  BY <1>1, <1>2, <1>3

LEMMA LoadedInit == Init => LoadedIsStored
BY DEF Init, LoadedIsStored

LEMMA LoadedByLoad ==
  ASSUME Inv, Table, NEW name \in Name, Load(name)
  PROVE  LoadedIsStored'
<1> DEFINE i == glb[name].line
<1>1. /\ pc \in Reading /\ name \in DOMAIN glb
      /\ UNCHANGED <<meta, data>>
  BY DEF Load, writer, Reading
<1>2. i \in 1 .. Len(meta) /\ meta[i].name = name
  <2>1. i \in 1 .. line - 1 /\ line <= Len(meta) + 1 /\ meta[i].name = name
    BY <1>1 DEF Table
  <2>2. line \in Nat /\ Len(meta) \in Nat
    BY DEF Inv, TypeOK
  <2>3. QED
    BY ONLY <2>1, <2>2
<1>3. answer'.name = name /\ answer'.data \in Found(i) /\ glb'[name].line = i
  <2>1. CASE glb[name].data # "null"
    <3>1. glb' = glb /\ answer' = [name |-> name, ret |-> 1, data |-> glb[name].data]
      BY <2>1 DEF Load
    <3>2. glb[name].data \in Found(i)
      BY <1>1, <2>1 DEF Table
    <3>3. QED
      BY <3>1, <3>2
  <2>2. CASE glb[name].data = "null"
    <3>1. PICK what \in Found(i) : /\ glb' = [glb EXCEPT ![name].data = what]
                                   /\ answer'.name = name /\ answer'.data = what
      BY <2>2 DEF Load, Store
    <3>2. /\ glb \in [DOMAIN glb -> [line : Nat, data : What]]
          /\ glb[name] \in [line : Nat, data : What]
      BY <1>1 DEF Table
    <3>3. glb'[name].line = glb[name].line
      BY ONLY <3>1, <3>2, <1>1
    <3>4. QED
      BY <3>1, <3>3
  <2>3. QED
    BY <2>1, <2>2
<1> HIDE DEF i
<1>4. /\ answer'.data = "null" <=> data[i].src = 0
      /\ answer'.data \in {"garbage", "unset"} => FailedBefore(i) > 0
  BY <1>1, <1>2, <1>3, FoundWhat
<1>5. QED
  BY <1>1, <1>2, <1>3, <1>4 DEF LoadedIsStored, FailedBefore, Failed

LEMMA LoadedStep == Inv /\ Inv' /\ Table /\ LoadedIsStored /\ [Next]_vars => LoadedIsStored'
<1> SUFFICES ASSUME Inv, Inv', Table, LoadedIsStored, [Next]_vars PROVE LoadedIsStored'
  OBVIOUS
<1>1. CASE \E name \in Name : Load(name)
  BY <1>1, LoadedByLoad
<1>2. CASE pc # "open"
  <2>1. answer = Undefined
    BY <1>2 DEF Inv, Phases
  <2>2. UNCHANGED answer
    BY <1>2 DEF Next, Serialize, SerializeTemplate, OutlierLine, SerializeTemplateOutlier, SerializeVariable,
                SerializeSubpattern, WriteFile, Compress, WriteHead, Write, Close, Boot, ReadNothing, ReadMeta,
                MetaRead, BootTemplates, BootVariables, BootPart, BootOutliers, Crash, Load, vars, reader
  <2>3. QED
    BY <2>1, <2>2 DEF LoadedIsStored
<1>3. CASE UNCHANGED vars
  BY <1>3 DEF vars, writer, reader, LoadedIsStored, FailedBefore, Failed
<1>4. QED
  <2>1. pc = "open" => UNCHANGED vars \/ \E name \in Name : Load(name)
    BY DEF Next, Serialize, SerializeTemplate, OutlierLine, SerializeTemplateOutlier, SerializeVariable,
           SerializeSubpattern, WriteFile, Compress, WriteHead, Write, Close, Boot, ReadNothing, ReadMeta,
           MetaRead, BootTemplates, BootVariables, BootPart, BootOutliers, Crash
  <2>2. QED
    BY <2>1, <1>1, <1>2, <1>3

LEMMA TableAlways == Spec => [](Inv /\ Table)
BY InvInit, InvStep, TableInit, TableStep, PTL DEF Spec

(* What a store loads is the coffer of that name as it was stored, or      *)
(* nothing where nothing was; garbage only behind a coffer that failed.    *)
THEOREM LoadsAreStored == Spec => []LoadedIsStored
BY LoadedInit, LoadedStep, InvInit, InvStep, TableAlways, PTL DEF Spec
-----------------------------------------------------------------------------
(* Compress exchanges coffers and changes what is not told of them here.   *)
Same(c, d) == c.name = d.name /\ c.src = d.src /\ c.lines = d.lines /\ c.first = d.first

LEMMA CompressPermutes ==
  ASSUME TypeOK, Compress
  PROVE  /\ Len(data) \in Nat /\ DOMAIN data = 1 .. Len(data) /\ DOMAIN data' = DOMAIN data
         /\ \E p \in [1 .. Len(data) -> 1 .. Len(data)] :
              \A i \in 1 .. Len(data) : p[p[i]] = i /\ Same(data'[i], data[p[i]])
<1>1. PICK n \in 1 .. Len(data), j \in 1 .. Len(data), c \in Coffer, compressed \in BOOLEAN :
        n <= j /\ Compressing(n, j, c, compressed)
  BY CompressDoes
<1>2. /\ data' \in Seq(Coffer) /\ Len(data') = Len(data) /\ data \in Seq(Coffer)
      /\ \A i \in 1 .. Len(data) : data'[i] = IF i = n THEN c ELSE IF i = j THEN data[n] ELSE data[i]
      /\ Same(c, data[j])
  BY <1>1 DEF Compressing, TypeOK, Same
<1> DEFINE p == [i \in 1 .. Len(data) |-> IF i = n THEN j ELSE IF i = j THEN n ELSE i]
<1>3. p \in [1 .. Len(data) -> 1 .. Len(data)]
  OBVIOUS
<1>4. ASSUME NEW i \in 1 .. Len(data)
      PROVE  p[p[i]] = i /\ Same(data'[i], data[p[i]])
  BY <1>2 DEF Same
<1>5. /\ DOMAIN data = 1 .. Len(data) /\ DOMAIN data' = 1 .. Len(data) /\ Len(data) \in Nat
  BY <1>2
<1> HIDE DEF p
<1>6. QED
  BY <1>3, <1>4, <1>5

(* A name that some coffer has is kept.                                    *)
Has(name) == \E i \in DOMAIN data : data[i].name = name

LEMMA HasAppended ==
  ASSUME TypeOK, NEW c \in Coffer, c.src # 0 => c.lines # 0, data' = Append(data, c)
  PROVE  Has(c.name)'
<1>1. Grown /\ Len(data') = Len(data) + 1 /\ data'[Len(data) + 1] = c
  BY GrownByOne
<1>2. DOMAIN data' = 1 .. Len(data') /\ Len(data) \in Nat
  BY <1>1 DEF Grown, TypeOK
<1>3. Len(data) + 1 \in DOMAIN data'
  BY <1>1, <1>2
<1>4. QED
  BY <1>1, <1>3 DEF Has

LEMMA HasStep ==
  ASSUME TypeOK, BlockOK, [Next]_vars, NEW name, Has(name)
  PROVE  Has(name)'
<1>1. PICK i \in DOMAIN data : data[i].name = name
  BY DEF Has
<1>2. CASE Serialize
  <2>1. Grown
    BY <1>2, SerializeGrows
  <2>2. i \in DOMAIN data' /\ data'[i] = data[i]
    <3>1. data \in Seq(Coffer) /\ data' \in Seq(Coffer) /\ Len(data) <= Len(data')
      BY <2>1 DEF Grown, TypeOK
    <3>2. /\ DOMAIN data = 1 .. Len(data) /\ DOMAIN data' = 1 .. Len(data')
          /\ Len(data) \in Nat /\ Len(data') \in Nat
      BY <3>1
    <3>3. i \in 1 .. Len(data) /\ i \in 1 .. Len(data')
      BY ONLY <3>1, <3>2
    <3>4. QED
      BY <3>2, <3>3, <2>1 DEF Grown
  <2>3. QED
    BY <1>1, <2>2 DEF Has
<1>3. CASE Compress
  <2>1. /\ DOMAIN data = 1 .. Len(data) /\ DOMAIN data' = DOMAIN data
        /\ \E p \in [1 .. Len(data) -> 1 .. Len(data)] :
              \A k \in 1 .. Len(data) : p[p[k]] = k /\ Same(data'[k], data[p[k]])
    BY <1>3, CompressPermutes
  <2>2. PICK p \in [1 .. Len(data) -> 1 .. Len(data)] :
          \A k \in 1 .. Len(data) : p[p[k]] = k /\ Same(data'[k], data[p[k]])
    BY <2>1
  <2>3. p[i] \in DOMAIN data' /\ data'[p[i]].name = data[i].name
    BY <2>1, <2>2 DEF Same
  <2>4. QED
    BY <1>1, <2>3 DEF Has
<1>4. CASE UNCHANGED data
  BY <1>4 DEF Has
<1>5. QED
  <2>1. Write \/ Reads \/ UNCHANGED vars => UNCHANGED data
    BY ReadsOnly DEF Write, vars, writer
  <2>2. QED
    BY <2>1, <1>2, <1>3, <1>4 DEF Next, WriteFile, Reads

LEMMA PresentInit == Init => Present
BY DEF Init, Present, Serializing

LEMMA PresentStep == TypeOK /\ BlockOK /\ Phases /\ Present /\ [Next]_vars => Present'
<1> SUFFICES ASSUME TypeOK, BlockOK, Phases, Present, [Next]_vars PROVE Present'
  OBVIOUS
<1> DEFINE P(here) == /\ here # "templates" => Has(Templates)
                      /\ here \notin {"templates", "outliers"} => Has(Outliers)
                      /\ here \notin Serializing => Has(Variables)
<1>1. P(pc)
  BY DEF Present, Has
<1>2. /\ Has(Templates) => Has(Templates)'
      /\ Has(Outliers) => Has(Outliers)'
      /\ Has(Variables) => Has(Variables)'
  BY HasStep DEF Templates, Outliers, Variables
<1>3. /\ pc' # "templates" => pc # "templates" \/ SerializeTemplate
      /\ pc' \notin {"templates", "outliers"} => pc \notin {"templates", "outliers"} \/ SerializeTemplateOutlier
      /\ pc' \notin Serializing => pc \notin Serializing \/ SerializeSubpattern
  BY DEF Serializing, Next, Serialize, SerializeTemplate, OutlierLine, SerializeTemplateOutlier,
         SerializeVariable, SerializeSubpattern, WriteFile, Compress, WriteHead, Write, Close, Boot,
         ReadNothing, ReadMeta, MetaRead, BootTemplates, BootVariables, BootPart, BootOutliers, Crash, Load, vars
<1>4. SerializeTemplate => Has(Templates)'
  <2> SUFFICES ASSUME SerializeTemplate PROVE Has(Templates)'
    OBVIOUS
  <2>1. PICK src \in Nat : data' = Append(data, NewCoffer(Templates, 0, src, 0))
    BY DEF SerializeTemplate, Overlong
  <2>2. Has(NewCoffer(Templates, 0, src, 0).name)'
    BY <2>1, LogCoffers, HasAppended
  <2>3. QED
    BY <2>2, LogCoffers DEF Has
<1>5. SerializeTemplateOutlier => Has(Outliers)'
  <2> SUFFICES ASSUME SerializeTemplateOutlier PROVE Has(Outliers)'
    OBVIOUS
  <2>1. data' = Append(data, Block)
    BY DEF SerializeTemplateOutlier
  <2>2. PICK c \in Coffer : c = Block /\ c.name = Outliers /\ (c.src # 0 => c.lines # 0)
    BY BlockType
  <2>3. Has(c.name)'
    BY <2>1, <2>2, HasAppended
  <2>4. QED
    BY <2>2, <2>3 DEF Has
<1>6. SerializeSubpattern => Has(Variables)'
  <2> SUFFICES ASSUME SerializeSubpattern PROVE Has(Variables)'
    OBVIOUS
  <2>1. PICK src \in Nat : data' = Append(data, NewCoffer(Variables, 2, src, 0))
    BY DEF SerializeSubpattern, Overlong
  <2>2. Has(NewCoffer(Variables, 2, src, 0).name)'
    BY <2>1, LogCoffers, HasAppended
  <2>3. QED
    BY <2>2, LogCoffers DEF Has
<1>7. QED
  BY <1>1, <1>2, <1>3, <1>4, <1>5, <1>6 DEF Present, Has

LEMMA LinesWritten ==
  ASSUME Inv, pc \in Reading
  PROVE  /\ Len(meta) = Len(data) /\ Len(data) \in Nat /\ DOMAIN data = 1 .. Len(data)
         /\ line \in Nat /\ \A i \in 1 .. Len(meta) : meta[i].name = data[i].name
<1>1. data \in Seq(Coffer) /\ line \in Nat /\ \A i \in 1 .. Len(meta) : meta[i].name = data[i].name
  BY DEF Inv, TypeOK
<1>2. Len(meta) = Len(data)
  BY DEF Inv, Phases
<1>3. Len(data) \in Nat /\ DOMAIN data = 1 .. Len(data)
  BY <1>1
<1>4. QED
  BY <1>1, <1>2, <1>3

(* The line of a name that every archive has, when BootLoader needs it     *)
LEMMA LineOf ==
  ASSUME Inv, Table, NEW name, Has(name), pc \in Reading \ {"read meta"}
  PROVE  /\ name \in DOMAIN glb /\ glb[name].line \in 1 .. Len(meta) /\ glb[name].line \in DOMAIN data
         /\ data[glb[name].line].name = name
         /\ \A j \in DOMAIN data : data[j].name = name => j <= glb[name].line
<1>1. /\ Len(meta) = Len(data) /\ Len(data) \in Nat /\ DOMAIN data = 1 .. Len(data) /\ line \in Nat
      /\ \A i \in 1 .. Len(meta) : meta[i].name = data[i].name
  BY LinesWritten
<1>2. line - 1 = Len(meta)
  <2>1. line > Len(meta)
    BY DEF Inv, Phases
  <2>2. line <= Len(meta) + 1
    BY DEF Table
  <2>3. QED
    BY ONLY <1>1, <2>1, <2>2
<1>3. \A j \in 1 .. Len(meta) : meta[j].name = name => name \in DOMAIN glb /\ j <= glb[name].line
  BY <1>2 DEF Table
<1>4. PICK k \in DOMAIN data : data[k].name = name
  BY DEF Has
<1>5. name \in DOMAIN glb
  BY <1>1, <1>3, <1>4
<1>6. glb[name].line \in 1 .. Len(meta) /\ meta[glb[name].line].name = name
  BY <1>2, <1>5 DEF Table
<1>7. QED
  BY <1>1, <1>3, <1>5, <1>6

LEMMA OpensInit == Init => Opens
BY DEF Init, Opens

(* Whether a store may fail does not change once the archive is written.   *)
LEMMA OpensIf ==
  ASSUME UNCHANGED <<data, meta, at>>, boot' = "failed" => MayFail, boot' = "crash" => MayCrash
  PROVE  Opens'
<1>1. \A k : FailedBefore(k)' = FailedBefore(k)
  BY DEF FailedBefore, Failed
<1>2. \A names : Displaced(names)' = Displaced(names)
  BY <1>1 DEF Displaced
<1>3. MayFail' = MayFail /\ MayCrash' = MayCrash
  BY <1>2 DEF MayFail, MayCrash
<1>4. QED
  BY <1>3 DEF Opens

LEMMA OpensPart ==
  ASSUME Inv, Table, Present, NEW here \in {"boot templates", "boot variables"},
         NEW name \in Lists, NEW next, BootPart(here, name, next)
  PROVE  Opens'
<1> DEFINE i == glb[name].line
<1>1. pc \in Reading \ {"read meta"} /\ UNCHANGED <<data, meta, at>>
  BY DEF BootPart, Reading, writer
<1>2. Has(name)
  BY <1>1 DEF Present, Has, Reading, Serializing, Lists
<1>3. i \in 1 .. Len(meta) /\ data[i].name = name /\ i \in DOMAIN data
  BY <1>1, <1>2, LineOf
<1>4. PICK what \in Found(i) : \E how \in Parsed(what, data[i].src) :
        boot' = boot \/ (how # "ok" /\ boot' = how)
  BY DEF BootPart
<1>5. boot \notin {"failed", "crash"}
  BY <1>1 DEF Inv, Phases, Reading
<1>6. /\ what = "null" <=> data[i].src = 0
      /\ what \in {"garbage", "unset"} => FailedBefore(i) > 0
      /\ what \in What
  BY <1>1, <1>3, FoundWhat, FoundIs
<1> HIDE DEF i
<1>7. /\ boot' = "failed" => what \in {"garbage", "unset"}
      /\ boot' = "crash" => what = "garbage" \/ data[i].src \in {0, Overlong}
  BY <1>4, <1>5, <1>6 DEF Parsed, What
<1>8. FailedBefore(i) > 0 => Displaced(Lists \union {Outliers})
  BY <1>3 DEF Displaced
<1>9. data[i].src \in {0, Overlong} => MayCrash
  BY <1>3 DEF MayCrash
<1>10. /\ boot' = "failed" => MayFail
       /\ boot' = "crash" => MayCrash
  BY <1>6, <1>7, <1>8, <1>9 DEF MayFail, MayCrash
<1>11. QED
  BY <1>1, <1>10, OpensIf

LEMMA OpensOutliers ==
  ASSUME Inv, Table, Present, BootOutliers
  PROVE  Opens'
<1> DEFINE i == glb[Outliers].line
<1>1. pc \in Reading \ {"read meta"} /\ UNCHANGED <<data, meta, at>>
  BY DEF BootOutliers, Reading, writer
<1>2. Has(Outliers)
  BY <1>1 DEF Present, Has, Reading
<1>3. i \in 1 .. Len(meta) /\ data[i].name = Outliers /\ i \in DOMAIN data
  BY <1>1, <1>2, LineOf
<1>4. PICK what \in Found(i) :
        \/ what \in {"stored", "garbage"} /\ boot' = "crash"
        \/ what \in {"unset", "garbage"} /\ boot' = "failed"
        \/ boot' = "ok"
  BY DEF BootOutliers, Crash
<1>5. /\ what \in {"stored", "garbage"} => data[i].src # 0
      /\ what \in {"garbage", "unset"} => FailedBefore(i) > 0
  BY <1>1, <1>3, FoundWhat
<1> HIDE DEF i
<1>6. FailedBefore(i) > 0 => MayFail
  BY <1>3 DEF Displaced, MayFail
<1>7. data[i].src # 0 => MayCrash
  BY <1>3 DEF MayCrash
<1>8. QED
  BY <1>1, <1>4, <1>5, <1>6, <1>7, OpensIf

(* The outliers of a variable that are garbage                             *)
LEMMA OpensMeta ==
  ASSUME Inv, Table, ReadMeta, boot' # boot
  PROVE  Opens'
<1>1. pc \in Reading /\ UNCHANGED <<data, meta, at>>
  BY DEF ReadMeta, Reading, writer
<1>2. line \in 1 .. Len(meta) /\ line \in DOMAIN data
  <2>1. line \in Nat \ {0} /\ line <= Len(meta)
    BY DEF ReadMeta, Inv, TypeOK
  <2>2. Len(meta) = Len(data) /\ Len(data) \in Nat /\ DOMAIN data = 1 .. Len(data)
    BY <1>1, LinesWritten
  <2>3. QED
    BY <2>1, <2>2
<1>3. PICK what \in IF meta[line].name \in VarOutliers /\ meta[line].lines > 0
                    THEN Found(line) ELSE {"null"} : what = "garbage" /\ boot' = "crash"
  BY DEF ReadMeta, Crash
<1>4. meta[line].name \in VarOutliers /\ what \in Found(line)
  BY <1>3
<1>5. data[line].name \in VarOutliers /\ FailedBefore(line) > 0
  BY <1>1, <1>2, <1>3, <1>4, FoundWhat
<1>6. MayCrash
  BY <1>2, <1>5 DEF MayCrash, Displaced
<1>7. QED
  BY <1>1, <1>3, <1>6, OpensIf

LEMMA OpensStep == Inv /\ Table /\ Present /\ Opens /\ [Next]_vars => Opens'
<1> SUFFICES ASSUME Inv, Table, Present, Opens, [Next]_vars PROVE Opens'
  OBVIOUS
<1>1. CASE BootTemplates \/ BootVariables
  BY <1>1, OpensPart DEF BootTemplates, BootVariables, Lists
<1>2. CASE BootOutliers
  BY <1>2, OpensOutliers
<1>3. CASE ReadNothing
  <2>1. UNCHANGED <<data, meta, at>> /\ at = <<>>
    BY <1>3 DEF ReadNothing, writer, Inv, Phases
  <2>2. QED
    BY <2>1, OpensIf DEF MayFail, MayCrash
<1>4. CASE UNCHANGED vars
  BY <1>4, OpensIf DEF vars, writer, reader, Opens
<1>5. CASE ReadMeta /\ boot' # boot
  BY <1>5, OpensMeta
<1>6. CASE Next /\ ~(BootTemplates \/ BootVariables \/ BootOutliers \/ ReadNothing \/ (ReadMeta /\ boot' # boot))
  <2>1. boot' = boot /\ pc # "closed"
    BY <1>6 DEF Next, Serialize, SerializeTemplate, OutlierLine, SerializeTemplateOutlier, SerializeVariable,
                SerializeSubpattern, WriteFile, Compress, WriteHead, Write, Close, Boot, ReadMeta,
                MetaRead, Load, reader
  <2>2. boot' \notin {"failed", "crash"}
    BY <2>1 DEF Inv, Phases
  <2>3. QED
    BY <2>2 DEF Opens
<1>7. QED
  BY <1>1, <1>2, <1>3, <1>4, <1>5, <1>6

LEMMA PresentAlways == Spec => [](Inv /\ Table /\ Present)
<1>1. Inv /\ Present /\ [Next]_vars => Present'
  BY PresentStep DEF Inv
<1>2. QED
  BY <1>1, PresentInit, InvInit, InvStep, TableInit, TableStep, PTL DEF Spec

(* For any number of variables, lines and failures: a store that was       *)
(* written does not open only if a coffer that failed is before one that   *)
(* BootLoader reads, or if a list is empty or overlong, or there are       *)
(* unmatched lines, which it may crash on.                                 *)
THEOREM StoreOpens == Spec => []Opens
BY OpensInit, OpensStep, PresentAlways, PTL DEF Spec
-----------------------------------------------------------------------------
LEMMA BlocksInit == Init => Blocks
BY DEF Init, Blocks

(* The last coffer of outliers: if it is the only one it began with the    *)
(* first line, and no line is left.                                        *)
LEMMA LastBlock ==
  ASSUME TypeOK, BlockOK, Blocks, SerializeTemplateOutlier, NEW i \in DOMAIN data', Only(i)'
  PROVE  Whole(i)'
<1>1. /\ data' = Append(data, Block) /\ failed' = failed /\ pc = "outliers"
      /\ block.next > Len(failed)
  BY DEF SerializeTemplateOutlier
<1>2. /\ Block \in Coffer /\ Block.name = Outliers /\ Block.first = block.first
      /\ Block.src = block.src /\ Block.lines = block.next - block.first
      /\ Block.src # 0 => Block.lines # 0
  BY BlockType
<1>3. /\ data \in Seq(Coffer) /\ data' \in Seq(Coffer) /\ Len(data) \in Nat
      /\ Len(data') = Len(data) + 1 /\ data'[Len(data) + 1] = Block
      /\ \A k \in 1 .. Len(data) : data'[k] = data[k]
      /\ DOMAIN data = 1 .. Len(data)
  <2>1. data \in Seq(Coffer)
    BY DEF TypeOK
  <2>2. QED
    BY <2>1, <1>1, <1>2, SeqAppend
<1>4. DOMAIN data' = 1 .. Len(data) + 1
  BY <1>3
<1>5. Only(i)' = \A j \in DOMAIN data' : data'[j].name = Outliers <=> j = i
  BY DEF Only
<1>6. i = Len(data) + 1
  <2>1. Len(data) + 1 \in DOMAIN data'
    BY ONLY <1>3, <1>4
  <2>2. data'[Len(data) + 1].name = Outliers
    BY <1>2, <1>3
  <2>3. QED
    BY <1>5, <2>1, <2>2, Zenon
<1>7. \A j \in 1 .. Len(data) : data[j].name # Outliers
  <2>1. \A j \in 1 .. Len(data) : j \in DOMAIN data' /\ j # i
    BY <1>3, <1>4, <1>6
  <2>2. QED
    BY <1>3, <1>5, <2>1
<1>8. block.first = 1
  BY <1>1, <1>3, <1>7 DEF Blocks
<1>9. /\ block.next - block.first = Len(failed)
      /\ block.src = 0 => Len(failed) = 0
  <2>1. block.next \in Nat /\ block.src \in Nat /\ Len(failed) \in Nat
    BY DEF TypeOK
  <2>2. block.next <= Len(failed) + 1 /\ (block.src = 0 <=> block.first = block.next)
    BY DEF BlockOK
  <2>3. QED
    BY ONLY <2>1, <2>2, <1>1, <1>8
<1>10. QED
  BY <1>1, <1>2, <1>3, <1>6, <1>8, <1>9 DEF Whole

(* Coffers of other names do not matter.                                   *)
LEMMA WholeGrown ==
  ASSUME TypeOK, Grown, failed' = failed, \A i \in DOMAIN data : Only(i) => Whole(i),
         \A i \in 1 .. Len(data') : i <= Len(data) \/ data'[i].name # Outliers,
         NEW i \in DOMAIN data', Only(i)'
  PROVE  Whole(i)'
<1>1. /\ data \in Seq(Coffer) /\ data' \in Seq(Coffer) /\ Len(data) <= Len(data')
      /\ \A k \in 1 .. Len(data) : data'[k] = data[k]
  BY DEF Grown, TypeOK
<1>2. /\ DOMAIN data = 1 .. Len(data) /\ DOMAIN data' = 1 .. Len(data')
      /\ Len(data) \in Nat /\ Len(data') \in Nat
  BY <1>1
<1>3. \A j \in DOMAIN data' : data'[j].name = Outliers <=> j = i
  BY DEF Only
<1>4. i \in DOMAIN data
  BY <1>2, <1>3
<1>5. \A j \in DOMAIN data : j \in DOMAIN data' /\ data'[j] = data[j]
  BY <1>1, <1>2
<1>6. Only(i)
  BY <1>3, <1>5 DEF Only
<1>7. QED
  BY <1>4, <1>5, <1>6 DEF Whole

LEMMA WholePermuted ==
  ASSUME TypeOK, Compress, \A i \in DOMAIN data : Only(i) => Whole(i), NEW i \in DOMAIN data', Only(i)'
  PROVE  Whole(i)'
<1>1. /\ DOMAIN data = 1 .. Len(data) /\ DOMAIN data' = DOMAIN data /\ failed' = failed
  BY CompressPermutes DEF Compress
<1>2. PICK p \in [1 .. Len(data) -> 1 .. Len(data)] :
        \A k \in 1 .. Len(data) : p[p[k]] = k /\ Same(data'[k], data[p[k]])
  BY CompressPermutes
<1>3. \A j \in DOMAIN data : data'[j].name = Outliers <=> j = i
  BY <1>1 DEF Only
<1>4. \A j \in DOMAIN data : data[j].name = Outliers <=> j = p[i]
  <2> SUFFICES ASSUME NEW j \in DOMAIN data PROVE data[j].name = Outliers <=> j = p[i]
    OBVIOUS
  <2>1. p[j] \in DOMAIN data /\ p[p[j]] = j /\ p[p[i]] = i
    BY <1>1, <1>2
  <2>2. data'[p[j]].name = data[j].name
    BY <1>2, <2>1, <1>1 DEF Same
  <2>3. p[j] = i <=> j = p[i]
    BY <2>1
  <2>4. QED
    BY <1>3, <2>1, <2>2, <2>3
<1>5. Whole(p[i])
  <2>1. p[i] \in DOMAIN data
    BY <1>1, <1>2
  <2>2. QED
    BY <1>4, <2>1 DEF Only
<1>6. Same(data'[i], data[p[i]])
  BY <1>1, <1>2
<1>7. QED
  BY <1>1, <1>5, <1>6 DEF Whole, Same

LEMMA BlocksStep == TypeOK /\ BlockOK /\ Blocks /\ [Next]_vars => Blocks'
<1> SUFFICES ASSUME TypeOK, BlockOK, Blocks, [Next]_vars PROVE Blocks'
  OBVIOUS
<1> DEFINE Early(here) == here \in {"templates", "outliers"}
<1>1. CASE SerializeTemplate
  <2>1. Early(pc) /\ Early(pc') /\ block' = block
    BY <1>1 DEF SerializeTemplate
  <2>2. Has(Outliers) => Has(Outliers)'
    BY HasStep DEF Outliers
  <2>3. QED
    BY <2>1, <2>2 DEF Blocks, Has
<1>2. CASE OutlierLine
  <2>1. Early(pc) /\ pc' = pc
    BY <1>2 DEF OutlierLine
  <2>2. CASE data' = Append(data, Block)
    <3>1. PICK c \in Coffer : c = Block /\ c.name = Outliers /\ (c.src # 0 => c.lines # 0)
      BY BlockType
    <3>2. Has(c.name)'
      BY <2>2, <3>1, HasAppended
    <3>3. QED
      BY <2>1, <3>1, <3>2 DEF Blocks, Has
  <2>3. CASE data' = data /\ block' = [block EXCEPT !.next = @ + 1, !.src = @ + failed[block.next] + 1]
    <3>1. block'.first = block.first
      BY <2>3 DEF TypeOK
    <3>2. QED
      BY <2>1, <2>3, <3>1 DEF Blocks
  <2>4. QED
    BY <1>2, <2>2, <2>3 DEF OutlierLine
<1>3. CASE SerializeTemplateOutlier
  <2>1. ~Early(pc')
    BY <1>3 DEF SerializeTemplateOutlier
  <2>2. QED
    BY <1>3, <2>1, LastBlock DEF Blocks
<1>4. CASE SerializeVariable
  <2>1. ~Early(pc) /\ ~Early(pc') /\ failed' = failed
    BY <1>4 DEF SerializeVariable
  <2>2. \A i \in DOMAIN data : Only(i) => Whole(i)
    BY <2>1 DEF Blocks
  <2>3. \A i \in DOMAIN data' : Only(i)' => Whole(i)'
    BY <1>4, <2>1, <2>2, GrownByVariable, WholeGrown
  <2>4. QED
    BY <2>1, <2>3 DEF Blocks
<1>5. CASE SerializeSubpattern
  <2>1. ~Early(pc) /\ ~Early(pc') /\ failed' = failed
    BY <1>5 DEF SerializeSubpattern
  <2>2. PICK src \in Nat : data' = Append(data, NewCoffer(Variables, 2, src, 0))
    BY <1>5 DEF SerializeSubpattern, Overlong
  <2>3. Grown /\ Len(data') = Len(data) + 1 /\ data'[Len(data) + 1].name = Variables
    BY <2>2, LogCoffers, GrownByOne
  <2>4. \A i \in 1 .. Len(data') : i <= Len(data) \/ data'[i].name # Outliers
    <3>1. Len(data) \in Nat
      BY DEF TypeOK
    <3>2. \A i \in 1 .. Len(data') : i <= Len(data) \/ i = Len(data) + 1
      BY ONLY <2>3, <3>1
    <3>3. QED
      BY <2>3, <3>2, Names
  <2>5. \A i \in DOMAIN data : Only(i) => Whole(i)
    BY <2>1 DEF Blocks
  <2>6. \A i \in DOMAIN data' : Only(i)' => Whole(i)'
    BY <2>1, <2>3, <2>4, <2>5, WholeGrown
  <2>7. QED
    BY <2>1, <2>6 DEF Blocks
<1>6. CASE Compress
  <2>1. ~Early(pc) /\ ~Early(pc')
    BY <1>6 DEF Compress
  <2>2. \A i \in DOMAIN data : Only(i) => Whole(i)
    BY <2>1 DEF Blocks
  <2>3. \A i \in DOMAIN data' : Only(i)' => Whole(i)'
    BY <1>6, <2>2, WholePermuted
  <2>4. QED
    BY <2>1, <2>3 DEF Blocks
<1>7. CASE UNCHANGED <<data, block, failed>> /\ (Early(pc) <=> Early(pc'))
  BY <1>7 DEF Blocks, Only, Whole
<1>8. QED
  <2>1. Write \/ Reads \/ UNCHANGED vars => UNCHANGED <<data, block, failed>>
    BY ReadsOnly DEF Write, vars, writer
  <2>2. Write \/ Reads \/ UNCHANGED vars => (Early(pc) <=> Early(pc'))
    BY DEF Write, Reads, WriteHead, Close, Boot, ReadNothing, ReadMeta, MetaRead, BootTemplates,
           BootVariables, BootPart, BootOutliers, Crash, Load, vars
  <2>3. QED
    BY <2>1, <2>2, <1>1, <1>2, <1>3, <1>4, <1>5, <1>6, <1>7 DEF Next, Serialize, WriteFile, Reads

LEMMA EmptyInit == Init => EmptyBlocks
BY DEF Init, EmptyBlocks

LEMMA EmptyBlock == ASSUME TypeOK, BlockOK, EmptyBlocks PROVE EmptyCoffer(Block)
<1>1. /\ Block.src = block.src /\ Block.first = block.first /\ Block.lines = block.next - block.first
      /\ block.next \in Nat /\ block.first \in Nat
  BY BlockType DEF TypeOK
<1>2. block.src = 0 => block.next - block.first = 0
  BY <1>1 DEF BlockOK
<1>3. QED
  BY <1>1, <1>2 DEF EmptyCoffer, EmptyBlocks

LEMMA EmptyGrown ==
  ASSUME TypeOK, EmptyBlocks, Grown,
         \A i \in 1 .. Len(data') : i <= Len(data) \/ EmptyCoffer(data'[i])
  PROVE  \A j \in DOMAIN data' : EmptyCoffer(data'[j])
<1> SUFFICES ASSUME NEW j \in DOMAIN data' PROVE EmptyCoffer(data'[j])
  OBVIOUS
<1>1. /\ DOMAIN data = 1 .. Len(data) /\ DOMAIN data' = 1 .. Len(data')
      /\ Len(data) \in Nat /\ Len(data') \in Nat
      /\ \A k \in 1 .. Len(data) : data'[k] = data[k]
  BY DEF Grown, TypeOK
<1>2. CASE j <= Len(data)
  <2>1. j \in DOMAIN data /\ data'[j] = data[j]
    BY <1>1, <1>2
  <2>2. QED
    BY <2>1 DEF EmptyBlocks
<1>3. CASE ~(j <= Len(data))
  BY <1>1, <1>3
<1>4. QED
  BY <1>2, <1>3

LEMMA EmptyOne ==
  ASSUME TypeOK, EmptyBlocks, NEW c \in Coffer, c.src # 0 => c.lines # 0, EmptyCoffer(c), data' = Append(data, c)
  PROVE  \A j \in DOMAIN data' : EmptyCoffer(data'[j])
<1>1. Grown /\ Len(data') = Len(data) + 1 /\ data'[Len(data) + 1] = c
  BY GrownByOne
<1>2. \A i \in 1 .. Len(data') : i <= Len(data) \/ i = Len(data) + 1
  <2>1. Len(data) \in Nat
    BY DEF TypeOK
  <2>2. QED
    BY ONLY <1>1, <2>1
<1>3. QED
  BY <1>1, <1>2, EmptyGrown

LEMMA EmptyStep == TypeOK /\ BlockOK /\ EmptyBlocks /\ [Next]_vars => EmptyBlocks'
<1> SUFFICES ASSUME TypeOK, BlockOK, EmptyBlocks, [Next]_vars PROVE EmptyBlocks'
  OBVIOUS
<1> DEFINE Kept == \A j \in DOMAIN data' : EmptyCoffer(data'[j])
<1>1. CASE SerializeTemplate
  <2>1. PICK src \in Nat : data' = Append(data, NewCoffer(Templates, 0, src, 0))
    BY <1>1 DEF SerializeTemplate, Overlong
  <2>2. EmptyCoffer(NewCoffer(Templates, 0, src, 0))
    BY LogCoffers, Names DEF EmptyCoffer
  <2>3. Kept /\ block' = block
    BY <1>1, <2>1, <2>2, LogCoffers, EmptyOne DEF SerializeTemplate
  <2>4. QED
    BY <2>3 DEF EmptyBlocks
<1>2. CASE OutlierLine
  <2>1. block'.src # 0
    <3>1. block.next \in 1 .. Len(failed) /\ failed \in Seq(Nat)
          /\ block \in [first : Nat \ {0}, next : Nat \ {0}, src : Nat]
      BY <1>2 DEF OutlierLine, TypeOK
    <3>2. failed[block.next] \in Nat
      BY <3>1
    <3>3. \/ block'.src = failed[block.next] + 1
          \/ block'.src = block.src + failed[block.next] + 1
      <4>1. CASE block' = [first |-> block.next, next |-> block.next + 1, src |-> failed[block.next] + 1]
        BY <4>1
      <4>2. CASE block' = [block EXCEPT !.next = @ + 1, !.src = @ + failed[block.next] + 1]
        BY <4>2, <3>1
      <4>3. QED
        BY <1>2, <4>1, <4>2 DEF OutlierLine
    <3>4. block.src \in Nat
      BY <3>1
    <3>5. QED
      BY ONLY <3>2, <3>3, <3>4
  <2>2. Kept
    <3>1. CASE data' = data
      BY <3>1 DEF EmptyBlocks
    <3>2. CASE data' = Append(data, Block)
      BY <3>2, BlockType, EmptyBlock, EmptyOne
    <3>3. QED
      BY <1>2, <3>1, <3>2 DEF OutlierLine
  <2>3. QED
    BY <2>1, <2>2 DEF EmptyBlocks
<1>3. CASE SerializeTemplateOutlier
  <2>1. data' = Append(data, Block) /\ block' = block
    BY <1>3 DEF SerializeTemplateOutlier
  <2>2. Kept
    BY <2>1, BlockType, EmptyBlock, EmptyOne
  <2>3. QED
    BY <2>1, <2>2 DEF EmptyBlocks
<1>4. CASE SerializeVariable
  <2>1. Kept
    BY <1>4, GrownByVariable, EmptyGrown DEF EmptyCoffer
  <2>2. QED
    BY <1>4, <2>1 DEF EmptyBlocks, SerializeVariable
<1>5. CASE SerializeSubpattern
  <2>1. PICK src \in Nat : data' = Append(data, NewCoffer(Variables, 2, src, 0))
    BY <1>5 DEF SerializeSubpattern, Overlong
  <2>2. EmptyCoffer(NewCoffer(Variables, 2, src, 0))
    BY LogCoffers, Names DEF EmptyCoffer
  <2>3. Kept /\ block' = block
    BY <1>5, <2>1, <2>2, LogCoffers, EmptyOne DEF SerializeSubpattern
  <2>4. QED
    BY <2>3 DEF EmptyBlocks
<1>6. CASE Compress
  <2>1. DOMAIN data = 1 .. Len(data) /\ DOMAIN data' = DOMAIN data /\ block' = block
    BY <1>6, CompressPermutes DEF Compress
  <2>2. PICK p \in [1 .. Len(data) -> 1 .. Len(data)] :
          \A k \in 1 .. Len(data) : p[p[k]] = k /\ Same(data'[k], data[p[k]])
    BY <1>6, CompressPermutes
  <2>3. \A k \in 1 .. Len(data) : EmptyCoffer(data[p[k]])
    BY <2>1 DEF EmptyBlocks
  <2>4. Kept
    BY <2>1, <2>2, <2>3 DEF EmptyCoffer, Same
  <2>5. QED
    BY <2>1, <2>4 DEF EmptyBlocks
<1>7. CASE UNCHANGED <<data, block>>
  BY <1>7 DEF EmptyBlocks
<1>8. QED
  <2>1. Write \/ Reads \/ UNCHANGED vars => UNCHANGED <<data, block>>
    BY ReadsOnly DEF Write, vars, writer
  <2>2. QED
    BY <2>1, <1>1, <1>2, <1>3, <1>4, <1>5, <1>6, <1>7 DEF Next, Serialize, WriteFile, Reads

LEMMA TwoOf ==
  ASSUME NEW n \in Nat, NEW P, P \subseteq 1 .. n, NEW i \in P, NEW j \in P, i # j
  PROVE  Cardinality(P) > 1
<1>1. IsFiniteSet(P) /\ Cardinality(P) \in Nat
  <2>1. IsFiniteSet(1 .. n)
    BY FS_Interval
  <2>2. QED
    BY <2>1, FS_Subset, FS_CardinalityType, Zenon
<1>2. IsFiniteSet({i}) /\ Cardinality({i}) = 1
  BY FS_Singleton
<1>3. Cardinality({i} \union {j}) = 1 + 1
  BY <1>2, FS_AddElement, j \notin {i}
<1>4. {i} \union {j} \subseteq P
  OBVIOUS
<1>5. Cardinality({i} \union {j}) <= Cardinality(P)
  BY <1>1, <1>4, FS_Subset
<1>6. QED
  BY <1>1, <1>3, <1>5

LEMMA OutliersBooted ==
  ASSUME Inv, Table, Present, Blocks, EmptyBlocks, BootOutliers, boot' = "ok"
  PROVE  OutliersKept'
<1> DEFINE i == glb[Outliers].line
           P == {j \in DOMAIN data : data[j].name = Outliers}
<1>1. /\ pc \in Reading \ {"read meta"} /\ pc \notin {"templates", "outliers"}
      /\ UNCHANGED <<data, meta, failed, glb>>
  BY DEF BootOutliers, Reading, writer
<1>2. Has(Outliers)
  BY <1>1 DEF Present, Has
<1>3. /\ i \in 1 .. Len(meta) /\ data[i].name = Outliers
      /\ i \in DOMAIN data
      /\ \A j \in DOMAIN data : data[j].name = Outliers => j <= i
  BY <1>1, <1>2, LineOf
<1>4. Len(data) \in Nat /\ DOMAIN data = 1 .. Len(data)
  BY <1>1, LinesWritten
<1>5. PICK what \in Found(i) :
        outliers' = CASE what = "stored"  -> [first |-> data[i].first, lines |-> data[i].lines]
                      [] what = "garbage" -> Undefined
                      [] what = "null"    -> [first |-> 1, lines |-> 0]
  BY DEF BootOutliers, Crash
<1>6. /\ what = "null" <=> data[i].src = 0
      /\ what \in {"garbage", "unset"} => FailedBefore(i) > 0
  BY <1>1, <1>3, FoundWhat
<1>7. what \in What
  BY FoundIs
<1> HIDE DEF i
<1>8. CASE Only(i)
  <2>1. data[i].first = 1 /\ data[i].lines = Len(failed) /\ (data[i].src = 0 => Len(failed) = 0)
    BY <1>1, <1>3, <1>8 DEF Blocks, Whole
  <2>2. FailedBefore(i) > 0 \/ outliers' = [first |-> 1, lines |-> Len(failed)]
    <3>1. CASE what = "stored"
      BY <3>1, <2>1, <1>5
    <3>2. CASE what = "null"
      <4>1. outliers' = [first |-> 1, lines |-> 0]
        BY <3>2, <1>5
      <4>2. Len(failed) = 0
        BY <3>2, <2>1, <1>6
      <4>3. QED
        BY <4>1, <4>2
    <3>3. CASE what \in {"garbage", "unset"}
      BY <3>3, <1>6
    <3>4. QED
      BY <3>1, <3>2, <3>3, <1>7 DEF What
  <2>3. QED
    BY <2>2, <1>1 DEF OutliersKept, FailedBefore, Failed, i
<1>9. CASE ~Only(i)
  <2>1. PICK j \in DOMAIN data : j # i /\ data[j].name = Outliers
    BY <1>3, <1>9 DEF Only
  <2>2. P \subseteq 1 .. Len(data) /\ i \in P /\ j \in P
    BY <1>3, <1>4, <2>1
  <2>3. Cardinality(P) > 1
    BY <1>4, <2>1, <2>2, TwoOf
  <2>4. FailedBefore(i) > 0 \/ outliers' = [first |-> data[i].first, lines |-> data[i].lines]
    <3>1. CASE what = "stored"
      BY <3>1, <1>5
    <3>2. CASE what = "null"
      <4>1. outliers' = [first |-> 1, lines |-> 0]
        BY <3>2, <1>5
      <4>2. data[i].first = 1 /\ data[i].lines = 0
        BY <3>2, <1>3, <1>6 DEF EmptyBlocks, EmptyCoffer
      <4>3. QED
        BY <4>1, <4>2
    <3>3. CASE what \in {"garbage", "unset"}
      BY <3>3, <1>6
    <3>4. QED
      BY <3>1, <3>2, <3>3, <1>7 DEF What
  <2>5. QED
    BY <2>3, <2>4, <1>1, <1>3 DEF OutliersKept, FailedBefore, Failed, i
<1>10. QED
  BY <1>8, <1>9

LEMMA OutliersInit == Init => OutliersKept
BY DEF Init, OutliersKept

LEMMA OutliersStep == Inv /\ Inv' /\ Table /\ Present /\ Blocks /\ EmptyBlocks /\ OutliersKept /\ [Next]_vars => OutliersKept'
<1> SUFFICES ASSUME Inv, Inv', Table, Present, Blocks, EmptyBlocks, OutliersKept, [Next]_vars, boot' = "ok"
             PROVE  OutliersKept'
  BY DEF OutliersKept
<1>1. CASE BootOutliers
  BY <1>1, OutliersBooted
<1>2. CASE boot = "ok" /\ UNCHANGED <<data, meta, failed, glb, outliers>>
  BY <1>2 DEF OutliersKept, FailedBefore, Failed
<1>3. CASE \E name \in Name : Load(name)
  <2>1. pc = "open" /\ UNCHANGED <<data, meta, failed, outliers, boot>> /\ Outliers \in DOMAIN glb
    <3>1. pc = "open" /\ UNCHANGED <<data, meta, failed, outliers, boot>>
      BY <1>3 DEF Load, writer
    <3>2. Has(Outliers) /\ pc \in Reading \ {"read meta"}
      BY <3>1 DEF Present, Has, Reading
    <3>3. QED
      BY <3>1, <3>2, LineOf
  <2>2. glb'[Outliers].line = glb[Outliers].line
    <3>1. PICK name \in DOMAIN glb : glb' = glb \/ \E what \in What : glb' = [glb EXCEPT ![name].data = what]
      BY <1>3, FoundIs DEF Load, Store
    <3>2. glb \in [DOMAIN glb -> [line : Nat, data : What]]
      BY DEF Table
    <3>3. glb[name] \in [line : Nat, data : What]
      BY <3>2
    <3>4. QED
      BY ONLY <3>1, <3>2, <3>3, <2>1
  <2>3. QED
    BY <2>1, <2>2 DEF OutliersKept, FailedBefore, Failed
<1>4. QED
  <2>1. \/ BootOutliers \/ \E name \in Name : Load(name)
        \/ boot # "ok" /\ boot' = boot
        \/ boot' # "ok"
        \/ UNCHANGED vars
    <3>1. boot = "ok" => pc = "open"
      BY DEF Inv, Phases
    <3>2. QED
      BY <3>1 DEF Next, Serialize, SerializeTemplate, OutlierLine, SerializeTemplateOutlier, SerializeVariable,
         SerializeSubpattern, WriteFile, Compress, WriteHead, Write, Close, Boot, ReadNothing, ReadMeta,
         MetaRead, BootTemplates, BootVariables, BootPart, Crash, reader
  <2>2. UNCHANGED vars => boot = "ok" /\ UNCHANGED <<data, meta, failed, glb, outliers>>
    BY DEF vars, writer, reader
  <2>3. QED
    BY <2>1, <2>2, <1>1, <1>2, <1>3

(* A store that opens has all the lines no template matched, or exactly    *)
(* those of the last coffer of them when they were cut into several,       *)
(* unless a coffer before it failed to compress.                           *)
THEOREM LinesOfLastCoffer == Spec => []OutliersKept
<1>1. Inv /\ Blocks /\ [Next]_vars => Blocks'
  BY BlocksStep DEF Inv
<1>2. Inv /\ EmptyBlocks /\ [Next]_vars => EmptyBlocks'
  BY EmptyStep DEF Inv
<1>3. QED
  BY <1>1, <1>2, BlocksInit, EmptyInit, OutliersInit, OutliersStep, InvInit, InvStep, PresentAlways, PTL DEF Spec
=============================================================================
