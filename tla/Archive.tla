------------------------------- MODULE Archive ------------------------------
(***************************************************************************)
(* An archive, as it is written and read back (Encoder.cpp and Coffer.cpp; *)
(* BootLoader and the loading of coffers in LogStore_API.cpp).             *)
(*                                                                         *)
(* What is kept of a log is cut into named coffers: templates, lines that  *)
(* no template matched, the list of the variables, and some for each       *)
(* variable.  The encoder sorts them, compresses each and writes a line of *)
(* metadata for it, with its offset; then the coffers follow the metadata  *)
(* in the file, each behind four bytes of LZMA properties.  A store reads  *)
(* the metadata, then finds each coffer by its offset when it needs it.    *)
(*                                                                         *)
(* The size of the output buffer is not set before LzmaCompress is called, *)
(* so any coffer may fail to compress; it is then kept as it is.  What a   *)
(* coffer holds is told apart by the coffer, but for the lines no template *)
(* matched.                                                                *)
(***************************************************************************)
EXTENDS Integers, Sequences, FiniteSets

CONSTANTS NVars,       \* variables of the log
          Unmatched,   \* the lines no template may have matched, as sequences of lengths
          MaxCompress, \* MAXCOMPRESS
          Sizes,       \* the lengths LZMA may give a coffer
          MaxFailures, \* bound on the coffers that fail to compress
          Undefined

ASSUME ArchiveAssumption == /\ NVars \in Nat /\ MaxCompress \in Nat /\ MaxFailures \in Nat
                            /\ Unmatched \subseteq Seq(Nat) /\ Sizes \subseteq Nat \ {0}

Templates == <<0, "templates">>
Outliers  == <<0, "outlier">>
Variables == <<0, "variables">>
Name == {Templates, Outliers, Variables} \union ((1 .. NVars) \X {"var", "entry", "dic", "svar", "outlier"})

Coffer == [name : Name, type : 0 .. 7, src : Nat, lines : Nat, first : Nat, dest : Nat]
Line   == [name : Name, compressed : BOOLEAN, offset : Nat, dest : Nat, src : Nat, lines : Nat]

VARIABLES pc,       \* what is done next
          failed,   \* failed_log: the lengths of the lines that no template matched
          block,    \* the lines of the next coffer, from first to before next
          var,      \* the variables still to be serialized
          data,     \* the coffers of the encoder
          meta,     \* the lines of metadata, one for each coffer in order
          offset,   \* nowOffset
          out,      \* the next coffer to write
          pos,      \* the length of the file after the metadata
          at,       \* per coffer: where its four bytes are in the file
          line,     \* the next line of metadata to read
          glb,      \* m_glbMeta: per name the line it was made of, and its data
          outliers, \* m_outliers: the first line and their number
          boot,     \* what BootLoader returned
          answer    \* what the last load returned

writer == <<failed, block, var, data, meta, offset, out, pos, at>>
reader == <<line, glb, outliers, boot, answer>>
vars   == <<pc, writer, reader>>

Init == /\ pc = "templates"
        /\ failed \in Unmatched /\ block = [first |-> 1, next |-> 1, src |-> 0] /\ var = 0
        /\ data = <<>> /\ meta = <<>> /\ offset = 0
        /\ out = 1 /\ pos = 0 /\ at = <<>>
        /\ line = 1 /\ glb = [n \in {} |-> Undefined] /\ outliers = Undefined
        /\ boot = "none" /\ answer = Undefined
-----------------------------------------------------------------------------
(* A list may have a line that is longer than the array BootLoader copies  *)
(* it into (MAX_LINE_SIZE, MAX_VALUE_LEN).                                 *)
Overlong == 2

(* A coffer with data has lines; first tells the blocks of lines apart.    *)
NewCoffer(name, type, src, first) ==
  [name |-> name, type |-> type, src |-> src, lines |-> IF src = 0 THEN 0 ELSE 1, first |-> first, dest |-> 0]

(* No line may be sampled, so there may be no template, and then there is  *)
(* no variable.                                                            *)
SerializeTemplate ==
  /\ pc = "templates" /\ pc' = "outliers"
  /\ \E src \in 0 .. Overlong, n \in 0 .. NVars :
       /\ src = 0 => n = 0
       /\ data' = Append(data, NewCoffer(Templates, 0, src, 0))
       /\ var' = n
  /\ UNCHANGED <<failed, block, meta, offset, out, pos, at, reader>>

(* The lines go to a coffer, each with an end of line, until the next one  *)
(* would make it too long; all these coffers have the same name.           *)
Block == [NewCoffer(Outliers, 1, block.src, block.first) EXCEPT !.lines = block.next - block.first]

OutlierLine ==
  /\ pc = "outliers" /\ block.next <= Len(failed)
  /\ LET length == failed[block.next] IN
     IF block.src + length > MaxCompress
     THEN /\ data' = Append(data, Block)
          /\ block' = [first |-> block.next, next |-> block.next + 1, src |-> length + 1]
     ELSE /\ block' = [block EXCEPT !.next = @ + 1, !.src = @ + length + 1]
          /\ UNCHANGED data
  /\ UNCHANGED <<pc, failed, var, meta, offset, out, pos, at, reader>>

SerializeTemplateOutlier ==
  /\ pc = "outliers" /\ block.next > Len(failed)
  /\ pc' = "variables"
  /\ data' = Append(data, Block)
  /\ UNCHANGED <<failed, block, var, meta, offset, out, pos, at, reader>>

(* A variable of few rows, or none; a dictionary; a sub-pattern.           *)
Plain(v, src)     == <<NewCoffer(<<v, "var">>, 5, src, 0)>>
Dictionary(v)     == <<NewCoffer(<<v, "entry">>, 4, 1, 0), NewCoffer(<<v, "dic">>, 3, 1, 0)>>
SubPatterns(v, src) == <<NewCoffer(<<v, "svar">>, 6, 1, 0), NewCoffer(<<v, "outlier">>, 7, src, 0)>>

SerializeVariable ==
  /\ pc = "variables" /\ var > 0
  /\ \E added \in {Plain(var, 0), Plain(var, 1), Dictionary(var), SubPatterns(var, 0), SubPatterns(var, 1)} :
       data' = data \o added
  /\ var' = var - 1
  /\ UNCHANGED <<pc, failed, block, meta, offset, out, pos, at, reader>>

SerializeSubpattern ==
  /\ pc = "variables" /\ var = 0
  /\ pc' = "compress"
  /\ \E src \in 0 .. Overlong :
       /\ src = 0 <=> \A i \in 1 .. Len(data) : data[i].name[1] = 0
       /\ data' = Append(data, NewCoffer(Variables, 2, src, 0))
  /\ UNCHANGED <<failed, block, var, meta, offset, out, pos, at, reader>>
-----------------------------------------------------------------------------
Failed(i) == meta[i].src # 0 /\ ~meta[i].compressed
FailedBefore(i) == Cardinality({j \in 1 .. i - 1 : Failed(j)})

(* Coffer::compress sets destLen to the length of what LZMA makes, or of   *)
(* the data when it fails,                                                 *)
Compressed(c, compressed, size) ==
  [c EXCEPT !.dest = IF c.src = 0 THEN 0 ELSE IF compressed THEN size ELSE c.src]

(* Mutant: the four bytes are not counted.                                 *)
ReturnedBare(c, compressed) == c.dest

(* and returns it, with the four bytes if LZMA did not fail.               *)
Returned(c, compressed) == IF compressed THEN c.dest + 4 ELSE c.dest

(* Mutant: the offset is advanced before the line is made.                 *)
MetaLineAfter(c, compressed, dest) ==
  [name |-> c.name, compressed |-> compressed, offset |-> offset + dest, dest |-> dest,
   src |-> c.src, lines |-> IF c.src = 0 THEN 0 ELSE c.lines]

MetaLine(c, compressed, dest) ==
  [name |-> c.name, compressed |-> compressed, offset |-> offset, dest |-> dest,
   src |-> c.src, lines |-> IF c.src = 0 THEN 0 ELSE c.lines]

Sorted(n, j, c) == [data EXCEPT ![j] = data[n], ![n] = c]

(* Encoder::compress: in order of type; nothing is said of the order of    *)
(* those of one type.                                                      *)
IsNext(n, j) == \A i \in n .. Len(data) : data[j].type <= data[i].type

Compress ==
  /\ pc = "compress" /\ Len(meta) < Len(data)
  /\ LET n == Len(meta) + 1 IN
     \E j \in n .. Len(data), compressed \in BOOLEAN, size \in Sizes :
       LET c    == Compressed(data[j], compressed, size)
           dest == Returned(c, compressed)
       IN /\ IsNext(n, j)
          /\ c.src = 0 => ~compressed
          /\ c.src # 0 /\ ~compressed => FailedBefore(n) < MaxFailures
          /\ data' = Sorted(n, j, c)
          /\ meta' = Append(meta, MetaLine(c, compressed, dest))
          /\ offset' = offset + dest
  /\ UNCHANGED <<pc, failed, block, var, out, pos, at, reader>>

(* Encoder::output: if the metadata does not compress nothing is written.  *)
WriteHead ==
  /\ pc = "compress" /\ Len(meta) = Len(data)
  /\ pc' \in {"write", "empty"}
  /\ UNCHANGED <<writer, reader>>

(* Mutant: the four bytes are written for what LZMA made only.             *)
LengthWithout(i) == IF meta[i].compressed THEN 4 + data[i].dest ELSE data[i].dest

Length(i) == 4 + data[i].dest

Write ==
  /\ pc = "write" /\ out <= Len(data)
  /\ LET written == data[out].lines # 0 /\ meta[out].src # 0
     IN /\ at' = Append(at, IF written THEN pos ELSE -1)
        /\ pos' = IF written THEN pos + Length(out) ELSE pos
  /\ out' = out + 1
  /\ UNCHANGED <<pc, failed, block, var, data, meta, offset, reader>>

Close == /\ pc = "write" /\ out > Len(data)
         /\ pc' = "read meta"
         /\ UNCHANGED <<writer, reader>>
-----------------------------------------------------------------------------
(* readFile and decompress of the coffer of a line: what it is where the   *)
(* line says.  Elsewhere LZMA fails, with its buffer kept, or makes what   *)
(* nobody stored.                                                          *)
Found(i) == IF meta[i].src = 0 THEN {"null"}
            ELSE IF at[i] = meta[i].offset THEN {"stored"}
            ELSE IF meta[i].compressed THEN {"garbage", "unset"} ELSE {"garbage"}

Store(name, what) == glb' = [glb EXCEPT ![name].data = what]

(* An empty archive has no header: the lengths BootLoader reads from it    *)
(* stay unset, and it may refuse them, or what it makes of so many bytes,  *)
(* or fail to allocate them.                                               *)
ReadNothing == /\ pc = "empty" /\ pc' = "closed"
               /\ boot' \in {"failed", "crash"}
               /\ UNCHANGED <<writer, line, glb, outliers, answer>>

(* Mutant: a name keeps the first line that has it.                        *)
MadeFirst(i, what) ==
  IF meta[i].name \in DOMAIN glb THEN glb
  ELSE [n \in DOMAIN glb \union {meta[i].name} |-> IF n = meta[i].name THEN [line |-> i, data |-> what] ELSE glb[n]]

(* The last line of a name replaces the others.                            *)
Made(i, what) ==
  [n \in DOMAIN glb \union {meta[i].name} |-> IF n = meta[i].name THEN [line |-> i, data |-> what] ELSE glb[n]]

VarOutliers == (1 .. NVars) \X {"outlier"}

Crash == boot' = "crash" /\ pc' = "closed"

(* LoadGlbMetadata: the outliers of a variable are loaded with their line. *)
(* Each begins with the row it is of, and is written there.                *)
ReadMeta ==
  /\ pc = "read meta" /\ line <= Len(meta)
  /\ \E what \in IF meta[line].name \in VarOutliers /\ meta[line].lines > 0
                 THEN Found(line) ELSE {"null"} :
       \/ glb' = Made(line, what) /\ line' = line + 1 /\ UNCHANGED <<pc, boot>>
       \/ what = "garbage" /\ Crash /\ UNCHANGED <<glb, line>>
  /\ UNCHANGED <<writer, outliers, answer>>

MetaRead == /\ pc = "read meta" /\ line > Len(meta)
            /\ pc' = "boot templates"
            /\ UNCHANGED <<writer, reader>>

(* What comes of parsing a list.  No data is no error, and is parsed all   *)
(* the same; what nobody stored may have any lines.                        *)
Parsed(what, src) == CASE what = "null"    -> {"crash"}
                       [] what = "unset"   -> {"failed"}
                       [] what = "garbage" -> {"ok", "failed", "crash"}
                       [] what = "stored"  -> IF src = Overlong THEN {"ok", "crash"} ELSE {"ok"}

(* DeCompressPatterns of the templates or of the list of variables, the    *)
(* parsing of what is found, and ClearCoffer.                              *)
BootPart(here, name, next) ==
  /\ pc = here
  /\ LET i == glb[name].line IN
     \E what \in Found(i) : \E how \in Parsed(what, data[i].src) :
       IF how = "ok" THEN pc' = next /\ UNCHANGED boot ELSE pc' = "closed" /\ boot' = how
  /\ UNCHANGED <<writer, line, glb, outliers, answer>>

BootTemplates == BootPart("boot templates", Templates, "boot variables")
BootVariables == BootPart("boot variables", Variables, "boot outliers")

(* LoadOutliers takes for lines whatever follows the text in memory up to  *)
(* a zero, and writes them behind those it has room for.                   *)
BootOutliers ==
  /\ pc = "boot outliers"
  /\ LET i == glb[Outliers].line IN
     \E what \in Found(i) :
       \/ what \in {"stored", "garbage"} /\ Crash /\ UNCHANGED outliers
       \/ /\ what \in {"unset", "garbage"}
          /\ boot' = "failed" /\ pc' = "closed" /\ UNCHANGED outliers
       \/ /\ what # "unset"
          /\ boot' = "ok" /\ pc' = "open"
          /\ outliers' = CASE what = "stored"  -> [first |-> data[i].first, lines |-> data[i].lines]
                           [] what = "garbage" -> Undefined
                           [] what = "null"    -> [first |-> 1, lines |-> 0]
  /\ UNCHANGED <<writer, line, glb, answer>>

(* LoadBuffToMemWithDecomp: data that is there is not read again, though   *)
(* it may be the buffer of a read that failed.                             *)
Load(name) ==
  /\ pc = "open" /\ name \in DOMAIN glb /\ name[1] # 0
  /\ IF glb[name].data # "null"
     THEN UNCHANGED glb /\ answer' = [name |-> name, ret |-> 1, data |-> glb[name].data]
     ELSE \E what \in Found(glb[name].line) :
            /\ Store(name, what)
            /\ answer' = [name |-> name, ret |-> IF what = "unset" THEN -1 ELSE 1, data |-> what]
  /\ UNCHANGED <<pc, writer, line, outliers, boot>>

Serialize == SerializeTemplate \/ OutlierLine \/ SerializeTemplateOutlier \/ SerializeVariable \/ SerializeSubpattern
WriteFile == Compress \/ WriteHead \/ Write \/ Close
Boot      == ReadNothing \/ ReadMeta \/ MetaRead \/ BootTemplates \/ BootVariables \/ BootOutliers

Next == Serialize \/ WriteFile \/ Boot \/ \E name \in Name : Load(name)

Spec == Init /\ [][Next]_vars
-----------------------------------------------------------------------------
(* Types: every line is made of the coffer in its place.                   *)
TypeOK ==
  /\ failed \in Seq(Nat) /\ block \in [first : Nat \ {0}, next : Nat \ {0}, src : Nat]
  /\ data \in Seq(Coffer) /\ meta \in Seq(Line) /\ at \in Seq(Nat \union {-1})
  /\ var \in 0 .. NVars /\ offset \in Nat /\ pos \in Nat /\ line \in Nat \ {0}
  /\ Len(meta) <= Len(data) /\ Len(at) = out - 1 /\ out \in 1 .. Len(data) + 1
  /\ \A i \in 1 .. Len(meta) : meta[i].name = data[i].name /\ meta[i].src = data[i].src

(* The offset of a coffer is where it is, but for four bytes of each       *)
(* coffer before it that did not compress.                                 *)
Shifted == \A i \in 1 .. Len(at) :
  at[i] # -1 => at[i] = meta[i].offset + 4 * FailedBefore(i)

(* What is loaded is what was stored, or nothing was; it is something else *)
(* only behind a coffer that did not compress.                             *)
LoadedIsStored == answer # Undefined =>
  LET i == glb[answer.name].line
  IN /\ meta[i].name = answer.name
     /\ answer.data \in {"garbage", "unset"} => FailedBefore(i) > 0
     /\ answer.data = "null" <=> data[i].src = 0

(* A store that opens has the lines no template matched, all of them if    *)
(* they fit in one coffer, else those of the coffer that comes last in the *)
(* metadata, and no others.                                                *)
OutliersKept == boot = "ok" =>
  LET i == glb[Outliers].line
  IN \/ FailedBefore(i) > 0
     \/ outliers = [first |-> 1, lines |-> Len(failed)]
     \/ /\ Cardinality({j \in DOMAIN data : data[j].name = Outliers}) > 1
        /\ \A j \in DOMAIN data : data[j].name = Outliers => j <= i
        /\ outliers = [first |-> data[i].first, lines |-> data[i].lines]

(* Some coffer of these names is not where BootLoader looks for it.        *)
Displaced(names) == \E i \in DOMAIN data : data[i].name \in names /\ FailedBefore(i) > 0

Lists == {Templates, Variables}

MayFail  == at = <<>> \/ Displaced(Lists \union {Outliers})
MayCrash == \/ MayFail \/ Displaced(VarOutliers)
            \/ \E i \in DOMAIN data :
                 \/ data[i].name \in Lists /\ data[i].src \in {0, Overlong}
                 \/ data[i].name = Outliers /\ data[i].src # 0

(* A store fails to open only if the archive was left empty or a coffer    *)
(* before a list or the outliers did not compress.  It crashes for the     *)
(* same reasons, one before the outliers of a variable too, or if a list   *)
(* is empty or has an overlong line, or if there are unmatched lines at    *)
(* all.  No other coffer that fails or is left out stops it from opening.  *)
Opens == /\ boot = "failed" => MayFail
         /\ boot = "crash" => MayCrash
=============================================================================
