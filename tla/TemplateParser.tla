--------------------------- MODULE TemplateParser ---------------------------
(***************************************************************************)
(* How the lines of a log are kept as templates and columns, and read back *)
(* (proc and matchFile of main.cpp, LengthParser.cpp, template.cpp; the    *)
(* loading of templates and Materialization in LogStore_API.cpp).          *)
(*                                                                         *)
(* A line is cut at delimiters, which are tokens themselves.  Sampled      *)
(* lines make templates: one that is similar enough to a template of its   *)
(* length is merged into it, and the tokens that differ become variables.  *)
(* Then every line goes to the first template it matches, with a value in  *)
(* the column of each of its variables, or is kept whole.  A store reads   *)
(* the text of a template, cuts it at delimiters again and takes <V0> for  *)
(* the first variable.                                                     *)
(*                                                                         *)
(* Tokens are short sequences of characters.  What is done to a column     *)
(* before it is written is the subject of SubPatterns and Archive.         *)
(***************************************************************************)
EXTENDS Integers, Sequences, FiniteSets, SequencesExt

CONSTANTS Inputs,    \* the logs: lines of tokens
          Delims,    \* the tokens that are delimiters
          Tab,       \* the delimiter whose tag is 9
          Marks,     \* words that read like a variable, with its number
          Var,       \* what a template has at a variable, templatesTags = 2
          Threshold, \* percent of the tokens that must be similar (50)
          NVars      \* 2 ^ (POS_TEMPLATE - POS_VAR), the variables of a template

IsLine(l) == \A i \in 1 .. Len(l) - 1 : l[i] \in Delims \/ l[i + 1] \in Delims

IsSeq(s) == s \in Seq(ToSet(s))

ASSUME ParserAssumption ==
  /\ Tab \in Delims /\ Var \notin Delims /\ Threshold \in 0 .. 100 /\ NVars \in Nat \ {0}
  /\ \A log \in Inputs : IsSeq(log) /\ \A n \in DOMAIN log :
       /\ IsSeq(log[n]) /\ IsLine(log[n])
       /\ \A i \in DOMAIN log[n] : IsSeq(log[n][i]) /\ log[n][i] # Var

VARIABLES pc,        \* "sample", "match" or "stored"
          log, ended, \* the lines, and whether the last has an end of line
          line,      \* the number of the next line
          sampled,   \* whether it is to be sampled
          templates, \* LengthTemplatePool, in order of Eid
          home,      \* history: the template each sampled line went into
          eid,       \* Eid: per line its template, or -1
          columns    \* variable_mapping

vars == <<pc, log, ended, line, sampled, templates, home, eid, columns>>

(* A last line without an end of line is read by neither loop.             *)
Read == 1 .. IF ended THEN Len(log) ELSE Len(log) - 1

(* The bits of two numbers, or-ed                                          *)
Or(a, b) ==
  LET or[d \in Nat \X Nat] ==
        IF d[1] = 0 \/ d[2] = 0 THEN d[1] + d[2]
        ELSE 2 * or[<<d[1] \div 2, d[2] \div 2>>] + (IF d[1] % 2 = 1 \/ d[2] % 2 = 1 THEN 1 ELSE 0)
  IN or[<<a, b>>]

(* The tag of a column; beyond NVars the number of the variable runs into  *)
(* that of the template.                                                   *)
Name(e, v) == <<Or(e, v \div NVars), v % NVars>>
-----------------------------------------------------------------------------
Init == /\ pc = "sample" /\ log \in Inputs /\ ended \in BOOLEAN
        /\ line = 1 /\ sampled = FALSE
        /\ templates = <<>> /\ home = <<>> /\ eid = <<>>
        /\ columns = [n \in {} |-> <<>>]

(* parseMatch.  A token that is a delimiter, but for the tab, must be the  *)
(* same; a template without tokens is similar to nothing.                  *)
(* Mutant: delimiters count like words.                                    *)
SimilarAny(t, l) ==
  100 * Cardinality({i \in DOMAIN l : t.tokens[i] \in {Var, l[i]}}) > Threshold * Len(l)

Similar(t, l) ==
  /\ \A i \in DOMAIN l : l[i] \in Delims \ {Tab} => t.tokens[i] = l[i]
  /\ 100 * Cardinality({i \in DOMAIN l : t.tokens[i] \in {Var, l[i]}}) > Threshold * Len(l)

Fresh(l) == [tokens |-> l, vars |-> <<>>]

(* merge: as many characters are compared as the token of the line has.    *)
Differs(t, l, i) == t.tokens[i] # Var /\ ~IsPrefix(l[i], t.tokens[i])

(* The numbers up to n that are in S, as a loop over them collects them    *)
InOrder(S, n) ==
  LET upto[k \in 0 .. n] == IF k = 0 THEN <<>>
                            ELSE IF k \in S THEN Append(upto[k - 1], k) ELSE upto[k - 1]
  IN upto[n]

(* Mutant: one token is merged.                                            *)
MergeFirst(t, l) ==
  LET new == {i \in DOMAIN l : Differs(t, l, i)}
  IN IF new = {} THEN t
     ELSE [tokens |-> [t.tokens EXCEPT ![Min(new)] = Var], vars |-> Append(t.vars, Min(new))]

Merge(t, l) ==
  [tokens |-> [i \in DOMAIN l |-> IF Differs(t, l, i) THEN Var ELSE t.tokens[i]],
   vars   |-> t.vars \o InOrder({i \in DOMAIN l : Differs(t, l, i)}, Len(l))]

(* The templates of the length of a line                                   *)
Pool(l) == {e \in DOMAIN templates : Len(templates[e].tokens) = Len(l)}

(* parseTemplate: the first that is similar                                *)
ParseTemplate(l) ==
  LET near == {e \in Pool(l) : Similar(templates[e], l)}
      e    == IF near = {} THEN Len(templates) + 1 ELSE Min(near)
  IN /\ templates' = IF near = {} THEN Append(templates, Fresh(l))
                                  ELSE [templates EXCEPT ![e] = Merge(@, l)]
     /\ home' = Append(home, [line |-> line, template |-> e])

Sample ==
  /\ pc = "sample" /\ line \in Read
  /\ IF sampled THEN ParseTemplate(log[line]) ELSE UNCHANGED <<templates, home>>
  /\ line' = line + 1 /\ sampled' \in BOOLEAN
  /\ UNCHANGED <<pc, log, ended, eid, columns>>

(* A column for every variable of every template                           *)
StartMatch ==
  /\ pc = "sample" /\ line \notin Read
  /\ pc' = "match" /\ line' = 1
  /\ columns' = [n \in UNION {{Name(e, v - 1) : v \in DOMAIN templates[e].vars} : e \in DOMAIN templates}
                   |-> <<>>]
  /\ UNCHANGED <<log, ended, sampled, templates, home, eid>>

(* matchMatch: any token, a delimiter too, is taken for a variable.        *)
Fits(t, l) == \A i \in DOMAIN l : t.tokens[i] \in {Var, l[i]}

(* VarArray::Add of the token at each variable, in the order of varIndex   *)
(* Mutant: in the order of the line.                                       *)
ExtractInOrder(e, l) ==
  LET t == templates[e]
      sorted == InOrder({i \in DOMAIN l : t.tokens[i] = Var}, Len(l))
      value(n) == LET of == InOrder({v \in DOMAIN t.vars : Name(e, v - 1) = n}, Len(t.vars))
                  IN [k \in DOMAIN of |-> l[sorted[of[k]]]]
  IN [n \in DOMAIN columns |-> columns[n] \o value(n)]

Extract(e, l) ==
  LET t == templates[e]
      value(n) == LET of == InOrder({v \in DOMAIN t.vars : Name(e, v - 1) = n}, Len(t.vars))
                  IN [k \in DOMAIN of |-> l[t.vars[of[k]]]]
  IN [n \in DOMAIN columns |-> columns[n] \o value(n)]

(* SearchTemplate: the first that fits                                     *)
MatchLine ==
  /\ pc = "match" /\ line \in Read
  /\ LET l    == log[line]
         fit  == {e \in Pool(l) : Fits(templates[e], l)}
     IN IF fit = {} THEN eid' = Append(eid, -1) /\ UNCHANGED columns
                    ELSE eid' = Append(eid, Min(fit)) /\ columns' = Extract(Min(fit), l)
  /\ line' = line + 1
  /\ UNCHANGED <<pc, log, ended, sampled, templates, home>>

Store == /\ pc = "match" /\ line \notin Read
         /\ pc' = "stored"
         /\ UNCHANGED <<log, ended, line, sampled, templates, home, eid, columns>>

Next == Sample \/ StartMatch \/ MatchLine \/ Store

Spec == Init /\ [][Next]_vars
-----------------------------------------------------------------------------
(* A template without text is not loaded.  The text of the others is cut   *)
(* at delimiters: a variable that is beside another token is not seen as   *)
(* one, and what is printed for it is not its value.                       *)
Loaded == {e \in DOMAIN templates : templates[e].tokens # <<>>}

Row(n)      == Cardinality({m \in 1 .. n : eid[m] = eid[n]})
Readable(t) == IsLine(t.tokens)
Alone(t, i) == \A j \in {i - 1, i + 1} \intersect DOMAIN t.tokens : t.tokens[j] \in Delims

Cell(name, k) == IF name \notin DOMAIN columns THEN <<>>
                 ELSE IF k \in DOMAIN columns[name] THEN columns[name][k] ELSE Var

(* output, AddMainPatternToMap and Materialization of row k                *)
Printed(e, k) ==
  LET t == templates[e]
      number(i) == CHOOSE v \in DOMAIN t.vars : t.vars[v] = i
  IN [i \in DOMAIN t.tokens |->
        IF ~Alone(t, i) THEN t.tokens[i]
        ELSE IF t.tokens[i] = Var THEN Cell(Name(e, number(i) - 1), k)
        ELSE IF t.tokens[i] \in DOMAIN Marks THEN Cell(Name(e, Marks[t.tokens[i]]), k)
        ELSE t.tokens[i]]
-----------------------------------------------------------------------------
(* No variable of the template has the column of another.                  *)
OwnNames(e) == \A f \in DOMAIN templates : \A v \in DOMAIN templates[f].vars, w \in DOMAIN templates[e].vars :
                 Name(f, v - 1) = Name(e, w - 1) => f = e /\ v = w

HasTab(e) == \E h \in ToSet(home) : h.template = e /\ Tab \in ToSet(log[h.line])

(* A line is printed as it was: the text of the template, numbered in the  *)
(* order its variables were found, and the columns, filled in that order,  *)
(* agree.  Not so when the line is blank; or its template is not read as   *)
(* it was written, has a word that reads like a variable, or shares a      *)
(* column with another.                                                    *)
LinesKept == pc = "stored" => \A n \in DOMAIN eid :
  LET e == eid[n] IN
  \/ e = -1
  \/ log[n] = <<>> \/ ~Readable(templates[e]) \/ ~OwnNames(e)
  \/ ToSet(templates[e].tokens) \intersect DOMAIN Marks # {}
  \/ e \in Loaded /\ Printed(e, Row(n)) = log[n]

(* However templates go on to be merged, no two tokens of a template come  *)
(* to lie side by side, so the store cuts it as it was cut, unless a line  *)
(* with a tab was merged.                                                  *)
CutTheSame == \A e \in DOMAIN templates : Readable(templates[e]) \/ HasTab(e)

(* A line that was sampled matches the template it was merged into,        *)
(* whatever is merged later, unless a word of it begins a longer one.      *)
SampledFits == \A h \in ToSet(home) :
  LET t == templates[h.template]
      l == log[h.line]
  IN Fits(t, l) \/ \E i \in DOMAIN l : t.tokens[i] \notin {Var, l[i]} /\ IsPrefix(l[i], t.tokens[i])
=============================================================================
