----------------------------- MODULE QueryText ------------------------------
(***************************************************************************)
(* From the text of a query to the searches it asks of every store.        *)
(*                                                                         *)
(* CmdDefine.cpp splits the text at delimiters, keeping each delimiter as  *)
(* an argument; the dispatcher hands the same arguments to every store,    *)
(* and LogStore_API.cpp takes them apart at "and", then at "not", then at  *)
(* "or", by three nested loops.  What a store has selected is abstracted   *)
(* to the sequence of searches it comes from (got), and a cached result to *)
(* the searches that made it.                                              *)
(*                                                                         *)
(* A text is a sequence of characters.  The keywords are characters of     *)
(* their own: the argument "and" is <<And>>.  Positions are counted from 1 *)
(* where the code counts from 0.                                           *)
(***************************************************************************)
EXTENDS Integers, Sequences, FiniteSets, SequencesExt

CONSTANTS Delims,        \* TOKEN: the delimiters
          Star,          \* WILDCARD
          And, Or, Not,  \* LOGIC_AND, LOGIC_OR (or LOGIC_or), LOGIC_NOT
          Queries,       \* queries by their structure, see Segment
          Broken,        \* other texts the user may type
          Stores,        \* number of stores
          MaxArgs,       \* MAX_CMD_ARG_COUNT
          MaxAsked       \* bound on the queries of a session, for TLC

Operators == {<<And>>, <<Or>>, <<Not>>}

ASSUME TextAssumption ==
  /\ Stores \in Nat \ {0} /\ MaxArgs \in Nat \ {0} /\ MaxAsked \in Nat
  /\ Delims # {} /\ Star \notin Delims
  /\ Cardinality({And, Or, Not}) = 3 /\ {And, Or, Not} \cap (Delims \union {Star}) = {}

VARIABLES pc,       \* "idle", "split", "store", "OR", "and", "norm", "keep",
                    \* "answered"; "aborted" and "undefined" are final
          text,     \* the text of the query
          last,     \* where Mystrtok goes on
          args,     \* m_args
          argCount, \* what GetCmdArgs returns
          store,    \* the store that searches
          loop,     \* the loops over "and" (OR), "not" (and) and "or" (norm)
          key,      \* queryStr: the text the result is cached under
          got,      \* the searches the bitmaps come from
          cached,   \* m_sessions of each store: the searches behind each text
          asked,    \* queries asked
          spoilt    \* history: a cut argument no longer means what was typed

vars == <<pc, text, last, args, argCount, store, loop, key, got, cached, asked, spoilt>>

-----------------------------------------------------------------------------
(* Texts and words.                                                        *)

(* The maximal runs of s that begin in starts and hold no character of C.  *)
Runs(s, starts, C) ==
  LET stop(i) == SelectInSubSeq(s, i, Len(s), LAMBDA c : c \in C)
      at == SetToSortSeq(starts, <)
  IN [n \in 1 .. Len(at) |->
        SubSeq(s, at[n], IF stop(at[n]) = 0 THEN Len(s) ELSE stop(at[n]) - 1)]

(* Split_NoDelim: the pieces between the stars of a word; strtok writes a  *)
(* zero at the star behind the first piece, which is what stays in args.   *)
Pieces(w) == Runs(w, {i \in 1 .. Len(w) : w[i] # Star /\ (i = 1 \/ w[i - 1] = Star)}, {Star})

Cut(w) ==
  LET first == SelectInSeq(w, LAMBDA c : c # Star)
      stop  == SelectInSubSeq(w, first, Len(w), LAMBDA c : c = Star)
  IN IF first = 0 \/ stop = 0 THEN w ELSE SubSeq(w, 1, stop - 1)

Spoils(w) == Pieces(Cut(w)) # Pieces(w) \/ (Cut(w) # w /\ Cut(w) \in Operators)

(* Mutant: the loop ends before the last argument.                         *)
RecombinedShort(to) == FlattenSeq(SubSeq(args, 1, to - 1))

(* RecombineString from the first argument: the text up to one of them.    *)
Recombined(to) == FlattenSeq(SubSeq(args, 1, to))

(* A search of the words of one term.  A single word is searched by its    *)
(* pieces, several are aligned with a template.  outl: what is looked for  *)
(* among the outliers, which is the same unless the argument has been cut  *)
(* in between.                                                             *)
Search(kind, words) ==
  LET w == IF Len(words) = 1 THEN Pieces(words[1]) ELSE words
  IN [kind |-> kind, one |-> Len(words) = 1, words |-> w, outl |-> w]

-----------------------------------------------------------------------------
(* What a query means.  A segment is joined to the one before it by "and", *)
(* "not", or "and not"; its terms are joined by "or"; a term is a sequence *)
(* of arguments, delimiters between words included.                        *)

Joined(d, ops) == [i \in 1 .. 2 * Len(ops) |-> IF i % 2 = 1 THEN <<d>> ELSE <<ops[i \div 2]>>]
                  \o << <<d>> >>

Joint(first, op, d) ==
  CASE first /\ op = "and"   -> <<>>
    [] first /\ op # "and"   -> << <<Not>>, <<d>> >>
    [] ~first /\ op = "and"  -> Joined(d, <<And>>)
    [] ~first /\ op = "not"  -> Joined(d, <<Not>>)
    [] ~first /\ op = "and not" -> Joined(d, <<And, Not>>)

Segment(first, seg, d) ==
  Joint(first, seg.op, d)
  \o FlattenSeq([i \in 1 .. Len(seg.terms) |->
        (IF i = 1 THEN <<>> ELSE Joined(d, <<Or>>)) \o seg.terms[i]])

(* The text of a query, with the delimiter d around the operators.         *)
Written(q, d) == FlattenSeq(FlattenSeq([j \in 1 .. Len(q) |-> Segment(j = 1, q[j], d)]))

(* The searches it asks for.                                               *)
Meaning(q) ==
  FlattenSeq([j \in 1 .. Len(q) |->
    [i \in 1 .. Len(q[j].terms) |->
       Search(CASE q[j].op # "and"                             -> "not"
                [] q[j].op = "and" /\ i < Len(q[j].terms)      -> "ref"
                [] q[j].op = "and" /\ i = Len(q[j].terms)      -> "norm",
              q[j].terms[i])]])

Texts == {Written(q, d) : q \in Queries, d \in Delims} \union Broken

(* The queries a query begins with, and what each text means: a set, which *)
(* is to have one element.                                                 *)
Heads == UNION {{SubSeq(q, 1, n) : n \in 1 .. Len(q)} : q \in Queries}

Meanings ==
  LET readings == {<<Written(q, d), Meaning(q)>> : q \in Heads, d \in Delims}
  IN [t \in {r[1] : r \in readings} |-> {r[2] : r \in {x \in readings : x[1] = t}}]

-----------------------------------------------------------------------------
Levels == {"OR", "and", "norm"}
Frame(from, to) == [temp |-> from, to |-> to, more |-> TRUE, neg |-> FALSE]

Init ==
  /\ pc = "idle" /\ text = <<>> /\ last = 0 /\ args = <<>> /\ argCount = 0
  /\ store = 0 /\ loop = [l \in Levels |-> Frame(1, 0)] /\ key = <<>> /\ got = <<>>
  /\ cached = [s \in 1 .. Stores |-> [t \in {} |-> <<>>]]
  /\ asked = 0 /\ spoilt = FALSE

(* AnalysisCmd, with a text that is not empty.                             *)
Ask(t) ==
  /\ pc = "idle" /\ asked < MaxAsked /\ t # <<>>
  /\ pc' = "split" /\ text' = t /\ last' = 1 /\ args' = <<>> /\ asked' = asked + 1
  /\ UNCHANGED <<argCount, store, loop, key, got, cached, spoilt>>

(* A turn of Split: Mystrtok gives a delimiter, or a word and the          *)
(* delimiter behind it.                                                    *)
Tokenize ==
  /\ pc = "split" /\ last <= Len(text)
  /\ LET stop == SelectInSubSeq(text, last, Len(text), LAMBDA c : c \in Delims)
         end  == IF stop = 0 THEN Len(text) + 1 ELSE stop
     IN /\ args' = args \o (IF end > last THEN <<SubSeq(text, last, end - 1)>> ELSE <<>>)
                        \o (IF stop = 0 THEN <<>> ELSE << <<text[stop]>> >>)
        /\ last' = end + 1
  /\ UNCHANGED <<pc, text, argCount, store, loop, key, got, cached, asked, spoilt>>

(* GetCmdArgs copies the arguments there is room for, and returns how many *)
(* there were; SearchByWildcard_Seq then begins with the first store.      *)
GetCmdArgs ==
  /\ pc = "split" /\ last > Len(text)
  /\ args' = SubSeq(args, 1, IF Len(args) < MaxArgs THEN Len(args) ELSE MaxArgs)
  /\ argCount' = Len(args)
  /\ pc' = "store" /\ store' = 1 /\ got' = <<>>
  /\ UNCHANGED <<text, last, loop, key, cached, asked, spoilt>>

-----------------------------------------------------------------------------
(* SearchByWildcard_Token of one store.                                    *)

IsSearchWithLogic == \E i \in 1 .. Len(args) : args[i] \in Operators

(* The searches read argCount arguments, whether or not they were kept.    *)
Overrun ==
  /\ pc = "store" /\ argCount > MaxArgs
  /\ pc' = "undefined"
  /\ UNCHANGED <<text, last, args, argCount, store, loop, key, got, cached, asked, spoilt>>

Lookup(k) == k \in DOMAIN cached[store]
Keep(k, searches) == cached' = [cached EXCEPT ![store] = (k :> searches) @@ @]

(* A query of one word: when the outliers are searched, and when the       *)
(* result is cached, the argument has been cut.                            *)
SingleToken ==
  /\ pc = "store" /\ argCount = 1 /\ argCount <= MaxArgs
  /\ LET w == args[1]
     IN IF Lookup(w)
        THEN got' = cached[store][w] /\ UNCHANGED <<args, cached, spoilt>>
        ELSE /\ got' = << [Search("norm", args) EXCEPT !.outl = Pieces(Cut(w))] >>
             /\ args' = << Cut(w) >>
             /\ Keep(Cut(w), got')
             /\ spoilt' = (spoilt \/ Spoils(w))
  /\ pc' = "answered"
  /\ UNCHANGED <<text, last, argCount, store, loop, key, asked>>

(* A query of several arguments without an operator.                       *)
MultiToken ==
  /\ pc = "store" /\ argCount \in 2 .. MaxArgs /\ ~IsSearchWithLogic
  /\ LET k == Recombined(argCount)
     IN IF Lookup(k)
        THEN got' = cached[store][k] /\ UNCHANGED cached
        ELSE got' = << Search("norm", args) >> /\ Keep(k, got')
  /\ pc' = "answered"
  /\ UNCHANGED <<text, last, args, argCount, store, loop, key, asked, spoilt>>

SearchByLogic ==
  /\ pc = "store" /\ argCount \in 2 .. MaxArgs /\ IsSearchWithLogic
  /\ loop' = [loop EXCEPT !["OR"] = Frame(1, argCount)]
  /\ pc' = "OR"
  /\ UNCHANGED <<text, last, args, argCount, store, key, got, cached, asked, spoilt>>

(* The part of a loop's range up to its next operator, or its end; the     *)
(* operator has a delimiter on either side, which is skipped unread.       *)
NextOp(l, op) == SelectInSubSeq(args, loop[l].temp, loop[l].to, LAMBDA w : w = <<op>>)
PartEnd(l, op) == IF NextOp(l, op) = 0 THEN loop[l].to ELSE NextOp(l, op) - 2

(* Mutant: the next part begins with the delimiter behind the operator.    *)
AdvancedShort(l, op) ==
  IF NextOp(l, op) = 0 THEN [loop[l] EXCEPT !.more = FALSE]
  ELSE [loop[l] EXCEPT !.temp = NextOp(l, op) + 1, !.neg = TRUE]

Advanced(l, op) ==
  IF NextOp(l, op) = 0 THEN [loop[l] EXCEPT !.more = FALSE]
  ELSE [loop[l] EXCEPT !.temp = NextOp(l, op) + 2, !.neg = TRUE]

(* SearchByLogic_OR: a part is handed to SearchByLogic_and.                *)
OrLoop ==
  /\ pc = "OR"
  /\ IF loop["OR"].more
     THEN /\ loop' = [loop EXCEPT !["OR"] = Advanced("OR", And),
                                  !["and"] = Frame(loop["OR"].temp, PartEnd("OR", And))]
          /\ pc' = "and"
     ELSE pc' = "answered" /\ UNCHANGED loop
  /\ UNCHANGED <<text, last, args, argCount, store, key, got, cached, asked, spoilt>>

(* A search of the arguments from .. to.  The array for a negative number  *)
(* of them cannot be had: new throws, and nothing catches.  A word of      *)
(* stars alone leaves wArray[0] unset, which is read.                      *)
Request(kind, from, to, then) ==
  IF to < from - 1 THEN pc' = "aborted" /\ UNCHANGED <<args, got, spoilt>>
  ELSE IF to = from /\ Pieces(args[from]) = <<>>
  THEN pc' = "undefined" /\ UNCHANGED <<args, got, spoilt>>
  ELSE /\ got' = Append(got, Search(kind, SubSeq(args, from, to)))
       /\ IF to = from THEN /\ args' = [args EXCEPT ![from] = Cut(@)]
                            /\ spoilt' = (spoilt \/ Spoils(args[from]))
          ELSE UNCHANGED <<args, spoilt>>
       /\ pc' = then

(* Mutant: the part is searched for although it is empty.                  *)
SkipsNever(f, to) == FALSE

(* Nothing to search: an operator before any term, as the "not" of "and    *)
(* not".                                                                   *)
Skips(f, to) == NextOp("and", Not) # 0 /\ f.temp > to

(* SearchByLogic_and, one part: taken from the cache under the text of the *)
(* query up to it, or searched for, and then cached.                       *)
AndReturn ==
  /\ pc = "and" /\ ~loop["and"].more
  /\ pc' = "OR"
  /\ UNCHANGED <<text, last, args, argCount, store, loop, key, got, cached, asked, spoilt>>

AndLoop ==
  /\ pc = "and" /\ loop["and"].more
  /\ LET f  == loop["and"]
         to == PartEnd("and", Not)
         k  == Recombined(to)
     IN IF Lookup(k)
        THEN /\ got' = cached[store][k]
             /\ loop' = [loop EXCEPT !["and"] = Advanced("and", Not)]
             /\ UNCHANGED <<pc, args, key, spoilt>>
        ELSE /\ key' = k
             /\ loop' = [loop EXCEPT !["and"] = Advanced("and", Not), !["norm"] = Frame(f.temp, to)]
             /\ \/ f.neg /\ Request("not", f.temp, to, "keep")
                \/ ~f.neg /\ pc' = (IF Skips(f, to) THEN "keep" ELSE "norm") /\ UNCHANGED <<args, got, spoilt>>
  /\ UNCHANGED <<text, last, argCount, store, cached, asked>>

(* SearchByLogic_norm_or: every term but the last is searched by           *)
(* SearchByLogic_norm_RefMap, the last one by SearchByLogic_norm.          *)
NormLoop ==
  /\ pc = "norm"
  /\ LET found == NextOp("norm", Or) # 0
     IN Request(IF found THEN "ref" ELSE "norm", loop["norm"].temp, PartEnd("norm", Or),
                IF found THEN "norm" ELSE "keep")
  /\ loop' = [loop EXCEPT !["norm"] = Advanced("norm", Or)]
  /\ UNCHANGED <<text, last, argCount, store, key, cached, asked>>

(* The result of a part is cached under the text taken before the search.  *)
Remember ==
  /\ pc = "keep" /\ Keep(key, got)
  /\ pc' = "and"
  /\ UNCHANGED <<text, last, args, argCount, store, loop, key, got, asked, spoilt>>

(* SearchByWildcard_Seq: the next store gets the arguments as they are.    *)
NextStore ==
  /\ pc = "answered"
  /\ IF store < Stores THEN pc' = "store" /\ store' = store + 1
     ELSE pc' = "idle" /\ UNCHANGED store
  /\ got' = <<>>
  /\ UNCHANGED <<text, last, args, argCount, loop, key, cached, asked, spoilt>>

Next == \/ \E t \in Texts : Ask(t)
        \/ Tokenize \/ GetCmdArgs \/ Overrun \/ SingleToken \/ MultiToken \/ SearchByLogic
        \/ OrLoop \/ AndReturn \/ AndLoop \/ NormLoop \/ Remember \/ NextStore

Spec == Init /\ [][Next]_vars

-----------------------------------------------------------------------------
(* Operators that the loops act on: an "or" behind a "not" is a word.      *)
Acts(i) ==
  \/ args[i] \in {<<And>>, <<Not>>}
  \/ /\ args[i] = <<Or>>
     /\ \A n \in 1 .. i - 1 : args[n] = <<Not>> => \E m \in n .. i - 1 : args[m] = <<And>>

(* An operator with no term before it (but a "not" at the beginning, or    *)
(* after an "and"), or with none behind it.                                *)
MissesTerm ==
  /\ argCount > 1
  /\ \/ args[1] \in {<<And>>, <<Or>>}
     \/ Acts(Len(args))
     \/ \E i \in 1 .. Len(args) - 2 :
          Acts(i) /\ Acts(i + 2) /\ <<args[i], args[i + 2]>> # << <<And>>, <<Not>> >>

(* The program is aborted by a query with a term missing and by no other;  *)
(* it is answered only if the part with the gap was cached.                *)
AbortsWithoutTerm ==
  spoilt \/ /\ pc = "aborted" => MissesTerm
            /\ (pc = "answered" /\ asked = 1) => ~MissesTerm

(* The query " and a" searches for no words at all, and caches the result  *)
(* under the empty text; a query that begins with "not" finds it there.    *)
Begun(s, t) == t[1] = Not /\ <<>> \in DOMAIN cached[s] /\ cached[s][<<>>] # <<>>

(* The three loops, which know nothing of each other but the positions     *)
(* they hand down, take a query apart as it is written, in every store,    *)
(* whatever parts of it a store takes from its cache; unless an argument   *)
(* cut by strtok no longer means what was typed, or the query begins with  *)
(* "not" and the empty text is cached.                                     *)
TakenApart ==
  (pc = "answered" /\ text \in DOMAIN Meanings) =>
     Meanings[text] = {got} \/ spoilt \/ Begun(store, text)

(* What is cached under a text is what that text asks for, as a query of   *)
(* its own, with the same exceptions: a query of one term asks for the     *)
(* first part of a longer one, and "A and" of "A and not B" is no query.   *)
CachedAsWritten ==
  spoilt \/ \A s \in 1 .. Stores : \A t \in DOMAIN cached[s] \cap DOMAIN Meanings :
              Begun(s, t) \/ Meanings[t] = {cached[s][t]}
=============================================================================
