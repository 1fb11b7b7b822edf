# LogGrep in TLA+

LogGrep compresses log files into archives that can be searched without
decompressing all of them.  This directory holds TLA+ models of the parts whose
state is hard to test, the TLC configurations that check them, and proofs
checked by TLAPS.  All paths below are relative to the repository (`src/`).

Run from this directory: `tlc -config BitMap.cfg MCBitMap`, `tlapm BitMapProofs.tla`, and
likewise for the other configurations listed under *Runs*.

## 1. The system

Two C++ programs and three Python drivers.

| part | source | state | operations |
|---|---|---|---|
| Compression drivers | `compression/{quickTest,largeTest,LogGrep-compression}.py` | list of files, pool of 4 threads, two counts under one lock | list, batch, run the compressor on each file, add times and errors |
| Parser | `compression/main.cpp`, `LengthParser.cpp`, `template.cpp`, `sampler.cpp` | templates, rows of each, failed lines | sample, build templates, match every line, extract variables |
| Sub-patterns and dictionaries | `compression/union.cpp`, `SubPattern.cpp` | a pattern per variable, a dictionary keyed by hash, outlier values | extract, merge, add |
| Archive writer | `compression/Encoder.cpp`, `Coffer.cpp` | coffers (name, offset, lengths, compressed or not) | add, compress, write the metadata |
| Archive reader | `cmdline_loggrep/LogStore_API.cpp` 39-952 | `m_glbMeta`, `m_patterns`, `m_subpatterns`, `m_outliers`, `m_varouts`, open file | boot, load a coffer, clear |
| Search of a term | `LogStore_API.cpp` 975-2530, `SearchAlgorithm.cpp` | five exchange bitmaps | match a template, push the term down to variables, scan columns |
| Logic queries | `LogStore_API.cpp` 2542-3479 | `m_sessions` (cached bitmaps by query text), the arguments | and, or, not, cache, print |
| BitMap | `cmdline_loggrep/LogStructure.h` 434-617 | bits, `Index`, `Size` | union, complement, reverse, filter, clone |
| Dispatcher and command line | `LogDispatcher.cpp`, `CmdInvoker.cpp`, `CmdManager.cpp`, `CmdLineTool.cpp` | stores of a directory, budget of printed rows | connect, search all stores, disconnect |
| Tokenizer, parameter tree | `CmdDefine.cpp`, `CmdOperator.cpp`, `BaseCmd.cpp`, `ConcreteCmd.cpp` | argument buffers | split, recombine, look up |
| External | `compression/LZMA` (vendored), `ESTesting`, `clpTesting`, `ggrepTesting` (benchmarks), `example`, `output` | - | - |

How they interact.  A driver starts one compressor process per file; the
compressor writes one archive.  A query is split into arguments, handed by the
dispatcher to the stores one after the other (the same argument strings to all),
and each store combines the bitmaps of the terms into one bitmap per template
and one for the lines that match no template, then prints the rows.  The query
side is one thread: everything hard in it is in the order of calls and in the
state they leave in shared bitmaps, in the cache and in the argument strings.
The drivers are the one place with threads.

What is hard, and what each part must promise:

- *BitMap*: loops write `Index` while they read it; `Size` doubles as the
  sentinel -99 for "all rows", with stale bits and entries behind it; nothing
  checks bounds.  Promise: it is a set of rows.
- *Logic queries*: a bitmap can be absent, null, full or partial, and the four
  search functions branch on it separately; a cached prefix replaces a search;
  `strtok` rewrites the text that later becomes a cache key.  Promise: the rows
  the query means, whatever was asked before.
- *Text of a query*: three nested loops take the arguments apart by positions counted
  by hand, and one array of arguments, which searches cut, serves every store and
  names every cached result.  Promise: the searches the text asks for, in every store.
- *Drivers*: counts updated by several threads, a failing file in the middle of
  a batch, a shutdown that waits for all.  Promise: each file once, a complete
  and correct summary, termination.
- *Search of a term*: exchange bitmaps shared between nested calls; outliers of a
  variable beside its sub-pattern.  Promise: exactly the rows that have the term.
- *Archive*: offsets summed by the writer and trusted by the reader; names that
  pack numbers in few bits.  Promise: what was written is read back.
- *Parser, sub-patterns*: every line in exactly one place, from which it can be
  rebuilt.

## 2. Modules

| module | what it is |
|---|---|
| `RowSet` | abstract: a set of rows per bitmap, each operation one step; after rows are merged into a full map nothing is promised |
| `BitMap` | the class, loops one iteration per step, bounds of `Index` observed |
| `MCBitMap` | constants for TLC |
| `BitMapProofs` | theorems about `BitMap`, for any number of rows and maps |
| `RowMaps` | a bitmap between two calls, as its callers see it; used by the next two |
| `QueryText`, `MCQueryText` | the text of a query taken apart into the searches of each store, and the texts results are cached under |
| `LogicQuery` | one store answering queries, with its cache; what queries mean |
| `MCLogicQuery` | templates, terms and queries for TLC |
| `LogicQueryProofs` | theorems about `LogicQuery`, for any store, terms and queries, and about `Dispatcher`, for any directories, stores, rows and budget |
| `PatternSearch`, `MCPatternSearch` | a query of one or more tokens searched in one template, through the exchange bitmaps |
| `PatternSearchProofs` | theorems about `PatternSearch`, for any rows, template and tokens |
| `StringSearch`, `MCStringSearch` | the searches of a string in a column of values, and a reference definition |
| `StringSearchProofs` | theorems about `StringSearch`, for any column, string and width of rows |
| `SubPatterns`, `MCSubPatterns` | the values of a variable split into sub-patterns, taken apart, printed |
| `SubPatternsProofs` | theorems about `SubPatterns`, for any values, sample and pivots |
| `TemplateParser`, `MCTemplateParser` | lines kept as templates and columns, and read back |
| `TemplateParserProofs` | theorems about `TemplateParser`, for any log, sample and threshold |
| `Archive`, `MCArchive` | the coffers of an archive, written, opened and loaded |
| `ArchiveProofs` | theorems about `Archive`, for any log, lengths and failures |
| `CompressPool` | a driver: main thread, pool, lock |
| `MCCompressPool` | constants for TLC |
| `CompressPoolProofs` | theorems about `CompressPool`, for any number of files and threads |
| `Dispatcher` | the stores of a directory: connect, one query over all, the budget of printed rows, disconnect |
| `MCDispatcher` | directories and counts for TLC |

### BitMap

`bits`, `index` and `size` are the fields `Bitmap`, `Index` and `Size`; `op`, `me`,
`tgt`, `i`, `n` and `keep` are the loop that runs and its locals; `wild` records
the first write outside `Index`, at which the machine stops because C++
promises nothing after it.  `Own` are the maps with one cell per row of the
template; the others are the exchange maps, which have more cells
(`m_maxBitmapSize`) and are full only by the sentinel.  The guards that are
callers' conditions say so: a search empties a full map before it reports rows
(`Found`), `Complement` is called with `Size > 0`, `Reverse` and `CloneFrom` on
own maps.  `Narrow` stands for the loops of the column scans that search the
listed rows again, with the rows that match chosen freely.

The order of two reads is kept where it matters: the filter loops write `Index`
at `Size` while they read it at `i`.  `BitMap::Inset(BitMap*)` has no caller and is
not modelled.  Width: rows are below `NRows`; the bitset's own limit of 1000000
is not modelled.

### QueryText

What `LogicQuery` takes for granted: that a text comes apart into segments and terms,
and that the texts of a query's parts name its parts.  A text is a sequence of
characters, the keywords characters of their own.  `Tokenize` is a turn of `Split`
with the call of `Mystrtok` in it; `SingleToken`, `MultiToken` and `SearchByLogic` are
the branches of `SearchByWildcard_Token`; `OrLoop`, `AndLoop` and `NormLoop` are one turn of
the loops over "and", "not" and "or", with their ranges in `loop`; `NextStore` hands
the arguments, as they now are, to the next store.

- What a store has selected is abstracted to the sequence of searches it comes
  from (`got`); so a cached result is the searches behind it.
- A search of one word is by its pieces between stars, and cuts the argument at the
  star behind the first piece (`Cut`, what `strtok` leaves).
- `Request` with a range of negative size: `new` throws and nothing catches
  (`pc = "aborted"`).  A word of stars alone leaves `wArray[0]` unset, and a query of more
  than `MaxArgs` arguments is read past those kept: `pc = "undefined"`.
- `Written` and `Meaning` are the reference: the text of a query given by its
  structure, and the searches it asks for.  `spoilt` is history: an argument was cut
  and no longer means what was typed.  `Begun` is the other exception: the query " and a"
  searches for no words and caches what it finds under the empty text, where a later
  "not a" takes it from.
- Abstracted: upper and lower case (`stricmp`); the lengths of arguments, and the
  first six arguments of the command loop, which name the command.

### LogicQuery

A query is a sequence of segments (separated by "and" or "not"), each a list of
terms (separated by "or").  One action is one call of the code: `TokenSearch` (a
query of one term), `OrTerm` (a term of an or-list but the last,
`SearchByLogic_norm_RefMap`), `LastTerm` (`SearchByLogic_norm` and the union that
follows), `NotTerm`, `Hit` (a segment found in `m_sessions`), `Answer`.

- A bitmap is `Absent` (no entry in the C++ map), `Null`, or a record with the
  sentinel apart from the rows whose bit is set, since a full map keeps stale
  bits and `Union` consults them.  `BitMap` and its theorems justify using the
  set operations here: as long as no rows are merged into a full map, a bitmap
  is a set.  `Undefined` is a merge that would write outside `Index`, or the use of
  a null pointer; the machine then stops (`pc = "undefined"`).
- What one term finds in one template is the constant `Match`: text of the
  template, sub-pattern of a variable, rows of values.  `PatternSearch` models
  the search behind it.  `overrun` marks the terms for which `PatternSearch` shows
  that search itself to merge rows into a full map (`OverrunsKnown`: tokens that lie in
  a template in several ways, `LogStore_API.cpp` 2420, or in a constant and then in
  outliers, 1072); `Search` is `Undefined` for them.  The searches within the rows of
  a partial map have no such merge.
- `RefOutliers` is a set of outcomes because the code reads through
  `m_patterns.end()` (undefined behaviour, line 3126).
- `DeepCloneMap` has no return statement; it is modelled as returning (section 5).
- Abstracted: "A and not B" also caches the text "A and", with what "A" has.
  Left out: queries with a term missing ("A or not B", in `QueryText`), "or" inside a "not" segment (searched as literal text),
  a term that begins with a star (the outliers of a lone term are searched for
  the star itself).

The program as shipped (`CmdLineTool.cpp`) connects, asks one query and exits.
Several queries on one store are the interface of `LogDispatcher::SearchByWildcard`
as the command loop of `CmdManager::AnalysisCmd` uses it, and what the cache
(`INC_TEST_SESSION`) is for.  The run `or_union` does not
need it: it is reached by a single query.

`Safe` says which queries the code answers as meant, and is part of the
statement of the properties: no leading "not", at most two terms in an or-list,
no union of some rows into a full map, no term whose own search makes such a
union in a template of the store (`overrun`), no term of a sub-pattern in a later
segment, no star inside a term.  `Trusted` is the other half: `strtok` cuts the query
`a*b` to `a` before its result is cached, so the next query `a` is answered with the
result of `a*b`, and "a*b and c" leaves its result for "a and c"; `misnamed` (history)
lists the texts this happened to, and the properties exempt them and the texts
that begin with them, no others.  The exclusions are not idle, as TLC shows
when one is dropped: the or-union writes at `Index[-99]` (`or_union`), and so does the search of a
term with `overrun`, alone or as an excluded term; a term of a
sub-pattern after an "and" selects no row, since `GetVals_Subpat_Pushdown_RefMap`
keeps an empty map unchanged (line 1098); a leading "not" selects nothing (2674);
a term with a star inside is searched in templates by a function that does
nothing (2533).  Without `Trusted`, `AnswerExact`, `SessionsTrue` and `Narrowing` all fail.

### PatternSearch

The tokens of a query are laid along the segments of a template; `Align` is a turn
of the loop over the places, `Skip`, `SearchColumn` and `SearchSub` one token at one
segment, `Alternative` and `LastAlternative` one way a token lies in a sub-pattern,
`Merge` the union that ends a place.  `pat`, `sub` and `temp` are the three exchange
bitmaps; they begin with what other searches left (`Leftovers`).  `ref` is
`refBitmap`: with it the functions named `_RefMap` run.

- Which tokens agree with which segments is given by the template (`text`); which
  rows of a column have a token, and in how many ways a token can lie in a
  sub-pattern, are choices, and `want` records what they add up to.
- `lost` and `extra` record the rows that the code drops or keeps wrongly at the
  lines `OnPattern`, `Miss` and `LastAlternative` name; `NothingLost` and
  `NothingInvented` say that there are no others.
- `pc = "undefined"` is a merge into a full map, which `BitMap` shows to write
  outside `Index`; `OverrunsKnown` says when it can happen.

### StringSearch

The state is a column and two bitmaps; a step is one call of `QueryByBM_Union`,
`_Pushdown` or `_Pushdown_RefMap`.  The tables and loops of Boyer-Moore and
Knuth-Morris-Pratt are recursive functions with the code's indices (`At` counts
from 0).  `Chars` are the characters of values and of strings searched for; the
blank is none, since it delimits both.  A column of fixed width is one text of padded
rows, because `BM_Fixed_AlignL` skips padding across rows; what a read past its end
tells is a choice (`Garbage`), and so is what the unused part of `Index` says (`Stale`).
`Sound` and `Astray` are part of the properties: a string with borders of two
lengths may be jumped over (run `string_repeats`), a match at the end of a value is
found only when it is the first, an empty value is looked for at the wrong row
when it is pushed down, and an `Index` that does not ascend is searched in part.

### SubPatterns

`Constant`, `Split` and `Close` are the outcomes of `Union::execute` for the next part,
`Build` makes the sub-pattern and `ExtractRow` takes a value apart.  The pivots
drawn at random are choices.  Parts are kept in order, so the numbers `num` are
their places, and the tree without the nodes that were split.  `Printed` is
`Materializ_Subpat`.  Not modelled: the entries of dictionaries and their hashes,
the subset of characters with a case (a class is a class).

### TemplateParser

A line is a sequence of tokens, delimiters among them.  `Sample` is a turn of the
first loop of `proc`, `MatchLine` of that of `matchFile`.  `home` is history: the
template each sampled line went to.  `Name` is the tag of a column: the number of the
variable has eight bits (here `NVars` values instead of 256), and what does not fit
is or-ed into the number of the template (`Or`, bit by bit), for any number of variables.  `Loaded`, `Readable`, `Alone`,
`Cell` and `Printed` are what a store makes of the text of the template and of the
columns.  What is done to a column in between is the subject of `SubPatterns` and
`Archive`, which take it as values and as data.

Four exceptions in `LinesKept` are what the code does, and each is reached: a blank
line is a template without text, which `AddMainPatternToMap` does not load; two
variables that lie side by side (`CutTheSame` says when) are read as one segment; a
word such as `<V0>` is read as a variable; and beyond 256 variables the columns of
two templates are one.  A last line without an end of line is read by neither
loop (`Read`).

### Archive

`SerializeTemplate` to `SerializeSubpattern` add the coffers in the order of `proc`,
`Compress` is a turn of `Encoder::compress`, `Write` of `Encoder::output`; `ReadMeta`,
the `Boot...` actions and `Load` are the store.  A coffer holds no text: what a read
finds is `"stored"` when it reads where the coffer is, else garbage, or the buffer
of a read that failed (`"unset"`), which stays in the cache.  Sizes are small
numbers; the lengths of unmatched lines decide how many coffers they need, and a list
of templates or variables of size `Overlong` has a line longer than the array it is
copied to.

What undefined behaviour may do is a choice.  `Parsed` says it of the two lists: a
list that is not there is parsed through a null pointer and crashes; what a read at a
wrong offset made of it may parse, be refused or crash (`content[3][MAX_VALUE_LEN]`
and `DicVars` are written without a bound, `LogStore_API.cpp` 300-325 and 413-437); a list
with an overlong line may crash too.  `ReadMeta` loads the outliers of a variable with
their line and may write out of bounds by what nobody stored.  `BootOutliers` takes the
length of a buffer that no zero ends and writes `m_outliers[index]` without a bound
(200-226), so it may crash whenever there are unmatched lines, with no coffer failed.
`ReadNothing` is an archive that was left empty: nobody checks `fread`, so the lengths
that size the buffers are uninitialised (42, 85-102), and the store fails to open or
crashes.

### CompressPool

`Submit`, `Shutdown` and `Join` are the main thread (`threadsToExecTasks`); per thread,
`Take` (the executor, external), `Compress` (a turn of the loop of `procFiles`),
`Return` and the callback's `Acquire`/`AddTime`, or `Acquire`/`AddError` for a file
that failed.  `ReturnToMain` is `add_done_callback` for a batch that is done by the time
the main thread, which has just submitted it, gets there: the callback runs in the
main thread, which takes the lock like any other and submits nothing meanwhile; so
`Threads` are those of the pool and `MainThread`.  An update is a read under the lock and
a write that releases it.
`canReport`, chosen at the start, is the one difference between the drivers in this:
`quickTest.py` and `largeTest.py` report a failed file and count it;
`LogGrep-compression.py` formats its message with a name it does not define (line 79), so
the batch ends in an exception (`Raise`) before the error is counted, and
`Acquire`/`AddError` are reached in the other two only.  One call of
`threadsToExecTasks` is modelled; those two make one for each kind of log, one after the other.  What the compressor returns is a free choice.

### Dispatcher

`test` tells the two programs apart: the shipped `main` (`DoInvokeCmd_ForTest`:
connect, one query, exit) and the command loop (`DoInvokeCmd`), which the
repository contains but the shipped `main` does not enter.  `Connect` starts the
loop over a directory and `Load` is one turn of it; `Get` and `Begin` start
`SearchByWildcard_Seq`; `SearchStore`, `Materialization` (one template) and
`MaterializOutlier` are the parts of `SearchByWildcard_Token` that touch the budget;
`Release` is `LogDispatcher::DisConnect`.

- A store is its slot of `m_logStores` and the file `LoadGlbMetaHeader` opened; only
  whether a slot is NULL is kept (`live`).  Whether an archive loads is a constant
  of the directory (`BootLoader` is modelled in `Archive`), except that `fopen`
  fails when the process has `MaxOpen` files open.
- What a store finds is a free choice of `OutCounts` and `PatCounts`; `FULL` is a map
  of outliers with the sentinel, which `LogicQuery` reaches.
- `found`, `printed`, `anyFull` and `gone` are history: they guard nothing.
- `phase = "null"` and `phase = "overrun"` are the two undefined uses of `m_logStores`.
- The names of the whole machine (`DispatcherSpec`, `dispatcherVars`, ...) leave
  those of `LogicQuery` free: one module has the theorems about both.

## 3. Runs

| run | constants | states | shows |
|---|---|---|---|
| `bitmap` | 2 rows, 2 own maps, 1 exchange map | 293824 | `TypeOK`, `RepOK`, `OnlyFullOverruns`, `ImplementsRowSet` |
| `logic_query` | 2 templates x 2 rows, 2 outliers, 6 terms, about 90 queries, 3 cached results | 30183 | `TypeOK`, `AnswerExact`, `SessionsTrue`, `SafeDefined`, `Narrowing`, `Answered` |
| `or_union` | same store, three queries | - | `AnswerIsGrep` violated |
| `query_text` | 2 stores, some 180 texts, 2 asked, 13 arguments | 383836 | `TakenApart`, `CachedAsWritten`, `AbortsWithoutTerm` |
| `pattern_search` | 4 templates of 5 segments, 3 rows, 1 or 3 tokens | 73467 | `NothingLost`, `NothingInvented`, `OverrunsKnown` |
| `string_search` | columns of 3 short values, or of 2 values up to 5 characters; 9 strings | 12328 | `NothingMissed`, `NothingInvented`, `PushdownIsScan` |
| `string_repeats` | columns of one value, one string | - | `FoundByGrep` violated |
| `sub_patterns` | 4 of 10 values, 3 sampled, 60% | 392760 | `SplitAgrees`, `KeptExactly`, `FiltersAdmit`, `PrintedRight`, `SplitsShrink` |
| `template_parser` | logs of 4 of 15 lines, 50%, 2 variables to a template's names | 2457000 | `LinesKept`, `CutTheSame`, `SampledFits` |
| `archive` | 2 variables; no unmatched line, one, three in two coffers, or one too long; 2 failures | 2154537 | `Shifted`, `LoadedIsStored`, `OutliersKept`, `Opens` |
| `compress_pool` | 5 files, 2 threads and the main one, both kinds of driver | 220072 | `TypeOK`, `OnlyOnce`, `ErrorsCounted`, `SummaryComplete`, `Terminates` |
| `dispatcher` | 3 directories of up to 3 archives, 2 slots, 7 files, budget 3 | 44145 | `DispatcherTypeOK`, `AllPrinted`, `EveryArchive`, `SlotsDefined` |

Bounds.  Two rows suffice for every relation between a write and a read position
(before, at, after the end) and for full-by-count against full-by-sentinel;
three maps for an operation between two maps while a third must not change; the
proofs cover the rest.  In `logic_query` the terms cover text, sub-pattern (with and
without rows found earlier), values and outliers, the queries all pairs of a
first and a later segment and some triples; three cached results let a query
run after its own prefix, after a longer one, and after another query.
In `query_text` the texts are queries of one to three segments, with every joint and
two delimiters, and all sequences of up to three words that are operators or not:
a term can be missing at either end and between any two operators.  Two texts are
enough for a result cached by one to be taken by the other, whole or as a part; two
stores for arguments cut in between; 13 arguments are those of the longest query.
Five files on two threads give batches of two, two and one, so a thread takes a
second batch and the last is cut.
In `dispatcher` one directory has a damaged archive between two that load, one has
nothing that loads and one has more archives than slots; seven files are used up
by the third connect; the counts around the budget of three give a store that
exhausts it by outliers alone, by templates, by both, and one that finds it
already negative.

In `pattern_search` three tokens lie on a template in two ways and share a variable,
so a second place begins with the maps of the first; three rows let a result be
empty, partial or full apart from the outlier.  In `string_search` a row of five
characters is long enough for a string of three to be met by a jump of every
length, a string of five for all ways an inner suffix may recur, and three rows
for an `Index` that does not ascend.  Three sampled values in `sub_patterns`, two of
which are most of them, let one be an outlier of a split; values of five characters are
split twice.  In `template_parser` a log of four lines has a template merged twice,
two templates of one length, and lines that were not sampled; threshold and
number of variables are lowered with the lengths.  In `archive` two failures are
enough for a coffer between them and one behind both.

`CHECK_DEADLOCK FALSE`: `QueryText` ends after `MaxAsked` queries, or aborts; `BitMap` and
`LogicQuery` stop where C++ promises nothing
more, `CompressPool` when the driver ends, `Dispatcher` on exit and on undefined
behaviour, `PatternSearch`, `SubPatterns` and `TemplateParser` when the search or the log
is at its end, `Archive` when a store does not open, `StringSearch` when an empty
bitmap leaves nothing to go on with.

Fairness.  `LogicQuery`: weak fairness of the store's steps; it is one thread whose
loops are bounded.  Nothing is assumed of users.  `CompressPool`: weak fairness of the main
thread and of each thread of the pool, which the operating system provides;
nothing is assumed of who gets the lock, since it is taken finitely often.

Deviations found (details and quotations in `PROJECT.json`): the or-union that
writes at `Index[-99]`, and the string with two borders that Boyer-Moore jumps over.
Others are stated as exceptions in the properties, at the place named: the term
of a sub-pattern after an "and", the leading "not", the star, and the term of several
tokens whose own search merges into a full map (`Safe` in `LogicQuery`, `OverrunsKnown` in
`PatternSearch`); the result of `a*b` cached as that of `a` (`Trusted`); the word `a*b` that
the outliers and every further store know only as `a` (`spoilt` in `QueryText`; the
comment at `LogStore_API.cpp` 2545 says it is split into both), what the empty text
names (`Begun`), the abort of a query with a term missing (`MissesTerm`), and
`GetCmdArgs`, which returns how many arguments were typed and not, as
`CmdDefine.h` 173 has it, the length of the array it fills (`Overrun`); the value that is
cut when its sub-pattern ends in a part of fixed length (`KeptExactly`);
outliers dropped or kept unread (`lost`, `extra` in `PatternSearch`); the tab, the
blank line and the word `<V0>` (`TemplateParser`); outliers printed over constants
(`PrintedRight`); offsets behind a coffer that did not compress, unmatched lines
in more than one coffer, and the crashes of a store that opens an archive with unmatched
lines, or an overlong, empty or displaced list (`MayCrash` in `Archive`); the query after a disconnect that uses a NULL
store (`SlotsDefined`); the error that `LogGrep-compression.py` does not count
(`canReport`).

## 4. Proofs

`BitMapProofs` proves, for every number of rows, every set of maps and every
sentinel below -1:

- `TypeCorrect`: `Spec => []TypeOK`;
- `RepCorrect`: `Spec => []RepOK`;
- `Overruns`: `Spec => OnlyFullOverruns`;
- `Refinement`: `Spec => ImplementsRowSet`.

Assumptions: `MapAssumption` only (a template has a row; the sentinel is below -1,
since an overrun leaves `Size` at the sentinel plus one and it must not be taken
for a count).

The argument.  `RepOK` speaks of idle states, so it is not inductive.  `IInv` adds,
for each loop, what has been written, what will still be read and what has been
dropped: during a union, the entries written are distinct and the target's are
untouched (`UnionInv`); during a filter, the write position is at most the read
position, the entries before the one and from the other on are distinct, and the
bits are theirs together (`FilterInv`); during a reverse, the entries written are
the rows below `i` whose bit was clear (`ReverseInv`).  That a row whose bit is
clear finds a free cell in `Index` is a pigeonhole fact (`Room`): distinct entries
below `NRows` that miss one row are fewer than `NRows`.  One lemma per action
shows `IInv` is kept (`StepIInv`); a second layer shows that each action is a step or
a stutter of `RowSet` under the mapping `Rows`: an operation with a loop takes
effect at its first step (`AtOnce`, `StartsLoop`, `LoopRefines`).

`CompressPoolProofs` proves, for every number of files, of files per batch and of
threads that `PoolAssumption` allows:

- `TypeCorrect`: `Spec => []TypeOK`;
- `EachFileOnce`: `Spec => []OnlyOnce`;
- `NoErrorLost`: `Spec => []ErrorsCounted`;
- `Summary`: `Spec => []SummaryComplete`.

The last two speak of the drivers that can report an error (`canReport`, which no
step changes).  The threads are those of the pool and the main one, `MaxThreads + 1`.

The argument.  `BatchInv` is inductive and carries the first two: no batch reaches
past `begin`, the first file not yet handed out, so a new batch is disjoint from
every batch queued, held or done.  `ErrorsCounted` rests on `Held`: while a thread is
between its read and its write it has the lock, and the count is still what it
read; a failed file is then either counted or in a thread that has yet to write,
never both.  `SummaryComplete` rests on `SummaryInv`: nothing has raised; every
file below `begin` was tried or is still in the queue or in a thread; and the batches
counted, those in threads and those queued add up to the batches cut.  When the
main thread leaves `Join` the queue is empty and no thread runs, which makes the
first set empty and the sum equal to the count that is printed.

`ArchiveProofs` proves, for every number of variables, all lengths of lines and of
coffers, and however many coffers fail to compress (`ArchiveAssumption`):

- `TypeCorrect`: `Spec => []TypeOK`;
- `OffsetsShifted`: `Spec => []Shifted`;
- `LoadsAreStored`: `Spec => []LoadedIsStored`;
- `StoreOpens`: `Spec => []Opens`;
- `LinesOfLastCoffer`: `Spec => []OutliersKept`.

The argument.  `Shifted` says nothing of coffers still to be written.  `Offsets` says
what the encoder believes: each offset is the one before plus what `Compress`
counted for that coffer.  `Positions` compares it with the file while it is written:
the end of the file is the offset of the next coffer plus four bytes for each
failed one, and no coffer with data is left out.  `Table` says that the store has,
for each name, the last line read of that name, and data only if a load found it
there; with `Shifted`, a coffer with no failure before it is where a load looks.
`Present` (every archive has templates, outliers and variables) survives `Compress`
because sorting permutes the coffers; `Blocks` says that a coffer of outliers with no
other beside it holds all the lines.

What the last two say.  `StoreOpens`: a store fails to open only if the archive was left
empty or a coffer before one of the lists or the unmatched lines failed to compress; it
crashes only for one of these reasons, or a coffer before the outliers of a variable
failed, or a list is empty or has an overlong line, or there are unmatched lines.  So
a failed or missing coffer anywhere else, columns and dictionaries among them, never
keeps a store from opening.  `LinesOfLastCoffer`: what a store that opened has of the
unmatched lines is all of them, or, when they are in several coffers, exactly those of
the coffer whose line comes last in the metadata (`first` and `lines`), unless that
coffer is displaced.

`LogicQueryProofs` proves, for every store, all terms, wherever they occur, and all
queries, finitely many or not (`QueryAssumption`):

- `TypeCorrect`: `Spec => []TypeOK`;
- `Narrows`: `Spec => []Narrowing`;
- `AnswersExact`: `Spec => []AnswerExact`;
- `SessionsStayTrue`: `Spec => []SessionsTrue`;
- `SafeIsDefined`: `Spec => []SafeDefined`.

The argument has layers, each inductive given those before.  `TypeInv`: maps are
maps, and none that is cached is absent.  `Names`: strtok has changed only segments
already searched that have a term `a*b`, and `key` is the text of the query when the
segment began, so a text without such terms is cached under itself.  `Flow`: while
the second term of an or-list is searched, `temps` has what the search of the first
would give, or nothing where the rows left are none.  `NarrowInv` adds to
`Narrowing` that, as long as nothing was cut, the maps in hand are those cached for
the segments done (`Chain`).  `RightInv` has the last three properties and
`RunRight`: what the segments done have left is what they mean.  The rows a last
term (`LastRight`), a sole term (`TokenRight`) and an excluded term (`NotRight`)
select are computed from the cases of `Norm` and `Not`; that the search of a safe term
is defined at all is where `overrun` is needed, that a safe or-list never
merges into a full map (`LastDefined`) is where `Clash` is needed, that a search
within some rows is complete where the condition on sub-patterns (`Flat`) is, and
that a cached text is the query's own (`HitRight`) where the absence of `a*b` is.

Of the stores a query is handed to, `LogicQueryProofs` proves, for all constants
`DispatcherAssumption` allows:

- `DispatcherTypeCorrect`: `DispatcherSpec => []DispatcherTypeOK`;
- `BudgetSpent`: `DispatcherSpec => []AllPrinted`;
- `SlotsSafe`: `DispatcherSpec => []SlotsDefined`;
- `NoneSkipped`: `DispatcherSpec => []EveryArchive`.

The argument.  `AllPrinted` speaks of the moments between two stores; `PrintInv`
adds what holds within one: its outliers are off the budget (`matnum >= out`) but
not printed, and what was found exceeds what was printed only if its share is
used up.  Between stores, what is left of the budget and what was printed add up
to it, or it is negative and all of it was printed.  `SlotInv` compares the stores
counted with `Tried`, the archives of the directory tried so far that can be
loaded: equal while files can be opened, never more.

`PatternSearchProofs` proves, for every number of rows, all templates and tokens, however
many ways a token can lie in a sub-pattern, and whatever earlier searches left in
the exchange maps (`PatternAssumption`):

- `LosesNone`: `Spec => []NothingLost`;
- `InventsNone`: `Spec => []NothingInvented`;
- `OverrunsAreKnown`: `Spec => []OverrunsKnown`;
- `Exact`: `Spec => []ExactButOutliers`, and `WithinRef`: `Spec => []FoundWithinRef`, which
  say what a caller may rely on without looking at `lost` and `extra`: outside
  `refBitmap` every row but an outlier of a sub-pattern is decided rightly, every row is
  where no variable of the template is kept as sub-patterns, and a search within
  `refBitmap` never leaves it.

The argument.  The properties speak of the result, and the result is made of the
exchange maps.  `Narrowed` says that the first exchange map has what the tokens
searched so far have (`here`), up to the rows recorded as lost or kept wrongly; before the
first variable it is empty within `refBitmap`, and what it stands for is `refBitmap`.
`Gathered` says the same of the second map and of the alternatives tried so far in one
sub-pattern.  `FullMaps` says which maps may be full, which is what makes each
merge defined but the two that `OverrunsKnown` names.  The lemmas about `PushAll` and
`RefPushAll` say which rows are left when the columns of an alternative are searched
one in the rows of the other: those that have all the strings (`HaveAll`).

`StringSearchProofs` proves, for all columns of values without a blank, all strings
without one, and every width of rows that no value exceeds (`ColumnAssumption`):

- `BMOnceIs`: what `BM_Once` finds is there, and it finds a string with at most one
  border wherever there is one; `FirstIs`: `KMP` returns the first place of a string,
  with the table of `InitKmpNext`;
- `MapsAreRows`: `Spec => []Inv`: both bitmaps list rows of the column, none twice;
- `NoRowIsMissed`: `Spec => []NothingMissed`;
- `NoRowIsInvented`: `Spec => []NothingInvented`;
- `PushdownAgreesWithScan`: `Spec => []PushdownIsScan`.

The argument.  A recursive function of the model is a `CHOOSE`; that a function with
its equation exists is shown by a measure that falls in every call (`DescentExists`):
the characters left of the text for Boyer-Moore, the characters left and then the
length of the border for Knuth-Morris-Pratt.  Boyer-Moore: no occurrence ends between
where a comparison fails and where the jump leads (`JumpIs`), because such a place
would be a border of the string, a later place of the suffix after another character
(`GoodSIs`), or a later place of the character read (`BadCIs`); with two borders the
table takes the wrong one.  Knuth-Morris-Pratt: `TableStep` keeps `next` at the longest
border that the next character does not rule out (`StepIs`, `TableIs`), and where the
search stands, the string agrees with the text read up to there and no match begins
before it.
A row of the text is its value after blanks (`PadRowIs`), so ends of rows are ends of
values (`EndsIs`); the jumps over padding end within a value that is not shorter than
the string, and at its beginning if it begins with the string (`SkipIs`, `LeftIs`).
The loops of the three calls then keep what is distinct distinct and list what they
say (`ScanIs`, `PushdownIs`, `RefIs`), also when `Index` is gone through in step with
the column (`InStepIs`).

`TemplateParserProofs` proves, for every log, whichever lines are sampled, and for every
threshold and number of variables (`ParserAssumption`):

- `CutsTheSame`: `Spec => []CutTheSame`;
- `SampledStayFit`: `Spec => []SampledFits`;
- `KeepsLines`: `Spec => []LinesKept`.

Assumed of the logs, beside that they are lines of tokens: no token of a line is the
value `Var` that stands for a variable in a template, which is not text.

The argument.  `Numbered` says that every variable of a template has a number; that
merging keeps `CutTheSame` needs that it turns a delimiter into a variable only if it
is the tab.  `SampledHeld` says of each sampled line that it is, token by token, a
variable of its template, equal, or the beginning of a longer word: `SampledFits`
without the cases that later merges may change.  `Matched` says that a line has a
template it fits, and `Filled` that the column of a variable has its values, one for
each line of the template and in order, when no other template has columns of the
same names (`OwnNames`).  From these, `LinesKept` follows token by token: what `Loaded`
reads is the template that was stored, and the number of a variable in the order of
the tokens is the number its column was filled under.

`SubPatternsProofs` proves, for all columns of values, samples, thresholds from 50 to 99
(`SubPatternsAssumption`; the program has 90) and any choice of pivots:

- `FiltersRight`: `Spec => []FiltersAdmit`;
- `KeepsExactly`: `Spec => []KeptExactly`;
- `PrintsRight`: `Spec => []PrintedRight`;
- `SplittingAgrees`: `Spec => []SplitAgrees`;
- `SplitsGetSmaller`: `Spec => SplitsShrink`, so the splitting of a column ends.

The argument.  `ClosedRight` says what a part that was closed is of the sampled values
it was made from.  `Joined` relates parts side by side: one of the two is a string that
was split at (`Same`), and in a value the text before it does not run into an earlier
place of it (`EndsFirst`), because the splitting takes the first match.  It has to be
shown of every way a part is replaced, the empty one included
(`MeetInPlace`, `ReplacedMeet`), and it is why extraction, which scans a value for the
constants that follow, finds the places at which the sample was split:
`SplitAgrees` is then an induction along the parts (`VariableAgrees`, `EndsAgree`).  `Extracted` says that the cells of each row are its pieces, and that
classes and lengths admit them; those only grow, by values that are not kept too.
`PrintsRight` adds an induction along the parts over what has been printed.
`SplitsShrink` compares sums of lengths over the rows of a part: the two ends of a
split lose in every row the string it is split at, the string itself is shorter than
the text of some row, and a sum over a finite set of which no term grows and one
shrinks is less.

Induction.  The induction theorems of the library take a predicate, which the
installed provers cannot instantiate.  The proofs about `TemplateParser`, `SubPatterns`
and `StringSearch` use instead that a set of numbers has a least one, a fact about
sets (`LeastNumber`), and so need recursion in the models to be recursive functions.

Only model-checked: `QueryText`, whose loops over texts (`strtok`, the scan for
operators) are not proved correct.
Liveness (`Answered`, `Terminates`) is what TLAPS does not do.

## 5. What is not modelled

- The LZMA SDK (`compression/LZMA`) is 26 thousand of the 38 thousand lines
  under `src/`.  It is third-party code, most of it is not built, and what is built
  runs in one thread (`_7ZIP_ST`).  For this system it is a function that
  compresses a buffer or fails, and that is what `Archive` has.
- The benchmark scripts of other systems, and the wording of what is printed.
- The parameter tree and the commands the shipped main does not read.
- Dictionaries: the entries, their hashes (`union.cpp` 27) and `Materializ_Dic`.  A
  search in a dictionary is a search in a column in `PatternSearch`.
- The statistics, in the dispatcher, the stores and the parser.
- The variants of searches behind compile-time switches that are off, and those
  without a caller (`SearchInVar_AxB_Union` and the like).  `QueryByBM_Union_RefRange` has
  one, `GetDicIndexs` (`LogStore_API.cpp` 1220): it is the scan of a dictionary.
- The sizes of the buffers that arguments, and the texts put together from them,
  are copied to, and of the fixed arrays of tokens and segments, but where a module
  names them (`MaxArgs`, `Overlong`): other texts are taken to fit.
- Functions that are declared to return a value and end without a return statement
  (`LogStore_API.cpp` 198, 971, 1779, 1893, 2540; `LogDispatcher.cpp` 148-189; `LogStructure.h` 139,
  165, 616).  They are modelled as returning to their callers, none of which acts on the
  value, as the compiler the repository names (gcc 4.8.5, `README.md` 36) has it; a newer one
  may let them run on at `-O2` (`cmdline_loggrep/Makefile` 13).
- What lies in memory behind the text of a coffer, elsewhere than in `Archive` and
  `Garbage` of `StringSearch`: the searches of `StringSearch` find the text ended where
  it ends.
- An empty archive in whose place a store finds, in memory it did not write, the
  metadata of another: `ReadNothing` never opens.

