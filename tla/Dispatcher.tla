----------------------------- MODULE Dispatcher -----------------------------
(***************************************************************************)
(* The dispatcher of cmdline_loggrep (LogDispatcher.cpp): it opens a store *)
(* for each archive of a directory, hands a query to one store after the   *)
(* other, and gives each what the stores before it have left of the budget *)
(* of printed rows.  A store prints the rows of its templates and then its *)
(* outlier lines, but takes the outliers off the budget first              *)
(* (LogStore_API.cpp, SearchByWildcard_Token).  CmdInvoker.cpp decides     *)
(* which commands reach the dispatcher: the shipped main connects, asks    *)
(* one query and exits (DoInvokeCmd_ForTest); the command loop             *)
(* (DoInvokeCmd) takes commands in any order.                              *)
(*                                                                         *)
(* What a store finds is a free choice: LogicQuery models it.  A store is  *)
(* its slot of m_logStores, and the file it keeps open from BootLoader to  *)
(* DisConnect.  Using a slot that is NULL, or one past the array, is       *)
(* undefined behaviour: the machine stops.                                 *)
(***************************************************************************)
EXTENDS Integers, Sequences, FiniteSets

CONSTANTS Dirs,      \* the directories the user may name
          Archives,  \* Archives[d]: per entry of d, whether BootLoader loads it
          MaxFiles,  \* MAX_FILE_CNT, the length of m_logStores
          MaxOpen,   \* how many files the process may have open
          MaxMat,    \* MAX_MATERIAL_SIZE
          FULL,      \* DEF_BITMAP_FULL, the count of a full map of outliers
          OutCounts, \* how many outlier lines a store may find
          PatCounts  \* how many rows it may find in each of its templates

ASSUME DispatcherAssumption ==
  /\ Archives \in [Dirs -> Seq(BOOLEAN)]
  /\ MaxFiles \in Nat /\ MaxOpen \in Nat /\ MaxMat \in Nat
  /\ FULL \in Int /\ FULL < 0
  /\ OutCounts \subseteq Nat
  /\ PatCounts \subseteq Seq(Nat)

VARIABLES phase,  \* "idle", "load", "search", "print", "done", "exited", "null", "overrun"
          dir,    \* the directory of the last Connect
          next,   \* its entry to be read next
          test,   \* the program is the shipped main, not the command loop
          handle, \* m_nServerHandle
          count,  \* m_fileCnt
          live,   \* the slots of m_logStores that are not NULL
          opened, \* the files the process has open
          gone,   \* no Connect has reached a directory since the last DisConnect
          itor, total,       \* SearchByWildcard_Seq: the store, totalMatNum
          out, pats, matnum, \* the store: what it found, and its own matnum
          found, printed,    \* by all stores, for this query
          anyFull            \* a store's map of outliers was full

conn   == <<dir, next, test, handle, count, live, opened, gone>>
search == <<itor, total, out, pats, matnum, found, printed, anyFull>>
dispatcherVars == <<phase, conn, search>>

DispatcherInit ==
  /\ phase = "idle"
  /\ dir \in Dirs /\ next = 1 /\ test \in BOOLEAN
  /\ handle = 0 /\ count = 0 /\ live = {} /\ opened = 0 /\ gone = TRUE
  /\ itor = 0 /\ total = MaxMat
  /\ out = 0 /\ pats = <<>> /\ matnum = 0
  /\ found = 0 /\ printed = 0 /\ anyFull = FALSE

Least(a, b) == IF a <= b THEN a ELSE b
-----------------------------------------------------------------------------
(* SearchByWildcard_Seq, up to its loop                                    *)
Begin == /\ itor' = 0 /\ total' = MaxMat
         /\ found' = 0 /\ printed' = 0 /\ anyFull' = FALSE
         /\ phase' = "search"
         /\ UNCHANGED <<out, pats, matnum>>

(* Mutant: m_fileCnt is not reset.                                         *)
ConnectAgain(d) == /\ phase = "idle"
                   /\ dir' = d /\ next' = 1 /\ gone' = FALSE
                   /\ phase' = "load"
                   /\ UNCHANGED <<count, test, handle, live, opened, search>>

(* Connect, up to its loop                                                 *)
Connect(d) == /\ phase = "idle"
              /\ dir' = d /\ next' = 1 /\ count' = 0 /\ gone' = FALSE
              /\ phase' = "load"
              /\ UNCHANGED <<test, handle, live, opened, search>>

(* opendir fails: Connect returns, and nobody looks at what it returned.   *)
NoDir == /\ phase = "idle"
         /\ IF test THEN Begin ELSE UNCHANGED <<phase, search>>
         /\ UNCHANGED conn

(* Mutant: m_logStores[++m_fileCnt]                                        *)
LoadAfter ==
  /\ phase = "load" /\ next <= Len(Archives[dir])
  /\ next' = next + 1
  /\ opened' = Least(opened + 1, MaxOpen)
  /\ IF opened < MaxOpen /\ Archives[dir][next]
     THEN IF count = MaxFiles
          THEN phase' = "overrun" /\ UNCHANGED <<handle, live, count>>
          ELSE /\ handle' = 1 /\ live' = live \union {count + 1}
               /\ count' = count + 1 /\ UNCHANGED phase
     ELSE UNCHANGED <<phase, handle, live, count>>
  /\ UNCHANGED <<dir, test, gone, search>>

(* One turn of the loop of Connect.  An archive that fopen opened stays    *)
(* open, loaded or not.                                                    *)
Load ==
  /\ phase = "load" /\ next <= Len(Archives[dir])
  /\ next' = next + 1
  /\ opened' = Least(opened + 1, MaxOpen)
  /\ IF opened < MaxOpen /\ Archives[dir][next]
     THEN IF count = MaxFiles
          THEN phase' = "overrun" /\ UNCHANGED <<handle, live, count>>
          ELSE /\ handle' = 1 /\ live' = live \union {count}
               /\ count' = count + 1 /\ UNCHANGED phase
     ELSE UNCHANGED <<phase, handle, live, count>>
  /\ UNCHANGED <<dir, test, gone, search>>

Loaded == /\ phase = "load" /\ next > Len(Archives[dir])
          /\ IF test THEN Begin ELSE phase' = "idle" /\ UNCHANGED search
          /\ UNCHANGED conn
-----------------------------------------------------------------------------
(* "get all -l ...", with the guard of DoInvokeCmd                         *)
Get == phase = "idle" /\ ~test /\ handle = 1 /\ Begin /\ UNCHANGED conn

(* The next store searches.                                                *)
SearchStore ==
  /\ phase = "search" /\ itor < count
  /\ IF itor \notin live
     THEN phase' = "null" /\ UNCHANGED search
     ELSE \E o \in OutCounts \union {FULL}, c \in PatCounts :
            /\ out' = o /\ pats' = c /\ matnum' = o
            /\ anyFull' = (anyFull \/ o = FULL)
            /\ found' = found + (IF o = FULL THEN 0 ELSE o)
            /\ phase' = "print"
            /\ UNCHANGED <<itor, total, printed>>
  /\ UNCHANGED conn

(* Mutant: Materialization(..., matNum).                                   *)
RowsAll(n) == IF total - matnum > 0 THEN Least(n, total) ELSE 0

(* How many of the n rows of a template, and of the outlier lines, are     *)
(* printed                                                                 *)
RowsPrinted(n) == IF total - matnum > 0 THEN Least(n, total - matnum) ELSE 0

Lines == IF Least(total, out) > 0 THEN Least(total, out) ELSE 0

Materialization ==
  /\ phase = "print" /\ pats # <<>>
  /\ matnum' = matnum + RowsPrinted(Head(pats))
  /\ printed' = printed + RowsPrinted(Head(pats))
  /\ found' = found + Head(pats)
  /\ pats' = Tail(pats)
  /\ UNCHANGED <<phase, conn, itor, total, out, anyFull>>

(* The outliers, and the return to the dispatcher                          *)
MaterializOutlier ==
  /\ phase = "print" /\ pats = <<>>
  /\ printed' = printed + Lines
  /\ total' = total - matnum
  /\ itor' = itor + 1
  /\ phase' = "search"
  /\ UNCHANGED <<conn, out, pats, matnum, found, anyFull>>

Searched == /\ phase = "search" /\ itor >= count
            /\ phase' = IF test THEN "done" ELSE "idle"
            /\ UNCHANGED <<conn, search>>
-----------------------------------------------------------------------------
Slots == live \intersect 0 .. count - 1

(* Mutant: the slots are not compared with NULL.                           *)
ReleaseUnchecked == /\ live' = live \ Slots
                    /\ opened' = opened - count
                    /\ gone' = TRUE
                    /\ UNCHANGED <<dir, next, test, handle, count, search>>

(* LogDispatcher::DisConnect: m_nServerHandle and m_fileCnt keep theirs.   *)
Release == /\ live' = live \ Slots
           /\ opened' = opened - Cardinality(Slots)
           /\ gone' = TRUE
           /\ UNCHANGED <<dir, next, test, handle, count, search>>

DisConnect == phase = "idle" /\ ~test /\ handle = 1 /\ Release /\ UNCHANGED phase

(* The command "exit", or ~LogDispatcher when the shipped main is done     *)
Exit == /\ phase = IF test THEN "done" ELSE "idle"
        /\ Release /\ phase' = "exited"

DispatcherNext ==
  \/ \E d \in Dirs : Connect(d)
  \/ NoDir \/ Load \/ Loaded
  \/ Get \/ SearchStore \/ Materialization \/ MaterializOutlier \/ Searched
  \/ DisConnect \/ Exit

DispatcherSpec == DispatcherInit /\ [][DispatcherNext]_dispatcherVars
-----------------------------------------------------------------------------
(* Whatever commands come, the slots in use are in the array and each has  *)
(* a file open, so DisConnect never closes more than there are.            *)
DispatcherTypeOK ==
  /\ phase \in {"idle", "load", "search", "print", "done", "exited", "null", "overrun"}
  /\ dir \in Dirs /\ next \in 1 .. Len(Archives[dir]) + 1
  /\ test \in BOOLEAN /\ gone \in BOOLEAN /\ anyFull \in BOOLEAN
  /\ handle \in {0, 1} /\ count \in 0 .. MaxFiles
  /\ live \subseteq 0 .. MaxFiles - 1
  /\ opened \in Cardinality(live) .. MaxOpen
  /\ itor \in 0 .. MaxFiles /\ (phase = "print" => itor < count)
  /\ total \in Int /\ matnum \in Int
  /\ out \in Nat \union {FULL} /\ pats \in Seq(Nat)
  /\ found \in Nat /\ printed \in Nat

(* A query prints everything that was found, or as much of it as the       *)
(* budget allows (SearchByWildcard_Seq and SearchByWildcard_Token), after  *)
(* each store as at the end, however the rows are spread over stores,      *)
(* templates and outliers.  A full map of outliers counts as -99 and is    *)
(* left out.                                                               *)
AllPrinted == phase \in {"search", "idle", "done"} /\ ~anyFull => printed = Least(found, MaxMat)

(* A query is handed to every archive of the directory that can be loaded, *)
(* unless the process has run out of files it may open: the slots below    *)
(* m_fileCnt are the archives of this directory and of no earlier one.     *)
Readable == {k \in DOMAIN Archives[dir] : Archives[dir][k]}

EveryArchive == phase \in {"idle", "search", "print", "done"} /\ ~gone /\ opened < MaxOpen =>
                  count = Cardinality(Readable) /\ 0 .. count - 1 \subseteq live

(* No command uses a slot that is NULL unless a DisConnect came after the  *)
(* last Connect, and the array is overrun only by a directory of more than *)
(* MAX_FILE_CNT archives (m_logStores[itor], LogDispatcher.cpp).           *)
SlotsDefined == /\ phase = "null" => gone
                /\ phase = "overrun" => Cardinality(Readable) > MaxFiles
=============================================================================
