---------------------------- MODULE CompressPool ----------------------------
(***************************************************************************)
(* The compression drivers of compression/: the files of a directory are   *)
(* cut into batches, a pool of threads runs the compressor on each file of *)
(* a batch, and a callback adds the time of the batch to a total.  Counts  *)
(* are updated under one lock, in a read and a write.                      *)
(*                                                                         *)
(* The three drivers differ in one name.  In LogGrep-compression.py the    *)
(* message about a failed file uses filename, which is not defined there   *)
(* (canReport = FALSE): the exception ends the batch, and raises again in  *)
(* the callback, where the executor drops it.                              *)
(***************************************************************************)
EXTENDS Integers, Sequences, FiniteSets

CONSTANTS NFiles,     \* len(file_list)
          MaxThreads, \* maxThreadNum
          Threads,    \* the main thread and those of the pool
          MainThread,
          NoOne       \* the holder of a free lock

ASSUME PoolAssumption == /\ NFiles \in Nat
                         /\ MaxThreads \in Nat \ {0}
                         /\ IsFiniteSet(Threads) /\ Cardinality(Threads) = MaxThreads + 1
                         /\ MainThread \in Threads /\ NoOne \notin Threads

File  == 0 .. NFiles - 1
Batch == [first : File, last : File]

VARIABLES canReport, \* whether filename is a parameter of procFiles: the driver that runs
          main,    \* "submit", "wait" (for the pool to shut down) or "done"
          begin,   \* curFileNumBegin
          queue,   \* the batches no thread has taken
          pc, i, end, \* per thread: where it is, the file and fileEndNo
          read,    \* per thread: the count it has read
          lock,    \* the thread that holds the lock
          result,  \* per file: what became of it
          errors,  \* gl_errorNum
          time     \* gl_threadTotTime, one unit per batch

vars == <<canReport, main, begin, queue, pc, i, end, read, lock, result, errors, time>>

Init == /\ canReport \in BOOLEAN
        /\ main = "submit" /\ begin = 0 /\ queue = <<>>
        /\ pc = [w \in Threads |-> "idle"]
        /\ i = [w \in Threads |-> 0] /\ end = [w \in Threads |-> 0]
        /\ read = [w \in Threads |-> 0]
        /\ lock = NoOne
        /\ result = [f \in File |-> "none"]
        /\ errors = 0 /\ time = 0
-----------------------------------------------------------------------------
(* threadsToExecTasks, with maxSingleThreadProcFilesNum = 0                *)
Step == IF NFiles \div MaxThreads = 0 THEN 1 ELSE NFiles \div MaxThreads

(* Mutant: the last batch is not cut to the length of the list.            *)
EndOfUncut(b) == b + Step - 1

EndOf(b) == IF b + Step > NFiles THEN NFiles - 1 ELSE b + Step - 1

(* Mutant: the next batch begins where this one ends.                      *)
SubmitOverlapping ==
  /\ main = "submit" /\ begin < NFiles /\ pc[MainThread] = "idle"
  /\ queue' = Append(queue, [first |-> begin, last |-> EndOf(begin)])
  /\ begin' = EndOf(begin)
  /\ UNCHANGED <<canReport, main, pc, i, end, read, lock, result, errors, time>>

Submit == /\ main = "submit" /\ begin < NFiles /\ pc[MainThread] = "idle"
          /\ queue' = Append(queue, [first |-> begin, last |-> EndOf(begin)])
          /\ begin' = EndOf(begin) + 1
          /\ UNCHANGED <<canReport, main, pc, i, end, read, lock, result, errors, time>>

Shutdown == /\ main = "submit" /\ begin >= NFiles /\ pc[MainThread] = "idle"
            /\ main' = "wait"
            /\ UNCHANGED <<canReport, begin, queue, pc, i, end, read, lock, result, errors, time>>

Join == /\ main = "wait" /\ queue = <<>>
        /\ \A w \in Threads : pc[w] = "idle"
        /\ main' = "done"
        /\ UNCHANGED <<canReport, begin, queue, pc, i, end, read, lock, result, errors, time>>
-----------------------------------------------------------------------------
Goto(w, label) == pc' = [pc EXCEPT ![w] = label]

Take(w) == /\ w # MainThread /\ pc[w] = "idle" /\ queue # <<>>
           /\ i' = [i EXCEPT ![w] = Head(queue).first]
           /\ end' = [end EXCEPT ![w] = Head(queue).last]
           /\ queue' = Tail(queue)
           /\ Goto(w, "file")
           /\ UNCHANGED <<canReport, main, begin, read, lock, result, errors, time>>

(* One turn of the loop of procFiles, up to the report of a failure        *)
Compress(w) ==
  /\ pc[w] = "file" /\ i[w] <= end[w]
  /\ \E r \in {"missing", "ok", "failed"} :
       /\ result' = [result EXCEPT ![i[w]] = r]
       /\ IF r = "failed"
          THEN Goto(w, IF canReport THEN "lock error" ELSE "raise") /\ UNCHANGED i
          ELSE i' = [i EXCEPT ![w] = @ + 1] /\ UNCHANGED pc
  /\ UNCHANGED <<canReport, main, begin, queue, end, read, lock, errors, time>>

(* Mutant: range(fileBeginNo, fileEndNo)                                   *)
ReturnEarly(w) == /\ pc[w] = "file" /\ i[w] >= end[w]
                  /\ Goto(w, "lock time")
                  /\ UNCHANGED <<canReport, main, begin, queue, i, end, read, lock, result, errors, time>>

(* procFiles returns; the thread that ran it calls procFiles_result.       *)
Return(w) == /\ pc[w] = "file" /\ i[w] > end[w]
             /\ Goto(w, "lock time")
             /\ UNCHANGED <<canReport, main, begin, queue, i, end, read, lock, result, errors, time>>

(* add_done_callback finds the batch done already: the main thread, which  *)
(* has just submitted it, calls procFiles_result itself.                   *)
ReturnToMain(w) ==
  /\ pc[w] = "file" /\ i[w] > end[w]
  /\ main = "submit" /\ pc[MainThread] = "idle" /\ end[w] = begin - 1
  /\ pc' = [pc EXCEPT ![w] = "idle", ![MainThread] = "lock time"]
  /\ UNCHANGED <<canReport, main, begin, queue, i, end, read, lock, result, errors, time>>

Raise(w) == /\ pc[w] = "raise"
            /\ Goto(w, "idle")
            /\ UNCHANGED <<canReport, main, begin, queue, i, end, read, lock, result, errors, time>>

(* Mutant: lock.acquire() is missing.                                      *)
AcquireNothing(w) ==
  /\ \/ pc[w] = "lock error" /\ Goto(w, "add error") /\ read' = [read EXCEPT ![w] = errors]
     \/ pc[w] = "lock time" /\ Goto(w, "add time") /\ read' = [read EXCEPT ![w] = time]
  /\ UNCHANGED <<canReport, main, begin, queue, i, end, lock, result, errors, time>>

(* atomic_addErrnum and atomic_addTime: take the lock and read the count   *)
Acquire(w) ==
  /\ lock \in {NoOne, w}
  /\ lock' = w
  /\ \/ pc[w] = "lock error" /\ Goto(w, "add error") /\ read' = [read EXCEPT ![w] = errors]
     \/ pc[w] = "lock time" /\ Goto(w, "add time") /\ read' = [read EXCEPT ![w] = time]
  /\ UNCHANGED <<canReport, main, begin, queue, i, end, result, errors, time>>

(* ... then write the sum and release it.                                  *)
AddError(w) == /\ pc[w] = "add error"
               /\ errors' = read[w] + 1
               /\ lock' = NoOne
               /\ i' = [i EXCEPT ![w] = @ + 1]
               /\ Goto(w, "file")
               /\ UNCHANGED <<canReport, main, begin, queue, end, read, result, time>>

(* Mutant: lock.release() is missing.                                      *)
AddTimeHolding(w) == /\ pc[w] = "add time"
                     /\ time' = read[w] + 1
                     /\ Goto(w, "idle")
                     /\ UNCHANGED <<canReport, main, begin, queue, i, end, read, lock, result, errors>>

AddTime(w) == /\ pc[w] = "add time"
              /\ time' = read[w] + 1
              /\ lock' = NoOne
              /\ Goto(w, "idle")
              /\ UNCHANGED <<canReport, main, begin, queue, i, end, read, result, errors>>

Work(w) == \/ Take(w) \/ Compress(w) \/ Return(w) \/ ReturnToMain(w) \/ Raise(w)
           \/ Acquire(w) \/ AddError(w) \/ AddTime(w)

Main == Submit \/ Shutdown \/ Join

Next == Main \/ \E w \in Threads : Work(w)

(* The operating system runs every thread.  Nothing is assumed of who gets *)
(* the lock: it is taken finitely often.                                   *)
Spec == /\ Init /\ [][Next]_vars
        /\ WF_vars(Main)
        /\ \A w \in Threads : WF_vars(Work(w))
-----------------------------------------------------------------------------
(* Every thread is at a step of procFiles or its callback, within the list.*)
Place == {"idle", "file", "raise", "lock error", "add error", "lock time", "add time"}

ControlOK == /\ canReport \in BOOLEAN
             /\ main \in {"submit", "wait", "done"}
             /\ pc \in [Threads -> Place]
             /\ lock \in Threads \union {NoOne}

RangesOK  == /\ begin \in 0 .. NFiles /\ queue \in Seq(Batch)
             /\ i \in [Threads -> 0 .. NFiles] /\ end \in [Threads -> 0 .. NFiles]

CountsOK  == /\ result \in [File -> {"none", "missing", "ok", "failed"}]
             /\ read \in [Threads -> Nat]
             /\ errors \in Nat /\ time \in Nat

TypeOK == ControlOK /\ RangesOK /\ CountsOK

(* No file is compressed twice or by two threads: a file whose result is   *)
(* out is in no batch still to be run, and batches to be run are disjoint. *)
Left(w) == CASE pc[w] \in {"idle", "raise", "lock time", "add time"} -> {}
             [] pc[w] = "file"                                        -> i[w] .. end[w]
             [] pc[w] \in {"lock error", "add error"}                 -> i[w] + 1 .. end[w]

Waiting(b) == queue[b].first .. queue[b].last

OnlyOnce ==
  /\ \A v, w \in Threads : v # w => Left(v) \intersect Left(w) = {}
  /\ \A a, b \in DOMAIN queue : a # b => Waiting(a) \intersect Waiting(b) = {}
  /\ \A w \in Threads, b \in DOMAIN queue : Left(w) \intersect Waiting(b) = {}
  /\ \A f \in File : result[f] # "none" =>
       (\A w \in Threads : f \notin Left(w)) /\ (\A b \in DOMAIN queue : f \notin Waiting(b))

(* In a driver that can report, no update of the count of errors is lost,  *)
(* whichever threads report at the same time ("a compression summary ...   *)
(* which records whether there is an error", README.md).                   *)
Failed    == {f \in File : result[f] = "failed"}
Reporting == {w \in Threads : pc[w] \in {"lock error", "add error"}}

ErrorsCounted == canReport => errors + Cardinality(Reporting) = Cardinality(Failed)

(* In a driver that can report, the totals are complete when the main      *)
(* thread prints them: every file was tried and the time of every batch    *)
(* added.                                                                  *)
Batches == IF NFiles = 0 THEN 0 ELSE (NFiles - 1) \div Step + 1

SummaryComplete ==
  main = "done" /\ canReport => (\A f \in File : result[f] # "none") /\ time = Batches

(* The driver ends, whichever files fail.                                  *)
Terminates == <>(main = "done")
=============================================================================
