------------------------- MODULE CompressPoolProofs -------------------------
(***************************************************************************)
(* TLAPS proofs about CompressPool, for every number of files and of       *)
(* threads: no file is compressed twice, and, when the driver can report a *)
(* failed file, no error is lost and the summary is complete.              *)
(***************************************************************************)
EXTENDS CompressPool, FiniteSetTheorems, TLAPS

(* Batches are cut from the files below begin, and only those were tried.  *)
(* A thread that reports a file is within its batch.                       *)
Busy(w) == pc[w] \in {"file", "lock error", "add error"}

Begun == /\ \A b \in DOMAIN queue : queue[b].last < begin
         /\ \A w \in Threads : Busy(w) => end[w] < begin
         /\ \A w \in Threads : pc[w] \in {"lock error", "add error"} => i[w] <= end[w]
         /\ \A f \in File : result[f] # "none" => f < begin
         /\ main # "submit" => begin = NFiles

BatchInv == TypeOK /\ Begun /\ OnlyOnce
-----------------------------------------------------------------------------
LEMMA QueueTail ==
  ASSUME NEW S, NEW q \in Seq(S), q # <<>>
  PROVE  /\ Head(q) \in S /\ Head(q) = q[1] /\ 1 \in 1 .. Len(q)
         /\ Tail(q) \in Seq(S) /\ Len(Tail(q)) = Len(q) - 1 /\ Len(q) \in Nat
         /\ \A b \in 1 .. Len(Tail(q)) : Tail(q)[b] = q[b + 1] /\ b + 1 \in 1 .. Len(q)
OBVIOUS

LEMMA QueueAppend ==
  ASSUME NEW S, NEW q \in Seq(S), NEW x \in S
  PROVE  /\ Append(q, x) \in Seq(S)
         /\ Len(Append(q, x)) = Len(q) + 1 /\ Len(q) \in Nat
         /\ \A b \in 1 .. Len(q) : Append(q, x)[b] = q[b]
         /\ Append(q, x)[Len(q) + 1] = x
OBVIOUS

LEMMA StepPositive == Step \in Nat \ {0}
<1>1. NFiles \div MaxThreads \in Nat
  BY PoolAssumption
<1>2. QED
  BY <1>1 DEF Step

LEMMA EndOfInList ==
  ASSUME NEW b \in 0 .. NFiles, b < NFiles
  PROVE  EndOf(b) \in File /\ b <= EndOf(b)
BY StepPositive, PoolAssumption DEF EndOf, File

LEMMA RangeOf ==
  ASSUME RangesOK
  PROVE  /\ begin \in 0 .. NFiles /\ begin \in Int
         /\ i \in [Threads -> 0 .. NFiles] /\ end \in [Threads -> 0 .. NFiles]
         /\ \A w \in Threads : i[w] \in 0 .. NFiles /\ end[w] \in 0 .. NFiles
         /\ \A w \in Threads : i[w] \in Int /\ end[w] \in Int
<1>1. /\ begin \in 0 .. NFiles
      /\ i \in [Threads -> 0 .. NFiles] /\ end \in [Threads -> 0 .. NFiles]
  BY DEF RangesOK
<1>2. QED
  BY <1>1, PoolAssumption

LEMMA RangeOfNext ==
  ASSUME RangesOK'
  PROVE  /\ begin' \in Int
         /\ \A w \in Threads : i'[w] \in Int /\ end'[w] \in Int
<1>1. /\ begin' \in 0 .. NFiles
      /\ i' \in [Threads -> 0 .. NFiles] /\ end' \in [Threads -> 0 .. NFiles]
  BY DEF RangesOK
<1>2. QED
  BY <1>1, PoolAssumption

(* Left(w), file by file.                                                  *)
LEMMA LeftIs ==
  ASSUME TypeOK, NEW w \in Threads
  PROVE  Left(w) = {f \in Int : /\ Busy(w)
                                /\ (IF pc[w] = "file" THEN i[w] ELSE i[w] + 1) <= f
                                /\ f <= end[w]}
<1>1. i[w] \in Int /\ end[w] \in Int
  BY RangeOf DEF TypeOK
<1>2. CASE pc[w] \in {"idle", "raise", "lock time", "add time"}
  BY <1>2 DEF Left, Busy
<1>3. CASE pc[w] = "file"
  BY <1>1, <1>3 DEF Left, Busy
<1>4. CASE pc[w] \in {"lock error", "add error"}
  <2>1. Left(w) = i[w] + 1 .. end[w]
    BY <1>4 DEF Left
  <2>2. pc[w] # "file" /\ Busy(w)
    BY <1>4 DEF Busy
  <2>3. QED
    BY <1>1, <2>1, <2>2
<1>5. QED
  BY <1>2, <1>3, <1>4 DEF TypeOK, ControlOK, Place

LEMMA LeftIsNext ==
  ASSUME TypeOK', NEW w \in Threads
  PROVE  Left(w)' = {f \in Int : /\ Busy(w)'
                                 /\ (IF pc'[w] = "file" THEN i'[w] ELSE i'[w] + 1) <= f
                                 /\ f <= end'[w]}
<1>1. i'[w] \in Int /\ end'[w] \in Int
  BY RangeOfNext DEF TypeOK
<1>2. CASE pc'[w] \in {"idle", "raise", "lock time", "add time"}
  BY <1>2 DEF Left, Busy
<1>3. CASE pc'[w] = "file"
  BY <1>1, <1>3 DEF Left, Busy
<1>4. CASE pc'[w] \in {"lock error", "add error"}
  <2>1. Left(w)' = i'[w] + 1 .. end'[w]
    BY <1>4 DEF Left
  <2>2. pc'[w] # "file" /\ Busy(w)'
    BY <1>4 DEF Busy
  <2>3. QED
    BY <1>1, <2>1, <2>2
<1>5. QED
  BY <1>2, <1>3, <1>4 DEF TypeOK, ControlOK, Place
LEMMA Below ==
  ASSUME NEW n \in Nat, NEW b \in 0 .. n, NEW e \in 0 .. n, NEW k \in 0 .. n, k <= e, e < b
  PROVE  /\ k \in Int /\ e \in Int /\ b \in Int /\ k < b
         /\ k \in 0 .. n - 1 /\ k + 1 \in 0 .. n
OBVIOUS

(* A thread that tries or reports a file is at a file below begin.         *)
LEMMA InBatch ==
  ASSUME TypeOK, Begun, NEW w \in Threads,
         \/ pc[w] = "file" /\ i[w] <= end[w]
         \/ pc[w] \in {"lock error", "add error"}
  PROVE  /\ i[w] \in Int /\ end[w] \in Int /\ begin \in Int
         /\ i[w] <= end[w] /\ end[w] < begin /\ i[w] < begin
         /\ i[w] \in File /\ i[w] + 1 \in 0 .. NFiles
<1>1. Busy(w) /\ i[w] <= end[w]
  BY DEF Busy, Begun
<1>2. end[w] < begin
  BY <1>1 DEF Begun
<1>3. /\ begin \in 0 .. NFiles /\ NFiles \in Nat
      /\ i[w] \in 0 .. NFiles /\ end[w] \in 0 .. NFiles
  BY RangeOf, PoolAssumption DEF TypeOK
<1>4. QED
  BY ONLY <1>1, <1>2, <1>3, Below DEF File
-----------------------------------------------------------------------------
LEMMA TypeInit == Init => TypeOK
BY PoolAssumption DEF Init, TypeOK, ControlOK, Place, RangesOK, CountsOK, File

LEMMA ControlStep == ControlOK /\ [Next]_vars => ControlOK'
<1> SUFFICES ASSUME ControlOK, [Next]_vars PROVE ControlOK'
  OBVIOUS
<1> USE DEF ControlOK, Place, Goto
<1>1. ASSUME Main PROVE ControlOK'
  BY <1>1 DEF Main, Submit, Shutdown, Join
<1>2. ASSUME NEW w \in Threads, Take(w) \/ Return(w) \/ Raise(w) PROVE ControlOK'
  BY <1>2 DEF Take, Return, Raise
<1>3. ASSUME NEW w \in Threads, Compress(w) PROVE ControlOK'
  BY <1>3 DEF Compress
<1>4. ASSUME NEW w \in Threads, Acquire(w) PROVE ControlOK'
  BY <1>4 DEF Acquire
<1>5. ASSUME NEW w \in Threads, AddError(w) \/ AddTime(w) PROVE ControlOK'
  BY <1>5 DEF AddError, AddTime
<1>6. ASSUME NEW w \in Threads, ReturnToMain(w) PROVE ControlOK'
  BY <1>6, PoolAssumption DEF ReturnToMain
<1>7. CASE UNCHANGED vars
  BY <1>7 DEF vars
<1>8. QED
  BY <1>1, <1>2, <1>3, <1>4, <1>5, <1>6, <1>7 DEF Next, Work

LEMMA RangesStep == TypeOK /\ Begun /\ [Next]_vars => RangesOK'
<1> SUFFICES ASSUME TypeOK, Begun, [Next]_vars PROVE RangesOK'
  OBVIOUS
<1>q. queue \in Seq(Batch)
  BY DEF TypeOK, RangesOK
<1>r. /\ begin \in 0 .. NFiles
      /\ i \in [Threads -> 0 .. NFiles] /\ end \in [Threads -> 0 .. NFiles]
  BY DEF TypeOK, RangesOK
<1>1. CASE Submit
  <2>1. EndOf(begin) \in File
    BY <1>1, <1>r, EndOfInList DEF Submit
  <2>2. queue' \in Seq(Batch)
    <3>1. [first |-> begin, last |-> EndOf(begin)] \in Batch
      BY <1>1, <1>r, <2>1, PoolAssumption DEF Submit, Batch, File
    <3>2. QED
      BY <1>1, <1>q, <3>1, QueueAppend DEF Submit
  <2>3. begin' \in 0 .. NFiles
    BY <1>1, <2>1, PoolAssumption DEF Submit, File
  <2>4. QED
    BY <1>1, <1>r, <2>2, <2>3 DEF Submit, RangesOK
<1>2. CASE Shutdown \/ Join
  BY <1>2, <1>r, <1>q DEF Shutdown, Join, RangesOK
<1>3. ASSUME NEW w \in Threads, Take(w) PROVE RangesOK'
  <2>1. Head(queue) \in Batch /\ queue' \in Seq(Batch)
    BY <1>3, <1>q, QueueTail DEF Take
  <2>2. Head(queue).first \in 0 .. NFiles /\ Head(queue).last \in 0 .. NFiles
    BY <2>1, PoolAssumption DEF File, Batch
  <2>3. i' \in [Threads -> 0 .. NFiles] /\ end' \in [Threads -> 0 .. NFiles] /\ begin' = begin
    BY <1>3, <1>r, <2>2 DEF Take
  <2>4. QED
    BY <1>r, <2>1, <2>3 DEF RangesOK
<1>4. ASSUME NEW w \in Threads, Compress(w) PROVE RangesOK'
  <2>1. i[w] + 1 \in 0 .. NFiles
    BY <1>4, InBatch DEF Compress
  <2>2. i' \in [Threads -> 0 .. NFiles]
    BY <1>4, <1>r, <2>1 DEF Compress
  <2>3. QED
    BY <1>4, <1>r, <1>q, <2>2 DEF Compress, RangesOK
<1>5. ASSUME NEW w \in Threads, AddError(w) PROVE RangesOK'
  <2>1. i[w] + 1 \in 0 .. NFiles
    BY <1>5, InBatch DEF AddError
  <2>2. i' \in [Threads -> 0 .. NFiles]
    BY <1>5, <1>r, <2>1 DEF AddError
  <2>3. QED
    BY <1>5, <1>r, <1>q, <2>2 DEF AddError, RangesOK
<1>6. ASSUME NEW w \in Threads, Return(w) \/ ReturnToMain(w) \/ Raise(w) \/ Acquire(w) \/ AddTime(w)
      PROVE  RangesOK'
  BY <1>6, <1>r, <1>q DEF Return, ReturnToMain, Raise, Acquire, AddTime, RangesOK
<1>7. CASE UNCHANGED vars
  BY <1>7, <1>r, <1>q DEF vars, RangesOK
<1>8. QED
  BY <1>1, <1>2, <1>3, <1>4, <1>5, <1>6, <1>7 DEF Next, Main, Work

LEMMA CountsStep == TypeOK /\ Begun /\ [Next]_vars => CountsOK'
<1> SUFFICES ASSUME TypeOK, Begun, [Next]_vars PROVE CountsOK'
  OBVIOUS
<1> USE DEF TypeOK, CountsOK
<1>1. CASE Main
  BY <1>1 DEF Main, Submit, Shutdown, Join
<1>2. ASSUME NEW w \in Threads, Take(w) \/ Return(w) \/ ReturnToMain(w) \/ Raise(w) PROVE CountsOK'
  BY <1>2 DEF Take, Return, ReturnToMain, Raise
<1>3. ASSUME NEW w \in Threads, Compress(w) PROVE CountsOK'
  BY <1>3 DEF Compress
<1>4. ASSUME NEW w \in Threads, Acquire(w) PROVE CountsOK'
  BY <1>4 DEF Acquire
<1>5. ASSUME NEW w \in Threads, AddError(w) \/ AddTime(w) PROVE CountsOK'
  <2>1. read[w] + 1 \in Nat
    OBVIOUS
  <2>2. errors' \in Nat /\ time' \in Nat /\ UNCHANGED <<read, result>>
    BY <1>5, <2>1 DEF AddError, AddTime
  <2>3. QED
    BY <2>2
<1>6. CASE UNCHANGED vars
  BY <1>6 DEF vars
<1>7. QED
  BY <1>1, <1>2, <1>3, <1>4, <1>5, <1>6 DEF Next, Work

LEMMA TypeStep == TypeOK /\ Begun /\ [Next]_vars => TypeOK'
BY ControlStep, RangesStep, CountsStep DEF TypeOK
-----------------------------------------------------------------------------
LEMMA BegunInit == Init => Begun
<1> SUFFICES ASSUME Init PROVE Begun
  OBVIOUS
<1>1. DOMAIN queue = {} /\ main = "submit"
  BY DEF Init
<1>2. \A w \in Threads : pc[w] = "idle"
  BY DEF Init
<1>3. \A f \in File : result[f] = "none"
  BY DEF Init
<1>4. QED
  BY <1>1, <1>2, <1>3 DEF Begun, Busy

LEMMA BegunStep == TypeOK /\ Begun /\ [Next]_vars => Begun'
<1> SUFFICES ASSUME TypeOK, Begun, [Next]_vars PROVE Begun'
  OBVIOUS
<1>q. queue \in Seq(Batch)
  BY DEF TypeOK, RangesOK
<1>p. pc \in [Threads -> Place]
  BY DEF TypeOK, ControlOK
<1>r. /\ begin \in Int /\ i \in [Threads -> 0 .. NFiles] /\ end \in [Threads -> 0 .. NFiles]
      /\ \A w \in Threads : i[w] \in Int /\ end[w] \in Int
  BY RangeOf DEF TypeOK
<1>b. /\ \A b \in DOMAIN queue : queue[b].last < begin
      /\ \A w \in Threads : Busy(w) => end[w] < begin
      /\ \A f \in File : result[f] # "none" => f < begin
  BY DEF Begun
<1>m. main # "submit" => begin = NFiles
  BY DEF Begun
<1>l. \A w \in Threads : pc[w] \in {"lock error", "add error"} => i[w] <= end[w]
  BY DEF Begun
<1>1. CASE Submit
  <2> DEFINE x == [first |-> begin, last |-> EndOf(begin)]
  <2>0. begin \in 0 .. NFiles /\ begin < NFiles
    BY <1>1, RangeOf DEF TypeOK, Submit
  <2>1. EndOf(begin) \in File /\ begin <= EndOf(begin) /\ begin' = EndOf(begin) + 1
    BY <1>1, <2>0, EndOfInList DEF Submit
  <2>2. begin' \in Int /\ begin < begin' /\ x.last < begin'
    BY <1>r, <2>1 DEF File
  <2>3. x \in Batch
    BY <2>0, <2>1, PoolAssumption DEF File, Batch
  <2> HIDE DEF x
  <2>4. queue' = Append(queue, x)
    BY <1>1 DEF Submit, x
  <2>5. /\ \A b \in DOMAIN queue : queue'[b] = queue[b]
        /\ queue'[Len(queue) + 1] = x
        /\ \A b \in DOMAIN queue' : b \in DOMAIN queue \/ b = Len(queue) + 1
    BY <1>q, <2>3, <2>4, QueueAppend
  <2>6. \A b \in DOMAIN queue : queue[b].last \in Int
    <3>1. \A b \in DOMAIN queue : queue[b] \in Batch
      BY <1>q
    <3>2. QED
      BY <3>1 DEF Batch, File
  <2>7. \A b \in DOMAIN queue' : queue'[b].last < begin'
    BY <1>r, <1>b, <2>2, <2>5, <2>6
  <2>8. \A w \in Threads : Busy(w)' => end'[w] < begin'
    <3>1. UNCHANGED <<pc, end>>
      BY <1>1 DEF Submit
    <3>2. \A w \in Threads : Busy(w)' => end[w] < begin
      BY <1>b, <3>1 DEF Busy
    <3>3. QED
      BY <1>r, <2>2, <3>1, <3>2
  <2>9. \A f \in File : result'[f] # "none" => f < begin'
    <3>1. result' = result
      BY <1>1 DEF Submit
    <3>2. QED
      BY <1>r, <1>b, <2>2, <3>1 DEF File
  <2>10. QED
    BY <1>1, <1>l, <2>7, <2>8, <2>9 DEF Submit, Begun
<1>2. CASE Shutdown \/ Join
  <2>1. begin \in 0 .. NFiles /\ NFiles \in Nat
    BY RangeOf, PoolAssumption DEF TypeOK
  <2>2. /\ UNCHANGED <<begin, queue, pc, i, end, result>>
        /\ begin >= NFiles \/ main # "submit"
    BY <1>2 DEF Shutdown, Join
  <2>3. begin = NFiles
    BY <1>m, <2>1, <2>2
  <2>4. QED
    BY <1>b, <1>l, <2>2, <2>3 DEF Begun, Busy
<1>3. ASSUME NEW w \in Threads, Take(w) PROVE Begun'
  <2>1. /\ Head(queue) = queue[1] /\ 1 \in DOMAIN queue
        /\ \A b \in DOMAIN queue' : queue'[b] = queue[b + 1] /\ b + 1 \in DOMAIN queue
    BY <1>3, <1>q, QueueTail DEF Take
  <2>2. \A b \in DOMAIN queue' : queue'[b].last < begin
    BY <1>b, <2>1
  <2>3. end' = [end EXCEPT ![w] = queue[1].last] /\ queue[1].last < begin
    BY <1>3, <1>b, <2>1 DEF Take
  <2>4. /\ UNCHANGED <<main, begin, result>>
        /\ pc' = [pc EXCEPT ![w] = "file"]
        /\ i' = [i EXCEPT ![w] = Head(queue).first]
    BY <1>3 DEF Take, Goto
  <2>5. \A v \in Threads \ {w} : pc'[v] = pc[v] /\ i'[v] = i[v] /\ end'[v] = end[v]
    BY <1>p, <1>r, <2>3, <2>4
  <2>6. end'[w] < begin /\ pc'[w] = "file"
    BY <1>p, <1>r, <2>3, <2>4
  <2>7. \A v \in Threads : Busy(v)' => end'[v] < begin
    BY <1>b, <2>5, <2>6 DEF Busy
  <2>8. \A v \in Threads : pc'[v] \in {"lock error", "add error"} => i'[v] <= end'[v]
    BY <1>l, <2>5, <2>6
  <2>9. QED
    BY <1>b, <2>2, <2>4, <2>7, <2>8 DEF Begun
<1>4. ASSUME NEW w \in Threads, Compress(w) PROVE Begun'
  <2>1. i[w] <= end[w] /\ i[w] < begin
    BY <1>4, InBatch DEF Compress
  <2>2. /\ UNCHANGED <<main, begin, queue, end>>
        /\ \E r \in {"missing", "ok", "failed"} : result' = [result EXCEPT ![i[w]] = r]
        /\ \A v \in Threads \ {w} : pc'[v] = pc[v] /\ i'[v] = i[v]
        /\ pc[w] = "file"
    BY <1>4, <1>p, <1>r DEF Compress, Goto
  <2>3. pc'[w] \in {"lock error", "add error"} => i'[w] = i[w]
    BY <1>4, <1>p DEF Compress, Goto
  <2>4. \A f \in File : result'[f] # "none" => f < begin
    BY <1>b, <2>1, <2>2
  <2>5. \A v \in Threads : Busy(v)' => Busy(v)
    BY <2>2 DEF Busy
  <2>6. \A v \in Threads : pc'[v] \in {"lock error", "add error"} => i'[v] <= end[v]
    BY <1>l, <2>1, <2>2, <2>3
  <2>7. QED
    BY <1>b, <2>2, <2>4, <2>5, <2>6 DEF Begun
<1>5. ASSUME NEW w \in Threads,
             Return(w) \/ Raise(w) \/ Acquire(w) \/ AddError(w) \/ AddTime(w)
      PROVE  Begun'
  <2>1. UNCHANGED <<main, begin, queue, end, result>>
    BY <1>5 DEF Return, Raise, Acquire, AddError, AddTime
  <2>2. /\ \A v \in Threads \ {w} : pc'[v] = pc[v] /\ i'[v] = i[v]
        /\ Busy(w)' => Busy(w)
        /\ pc'[w] \in {"lock error", "add error"} =>
             pc[w] \in {"lock error", "add error"} /\ i'[w] = i[w]
    BY <1>5, <1>p, <1>r DEF Return, Raise, Acquire, AddError, AddTime, Goto, Busy
  <2>3. \A v \in Threads : Busy(v)' => Busy(v)
    BY <2>2 DEF Busy
  <2>4. \A v \in Threads : pc'[v] \in {"lock error", "add error"} => i'[v] <= end[v]
    BY <1>l, <2>2
  <2>5. QED
    BY <1>b, <2>1, <2>3, <2>4 DEF Begun
<1>6. ASSUME NEW w \in Threads, ReturnToMain(w) PROVE Begun'
  <2>1. /\ UNCHANGED <<main, begin, queue, i, end, result>>
        /\ \A v \in Threads : pc'[v] = pc[v] \/ pc'[v] \in {"idle", "lock time"}
    BY <1>6, <1>p DEF ReturnToMain
  <2>2. \A v \in Threads : Busy(v)' => Busy(v)
    BY <2>1 DEF Busy
  <2>3. \A v \in Threads : pc'[v] \in {"lock error", "add error"} => i'[v] <= end[v]
    BY <1>l, <2>1
  <2>4. QED
    BY <1>b, <2>1, <2>2, <2>3 DEF Begun
<1>7. CASE UNCHANGED vars
  BY <1>7 DEF vars, Begun, Busy
<1>8. QED
  BY <1>1, <1>2, <1>3, <1>4, <1>5, <1>6, <1>7 DEF Next, Main, Work
-----------------------------------------------------------------------------
(* What a step does to the files a thread has left.                        *)
LEMMA LeftSame ==
  ASSUME NEW w \in Threads, pc'[w] = pc[w], i'[w] = i[w], end'[w] = end[w]
  PROVE  Left(w)' = Left(w)
BY DEF Left

LEMMA LeftShrinks ==
  ASSUME TypeOK, TypeOK', NEW w \in Threads, end'[w] = end[w],
         Busy(w)' => /\ Busy(w)
                     /\ (IF pc[w] = "file" THEN i[w] ELSE i[w] + 1)
                          <= (IF pc'[w] = "file" THEN i'[w] ELSE i'[w] + 1)
  PROVE  Left(w)' \subseteq Left(w)
<1>1. /\ i[w] \in Int /\ end[w] \in Int
      /\ i'[w] \in Int
  BY RangeOf, RangeOfNext DEF TypeOK
<1>2. SUFFICES ASSUME NEW f \in Left(w)' PROVE f \in Left(w)
  OBVIOUS
<1>3. /\ f \in Int /\ Busy(w)' /\ f <= end[w]
      /\ (IF pc'[w] = "file" THEN i'[w] ELSE i'[w] + 1) <= f
  BY LeftIsNext
<1>4. (IF pc[w] = "file" THEN i[w] ELSE i[w] + 1) <= f
  BY <1>1, <1>3
<1>5. QED
  BY <1>3, <1>4, LeftIs

(* A step that only takes files from threads, and tries only these.        *)
LEMMA Shrinking ==
  ASSUME OnlyOnce, queue' = queue,
         \A w \in Threads : Left(w)' \subseteq Left(w),
         \A f \in File : result'[f] # "none" =>
           \/ result[f] # "none"
           \/ /\ \A w \in Threads : f \notin Left(w)'
              /\ \A b \in DOMAIN queue : f \notin Waiting(b)
  PROVE  OnlyOnce'
<1>1. \A b \in DOMAIN queue : Waiting(b)' = Waiting(b)
  BY DEF Waiting
<1>2. QED
  BY <1>1 DEF OnlyOnce

LEMMA OnlyOnceInit == Init => OnlyOnce
<1> SUFFICES ASSUME Init PROVE OnlyOnce
  OBVIOUS
<1>1. DOMAIN queue = {}
  BY DEF Init
<1>2. \A w \in Threads : Left(w) = {}
  BY DEF Init, Left
<1>3. \A f \in File : result[f] = "none"
  BY DEF Init
<1>4. QED
  BY <1>1, <1>2, <1>3 DEF OnlyOnce

LEMMA SubmitOnce == BatchInv /\ TypeOK' /\ Submit => OnlyOnce'
<1> SUFFICES ASSUME TypeOK, TypeOK', Begun, OnlyOnce, Submit PROVE OnlyOnce'
  BY DEF BatchInv
<1> DEFINE x == [first |-> begin, last |-> EndOf(begin)]
<1>0. PICK l : l = Len(queue) + 1
  OBVIOUS
<1>1. UNCHANGED <<pc, i, end, result>> /\ queue' = Append(queue, x)
  BY DEF Submit
<1>2. begin \in 0 .. NFiles /\ begin < NFiles
  BY RangeOf DEF TypeOK, Submit
<1>3. x \in Batch
  BY <1>2, EndOfInList, PoolAssumption DEF Batch, File
<1>4. /\ \A b \in DOMAIN queue : queue'[b] = queue[b] /\ b # l
      /\ queue'[l] = x
      /\ \A b \in DOMAIN queue' : b \in DOMAIN queue \/ b = l
  <2>1. queue \in Seq(Batch)
    BY DEF TypeOK, RangesOK
  <2> HIDE DEF x
  <2>2. QED
    BY <2>1, <1>0, <1>1, <1>3, QueueAppend
<1>o. /\ \A a, b \in DOMAIN queue : a # b => Waiting(a) \intersect Waiting(b) = {}
      /\ \A w \in Threads, b \in DOMAIN queue : Left(w) \intersect Waiting(b) = {}
      /\ \A f \in File : result[f] # "none" => \A b \in DOMAIN queue : f \notin Waiting(b)
  BY DEF OnlyOnce
<1>n. \A b \in DOMAIN queue' : b \in DOMAIN queue \/ b = l
  BY <1>4
<1>5. /\ \A b \in DOMAIN queue : Waiting(b)' = Waiting(b)
      /\ \A f \in Waiting(l)' : f \in Int /\ begin <= f
  <2>1. \A b \in DOMAIN queue : Waiting(b)' = Waiting(b)
    BY <1>4 DEF Waiting
  <2>2. Waiting(l)' = begin .. EndOf(begin)
    <3>1. queue'[l].first = begin /\ queue'[l].last = EndOf(begin)
      BY <1>4
    <3>2. QED
      BY <3>1 DEF Waiting
  <2>3. begin \in Int /\ EndOf(begin) \in Int
    BY <1>2, EndOfInList, PoolAssumption DEF File
  <2>4. QED
    BY <2>1, <2>2, <2>3
<1>6. \A w \in Threads : Left(w)' = Left(w)
  BY <1>1 DEF Left
<1>7. \A b \in DOMAIN queue : \A f \in Waiting(b) : f < begin
  <2>1. SUFFICES ASSUME NEW b \in DOMAIN queue, NEW f \in Waiting(b) PROVE f < begin
    OBVIOUS
  <2>2. queue[b] \in Batch
    BY DEF TypeOK, RangesOK
  <2>3. queue[b].first \in Int /\ queue[b].last \in Int
    BY <2>2 DEF Batch, File
  <2>4. queue[b].last < begin
    BY DEF Begun
  <2>5. QED
    BY <1>2, <2>3, <2>4 DEF Waiting
<1>8. \A w \in Threads : \A f \in Left(w) : f < begin
  <2>1. SUFFICES ASSUME NEW w \in Threads, NEW f \in Left(w) PROVE f < begin
    OBVIOUS
  <2>2. Busy(w) /\ f \in Int /\ f <= end[w]
    BY LeftIs
  <2>3. end[w] \in Int /\ end[w] < begin
    BY <2>2, RangeOf DEF Begun, TypeOK
  <2>4. QED
    BY <1>2, <2>2, <2>3
<1>9. \A f \in File : result[f] # "none" => f < begin
  BY DEF Begun
<1>10. \A f \in Waiting(l)' : ~(f < begin)
  BY <1>2, <1>5
<1>11. \A a, b \in DOMAIN queue' : a # b => Waiting(a)' \intersect Waiting(b)' = {}
  <2>1. \A b \in DOMAIN queue : Waiting(b) \intersect Waiting(l)' = {}
    BY <1>7, <1>10
  <2>2. QED
    BY ONLY <1>n, <1>5, <1>o, <2>1
<1>12. \A w \in Threads, b \in DOMAIN queue' : Left(w)' \intersect Waiting(b)' = {}
  <2>1. \A w \in Threads : Left(w) \intersect Waiting(l)' = {}
    BY <1>8, <1>10
  <2>2. QED
    BY ONLY <1>n, <1>5, <1>6, <1>o, <2>1
<1>13. \A f \in File : result[f] # "none" => \A b \in DOMAIN queue' : f \notin Waiting(b)'
  <2>1. \A f \in File : result[f] # "none" => f \notin Waiting(l)'
    BY <1>9, <1>10
  <2>2. QED
    BY ONLY <1>n, <1>5, <1>o, <2>1
<1>14. QED
  BY <1>1, <1>6, <1>11, <1>12, <1>13 DEF OnlyOnce

LEMMA TakeOnce ==
  ASSUME BatchInv, TypeOK', NEW w \in Threads, Take(w)
  PROVE  OnlyOnce'
<1>1. TypeOK /\ OnlyOnce
  BY DEF BatchInv
<1>2. /\ 1 \in DOMAIN queue /\ Head(queue) = queue[1]
      /\ \A b \in DOMAIN queue' : /\ queue'[b] = queue[b + 1]
                                 /\ b + 1 \in DOMAIN queue /\ b \in Int /\ 0 < b
  <2>1. queue \in Seq(Batch)
    BY <1>1 DEF TypeOK, RangesOK
  <2>2. QED
    BY <2>1, QueueTail DEF Take
<1>3. \A b \in DOMAIN queue' : Waiting(b)' = Waiting(b + 1)
  BY <1>2 DEF Waiting
<1>4. \A v \in Threads \ {w} : Left(v)' = Left(v)
  BY <1>1 DEF Take, Goto, Left, TypeOK, ControlOK, RangesOK
<1>5. Left(w)' = Waiting(1)
  <2>1. /\ pc \in [Threads -> Place]
        /\ i \in [Threads -> 0 .. NFiles] /\ end \in [Threads -> 0 .. NFiles]
    BY <1>1, RangeOf DEF TypeOK, ControlOK
  <2>2. pc'[w] = "file" /\ i'[w] = queue[1].first /\ end'[w] = queue[1].last
    BY <1>2, <2>1 DEF Take, Goto
  <2>3. QED
    BY <2>2 DEF Left, Waiting
<1>6. \A a, b \in DOMAIN queue' : a # b => a + 1 # b + 1
  BY <1>2
<1>7. \A b \in DOMAIN queue' : b + 1 # 1
  BY <1>2
<1>8. \A u, v \in Threads : u # v => Left(u)' \intersect Left(v)' = {}
  BY <1>1, <1>2, <1>4, <1>5 DEF OnlyOnce
<1>9. \A a, b \in DOMAIN queue' : a # b => Waiting(a)' \intersect Waiting(b)' = {}
  BY <1>1, <1>2, <1>3, <1>6 DEF OnlyOnce
<1>10. \A v \in Threads, b \in DOMAIN queue' : Left(v)' \intersect Waiting(b)' = {}
  BY <1>1, <1>2, <1>3, <1>4, <1>5, <1>7 DEF OnlyOnce
<1>11. result' = result
  BY DEF Take
<1>12. \A f \in File : result'[f] # "none" =>
         /\ \A v \in Threads : f \notin Left(v)'
         /\ \A b \in DOMAIN queue' : f \notin Waiting(b)'
  BY <1>1, <1>2, <1>3, <1>4, <1>5, <1>11 DEF OnlyOnce
<1>13. QED
  BY <1>8, <1>9, <1>10, <1>12 DEF OnlyOnce

LEMMA CompressOnce ==
  ASSUME BatchInv, TypeOK', NEW w \in Threads, Compress(w)
  PROVE  OnlyOnce'
<1>1. TypeOK /\ Begun /\ OnlyOnce
  BY DEF BatchInv
<1>2. pc[w] = "file" /\ i[w] <= end[w] /\ i[w] \in Int /\ end[w] \in Int
  BY <1>1, InBatch DEF Compress
<1>3. /\ pc \in [Threads -> Place]
      /\ i \in [Threads -> 0 .. NFiles] /\ end \in [Threads -> 0 .. NFiles]
  BY <1>1, RangeOf DEF TypeOK, ControlOK
<1>4. /\ UNCHANGED <<queue, end>>
      /\ \A v \in Threads \ {w} : pc'[v] = pc[v] /\ i'[v] = i[v]
      /\ \/ pc'[w] # "file" /\ i'[w] = i[w]
         \/ pc'[w] = "file" /\ i'[w] = i[w] + 1
      /\ \A f \in File : f # i[w] => result'[f] = result[f]
  BY <1>1, <1>3 DEF Compress, Goto, TypeOK, CountsOK
<1>5. i[w] \in Left(w) /\ i[w] \notin Left(w)' /\ Left(w)' \subseteq Left(w)
  <2>1. (IF pc'[w] = "file" THEN i'[w] ELSE i'[w] + 1) = i[w] + 1
    BY <1>4
  <2>2. Left(w) = i[w] .. end[w]
    BY <1>2 DEF Left
  <2>3. \A f \in Left(w)' : f \in Int /\ i[w] + 1 <= f /\ f <= end[w]
    BY <1>4, <2>1, LeftIsNext
  <2>4. QED
    BY ONLY <1>2, <2>2, <2>3
<1>6. \A v \in Threads \ {w} : Left(v)' = Left(v)
  BY <1>4, LeftSame
<1>7. /\ \A v \in Threads : i[w] \notin Left(v)'
      /\ \A b \in DOMAIN queue : i[w] \notin Waiting(b)
  BY <1>1, <1>5, <1>6 DEF OnlyOnce
<1>8. \A v \in Threads : Left(v)' \subseteq Left(v)
  BY <1>5, <1>6
<1>9. QED
  BY <1>1, <1>4, <1>7, <1>8, Shrinking

LEMMA OnlyOnceStep == BatchInv /\ TypeOK' /\ [Next]_vars => OnlyOnce'
<1> SUFFICES ASSUME BatchInv, TypeOK, OnlyOnce, Begun, TypeOK', [Next]_vars PROVE OnlyOnce'
  BY DEF BatchInv
<1>p. pc \in [Threads -> Place] /\ i \in [Threads -> 0 .. NFiles]
  BY RangeOf DEF TypeOK, ControlOK
<1>1. CASE Submit
  BY <1>1, SubmitOnce
<1>2. CASE Shutdown \/ Join \/ UNCHANGED vars
  <2>1. UNCHANGED <<queue, pc, i, end, result>>
    BY <1>2 DEF Shutdown, Join, vars
  <2>2. \A v \in Threads : Left(v)' \subseteq Left(v)
    BY <2>1 DEF Left
  <2>3. QED
    BY <2>1, <2>2, Shrinking
<1>3. ASSUME NEW w \in Threads, Take(w) PROVE OnlyOnce'
  BY <1>3, TakeOnce
<1>4. ASSUME NEW w \in Threads, Compress(w) PROVE OnlyOnce'
  BY <1>4, CompressOnce
<1>5. ASSUME NEW w \in Threads, Return(w) \/ Raise(w) \/ Acquire(w) \/ AddTime(w)
      PROVE  OnlyOnce'
  <2>1. /\ UNCHANGED <<queue, end, result, i>>
        /\ \A v \in Threads \ {w} : pc'[v] = pc[v]
    BY <1>5, <1>p DEF Return, Raise, Acquire, AddTime, Goto
  <2>2. Busy(w)' => Busy(w) /\ pc[w] # "file" /\ pc'[w] # "file"
    BY <1>5, <1>p DEF Return, Raise, Acquire, AddTime, Goto, Busy
  <2>3. i[w] + 1 <= i[w] + 1
    BY RangeOf DEF TypeOK
  <2>4. Left(w)' \subseteq Left(w)
    BY <2>1, <2>2, <2>3, LeftShrinks
  <2>5. \A v \in Threads : Left(v)' \subseteq Left(v)
    BY <2>1, <2>4, LeftSame
  <2>6. QED
    BY <2>1, <2>5, Shrinking
<1>6. ASSUME NEW w \in Threads, AddError(w) PROVE OnlyOnce'
  <2>1. /\ UNCHANGED <<queue, end, result>>
        /\ \A v \in Threads \ {w} : pc'[v] = pc[v] /\ i'[v] = i[v]
        /\ pc[w] = "add error" /\ pc'[w] = "file" /\ i'[w] = i[w] + 1
    BY <1>6, <1>p DEF AddError, Goto
  <2>2. i[w] + 1 <= i[w] + 1
    BY RangeOf DEF TypeOK
  <2>3. Busy(w) /\ pc[w] # "file"
    BY <2>1 DEF Busy
  <2>4. Left(w)' \subseteq Left(w)
    BY <2>1, <2>2, <2>3, LeftShrinks
  <2>5. \A v \in Threads : Left(v)' \subseteq Left(v)
    BY <2>1, <2>4, LeftSame
  <2>6. QED
    BY <2>1, <2>5, Shrinking
<1>7. ASSUME NEW w \in Threads, ReturnToMain(w) PROVE OnlyOnce'
  <2>1. /\ UNCHANGED <<queue, end, result, i>>
        /\ \A v \in Threads : pc'[v] = pc[v] \/ pc'[v] \in {"idle", "lock time"}
    BY <1>7, <1>p DEF ReturnToMain
  <2>2. \A v \in Threads : Left(v)' \subseteq Left(v)
    BY <2>1 DEF Left
  <2>3. QED
    BY <2>1, <2>2, Shrinking
<1>8. QED
  BY <1>1, <1>2, <1>3, <1>4, <1>5, <1>6, <1>7 DEF Next, Main, Work

LEMMA BatchCorrect == Spec => []BatchInv
<1>1. Init => BatchInv
  BY TypeInit, BegunInit, OnlyOnceInit DEF BatchInv
<1>2. BatchInv /\ [Next]_vars => BatchInv'
  BY TypeStep, BegunStep, OnlyOnceStep DEF BatchInv
<1>3. QED
  BY <1>1, <1>2, PTL DEF Spec

(* Every thread is at a step of procFiles or its callback, at a file of    *)
(* the list, and the counts are numbers, for every number of files and     *)
(* threads.                                                                *)
THEOREM TypeCorrect == Spec => []TypeOK
<1>1. BatchInv => TypeOK
  BY DEF BatchInv
<1>2. QED
  BY <1>1, BatchCorrect, PTL

(* However the list is cut (threadsToExecTasks), no file is compressed     *)
(* twice or by two threads.                                                *)
THEOREM EachFileOnce == Spec => []OnlyOnce
<1>1. BatchInv => OnlyOnce
  BY DEF BatchInv
<1>2. QED
  BY <1>1, BatchCorrect, PTL
-----------------------------------------------------------------------------
(* The thread that holds the lock is between its read and its write, and   *)
(* the count is still what it read.                                        *)
Held == /\ \A w \in Threads : lock = w <=> pc[w] \in {"add error", "add time"}
        /\ \A w \in Threads : pc[w] = "add error" => read[w] = errors
        /\ \A w \in Threads : pc[w] = "add time" => read[w] = time

LEMMA HeldInit == Init => Held
BY PoolAssumption DEF Init, Held

LEMMA HeldStep == TypeOK /\ Held /\ [Next]_vars => Held'
<1> SUFFICES ASSUME TypeOK, Held, [Next]_vars PROVE Held'
  OBVIOUS
<1>p. /\ pc \in [Threads -> Place] /\ read \in [Threads -> Nat]
      /\ NoOne \notin Threads
  BY PoolAssumption DEF TypeOK, ControlOK, CountsOK
<1>1. CASE Main \/ UNCHANGED vars
  BY <1>1 DEF Main, Submit, Shutdown, Join, vars, Held
<1>2. ASSUME NEW w \in Threads, Take(w) \/ Compress(w) \/ Return(w) \/ Raise(w) PROVE Held'
  <2>1. /\ UNCHANGED <<lock, read, errors, time>>
        /\ \A v \in Threads \ {w} : pc'[v] = pc[v]
        /\ pc[w] \notin {"add error", "add time"} /\ pc'[w] \notin {"add error", "add time"}
    BY <1>2, <1>p DEF Take, Compress, Return, Raise, Goto
  <2>2. QED
    BY <2>1 DEF Held
<1>3. ASSUME NEW w \in Threads, Acquire(w) PROVE Held'
  <2>1. lock = NoOne /\ \A v \in Threads : pc[v] \notin {"add error", "add time"}
    BY <1>3, <1>p DEF Acquire, Held
  <2>2. /\ lock' = w /\ UNCHANGED <<errors, time>>
        /\ \A v \in Threads \ {w} : pc'[v] = pc[v]
        /\ pc'[w] \in {"add error", "add time"}
        /\ pc'[w] = "add error" => read'[w] = errors
        /\ pc'[w] = "add time" => read'[w] = time
    BY <1>3, <1>p DEF Acquire, Goto
  <2>3. QED
    BY <2>1, <2>2 DEF Held
<1>4. ASSUME NEW w \in Threads, AddError(w) \/ AddTime(w) PROVE Held'
  <2>1. \A v \in Threads \ {w} : pc[v] \notin {"add error", "add time"}
    BY <1>4 DEF AddError, AddTime, Held
  <2>2. /\ lock' = NoOne /\ pc'[w] \notin {"add error", "add time"}
        /\ \A v \in Threads \ {w} : pc'[v] = pc[v]
    BY <1>4, <1>p DEF AddError, AddTime, Goto
  <2>3. QED
    BY <1>p, <2>1, <2>2 DEF Held
<1>5. ASSUME NEW w \in Threads, ReturnToMain(w) PROVE Held'
  <2>1. /\ UNCHANGED <<lock, read, errors, time>>
        /\ \A v \in Threads : pc'[v] \in {"add error", "add time"} <=> pc[v] \in {"add error", "add time"}
        /\ \A v \in Threads : pc'[v] \in {"add error", "add time"} => pc'[v] = pc[v]
    BY <1>5, <1>p, PoolAssumption DEF ReturnToMain
  <2>2. QED
    BY <2>1 DEF Held
<1>6. QED
  BY <1>1, <1>2, <1>3, <1>4, <1>5 DEF Next, Work

(* The sets that are counted are finite.                                   *)
LEMMA FiniteThreads ==
  ASSUME NEW S, S \subseteq Threads
  PROVE  IsFiniteSet(S) /\ Cardinality(S) \in Nat
BY PoolAssumption, FS_Subset, FS_CardinalityType, Zenon

LEMMA FiniteFiles ==
  ASSUME NEW S, S \subseteq File
  PROVE  IsFiniteSet(S) /\ Cardinality(S) \in Nat
<1>1. 0 \in Int /\ NFiles - 1 \in Int
  BY PoolAssumption
<1>2. IsFiniteSet(File)
  BY <1>1, FS_Interval, Zenon DEF File
<1>3. QED
  BY <1>2, FS_Subset, FS_CardinalityType, Zenon

LEMMA ErrorsInit == Init => ErrorsCounted
<1> SUFFICES ASSUME Init PROVE ErrorsCounted
  OBVIOUS
<1>1. Reporting = {} /\ Failed = {} /\ errors = 0
  BY DEF Init, Reporting, Failed
<1>2. Cardinality({}) = 0
  BY FS_EmptySet, Zenon
<1>3. QED
  BY <1>1, <1>2 DEF ErrorsCounted

(* Which driver runs does not change.                                      *)
LEMMA SameDriver == [Next]_vars => canReport' = canReport
<1> SUFFICES ASSUME [Next]_vars PROVE canReport' = canReport
  OBVIOUS
<1>1. CASE Main
  BY <1>1 DEF Main, Submit, Shutdown, Join
<1>2. ASSUME NEW w \in Threads, Work(w) PROVE canReport' = canReport
  BY <1>2 DEF Work, Take, Compress, Return, ReturnToMain, Raise, Acquire, AddError, AddTime
<1>3. QED
  BY <1>1, <1>2 DEF Next, vars

LEMMA ErrorsStep == BatchInv /\ Held /\ ErrorsCounted /\ [Next]_vars => ErrorsCounted'
<1> SUFFICES ASSUME canReport', TypeOK, Begun, OnlyOnce, Held, ErrorsCounted, [Next]_vars
             PROVE  ErrorsCounted'
  BY DEF BatchInv, ErrorsCounted
<1>r. canReport /\ canReport'
  BY SameDriver
<1>p. pc \in [Threads -> Place] /\ result \in [File -> {"none", "missing", "ok", "failed"}]
  BY DEF TypeOK, ControlOK, CountsOK
<1>e. errors \in Nat
  BY DEF TypeOK, CountsOK
<1>s. ASSUME UNCHANGED errors, Reporting' = Reporting, Failed' = Failed PROVE ErrorsCounted'
  BY <1>s, <1>r DEF ErrorsCounted
<1>1. CASE Main \/ UNCHANGED vars
  BY <1>1, <1>s DEF Main, Submit, Shutdown, Join, vars, Reporting, Failed
<1>2. ASSUME NEW w \in Threads,
             Take(w) \/ Return(w) \/ ReturnToMain(w) \/ Raise(w) \/ Acquire(w) \/ AddTime(w)
      PROVE  ErrorsCounted'
  <2>1. /\ UNCHANGED <<errors, result>>
        /\ \A v \in Threads : pc'[v] \in {"lock error", "add error"} <=> pc[v] \in {"lock error", "add error"}
    BY <1>2, <1>p, PoolAssumption DEF Take, Return, ReturnToMain, Raise, Acquire, AddTime, Goto
  <2>2. Reporting' = Reporting /\ Failed' = Failed
    BY <2>1 DEF Reporting, Failed
  <2>3. QED
    BY <2>1, <2>2, <1>s
<1>3. ASSUME NEW w \in Threads, Compress(w) PROVE ErrorsCounted'
  <2>1. i[w] \in File /\ result[i[w]] = "none" /\ errors' = errors /\ pc[w] = "file"
    <3>1. /\ pc[w] = "file" /\ i[w] <= end[w] /\ errors' = errors
          /\ i[w] \in Int /\ end[w] \in Int /\ i[w] \in File
      BY <1>3, InBatch DEF Compress
    <3>2. i[w] \in Left(w)
      BY <3>1 DEF Left
    <3>3. QED
      BY <3>1, <3>2 DEF OnlyOnce
  <2>2. CASE result'[i[w]] # "failed"
    <3>1. Reporting' = Reporting /\ Failed' = Failed
      BY <1>3, <1>p, <2>1, <2>2 DEF Compress, Reporting, Failed, Goto
    <3>2. QED
      BY <2>1, <3>1, <1>s
  <2>3. CASE result'[i[w]] = "failed"
    <3>1. /\ Reporting' = Reporting \union {w} /\ w \notin Reporting
          /\ Failed' = Failed \union {i[w]} /\ i[w] \notin Failed
      BY <1>3, <1>p, <2>1, <2>3 DEF Compress, Reporting, Failed, Goto
    <3>2. IsFiniteSet(Reporting) /\ IsFiniteSet(Failed)
      BY FiniteThreads, FiniteFiles DEF Reporting, Failed
    <3>3. /\ Cardinality(Reporting) \in Nat /\ Cardinality(Failed) \in Nat
      BY <3>2, FS_CardinalityType, Zenon
    <3>4. /\ Cardinality(Reporting') = Cardinality(Reporting) + 1
          /\ Cardinality(Failed') = Cardinality(Failed) + 1
      BY <3>1, <3>2, FS_AddElement, Zenon
    <3>5. QED
      BY ONLY <1>r, <1>e, <2>1, <3>3, <3>4, ErrorsCounted DEF ErrorsCounted
  <2>4. QED
    BY <2>2, <2>3
<1>4. ASSUME NEW w \in Threads, AddError(w) PROVE ErrorsCounted'
  <2>1. errors' = errors + 1
    BY <1>4 DEF AddError, Held
  <2>2. /\ Reporting' = Reporting \ {w} /\ w \in Reporting /\ Failed' = Failed
    BY <1>4, <1>p DEF AddError, Reporting, Failed, Goto
  <2>3. IsFiniteSet(Reporting) /\ Cardinality(Reporting) \in Nat
    BY FiniteThreads DEF Reporting
  <2>4. Cardinality(Reporting') = Cardinality(Reporting) - 1
    BY <2>2, <2>3, FS_RemoveElement, Zenon
  <2>5. QED
    BY ONLY <1>r, <1>e, <2>1, <2>2, <2>3, <2>4, ErrorsCounted DEF ErrorsCounted
<1>5. QED
  BY <1>1, <1>2, <1>3, <1>4 DEF Next, Work

(* In the drivers that can report a failed file, no update of the count of *)
(* errors is lost, whichever threads report at the same time               *)
(* (atomic_addErrnum).                                                     *)
THEOREM NoErrorLost == Spec => []ErrorsCounted
<1> DEFINE Inv == BatchInv /\ Held /\ ErrorsCounted
<1>1. Init => Inv
  BY TypeInit, BegunInit, OnlyOnceInit, HeldInit, ErrorsInit DEF BatchInv
<1>2. Inv /\ [Next]_vars => Inv'
  BY TypeStep, BegunStep, OnlyOnceStep, HeldStep, ErrorsStep DEF BatchInv
<1>3. QED
  BY <1>1, <1>2, PTL DEF Spec
-----------------------------------------------------------------------------
(* Every batch cut so far is in the queue, with a thread, or in the total, *)
(* and every file below begin was tried or is in one of the first two.     *)
Running == {w \in Threads : pc[w] # "idle"}

Cut == time + Cardinality(Running) + Len(queue)

CutInv == \/ begin < NFiles /\ begin = Cut * Step
          \/ begin = NFiles /\ Cut = Batches

Covered == \A f \in File : f < begin =>
             \/ result[f] # "none"
             \/ \E w \in Threads : f \in Left(w)
             \/ \E b \in DOMAIN queue : f \in Waiting(b)

Finished == main = "done" => queue = <<>> /\ \A w \in Threads : pc[w] = "idle"

NoRaise == \A w \in Threads : pc[w] # "raise"

SummaryInv == canReport => NoRaise /\ Finished /\ Covered /\ CutInv

(* The last batch is the one that reaches the end of the list.             *)
LEMMA LastBatch ==
  ASSUME NEW n \in Nat, NEW m \in Nat, NEW s \in Nat \ {0}, m # 0,
         n * s < m, m <= n * s + s
  PROVE  (m - 1) \div s = n
<1>1. m - 1 \in Int /\ n * s \in Int /\ n * s <= m - 1 /\ m - 1 < n * s + s
  OBVIOUS
<1>2. (m - 1) \div s \in Int
  BY <1>1
<1> DEFINE q == (m - 1) \div s
<1>3. q * s <= m - 1 /\ m - 1 < q * s + s /\ q \in Int
  BY <1>1
<1> HIDE DEF q
<1>4. ~(q < n)
  <2>1. SUFFICES ASSUME q + 1 <= n PROVE FALSE
    BY <1>3
  <2>2. (q + 1) * s <= n * s
    BY <1>3, <2>1
  <2>3. QED
    BY <1>1, <1>3, <2>2
<1>5. ~(n < q)
  <2>1. SUFFICES ASSUME n + 1 <= q PROVE FALSE
    BY <1>3
  <2>2. (n + 1) * s <= q * s
    BY <1>3, <2>1
  <2>3. QED
    BY <1>1, <1>3, <2>2
<1>6. QED
  BY <1>3, <1>4, <1>5 DEF q

LEMMA NoRaiseStep == canReport /\ TypeOK /\ NoRaise /\ [Next]_vars => NoRaise'
<1> SUFFICES ASSUME canReport, TypeOK, NoRaise, [Next]_vars PROVE NoRaise'
  OBVIOUS
<1>p. pc \in [Threads -> Place]
  BY DEF TypeOK, ControlOK
<1>1. CASE Main \/ UNCHANGED vars
  BY <1>1 DEF Main, Submit, Shutdown, Join, vars, NoRaise
<1>2. ASSUME NEW w \in Threads, Work(w) PROVE NoRaise'
  <2>1. \A v \in Threads : pc'[v] = pc[v] \/ pc'[v] # "raise"
    <3>1. CASE Take(w) \/ Return(w) \/ Raise(w)
      BY <3>1, <1>p DEF Take, Return, Raise, Goto, NoRaise
    <3>2. CASE Compress(w)
      BY <3>2, <1>p DEF Compress, Goto, NoRaise
    <3>3. CASE Acquire(w) \/ AddError(w) \/ AddTime(w)
      BY <3>3, <1>p DEF Acquire, AddError, AddTime, Goto, NoRaise
    <3>4. CASE ReturnToMain(w)
      BY <3>4, <1>p, PoolAssumption DEF ReturnToMain
    <3>5. QED
      BY <1>2, <3>1, <3>2, <3>3, <3>4 DEF Work
  <2>2. QED
    BY <2>1 DEF NoRaise
<1>3. QED
  BY <1>1, <1>2 DEF Next

LEMMA FinishedStep == TypeOK /\ Finished /\ [Next]_vars => Finished'
<1> SUFFICES ASSUME TypeOK, Finished, [Next]_vars, main' = "done"
             PROVE  queue' = <<>> /\ \A w \in Threads : pc'[w] = "idle"
  BY DEF Finished
<1>1. CASE Main \/ UNCHANGED vars
  BY <1>1 DEF Main, Submit, Shutdown, Join, vars, Finished
<1>2. ASSUME NEW w \in Threads, Work(w) PROVE FALSE
  <2>1. main = "done"
    BY <1>2 DEF Work, Take, Compress, Return, ReturnToMain, Raise, Acquire, AddError, AddTime
  <2>2. queue = <<>> /\ pc[w] = "idle"
    BY <2>1 DEF Finished
  <2>3. QED
    BY <1>2, <2>2 DEF Work, Take, Compress, Return, ReturnToMain, Raise, Acquire, AddError, AddTime
<1>3. QED
  BY <1>1, <1>2 DEF Next

(* A step that takes from a thread only files it tried.                    *)
LEMMA Covering ==
  ASSUME Covered, UNCHANGED <<begin, queue>>,
         \A f \in File : result[f] # "none" => result'[f] # "none",
         \A w \in Threads : \A f \in File :
           f \in Left(w) => f \in Left(w)' \/ result'[f] # "none"
  PROVE  Covered'
<1>1. \A b \in DOMAIN queue : Waiting(b)' = Waiting(b)
  BY DEF Waiting
<1>2. QED
  BY <1>1 DEF Covered

LEMMA CoveredSubmit ==
  ASSUME BatchInv, Covered, Submit
  PROVE  Covered'
<1> DEFINE x == [first |-> begin, last |-> EndOf(begin)]
<1>0. PICK l : l = Len(queue) + 1
  OBVIOUS
<1>1. /\ UNCHANGED <<pc, i, end, result>> /\ queue' = Append(queue, x)
      /\ begin' = EndOf(begin) + 1
  BY DEF Submit
<1>2. begin \in 0 .. NFiles /\ begin < NFiles
  BY RangeOf DEF BatchInv, TypeOK, Submit
<1>3. x \in Batch /\ EndOf(begin) \in Int
  BY <1>2, EndOfInList, PoolAssumption DEF Batch, File
<1>4. /\ \A b \in DOMAIN queue : queue'[b] = queue[b] /\ b \in DOMAIN queue'
      /\ queue'[l] = x /\ l \in DOMAIN queue'
  <2>1. queue \in Seq(Batch)
    BY DEF BatchInv, TypeOK, RangesOK
  <2> HIDE DEF x
  <2>2. QED
    BY <2>1, <1>0, <1>1, <1>3, QueueAppend
<1>5. Waiting(l)' = begin .. EndOf(begin)
  <2>1. queue'[l].first = begin /\ queue'[l].last = EndOf(begin)
    BY <1>4
  <2>2. QED
    BY <2>1 DEF Waiting
<1>6. /\ \A b \in DOMAIN queue : Waiting(b)' = Waiting(b)
      /\ \A w \in Threads : Left(w)' = Left(w)
  BY <1>1, <1>4 DEF Waiting, Left
<1>7. \A f \in File : f < begin' => f < begin \/ f \in Waiting(l)'
  <2>1. \A f \in File : f \in Int
    BY DEF File
  <2>2. QED
    BY ONLY <1>1, <1>2, <1>3, <1>5, <2>1
<1>8. /\ \A b \in DOMAIN queue : b \in DOMAIN queue'
      /\ l \in DOMAIN queue' /\ result' = result
  BY <1>1, <1>4
<1>9. QED
  BY ONLY <1>6, <1>7, <1>8, Covered DEF Covered

LEMMA CoveredTake ==
  ASSUME BatchInv, Covered, NEW w \in Threads, Take(w)
  PROVE  Covered'
<1>1. /\ 1 \in DOMAIN queue /\ Head(queue) = queue[1]
      /\ \A b \in DOMAIN queue : b # 1 =>
           b - 1 \in DOMAIN queue' /\ queue'[b - 1] = queue[b]
  <2>1. queue \in Seq(Batch) /\ queue # <<>> /\ queue' = Tail(queue)
    BY DEF BatchInv, TypeOK, RangesOK, Take
  <2>2. /\ Head(queue) = queue[1] /\ Len(queue) \in Nat /\ 1 \in 1 .. Len(queue)
        /\ DOMAIN queue = 1 .. Len(queue) /\ DOMAIN queue' = 1 .. Len(queue')
        /\ Len(queue') = Len(queue) - 1
        /\ \A b \in 1 .. Len(queue') : queue'[b] = queue[b + 1]
    BY <2>1, QueueTail
  <2>3. \A b \in 1 .. Len(queue) : b # 1 => b - 1 \in 1 .. Len(queue') /\ (b - 1) + 1 = b
    BY ONLY <2>2
  <2>4. QED
    BY <2>2, <2>3
<1>2. /\ pc \in [Threads -> Place]
      /\ i \in [Threads -> 0 .. NFiles] /\ end \in [Threads -> 0 .. NFiles]
  BY RangeOf DEF BatchInv, TypeOK, ControlOK
<1>3. Left(w) = {} /\ Left(w)' = Waiting(1)
  <2>1. /\ pc[w] = "idle" /\ pc'[w] = "file"
        /\ i'[w] = queue[1].first /\ end'[w] = queue[1].last
    BY <1>1, <1>2 DEF Take, Goto
  <2>2. QED
    BY <2>1 DEF Left, Waiting
<1>4. \A v \in Threads \ {w} : Left(v)' = Left(v)
  BY <1>2 DEF Take, Goto, Left
<1>5. \A b \in DOMAIN queue : b = 1 \/ \E c \in DOMAIN queue' : Waiting(c)' = Waiting(b)
  BY <1>1 DEF Waiting
<1>6. UNCHANGED <<begin, result>>
  BY DEF Take
<1>7. QED
  BY ONLY <1>3, <1>4, <1>5, <1>6, Covered DEF Covered

LEMMA CoveredStep ==
  canReport /\ BatchInv /\ TypeOK' /\ NoRaise /\ Covered /\ [Next]_vars => Covered'
<1> SUFFICES ASSUME canReport, BatchInv, TypeOK, TypeOK', NoRaise, Covered, [Next]_vars
             PROVE  Covered'
  BY DEF BatchInv
<1>p. pc \in [Threads -> Place] /\ i \in [Threads -> 0 .. NFiles]
  BY RangeOf DEF TypeOK, ControlOK
<1>1. CASE Submit
  BY <1>1, CoveredSubmit
<1>2. CASE Shutdown \/ Join \/ UNCHANGED vars
  <2>1. UNCHANGED <<begin, queue, pc, i, end, result>>
    BY <1>2 DEF Shutdown, Join, vars
  <2>2. \A v \in Threads : Left(v)' = Left(v)
    BY <2>1 DEF Left
  <2>3. QED
    BY <2>1, <2>2, Covering
<1>3. ASSUME NEW w \in Threads, Take(w) PROVE Covered'
  BY <1>3, CoveredTake
<1>4. ASSUME NEW w \in Threads, Compress(w) PROVE Covered'
  <2>1. /\ UNCHANGED <<begin, queue, end>> /\ pc[w] = "file" /\ i[w] <= end[w]
        /\ \A v \in Threads \ {w} : pc'[v] = pc[v] /\ i'[v] = i[v]
        /\ \/ pc'[w] = "lock error" /\ i'[w] = i[w]
           \/ pc'[w] = "file" /\ i'[w] = i[w] + 1
    BY <1>4, <1>p DEF Compress, Goto
  <2>2. /\ \A f \in File : result[f] # "none" => result'[f] # "none"
        /\ \A f \in File : f = i[w] => result'[f] # "none"
    <3>1. PICK r \in {"missing", "ok", "failed"} : result' = [result EXCEPT ![i[w]] = r]
      BY <1>4 DEF Compress
    <3>2. result \in [File -> {"none", "missing", "ok", "failed"}] /\ r # "none"
      BY DEF TypeOK, CountsOK
    <3>3. QED
      BY ONLY <3>1, <3>2
  <2>3. Left(w) = i[w] .. end[w] /\ Left(w)' = i[w] + 1 .. end[w]
    BY <2>1 DEF Left
  <2>4. i[w] \in Int /\ end[w] \in Int
    BY RangeOf DEF TypeOK
  <2>5. \A f \in Left(w) : f \in Left(w)' \/ f = i[w]
    BY ONLY <2>3, <2>4
  <2>6. \A v \in Threads \ {w} : Left(v)' = Left(v)
    BY <2>1, LeftSame
  <2>7. \A v \in Threads : \A f \in File :
          f \in Left(v) => f \in Left(v)' \/ result'[f] # "none"
    BY ONLY <2>2, <2>5, <2>6
  <2>8. \A f \in File : result[f] # "none" => result'[f] # "none"
    BY <2>2
  <2>9. UNCHANGED <<begin, queue>>
    BY <2>1
  <2>10. QED
    BY ONLY Covered, <2>7, <2>8, <2>9, Covering
<1>5. ASSUME NEW w \in Threads, Return(w) \/ Raise(w) \/ Acquire(w) \/ AddError(w) \/ AddTime(w)
      PROVE  Covered'
  <2>1. /\ UNCHANGED <<begin, queue, end, result>>
        /\ \A v \in Threads \ {w} : pc'[v] = pc[v] /\ i'[v] = i[v]
    BY <1>5, <1>p DEF Return, Raise, Acquire, AddError, AddTime, Goto
  <2>2. Left(w) \subseteq Left(w)'
    <3>1. CASE Return(w)
      <4>1. pc[w] = "file" /\ i[w] > end[w]
        BY <3>1 DEF Return
      <4>2. i[w] \in Int /\ end[w] \in Int /\ Left(w) = i[w] .. end[w]
        BY <4>1, RangeOf DEF TypeOK, Left
      <4>3. Left(w) = {}
        BY <4>1, <4>2
      <4>4. QED
        BY <4>3
    <3>2. CASE Raise(w)
      BY <3>2 DEF Raise, NoRaise
    <3>3. CASE Acquire(w)
      BY <3>3, <1>p DEF Acquire, Goto, Left
    <3>4. CASE AddError(w)
      BY <3>4, <1>p DEF AddError, Goto, Left
    <3>5. CASE AddTime(w)
      BY <3>5 DEF AddTime, Left
    <3>6. QED
      BY <1>5, <3>1, <3>2, <3>3, <3>4, <3>5
  <2>3. \A v \in Threads \ {w} : Left(v)' = Left(v)
    BY <2>1, LeftSame
  <2>4. QED
    BY <2>1, <2>2, <2>3, Covering
<1>6. ASSUME NEW w \in Threads, ReturnToMain(w) PROVE Covered'
  <2>1. /\ UNCHANGED <<begin, queue, i, end, result>>
        /\ \A v \in Threads : \/ pc'[v] = pc[v]
                              \/ v = w /\ pc[v] = "file" /\ i[v] > end[v]
                              \/ pc[v] = "idle"
    BY <1>6, <1>p, PoolAssumption DEF ReturnToMain
  <2>2. i[w] \in Int /\ end[w] \in Int
    BY RangeOf DEF TypeOK
  <2>3. ASSUME NEW v \in Threads, pc'[v] # pc[v] PROVE Left(v) = {}
    <3>1. CASE pc[v] = "idle"
      BY <3>1 DEF Left
    <3>2. CASE v = w /\ pc[v] = "file" /\ i[v] > end[v]
      <4>1. Left(v) = i[v] .. end[v]
        BY <3>2 DEF Left
      <4>2. QED
        BY <2>2, <3>2, <4>1
    <3>3. QED
      BY <2>1, <2>3, <3>1, <3>2
  <2>4. ASSUME NEW v \in Threads PROVE Left(v) = {} \/ Left(v)' = Left(v)
    <3>1. CASE pc'[v] = pc[v]
      <4>1. i'[v] = i[v] /\ end'[v] = end[v]
        BY <2>1
      <4>2. QED
        BY <3>1, <4>1, LeftSame
    <3>2. QED
      BY <2>3, <3>1
  <2>5. QED
    BY <2>1, <2>4, Covering
<1>7. QED
  BY <1>1, <1>2, <1>3, <1>4, <1>5, <1>6 DEF Next, Main, Work

LEMMA CutTypes ==
  ASSUME TypeOK
  PROVE  /\ Cut \in Nat /\ time \in Nat /\ Len(queue) \in Nat
         /\ IsFiniteSet(Running) /\ Cardinality(Running) \in Nat
<1>1. IsFiniteSet(Running) /\ Cardinality(Running) \in Nat
  BY FiniteThreads DEF Running
<1>2. Len(queue) \in Nat
  BY DEF TypeOK, RangesOK
<1>3. time \in Nat
  BY DEF TypeOK, CountsOK
<1>4. QED
  BY ONLY <1>1, <1>2, <1>3 DEF Cut

LEMMA CutInit == Init => CutInv
<1> SUFFICES ASSUME Init PROVE CutInv
  OBVIOUS
<1>1. Running = {} /\ time = 0 /\ Len(queue) = 0 /\ begin = 0
  BY DEF Init, Running
<1>2. Cardinality({}) = 0
  BY FS_EmptySet, Zenon
<1>3. Cut = 0
  BY ONLY <1>1, <1>2 DEF Cut
<1>4. CASE NFiles = 0
  BY <1>1, <1>3, <1>4 DEF CutInv, Batches
<1>5. CASE NFiles # 0
  <2>1. 0 * Step = 0 /\ 0 < NFiles
    BY <1>5, StepPositive, PoolAssumption
  <2>2. QED
    BY <1>1, <1>3, <2>1 DEF CutInv
<1>6. QED
  BY <1>4, <1>5

(* The arithmetic of Submit: a cut adds one batch.                         *)
LEMMA CutSubmit ==
  ASSUME TypeOK, CutInv, Submit
  PROVE  CutInv'
<1>1. begin < NFiles /\ begin \in 0 .. NFiles
  BY RangeOf DEF TypeOK, Submit
<1>2. Cut' = Cut + 1
  <2>1. /\ UNCHANGED <<time, pc>>
        /\ queue' = Append(queue, [first |-> begin, last |-> EndOf(begin)])
    BY DEF Submit
  <2>2. Running' = Running
    BY <2>1 DEF Running
  <2>3. Len(queue') = Len(queue) + 1
    <3>1. queue \in Seq(Batch)
      BY DEF TypeOK, RangesOK
    <3>2. QED
      BY <2>1, <3>1
  <2>4. QED
    BY ONLY <2>1, <2>2, <2>3, CutTypes, TypeOK DEF Cut
<1>3. begin = Cut * Step
  BY <1>1, PoolAssumption DEF CutInv
<1>4. Cut \in Nat /\ Step \in Nat \ {0} /\ NFiles \in Nat /\ begin \in Nat
  BY <1>1, CutTypes, StepPositive, PoolAssumption
<1>5. begin' = EndOf(begin) + 1
  BY DEF Submit
<1>6. (Cut + 1) * Step = begin + Step
  BY ONLY <1>3, <1>4
<1>7. begin' = IF begin + Step > NFiles THEN NFiles ELSE begin + Step
  BY ONLY <1>4, <1>5 DEF EndOf
<1>8. CASE begin + Step < NFiles
  BY ONLY <1>2, <1>4, <1>6, <1>7, <1>8 DEF CutInv
<1>9. CASE NFiles <= begin + Step
  <2>1. begin' = NFiles
    BY ONLY <1>4, <1>7, <1>9
  <2>2. (NFiles - 1) \div Step = Cut
    BY ONLY <1>1, <1>3, <1>4, <1>9, LastBatch
  <2>3. Batches = Cut + 1
    BY ONLY <1>1, <1>4, <2>2 DEF Batches
  <2>4. QED
    BY <1>2, <2>1, <2>3 DEF CutInv
<1>10. QED
  BY <1>4, <1>8, <1>9

LEMMA CutStep ==
  TypeOK /\ NoRaise /\ Held /\ CutInv /\ [Next]_vars => CutInv'
<1> SUFFICES ASSUME TypeOK, NoRaise, Held, CutInv, [Next]_vars PROVE CutInv'
  OBVIOUS
<1>p. pc \in [Threads -> Place]
  BY DEF TypeOK, ControlOK
<1>s. ASSUME Cut' = Cut, begin' = begin PROVE CutInv'
  BY <1>s DEF CutInv
<1>1. CASE Submit
  BY <1>1, CutSubmit
<1>2. CASE Shutdown \/ Join \/ UNCHANGED vars
  <2>1. UNCHANGED <<time, pc, queue, begin>>
    BY <1>2 DEF Shutdown, Join, vars
  <2>2. QED
    BY <2>1, <1>s DEF Cut, Running
<1>3. ASSUME NEW w \in Threads, Take(w) PROVE CutInv'
  <2>1. /\ Running' = Running \union {w} /\ w \notin Running
        /\ UNCHANGED <<time, begin>> /\ queue' = Tail(queue) /\ queue # <<>>
    BY <1>3, <1>p DEF Take, Goto, Running
  <2>2. Cardinality(Running') = Cardinality(Running) + 1
    BY <2>1, CutTypes, FS_AddElement, Zenon
  <2>3. Len(queue') = Len(queue) - 1
    <3>1. queue \in Seq(Batch)
      BY DEF TypeOK, RangesOK
    <3>2. QED
      BY <2>1, <3>1, QueueTail
  <2>4. Cut' = Cut
    BY ONLY <2>1, <2>2, <2>3, CutTypes, TypeOK DEF Cut
  <2>5. QED
    BY <2>1, <2>4, <1>s
<1>4. ASSUME NEW w \in Threads, AddTime(w) PROVE CutInv'
  <2>1. /\ Running' = Running \ {w} /\ w \in Running
        /\ UNCHANGED <<queue, begin>> /\ time' = time + 1
    BY <1>4, <1>p DEF AddTime, Goto, Running, Held
  <2>2. Cardinality(Running') = Cardinality(Running) - 1
    BY <2>1, CutTypes, FS_RemoveElement, Zenon
  <2>3. Cut' = Cut
    BY ONLY <2>1, <2>2, CutTypes, TypeOK DEF Cut
  <2>4. QED
    BY <2>1, <2>3, <1>s
<1>5. ASSUME NEW w \in Threads, Compress(w) \/ Return(w) \/ Raise(w) \/ Acquire(w) \/ AddError(w)
      PROVE  CutInv'
  <2>1. /\ UNCHANGED <<queue, begin, time>>
        /\ \A v \in Threads \ {w} : pc'[v] = pc[v]
        /\ pc[w] # "idle" /\ pc'[w] # "idle"
    <3>1. CASE Compress(w)
      BY <3>1, <1>p DEF Compress, Goto
    <3>2. CASE Return(w) \/ Raise(w)
      BY <3>2, <1>p DEF Return, Raise, Goto, NoRaise
    <3>3. CASE Acquire(w) \/ AddError(w)
      BY <3>3, <1>p DEF Acquire, AddError, Goto
    <3>4. QED
      BY <1>5, <3>1, <3>2, <3>3
  <2>2. Running' = Running
    BY <2>1 DEF Running
  <2>3. QED
    BY <2>1, <2>2, <1>s DEF Cut
<1>6. ASSUME NEW w \in Threads, ReturnToMain(w) PROVE CutInv'
  <2>1. /\ UNCHANGED <<queue, begin, time>>
        /\ Running' = (Running \ {w}) \union {MainThread}
        /\ w \in Running /\ MainThread \notin Running
    BY <1>6, <1>p, PoolAssumption DEF ReturnToMain, Running
  <2>2. /\ IsFiniteSet(Running \ {w})
        /\ Cardinality(Running \ {w}) = Cardinality(Running) - 1
    BY <2>1, CutTypes, FS_RemoveElement, Zenon
  <2>3. Cardinality(Running') = Cardinality(Running \ {w}) + 1
    BY <2>1, <2>2, FS_AddElement, Zenon
  <2>4. Cardinality(Running') = Cardinality(Running)
    BY ONLY <2>2, <2>3, CutTypes, TypeOK
  <2>5. Cut' = Cut
    BY ONLY <2>1, <2>4, CutTypes, TypeOK DEF Cut
  <2>6. QED
    BY <2>1, <2>5, <1>s
<1>7. QED
  BY <1>1, <1>2, <1>3, <1>4, <1>5, <1>6 DEF Next, Main, Work

LEMMA SummaryInit == Init => SummaryInv
<1> SUFFICES ASSUME Init PROVE NoRaise /\ Finished /\ Covered /\ CutInv
  BY DEF SummaryInv
<1>1. NoRaise /\ Finished
  BY DEF Init, NoRaise, Finished
<1>2. \A f \in File : ~(f < begin)
  BY PoolAssumption DEF Init, File
<1>3. Covered
  BY <1>2 DEF Covered
<1>4. QED
  BY <1>1, <1>3, CutInit

LEMMA SummaryHolds == BatchInv /\ SummaryInv => SummaryComplete
<1> SUFFICES ASSUME BatchInv, SummaryInv, canReport, main = "done"
             PROVE  (\A f \in File : result[f] # "none") /\ time = Batches
  BY DEF SummaryComplete
<1>1. queue = <<>> /\ (\A w \in Threads : pc[w] = "idle") /\ begin = NFiles
  BY DEF SummaryInv, Finished, BatchInv, Begun
<1>2. DOMAIN queue = {} /\ Len(queue) = 0
  BY <1>1
<1>3. \A w \in Threads : Left(w) = {}
  BY <1>1 DEF Left
<1>4. \A f \in File : f < begin
  BY <1>1, PoolAssumption DEF File
<1>5. \A f \in File : result[f] # "none"
  BY <1>2, <1>3, <1>4 DEF SummaryInv, Covered
<1>6. Running = {} /\ Cardinality({}) = 0
  BY <1>1, FS_EmptySet, Zenon DEF Running
<1>7. Cut = time
  BY <1>2, <1>6, CutTypes DEF Cut, BatchInv
<1>8. ~(begin < NFiles)
  BY <1>1, PoolAssumption
<1>9. QED
  BY <1>5, <1>7, <1>8 DEF SummaryInv, CutInv

(* In the drivers that can report a failed file, the main thread prints    *)
(* its totals when every file was tried and the time of every batch added  *)
(* (atomic_addTime, the shutdown of the pool).                             *)
THEOREM Summary == Spec => []SummaryComplete
<1> DEFINE Inv == BatchInv /\ Held /\ SummaryInv
<1>1. Init => Inv
  BY TypeInit, BegunInit, OnlyOnceInit, HeldInit, SummaryInit DEF BatchInv
<1>2. Inv /\ [Next]_vars => Inv'
  <2>1. SUFFICES ASSUME BatchInv, Held, SummaryInv, [Next]_vars PROVE Inv'
    OBVIOUS
  <2>2. BatchInv' /\ Held'
    BY <2>1, TypeStep, BegunStep, OnlyOnceStep, HeldStep DEF BatchInv
  <2>3. ASSUME canReport' PROVE NoRaise' /\ Finished' /\ Covered' /\ CutInv'
    BY <2>1, <2>2, <2>3, SameDriver, NoRaiseStep, FinishedStep, CoveredStep, CutStep
       DEF BatchInv, SummaryInv
  <2>4. QED
    BY <2>2, <2>3 DEF SummaryInv
<1>3. Inv => SummaryComplete
  BY SummaryHolds
<1>4. QED
  BY <1>1, <1>2, <1>3, PTL DEF Spec
=============================================================================
