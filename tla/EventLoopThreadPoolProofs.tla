--------------------- MODULE EventLoopThreadPoolProofs ---------------------
(* Proofs of the safety properties of EventLoopThreadPool, for any number  *)
(* of threads.                                                             *)
EXTENDS EventLoopThreadPool, FiniteSetTheorems, TLAPS

(* Counting threads. *)
LEMMA Counting ==
  ASSUME NEW n \in Nat, NEW S \in SUBSET (1..n)
  PROVE  /\ Cardinality(S) \in 0..n
         /\ Cardinality(S) = n => S = 1..n
         /\ \A x \in 1..n : x \notin S =>
              Cardinality(S \cup {x}) = Cardinality(S) + 1 /\ Cardinality(S) < n
  <1>1. IsFiniteSet(1..n) /\ Cardinality(1..n) = n
    BY FS_Interval
  <1>2. IsFiniteSet(S) /\ Cardinality(S) <= n /\ (Cardinality(S) = n => S = 1..n)
    BY ZenonT(60), <1>1, FS_Subset
  <1>3. Cardinality(S) \in Nat
    BY <1>2, FS_CardinalityType
  <1>4. \A x \in 1..n : x \notin S => Cardinality(S \cup {x}) = Cardinality(S) + 1
    BY <1>2, FS_AddElement
  <1> QED  BY <1>2, <1>3, <1>4

-----------------------------------------------------------------------------
(* The inductive invariant. *)

Early == {"none", "begin", "loop"}
Late  == {"post", "exited", "end", "ended"}

(* stop() has stored to the status of thread i; it has stopped its loop. *)
Told(i) ==
    \/ cpc = "stop" /\ i < index
    \/ cpc = "io" /\ i <= index
    \/ cpc \in {"stopped", "joined"}
Cut(i) == (cpc \in {"stop", "io"} /\ i < index) \/ cpc \in {"stopped", "joined"}

(* Where the caller is: its arguments, and the threads not spawned yet. *)
CallerInv ==
    /\ mode = "none" <=> cpc \in {"new", "spawn", "latch", "started"}
    /\ cpc \in {"latch", "io"} => index <= thread_num
    /\ cpc = "new" => index = 1 /\ status = "kNull"
    /\ cpc = "joined" => \A i \in Id : tpc[i] = "ended"
    /\ \A i \in Id : cpc = "new" \/ (cpc = "spawn" /\ i >= index)
                       \/ (cpc = "latch" /\ i > index) => tpc[i] = "none"

(* Where a thread is: its loop, its status and its latch. *)
ThreadInv ==
    \A i \in Id :
      /\ io_stopped[i] <=> Cut(i)
      /\ tpc[i] \in Late => io_stopped[i] /\ loop_status[i] = "kStopped"
      /\ tpc[i] \in {"run", "pre", "started"} => loop_status[i] = "kRunning"
      /\ latch[i] => tpc[i] \notin Early
      /\ tpc[i] \in {"pre", "started"} => latch[i]
      /\ fn_queued[i] => ~latch[i]
      /\ latch[i] /\ ~Told(i) => thread_status[i] = "kRunning"
      /\ thread_status[i] = "kStopped" <=> tpc[i] = "ended"

(* The counters count, and the last thread reports. *)
Passed == {i \in Id : latch[i] /\ tpc[i] # "pre"}
Gone   == {i \in Id : tpc[i] \in {"exited", "end", "ended"}}
CountInv ==
    /\ started_count = Cardinality(Passed) /\ exited_count = Cardinality(Gone)
    /\ \A i \in Id : tpc[i] = "started" => started_count = thread_num
    /\ \A i \in Id : tpc[i] = "exited" => exited_count = thread_num
    /\ \A i, j \in Id : tpc[i] = "started" /\ tpc[j] = "started" => i = j

(* What the pool's status and the done callback say of the threads. *)
StatusInv ==
    /\ mode = "none" => status \in {"kNull", "kStarting", "kRunning"} /\ done = 0
    /\ mode = "none" /\ status = "kRunning" => started_count = thread_num
    /\ status = "kStopped" /\ mode = "wait" => \A i \in Id : tpc[i] \in Late
    /\ done > 0 => \A i \in Id : tpc[i] \in Late
    /\ done <= 1
    /\ done = 1 => mode = "callback" /\ ~stopped_cb
    /\ stopped_cb => mode = "callback"

(* With start(true) nothing is left of the start when it returns. *)
WaitInv ==
    wait =>
      /\ cpc \notin {"new", "spawn", "latch"} => started_count = thread_num
      /\ started_count < thread_num /\ cpc # "new" => status = "kStarting"
      /\ \A i \in Id : tpc[i] = "started" => status = "kStarting" /\ cpc \in {"spawn", "latch"}

IInv == TypeOK /\ CallerInv /\ ThreadInv /\ CountInv /\ StatusInv /\ WaitInv

(* The counters are in range and, at their limit, cover every thread. *)
LEMMA CountFacts ==
  ASSUME TypeOK, CountInv
  PROVE  /\ thread_num \in Nat /\ started_count \in 0..thread_num /\ exited_count \in 0..thread_num
         /\ started_count = thread_num => \A i \in Id : latch[i] /\ tpc[i] # "pre"
         /\ exited_count = thread_num => \A i \in Id : tpc[i] \in {"exited", "end", "ended"}
         /\ \A i \in Id : i \notin Passed =>
              Cardinality(Passed \cup {i}) = started_count + 1 /\ started_count < thread_num
         /\ \A i \in Id : i \notin Gone =>
              Cardinality(Gone \cup {i}) = exited_count + 1 /\ exited_count < thread_num
  <1>1. thread_num \in Nat
    BY ConstAssumption DEF TypeOK, ConstAssumption
  <1>2. Passed \in SUBSET (1..thread_num) /\ Gone \in SUBSET (1..thread_num)
    BY DEF Passed, Gone, Id
  <1>3. started_count = Cardinality(Passed) /\ exited_count = Cardinality(Gone)
    BY DEF CountInv
  <1>4. /\ started_count \in 0..thread_num /\ (started_count = thread_num => Passed = Id)
        /\ \A i \in Id : i \notin Passed =>
             Cardinality(Passed \cup {i}) = started_count + 1 /\ started_count < thread_num
    BY <1>1, <1>2, <1>3, Counting DEF Id
  <1>5. /\ exited_count \in 0..thread_num /\ (exited_count = thread_num => Gone = Id)
        /\ \A i \in Id : i \notin Gone =>
             Cardinality(Gone \cup {i}) = exited_count + 1 /\ exited_count < thread_num
    BY ZenonT(60), <1>1, <1>2, <1>3, Counting DEF Id
  <1> QED  BY <1>1, <1>4, <1>5 DEF Passed, Gone

(* The invariant holds initially. *)
LEMMA InitIInv == Init => IInv
  <1> SUFFICES ASSUME Init PROVE IInv
    OBVIOUS
  <1> USE ConstAssumption DEF ConstAssumption, Id
  <1>1. TypeOK
    <2>1. stopped_cb \in BOOLEAN /\ wait \in BOOLEAN
      BY Zenon DEF Init
    <2>2. /\ latch \in [Id -> BOOLEAN] /\ io_stopped \in [Id -> BOOLEAN]
          /\ fn_queued \in [Id -> BOOLEAN]
      BY Zenon DEF Init
    <2>3. /\ thread_num \in 0..MaxThreads /\ started_count \in 0..thread_num
          /\ exited_count \in 0..thread_num /\ next \in Nat /\ index \in 1..(thread_num + 1)
          /\ done \in Nat /\ given \in [0..thread_num -> 0..MaxCalls]
      BY DEF Init
    <2> QED  BY <2>1, <2>2, <2>3 DEF Init, TypeOK, Status
  <1>2. CallerInv
    BY DEF Init, CallerInv
  <1>3. ThreadInv
    BY DEF Init, ThreadInv, Early, Late, Cut, Told
  <1>4. Passed = {} /\ Gone = {}
    BY DEF Init, Passed, Gone
  <1>5. CountInv
    BY <1>4, FS_EmptySet DEF Init, CountInv
  <1>6. StatusInv /\ WaitInv
    BY DEF Init, StatusInv, WaitInv
  <1> QED  BY <1>1, <1>2, <1>3, <1>5, <1>6 DEF IInv

-----------------------------------------------------------------------------
(* Steps of the caller. *)

(* Steps that leave latches and threads alone do not touch the counts. *)
LEMMA SameCounts ==
  ASSUME CountInv, UNCHANGED <<thread_num, started_count, exited_count, latch, tpc>>
  PROVE  CountInv'
  <1>1. Passed' = Passed /\ Gone' = Gone
    BY DEF Passed, Gone, Id
  <1> QED  BY <1>1 DEF CountInv, Id

(* start() begins. *)
LEMMA StartIInv ==
  ASSUME IInv, Start
  PROVE  IInv'
  <1> USE DEF IInv, threads
  <1>0. thread_num \in Nat /\ started_count \in 0..thread_num
    BY CountFacts
  <1>1. TypeOK'
    BY DEF Start, TypeOK, Id, Status
  <1>2. CallerInv'
    BY DEF Start, CallerInv, Id
  <1>3. ThreadInv'
    BY DEF Start, ThreadInv, CallerInv, Id, Cut, Told
  <1>4. CountInv'
    BY SameCounts DEF Start
  <1>5. StatusInv'
    BY <1>0 DEF Start, StatusInv, CallerInv, Id
  <1>6. WaitInv'
    BY <1>0 DEF Start, WaitInv, CallerInv, Id
  <1> QED  BY <1>1, <1>2, <1>3, <1>4, <1>5, <1>6

(* A thread is spawned. *)
LEMMA SpawnIInv ==
  ASSUME IInv, Spawn
  PROVE  IInv'
  <1> USE DEF IInv, pool
  <1>0. thread_num \in Nat /\ index \in Id /\ tpc[index] = "none" /\ ~latch[index]
    BY CountFacts DEF Spawn, TypeOK, CallerInv, ThreadInv, Id, Early
  <1>1. TypeOK'
    BY <1>0 DEF Spawn, TypeOK, Id, Status
  <1>2. CallerInv'
    BY <1>0 DEF Spawn, CallerInv, TypeOK, Id
  <1>3. ThreadInv'
    BY <1>0 DEF Spawn, ThreadInv, CallerInv, TypeOK, Id, Cut, Told, Early, Late
  <1>4. CountInv'
    <2>1. Passed' = Passed /\ Gone' = Gone
      BY <1>0 DEF Spawn, TypeOK, Passed, Gone, Id
    <2> QED  BY <1>0, <2>1 DEF Spawn, CountInv, TypeOK, Id
  <1>5. StatusInv'
    BY <1>0 DEF Spawn, StatusInv, CallerInv, TypeOK, Id, Late
  <1>6. WaitInv'
    BY <1>0 DEF Spawn, WaitInv, TypeOK, Id
  <1> QED  BY <1>1, <1>2, <1>3, <1>4, <1>5, <1>6

(* The waits of start() and its return. *)
LEMMA StartWaitsIInv ==
  ASSUME IInv, LatchWait \/ StartReturns
  PROVE  IInv'
  <1> USE DEF IInv, pool, threads
  <1>0. thread_num \in Nat /\ started_count \in 0..thread_num
    BY CountFacts
  <1>1. TypeOK'
    <2>1. index' \in 1..(thread_num + 1) /\ cpc' \in {"spawn", "started"}
      BY SMTT(30), <1>0 DEF LatchWait, StartReturns, TypeOK, CallerInv
    <2>2. UNCHANGED <<pool, threads, tpc, wait, mode, done, given>>
      BY DEF LatchWait, StartReturns
    <2> QED  BY <2>1, <2>2 DEF TypeOK, Id
  <1>2. CallerInv'
    <2>1. CASE LatchWait
      BY <1>0, <2>1 DEF LatchWait, CallerInv, TypeOK, Id
    <2>2. CASE StartReturns
      BY <1>0, <2>2 DEF StartReturns, CallerInv, Id
    <2> QED  BY <2>1, <2>2
  <1>3. ThreadInv'
    BY <1>0 DEF LatchWait, StartReturns, ThreadInv, Id, Cut, Told
  <1>4. CountInv'
    BY SameCounts DEF LatchWait, StartReturns
  <1>5. StatusInv'
    BY DEF LatchWait, StartReturns, StatusInv, Id
  <1>6. WaitInv'
    BY ZenonT(60), <1>0 DEF LatchWait, StartReturns, WaitInv, StatusInv, CallerInv, TypeOK, Id
  <1> QED  BY <1>1, <1>2, <1>3, <1>4, <1>5, <1>6

(* getNextLoop(). *)
LEMMA GetNextLoopIInv ==
  ASSUME IInv, GetNextLoop
  PROVE  IInv'
  <1> USE DEF IInv, threads, caller
  <1>0. thread_num \in Nat
    BY CountFacts
  <1>1. next' \in Nat /\ given' \in [0..thread_num -> 0..MaxCalls]
    <2>1. NextLoop \in Int
      BY <1>0 DEF NextLoop, TypeOK
    <2>2. NextLoop \in 0..thread_num
      BY <1>0 DEF NextLoop, TypeOK
    <2>3. given[NextLoop] + 1 \in 0..MaxCalls
      BY <2>2, ConstAssumption DEF GetNextLoop, TypeOK, ConstAssumption
    <2> QED  BY <2>2, <2>3 DEF GetNextLoop, TypeOK
  <1>2. UNCHANGED <<thread_num, status, started_count, exited_count, stopped_cb, thread_status,
                    latch, loop_status, io_stopped, fn_queued, tpc, cpc, index, wait, mode, done>>
    BY DEF GetNextLoop
  <1>3. TypeOK'
    BY <1>1, <1>2 DEF TypeOK, Id
  <1>4. CountInv'
    BY <1>2, SameCounts
  <1>5. CallerInv' /\ ThreadInv' /\ StatusInv' /\ WaitInv'
    BY <1>2 DEF CallerInv, ThreadInv, StatusInv, WaitInv, Id, Cut, Told
  <1> QED  BY <1>3, <1>4, <1>5

(* stop() begins. *)
LEMMA StopIInv ==
  ASSUME IInv, NEW m \in {"wait", "nowait", "callback"}, Stop(m)
  PROVE  IInv'
  <1> USE DEF IInv, threads
  <1>0. thread_num \in Nat /\ started_count \in 0..thread_num /\ mode = "none" /\ done = 0
    BY CountFacts DEF Stop, CallerInv, StatusInv
  <1>1. TypeOK'
    <2>1. stopped_cb' \in BOOLEAN
      BY DEF Stop
    <2> QED  BY <1>0, <2>1 DEF Stop, TypeOK, Id, Status
  <1>2. CallerInv'
    BY <1>0 DEF Stop, CallerInv, Id
  <1>3. ThreadInv'
    BY <1>0 DEF Stop, ThreadInv, Id, Cut, Told
  <1>4. CountInv'
    BY SameCounts DEF Stop
  <1>5. StatusInv'
    <2>1. CASE thread_num = 0
      <3>0. ~(thread_num > 0)
        BY <2>1
      <3>1. ~stopped_cb'
        BY <3>0, Zenon DEF Stop
      <3>4. mode' = m /\ thread_num' = 0 /\ status' = "kStopped"
        BY <2>1 DEF Stop
      <3>2. done' = IF m = "callback" THEN 1 ELSE 0
        BY <1>0, <2>1 DEF Stop
      <3>3. Id' = {}
        BY <3>4 DEF Id
      <3> QED  BY <3>1, <3>2, <3>3, <3>4 DEF StatusInv
    <2>2. CASE thread_num # 0
      BY ZenonT(60), <1>0, <2>2 DEF Stop, StatusInv, Id
    <2> QED  BY <2>1, <2>2
  <1>6. WaitInv'
    BY <1>0 DEF Stop, WaitInv, TypeOK, Id
  <1> QED  BY <1>1, <1>2, <1>3, <1>4, <1>5, <1>6

(* stop() of one thread: the status, then the loop. *)
LEMMA StopThreadIInv ==
  ASSUME IInv, StopThread \/ StopLoop
  PROVE  IInv'
  <1> USE DEF IInv, pool
  <1>0. thread_num \in Nat /\ index \in Id /\ index \in Nat
    BY CountFacts DEF StopThread, StopLoop, TypeOK, CallerInv, Id
  <1>1. TypeOK'
    <2>1. CASE StopThread
      BY <1>0, <2>1 DEF StopThread, TypeOK, Id, Status
    <2>2. CASE StopLoop
      <3>1. index' \in 1..(thread_num + 1) /\ io_stopped' \in [Id -> BOOLEAN]
        BY <1>0, <2>2 DEF StopLoop, TypeOK, Id
      <3> QED  BY <2>2, <3>1 DEF StopLoop, TypeOK, Id
    <2> QED  BY <2>1, <2>2
  <1>2. CallerInv'
    BY SMTT(30), <1>0 DEF StopThread, StopLoop, CallerInv, TypeOK, Id
  <1>3. ThreadInv'
    <2>1. CASE StopThread
      <3>1. ~io_stopped[index] /\ tpc[index] # "ended"
        BY <1>0, <2>1 DEF StopThread, ThreadInv, Cut, Late
      <3> QED  BY <1>0, <2>1, <3>1 DEF StopThread, ThreadInv, TypeOK, Id, Cut, Told
    <2>2. CASE StopLoop
      BY <1>0, <2>2 DEF StopLoop, ThreadInv, TypeOK, Id, Cut, Told
    <2> QED  BY <2>1, <2>2
  <1>4. CountInv'
    BY SameCounts DEF StopThread, StopLoop
  <1>5. StatusInv' /\ WaitInv'
    BY DEF StopThread, StopLoop, StatusInv, WaitInv, CallerInv, Id
  <1> QED  BY <1>1, <1>2, <1>3, <1>4, <1>5

(* stop() returns, and join(). *)
LEMMA StopReturnsIInv ==
  ASSUME IInv, StopReturns \/ Join
  PROVE  IInv'
  <1> USE DEF IInv, pool, threads
  <1>0. thread_num \in Nat /\ started_count \in 0..thread_num
    BY CountFacts
  <1>1. TypeOK'
    BY ZenonT(60) DEF StopReturns, Join, TypeOK, Id, Status
  <1>2. CallerInv'
    BY DEF StopReturns, Join, CallerInv, Id
  <1>3. ThreadInv'
    BY <1>0 DEF StopReturns, Join, ThreadInv, TypeOK, Id, Cut, Told
  <1>4. CountInv'
    BY SameCounts DEF StopReturns, Join
  <1>5. StatusInv'
    BY DEF StopReturns, Join, StatusInv, ThreadInv, CallerInv, Id, Late
  <1>6. WaitInv'
    <2>1. UNCHANGED <<thread_num, started_count, tpc, wait>>
      BY DEF StopReturns, Join
    <2>2. cpc \in {"stop", "stopped"} /\ cpc' \in {"stopped", "joined"}
      BY DEF StopReturns, Join
    <2> HIDE DEF IInv
    <2>3. WaitInv
      BY DEF IInv
    <2> QED  BY <1>0, <2>1, <2>2, <2>3 DEF WaitInv, Id
  <1> QED  BY <1>1, <1>2, <1>3, <1>4, <1>5, <1>6

-----------------------------------------------------------------------------
(* Steps of a loop thread. *)

(* A thread comes up: neither counted before nor after. *)
LEMMA ThreadBeginsIInv ==
  ASSUME IInv, NEW i \in Id, Begin(i) \/ LoopStart(i)
  PROVE  IInv'
  <1> USE DEF IInv, pool, caller, At, Goto
  <1>0. thread_num \in Nat /\ tpc[i] \in {"begin", "loop"} /\ ~latch[i] /\ tpc'[i] \in {"loop", "run"}
    BY CountFacts DEF Begin, LoopStart, TypeOK, ThreadInv, Early
  <1>a. /\ UNCHANGED <<thread_num, status, started_count, exited_count, stopped_cb, next, cpc, index,
                       wait, mode, done, latch>>
        /\ \A j \in Id \ {i} : tpc'[j] = tpc[j]
    BY DEF Begin, LoopStart, TypeOK
  <1>1. TypeOK'
    <2>1. CASE Begin(i)
      BY <2>1 DEF Begin, TypeOK, Id
    <2>2. CASE LoopStart(i)
      BY <2>2 DEF LoopStart, TypeOK, Id, Status
    <2> QED  BY <2>1, <2>2
  <1>2. CallerInv'
    BY SMTT(30), <1>0, <1>a DEF CallerInv, TypeOK, Id
  <1>3. ThreadInv'
    <2>1. CASE Begin(i)
      BY SMTT(30), <1>0, <2>1 DEF Begin, ThreadInv, TypeOK, Id, Cut, Told, Early, Late
    <2>2. CASE LoopStart(i)
      BY SMTT(30), <1>0, <2>2 DEF LoopStart, ThreadInv, TypeOK, Id, Cut, Told, Early, Late
    <2> QED  BY <2>1, <2>2
  <1>4. CountInv'
    <2>1. Passed' = Passed /\ Gone' = Gone
      BY <1>0, <1>a DEF Passed, Gone, Id
    <2> QED  BY <1>0, <1>a, <2>1 DEF CountInv, Id
  <1>5. StatusInv' /\ WaitInv'
    BY <1>0, <1>a DEF StatusInv, WaitInv, Id, Late
  <1> QED  BY SMTT(30), <1>1, <1>2, <1>3, <1>4, <1>5

(* The start-up function runs. *)
LEMMA RunFnIInv ==
  ASSUME IInv, NEW i \in Id, RunFn(i)
  PROVE  IInv'
  <1> USE DEF IInv, pool, caller, At, Goto
  <1>0. thread_num \in Nat /\ tpc[i] = "run" /\ ~latch[i]
    BY CountFacts DEF RunFn, ThreadInv
  <1>1. TypeOK'
    <2>1. latch' \in [Id -> BOOLEAN] /\ fn_queued' \in [Id -> BOOLEAN]
      BY DEF RunFn, TypeOK
    <2> QED  BY <2>1 DEF RunFn, TypeOK, Id, Status
  <1>2. CallerInv'
    BY <1>0 DEF RunFn, CallerInv, TypeOK, Id
  <1>3. ThreadInv'
    BY <1>0 DEF RunFn, ThreadInv, TypeOK, Id, Cut, Told, Early, Late
  <1>4. CountInv'
    <2>1. Passed' = Passed /\ Gone' = Gone
      BY <1>0 DEF RunFn, TypeOK, Passed, Gone, Id
    <2> QED  BY <1>0, <2>1 DEF RunFn, CountInv, TypeOK, Id
  <1>5. StatusInv' /\ WaitInv'
    BY <1>0 DEF RunFn, StatusInv, WaitInv, TypeOK, Id, Late
  <1> QED  BY <1>1, <1>2, <1>3, <1>4, <1>5

(* prefn counts the thread; the last one goes on to report. *)
LEMMA PreIInv ==
  ASSUME IInv, NEW i \in Id, Pre(i)
  PROVE  IInv'
  <1> USE DEF IInv, threads, caller, At, Goto
  <1>0. /\ tpc[i] = "pre" /\ latch[i] /\ i \notin Passed
        /\ started_count' = started_count + 1
        /\ tpc' = [tpc EXCEPT ![i] = IF started_count + 1 = thread_num THEN "started" ELSE "run"]
    BY DEF Pre, ThreadInv, Passed
  <1>a. /\ thread_num \in Nat /\ started_count \in 0..thread_num /\ started_count < thread_num
        /\ Cardinality(Passed \cup {i}) = started_count + 1
    BY <1>0, CountFacts
  <1>b. \A j \in Id : tpc[j] # "started"
    BY <1>a DEF CountInv
  <1>c. UNCHANGED <<thread_num, status, exited_count, stopped_cb, next, threads, cpc, index, wait,
                    mode, done, given>>
    BY DEF Pre
  <1>1. TypeOK'
    BY <1>0, <1>a, <1>c DEF TypeOK, Id
  <1>2. CallerInv'
    BY <1>0, <1>c DEF CallerInv, TypeOK, Id
  <1>3. ThreadInv'
    BY SMTT(30), <1>0, <1>c DEF ThreadInv, TypeOK, Id, Cut, Told, Early, Late
  <1>4. CountInv'
    <2>1. Passed' = Passed \cup {i} /\ Gone' = Gone
      BY <1>0, <1>c DEF TypeOK, Passed, Gone, Id
    <2>2. started_count' = Cardinality(Passed') /\ exited_count' = Cardinality(Gone')
      BY <1>0, <1>a, <1>c, <2>1 DEF CountInv
    <2> QED  BY SMTT(30), <1>0, <1>a, <1>b, <1>c, <2>2 DEF CountInv, TypeOK, Id
  <1>5. StatusInv'
    BY <1>0, <1>a, <1>c DEF StatusInv, TypeOK, Id, Late
  <1>6. WaitInv'
    BY SMTT(30), <1>0, <1>a, <1>b, <1>c DEF WaitInv, TypeOK, CallerInv, Id
  <1> QED  BY SMTT(30), <1>1, <1>2, <1>3, <1>4, <1>5, <1>6

(* The last thread to start reports kRunning. *)
LEMMA OnThreadStartedIInv ==
  ASSUME IInv, NEW i \in Id, OnThreadStarted(i)
  PROVE  IInv'
  <1> USE DEF IInv, threads, caller, At, Goto
  <1>0. thread_num \in Nat /\ tpc[i] = "started" /\ latch[i] /\ started_count = thread_num
    BY CountFacts DEF OnThreadStarted, ThreadInv, CountInv
  <1>1. TypeOK'
    BY DEF OnThreadStarted, TypeOK, Id, Status
  <1>2. CallerInv'
    BY <1>0 DEF OnThreadStarted, CallerInv, TypeOK, Id
  <1>3. ThreadInv'
    BY SMTT(30), <1>0 DEF OnThreadStarted, ThreadInv, TypeOK, Id, Cut, Told, Early, Late
  <1>4. CountInv'
    <2>1. Passed' = Passed /\ Gone' = Gone
      BY <1>0 DEF OnThreadStarted, TypeOK, Passed, Gone, Id
    <2> QED  BY ZenonT(60), <1>0, <2>1 DEF OnThreadStarted, CountInv, TypeOK, Id
  <1>5. StatusInv'
    BY <1>0 DEF OnThreadStarted, StatusInv, TypeOK, Id, Late
  <1>6. WaitInv'
    BY <1>0 DEF OnThreadStarted, WaitInv, CountInv, TypeOK, Id
  <1> QED  BY <1>1, <1>2, <1>3, <1>4, <1>5, <1>6

(* run() of a stopped loop returns. *)
LEMMA LoopExitIInv ==
  ASSUME IInv, NEW i \in Id, LoopExit(i)
  PROVE  IInv'
  <1> USE DEF IInv, pool, caller, At, Goto
  <1>0. thread_num \in Nat /\ tpc[i] = "run" /\ io_stopped[i]
    BY CountFacts DEF LoopExit
  <1>1. TypeOK'
    BY DEF LoopExit, TypeOK, Id, Status
  <1>2. CallerInv'
    BY SMTT(30), <1>0 DEF LoopExit, CallerInv, TypeOK, Id
  <1>3. ThreadInv'
    BY SMTT(30), <1>0 DEF LoopExit, ThreadInv, TypeOK, Id, Cut, Told, Early, Late
  <1>4. CountInv'
    <2>1. Passed' = Passed /\ Gone' = Gone
      BY SMTT(30), <1>0 DEF LoopExit, TypeOK, Passed, Gone, Id
    <2> QED  BY <1>0, <2>1 DEF LoopExit, CountInv, TypeOK, Id
  <1>5. StatusInv' /\ WaitInv'
    BY <1>0 DEF LoopExit, StatusInv, WaitInv, TypeOK, Id, Late
  <1> QED  BY <1>1, <1>2, <1>3, <1>4, <1>5

(* postfn counts the thread; the last one goes on to report. *)
LEMMA PostIInv ==
  ASSUME IInv, NEW i \in Id, Post(i)
  PROVE  IInv'
  <1> USE DEF IInv, threads, caller, At, Goto
  <1>0. /\ tpc[i] = "post" /\ i \notin Gone
        /\ exited_count' = exited_count + 1
        /\ tpc' = [tpc EXCEPT ![i] = IF exited_count + 1 = thread_num THEN "exited" ELSE "end"]
    BY DEF Post, Gone
  <1>a. /\ thread_num \in Nat /\ exited_count \in 0..thread_num /\ exited_count < thread_num
        /\ Cardinality(Gone \cup {i}) = exited_count + 1
    BY <1>0, CountFacts
  <1>b. \A j \in Id : tpc[j] # "exited"
    BY <1>a DEF CountInv
  <1>c. UNCHANGED <<thread_num, status, started_count, stopped_cb, next, threads, cpc, index, wait,
                    mode, done, given>>
    BY DEF Post
  <1>1. TypeOK'
    BY SMTT(30), <1>0, <1>a, <1>c DEF TypeOK, Id
  <1>2. CallerInv'
    BY SMTT(30), <1>0, <1>c DEF CallerInv, TypeOK, Id
  <1>3. ThreadInv'
    BY SMTT(30), <1>0, <1>c DEF ThreadInv, TypeOK, Id, Cut, Told, Early, Late
  <1>4. CountInv'
    <2>1. Passed' = Passed /\ Gone' = Gone \cup {i}
      BY SMTT(30), <1>0, <1>c DEF TypeOK, Passed, Gone, Id
    <2>2. started_count' = Cardinality(Passed') /\ exited_count' = Cardinality(Gone')
      BY <1>0, <1>a, <1>c, <2>1 DEF CountInv
    <2> QED  BY SMTT(30), <1>0, <1>a, <1>b, <1>c, <2>2 DEF CountInv, TypeOK, Id
  <1>5. StatusInv'
    BY <1>0, <1>a, <1>c DEF StatusInv, TypeOK, Id, Late
  <1>6. WaitInv'
    BY SMTT(30), <1>0, <1>a, <1>c DEF WaitInv, TypeOK, Id
  <1> QED  BY <1>1, <1>2, <1>3, <1>4, <1>5, <1>6

(* The last thread to leave reports kStopped and calls the done callback:  *)
(* all threads have left, and nobody reported before.                      *)
LEMMA OnThreadExitedIInv ==
  ASSUME IInv, NEW i \in Id, OnThreadExited(i)
  PROVE  IInv'
  <1> USE DEF IInv, threads, caller, At, Goto
  <1>0. thread_num \in Nat /\ tpc[i] = "exited" /\ exited_count = thread_num
    BY CountFacts DEF OnThreadExited, CountInv
  <1>a. \A j \in Id : tpc[j] \in {"exited", "end", "ended"}
    BY <1>0, CountFacts
  <1>b. io_stopped[i] /\ Cut(i)
    BY <1>0 DEF ThreadInv, Late
  <1>c. mode # "none"
    BY <1>b DEF CallerInv, Cut, TypeOK
  <1>d. /\ UNCHANGED <<thread_num, started_count, exited_count, next, threads, cpc, index, wait,
                        mode, given>>
        /\ tpc' = [tpc EXCEPT ![i] = "end"] /\ status' = "kStopped"
    BY DEF OnThreadExited
  <1>e. ~stopped_cb' /\ (stopped_cb => done' = done + 1) /\ (~stopped_cb => done' = done)
    BY Zenon DEF OnThreadExited
  <1>g. Id' = Id /\ tpc'[i] = "end" /\ \A j \in Id \ {i} : tpc'[j] = tpc[j]
    BY <1>d DEF TypeOK, Id
  <1>f. stopped_cb => done = 0 /\ mode = "callback"
    BY DEF StatusInv, TypeOK
  <1>1. TypeOK'
    <2>1. stopped_cb' \in BOOLEAN
      BY Zenon DEF OnThreadExited
    <2>2. done' \in Nat
      BY <1>e DEF TypeOK
    <2> QED  BY <1>d, <2>1, <2>2 DEF TypeOK, Id, Status
  <1>2. CallerInv'
    BY <1>0, <1>c, <1>d DEF CallerInv, TypeOK, Id
  <1>3. ThreadInv'
    BY SMTT(30), <1>0, <1>d DEF ThreadInv, TypeOK, Id, Cut, Told, Early, Late
  <1>4. CountInv'
    <2>1. Passed' = Passed /\ Gone' = Gone
      BY <1>0, <1>d DEF TypeOK, Passed, Gone, Id
    <2> QED  BY <1>d, <1>g, <2>1 DEF CountInv
  <1>5. StatusInv'
    <2>1. \A j \in Id' : tpc'[j] \in Late
      BY <1>a, <1>d DEF TypeOK, Id, Late
    <2>2. done' <= 1 /\ (done' = 1 => mode' = "callback")
      BY <1>d, <1>e, <1>f DEF StatusInv, TypeOK
    <2> QED  BY <1>c, <1>d, <1>e, <2>1, <2>2 DEF StatusInv
  <1>6. WaitInv'
    <2>1. started_count' = started_count /\ (wait => started_count = thread_num)
      BY SMTT(30), <1>c, <1>d DEF WaitInv, CallerInv
    <2> QED  BY <1>0, <1>a, <1>d, <1>g, <2>1 DEF WaitInv
  <1> QED  BY <1>1, <1>2, <1>3, <1>4, <1>5, <1>6

(* The thread function returns. *)
LEMMA EndIInv ==
  ASSUME IInv, NEW i \in Id, End(i)
  PROVE  IInv'
  <1> USE DEF IInv, pool, caller, At, Goto
  <1>0. thread_num \in Nat /\ tpc[i] = "end" /\ Cut(i)
    BY CountFacts DEF End, ThreadInv, Late
  <1>a. Told(i)
    BY <1>0 DEF Told, Cut, TypeOK, Id
  <1>1. TypeOK'
    BY DEF End, TypeOK, Id, Status
  <1>2. CallerInv'
    BY SMTT(30), <1>0 DEF End, CallerInv, TypeOK, Id
  <1>3. ThreadInv'
    BY SMTT(30), <1>0, <1>a DEF End, ThreadInv, TypeOK, Id, Cut, Told, Early, Late
  <1>4. CountInv'
    <2>1. Passed' = Passed /\ Gone' = Gone
      BY <1>0 DEF End, TypeOK, Passed, Gone, Id
    <2> QED  BY SMTT(30), <1>0, <2>1 DEF End, CountInv, TypeOK, Id
  <1>5. StatusInv' /\ WaitInv'
    BY <1>0 DEF End, StatusInv, WaitInv, TypeOK, Id, Late
  <1> QED  BY <1>1, <1>2, <1>3, <1>4, <1>5

-----------------------------------------------------------------------------
(* Every step of the caller and of the threads keeps the invariant, ... *)
LEMMA NextIInv ==
  ASSUME IInv, [Next]_vars
  PROVE  IInv'
  <1>1. CASE CallerStep
    BY <1>1, StartIInv, SpawnIInv, StartWaitsIInv, StopThreadIInv, StopReturnsIInv DEF CallerStep
  <1>2. CASE GetNextLoop
    BY <1>2, GetNextLoopIInv
  <1>3. CASE \E m \in {"wait", "nowait", "callback"} : Stop(m)
    BY <1>3, StopIInv
  <1>4. CASE \E i \in Id : ThreadStep(i)
    <2> PICK i \in Id : ThreadStep(i)
      BY <1>4
    <2> QED  BY ThreadBeginsIInv, RunFnIInv, PreIInv, OnThreadStartedIInv, LoopExitIInv, PostIInv,
                OnThreadExitedIInv, EndIInv DEF ThreadStep
  <1>5. CASE UNCHANGED vars
    <2> USE <1>5 DEF vars, pool, threads, caller
    <2>1. TypeOK' /\ CallerInv' /\ StatusInv' /\ WaitInv'
      BY SMTT(30) DEF IInv, TypeOK, CallerInv, StatusInv, WaitInv, Id
    <2>2. ThreadInv'
      BY DEF IInv, ThreadInv, Cut, Told, Id
    <2>3. CountInv'
      BY SameCounts DEF IInv
    <2> QED  BY SMTT(30), <2>1, <2>2, <2>3 DEF IInv
  <1> QED  BY <1>1, <1>2, <1>3, <1>4, <1>5 DEF Next

(* ... so it holds in all reachable states. *)
LEMMA SpecIInv == Spec => []IInv
  BY InitIInv, NextIInv, PTL DEF Spec

(* Every variable keeps its type; in particular the counters stay within   *)
(* the number of threads.                                                  *)
THEOREM TypeCorrect == Spec => []TypeOK
  <1>1. IInv => TypeOK
    BY DEF IInv
  <1> QED  BY <1>1, SpecIInv, PTL

(* isRunning() of the pool is true only when every loop runs. *)
LEMMA IInvRunning == IInv => RunningMeansAllRun
  <1> SUFFICES ASSUME IInv, status = "kRunning", mode = "none", NEW i \in Id
               PROVE  loop_status[i] = "kRunning" /\ thread_status[i] = "kRunning"
    BY DEF RunningMeansAllRun
  <1>1. TypeOK /\ CallerInv /\ ThreadInv /\ CountInv /\ StatusInv
    BY DEF IInv
  <1>2. started_count = thread_num
    BY <1>1 DEF StatusInv
  <1>3. latch[i] /\ tpc[i] # "pre"
    BY <1>1, <1>2, CountFacts
  <1>4. ~Cut(i) /\ ~Told(i)
    BY SMTT(30), <1>1 DEF CallerInv, Cut, Told
  <1> QED  BY SMTT(30), <1>1, <1>3, <1>4 DEF ThreadInv, TypeOK, Early, Late

(* isRunning() of the pool is true only when every loop runs. *)
THEOREM RunningHolds == Spec => []RunningMeansAllRun
  BY IInvRunning, SpecIInv, PTL

(* A stop is reported only when every loop has left run(), the done        *)
(* callback runs at most once, and only stopped threads are destroyed.     *)
THEOREM StoppedHolds == Spec => []StoppedMeansAllExited
  <1>1. IInv => StoppedMeansAllExited
    BY DEF IInv, StoppedMeansAllExited, StatusInv, ThreadInv, CallerInv, TypeOK
  <1> QED  BY <1>1, SpecIInv, PTL

(* The assertion of EventLoopThread::stop holds in a pool whose start      *)
(* waited for its threads.                                                 *)
THEOREM StopAssertHolds == Spec => []StopAssert
  <1>1. IInv => StopAssert
    <2> SUFFICES ASSUME IInv, wait, cpc = "stop", index <= thread_num
                 PROVE  thread_status[index] = "kRunning" /\ loop_status[index] = "kRunning"
      BY DEF StopAssert
    <2>1. TypeOK /\ ThreadInv /\ CountInv /\ WaitInv
      BY DEF IInv
    <2>2. started_count = thread_num
      BY <2>1 DEF WaitInv
    <2>3. index \in Id
      BY SMTT(30), <2>1, CountFacts DEF TypeOK, Id
    <2>4. latch[index] /\ tpc[index] # "pre"
      BY <2>1, <2>2, <2>3, CountFacts
    <2>5. ~Cut(index) /\ ~Told(index)
      BY <2>1, CountFacts DEF TypeOK, Cut, Told
    <2> QED  BY <2>1, <2>3, <2>4, <2>5 DEF ThreadInv, TypeOK, Early, Late
  <1> QED  BY <1>1, SpecIInv, PTL

(* The order of the statuses. *)
LEMMA Ranks ==
  /\ Rank["kStarting"] >= Rank["kNull"] /\ Rank["kRunning"] >= Rank["kNull"]
  /\ Rank["kRunning"] >= Rank["kStarting"]
  /\ \A s \in {"kNull", "kStarting", "kRunning"} : Rank["kStopping"] >= Rank[s]
  /\ \A s \in Status : Rank["kStopped"] >= Rank[s] /\ Rank[s] >= Rank[s]
  <1>1. /\ Rank["kNull"] = 0 /\ Rank["kStarting"] = 1 /\ Rank["kRunning"] = 2
        /\ Rank["kStopping"] = 3 /\ Rank["kStopped"] = 4
    BY DEF Rank
  <1> QED
    BY <1>1 DEF Status

(* After start(true) no late report moves the pool's status back. *)
THEOREM StatusMonotoneHolds == Spec => StatusMonotone
  <1>1. ASSUME IInv, [Next]_vars
        PROVE  [wait => Rank[status'] >= Rank[status]]_vars
    <2>1. TypeOK /\ CallerInv /\ StatusInv /\ WaitInv /\ status \in Status
      BY <1>1 DEF IInv, TypeOK
    <2> SUFFICES ASSUME wait, status' # status
                 PROVE  Rank[status'] >= Rank[status]
      BY <2>1, Ranks
    <2>2. CASE CallerStep
      <3>1. Start \/ StopReturns
        BY ZenonT(60), <2>2 DEF CallerStep, Spawn, LatchWait, StartReturns, StopThread, StopLoop, Join,
                    pool, threads, caller
      <3>2. CASE Start
        <4>1. status = "kNull" /\ status' \in {"kStarting", "kRunning"}
          BY <2>1, <3>2 DEF Start, CallerInv
        <4> QED  BY <4>1, Ranks
      <3>3. CASE StopReturns
        <4>1. status' = "kStopped"
          BY <3>3 DEF StopReturns
        <4> QED  BY <4>1, <2>1, Ranks
      <3> QED  BY SMTT(30), <3>1, <3>2, <3>3
    <2>3. CASE GetNextLoop
      BY <2>3 DEF GetNextLoop, pool, threads, caller
    <2>4. CASE \E m \in {"wait", "nowait", "callback"} : Stop(m)
      <3>1. /\ status' \in {"kStopping", "kStopped"}
            /\ status \in {"kNull", "kStarting", "kRunning"}
        BY <2>1, <2>4 DEF Stop, CallerInv, StatusInv
      <3> QED  BY <2>1, <3>1, Ranks
    <2>5. CASE \E i \in Id : ThreadStep(i)
      <3> PICK i \in Id : ThreadStep(i)
        BY <2>5
      <3>1. OnThreadStarted(i) \/ OnThreadExited(i)
        BY ZenonT(60) DEF ThreadStep, Begin, LoopStart, RunFn, Pre, LoopExit, Post, End,
               pool, threads, caller
      <3>2. CASE OnThreadStarted(i)
        <4>1. status = "kStarting" /\ status' = "kRunning"
          BY <2>1, <3>2 DEF OnThreadStarted, At, WaitInv
        <4> QED  BY <4>1, Ranks
      <3>3. CASE OnThreadExited(i)
        <4>1. status' = "kStopped"
          BY <3>3 DEF OnThreadExited
        <4> QED  BY <4>1, <2>1, Ranks
      <3> QED  BY <3>1, <3>2, <3>3
    <2>6. CASE UNCHANGED vars
      BY <2>6 DEF vars, pool
    <2> QED  BY <1>1, <2>2, <2>3, <2>4, <2>5, <2>6 DEF Next
  <1> QED  BY <1>1, SpecIInv, PTL DEF Spec, StatusMonotone

-----------------------------------------------------------------------------
(* Where getNextLoop() is in its round: the loops up to next_ have had one *)
(* call more than the others.                                              *)
RoundRobin ==
    thread_num > 0 =>
      \E q \in Nat : \A i \in Id :
        given[i] = IF i <= next % thread_num THEN q + 1 ELSE q

(* Counting modulo n. *)
LEMMA ModStep ==
  ASSUME NEW n \in Nat, n > 0, NEW k \in Nat
  PROVE  /\ k % n \in 0..(n - 1)
         /\ (k + 1) % n = IF k % n = n - 1 THEN 0 ELSE (k % n) + 1
  <1>1. k % n \in 0..(n - 1)
    OBVIOUS
  <1>2. PICK a \in Int : k = n * a + (k % n)
    <2>1. k = n * (k \div n) + (k % n) /\ (k \div n) \in Int
      OBVIOUS
    <2> QED  BY <2>1
  <1>3. PICK b \in Int : k + 1 = n * b + ((k + 1) % n)
    <2>1. k + 1 = n * ((k + 1) \div n) + ((k + 1) % n) /\ ((k + 1) \div n) \in Int
      OBVIOUS
    <2> QED  BY SMTT(30), <2>1
  <1>4. (k + 1) % n \in 0..(n - 1)
    OBVIOUS
  <1>5. \A c \in Int : (c >= 1 => n * c >= n) /\ (c <= -1 => n * c <= -n)
    OBVIOUS
  <1>6. n * (b - a) = n * b - n * a /\ b - a \in Int /\ n * a \in Int /\ n * b \in Int
    OBVIOUS
  <1>7. b - a \in {0, 1}
    <2>1. n * (b - a) = (k % n) + 1 - ((k + 1) % n)
      BY <1>1, <1>2, <1>3, <1>4, <1>6
    <2>2. ~(b - a <= -1)
      BY <1>1, <1>4, <1>5, <1>6, <2>1
    <2>3. b - a >= 2 => n * (b - a - 1) >= n /\ n * (b - a) = n * (b - a - 1) + n
      BY <1>5, <1>6
    <2> QED  BY <1>1, <1>4, <1>6, <2>1, <2>2, <2>3
  <1>8. CASE b - a = 0
    <2>1. (k + 1) % n = (k % n) + 1
      BY <1>1, <1>2, <1>3, <1>4, <1>6, <1>8
    <2> QED  BY <1>1, <1>4, <2>1
  <1>9. CASE b - a = 1
    <2>1. (k + 1) % n = (k % n) + 1 - n
      BY <1>1, <1>2, <1>3, <1>4, <1>6, <1>9
    <2> QED  BY <1>1, <1>4, <2>1
  <1> QED  BY <1>7, <1>8, <1>9

(* No loop has been handed out at first. *)
LEMMA RoundRobinInit == Init => RoundRobin
  <1> SUFFICES ASSUME Init, thread_num > 0 PROVE RoundRobin
    BY DEF RoundRobin
  <1>1. thread_num \in Nat /\ next = 0
    BY ConstAssumption DEF Init, ConstAssumption
  <1>2. next % thread_num = 0
    BY <1>1
  <1>3. \A i \in Id : given[i] = 0 /\ ~(i <= next % thread_num)
    BY <1>1, <1>2 DEF Init, Id
  <1> QED  BY <1>3 DEF RoundRobin

(* One call of getNextLoop(): the loop it takes is the first of those that *)
(* have had the fewest calls.                                              *)
LEMMA GetNextLoopTurn ==
  ASSUME IInv, RoundRobin, GetNextLoop
  PROVE  /\ RoundRobin'
         /\ \A i \in Id : given'[i] # given[i] =>
              status = "kRunning" /\ \A j \in Id : given[i] <= given[j]
  <1> USE DEF Id
  <1>1. /\ thread_num \in Nat /\ next \in Nat /\ thread_num' = thread_num
        /\ given \in [0..thread_num -> 0..MaxCalls] /\ MaxCalls \in Nat
    BY CountFacts, ConstAssumption DEF IInv, TypeOK, GetNextLoop, ConstAssumption
  <1>2. CASE NextLoop = 0
    <2>1. next' = next /\ \A i \in Id : given'[i] = given[i]
      BY <1>1, <1>2 DEF GetNextLoop
    <2>2. RoundRobin'
      BY ZenonT(30), <1>1, <2>1 DEF RoundRobin
    <2> QED  BY <2>1, <2>2
  <1>3. CASE NextLoop # 0
    <2>1. /\ status = "kRunning" /\ thread_num > 0 /\ NextLoop = (next % thread_num) + 1
          /\ next' = next + 1
      BY <1>3 DEF NextLoop, GetNextLoop
    <2> DEFINE r == next % thread_num
    <2>2. r \in 0..(thread_num - 1) /\ next' % thread_num = IF r = thread_num - 1 THEN 0 ELSE r + 1
      BY ZenonT(30), <1>1, <2>1, ModStep
    <2>3. PICK q \in Nat : \A i \in Id : given[i] = IF i <= r THEN q + 1 ELSE q
      BY <2>1 DEF RoundRobin
    <2>4. \A i \in Id : given'[i] = IF i = r + 1 THEN given[i] + 1 ELSE given[i]
      BY <1>1, <2>1 DEF GetNextLoop
    <2> HIDE DEF r
    <2>5. \A i \in Id : given'[i] # given[i] => status = "kRunning" /\ \A j \in Id : given[i] <= given[j]
      BY SMTT(30), <1>1, <2>1, <2>2, <2>3, <2>4
    <2>6. RoundRobin'
      <3>1. CASE r = thread_num - 1
        <4>1. \A i \in Id : given'[i] = q + 1 /\ ~(i <= next' % thread_num)
          BY <1>1, <2>2, <2>3, <2>4, <3>1
        <4>2. q + 1 \in Nat
          OBVIOUS
        <4> QED  BY <1>1, <4>1, <4>2 DEF RoundRobin
      <3>2. CASE r # thread_num - 1
        <4>1. \A i \in Id : given'[i] = IF i <= next' % thread_num THEN q + 1 ELSE q
          BY <1>1, <2>2, <2>3, <2>4, <3>2
        <4> QED  BY ZenonT(30), <1>1, <4>1 DEF RoundRobin
      <3> QED  BY <3>1, <3>2
    <2> QED  BY <2>5, <2>6
  <1> QED  BY SMTT(30), <1>2, <1>3

(* Nothing else hands out loops. *)
LEMMA OthersGiveNothing ==
  ASSUME [Next]_vars, ~GetNextLoop
  PROVE  UNCHANGED <<thread_num, next, given>>
  <1> USE DEF pool, threads, caller
  <1>1. CASE CallerStep
    BY <1>1 DEF CallerStep, Start, Spawn, LatchWait, StartReturns, StopThread, StopLoop,
                StopReturns, Join
  <1>2. CASE \E m \in {"wait", "nowait", "callback"} : Stop(m)
    BY SMTT(30), <1>2 DEF Stop
  <1>3. CASE \E i \in Id : ThreadStep(i)
    <2> PICK i \in Id : ThreadStep(i)
      BY <1>3
    <2> QED  BY DEF ThreadStep, Begin, LoopStart, RunFn, Pre, OnThreadStarted, LoopExit, Post,
                    OnThreadExited, End
  <1>4. CASE UNCHANGED vars
    BY <1>4 DEF vars
  <1> QED  BY SMTT(30), <1>1, <1>2, <1>3, <1>4 DEF Next

(* getNextLoop() hands out only loops that have entered run() and are not  *)
(* stopped, and of those one that has had the fewest connections.          *)
THEOREM NextLoopHolds == Spec => NextLoopLive
  <1> DEFINE Step == \A i \in Id : given'[i] # given[i] =>
                       /\ loop_status[i] = "kRunning" /\ ~io_stopped[i]
                       /\ \A j \in Id : given[i] <= given[j]
  <1>1. ASSUME IInv, RoundRobin, [Next]_vars
        PROVE  RoundRobin' /\ [Step]_vars
    <2>1. CASE GetNextLoop
      <3>1. \A i \in Id : status = "kRunning" => loop_status[i] = "kRunning" /\ ~io_stopped[i]
        <4> SUFFICES ASSUME NEW i \in Id, status = "kRunning"
                     PROVE  loop_status[i] = "kRunning" /\ ~io_stopped[i]
          OBVIOUS
        <4>1. TypeOK /\ CallerInv /\ ThreadInv
          BY <1>1 DEF IInv
        <4>2. cpc = "started" /\ mode = "none"
          BY <2>1, <4>1 DEF GetNextLoop, CallerInv
        <4>3. loop_status[i] = "kRunning"
          BY <1>1, <4>2, IInvRunning DEF RunningMeansAllRun
        <4>4. ~io_stopped[i]
          BY <4>1, <4>2 DEF ThreadInv, Cut
        <4> QED  BY <4>3, <4>4
      <3>2. /\ RoundRobin'
            /\ \A i \in Id : given'[i] # given[i] =>
                 status = "kRunning" /\ \A j \in Id : given[i] <= given[j]
        BY <1>1, <2>1, GetNextLoopTurn
      <3> QED  BY <3>1, <3>2
    <2>2. CASE ~GetNextLoop
      <3>1. UNCHANGED <<thread_num, next, given>>
        BY <1>1, <2>2, OthersGiveNothing
      <3> QED  BY <1>1, <3>1 DEF RoundRobin, Id
    <2> QED  BY <2>1, <2>2
  <1> QED  BY <1>1, RoundRobinInit, SpecIInv, PTL DEF Spec, NextLoopLive
=============================================================================
