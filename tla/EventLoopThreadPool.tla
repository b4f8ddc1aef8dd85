------------------------ MODULE EventLoopThreadPool ------------------------
(***************************************************************************)
(* EventLoopThreadPool (net/event_loop_thread_pool.cpp) with the           *)
(* EventLoopThreads it owns and the start and stop of their EventLoops:    *)
(* one thread that calls start(), getNextLoop(), stop() and join(), and    *)
(* thread_num_ loop threads that start, report, run until they are         *)
(* stopped, and report again.  Every access to an atomic status or counter *)
(* is a step.  Handlers other than the start-up function are left out:     *)
(* they do not touch this state.                                           *)
(***************************************************************************)
EXTENDS Integers, FiniteSets

CONSTANTS
    MaxThreads,     \* bound: thread_num_ is at most this
    MaxCalls        \* bound: calls of getNextLoop()

ASSUME ConstAssumption ==
    MaxThreads \in Nat /\ MaxCalls \in Nat

VARIABLES
    (* EventLoopThreadPool *)
    thread_num, status, started_count, exited_count, stopped_cb, next,
    (* EventLoopThread and EventLoop, one of each per thread *)
    thread_status, latch, loop_status, io_stopped, fn_queued,
    (* where the threads and the caller are, the caller's arguments *)
    tpc, cpc, index, wait, mode,
    (* history: calls of the done callback, loops handed out *)
    done, given

pool    == <<thread_num, status, started_count, exited_count, stopped_cb, next>>
threads == <<thread_status, latch, loop_status, io_stopped, fn_queued>>
caller  == <<cpc, index, wait, mode>>
vars    == <<pool, threads, tpc, caller, done, given>>

Id == 1..thread_num

Init ==
    /\ thread_num \in 0..MaxThreads
    /\ status = "kNull" /\ started_count = 0 /\ exited_count = 0
    /\ stopped_cb = FALSE /\ next = 0
    /\ thread_status = [i \in Id |-> "kNull"] /\ latch = [i \in Id |-> FALSE]
    /\ loop_status = [i \in Id |-> "kNull"] /\ io_stopped = [i \in Id |-> FALSE]
    /\ fn_queued = [i \in Id |-> FALSE]
    /\ tpc = [i \in Id |-> "none"]
    /\ cpc = "new" /\ index = 1 /\ wait \in BOOLEAN /\ mode = "none"
    /\ done = 0 /\ given = [i \in 0..thread_num |-> 0]

-----------------------------------------------------------------------------
(* The caller. *)

Start ==
    /\ cpc = "new"
    /\ IF thread_num = 0
       THEN status' = "kRunning" /\ cpc' = "started"
       ELSE status' = "kStarting" /\ cpc' = "spawn"
    /\ UNCHANGED <<thread_num, started_count, exited_count, stopped_cb, next,
                   threads, tpc, index, wait, mode, done, given>>

(* EventLoopThread::start: the thread begins to run. *)
Spawn ==
    /\ cpc = "spawn" /\ index <= thread_num
    /\ thread_status' = [thread_status EXCEPT ![index] = "kStarting"]
    /\ tpc' = [tpc EXCEPT ![index] = "begin"]
    /\ IF wait THEN cpc' = "latch" /\ UNCHANGED index
               ELSE index' = index + 1 /\ UNCHANGED cpc
    /\ UNCHANGED <<pool, latch, loop_status, io_stopped, fn_queued, wait, mode,
                   done, given>>

LatchWait ==
    /\ cpc = "latch" /\ latch[index]
    /\ cpc' = "spawn" /\ index' = index + 1
    /\ UNCHANGED <<pool, threads, tpc, wait, mode, done, given>>

(* Mutant: start(true) returns once the latches are down. *)
StartReturnsEarly ==
    /\ cpc = "spawn" /\ index > thread_num
    /\ cpc' = "started"
    /\ UNCHANGED <<pool, threads, tpc, index, wait, mode, done, given>>

StartReturns ==
    /\ cpc = "spawn" /\ index > thread_num
    /\ wait => status = "kRunning"
    /\ cpc' = "started"
    /\ UNCHANGED <<pool, threads, tpc, index, wait, mode, done, given>>

(* Mutant: isRunning() is not tested. *)
NextLoopAny ==
    IF thread_num > 0 THEN (next % thread_num) + 1 ELSE 0

(* getNextLoop(): the base loop is 0, the loop of thread i is i. *)
NextLoop ==
    IF status = "kRunning" /\ thread_num > 0 THEN (next % thread_num) + 1 ELSE 0

GetNextLoop ==
    /\ cpc = "started" /\ given[NextLoop] < MaxCalls
    /\ next' = IF NextLoop = 0 THEN next ELSE next + 1
    /\ given' = [given EXCEPT ![NextLoop] = @ + 1]
    /\ UNCHANGED <<thread_num, status, started_count, exited_count, stopped_cb,
                   threads, tpc, caller, done>>

(* stop(true), stop(false) and stop(fn). *)
Stop(m) ==
    /\ cpc = "started"
    /\ mode' = m
    /\ stopped_cb' = (m = "callback" /\ thread_num > 0)
    /\ IF thread_num = 0
       THEN /\ status' = "kStopped" /\ cpc' = "stopped"
            /\ done' = IF m = "callback" THEN done + 1 ELSE done
       ELSE /\ status' = "kStopping" /\ cpc' = "stop"
            /\ UNCHANGED done
    /\ index' = 1
    /\ UNCHANGED <<thread_num, started_count, exited_count, next, threads, tpc,
                   wait, given>>

(* EventLoopThread::stop of one thread: the store to its status ... *)
StopThread ==
    /\ cpc = "stop" /\ index <= thread_num
    /\ thread_status' = [thread_status EXCEPT ![index] = "kStopping"]
    /\ cpc' = "io"
    /\ UNCHANGED <<pool, latch, loop_status, io_stopped, fn_queued, tpc, index,
                   wait, mode, done, given>>

(* Mutant: the io_service is not stopped. *)
StopLoopNoIo ==
    /\ cpc = "io"
    /\ cpc' = "stop" /\ index' = index + 1
    /\ UNCHANGED <<pool, threads, tpc, wait, mode, done, given>>

(* ... and EventLoop::stop. *)
StopLoop ==
    /\ cpc = "io"
    /\ io_stopped' = [io_stopped EXCEPT ![index] = TRUE]
    /\ cpc' = "stop" /\ index' = index + 1
    /\ UNCHANGED <<pool, thread_status, latch, loop_status, fn_queued, tpc,
                   wait, mode, done, given>>

StopReturns ==
    /\ cpc = "stop" /\ index > thread_num
    /\ mode = "wait" => \A i \in Id : thread_status[i] = "kStopped"
    /\ status' = "kStopped" /\ cpc' = "stopped"
    /\ UNCHANGED <<thread_num, started_count, exited_count, stopped_cb, next,
                   threads, tpc, index, wait, mode, done, given>>

(* join() (also from ~EventLoopThreadPool): every thread has ended, then   *)
(* the EventLoopThreads are destroyed.                                     *)
Join ==
    /\ cpc = "stopped" /\ \A i \in Id : tpc[i] = "ended"
    /\ cpc' = "joined"
    /\ UNCHANGED <<pool, threads, tpc, index, wait, mode, done, given>>

CallerStep ==
    \/ Start \/ Spawn \/ LatchWait \/ StartReturns
    \/ StopThread \/ StopLoop \/ StopReturns \/ Join

-----------------------------------------------------------------------------
(* A loop thread. *)

At(i, l) == tpc[i] = l
Goto(i, l) == tpc' = [tpc EXCEPT ![i] = l]

(* EventLoopThread::run: queueInLoop(fn). *)
Begin(i) ==
    /\ At(i, "begin") /\ Goto(i, "loop")
    /\ fn_queued' = [fn_queued EXCEPT ![i] = TRUE]
    /\ UNCHANGED <<pool, thread_status, latch, loop_status, io_stopped, caller,
                   done, given>>

(* EventLoop::start up to io_service::run. *)
LoopStart(i) ==
    /\ At(i, "loop") /\ Goto(i, "run")
    /\ loop_status' = [loop_status EXCEPT ![i] = "kRunning"]
    /\ UNCHANGED <<pool, thread_status, latch, io_stopped, fn_queued, caller,
                   done, given>>

(* Mutant: fn does not set the thread's status. *)
RunFnNoStatus(i) ==
    /\ At(i, "run") /\ fn_queued[i] /\ ~io_stopped[i]
    /\ fn_queued' = [fn_queued EXCEPT ![i] = FALSE]
    /\ latch' = [latch EXCEPT ![i] = TRUE]
    /\ Goto(i, "pre")
    /\ UNCHANGED <<pool, thread_status, loop_status, io_stopped, caller, done, given>>

(* The loop runs fn, unless the io_service was stopped first. *)
RunFn(i) ==
    /\ At(i, "run") /\ fn_queued[i] /\ ~io_stopped[i]
    /\ fn_queued' = [fn_queued EXCEPT ![i] = FALSE]
    /\ thread_status' = [thread_status EXCEPT ![i] = "kRunning"]
    /\ latch' = [latch EXCEPT ![i] = TRUE]
    /\ Goto(i, "pre")
    /\ UNCHANGED <<pool, loop_status, io_stopped, caller, done, given>>

(* Mutant: the first thread to start reports for all. *)
PreFirst(i) ==
    /\ At(i, "pre")
    /\ started_count' = started_count + 1
    /\ Goto(i, IF started_count = 0 THEN "started" ELSE "run")
    /\ UNCHANGED <<thread_num, status, exited_count, stopped_cb, next, threads,
                   caller, done, given>>

(* prefn: started_count->fetch_add ... *)
Pre(i) ==
    /\ At(i, "pre")
    /\ started_count' = started_count + 1
    /\ Goto(i, IF started_count' = thread_num THEN "started" ELSE "run")
    /\ UNCHANGED <<thread_num, status, exited_count, stopped_cb, next, threads,
                   caller, done, given>>

(* ... and onThreadStarted of the last one. *)
OnThreadStarted(i) ==
    /\ At(i, "started") /\ Goto(i, "run")
    /\ status' = "kRunning"
    /\ UNCHANGED <<thread_num, started_count, exited_count, stopped_cb, next,
                   threads, caller, done, given>>

(* io_service::run returns: the end of EventLoop::start. *)
LoopExit(i) ==
    /\ At(i, "run") /\ io_stopped[i]
    /\ loop_status' = [loop_status EXCEPT ![i] = "kStopped"]
    /\ Goto(i, "post")
    /\ UNCHANGED <<pool, thread_status, latch, io_stopped, fn_queued, caller,
                   done, given>>

(* Mutants: the first thread to exit reports for all; the count before the *)
(* increment is compared.                                                  *)
PostFirst(i) ==
    /\ At(i, "post")
    /\ exited_count' = exited_count + 1
    /\ Goto(i, IF exited_count = 0 THEN "exited" ELSE "end")
    /\ UNCHANGED <<thread_num, status, started_count, stopped_cb, next, threads,
                   caller, done, given>>

(* postfn: exited_count->fetch_add ... *)
Post(i) ==
    /\ At(i, "post")
    /\ exited_count' = exited_count + 1
    /\ Goto(i, IF exited_count' = thread_num THEN "exited" ELSE "end")
    /\ UNCHANGED <<thread_num, status, started_count, stopped_cb, next, threads,
                   caller, done, given>>

(* ... and onThreadExited of the last one, with the done callback. *)
OnThreadExited(i) ==
    /\ At(i, "exited") /\ Goto(i, "end")
    /\ status' = "kStopped"
    /\ done' = IF stopped_cb THEN done + 1 ELSE done
    /\ stopped_cb' = FALSE
    /\ UNCHANGED <<thread_num, started_count, exited_count, next, threads,
                   caller, given>>

(* The end of EventLoopThread::run. *)
End(i) ==
    /\ At(i, "end") /\ Goto(i, "ended")
    /\ thread_status' = [thread_status EXCEPT ![i] = "kStopped"]
    /\ UNCHANGED <<pool, latch, loop_status, io_stopped, fn_queued, caller,
                   done, given>>

ThreadStep(i) ==
    \/ Begin(i) \/ LoopStart(i) \/ RunFn(i) \/ Pre(i) \/ OnThreadStarted(i)
    \/ LoopExit(i) \/ Post(i) \/ OnThreadExited(i) \/ End(i)

Next ==
    \/ CallerStep
    \/ GetNextLoop
    \/ \E m \in {"wait", "nowait", "callback"} : Stop(m)
    \/ \E i \in Id : ThreadStep(i)

Spec == Init /\ [][Next]_vars

(* The operating system schedules every thread; the caller finishes a call *)
(* it began, but need not call stop().                                     *)
FairSpec ==
    /\ Spec
    /\ WF_vars(CallerStep)
    /\ \A i \in 1..MaxThreads : WF_vars(i \in Id /\ ThreadStep(i))

-----------------------------------------------------------------------------
Status == {"kNull", "kStarting", "kRunning", "kStopping", "kStopped"}

(* The types; the counters of started and exited threads stay in range. *)
TypeOK ==
    /\ thread_num \in 0..MaxThreads /\ status \in Status
    /\ started_count \in 0..thread_num /\ exited_count \in 0..thread_num
    /\ stopped_cb \in BOOLEAN /\ next \in Nat
    /\ thread_status \in [Id -> Status] /\ loop_status \in [Id -> Status]
    /\ latch \in [Id -> BOOLEAN] /\ io_stopped \in [Id -> BOOLEAN]
    /\ fn_queued \in [Id -> BOOLEAN]
    /\ tpc \in [Id -> {"none", "begin", "loop", "run", "pre", "started", "post",
                       "exited", "end", "ended"}]
    /\ cpc \in {"new", "spawn", "latch", "started", "stop", "io", "stopped", "joined"}
    /\ index \in 1..(thread_num + 1) /\ wait \in BOOLEAN
    /\ mode \in {"none", "wait", "nowait", "callback"}
    /\ done \in Nat /\ given \in [0..thread_num -> 0..MaxCalls]

(* isRunning() of the pool tells the truth until stop() is called: every   *)
(* loop has entered run() and executed its start-up function, whichever    *)
(* thread counted last.                                                    *)
RunningMeansAllRun ==
    status = "kRunning" /\ mode = "none" =>
      \A i \in Id : loop_status[i] = "kRunning" /\ thread_status[i] = "kRunning"

(* getNextLoop() never hands a connection to a loop that has not started,  *)
(* and spreads them evenly.                                                *)
NextLoopLive ==
    [][\A i \in Id : given'[i] # given[i] =>
         /\ loop_status[i] = "kRunning" /\ ~io_stopped[i]
         /\ \A j \in Id : given[i] <= given[j]]_vars

(* A stop is reported only when it is over: after stop(true) the pool      *)
(* reads kStopped only when every loop has left run(), although the last   *)
(* thread and the caller both store it; the callback of stop(fn) runs at   *)
(* most once and then too; and join() destroys threads at kStopped only,   *)
(* as ~EventLoopThread asserts.                                            *)
StoppedMeansAllExited ==
    /\ (status = "kStopped" /\ mode = "wait") \/ done > 0 =>
         \A i \in Id : loop_status[i] = "kStopped"
    /\ done <= 1 /\ (done = 1 => mode = "callback")
    /\ cpc = "joined" => \A i \in Id : thread_status[i] = "kStopped"

(* After start(true) the pool's status never goes back: no late report of  *)
(* a starting thread overwrites kStopping or kStopped.  (After             *)
(* start(false) a stop() may overtake it.)                                 *)
Rank == [kNull |-> 0, kStarting |-> 1, kRunning |-> 2, kStopping |-> 3, kStopped |-> 4]
StatusMonotone == [][wait => Rank[status'] >= Rank[status]]_vars

(* EventLoopThread::stop asserts status_ == kRunning && isRunning(): it    *)
(* holds of every thread of a pool started with start(true), which is how  *)
(* TCPServer starts it.                                                    *)
StopAssert ==
    wait /\ cpc = "stop" /\ index <= thread_num =>
      thread_status[index] = "kRunning" /\ loop_status[index] = "kRunning"

(* The calls return: start(), when the latch of every thread is counted    *)
(* down and the last has set kRunning; and after stop() every thread ends  *)
(* and join() returns, also when the stop overtakes the start of a thread, *)
(* and the callback of stop(fn) is called.                                 *)
CallsComplete ==
    /\ cpc = "spawn" ~> cpc = "started"
    /\ mode # "none" ~> (cpc = "joined" /\ (mode = "callback" => done = 1))
=============================================================================
