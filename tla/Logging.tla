------------------------------ MODULE Logging ------------------------------
(***************************************************************************)
(* Lazy initialisation of logging (base/logging.cpp): initLogging() with   *)
(* arguments and lg(), which every LOG_* macro calls, from any thread.     *)
(*                                                                         *)
(* initialized_ is a plain bool that both read without the mutex.  It is   *)
(* stored once, under the mutex and after calls the compiler cannot move,  *)
(* so that a reader meets FALSE or TRUE, the current value.                *)
(***************************************************************************)
EXTENDS Integers, FiniteSets

CONSTANTS
    Thread,
    None,           \* no owner of the mutex
    MaxThrows       \* bound: exceptions of the file sink

ASSUME ConstAssumption == None \notin Thread /\ MaxThrows \in Nat

(* console_on and log_file_on; lg() asks for both. *)
Config == [console : BOOLEAN, file : BOOLEAN]
Default == [console |-> TRUE, file |-> TRUE]

VARIABLES
    initialized,    \* initialized_
    owner,          \* of mutex_
    pc,             \* where each thread is
    call, conf,     \* its function, and its arguments
    console, file,  \* sinks in the core of Boost.Log
    throws          \* exceptions so far

vars == <<initialized, owner, pc, call, conf, console, file, throws>>

Init ==
    /\ initialized = FALSE /\ owner = None
    /\ pc = [t \in Thread |-> "idle"] /\ call = [t \in Thread |-> "lg"]
    /\ conf = [t \in Thread |-> Default]
    /\ console = 0 /\ file = 0 /\ throws = 0

At(t, l) == pc[t] = l
Goto(t, l) == pc' = [pc EXCEPT ![t] = l]

(* A call: f is "lg" or "initLogging".  The first test is made without the *)
(* mutex; when it fails lg() returns the logger, initLogging() returns.    *)
After(f) == IF f = "lg" THEN "logging" ELSE "idle"

Call(t, f, c) ==
    /\ At(t, "idle") /\ (f = "lg" => c = Default)
    /\ call' = [call EXCEPT ![t] = f] /\ conf' = [conf EXCEPT ![t] = c]
    /\ Goto(t, IF initialized THEN After(f) ELSE "lock")
    /\ UNCHANGED <<initialized, owner, console, file, throws>>

(* The mutex is taken and the flag tested again. *)
LockNoTest(t) ==        \* mutant: no second test
    /\ At(t, "lock") /\ owner = None
    /\ owner' = t /\ Goto(t, "init")
    /\ UNCHANGED <<initialized, call, conf, console, file, throws>>
Lock(t) ==
    /\ At(t, "lock") /\ owner = None
    /\ owner' = t
    /\ Goto(t, IF initialized THEN "unlock" ELSE "init")
    /\ UNCHANGED <<initialized, call, conf, console, file, throws>>

One(b) == IF b THEN 1 ELSE 0

(* initLogging_unlock(): the sinks and the common attributes.  The second  *)
(* add_sink() of the file sink finds it registered.                        *)
InitLoggingUnlock(t) ==
    /\ At(t, "init")
    /\ console' = console + One(conf[t].console) /\ file' = file + One(conf[t].file)
    /\ Goto(t, "store")
    /\ UNCHANGED <<initialized, owner, call, conf, throws>>

(* ... in which the directory of the log file fails, before or after its   *)
(* sink is added.  The exception releases the mutex and leaves the caller. *)
InitLoggingThrows(t) ==
    /\ At(t, "init") /\ conf[t].file /\ throws < MaxThrows
    /\ console' = console + One(conf[t].console) /\ throws' = throws + 1
    /\ file' \in {file, file + 1}
    /\ owner' = None
    /\ Goto(t, "idle")
    /\ UNCHANGED <<initialized, call, conf>>

Store(t) ==
    /\ At(t, "store")
    /\ initialized' = TRUE
    /\ Goto(t, "unlock")
    /\ UNCHANGED <<owner, call, conf, console, file, throws>>

UnlockKeeps(t) ==       \* mutant: the mutex stays locked
    /\ At(t, "unlock")
    /\ Goto(t, After(call[t]))
    /\ UNCHANGED <<initialized, owner, call, conf, console, file, throws>>
Unlock(t) ==
    /\ At(t, "unlock")
    /\ owner' = None
    /\ Goto(t, After(call[t]))
    /\ UNCHANGED <<initialized, call, conf, console, file, throws>>

(* The record goes to the sinks there are. *)
Log(t) ==
    /\ At(t, "logging")
    /\ Goto(t, "idle")
    /\ UNCHANGED <<initialized, owner, call, conf, console, file, throws>>

Step(t) ==
    \/ Lock(t) \/ InitLoggingUnlock(t) \/ InitLoggingThrows(t)
    \/ Store(t) \/ Unlock(t) \/ Log(t)

Next ==
    \E t \in Thread :
      \/ Step(t)
      \/ \E f \in {"lg", "initLogging"} : \E c \in Config : Call(t, f, c)

Spec == Init /\ [][Next]_vars

(* A thread inside a call goes on. *)
FairSpec == Spec /\ \A t \in Thread : WF_vars(Step(t))

-----------------------------------------------------------------------------
Where == {"idle", "lock", "init", "store", "unlock", "logging"}

(* The types of the flag, the mutex, the threads and the counters of sinks. *)
TypeOK ==
    /\ initialized \in BOOLEAN /\ owner \in Thread \cup {None}
    /\ pc \in [Thread -> Where] /\ call \in [Thread -> {"lg", "initLogging"}]
    /\ conf \in [Thread -> Config]
    /\ console \in Nat /\ file \in Nat /\ throws \in Nat

(* However calls of lg() and initLogging() race, one of them configures    *)
(* the core: there is at most one sink of each kind, and one more for      *)
(* every exception that left the flag unset with the sinks in place.       *)
SinksOnce == console <= 1 + throws /\ file <= 1 + throws

(* A thread that has the logger finds initialisation complete: nobody is   *)
(* still inside it, whoever did it.                                        *)
LoggerReady ==
    (\E t \in Thread : pc[t] = "logging") =>
      initialized /\ \A t \in Thread : pc[t] \notin {"init", "store"}

(* Every call returns, also after exceptions in other threads: the mutex   *)
(* is released on every path and is not taken once initialized_ is set.    *)
CallReturns == \A t \in Thread : (pc[t] # "idle") ~> (pc[t] = "idle")
=============================================================================
