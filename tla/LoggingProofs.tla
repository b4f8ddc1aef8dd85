--------------------------- MODULE LoggingProofs ---------------------------
(* Proofs of the safety properties of Logging, for any set of threads.     *)
EXTENDS Logging, TLAPS

(* The mutex excludes: only its owner is inside. *)
Exclusive == \A t \in Thread : pc[t] \in {"init", "store", "unlock"} <=> owner = t

(* The flag tells how far initialisation has come. *)
Progress ==
    \A t \in Thread :
      /\ pc[t] \in {"init", "store"} => ~initialized
      /\ pc[t] \in {"unlock", "logging"} => initialized

(* Before a thread has completed initLogging_unlock(), all sinks there are *)
(* come from calls that threw.                                             *)
Counted ==
    (~initialized /\ \A t \in Thread : pc[t] # "store") =>
      console <= throws /\ file <= throws

IInv == TypeOK /\ Exclusive /\ Progress /\ Counted /\ SinksOnce

(* The invariant holds initially. *)
LEMMA InitInv == Init => IInv
  <1> SUFFICES ASSUME Init PROVE IInv
    OBVIOUS
  <1>1. Default \in Config
    BY DEF Default, Config
  <1>2. TypeOK
    BY ZenonT(60), <1>1 DEF Init, TypeOK, Where
  <1>3. Exclusive
    BY ConstAssumption DEF Init, Exclusive, ConstAssumption
  <1>4. Progress /\ Counted /\ SinksOnce
    BY DEF Init, Progress, Counted, SinksOnce
  <1> QED  BY <1>2, <1>3, <1>4 DEF IInv

(* Every step of initLogging() and lg() preserves it. *)
LEMMA StepInv == IInv /\ [Next]_vars => IInv'
  <1> SUFFICES ASSUME IInv, [Next]_vars PROVE IInv'
    OBVIOUS
  <1> USE ConstAssumption DEF ConstAssumption, IInv, TypeOK, Exclusive, Progress, Counted, SinksOnce,
                              Where, At, Goto
  <1>1. ASSUME NEW t \in Thread, NEW f \in {"lg", "initLogging"}, NEW c \in Config,
               Call(t, f, c)
        PROVE  IInv'
    <2>1. pc' = [pc EXCEPT ![t] = IF initialized THEN After(f) ELSE "lock"] /\ pc[t] = "idle"
      BY <1>1 DEF Call
    <2>2. After(f) \in {"logging", "idle"}
      BY DEF After
    <2> QED  BY <1>1, <2>1, <2>2 DEF Call
  <1>2. ASSUME NEW t \in Thread, Lock(t) PROVE IInv'
    BY <1>2 DEF Lock
  <1>3. ASSUME NEW t \in Thread, InitLoggingUnlock(t) PROVE IInv'
    <2>1. ~initialized /\ owner = t /\ \A u \in Thread : pc[u] # "store"
      BY <1>3 DEF InitLoggingUnlock
    <2>2. One(conf[t].console) \in 0..1 /\ One(conf[t].file) \in 0..1
      BY DEF One
    <2> QED  BY <1>3, <2>1, <2>2 DEF InitLoggingUnlock
  <1>4. ASSUME NEW t \in Thread, InitLoggingThrows(t) PROVE IInv'
    <2>1. ~initialized /\ owner = t /\ \A u \in Thread : pc[u] # "store"
      BY <1>4 DEF InitLoggingThrows
    <2>2. One(conf[t].console) \in 0..1
      BY DEF One
    <2> QED  BY <1>4, <2>1, <2>2 DEF InitLoggingThrows
  <1>5. ASSUME NEW t \in Thread, Store(t) PROVE IInv'
    BY <1>5 DEF Store
  <1>6. ASSUME NEW t \in Thread, Unlock(t) PROVE IInv'
    <2>1. After(call[t]) \in {"logging", "idle"}
      BY DEF After
    <2> QED  BY <1>6, <2>1 DEF Unlock
  <1>7. ASSUME NEW t \in Thread, Log(t) PROVE IInv'
    BY <1>7 DEF Log
  <1>8. CASE UNCHANGED vars
    BY <1>8 DEF vars
  <1> QED
    BY <1>1, <1>2, <1>3, <1>4, <1>5, <1>6, <1>7, <1>8 DEF Next, Step

(* Every reachable state satisfies the invariant. *)
LEMMA AlwaysIInv == Spec => []IInv
  BY InitInv, StepInv, PTL DEF Spec

(* However calls race, there is one sink of a kind, and at most one more   *)
(* for every exception of initLogging_unlock().                            *)
THEOREM SinksOnceHolds == Spec => []SinksOnce
  <1>1. IInv => SinksOnce
    BY DEF IInv
  <1> QED  BY <1>1, AlwaysIInv, PTL

(* A thread to which lg() returned the logger finds it initialised. *)
THEOREM LoggerReadyHolds == Spec => []LoggerReady
  <1>1. IInv => LoggerReady
    BY DEF IInv, Progress, LoggerReady
  <1> QED  BY <1>1, AlwaysIInv, PTL
=============================================================================
