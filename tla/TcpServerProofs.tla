-------------------------- MODULE TcpServerProofs --------------------------
(* Proofs of the safety properties of TcpServer, for any number of loops,  *)
(* connections and callers of stop(): the inductive invariant, the steps   *)
(* of the server and of the connections that preserve it, the theorems.    *)
EXTENDS TcpServer, TLAPS


-----------------------------------------------------------------------------
(* Queues of handlers. *)

Has(q, S) == \E i \in 1..Len(q) : q[i].op \in S
Lone(q, S) == \A i, j \in 1..Len(q) : q[i].op \in S /\ q[j].op \in S => i = j
In(q, h) == \E i \in 1..Len(q) : q[i] = h
Once(q, h) == \A i, j \in 1..Len(q) : q[i] = h /\ q[j] = h => i = j

Accept == {"acceptOk", "acceptError"}
Accepts == {"acceptOk", "acceptError", "acceptAborted"}

(* The results of accepts come before the handler that stops the pool. *)
AcceptsFirst(q) ==
    \A i, j \in 1..Len(q) : q[i].op \in Accepts /\ q[j].op = "safe" => i < j

(* What posting a handler does to these. *)
LEMMA AppendFacts ==
  ASSUME NEW Hs, NEW q \in Seq(Hs), NEW h \in Hs
  PROVE  /\ Append(q, h) \in Seq(Hs)
         /\ \A S : Has(Append(q, h), S) <=> Has(q, S) \/ h.op \in S
         /\ \A S : Lone(q, S) /\ (h.op \notin S \/ ~Has(q, S)) => Lone(Append(q, h), S)
         /\ \A g : In(Append(q, h), g) <=> In(q, g) \/ g = h
         /\ \A g : Once(q, g) /\ (g # h \/ ~In(q, g)) => Once(Append(q, h), g)
         /\ AcceptsFirst(q) /\ (h.op \notin Accepts \/ ~Has(q, {"safe"})) =>
              AcceptsFirst(Append(q, h))
  <1> DEFINE r == Append(q, h)
  <1>1. /\ r \in Seq(Hs) /\ Len(r) = Len(q) + 1 /\ r[Len(q) + 1] = h
        /\ \A i \in 1..Len(q) : r[i] = q[i]
    OBVIOUS
  <1>2. Len(q) \in Nat /\ \A i \in 1..Len(r) : i \in 1..Len(q) \/ i = Len(q) + 1
    BY <1>1
  <1>3. \A i \in 1..Len(q) : i \in 1..Len(r) /\ i # Len(q) + 1 /\ i < Len(q) + 1
    BY <1>1
  <1>4. Len(q) + 1 \in 1..Len(r)
    BY <1>1, <1>2
  <1> HIDE DEF r
  <1>5. \A S : Has(r, S) <=> Has(q, S) \/ h.op \in S
    BY Zenon, <1>1, <1>2, <1>3, <1>4 DEF Has
  <1>6. \A S : Lone(q, S) /\ (h.op \notin S \/ ~Has(q, S)) => Lone(r, S)
    BY Zenon, <1>1, <1>2, <1>3, <1>4 DEF Has, Lone
  <1>7. \A g : In(r, g) <=> In(q, g) \/ g = h
    BY Zenon, <1>1, <1>2, <1>3, <1>4 DEF In
  <1>8. \A g : Once(q, g) /\ (g # h \/ ~In(q, g)) => Once(r, g)
    BY Zenon, <1>1, <1>2, <1>3, <1>4 DEF In, Once
  <1>9. ASSUME AcceptsFirst(q), h.op \notin Accepts \/ ~Has(q, {"safe"})
        PROVE  AcceptsFirst(r)
    <2> SUFFICES ASSUME NEW i \in 1..Len(r), NEW j \in 1..Len(r),
                        r[i].op \in Accepts, r[j].op = "safe"
                 PROVE  i < j
      BY Zenon DEF AcceptsFirst
    <2>1. CASE i \in 1..Len(q) /\ j \in 1..Len(q)
      BY Zenon, <2>1, <1>1, <1>9 DEF AcceptsFirst
    <2>2. CASE i \in 1..Len(q) /\ j = Len(q) + 1
      BY Zenon, <2>2, <1>3
    <2>3. CASE i = Len(q) + 1 /\ j \in 1..Len(q)
      BY Zenon, <2>3, <1>1, <1>9 DEF Has
    <2>4. CASE i = Len(q) + 1 /\ j = Len(q) + 1
      BY Zenon, <2>4, <1>1 DEF Accepts
    <2> QED
      BY Zenon, <2>1, <2>2, <2>3, <2>4, <1>2
  <1> QED
    BY Zenon, <1>1, <1>5, <1>6, <1>7, <1>8, <1>9 DEF r

(* What taking the handler at the head does. *)
LEMMA TailFacts ==
  ASSUME NEW Hs, NEW q \in Seq(Hs), q # << >>
  PROVE  /\ Head(q) \in Hs /\ Tail(q) \in Seq(Hs)
         /\ \A S : Has(q, S) <=> Has(Tail(q), S) \/ Head(q).op \in S
         /\ \A S : Lone(q, S) => Lone(Tail(q), S) /\ (Head(q).op \in S => ~Has(Tail(q), S))
         /\ \A g : In(q, g) <=> In(Tail(q), g) \/ g = Head(q)
         /\ \A g : Once(q, g) => Once(Tail(q), g) /\ (g = Head(q) => ~In(Tail(q), g))
         /\ AcceptsFirst(q) => /\ AcceptsFirst(Tail(q))
                               /\ Head(q).op = "safe" => ~Has(Tail(q), Accepts)
  <1> DEFINE r == Tail(q)
             h == Head(q)
  <1>1. /\ h \in Hs /\ r \in Seq(Hs) /\ Len(q) = Len(r) + 1 /\ q[1] = h
        /\ \A i \in 1..Len(r) : q[i + 1] = r[i]
    OBVIOUS
  <1>2. /\ Len(r) \in Nat /\ 1 \in 1..Len(q)
        /\ \A i \in 1..Len(r) : i + 1 \in 1..Len(q) /\ i + 1 # 1 /\ 1 < i + 1
    BY <1>1
  <1>3. \A i \in 1..Len(q) : i = 1 \/ (i - 1 \in 1..Len(r) /\ q[i] = r[i - 1])
    <2> TAKE i \in 1..Len(q)
    <2>1. i = 1 \/ i - 1 \in 1..Len(r)
      BY <1>1, <1>2
    <2>2. i - 1 \in 1..Len(r) => q[(i - 1) + 1] = r[i - 1]
      BY Zenon, <1>1
    <2>3. (i - 1) + 1 = i
      OBVIOUS
    <2> QED
      BY Zenon, <2>1, <2>2, <2>3
  <1>4. \A i, j \in 1..Len(r) : (i + 1 = j + 1 => i = j) /\ (i + 1 < j + 1 => i < j)
    OBVIOUS
  <1> HIDE DEF r, h
  <1>5. \A S : Has(q, S) <=> Has(r, S) \/ h.op \in S
    BY ZenonT(30), <1>1, <1>2, <1>3 DEF Has
  <1>6. \A S : Lone(q, S) => Lone(r, S) /\ (h.op \in S => ~Has(r, S))
    BY ZenonT(30), <1>1, <1>2, <1>4 DEF Has, Lone
  <1>7. \A g : In(q, g) <=> In(r, g) \/ g = h
    <2> TAKE g
    <2>1. In(q, g) => In(r, g) \/ g = h
      BY ZenonT(60), <1>1, <1>3 DEF In
    <2>2. In(r, g) => In(q, g)
      BY Zenon, <1>1, <1>2 DEF In
    <2>3. g = h => In(q, g)
      BY Zenon, <1>1, <1>2 DEF In
    <2> QED
      BY Zenon, <2>1, <2>2, <2>3
  <1>8. \A g : Once(q, g) => Once(r, g) /\ (g = h => ~In(r, g))
    BY SMTT(60), <1>1, <1>2, <1>4 DEF In, Once
  <1>9. AcceptsFirst(q) => AcceptsFirst(r)
    BY Zenon, <1>1, <1>2, <1>4 DEF AcceptsFirst
  <1>10. AcceptsFirst(q) /\ h.op = "safe" => ~Has(r, Accepts)
    <2> SUFFICES ASSUME AcceptsFirst(q), h.op = "safe", NEW i \in 1..Len(r), r[i].op \in Accepts
                 PROVE  FALSE
      BY Zenon DEF Has
    <2>1. i + 1 < 1
      BY Zenon, <1>1, <1>2 DEF AcceptsFirst
    <2> QED
      BY <2>1, <1>2
  <1> QED
    BY Zenon, <1>1, <1>5, <1>6, <1>7, <1>8, <1>9, <1>10 DEF r, h

(* The same for the queues q of the loops L, of which r are left when l     *)
(* takes a handler, or made when h is posted to l.                         *)
PopFacts(L, q, r, l) ==
    LET h == Head(q[l])
    IN  \A k \in L :
          /\ \A g : In(q[k], g) <=> In(r[k], g) \/ (k = l /\ g = h)
          /\ \A g : Once(q[k], g) => Once(r[k], g) /\ (k = l /\ g = h => ~In(r[k], g))
          /\ \A S : Has(q[k], S) <=> Has(r[k], S) \/ (k = l /\ h.op \in S)
          /\ \A S : Lone(q[k], S) =>
               Lone(r[k], S) /\ (k = l /\ h.op \in S => ~Has(r[k], S))
          /\ AcceptsFirst(q[k]) => /\ AcceptsFirst(r[k])
                                   /\ k = l /\ h.op = "safe" => ~Has(r[k], Accepts)

PushFacts(L, q, r, l, h) ==
    \A k \in L :
      /\ \A g : In(r[k], g) <=> In(q[k], g) \/ (k = l /\ g = h)
      /\ \A g : Once(q[k], g) /\ (k # l \/ g # h \/ ~In(q[k], g)) => Once(r[k], g)
      /\ \A S : Has(r[k], S) <=> Has(q[k], S) \/ (k = l /\ h.op \in S)
      /\ \A S : Lone(q[k], S) /\ (k # l \/ h.op \notin S \/ ~Has(q[k], S)) => Lone(r[k], S)
      /\ AcceptsFirst(q[k]) /\ (k # l \/ h.op \notin Accepts \/ ~Has(q[k], {"safe"})) =>
           AcceptsFirst(r[k])

(* Taking a handler. *)
LEMMA Pops ==
  ASSUME NEW L, NEW Hs, queue \in [L -> Seq(Hs)], NEW l \in L, queue[l] # << >>
  PROVE  /\ Popped(l) \in [L -> Seq(Hs)] /\ Head(queue[l]) \in Hs
         /\ PopFacts(L, queue, Popped(l), l)
  <1> SUFFICES ASSUME NEW r, r = Popped(l)
               PROVE  /\ r \in [L -> Seq(Hs)] /\ Head(queue[l]) \in Hs
                      /\ PopFacts(L, queue, r, l)
    BY Zenon
  <1>1. /\ queue[l] \in Seq(Hs) /\ r[l] = Tail(queue[l])
        /\ \A k \in L : k # l => r[k] = queue[k]
    BY Zenon DEF Popped
  <1>2. Head(queue[l]) \in Hs /\ Tail(queue[l]) \in Seq(Hs)
    BY Zenon, <1>1, TailFacts
  <1>3. r \in [L -> Seq(Hs)]
    BY Zenon, <1>2 DEF Popped
  <1>4. PopFacts(L, queue, r, l)
    <2> SUFFICES ASSUME NEW k \in L
                 PROVE  PopFacts({k}, queue, r, l)
      BY Zenon DEF PopFacts
    <2>1. CASE k = l
      <3>1. queue[k] \in Seq(Hs) /\ queue[k] # << >> /\ r[k] = Tail(queue[k])
        BY Zenon, <2>1, <1>1
      <3> QED
        BY ONLY <3>1, <2>1, TailFacts DEF PopFacts
    <2>2. CASE k # l
      BY Zenon, <2>2, <1>1 DEF PopFacts
    <2> QED
      BY Zenon, <2>1, <2>2
  <1> QED
    BY Zenon, <1>2, <1>3, <1>4

(* Posting a handler. *)
LEMMA Pushes ==
  ASSUME NEW L, NEW Hs, NEW q \in [L -> Seq(Hs)], NEW l \in L, NEW h \in Hs
  PROVE  Push(q, l, h) \in [L -> Seq(Hs)] /\ PushFacts(L, q, Push(q, l, h), l, h)
  <1> SUFFICES ASSUME NEW r, r = Push(q, l, h)
               PROVE  r \in [L -> Seq(Hs)] /\ PushFacts(L, q, r, l, h)
    BY Zenon
  <1>1. q[l] \in Seq(Hs) /\ r[l] = Append(q[l], h) /\ \A k \in L : k # l => r[k] = q[k]
    BY Zenon DEF Push
  <1>2. r \in [L -> Seq(Hs)]
    BY Zenon, <1>1, AppendFacts DEF Push
  <1>3. PushFacts(L, q, r, l, h)
    <2> SUFFICES ASSUME NEW k \in L
                 PROVE  PushFacts({k}, q, r, l, h)
      BY ZenonT(30) DEF PushFacts
    <2>1. CASE k = l
      <3>1. q[k] \in Seq(Hs) /\ r[k] = Append(q[k], h) /\ h \in Hs
        BY Zenon, <2>1, <1>1
      <3>2. /\ \A g : In(r[k], g) <=> In(q[k], g) \/ g = h
            /\ \A g : Once(q[k], g) /\ (g # h \/ ~In(q[k], g)) => Once(r[k], g)
        BY ONLY <3>1, AppendFacts
      <3>3. /\ \A S : Has(r[k], S) <=> Has(q[k], S) \/ h.op \in S
            /\ \A S : Lone(q[k], S) /\ (h.op \notin S \/ ~Has(q[k], S)) => Lone(r[k], S)
            /\ AcceptsFirst(q[k]) /\ (h.op \notin Accepts \/ ~Has(q[k], {"safe"})) =>
                 AcceptsFirst(r[k])
        BY ONLY <3>1, AppendFacts
      <3> QED
        BY ONLY Zenon, <3>2, <3>3, <2>1 DEF PushFacts
    <2>2. CASE k # l
      BY Zenon, <2>2, <1>1 DEF PushFacts
    <2> QED
      BY Zenon, <2>1, <2>2
  <1> QED
    BY Zenon, <1>2, <1>3

-----------------------------------------------------------------------------
(* The inductive invariant. *)

(* handleClose() has not reached, or has passed, removeConnection(). *)
Live(c) ==
    st[c] \in {"new", "kConnected"} \/ (st[c] = "kDisconnecting" /\ closing[home[c]] # c)
Gone(c) ==
    st[c] = "kDisconnected" \/ (st[c] = "kDisconnecting" /\ closing[home[c]] = c)

(* The handlers of a connection are in its own loop, and fit its status. *)
HandlerInv(c) ==
    \A l \in Loop :
      /\ In(queue[l], H("established", c)) => home[c] = l /\ st[c] = "new"
      /\ Once(queue[l], H("established", c))
      /\ In(queue[l], H("close", c)) \/ In(queue[l], H("readError", c)) =>
           home[c] = l /\ st[c] \in {"kConnected", "kDisconnecting", "kDisconnected"}

(* What the server knows of it. *)
ConnInv(c) ==
    /\ c > next_conn_id <=> st[c] = "none"
    /\ st[c] = "none" => c \notin connections
    /\ c \in reading => Live(c) /\ st[c] # "new"
    /\ In(queue[0], H("remove", c)) => Gone(c) /\ c \in connections
    /\ Live(c) => c \in connections
    /\ Gone(c) /\ c \in connections => In(queue[0], H("remove", c))
    /\ Once(queue[0], H("remove", c))

ClosingInv ==
    \A l \in Loop : closing[l] # 0 =>
      st[closing[l]] = "kDisconnecting" /\ home[closing[l]] = l

(* One accept is outstanding, in the kernel or in the loop. *)
AcceptInv ==
    /\ Lone(queue[0], Accept)
    /\ accepting # NoLoop => ~Has(queue[0], Accept)
    /\ Has(queue[0], {"acceptOk"}) => next_conn_id < MaxConns

(* The phases of the server. *)
Before == 
    /\ ~acceptor /\ connections = {} /\ pool /\ pc = "run" /\ done = 0
    /\ substatus = "kSubStatusNull" /\ ~Has(queue[0], Accepts) /\ ~Has(queue[0], {"safe"})
    /\ Lone(queue[0], {"listen"}) /\ (status = "kNull" => ~Has(queue[0], {"listen"}))
Running ==
    /\ acceptor /\ pool /\ pc = "run" /\ done = 0 /\ substatus = "kSubStatusNull"
    /\ ~Has(queue[0], {"safe"})
Stopping ==
    /\ ~acceptor /\ pool /\ done = 0 /\ substatus = "kStoppingListener"
    /\ Lone(queue[0], {"safe"}) /\ AcceptsFirst(queue[0])
    /\ Has(queue[0], {"safe"}) => connections = {} /\ pc = "run"
    /\ pc = "closeAll" => connections # {}
Emptied ==
    /\ ~acceptor /\ connections = {} /\ ~Has(queue[0], Server \ {"stop"})
    /\ pc = "join" => pool /\ done = 0
    /\ pc = "callback" => ~pool /\ done = 0
    /\ pc \in {"store", "run"} => ~pool /\ done = 1

PhaseInv ==
    /\ status \in {"kNull", "kStarting"} => Before
    /\ status # "kStarting" => ~Has(queue[0], {"listen"})
    /\ status = "kRunning" => Running
    /\ status = "kStopping" /\ pc \in {"run", "closeAll"} => Stopping
    /\ status = "kStopping" /\ pc \in {"join", "callback", "store"} => Emptied
    /\ status = "kStopped" => pc = "run" /\ Emptied
    /\ accepting # NoLoop => acceptor
    /\ pc # "run" => closing[0] = 0

(* What a fault must not undo. *)
EndInv ==
    /\ fault # "none" => status # "kNull"
    /\ done > 0 => /\ done = 1 /\ connections = {} /\ ~acceptor /\ ~pool
                   /\ ~Has(queue[0], Server \ {"stop"})
    /\ ~pool => \A c \in Conn : st[c] \in {"none", "kDisconnected"}

IInv ==
    /\ TypeOK
    /\ \A c \in Conn : HandlerInv(c) /\ ConnInv(c)
    /\ ClosingInv /\ AcceptInv
    /\ fault = "none" => PhaseInv
    /\ EndInv

-----------------------------------------------------------------------------
(* Steps. *)

(* A step that leaves the connections alone: their handlers are taken or   *)
(* stay.                                                                   *)
LEMMA ConnFrame ==
  ASSUME TypeOK, \A c \in Conn : HandlerInv(c) /\ ConnInv(c), ClosingInv,
         UNCHANGED <<thread_num, next_conn_id, connections, st, home, closing, reading>>,
         \A l \in Loop : \A c \in Conn : \A op \in {"established", "close", "readError"} :
           In(queue'[l], H(op, c)) => In(queue[l], H(op, c)),
         \A l \in Loop : \A c \in Conn :
           Once(queue[l], H("established", c)) => Once(queue'[l], H("established", c)),
         \A c \in Conn : /\ In(queue'[0], H("remove", c)) <=> In(queue[0], H("remove", c))
                         /\ Once(queue[0], H("remove", c)) => Once(queue'[0], H("remove", c))
  PROVE  (\A c \in Conn : HandlerInv(c) /\ ConnInv(c))' /\ ClosingInv'
  <1>1. Loop' = Loop
    BY Zenon DEF Loop
  <1>2. \A c \in Conn : HandlerInv(c)'
    BY Zenon, <1>1 DEF HandlerInv
  <1>3. \A c \in Conn : (Live(c)' <=> Live(c)) /\ (Gone(c)' <=> Gone(c))
    BY Zenon DEF Live, Gone
  <1>4. \A c \in Conn : ConnInv(c)'
    BY Zenon, <1>3 DEF ConnInv
  <1>5. ClosingInv'
    BY Zenon, <1>1 DEF ClosingInv
  <1> QED
    BY Zenon, <1>2, <1>4, <1>5

(* The loops do not change. *)
LEMMA Same ==
  ASSUME TypeOK, thread_num' = thread_num
  PROVE  Loop' = Loop /\ Handler' = Handler /\ 0 \in Loop /\ queue \in [Loop -> Seq(Handler)]
  BY SMTT(30), ConstAssumption DEF Loop, Handler, TypeOK

(* The handler that a loop takes. *)
LEMMA Heads ==
  ASSUME TypeOK, NEW l \in Loop, NEW op, Ready(l, op)
  PROVE  /\ fault = "none" /\ closing[l] = 0 /\ (l = 0 => pc = "run")
         /\ Popped(l) \in [Loop -> Seq(Handler)] /\ PopFacts(Loop, queue, Popped(l), l)
         /\ Head(queue[l]) = H(op, Arg(l)) /\ H(op, Arg(l)).op = op
         /\ op \in {"remove", "established", "close", "readError"} => Arg(l) \in Conn
         /\ op \in Accept => Arg(l) \in Loop
  <1>1. /\ fault = "none" /\ closing[l] = 0 /\ (l = 0 => pc = "run")
        /\ queue[l] # << >> /\ Head(queue[l]).op = op
    BY Zenon DEF Ready
  <1>2. /\ Popped(l) \in [Loop -> Seq(Handler)] /\ PopFacts(Loop, queue, Popped(l), l)
        /\ Head(queue[l]) \in Handler
    BY ZenonT(30), <1>1, Pops DEF TypeOK
  <1>3. /\ Head(queue[l]) = H(op, Arg(l)) /\ H(op, Arg(l)).op = op
        /\ op \in {"remove", "established", "close", "readError"} => Arg(l) \in Conn
        /\ op \in Accept => Arg(l) \in Loop
    BY Zenon, <1>1, <1>2 DEF Handler, H, Arg, Accept
  <1> QED
    BY Zenon, <1>1, <1>2, <1>3

(* doAccept(): the next loop is one of the loops. *)
LEMMA Accepting ==
  ASSUME TypeOK, NEW open \in BOOLEAN, DoAccept(open)
  PROVE  /\ accepting' \in Loop \cup {NoLoop} /\ next' \in Nat
         /\ next' = 0 \/ next' < thread_num
         /\ open => accepting' # NoLoop /\ fault' = fault
         /\ ~open => accepting' = accepting /\ fault' = "null_acceptor"
  <1>1. thread_num \in Nat /\ next \in Nat /\ (next = 0 \/ next < thread_num)
    BY Zenon, ConstAssumption DEF TypeOK
  <1>2. CASE ~open
    BY Zenon, <1>2 DEF DoAccept, TypeOK
  <1>3. CASE open /\ thread_num = 0
    BY <1>1, <1>3 DEF DoAccept, Loop, NoLoop
  <1>4. CASE open /\ thread_num # 0
    <2>1. accepting' = next + 1 /\ next' = (next + 1) % thread_num /\ fault' = fault
      BY Zenon, <1>4 DEF DoAccept
    <2>2. (next + 1) % thread_num \in Nat /\ (next + 1) % thread_num < thread_num
      BY <1>1, <1>4
    <2>3. next + 1 \in 0..thread_num /\ next + 1 # -1
      BY <1>1, <1>4
    <2> QED
      BY Zenon, <1>4, <2>1, <2>2, <2>3 DEF Loop, NoLoop
  <1> QED
    BY Zenon, <1>2, <1>3, <1>4

(* A handler that is posted is the call it stands for: its function and    *)
(* its argument tell handlers apart.                                       *)
LEMMA HOp == \A op, c : H(op, c).op = op /\ H(op, c).arg = c
  BY Zenon DEF H

(* Steps that only take a handler of the server, or post one. *)
LEMMA PopConn ==
  ASSUME IInv, NEW l \in Loop, PopFacts(Loop, queue, queue', l),
         Head(queue[l]).op # "remove", 0 \in Loop,
         UNCHANGED <<thread_num, next_conn_id, connections, st, home, closing, reading>>
  PROVE  (\A c \in Conn : HandlerInv(c) /\ ConnInv(c))' /\ ClosingInv'
  <1>0. Head(queue[l]).op # "remove"
    BY Zenon
  <1>1. \A c : H("remove", c) # Head(queue[l])
    BY ONLY Zenon, <1>0, HOp
  <1> QED
    BY Zenon, <1>1, ConnFrame DEF PopFacts, IInv

(* Pushing a handler of the server leaves the connections alone. *)
LEMMA PushConn ==
  ASSUME IInv, NEW l \in Loop, NEW h, PushFacts(Loop, queue, queue', l, h),
         h.op \in Server \ {"remove"}, 0 \in Loop,
         UNCHANGED <<thread_num, next_conn_id, connections, st, home, closing, reading>>
  PROVE  (\A c \in Conn : HandlerInv(c) /\ ConnInv(c))' /\ ClosingInv'
  <1>1. \A c : \A op \in {"remove", "established", "close", "readError"} : H(op, c) # h
    <2>1. h.op \in Server \ {"remove"}
      BY Zenon
    <2> QED
      BY ONLY Zenon, <2>1, HOp DEF Server
  <1> QED
    BY Zenon, <1>1, ConnFrame DEF PushFacts, IInv

(* A step that takes handlers from queue q of the server, or posts there   *)
(* only handlers of connections and of stop().                             *)
Quiet(q, r) ==
    /\ \A S \in SUBSET (Server \ {"stop"}) :
         (Has(r, S) => Has(q, S)) /\ (Lone(q, S) => Lone(r, S))
    /\ AcceptsFirst(q) => AcceptsFirst(r)

(* Taking the head adds no handler of the server to loop 0, ... *)
LEMMA PopQuiet ==
  ASSUME NEW L, NEW q, NEW r, NEW l, 0 \in L, PopFacts(L, q, r, l)
  PROVE  Quiet(q[0], r[0])
  BY Zenon DEF PopFacts, Quiet

(* ... nor does pushing to another loop, or a handler of a connection. *)
LEMMA PushQuiet ==
  ASSUME NEW L, NEW q, NEW r, NEW l, NEW h, 0 \in L, PushFacts(L, q, r, l, h),
         l # 0 \/ h.op \notin Server \ {"stop"}
  PROVE  Quiet(q[0], r[0])
  <1>1. \A S \in SUBSET (Server \ {"stop"}) : l # 0 \/ h.op \notin S
    BY Zenon
  <1>2. l # 0 \/ h.op \notin Accepts
    BY Zenon DEF Accepts, Server
  <1> QED
    BY Zenon, <1>1, <1>2 DEF PushFacts, Quiet

(* Such a step, if it leaves the members of the server alone.              *)
LEMMA ServerFrame ==
  ASSUME IInv, Quiet(queue[0], queue'[0]),
         UNCHANGED <<status, substatus, acceptor, connections, next_conn_id, pool, pc,
                     done, accepting, fault>>,
         fault = "none" /\ pc # "run" => closing'[0] = 0,
         ~pool => \A c \in Conn : st'[c] \in {"none", "kDisconnected"}
  PROVE  AcceptInv' /\ (fault = "none" => PhaseInv)' /\ EndInv'
  <1>1. /\ Accept \in SUBSET (Server \ {"stop"}) /\ {"acceptOk"} \in SUBSET (Server \ {"stop"})
        /\ Accepts \in SUBSET (Server \ {"stop"}) /\ {"safe"} \in SUBSET (Server \ {"stop"})
        /\ {"listen"} \in SUBSET (Server \ {"stop"})
        /\ Server \ {"stop"} \in SUBSET (Server \ {"stop"})
    BY Zenon DEF Accept, Accepts, Server
  <1>2. AcceptInv'
    BY Zenon, <1>1 DEF Quiet, IInv, AcceptInv
  <1>3. ASSUME fault' = "none"
        PROVE  PhaseInv'
    <2>1. PhaseInv /\ (pc # "run" => closing'[0] = 0)
      BY Zenon, <1>3 DEF IInv
    <2>2. (Before => Before') /\ (Running => Running')
      BY Zenon, <1>1 DEF Quiet, Before, Running
    <2>3. (Stopping => Stopping') /\ (Emptied => Emptied')
      BY Zenon, <1>1 DEF Quiet, Stopping, Emptied
    <2>4. ~Has(queue[0], {"listen"}) => ~Has(queue'[0], {"listen"})
      BY Zenon, <1>1 DEF Quiet
    <2> QED
      BY Zenon, <2>1, <2>2, <2>3, <2>4 DEF PhaseInv
  <1>4. EndInv'
    BY Zenon, <1>1 DEF Quiet, IInv, EndInv
  <1> QED
    BY Zenon, <1>2, <1>3, <1>4

(* start(). *)
LEMMA StartIInv ==
  ASSUME IInv, Start
  PROVE  IInv'
  <1> DEFINE h == H("listen", 0)
  <1>1. Loop' = Loop /\ Handler' = Handler /\ 0 \in Loop /\ h \in Handler
    BY ConstAssumption DEF Start, Loop, Handler, IInv, TypeOK, H
  <1>2. queue' \in [Loop -> Seq(Handler)] /\ PushFacts(Loop, queue, queue', 0, h)
    BY ZenonT(30), <1>1, Pushes DEF Start, IInv, TypeOK
  <1>3. TypeOK'
    BY SMTT(60), <1>1, <1>2 DEF Start, IInv, TypeOK, base, conns
  <1>4. (\A c \in Conn : HandlerInv(c) /\ ConnInv(c))' /\ ClosingInv'
    BY SMTT(30), <1>1, <1>2, ConnFrame DEF PushFacts, H, Start, IInv, base, conns
  <1>5. AcceptInv'
    BY Zenon, <1>1, <1>2 DEF PushFacts, H, Start, IInv, AcceptInv, Accept
  <1>6. fault' = "none" /\ fault = "none"
    BY Zenon DEF Start, IInv, EndInv, TypeOK
  <1>7. PhaseInv'
    <2>1. PhaseInv /\ status = "kNull" /\ Before /\ status' = "kStarting"
      BY Zenon, <1>6 DEF Start, IInv, PhaseInv
    <2>2. h.op = "listen" /\ h.op \notin Accepts /\ h.op \notin {"safe"}
      BY Zenon DEF H, Accepts
    <2>3. /\ ~Has(queue'[0], Accepts) /\ ~Has(queue'[0], {"safe"})
          /\ Lone(queue'[0], {"listen"})
      BY Zenon, <1>1, <1>2, <2>1, <2>2 DEF PushFacts, Before
    <2>4. Before'
      BY Zenon, <2>1, <2>3 DEF Start, Before, base
    <2> QED
      BY Zenon, <2>1, <2>4 DEF Start, PhaseInv, base
  <1>8. EndInv'
    BY Zenon, <1>1, <1>2, <1>6 DEF Start, IInv, EndInv, PhaseInv, Before, base, conns
  <1> QED
    BY Zenon, <1>3, <1>4, <1>5, <1>7, <1>8 DEF IInv

(* stop() in the thread of its caller. *)
LEMMA StopIInv ==
  ASSUME IInv, NEW u \in User, Stop(u)
  PROVE  IInv'
  <1>1. Loop' = Loop /\ Handler' = Handler
    BY Zenon, Same DEF Stop, IInv, server
  <1>2. TypeOK'
    BY ZenonT(60), <1>1 DEF Stop, IInv, TypeOK, server, base, conns
  <1>3. (\A c \in Conn : HandlerInv(c) /\ ConnInv(c))' /\ ClosingInv'
    BY ZenonT(60), <1>1 DEF Stop, IInv, HandlerInv, ConnInv, ClosingInv, Live, Gone, server, conns
  <1>4. AcceptInv' /\ EndInv'
    BY Zenon DEF Stop, IInv, AcceptInv, EndInv, server, conns
  <1>5. (fault = "none" => PhaseInv)'
    BY Zenon DEF Stop, IInv, PhaseInv, Before, Running, Stopping, Emptied, server, base
  <1> QED
    BY Zenon, <1>2, <1>3, <1>4, <1>5 DEF IInv

(* stop() from a user thread, the post of stopInLoop(). *)
LEMMA StopPostsIInv ==
  ASSUME IInv, NEW u \in User, StopPosts(u)
  PROVE  IInv'
  <1> DEFINE h == H("stop", 0)
  <1>1. Loop' = Loop /\ Handler' = Handler /\ 0 \in Loop /\ queue \in [Loop -> Seq(Handler)]
    BY Zenon, Same DEF StopPosts, IInv, server
  <1>2. h \in Handler /\ h.op = "stop"
    BY Zenon DEF Handler, H
  <1>3. queue' \in [Loop -> Seq(Handler)] /\ PushFacts(Loop, queue, queue', 0, h)
    BY Zenon, <1>1, <1>2, Pushes DEF StopPosts
  <1>4. TypeOK'
    BY <1>1, <1>3 DEF StopPosts, IInv, TypeOK, server, base, conns
  <1>5. (\A c \in Conn : HandlerInv(c) /\ ConnInv(c))' /\ ClosingInv'
    BY Zenon, <1>1, <1>2, <1>3, PushConn DEF StopPosts, Server, server, conns
  <1>6. Quiet(queue[0], queue'[0])
    BY Zenon, <1>1, <1>2, <1>3, PushQuiet
  <1>7. AcceptInv' /\ (fault = "none" => PhaseInv)' /\ EndInv'
    BY Zenon, <1>6, ServerFrame DEF StopPosts, server, base, conns, IInv, PhaseInv, EndInv
  <1> QED
    BY Zenon, <1>4, <1>5, <1>7 DEF IInv

(* The lambda of start(). *)
LEMMA ListenIInv ==
  ASSUME IInv, Listen
  PROVE  IInv'
  <1>1. /\ Loop' = Loop /\ Handler' = Handler /\ 0 \in Loop /\ Ready(0, "listen")
        /\ queue' = Popped(0) /\ DoAccept(TRUE) /\ TypeOK /\ fault = "none" /\ PhaseInv
    BY Zenon, Same DEF Listen, IInv, Ready
  <1>2. /\ queue' \in [Loop -> Seq(Handler)] /\ PopFacts(Loop, queue, queue', 0)
        /\ Head(queue[0]).op = "listen"
    BY Zenon, <1>1, Heads
  <1>3. /\ accepting' \in Loop \cup {NoLoop} /\ next' \in Nat
        /\ next' = 0 \/ next' < thread_num
        /\ fault' = "none"
    BY ZenonT(30), <1>1, Accepting
  <1>4. TypeOK'
    BY Zenon, <1>1, <1>2, <1>3 DEF Listen, TypeOK, base, conns
  <1>5. (\A c \in Conn : HandlerInv(c) /\ ConnInv(c))' /\ ClosingInv'
    BY Zenon, <1>1, <1>2, PopConn DEF Listen, conns
  <1>6. status = "kStarting" /\ Before
    <2>1. Has(queue[0], {"listen"})
      BY ZenonT(30), <1>1, <1>2 DEF PopFacts
    <2> QED
      BY Zenon, <2>1, <1>1 DEF PhaseInv
  <1>7. ~Has(queue'[0], {"listen"}) /\ ~Has(queue'[0], {"safe"}) /\ ~Has(queue'[0], Accepts)
    BY ZenonT(30), <1>1, <1>2, <1>6 DEF PopFacts, Before
  <1>8. ~Has(queue'[0], Accept) /\ ~Has(queue'[0], {"acceptOk"}) /\ Lone(queue'[0], Accept)
    BY Zenon, <1>7 DEF Has, Lone, Accept, Accepts
  <1>9. AcceptInv'
    BY Zenon, <1>8 DEF AcceptInv
  <1>10. PhaseInv'
    BY Zenon, <1>1, <1>6, <1>7 DEF Listen, PhaseInv, Before, Running, base
  <1>11. EndInv'
    BY Zenon, <1>3, <1>6 DEF Listen, IInv, EndInv, Before, conns
  <1> QED
    BY Zenon, <1>4, <1>5, <1>9, <1>10, <1>11 DEF IInv

(* newConnection() of a peer that is refused, or after an error. *)
LEMMA RefusedIInv ==
  ASSUME IInv, NewConnectionRefused
  PROVE  IInv'
  <1>1. /\ Loop' = Loop /\ Handler' = Handler /\ 0 \in Loop /\ queue' = Popped(0)
        /\ DoAccept(acceptor) /\ TypeOK /\ acceptor \in BOOLEAN
    BY Zenon, Same DEF NewConnectionRefused, IInv, TypeOK
  <1>2. PICK op \in Accept : Ready(0, op)
    BY Zenon DEF NewConnectionRefused, Accept
  <1>3. /\ queue' \in [Loop -> Seq(Handler)] /\ PopFacts(Loop, queue, queue', 0)
        /\ Head(queue[0]).op = op /\ fault = "none" /\ PhaseInv /\ pc = "run"
    BY Zenon, <1>1, <1>2, Heads DEF IInv
  <1>4. /\ accepting' \in Loop \cup {NoLoop} /\ next' \in Nat
        /\ next' = 0 \/ next' < thread_num
        /\ acceptor => accepting' # NoLoop /\ fault' = "none"
        /\ ~acceptor => accepting' = accepting /\ fault' = "null_acceptor"
    BY Zenon, <1>1, <1>3, Accepting
  <1>5. TypeOK'
    BY ZenonT(60), <1>1, <1>3, <1>4 DEF NewConnectionRefused, TypeOK, base, conns
  <1>6. (\A c \in Conn : HandlerInv(c) /\ ConnInv(c))' /\ ClosingInv'
    <2>1. Head(queue[0]).op # "remove"
      BY Zenon, <1>3 DEF Accept
    <2> QED
      BY Zenon, <1>1, <1>3, <2>1, PopConn DEF NewConnectionRefused, conns
  <1>7. ~Has(queue'[0], Accept) /\ Lone(queue'[0], Accept)
    BY ZenonT(30), <1>1, <1>3 DEF PopFacts, IInv, AcceptInv
  <1>8. AcceptInv'
    <2>1. ~Has(queue'[0], {"acceptOk"})
      BY Zenon, <1>7 DEF Has, Accept
    <2> QED
      BY Zenon, <1>7, <2>1 DEF AcceptInv
  <1>9. Has(queue[0], Accept) /\ Has(queue[0], Accepts) /\ Has(queue[0], Server \ {"stop"})
    <2>1. op \in Accepts /\ op \in Server \ {"stop"}
      BY Zenon DEF Accept, Accepts, Server
    <2> QED
      BY ZenonT(30), <1>1, <1>3, <2>1 DEF PopFacts
  <1>10. status \in {"kRunning", "kStopping"} /\ done = 0
    BY Zenon, <1>3, <1>9 DEF PhaseInv, Before, Running, Stopping, Emptied, IInv, TypeOK
  <1>11. ASSUME fault' = "none"
         PROVE  PhaseInv'
    <2>1. acceptor /\ status = "kRunning" /\ Running
      BY Zenon, <1>3, <1>4, <1>11, <1>10 DEF PhaseInv, Stopping
    <2>2. ~Has(queue'[0], {"safe"}) /\ ~Has(queue'[0], {"listen"})
      BY ZenonT(30), <1>1, <1>3, <2>1 DEF PopFacts, PhaseInv, Running
    <2> QED
      BY Zenon, <1>3, <2>1, <2>2 DEF NewConnectionRefused, PhaseInv, Running, base
  <1>12. EndInv'
    BY <1>10 DEF NewConnectionRefused, IInv, EndInv, conns
  <1> QED
    BY Zenon, <1>5, <1>6, <1>8, <1>11, <1>12 DEF IInv

(* The handler of an aborted accept. *)
LEMMA AbortedIInv ==
  ASSUME IInv, NewConnectionAborted
  PROVE  IInv'
  <1>1. /\ Loop' = Loop /\ Handler' = Handler /\ 0 \in Loop /\ queue' = Popped(0)
        /\ Ready(0, "acceptAborted") /\ TypeOK
    BY Zenon, Same DEF NewConnectionAborted, IInv, server
  <1>2. /\ queue' \in [Loop -> Seq(Handler)] /\ PopFacts(Loop, queue, queue', 0)
        /\ Head(queue[0]).op = "acceptAborted" /\ pc = "run"
    BY Zenon, <1>1, Heads
  <1>3. TypeOK'
    BY SMTT(30), <1>1, <1>2 DEF NewConnectionAborted, TypeOK, server, base, conns
  <1>4. (\A c \in Conn : HandlerInv(c) /\ ConnInv(c))' /\ ClosingInv'
    BY Zenon, <1>1, <1>2, PopConn DEF NewConnectionAborted, server, conns
  <1>5. Quiet(queue[0], queue'[0])
    BY Zenon, <1>1, <1>2, PopQuiet
  <1>6. AcceptInv' /\ (fault = "none" => PhaseInv)' /\ EndInv'
    BY Zenon, <1>2, <1>5, ServerFrame DEF NewConnectionAborted, server, base, conns, IInv, EndInv
  <1> QED
    BY Zenon, <1>3, <1>4, <1>6 DEF IInv

(* stopInLoop() without an acceptor: a fault. *)
LEMMA StopInLoopNullIInv ==
  ASSUME IInv, StopInLoopNull
  PROVE  IInv'
  <1>1. /\ Loop' = Loop /\ Handler' = Handler /\ 0 \in Loop /\ queue' = Popped(0)
        /\ Ready(0, "stop") /\ TypeOK
    BY Zenon, Same DEF StopInLoopNull, IInv
  <1>2. /\ queue' \in [Loop -> Seq(Handler)] /\ PopFacts(Loop, queue, queue', 0)
        /\ Head(queue[0]).op = "stop"
    BY Zenon, <1>1, Heads
  <1>3. TypeOK'
    BY Zenon, <1>1, <1>2 DEF StopInLoopNull, TypeOK, base, conns
  <1>4. (\A c \in Conn : HandlerInv(c) /\ ConnInv(c))' /\ ClosingInv'
    BY Zenon, <1>1, <1>2, PopConn DEF StopInLoopNull, conns
  <1>5. Lone(queue'[0], Accept) /\ \A S : Has(queue'[0], S) => Has(queue[0], S)
    BY ZenonT(30), <1>1, <1>2 DEF PopFacts, IInv, AcceptInv
  <1>6. AcceptInv'
    BY Zenon, <1>5 DEF StopInLoopNull, IInv, AcceptInv
  <1>7. fault' # "none" /\ EndInv'
    BY Zenon, <1>5 DEF StopInLoopNull, IInv, EndInv, conns
  <1> QED
    BY Zenon, <1>3, <1>4, <1>6, <1>7 DEF IInv

(* The end of the loop over the connections. *)
LEMMA CloseAllDoneIInv ==
  ASSUME IInv, CloseAllDone
  PROVE  IInv'
  <1>1. Loop' = Loop /\ Handler' = Handler
    BY Zenon, Same DEF CloseAllDone, IInv, server
  <1>2. TypeOK'
    BY ZenonT(60), <1>1 DEF CloseAllDone, IInv, TypeOK, server, conns
  <1>3. (\A c \in Conn : HandlerInv(c) /\ ConnInv(c))' /\ ClosingInv'
    BY ZenonT(60), <1>1 DEF CloseAllDone, IInv, HandlerInv, ConnInv, ClosingInv, Live, Gone, server, conns
  <1>4. AcceptInv' /\ EndInv'
    BY Zenon DEF CloseAllDone, IInv, AcceptInv, EndInv, server, conns
  <1>5. PhaseInv'
    BY Zenon DEF CloseAllDone, IInv, PhaseInv, Before, Running, Stopping, server, TypeOK
  <1> QED
    BY Zenon, <1>2, <1>3, <1>4, <1>5 DEF IInv

(* stopInLoop(). *)
LEMMA StopInLoopIInv ==
  ASSUME IInv, StopInLoop
  PROVE  IInv'
  <1> DEFINE a == H("acceptAborted", 0)
             s == H("safe", 0)
             p == Popped(0)
             q == IF accepting = NoLoop THEN p ELSE Push(p, 0, a)
  <1>1. /\ Loop' = Loop /\ Handler' = Handler /\ 0 \in Loop /\ Ready(0, "stop") /\ TypeOK
        /\ queue' = IF connections = {} THEN Push(q, 0, s) ELSE q
    BY Zenon, Same DEF StopInLoop, IInv
  <1>2. /\ p \in [Loop -> Seq(Handler)] /\ PopFacts(Loop, queue, p, 0)
        /\ Head(queue[0]).op = "stop" /\ fault = "none" /\ PhaseInv
        /\ closing[0] = 0 /\ pc = "run"
    BY Zenon, <1>1, Heads DEF IInv
  <1>3. a \in Handler /\ a.op = "acceptAborted" /\ s \in Handler /\ s.op = "safe"
    BY Zenon DEF Handler, H
  <1>4. acceptor /\ status = "kRunning" /\ Running
    BY ZenonT(30), <1>2 DEF StopInLoop, PhaseInv, Before, Stopping, Emptied, IInv, TypeOK
  <1> HIDE DEF a, s
  <1>5. \A c : \A op \in {"remove", "established", "close", "readError"} :
          H(op, c) # a /\ H(op, c) # s /\ H(op, c) # Head(queue[0])
    <2>1. Head(queue[0]).op = "stop"
      BY Zenon, <1>2
    <2> QED
      BY ONLY HOp, <2>1, <1>3
  <1>6. /\ ~Has(p[0], {"safe"}) /\ ~Has(p[0], {"listen"}) /\ Lone(p[0], Accept)
        /\ Has(p[0], {"acceptOk"}) => next_conn_id < MaxConns
        /\ \A k \in Loop : \A c \in Conn :
             \A op \in {"remove", "established", "close", "readError"} :
               /\ In(p[k], H(op, c)) <=> In(queue[k], H(op, c))
               /\ Once(queue[k], H(op, c)) => Once(p[k], H(op, c))
    BY ZenonT(30), <1>1, <1>2, <1>4, <1>5 DEF PopFacts, PhaseInv, Running, IInv, AcceptInv
  <1> HIDE DEF p
  <1>7. /\ q \in [Loop -> Seq(Handler)]
        /\ ~Has(q[0], {"safe"}) /\ ~Has(q[0], {"listen"}) /\ Lone(q[0], Accept)
        /\ Has(q[0], {"acceptOk"}) => next_conn_id < MaxConns
        /\ \A k \in Loop : \A c \in Conn :
             \A op \in {"remove", "established", "close", "readError"} :
               /\ In(q[k], H(op, c)) <=> In(queue[k], H(op, c))
               /\ Once(queue[k], H(op, c)) => Once(q[k], H(op, c))
    <2>1. CASE accepting = NoLoop
      BY Zenon, <2>1, <1>2, <1>6
    <2>2. CASE accepting # NoLoop
      <3>1. /\ q \in [Loop -> Seq(Handler)] /\ PushFacts(Loop, p, q, 0, a)
        BY Zenon, <2>2, <1>1, <1>2, <1>3, Pushes
      <3>2. a.op \notin {"safe"} /\ a.op \notin {"listen"} /\ a.op \notin Accept
            /\ a.op \notin {"acceptOk"}
        BY Zenon, <1>3 DEF Accept
      <3> HIDE DEF q
      <3> QED
        BY ZenonT(30), <3>1, <3>2, <1>1, <1>5, <1>6 DEF PushFacts
    <2> QED
      BY Zenon, <2>1, <2>2
  <1> HIDE DEF q
  <1>8. AcceptsFirst(q[0]) /\ Lone(q[0], {"safe"})
    BY Zenon, <1>7 DEF AcceptsFirst, Has, Lone
  <1>9. /\ queue' \in [Loop -> Seq(Handler)]
        /\ connections # {} => ~Has(queue'[0], {"safe"})
        /\ ~Has(queue'[0], {"listen"}) /\ Lone(queue'[0], Accept)
        /\ Lone(queue'[0], {"safe"}) /\ AcceptsFirst(queue'[0])
        /\ Has(queue'[0], {"acceptOk"}) => next_conn_id < MaxConns
        /\ \A k \in Loop : \A c \in Conn :
             \A op \in {"remove", "established", "close", "readError"} :
               /\ In(queue'[k], H(op, c)) <=> In(queue[k], H(op, c))
               /\ Once(queue[k], H(op, c)) => Once(queue'[k], H(op, c))
    <2>1. CASE connections # {}
      BY ZenonT(30), <2>1, <1>1, <1>7, <1>8
    <2>2. CASE connections = {}
      <3>1. /\ queue' \in [Loop -> Seq(Handler)] /\ PushFacts(Loop, q, queue', 0, s)
        BY Zenon, <2>2, <1>1, <1>3, <1>7, Pushes
      <3>2. s.op \notin {"listen"} /\ s.op \notin Accept /\ s.op \notin {"acceptOk"}
            /\ s.op \notin Accepts
        BY Zenon, <1>3 DEF Accept, Accepts
      <3> QED
        BY ZenonT(30), <3>1, <3>2, <2>2, <1>1, <1>5, <1>7, <1>8 DEF PushFacts
    <2> QED
      BY ZenonT(30), <2>1, <2>2
  <1>10. TypeOK'
    BY ZenonT(30), <1>1, <1>9 DEF StopInLoop, TypeOK, conns
  <1>11. (\A c \in Conn : HandlerInv(c) /\ ConnInv(c))' /\ ClosingInv'
    BY Zenon, <1>1, <1>9, ConnFrame DEF StopInLoop, conns, IInv
  <1>12. AcceptInv'
    BY Zenon, <1>9 DEF StopInLoop, AcceptInv
  <1>13. PhaseInv'
    <2>1. pc' = IF connections = {} THEN "run" ELSE "closeAll"
      BY Zenon, <1>2 DEF StopInLoop
    <2>2. Stopping'
      BY Zenon, <2>1, <1>4, <1>9 DEF StopInLoop, Stopping, Running
    <2> QED
      BY Zenon, <2>1, <2>2, <1>2, <1>9 DEF StopInLoop, PhaseInv
  <1>14. EndInv'
    BY Zenon, <1>2, <1>4 DEF StopInLoop, IInv, EndInv, Running, conns
  <1> QED
    BY Zenon, <1>10, <1>11, <1>12, <1>13, <1>14 DEF IInv

(* A peer connects, or accept fails. *)
LEMMA AcceptCompletesIInv ==
  ASSUME IInv, AcceptCompletes
  PROVE  IInv'
  <1>1. /\ Loop' = Loop /\ Handler' = Handler /\ 0 \in Loop /\ queue \in [Loop -> Seq(Handler)]
        /\ fault = "none" /\ PhaseInv /\ accepting \in Loop /\ accepting # NoLoop
    BY Zenon, Same DEF AcceptCompletes, IInv, server, TypeOK
  <1>2. PICK op \in Accept : /\ queue' = Push(queue, 0, H(op, accepting))
                             /\ op = "acceptOk" => next_conn_id < MaxConns
    BY Zenon DEF AcceptCompletes, Accept
  <1> DEFINE h == H(op, accepting)
  <1>3. h \in Handler /\ h.op = op
    BY Zenon, <1>1 DEF Handler, H, Accept
  <1>4. queue' \in [Loop -> Seq(Handler)] /\ PushFacts(Loop, queue, queue', 0, h)
    BY Zenon, <1>1, <1>2, <1>3, Pushes
  <1>5. TypeOK'
    BY ZenonT(60), <1>1, <1>4 DEF AcceptCompletes, IInv, TypeOK, server, base, conns
  <1>6. (\A c \in Conn : HandlerInv(c) /\ ConnInv(c))' /\ ClosingInv'
    <2>1. h.op \in Server \ {"remove"}
      BY Zenon, <1>3 DEF Server, Accept
    <2> HIDE DEF h
    <2> QED
      BY Zenon, <1>1, <1>4, <2>1, PushConn DEF AcceptCompletes, server, conns
  <1> HIDE DEF h
  <1>7. AcceptInv'
    <2>1. Lone(queue'[0], Accept)
      BY Zenon, <1>1, <1>3, <1>4 DEF PushFacts, IInv, AcceptInv
    <2>2. Has(queue'[0], {"acceptOk"}) => Has(queue[0], {"acceptOk"}) \/ op = "acceptOk"
      BY Zenon, <1>1, <1>3, <1>4 DEF PushFacts
    <2> QED
      BY ZenonT(30), <2>1, <2>2, <1>2 DEF AcceptCompletes, IInv, AcceptInv, server
  <1>8. acceptor /\ status = "kRunning" /\ Running
    BY Zenon, <1>1 DEF PhaseInv, Before, Stopping, Emptied, IInv, TypeOK
  <1>9. PhaseInv'
    <2>1. ~Has(queue'[0], {"safe"}) /\ ~Has(queue'[0], {"listen"})
      BY Zenon, <1>1, <1>3, <1>4, <1>8 DEF PushFacts, PhaseInv, Running, Accept
    <2> QED
      BY Zenon, <2>1, <1>1, <1>8 DEF AcceptCompletes, PhaseInv, Running, server, base
  <1>10. EndInv'
    BY Zenon, <1>1, <1>8 DEF AcceptCompletes, IInv, EndInv, Running, server, conns
  <1> QED
    BY Zenon, <1>5, <1>6, <1>7, <1>9, <1>10 DEF IInv

(* While connections_ is empty no removal is queued. *)
LEMMA NoRemove ==
  ASSUME IInv, connections = {}, 0 \in Loop
  PROVE  ~Has(queue[0], {"remove"})
  <1> SUFFICES ASSUME NEW i \in 1..Len(queue[0]), queue[0][i].op = "remove"
               PROVE  FALSE
    BY Zenon DEF Has
  <1>1. queue[0][i] \in Handler
    BY SMTT(30) DEF IInv, TypeOK
  <1>2. PICK c \in Conn : queue[0][i] = H("remove", c)
    BY Zenon, <1>1 DEF Handler, H
  <1>3. In(queue[0], H("remove", c))
    BY Zenon, <1>2 DEF In
  <1> QED
    BY Zenon, <1>3 DEF IInv, ConnInv

(* stopInloopSafe(). *)
LEMMA StopInloopSafeIInv ==
  ASSUME IInv, StopInloopSafe
  PROVE  IInv'
  <1>1. /\ Loop' = Loop /\ Handler' = Handler /\ 0 \in Loop /\ queue' = Popped(0)
        /\ Ready(0, "safe") /\ TypeOK
    BY Zenon, Same DEF StopInloopSafe, IInv
  <1>2. /\ queue' \in [Loop -> Seq(Handler)] /\ PopFacts(Loop, queue, queue', 0)
        /\ Head(queue[0]).op = "safe" /\ fault = "none" /\ PhaseInv
        /\ closing[0] = 0 /\ pc = "run"
    BY Zenon, <1>1, Heads DEF IInv
  <1>3. Has(queue[0], {"safe"}) /\ Has(queue[0], Server \ {"stop"})
    BY ZenonT(30), <1>1, <1>2 DEF PopFacts, Server
  <1>4. status = "kStopping" /\ Stopping
    BY Zenon, <1>2, <1>3 DEF PhaseInv, Before, Running, Emptied, IInv, TypeOK
  <1>5. connections = {} /\ pool /\ fault' = "none" /\ pc' = "join"
    BY Zenon, <1>2, <1>3, <1>4 DEF Stopping, StopInloopSafe
  <1>6. TypeOK'
    BY Zenon, <1>1, <1>2, <1>5 DEF StopInloopSafe, TypeOK, conns
  <1>7. (\A c \in Conn : HandlerInv(c) /\ ConnInv(c))' /\ ClosingInv'
    BY Zenon, <1>1, <1>2, PopConn DEF StopInloopSafe, conns
  <1>8. AcceptInv' /\ \A S : Has(queue'[0], S) => Has(queue[0], S)
    <2>1. Lone(queue'[0], Accept) /\ \A S : Has(queue'[0], S) => Has(queue[0], S)
      BY ZenonT(30), <1>1, <1>2 DEF PopFacts, IInv, AcceptInv
    <2> QED
      BY Zenon, <2>1 DEF StopInloopSafe, IInv, AcceptInv
  <1>9. ~Has(queue'[0], Server \ {"stop"})
    <2>1. ~Has(queue'[0], {"safe"}) /\ ~Has(queue'[0], Accepts)
      BY ZenonT(30), <1>1, <1>2, <1>4 DEF PopFacts, Stopping
    <2>2. ~Has(queue'[0], {"listen"}) /\ ~Has(queue'[0], {"remove"})
      BY Zenon, <1>1, <1>2, <1>4, <1>5, <1>8, NoRemove DEF PhaseInv
    <2> QED
      BY Zenon, <2>1, <2>2 DEF Has, Server, Accepts
  <1>10. PhaseInv'
    <2>1. Emptied'
      BY ZenonT(30), <1>4, <1>5, <1>9 DEF StopInloopSafe, Stopping, Emptied
    <2>2. ~Has(queue'[0], {"listen"})
      BY Zenon, <1>9 DEF Has, Server
    <2> QED
      BY Zenon, <2>1, <2>2, <1>2, <1>4, <1>5 DEF StopInloopSafe, PhaseInv, Stopping
  <1>11. EndInv'
    BY ZenonT(30), <1>4, <1>5 DEF StopInloopSafe, IInv, EndInv, Stopping, conns
  <1> QED
    BY Zenon, <1>6, <1>7, <1>8, <1>10, <1>11 DEF IInv

(* stopThreadPool(): no connection is in use when the threads have ended. *)
LEMMA StopThreadPoolIInv ==
  ASSUME IInv, StopThreadPool
  PROVE  IInv'
  <1>1. /\ Loop' = Loop /\ Handler' = Handler /\ 0 \in Loop /\ queue \in [Loop -> Seq(Handler)]
        /\ fault = "none" /\ PhaseInv /\ pc = "join" /\ TypeOK
    BY Zenon, Same DEF StopThreadPool, IInv
  <1>2. status = "kStopping" /\ Emptied /\ closing[0] = 0
    BY Zenon, <1>1 DEF PhaseInv, Before, Running, TypeOK
  <1>3. \A l \in Loop : closing[l] = 0
    BY Zenon, <1>2 DEF StopThreadPool
  <1>4. \A c \in Conn : st[c] \in {"none", "kDisconnected"}
    <2> TAKE c \in Conn
    <2>1. ~Live(c)
      BY Zenon, <1>2 DEF Emptied, IInv, ConnInv
    <2>2. home[c] \in Loop /\ c # 0
      BY <1>1, ConstAssumption DEF TypeOK, Conn
    <2> QED
      BY Zenon, <1>1, <1>3, <2>1, <2>2 DEF Live, TypeOK
  <1>5. /\ queue' \in [Loop -> Seq(Handler)] /\ queue'[0] = queue[0]
        /\ \A l \in Loop : queue'[l] = queue[l] \/ queue'[l] = << >>
    BY <1>1 DEF StopThreadPool
  <1>6. TypeOK'
    BY ZenonT(30), <1>1, <1>5 DEF StopThreadPool, TypeOK, conns
  <1>7. (\A c \in Conn : HandlerInv(c) /\ ConnInv(c))' /\ ClosingInv'
    <2>1. \A h : ~In(<< >>, h) /\ Once(<< >>, h)
      BY DEF In, Once
    <2> QED
      BY Zenon, <1>1, <1>5, <2>1, ConnFrame DEF StopThreadPool, conns, IInv
  <1>8. AcceptInv'
    BY Zenon, <1>5 DEF StopThreadPool, IInv, AcceptInv
  <1>9. PhaseInv'
    BY Zenon, <1>1, <1>2, <1>5 DEF StopThreadPool, PhaseInv, Emptied
  <1>10. EndInv'
    BY Zenon, <1>1, <1>2, <1>4, <1>5 DEF StopThreadPool, IInv, EndInv, Emptied, conns
  <1> QED
    BY Zenon, <1>6, <1>7, <1>8, <1>9, <1>10 DEF IInv

(* on_stopped_cb. *)
LEMMA OnStoppedIInv ==
  ASSUME IInv, OnStopped
  PROVE  IInv'
  <1>1. Loop' = Loop /\ Handler' = Handler /\ PhaseInv
    BY Zenon, Same DEF OnStopped, IInv, server
  <1>2. status = "kStopping" /\ Emptied /\ done = 0 /\ done' = 1
    BY SMTT(30), <1>1 DEF OnStopped, PhaseInv, Before, Running, Emptied, IInv, TypeOK
  <1>3. TypeOK'
    BY SMTT(30), <1>1, <1>2 DEF OnStopped, IInv, TypeOK, server, conns
  <1>4. (\A c \in Conn : HandlerInv(c) /\ ConnInv(c))' /\ ClosingInv'
    BY ZenonT(30), <1>1 DEF OnStopped, IInv, HandlerInv, ConnInv, ClosingInv, Live, Gone, server, conns
  <1>5. AcceptInv'
    BY Zenon DEF OnStopped, IInv, AcceptInv, server
  <1>6. PhaseInv'
    BY Zenon, <1>1, <1>2 DEF OnStopped, PhaseInv, Emptied, server
  <1>7. EndInv'
    BY Zenon, <1>2 DEF OnStopped, IInv, EndInv, Emptied, server, conns
  <1> QED
    BY Zenon, <1>3, <1>4, <1>5, <1>6, <1>7 DEF IInv

(* The store of kStopped after it. *)
LEMMA StoppedStoreIInv ==
  ASSUME IInv, StoppedStore
  PROVE  IInv'
  <1>1. Loop' = Loop /\ Handler' = Handler /\ PhaseInv
    BY Zenon, Same DEF StoppedStore, IInv
  <1>2. status = "kStopping" /\ Emptied
    BY Zenon, <1>1 DEF StoppedStore, PhaseInv, Before, Running, IInv, TypeOK
  <1>3. TypeOK'
    BY Zenon, <1>1 DEF StoppedStore, IInv, TypeOK, conns
  <1>4. (\A c \in Conn : HandlerInv(c) /\ ConnInv(c))' /\ ClosingInv'
    BY ZenonT(30), <1>1 DEF StoppedStore, IInv, HandlerInv, ConnInv, ClosingInv, Live, Gone, conns
  <1>5. AcceptInv'
    BY Zenon DEF StoppedStore, IInv, AcceptInv
  <1>6. PhaseInv'
    BY Zenon, <1>1, <1>2 DEF StoppedStore, PhaseInv, Emptied
  <1>7. EndInv'
    BY Zenon, <1>2 DEF StoppedStore, IInv, EndInv, conns
  <1> QED
    BY Zenon, <1>3, <1>4, <1>5, <1>6, <1>7 DEF IInv

(* newConnection(): a connection that was not there before. *)
LEMMA NewConnectionIInv ==
  ASSUME IInv, NewConnection
  PROVE  IInv'
  <1>0. PICK c, l : c = next_conn_id + 1 /\ l = Arg(0)
    BY Zenon
  <1> DEFINE h == H("established", c)
             p == Popped(0)
  <1>1. /\ Loop' = Loop /\ Handler' = Handler /\ 0 \in Loop /\ Ready(0, "acceptOk") /\ TypeOK
        /\ queue' = IF l = 0 THEN p ELSE Push(p, l, h)
        /\ DoAccept(acceptor) /\ acceptor \in BOOLEAN
    BY ZenonT(30), <1>0, Same DEF NewConnection, IInv, TypeOK
  <1>2. /\ p \in [Loop -> Seq(Handler)] /\ PopFacts(Loop, queue, p, 0)
        /\ Head(queue[0]) = H("acceptOk", l) /\ Head(queue[0]).op = "acceptOk"
        /\ l \in Loop /\ fault = "none" /\ PhaseInv /\ pc = "run"
    BY Zenon, <1>0, <1>1, Heads DEF IInv, Accept
  <1>3. /\ Has(queue[0], Accept) /\ Has(queue[0], {"acceptOk"}) /\ Has(queue[0], Accepts)
        /\ Has(queue[0], Server \ {"stop"})
    BY ZenonT(30), <1>1, <1>2 DEF PopFacts, Accept, Accepts, Server
  <1>4. c \in Conn /\ next_conn_id \in Nat /\ c > next_conn_id
    BY SMTT(30), <1>0, <1>1, <1>3, ConstAssumption DEF IInv, AcceptInv, TypeOK, Conn
  <1>5. st[c] = "none" /\ c \notin connections /\ c \notin reading
    BY ZenonT(30), <1>4 DEF IInv, ConnInv, Live
  <1>6. \A k \in Loop : \A op \in {"established", "close", "readError"} : ~In(queue[k], H(op, c))
    BY <1>4, <1>5 DEF IInv, HandlerInv
  <1>7. ~In(queue[0], H("remove", c))
    BY Zenon, <1>4, <1>5 DEF IInv, ConnInv
  <1>8. h \in Handler /\ h.op = "established"
    BY Zenon, <1>4 DEF Handler, H
  <1>9. status \in {"kRunning", "kStopping"} /\ done = 0 /\ pool
    BY ZenonT(30), <1>2, <1>3 DEF PhaseInv, Before, Running, Stopping, Emptied, IInv, TypeOK
  <1>10. /\ accepting' \in Loop \cup {NoLoop} /\ next' \in Nat
         /\ next' = 0 \/ next' < thread_num
         /\ acceptor => accepting' # NoLoop /\ fault' = "none"
         /\ ~acceptor => accepting' = accepting /\ fault' = "null_acceptor"
    BY Zenon, <1>1, <1>2, Accepting
  <1>11. \A d : \A op \in {"remove", "established", "close", "readError"} : H(op, d) # Head(queue[0])
    <2>1. Head(queue[0]).op \notin {"remove", "established", "close", "readError"}
      BY Zenon, <1>2
    <2> QED
      BY ONLY ZenonT(60), <2>1, HOp
  <1>12. \A d \in Conn : \A op \in {"remove", "close", "readError"} : H(op, d) # h
    BY ONLY HOp DEF h
  <1>13. \A d \in Conn : H("established", d) = h <=> d = c
    BY ONLY HOp DEF h
  <1>14. /\ \A k \in Loop : \A d \in Conn :
              \A op \in {"remove", "established", "close", "readError"} :
                /\ In(p[k], H(op, d)) <=> In(queue[k], H(op, d))
                /\ Once(queue[k], H(op, d)) => Once(p[k], H(op, d))
         /\ ~Has(p[0], Accept) /\ Lone(p[0], Accept)
         /\ \A S : Has(p[0], S) => Has(queue[0], S)
    BY ZenonT(30), <1>1, <1>2, <1>11 DEF PopFacts, IInv, AcceptInv, Accept
  <1> HIDE DEF h, p
  <1>15. /\ queue' \in [Loop -> Seq(Handler)]
         /\ \A k \in Loop : \A d \in Conn : \A op \in {"remove", "close", "readError"} :
              /\ In(queue'[k], H(op, d)) <=> In(queue[k], H(op, d))
              /\ Once(queue[k], H(op, d)) => Once(queue'[k], H(op, d))
         /\ \A k \in Loop : \A d \in Conn :
              /\ In(queue'[k], H("established", d)) <=>
                   In(queue[k], H("established", d)) \/ (d = c /\ k = l /\ l # 0)
              /\ Once(queue[k], H("established", d)) => Once(queue'[k], H("established", d))
         /\ ~Has(queue'[0], Accept) /\ Lone(queue'[0], Accept)
         /\ \A S : Has(queue'[0], S) => Has(queue[0], S)
    <2>1. CASE l = 0
      BY ZenonT(30), <2>1, <1>1, <1>2, <1>14
    <2>2. CASE l # 0
      <3>1. queue' \in [Loop -> Seq(Handler)] /\ PushFacts(Loop, p, queue', l, h)
        BY Zenon, <2>2, <1>1, <1>2, <1>8, Pushes
      <3>2. \A k \in Loop : \A d \in Conn : \A op \in {"remove", "close", "readError"} :
              /\ In(queue'[k], H(op, d)) <=> In(queue[k], H(op, d))
              /\ Once(queue[k], H(op, d)) => Once(queue'[k], H(op, d))
        BY ZenonT(30), <3>1, <1>12, <1>14 DEF PushFacts
      <3>3. \A k \in Loop : \A d \in Conn :
              /\ In(queue'[k], H("established", d)) <=>
                   In(queue[k], H("established", d)) \/ (d = c /\ k = l /\ l # 0)
              /\ Once(queue[k], H("established", d)) => Once(queue'[k], H("established", d))
        BY ZenonT(30), <3>1, <2>2, <1>6, <1>13, <1>14 DEF PushFacts
      <3>4. /\ ~Has(queue'[0], Accept) /\ Lone(queue'[0], Accept)
            /\ \A S : Has(queue'[0], S) => Has(queue[0], S)
        BY ZenonT(30), <3>1, <2>2, <1>1, <1>14 DEF PushFacts
      <3> QED
        BY ZenonT(30), <3>1, <3>2, <3>3, <3>4
    <2> QED
      BY ZenonT(30), <2>1, <2>2
  <1>16. /\ next_conn_id' = c /\ connections' = connections \cup {c}
         /\ home' \in [Conn -> Loop] /\ home'[c] = l /\ \A d \in Conn : d # c => home'[d] = home[d]
         /\ st'[c] = (IF l = 0 THEN "kConnected" ELSE "new")
         /\ \A d \in Conn : d # c => st'[d] = st[d]
         /\ reading' = (IF l = 0 THEN reading \cup {c} ELSE reading)
         /\ UNCHANGED <<status, substatus, acceptor, pool, closing, pc, done>>
    BY ZenonT(30), <1>0, <1>1, <1>2, <1>4 DEF NewConnection, TypeOK, base
  <1>17. TypeOK'
    <2>1. st' \in [Conn -> {"none", "new", "kConnected", "kDisconnecting", "kDisconnected"}]
      BY ZenonT(30), <1>1 DEF NewConnection, TypeOK
    <2>2. next_conn_id' \in 0..MaxConns
      BY <1>4, <1>16, ConstAssumption DEF Conn
    <2>3. connections' \subseteq Conn /\ reading' \subseteq Conn
      BY Zenon, <1>1, <1>4, <1>16 DEF TypeOK
    <2>4. queue' \in [Loop -> Seq(Handler)] /\ home' \in [Conn -> Loop]
      BY ZenonT(30), <1>15, <1>16
    <2>5. UNCHANGED <<thread_num, status, substatus, acceptor, pool, closing, pc, todo,
                      stopped, upc, done, missed>>
      BY Zenon DEF NewConnection, base
    <2>6. fault' \in {"none", "null_acceptor", "null_pool"}
      BY Zenon, <1>1, <1>10
    <2> QED
      BY SMTT(30), <1>1, <1>10, <2>1, <2>2, <2>3, <2>4, <2>5, <2>6 DEF TypeOK
  <1>18. \A d \in Conn : HandlerInv(d)'
    <2> TAKE d \in Conn
    <2>1. HandlerInv(d)
      BY Zenon DEF IInv
    <2>2. CASE d = c
      BY ZenonT(30), <2>1, <2>2, <1>1, <1>6, <1>15, <1>16 DEF HandlerInv
    <2>3. CASE d # c
      BY ZenonT(30), <2>1, <2>3, <1>1, <1>15, <1>16 DEF HandlerInv
    <2> QED
      BY Zenon, <2>2, <2>3
  <1>19. \A d \in Conn : ConnInv(d)'
    <2> TAKE d \in Conn
    <2>1. ConnInv(d)
      BY Zenon DEF IInv
    <2>2. CASE d = c
      <3>1. Live(c)' /\ ~Gone(c)' /\ st'[c] # "none" /\ (l # 0 => c \notin reading')
        BY ZenonT(30), <1>5, <1>16 DEF Live, Gone
      <3>2. ~(c > next_conn_id')
        BY <1>4, <1>16 DEF Conn
      <3>3. ~In(queue'[0], H("remove", c)) /\ Once(queue'[0], H("remove", c))
        BY <2>1, <2>2, <1>1, <1>7, <1>15 DEF ConnInv
      <3> QED
        BY Zenon, <2>2, <3>1, <3>2, <3>3, <1>16 DEF ConnInv
    <2>3. CASE d # c
      <3>1. (Live(d)' <=> Live(d)) /\ (Gone(d)' <=> Gone(d))
        BY <2>3, <1>16 DEF Live, Gone
      <3>2. d > next_conn_id' <=> d > next_conn_id
        BY <2>3, <1>0, <1>4, <1>16 DEF Conn
      <3> QED
        BY ZenonT(30), <2>1, <2>3, <3>1, <3>2, <1>1, <1>15, <1>16 DEF ConnInv
    <2> QED
      BY Zenon, <2>2, <2>3
  <1>20. ClosingInv'
    <2>1. \A k \in Loop : closing[k] # 0 => closing[k] \in Conn /\ closing[k] # c
      BY SMTT(30), <1>1, <1>5 DEF IInv, ClosingInv, TypeOK, Conn
    <2> QED
      BY Zenon, <2>1, <1>1, <1>16 DEF IInv, ClosingInv
  <1>21. AcceptInv'
    <2>1. ~Has(queue'[0], {"acceptOk"})
      BY ZenonT(30), <1>15 DEF Has, Accept
    <2> QED
      BY Zenon, <2>1, <1>15 DEF AcceptInv
  <1>22. ASSUME fault' = "none"
         PROVE  PhaseInv'
    <2>1. acceptor /\ status = "kRunning" /\ Running
      BY Zenon, <1>2, <1>9, <1>10, <1>22 DEF PhaseInv, Stopping
    <2>2. ~Has(queue'[0], {"safe"}) /\ ~Has(queue'[0], {"listen"})
      BY Zenon, <1>2, <1>15, <2>1 DEF PhaseInv, Running
    <2> QED
      BY ZenonT(30), <1>2, <1>16, <2>1, <2>2 DEF PhaseInv, Running
  <1>23. EndInv'
    <2>1. done' = 0 /\ pool' /\ status' # "kNull"
      BY ZenonT(30), <1>9, <1>16
    <2> QED
      BY ONLY <2>1 DEF EndInv
  <1> QED
    BY Zenon, <1>17, <1>18, <1>19, <1>20, <1>21, <1>22, <1>23 DEF IInv

-----------------------------------------------------------------------------
(* close() of a connection that is up, from a user or from stopInLoop(). *)
LEMMA ClosesIInv ==
  ASSUME IInv, NEW c \in Conn, st[c] = "kConnected", fault = "none",
         st' = [st EXCEPT ![c] = "kDisconnecting"],
         queue' = Push(queue, home[c], H("close", c)),
         todo' \subseteq todo, missed' \subseteq Conn,
         UNCHANGED <<server, closing, pc, stopped, accepting, home, reading, upc, done, fault>>
  PROVE  IInv'
  <1> DEFINE h == H("close", c)
  <1>1. /\ Loop' = Loop /\ Handler' = Handler /\ 0 \in Loop /\ queue \in [Loop -> Seq(Handler)]
        /\ TypeOK /\ PhaseInv /\ home[c] \in Loop
    BY Zenon, Same DEF server, IInv, TypeOK
  <1>2. h \in Handler /\ h.op = "close"
    BY DEF Handler, H
  <1>3. queue' \in [Loop -> Seq(Handler)] /\ PushFacts(Loop, queue, queue', home[c], h)
    BY ZenonT(30), <1>1, <1>2, Pushes
  <1>4. /\ \A d \in Conn : \A op \in {"remove", "established", "readError"} : H(op, d) # h
        /\ \A d \in Conn : H("close", d) = h <=> d = c
    BY ONLY HOp DEF h
  <1>5. st'[c] = "kDisconnecting" /\ \A d \in Conn : d # c => st'[d] = st[d]
    BY Zenon, <1>1 DEF TypeOK
  <1>6. TypeOK'
    BY SMTT(30), <1>1, <1>3 DEF TypeOK, server
  <1> HIDE DEF h
  <1>7. \A d \in Conn : HandlerInv(d)'
    <2> TAKE d \in Conn
    <2>1. HandlerInv(d)
      BY Zenon DEF IInv
    <2>2. \A k \in Loop :
            /\ In(queue'[k], H("established", d)) <=> In(queue[k], H("established", d))
            /\ In(queue'[k], H("readError", d)) <=> In(queue[k], H("readError", d))
            /\ In(queue'[k], H("close", d)) => In(queue[k], H("close", d)) \/ (d = c /\ k = home[c])
            /\ Once(queue[k], H("established", d)) => Once(queue'[k], H("established", d))
      BY ZenonT(30), <1>3, <1>4 DEF PushFacts
    <2> QED
      BY ZenonT(30), <2>1, <2>2, <1>1, <1>5 DEF HandlerInv
  <1>8. closing[home[c]] # c
    BY SMTT(30), <1>1, ConstAssumption DEF IInv, ClosingInv, Conn
  <1>9. \A d \in Conn : (Live(d)' <=> Live(d)) /\ (Gone(d)' <=> Gone(d))
    BY SMTT(30), <1>5, <1>8 DEF Live, Gone
  <1>10. \A d \in Conn : ConnInv(d)'
    <2> TAKE d \in Conn
    <2>1. /\ In(queue'[0], H("remove", d)) <=> In(queue[0], H("remove", d))
          /\ Once(queue[0], H("remove", d)) => Once(queue'[0], H("remove", d))
      BY ZenonT(30), <1>1, <1>3, <1>4 DEF PushFacts
    <2>2. ConnInv(d)
      BY Zenon DEF IInv
    <2> QED
      BY ZenonT(30), <2>1, <2>2, <1>5, <1>9 DEF ConnInv, server
  <1>11. ClosingInv'
    <2>1. \A l \in Loop : closing[l] # 0 => closing[l] \in Conn /\ closing[l] # c
      BY SMTT(30), <1>1 DEF IInv, ClosingInv, TypeOK, Conn
    <2> QED
      BY <2>1, <1>1, <1>5 DEF IInv, ClosingInv
  <1>12. Quiet(queue[0], queue'[0])
    <2>1. h.op \notin Server \ {"stop"}
      BY Zenon, <1>2 DEF Server
    <2> QED
      BY ZenonT(30), <1>1, <1>3, <2>1, PushQuiet
  <1>13. pool
    BY Zenon DEF IInv, EndInv
  <1>14. AcceptInv' /\ (fault = "none" => PhaseInv)' /\ EndInv'
    BY ZenonT(30), <1>1, <1>12, <1>13, ServerFrame DEF server, PhaseInv
  <1> QED
    BY Zenon, <1>6, <1>7, <1>10, <1>11, <1>14 DEF IInv

(* close() by a user. *)
LEMMA UserClosesIInv ==
  ASSUME IInv, NEW c \in Conn, UserCloses(c)
  PROVE  IInv'
  <1>1. todo' \subseteq todo /\ missed' \subseteq Conn
    BY Zenon DEF UserCloses, base, IInv, TypeOK
  <1> QED
    BY ZenonT(30), <1>1, ClosesIInv DEF UserCloses, base

(* stopInLoop() closes one of the connections. *)
LEMMA CloseConnectionIInv ==
  ASSUME IInv, CloseConnection
  PROVE  IInv'
  <1>1. PICK c \in todo :
          /\ todo' = todo \ {c}
          /\ IF st[c] = "kConnected"
             THEN /\ st' = [st EXCEPT ![c] = "kDisconnecting"]
                  /\ queue' = Push(queue, home[c], H("close", c))
             ELSE UNCHANGED <<st, queue>>
          /\ missed' = IF st[c] = "new" THEN missed \cup {c} ELSE missed
    BY ZenonT(30) DEF CloseConnection
  <1>2. /\ c \in Conn /\ todo' \subseteq todo /\ missed' \subseteq Conn /\ fault = "none"
        /\ UNCHANGED <<server, closing, pc, stopped, accepting, home, reading, upc, done, fault>>
    BY Zenon, <1>1 DEF CloseConnection, IInv, TypeOK
  <1>3. CASE st[c] = "kConnected"
    BY Zenon, <1>1, <1>2, <1>3, ClosesIInv
  <1>4. CASE st[c] # "kConnected"
    <2>1. Loop' = Loop /\ Handler' = Handler /\ UNCHANGED <<st, queue>>
      BY Zenon, <1>1, <1>2, <1>4, Same DEF IInv, server
    <2>2. TypeOK'
      BY <1>2, <2>1 DEF IInv, TypeOK, server
    <2>3. (\A d \in Conn : HandlerInv(d) /\ ConnInv(d))' /\ ClosingInv'
      BY <1>2, <2>1 DEF IInv, HandlerInv, ConnInv, ClosingInv, Live, Gone, server
    <2>4. AcceptInv' /\ EndInv'
      BY Zenon, <1>2, <2>1 DEF IInv, AcceptInv, EndInv, server
    <2>5. (fault = "none" => PhaseInv)'
      BY <1>2, <2>1 DEF IInv, PhaseInv, Before, Running, Stopping, Emptied, server
    <2> QED
      BY Zenon, <2>2, <2>3, <2>4, <2>5 DEF IInv
  <1> QED
    BY Zenon, <1>3, <1>4

(* The end of a read with an error. *)
LEMMA PeerClosesIInv ==
  ASSUME IInv, NEW c \in Conn, PeerCloses(c)
  PROVE  IInv'
  <1> DEFINE h == H("readError", c)
  <1>1. /\ Loop' = Loop /\ Handler' = Handler /\ 0 \in Loop /\ queue \in [Loop -> Seq(Handler)]
        /\ TypeOK /\ PhaseInv /\ home[c] \in Loop /\ fault = "none"
    BY Same DEF PeerCloses, server, IInv, TypeOK
  <1>2. h \in Handler /\ h.op = "readError"
    BY DEF Handler, H
  <1>3. queue' \in [Loop -> Seq(Handler)] /\ PushFacts(Loop, queue, queue', home[c], h)
    BY Zenon, <1>1, <1>2, Pushes DEF PeerCloses
  <1>4. /\ \A d \in Conn : \A op \in {"remove", "established", "close"} : H(op, d) # h
        /\ \A d \in Conn : H("readError", d) = h <=> d = c
    BY ONLY SMTT(30), HOp DEF h
  <1>5. st[c] \in {"kConnected", "kDisconnecting"}
    BY DEF PeerCloses, IInv, ConnInv, Live
  <1>6. TypeOK'
    BY SMTT(30), <1>1, <1>3 DEF PeerCloses, TypeOK, server, base
  <1> HIDE DEF h
  <1>7. \A d \in Conn : HandlerInv(d)'
    <2> TAKE d \in Conn
    <2>1. HandlerInv(d)
      BY Zenon DEF IInv
    <2>2. \A k \in Loop :
            /\ In(queue'[k], H("established", d)) <=> In(queue[k], H("established", d))
            /\ In(queue'[k], H("close", d)) <=> In(queue[k], H("close", d))
            /\ In(queue'[k], H("readError", d)) =>
                 In(queue[k], H("readError", d)) \/ (d = c /\ k = home[c])
            /\ Once(queue[k], H("established", d)) => Once(queue'[k], H("established", d))
      BY ZenonT(30), <1>3, <1>4 DEF PushFacts
    <2> QED
      BY ZenonT(30), <2>1, <2>2, <1>1, <1>5 DEF HandlerInv, PeerCloses
  <1>8. \A d \in Conn : (Live(d)' <=> Live(d)) /\ (Gone(d)' <=> Gone(d))
    BY ZenonT(30) DEF PeerCloses, Live, Gone
  <1>9. \A d \in Conn : ConnInv(d)'
    <2> TAKE d \in Conn
    <2>1. /\ In(queue'[0], H("remove", d)) <=> In(queue[0], H("remove", d))
          /\ Once(queue[0], H("remove", d)) => Once(queue'[0], H("remove", d))
      BY Zenon, <1>1, <1>3, <1>4 DEF PushFacts
    <2>2. ConnInv(d)
      BY Zenon DEF IInv
    <2> QED
      BY ZenonT(30), <2>1, <2>2, <1>8 DEF ConnInv, PeerCloses, server
  <1>10. ClosingInv'
    BY Zenon, <1>1 DEF PeerCloses, IInv, ClosingInv
  <1>11. Quiet(queue[0], queue'[0])
    <2>1. h.op \notin Server \ {"stop"}
      BY Zenon, <1>2 DEF Server
    <2> QED
      BY Zenon, <1>1, <1>3, <2>1, PushQuiet
  <1>12. pool
    BY Zenon, <1>5 DEF IInv, EndInv
  <1>13. AcceptInv' /\ (fault = "none" => PhaseInv)' /\ EndInv'
    BY ZenonT(30), <1>1, <1>11, <1>12, ServerFrame DEF PeerCloses, server, base, PhaseInv
  <1> QED
    BY Zenon, <1>6, <1>7, <1>9, <1>10, <1>13 DEF IInv

(* connectEstablished(), in the connection's loop. *)
LEMMA EstablishedIInv ==
  ASSUME IInv, NEW l \in Loop, Established(l)
  PROVE  IInv'
  <1>0. PICK c : c = Arg(l)
    BY Zenon
  <1>1. /\ Loop' = Loop /\ Handler' = Handler /\ 0 \in Loop /\ TypeOK
        /\ Ready(l, "established") /\ queue' = Popped(l)
    BY Zenon, Same DEF Established, server, IInv
  <1>2. /\ queue' \in [Loop -> Seq(Handler)] /\ PopFacts(Loop, queue, queue', l)
        /\ Head(queue[l]) = H("established", c) /\ c \in Conn /\ fault = "none" /\ PhaseInv
        /\ l = 0 => pc = "run"
    BY Zenon, <1>0, <1>1, Heads DEF IInv
  <1>3. In(queue[l], H("established", c)) /\ home[c] = l /\ st[c] = "new"
    <2>1. In(queue[l], H("established", c))
      BY ZenonT(30), <1>2 DEF PopFacts
    <2> QED
      BY <2>1, <1>2 DEF IInv, HandlerInv
  <1>4. st'[c] = "kConnected" /\ \A d \in Conn : d # c => st'[d] = st[d]
    BY Zenon, <1>0, <1>1, <1>2 DEF Established, TypeOK
  <1>5. TypeOK'
    BY SMTT(30), <1>0, <1>1, <1>2 DEF Established, TypeOK, server, base
  <1>6. \A k \in Loop : ~In(queue'[k], H("established", c))
    <2> TAKE k \in Loop
    <2>1. CASE k = l
      BY ZenonT(30), <2>1, <1>2 DEF PopFacts, IInv, HandlerInv
    <2>2. CASE k # l
      <3>1. In(queue'[k], H("established", c)) => In(queue[k], H("established", c))
        BY ZenonT(30), <1>2 DEF PopFacts
      <3>2. In(queue[k], H("established", c)) => home[c] = k
        BY ZenonT(30), <1>2 DEF IInv, HandlerInv
      <3> QED
        BY ZenonT(30), <2>2, <1>3, <3>1, <3>2
    <2> QED
      BY Zenon, <2>1, <2>2
  <1>7. \A d \in Conn : HandlerInv(d)'
    <2> TAKE d \in Conn
    <2>1. HandlerInv(d)
      BY Zenon DEF IInv
    <2>2. \A k \in Loop :
            /\ \A op \in {"established", "close", "readError"} :
                 In(queue'[k], H(op, d)) => In(queue[k], H(op, d))
            /\ Once(queue[k], H("established", d)) => Once(queue'[k], H("established", d))
      BY ZenonT(30), <1>2 DEF PopFacts
    <2> QED
      BY ZenonT(30), <2>1, <2>2, <1>1, <1>4, <1>6 DEF HandlerInv, Established
  <1>8. \A d \in Conn : (Live(d)' <=> Live(d)) /\ (Gone(d)' <=> Gone(d))
    BY ZenonT(30), <1>3, <1>4 DEF Live, Gone, Established
  <1>9. \A d \in Conn : ConnInv(d)'
    <2> TAKE d \in Conn
    <2>1. /\ In(queue'[0], H("remove", d)) <=> In(queue[0], H("remove", d))
          /\ Once(queue[0], H("remove", d)) => Once(queue'[0], H("remove", d))
      <3>1. H("remove", d) # Head(queue[l])
        BY <1>2 DEF H
      <3> QED
        BY ZenonT(30), <3>1, <1>1, <1>2 DEF PopFacts
    <2>2. ConnInv(d)
      BY Zenon DEF IInv
    <2>3. reading' = reading \cup {c} /\ UNCHANGED <<next_conn_id, connections>> /\ Live(c)
      BY <1>0, <1>3 DEF Established, server, Live
    <2> QED
      BY ZenonT(30), <2>1, <2>2, <2>3, <1>3, <1>4, <1>8 DEF ConnInv
  <1>10. ClosingInv'
    <2>1. \A k \in Loop : closing[k] # 0 => closing[k] \in Conn /\ closing[k] # c
      BY <1>1, <1>3 DEF IInv, ClosingInv, TypeOK, Conn
    <2> QED
      BY ZenonT(60), <2>1, <1>1, <1>4 DEF IInv, ClosingInv, Established
  <1>11. Quiet(queue[0], queue'[0])
    BY Zenon, <1>1, <1>2, PopQuiet
  <1>12. pool
    BY ZenonT(30), <1>2, <1>3 DEF IInv, EndInv
  <1>13. AcceptInv' /\ (fault = "none" => PhaseInv)' /\ EndInv'
    BY Zenon, <1>2, <1>11, <1>12, ServerFrame DEF Established, server, base, PhaseInv
  <1> QED
    BY Zenon, <1>5, <1>7, <1>9, <1>10, <1>13 DEF IInv

(* handleClose() of a connection that was closed in the meantime. *)
LEMMA AlreadyClosedIInv ==
  ASSUME IInv, NEW l \in Loop, AlreadyClosed(l)
  PROVE  IInv'
  <1>1. /\ Loop' = Loop /\ Handler' = Handler /\ 0 \in Loop /\ TypeOK /\ queue' = Popped(l)
        /\ UNCHANGED <<status, substatus, acceptor, connections, next_conn_id, pool, pc,
                       done, accepting, fault, st, closing>>
    BY Zenon, Same DEF AlreadyClosed, server, base, conns, IInv
  <1>2. PICK op \in {"close", "readError"} : Ready(l, op)
    BY Zenon DEF AlreadyClosed
  <1>3. /\ queue' \in [Loop -> Seq(Handler)] /\ PopFacts(Loop, queue, queue', l)
        /\ Head(queue[l]).op = op /\ fault = "none" /\ PhaseInv
    BY Zenon, <1>1, <1>2, Heads DEF IInv
  <1>4. TypeOK'
    BY SMTT(30), <1>1, <1>3 DEF AlreadyClosed, TypeOK, server, base, conns
  <1>5. (\A c \in Conn : HandlerInv(c) /\ ConnInv(c))' /\ ClosingInv'
    BY Zenon, <1>1, <1>3, PopConn DEF AlreadyClosed, server, conns
  <1>6. Quiet(queue[0], queue'[0])
    BY Zenon, <1>1, <1>3, PopQuiet
  <1>7. AcceptInv' /\ (fault = "none" => PhaseInv)' /\ EndInv'
    <2>1. pc # "run" => closing'[0] = 0
      BY Zenon, <1>1, <1>3 DEF PhaseInv
    <2>2. ~pool => \A c \in Conn : st'[c] \in {"none", "kDisconnected"}
      BY Zenon, <1>1 DEF IInv, EndInv
    <2> QED
      BY Zenon, <2>1, <2>2, <1>1, <1>6, ServerFrame
  <1> QED
    BY Zenon, <1>4, <1>5, <1>7 DEF IInv

(* The store of kDisconnected. *)
LEMMA FinishCloseIInv ==
  ASSUME IInv, NEW l \in Loop, FinishClose(l)
  PROVE  IInv'
  <1>0. PICK c : c = closing[l]
    BY Zenon
  <1>1. /\ Loop' = Loop /\ Handler' = Handler /\ 0 \in Loop /\ TypeOK /\ PhaseInv
        /\ fault = "none"
        /\ UNCHANGED <<status, substatus, acceptor, connections, next_conn_id, pool, pc,
                       done, accepting, fault, queue, home, reading>>
    BY Zenon, Same DEF FinishClose, server, base, IInv
  <1>2. c \in Conn /\ st[c] = "kDisconnecting" /\ home[c] = l /\ Gone(c)
    BY SMTT(30), <1>0, <1>1 DEF FinishClose, IInv, ClosingInv, TypeOK, Conn, Gone
  <1>3. /\ st'[c] = "kDisconnected" /\ \A d \in Conn : d # c => st'[d] = st[d]
        /\ closing'[l] = 0 /\ \A k \in Loop : k # l => closing'[k] = closing[k]
        /\ closing' \in [Loop -> 0..MaxConns]
    BY SMTT(30), <1>0, <1>1, <1>2, ConstAssumption DEF FinishClose, TypeOK
  <1>4. TypeOK'
    <2>1. st' \in [Conn -> {"none", "new", "kConnected", "kDisconnecting", "kDisconnected"}]
      BY ZenonT(30), <1>1 DEF FinishClose, TypeOK
    <2>2. UNCHANGED <<thread_num, next, todo, stopped, upc, missed>>
      BY Zenon DEF FinishClose, server, base
    <2> QED
      BY SMTT(30), <1>1, <1>3, <2>1, <2>2 DEF TypeOK
  <1>5. \A d \in Conn : HandlerInv(d)'
    BY ZenonT(30), <1>1, <1>2, <1>3 DEF IInv, HandlerInv
  <1>6. \A d \in Conn : (Live(d)' <=> Live(d)) /\ (Gone(d)' <=> Gone(d))
    <2> TAKE d \in Conn
    <2>1. CASE d = c
      BY ZenonT(30), <2>1, <1>0, <1>2, <1>3 DEF Live, Gone
    <2>2. CASE d # c
      <3>1. closing'[home[d]] = d <=> closing[home[d]] = d
        <4>1. home[d] \in Loop /\ d # 0
          <5>1. home[d] \in Loop
            BY Zenon, <1>1 DEF TypeOK
          <5> QED
            BY <5>1, ConstAssumption DEF Conn
        <4>2. CASE home[d] = l
          BY ZenonT(30), <4>1, <4>2, <2>2, <1>0, <1>3
        <4>3. CASE home[d] # l
          BY Zenon, <4>1, <4>3, <1>3
        <4> QED
          BY Zenon, <4>2, <4>3
      <3> QED
        BY Zenon, <2>2, <3>1, <1>1, <1>3 DEF Live, Gone
    <2> QED
      BY Zenon, <2>1, <2>2
  <1>7. \A d \in Conn : ConnInv(d)'
    <2> TAKE d \in Conn
    <2>1. ConnInv(d) /\ (st'[d] = "none" <=> st[d] = "none") /\ (st'[d] = "new" <=> st[d] = "new")
      BY Zenon, <1>2, <1>3 DEF IInv
    <2> QED
      BY Zenon, <2>1, <1>1, <1>6 DEF ConnInv
  <1>8. ClosingInv'
    <2>1. \A k \in Loop : k # l /\ closing[k] # 0 => closing[k] \in Conn /\ closing[k] # c
      BY SMTT(30), <1>1, <1>2 DEF IInv, ClosingInv, TypeOK, Conn
    <2> QED
      BY SMTT(30), <2>1, <1>1, <1>3 DEF IInv, ClosingInv
  <1>9. Quiet(queue[0], queue'[0])
    BY Zenon, <1>1 DEF Quiet
  <1>10. AcceptInv' /\ (fault = "none" => PhaseInv)' /\ EndInv'
    <2>1. pc # "run" => closing'[0] = 0
      BY ZenonT(30), <1>1, <1>3 DEF PhaseInv
    <2>2. ~pool => \A d \in Conn : st'[d] \in {"none", "kDisconnected"}
      BY ZenonT(30), <1>3 DEF IInv, EndInv
    <2> QED
      BY Zenon, <2>1, <2>2, <1>1, <1>9, ServerFrame
  <1> QED
    BY Zenon, <1>4, <1>5, <1>7, <1>8, <1>10 DEF IInv

(* The lambda of removeConnection(): when the last connection leaves while *)
(* the server stops, stopInloopSafe() is posted, and was not before.       *)
LEMMA ErasedServer ==
  ASSUME IInv, NEW p \in [Loop -> Seq(Handler)], NEW c \in connections, Erased(p, c),
         fault = "none", pc = "run", 0 \in Loop, Quiet(queue[0], p[0]),
         UNCHANGED <<status, substatus, acceptor, next_conn_id, pool, pc, done, accepting,
                     fault>>
  PROVE  /\ queue' \in [Loop -> Seq(Handler)] /\ connections' = connections \ {c}
         /\ \A k \in Loop : \A d \in Conn :
              \A op \in {"remove", "established", "close", "readError"} :
                /\ In(queue'[k], H(op, d)) <=> In(p[k], H(op, d))
                /\ Once(p[k], H(op, d)) => Once(queue'[k], H(op, d))
         /\ AcceptInv' /\ PhaseInv' /\ EndInv'
  <1> DEFINE h == H("safe", 0)
             last == status = "kStopping" /\ connections \ {c} = {}
  <1>1. /\ connections' = connections \ {c} /\ queue' = IF last THEN Push(p, 0, h) ELSE p
        /\ PhaseInv /\ connections # {} /\ TypeOK
    BY Zenon DEF Erased, IInv
  <1>2. /\ done = 0 /\ pool /\ status \in {"kRunning", "kStopping"}
        /\ status = "kRunning" => Running
        /\ status = "kStopping" => Stopping /\ ~Has(queue[0], {"safe"})
    BY SMTT(30), <1>1 DEF PhaseInv, Before, Running, Stopping, Emptied, TypeOK
  <1>3. /\ Accept \in SUBSET (Server \ {"stop"}) /\ {"acceptOk"} \in SUBSET (Server \ {"stop"})
        /\ {"safe"} \in SUBSET (Server \ {"stop"}) /\ {"listen"} \in SUBSET (Server \ {"stop"})
    BY Zenon DEF Accept, Server
  <1>4. /\ \A S \in {Accept, {"acceptOk"}, {"safe"}, {"listen"}} :
             (Has(p[0], S) => Has(queue[0], S)) /\ (Lone(queue[0], S) => Lone(p[0], S))
        /\ AcceptsFirst(queue[0]) => AcceptsFirst(p[0])
    BY <1>3 DEF Quiet
  <1>5. h \in Handler /\ h.op = "safe"
    BY DEF H, Handler
  <1>6. \A d \in Conn : \A op \in {"remove", "established", "close", "readError"} : H(op, d) # h
    BY ONLY HOp DEF h
  <1>7. CASE ~last
    <2>1. queue' = p
      BY Zenon, <1>1, <1>7
    <2>2. AcceptInv'
      BY Zenon, <2>1, <1>4 DEF IInv, AcceptInv
    <2>3. PhaseInv'
      <3>1. status = "kRunning" => Running'
        BY Zenon, <2>1, <1>2, <1>4 DEF Running
      <3>2. status = "kStopping" => Stopping'
        BY Zenon, <2>1, <1>2, <1>4 DEF Stopping
      <3> QED
        BY Zenon, <3>1, <3>2, <2>1, <1>1, <1>2, <1>4 DEF PhaseInv
    <2>4. EndInv'
      <3>1. done' = 0 /\ pool' /\ status' # "kNull"
        BY Zenon, <1>2
      <3> QED
        BY ONLY <3>1 DEF EndInv
    <2> QED
      BY Zenon, <2>1, <2>2, <2>3, <2>4, <1>1
  <1>8. CASE last
    <2> HIDE DEF h
    <2>1. queue' \in [Loop -> Seq(Handler)] /\ PushFacts(Loop, p, queue', 0, h)
      BY Zenon, <1>1, <1>5, <1>8, Pushes
    <2>2. \A k \in Loop : \A d \in Conn :
            \A op \in {"remove", "established", "close", "readError"} :
              /\ In(queue'[k], H(op, d)) <=> In(p[k], H(op, d))
              /\ Once(p[k], H(op, d)) => Once(queue'[k], H(op, d))
      BY Zenon, <2>1, <1>6 DEF PushFacts
    <2>3. /\ \A S \in {Accept, {"acceptOk"}, {"listen"}} :
               (Has(queue'[0], S) <=> Has(p[0], S)) /\ (Lone(p[0], S) => Lone(queue'[0], S))
          /\ Lone(p[0], {"safe"}) /\ ~Has(p[0], {"safe"}) => Lone(queue'[0], {"safe"})
          /\ AcceptsFirst(p[0]) => AcceptsFirst(queue'[0])
      <3>1. h.op \notin Accepts /\ \A S \in {Accept, {"acceptOk"}, {"listen"}} : h.op \notin S
        BY Zenon, <1>5 DEF Accept, Accepts
      <3> QED
        BY Zenon, <2>1, <3>1 DEF PushFacts
    <2>4. AcceptInv'
      BY ZenonT(30), <2>3, <1>4 DEF IInv, AcceptInv
    <2>5. status = "kStopping" /\ connections' = {} /\ Stopping /\ ~Has(p[0], {"safe"})
      BY Zenon, <1>1, <1>2, <1>4, <1>8
    <2>6. Stopping'
      BY ZenonT(30), <2>3, <2>5, <1>4 DEF Stopping
    <2>7. PhaseInv'
      BY Zenon, <2>3, <2>5, <2>6, <1>1, <1>4 DEF PhaseInv
    <2>8. EndInv'
      <3>1. done' = 0 /\ pool' /\ status' # "kNull"
        BY Zenon, <1>2
      <3> QED
        BY ONLY <3>1 DEF EndInv
    <2> QED
      BY Zenon, <2>1, <2>2, <2>4, <2>7, <2>8, <1>1
  <1> QED
    BY Zenon, <1>7, <1>8

(* removeConnection() through the queue of loop 0. *)
LEMMA RemoveConnectionIInv ==
  ASSUME IInv, RemoveConnection
  PROVE  IInv'
  <1>0. PICK c : c = Arg(0)
    BY Zenon
  <1> DEFINE p == Popped(0)
  <1>1. /\ Loop' = Loop /\ Handler' = Handler /\ 0 \in Loop /\ TypeOK
        /\ Ready(0, "remove") /\ Erased(p, c)
        /\ UNCHANGED <<thread_num, status, substatus, acceptor, next_conn_id, pool, next,
                       closing, pc, todo, stopped, accepting, st, home, reading, upc, done,
                       missed, fault>>
    BY Zenon, <1>0, Same DEF RemoveConnection, IInv, base, conns
  <1>2. /\ p \in [Loop -> Seq(Handler)] /\ PopFacts(Loop, queue, p, 0)
        /\ Head(queue[0]) = H("remove", c) /\ c \in Conn /\ fault = "none" /\ pc = "run"
    BY Zenon, <1>0, <1>1, Heads
  <1> HIDE DEF p
  <1>3. In(queue[0], H("remove", c)) /\ ~In(p[0], H("remove", c)) /\ Gone(c) /\ c \in connections
    <2>1. In(queue[0], H("remove", c))
      BY ZenonT(30), <1>1, <1>2 DEF PopFacts
    <2>2. ConnInv(c)
      BY Zenon, <1>2 DEF IInv
    <2> QED
      BY ZenonT(30), <2>1, <2>2, <1>1, <1>2 DEF PopFacts, ConnInv
  <1>4. Quiet(queue[0], p[0])
    BY Zenon, <1>1, <1>2, PopQuiet
  <1>5. /\ queue' \in [Loop -> Seq(Handler)] /\ connections' = connections \ {c}
        /\ \A k \in Loop : \A d \in Conn :
             \A op \in {"remove", "established", "close", "readError"} :
               /\ In(queue'[k], H(op, d)) <=> In(p[k], H(op, d))
               /\ Once(p[k], H(op, d)) => Once(queue'[k], H(op, d))
        /\ AcceptInv' /\ PhaseInv' /\ EndInv'
    BY Zenon, <1>1, <1>2, <1>3, <1>4, ErasedServer
  <1>6. TypeOK'
    <2>1. queue' \in [Loop' -> Seq(Handler')] /\ connections' \subseteq Conn
      BY ZenonT(30), <1>1, <1>5 DEF TypeOK
    <2> QED
      BY <1>1, <2>1 DEF TypeOK
  <1>7. /\ \A d \in Conn : H("remove", d) = Head(queue[0]) <=> d = c
        /\ \A d \in Conn : \A op \in {"established", "close", "readError"} : H(op, d) # Head(queue[0])
    BY <1>2 DEF H
  <1>8. \A d \in Conn : HandlerInv(d)'
    <2> TAKE d \in Conn
    <2>1. HandlerInv(d)
      BY Zenon DEF IInv
    <2>2. \A k \in Loop :
            /\ \A op \in {"established", "close", "readError"} :
                 In(p[k], H(op, d)) <=> In(queue[k], H(op, d))
            /\ Once(queue[k], H("established", d)) => Once(p[k], H("established", d))
      BY ZenonT(30), <1>2, <1>7 DEF PopFacts
    <2> QED
      BY ZenonT(30), <2>1, <2>2, <1>1, <1>5 DEF HandlerInv
  <1>9. \A d \in Conn : ConnInv(d)'
    <2> TAKE d \in Conn
    <2>1. /\ In(p[0], H("remove", d)) <=> In(queue[0], H("remove", d)) /\ d # c
          /\ Once(queue[0], H("remove", d)) => Once(p[0], H("remove", d))
      BY ZenonT(30), <1>1, <1>2, <1>3, <1>7 DEF PopFacts
    <2>2. ConnInv(d)
      BY Zenon DEF IInv
    <2>3. (Live(d)' <=> Live(d)) /\ (Gone(d)' <=> Gone(d)) /\ ~(Live(c) /\ Gone(c))
      BY <1>1 DEF Live, Gone
    <2> QED
      BY ZenonT(30), <2>1, <2>2, <2>3, <1>1, <1>3, <1>5 DEF ConnInv
  <1>10. ClosingInv'
    BY Zenon, <1>1 DEF IInv, ClosingInv
  <1> QED
    BY Zenon, <1>5, <1>6, <1>8, <1>9, <1>10 DEF IInv

(* removeConnection() from another loop: it posts its lambda to loop 0. *)
LEMMA RemovePosted ==
  ASSUME IInv, NEW p \in [Loop -> Seq(Handler)], NEW c \in connections, 0 \in Loop,
         queue' = Push(p, 0, H("remove", c)), fault = "none", Quiet(queue[0], p[0]),
         c \in Conn, pool, closing'[0] = closing[0],
         UNCHANGED <<status, substatus, acceptor, connections, next_conn_id, pool, pc, done,
                     accepting, fault>>
  PROVE  /\ queue' \in [Loop -> Seq(Handler)]
         /\ \A k \in Loop : \A d \in Conn :
              /\ \A op \in {"established", "close", "readError"} :
                   /\ In(queue'[k], H(op, d)) <=> In(p[k], H(op, d))
                   /\ Once(p[k], H(op, d)) => Once(queue'[k], H(op, d))
         /\ \A d \in Conn :
              /\ In(queue'[0], H("remove", d)) <=> In(p[0], H("remove", d)) \/ d = c
              /\ Once(p[0], H("remove", d)) /\ (d # c \/ ~In(p[0], H("remove", d))) =>
                   Once(queue'[0], H("remove", d))
         /\ AcceptInv' /\ PhaseInv' /\ EndInv'
  <1> DEFINE h == H("remove", c)
             Sets == {Accept, {"acceptOk"}, {"safe"}, {"listen"}}
  <1>1. PhaseInv /\ connections # {} /\ TypeOK /\ EndInv
    BY ZenonT(30) DEF IInv
  <1>2. h \in Handler /\ h.op = "remove" /\ \A S \in Sets : h.op \notin S
    BY Zenon DEF H, Handler, Accept
  <1>3. /\ \A d \in Conn : H("remove", d) = h <=> d = c
        /\ \A d \in Conn : \A op \in {"established", "close", "readError"} : H(op, d) # h
    BY ONLY HOp DEF h
  <1> HIDE DEF h
  <1>4. queue' \in [Loop -> Seq(Handler)] /\ PushFacts(Loop, p, queue', 0, h)
    BY <1>2, Pushes DEF h
  <1>5. /\ \A S \in Sets : Has(queue'[0], S) => Has(queue[0], S)
        /\ \A S \in Sets : Lone(queue[0], S) => Lone(queue'[0], S)
        /\ AcceptsFirst(queue[0]) => AcceptsFirst(queue'[0])
    <2>1. \A S \in Sets : S \in SUBSET (Server \ {"stop"})
      BY Zenon DEF Accept, Server
    <2>2. h.op \notin Accepts
      BY ZenonT(30), <1>2 DEF Accepts
    <2> HIDE DEF Sets
    <2>3. /\ \A S \in Sets : Has(p[0], S) => Has(queue[0], S)
          /\ \A S \in Sets : Lone(queue[0], S) => Lone(p[0], S)
          /\ AcceptsFirst(queue[0]) => AcceptsFirst(p[0])
      BY ZenonT(30), <2>1 DEF Quiet
    <2> QED
      BY ZenonT(30), <2>2, <2>3, <1>2, <1>4 DEF PushFacts
  <1>6. /\ done = 0 /\ status \in {"kRunning", "kStopping"}
        /\ status = "kRunning" => Running
        /\ status = "kStopping" => pc \in {"run", "closeAll"} /\ Stopping
    BY <1>1 DEF PhaseInv, Before, Running, Stopping, Emptied, TypeOK
  <1>7. AcceptInv'
    BY ZenonT(30), <1>5 DEF IInv, AcceptInv
  <1>8. PhaseInv'
    <2>1. status = "kRunning" => Running'
      BY ZenonT(30), <1>5, <1>6 DEF Running
    <2>2. status = "kStopping" => Stopping'
      BY ZenonT(30), <1>5, <1>6 DEF Stopping
    <2> QED
      BY ZenonT(30), <2>1, <2>2, <1>1, <1>5, <1>6 DEF PhaseInv
  <1>9. EndInv'
    <2>1. done' = 0 /\ pool' /\ status' # "kNull"
      BY ZenonT(30), <1>6
    <2> QED
      BY ONLY <2>1 DEF EndInv
  <1>10. \A k \in Loop : \A d \in Conn :
           \A op \in {"established", "close", "readError"} :
             /\ In(queue'[k], H(op, d)) <=> In(p[k], H(op, d))
             /\ Once(p[k], H(op, d)) => Once(queue'[k], H(op, d))
    BY ZenonT(30), <1>3, <1>4 DEF PushFacts
  <1>11. \A d \in Conn :
           /\ In(queue'[0], H("remove", d)) <=> In(p[0], H("remove", d)) \/ d = c
           /\ Once(p[0], H("remove", d)) /\ (d # c \/ ~In(p[0], H("remove", d))) =>
                Once(queue'[0], H("remove", d))
    BY ZenonT(30), <1>3, <1>4 DEF PushFacts
  <1> QED
    BY ZenonT(30), <1>4, <1>7, <1>8, <1>9, <1>10, <1>11

(* handleClose() up to the store of kDisconnected. *)
LEMMA HandleCloseIInv ==
  ASSUME IInv, NEW l \in Loop, HandleClose(l)
  PROVE  IInv'
  <1>0. PICK c : c = Arg(l)
    BY Zenon
  <1>a. PICK op \in {"close", "readError"} : Ready(l, op)
    BY Zenon DEF HandleClose
  <1> DEFINE p == Popped(l)
  <1>1. /\ Loop' = Loop /\ Handler' = Handler /\ 0 \in Loop /\ TypeOK
        /\ st[c] # "kDisconnected" /\ st' = [st EXCEPT ![c] = "kDisconnecting"]
        /\ closing' = [closing EXCEPT ![l] = c] /\ reading' = reading \ {c}
        /\ l = 0 => Erased(p, c)
        /\ l # 0 => queue' = Push(p, 0, H("remove", c)) /\ connections' = connections
        /\ UNCHANGED <<thread_num, status, substatus, acceptor, next_conn_id, pool, next,
                       pc, todo, stopped, accepting, home, upc, done, missed, fault>>
    BY Zenon, <1>0, Same DEF HandleClose, IInv, base
  <1>2. /\ p \in [Loop -> Seq(Handler)] /\ PopFacts(Loop, queue, p, l)
        /\ Head(queue[l]) = H(op, c) /\ c \in Conn /\ fault = "none" /\ (l = 0 => pc = "run")
        /\ closing[l] = 0
    BY Zenon, <1>0, <1>a, <1>1, Heads
  <1> HIDE DEF p
  <1>3. home[c] = l /\ st[c] \in {"kConnected", "kDisconnecting"}
    <2>1. In(queue[l], H(op, c))
      BY ZenonT(30), <1>2 DEF PopFacts
    <2> QED
      BY Zenon, <2>1, <1>1, <1>2 DEF IInv, HandlerInv
  <1>4. Live(c) /\ ~Gone(c)
    <2>1. c # 0
      BY <1>2, ConstAssumption DEF Conn
    <2> QED
      BY Zenon, <2>1, <1>2, <1>3 DEF Live, Gone
  <1>5. c \in connections /\ ~In(queue[0], H("remove", c)) /\ pool
    BY Zenon, <1>2, <1>3, <1>4 DEF IInv, ConnInv, EndInv
  <1>6. Quiet(queue[0], p[0])
    BY Zenon, <1>1, <1>2, PopQuiet
  <1>7. /\ st'[c] = "kDisconnecting" /\ \A d \in Conn : d # c => st'[d] = st[d]
        /\ closing'[l] = c /\ \A k \in Loop : k # l => closing'[k] = closing[k]
    BY Zenon, <1>1, <1>2 DEF TypeOK
  <1>8. \A k \in Loop : \A d \in Conn :
          /\ \A o \in {"established", "close", "readError"} :
               In(p[k], H(o, d)) => In(queue[k], H(o, d))
          /\ In(p[k], H("remove", d)) <=> In(queue[k], H("remove", d))
          /\ \A o \in {"established", "remove"} :
               Once(queue[k], H(o, d)) => Once(p[k], H(o, d))
    <2>1. \A d \in Conn : H("remove", d) # Head(queue[l])
      BY <1>2 DEF H
    <2> QED
      BY ZenonT(30), <2>1, <1>2 DEF PopFacts
  <1>9. /\ queue' \in [Loop -> Seq(Handler)]
        /\ connections' = IF l = 0 THEN connections \ {c} ELSE connections
        /\ \A k \in Loop : \A d \in Conn :
             /\ \A o \in {"established", "close", "readError"} :
                  In(queue'[k], H(o, d)) => In(queue[k], H(o, d))
             /\ Once(queue[k], H("established", d)) => Once(queue'[k], H("established", d))
        /\ \A d \in Conn :
             /\ In(queue'[0], H("remove", d)) <=>
                  In(queue[0], H("remove", d)) \/ (d = c /\ l # 0)
             /\ Once(queue[0], H("remove", d)) => Once(queue'[0], H("remove", d))
        /\ AcceptInv' /\ PhaseInv' /\ EndInv'
    <2>1. CASE l = 0
      <3>1. /\ queue' \in [Loop -> Seq(Handler)] /\ connections' = connections \ {c}
            /\ \A k \in Loop : \A d \in Conn :
                 \A o \in {"remove", "established", "close", "readError"} :
                   /\ In(queue'[k], H(o, d)) <=> In(p[k], H(o, d))
                   /\ Once(p[k], H(o, d)) => Once(queue'[k], H(o, d))
            /\ AcceptInv' /\ PhaseInv' /\ EndInv'
        BY Zenon, <2>1, <1>1, <1>2, <1>5, <1>6, ErasedServer
      <3> QED
        BY ZenonT(30), <2>1, <3>1, <1>1, <1>8
    <2>2. CASE l # 0
      <3>1. closing'[0] = closing[0]
        BY Zenon, <2>2, <1>1, <1>7
      <3>2. /\ queue' \in [Loop -> Seq(Handler)]
            /\ \A k \in Loop : \A d \in Conn :
                 /\ \A o \in {"established", "close", "readError"} :
                      /\ In(queue'[k], H(o, d)) <=> In(p[k], H(o, d))
                      /\ Once(p[k], H(o, d)) => Once(queue'[k], H(o, d))
            /\ \A d \in Conn :
                 /\ In(queue'[0], H("remove", d)) <=> In(p[0], H("remove", d)) \/ d = c
                 /\ Once(p[0], H("remove", d)) /\ (d # c \/ ~In(p[0], H("remove", d))) =>
                      Once(queue'[0], H("remove", d))
            /\ AcceptInv' /\ PhaseInv' /\ EndInv'
        BY ZenonT(30), <2>2, <3>1, <1>1, <1>2, <1>5, <1>6, RemovePosted
      <3> QED
        BY ZenonT(30), <2>2, <3>2, <1>1, <1>5, <1>8
    <2> QED
      BY Zenon, <2>1, <2>2
  <1>10. TypeOK'
    <2>1. st' \in [Conn -> {"none", "new", "kConnected", "kDisconnecting", "kDisconnected"}]
      BY ZenonT(30), <1>1 DEF TypeOK
    <2>2. closing' \in [Loop -> 0..MaxConns]
      BY SMTT(30), <1>1, <1>2, ConstAssumption DEF TypeOK, Conn
    <2>3. connections' \subseteq Conn /\ reading' \subseteq Conn
      BY ZenonT(30), <1>1, <1>9 DEF TypeOK
    <2>4. queue' \in [Loop -> Seq(Handler)] /\ Loop' = Loop /\ Handler' = Handler
      BY ZenonT(30), <1>1, <1>9
    <2>5. UNCHANGED <<thread_num, status, substatus, acceptor, next_conn_id, pool, next,
                      pc, todo, stopped, accepting, home, upc, done, missed, fault>>
      BY Zenon, <1>1
    <2>6. TypeOK
      BY Zenon, <1>1
    <2> QED
      BY ONLY SMTT(30), <2>1, <2>2, <2>3, <2>4, <2>5, <2>6 DEF TypeOK
  <1>11. \A d \in Conn : HandlerInv(d)'
    <2> TAKE d \in Conn
    <2>1. HandlerInv(d)
      BY Zenon DEF IInv
    <2> QED
      BY ZenonT(30), <2>1, <1>1, <1>3, <1>7, <1>9 DEF HandlerInv
  <1>12. \A d \in Conn : ConnInv(d)'
    <2> TAKE d \in Conn
    <2>1. ConnInv(d)
      BY Zenon DEF IInv
    <2>2. CASE d = c
      <3>1. Gone(c)' /\ ~Live(c)' /\ st[c] # "none" /\ st'[c] # "none"
        BY ZenonT(30), <1>1, <1>3, <1>7 DEF Live, Gone
      <3> QED
        BY Zenon, <2>1, <2>2, <3>1, <1>1, <1>5, <1>9 DEF ConnInv
    <2>3. CASE d # c
      <3>1. home[d] \in Loop
        BY ZenonT(30), <1>1 DEF TypeOK
      <3>2. closing'[home[d]] = d <=> closing[home[d]] = d
        <4>1. d # 0
          BY ConstAssumption DEF Conn
        <4>2. CASE home[d] = l
          BY Zenon, <4>1, <4>2, <2>3, <1>2, <1>7
        <4>3. CASE home[d] # l
          BY Zenon, <4>3, <3>1, <1>7
        <4> QED
          BY Zenon, <4>2, <4>3
      <3>3. (Live(d)' <=> Live(d)) /\ (Gone(d)' <=> Gone(d))
        BY ZenonT(30), <2>3, <3>2, <1>1, <1>7 DEF Live, Gone
      <3> QED
        BY ZenonT(30), <2>1, <2>3, <3>3, <1>1, <1>7, <1>9 DEF ConnInv
    <2> QED
      BY Zenon, <2>2, <2>3
  <1>13. ClosingInv'
    <2>1. \A k \in Loop : k # l /\ closing[k] # 0 => closing[k] \in Conn /\ closing[k] # c
      <3> SUFFICES ASSUME NEW k \in Loop, k # l, closing[k] # 0
                   PROVE  closing[k] \in Conn /\ closing[k] # c
        BY Zenon
      <3>1. closing[k] \in 0..MaxConns
        BY ZenonT(30), <1>1 DEF TypeOK
      <3>2. closing[k] \in Conn
        BY <3>1, ConstAssumption DEF Conn
      <3>3. home[closing[k]] = k
        BY ZenonT(30) DEF IInv, ClosingInv
      <3> QED
        BY ZenonT(30), <1>3, <3>2, <3>3
    <2> QED
      BY SMTT(30), <2>1, <1>1, <1>3, <1>7 DEF IInv, ClosingInv
  <1> QED
    BY Zenon, <1>9, <1>10, <1>11, <1>12, <1>13 DEF IInv

-----------------------------------------------------------------------------
(* The initial states and the steps. *)

(* The invariant holds of a new server, ... *)
LEMMA InitIInv == Init => IInv
  <1> SUFFICES ASSUME Init PROVE IInv
    BY Zenon
  <1>1. 0 \in Loop /\ thread_num \in Nat
    BY ConstAssumption DEF Init, Loop
  <1>2. \A l \in Loop : queue[l] = << >> /\ Len(queue[l]) = 0
    BY Zenon DEF Init
  <1>3. /\ \A l \in Loop : \A h : ~In(queue[l], h) /\ Once(queue[l], h)
        /\ \A l \in Loop : \A S : ~Has(queue[l], S) /\ Lone(queue[l], S)
    BY <1>2 DEF In, Once, Has, Lone
  <1>4. TypeOK
    BY <1>1, ConstAssumption DEF Init, TypeOK
  <1>5. \A c \in Conn : HandlerInv(c) /\ ConnInv(c)
    BY SMTT(30), <1>1, <1>3, ConstAssumption DEF Init, HandlerInv, ConnInv, Live, Gone, Conn
  <1>6. ClosingInv /\ AcceptInv
    BY Zenon, <1>1, <1>3 DEF Init, ClosingInv, AcceptInv, NoLoop
  <1>7. PhaseInv /\ EndInv
    BY SMTT(30), <1>1, <1>3 DEF Init, PhaseInv, Before, EndInv, NoLoop
  <1> QED
    BY Zenon, <1>4, <1>5, <1>6, <1>7 DEF IInv

(* ... through a stuttering step ... *)
LEMMA StutterIInv ==
  ASSUME IInv, UNCHANGED vars
  PROVE  IInv'
  <1>1. /\ UNCHANGED <<thread_num, status, substatus, acceptor, connections, next_conn_id>>
        /\ UNCHANGED <<pool, next, queue, closing, pc, todo, stopped, accepting>>
        /\ UNCHANGED <<st, home, reading, upc, done, missed, fault>>
    BY Zenon DEF vars, server, base, conns
  <1>2. Loop' = Loop /\ Handler' = Handler
    BY Zenon, <1>1 DEF Loop, Handler
  <1>3. TypeOK'
    BY SMTT(30), <1>1, <1>2 DEF IInv, TypeOK
  <1>4. (\A c \in Conn : HandlerInv(c) /\ ConnInv(c))' /\ ClosingInv'
    BY ZenonT(30), <1>1, <1>2 DEF IInv, HandlerInv, ConnInv, ClosingInv, Live, Gone
  <1>5. AcceptInv' /\ EndInv'
    BY Zenon, <1>1 DEF IInv, AcceptInv, EndInv
  <1>6. (fault = "none" => PhaseInv)'
    BY ZenonT(30), <1>1 DEF IInv, PhaseInv, Before, Running, Stopping, Emptied
  <1> QED
    BY Zenon, <1>3, <1>4, <1>5, <1>6 DEF IInv

(* ... and through every step of the server and its connections. *)
LEMMA NextIInv == IInv /\ [Next]_vars => IInv'
  <1> SUFFICES ASSUME IInv, [Next]_vars PROVE IInv'
    BY Zenon
  <1>1. CASE BaseStep
    BY Zenon, <1>1, ListenIInv, NewConnectionIInv, RefusedIInv, AbortedIInv, StopInLoopIInv,
       StopInLoopNullIInv, CloseConnectionIInv, CloseAllDoneIInv, StopInloopSafeIInv,
       StopThreadPoolIInv, OnStoppedIInv, StoppedStoreIInv, RemoveConnectionIInv
       DEF BaseStep
  <1>2. CASE \E l \in Loop : LoopStep(l)
    BY Zenon, <1>2, EstablishedIInv, HandleCloseIInv, AlreadyClosedIInv, FinishCloseIInv
       DEF LoopStep
  <1>3. CASE Start \/ \E u \in User : Stop(u) \/ StopPosts(u)
    BY Zenon, <1>3, StartIInv, StopIInv, StopPostsIInv
  <1>4. CASE AcceptCompletes \/ \E c \in Conn : PeerCloses(c) \/ UserCloses(c)
    BY Zenon, <1>4, AcceptCompletesIInv, PeerClosesIInv, UserClosesIInv
  <1>5. CASE UNCHANGED vars
    BY Zenon, <1>5, StutterIInv
  <1> QED
    BY Zenon, <1>1, <1>2, <1>3, <1>4, <1>5 DEF Next

(* Every reachable state satisfies the invariant. *)
LEMMA SpecIInv == Spec => []IInv
  BY InitIInv, NextIInv, PTL DEF Spec

-----------------------------------------------------------------------------
(* The members of the server keep their types; every queue holds handlers  *)
(* of existing loops and connections, and next_ of the pool stays within   *)
(* its loops.                                                              *)
THEOREM TypeCorrect == Spec => []TypeOK
  <1>1. IInv => TypeOK
    BY Zenon DEF IInv
  <1> QED  BY <1>1, SpecIInv, PTL

(* connections_ is exact for any number of loops and connections: one that *)
(* is alive is in it, and one that has ended is in it exactly as long as   *)
(* its removeConnection() is queued.                                       *)
THEOREM MapAlwaysExact == Spec => []MapExact
  <1>1. IInv => MapExact
    <2> SUFFICES ASSUME IInv, NEW c \in Conn
                 PROVE  /\ st[c] \in {"new", "kConnected"} => c \in connections
                        /\ st[c] = "kDisconnected" =>
                             (c \in connections <=>
                                \E i \in Queued(0, "remove") : queue[0][i].arg = c)
      BY Zenon DEF MapExact
    <2>1. ConnInv(c) /\ TypeOK
      BY Zenon DEF IInv
    <2>2. 0 \in Loop /\ queue[0] \in Seq(Handler)
      BY <2>1, ConstAssumption DEF TypeOK, Loop
    <2>3. \A h \in Handler : h.op = "remove" /\ h.arg = c <=> h = H("remove", c)
      BY DEF Handler, H
    <2>4. \A i \in 1..Len(queue[0]) : queue[0][i] \in Handler
      BY <2>2
    <2>5. In(queue[0], H("remove", c)) <=>
            \E i \in Queued(0, "remove") : queue[0][i].arg = c
      BY Zenon, <2>3, <2>4 DEF In, Queued
    <2> QED
      BY ZenonT(30), <2>1, <2>5 DEF ConnInv, Live, Gone
  <1> QED  BY <1>1, SpecIInv, PTL

(* stopInloopSafe() is posted once, after the last connection has left and *)
(* while the pool is there, whichever thread closes which connection.      *)
THEOREM StopContinuesOnce == Spec => []SafeOnce
  <1>1. IInv => SafeOnce
    <2> SUFFICES ASSUME IInv, fault = "none", Queued(0, "safe") # {}
                 PROVE  /\ (\A i, j \in Queued(0, "safe") : i = j) /\ pool
                        /\ status = "kStopping" /\ substatus = "kStoppingListener"
      BY Zenon DEF SafeOnce
    <2>1. Has(queue[0], {"safe"}) /\ Has(queue[0], Server \ {"stop"})
      BY Zenon DEF Has, Queued, Server
    <2>2. status = "kStopping" /\ Stopping
      BY Zenon, <2>1 DEF IInv, PhaseInv, Before, Running, Emptied, TypeOK
    <2>3. \A i, j \in Queued(0, "safe") : i = j
      BY ZenonT(30), <2>2 DEF Queued, Stopping, Lone
    <2> QED
      BY ZenonT(30), <2>2, <2>3 DEF Stopping
  <1> QED  BY <1>1, SpecIInv, PTL

(* When on_stopped_cb has been called, once, ~TCPServer()'s asserts hold   *)
(* and no handler that binds the server is left but a second stop().       *)
THEOREM StopsClean == Spec => []StoppedClean
  <1>1. IInv => StoppedClean
    BY ZenonT(30) DEF IInv, EndInv, StoppedClean, Has, Queued
  <1> QED  BY <1>1, SpecIInv, PTL

(* The pool's threads end only when no connection is in use, as ~TCPConn() *)
(* asserts.                                                                *)
THEOREM PoolGoesLast == Spec => []PoolOutlivesConnections
  <1>1. IInv => PoolOutlivesConnections
    BY Zenon DEF IInv, EndInv, PoolOutlivesConnections
  <1> QED  BY <1>1, SpecIInv, PTL
=============================================================================
