-------------------------- MODULE TcpClientProofs --------------------------
(* Proofs of the safety properties of TcpClient, for any number of         *)
(* connections and calls.                                                  *)
EXTENDS TcpClient, TLAPS

-----------------------------------------------------------------------------
(* Queues of handlers. *)

Res(h) == h.op \in {"connected", "failed"}
NoRes(q) == \A i \in 1..Len(q) : ~Res(q[i])
OneRes(q) == \A i, j \in 1..Len(q) : Res(q[i]) /\ Res(q[j]) => i = j
Has(q, op) == \E i \in 1..Len(q) : q[i].op = op

(* A handler that may be queued when n connections have been made. *)
Fits(h, n) ==
    /\ h.op \in {"close", "readError"} => h.arg \in 1..n
    /\ h.op = "connected" => n < MaxConns
AllFit(q, n) == \A i \in 1..Len(q) : Fits(q[i], n)

(* What posting a handler does to these. *)
LEMMA Push ==
  ASSUME NEW q \in Seq(Handler), NEW h \in Handler, NEW n \in Nat
  PROVE  /\ Append(q, h) \in Seq(Handler)
         /\ NoRes(Append(q, h)) <=> NoRes(q) /\ ~Res(h)
         /\ OneRes(q) /\ (~Res(h) \/ NoRes(q)) => OneRes(Append(q, h))
         /\ \A op : Has(Append(q, h), op) <=> Has(q, op) \/ h.op = op
         /\ AllFit(q, n) /\ Fits(h, n) => AllFit(Append(q, h), n)
  <1> DEFINE r == Append(q, h)
  <1>1. /\ r \in Seq(Handler) /\ Len(r) = Len(q) + 1 /\ r[Len(q) + 1] = h
        /\ \A i \in 1..Len(q) : r[i] = q[i]
    OBVIOUS
  <1>2. Len(q) \in Nat /\ \A i \in 1..Len(r) : i \in 1..Len(q) \/ i = Len(q) + 1
    BY <1>1
  <1>3. \A i \in 1..Len(q) : i \in 1..Len(r) /\ i # Len(q) + 1
    BY <1>1
  <1>4. Len(q) + 1 \in 1..Len(r)
    BY <1>1, <1>2
  <1> HIDE DEF r
  <1>5. NoRes(r) <=> NoRes(q) /\ ~Res(h)
    BY <1>1, <1>2, <1>3, <1>4 DEF NoRes
  <1>6. OneRes(q) /\ (~Res(h) \/ NoRes(q)) => OneRes(r)
    BY <1>1, <1>2, <1>3, <1>4 DEF NoRes, OneRes
  <1>7. \A op : Has(r, op) <=> Has(q, op) \/ h.op = op
    BY <1>1, <1>2, <1>3, <1>4 DEF Has
  <1>8. AllFit(q, n) /\ Fits(h, n) => AllFit(r, n)
    BY <1>1, <1>2, <1>3, <1>4 DEF AllFit
  <1> QED  BY <1>1, <1>5, <1>6, <1>7, <1>8 DEF r

(* What taking the handler at the head does to them. *)
LEMMA Pop ==
  ASSUME NEW q \in Seq(Handler), q # << >>, NEW n \in Nat
  PROVE  /\ Tail(q) \in Seq(Handler) /\ Head(q) \in Handler
         /\ OneRes(q) => OneRes(Tail(q))
         /\ ~Res(Head(q)) => (NoRes(q) <=> NoRes(Tail(q)))
         /\ Res(Head(q)) => ~NoRes(q) /\ (OneRes(q) => NoRes(Tail(q)))
         /\ \A op : Head(q).op # op => (Has(q, op) <=> Has(Tail(q), op))
         /\ AllFit(q, n) => AllFit(Tail(q), n) /\ Fits(Head(q), n)
  <1> DEFINE r == Tail(q)
             h == Head(q)
  <1>1. /\ r \in Seq(Handler) /\ Len(q) \in Nat /\ Len(q) > 0 /\ Len(r) = Len(q) - 1
        /\ h = q[1] /\ h \in Handler
        /\ \A i \in 1..Len(r) : r[i] = q[i + 1]
    OBVIOUS
  <1>2. \A i \in 1..Len(r) : i + 1 \in 1..Len(q) /\ i + 1 # 1
    BY <1>1
  <1>3. \A i \in 1..Len(q) : i = 1 \/ (i - 1 \in 1..Len(r) /\ r[i - 1] = q[i])
    BY <1>1
  <1>4. 1 \in 1..Len(q)
    BY <1>1
  <1> HIDE DEF r, h
  <1>5. OneRes(q) => OneRes(r)
    <2> SUFFICES ASSUME OneRes(q), NEW i \in 1..Len(r), NEW j \in 1..Len(r), Res(r[i]), Res(r[j])
                 PROVE  i = j
      BY DEF OneRes
    <2>1. i + 1 = j + 1
      BY <1>1, <1>2 DEF OneRes
    <2> QED  BY <2>1
  <1>6. ~Res(h) => (NoRes(q) <=> NoRes(r))
    BY <1>1, <1>2, <1>3 DEF NoRes
  <1>7. Res(h) => ~NoRes(q) /\ (OneRes(q) => NoRes(r))
    BY <1>1, <1>2, <1>4 DEF NoRes, OneRes
  <1>8. \A op : h.op # op => (Has(q, op) <=> Has(r, op))
    BY SMTT(60), <1>1, <1>2, <1>3 DEF Has
  <1>9. AllFit(q, n) => AllFit(r, n) /\ Fits(h, n)
    BY <1>1, <1>2, <1>4 DEF AllFit
  <1> QED  BY <1>1, <1>5, <1>6, <1>7, <1>8, <1>9 DEF r, h

(* Handlers still fit after one more connection, if no other is announced. *)
LEMMA Grow ==
  ASSUME NEW q \in Seq(Handler), NEW n \in Nat, AllFit(q, n), NoRes(q)
  PROVE  AllFit(q, n + 1)
  <1> SUFFICES ASSUME NEW i \in 1..Len(q) PROVE Fits(q[i], n + 1)
    BY DEF AllFit
  <1>1. Fits(q[i], n) /\ q[i].op # "connected"
    BY DEF AllFit, NoRes, Res
  <1> QED  BY <1>1 DEF Fits

-----------------------------------------------------------------------------
(* The inductive invariant. *)

Alive == {"kConnected", "kDisconnecting"}

(* Connections exist from their number on; what is handled, pending or due *)
(* belongs to one that exists, and the one in a callback has not ended.    *)
Existing ==
    /\ \A c \in Conn : st[c] = "none" <=> c > made
    /\ reading \subseteq 1..made /\ due \subseteq 1..made
    /\ AllFit(queue, made)
    /\ pc \in {"up", "down"} => cur \in 1..made /\ st[cur] \in Alive

(* OneAttempt in terms of the queue's predicates. *)
Attempts ==
    /\ OneRes(queue)
    /\ is_connecting <=> (attempt \/ ~NoRes(queue))
    /\ ~(attempt /\ ~NoRes(queue))

(* auto_reconnect_ is only cleared together with the history variable. *)
Wanted == off \/ auto_reconnect

(* NoStall in the same terms. *)
Going ==
    started /\ ~off =>
      is_connecting \/ conn # 0 \/ timers > 0 \/ pc # "run" \/ Has(queue, "connect")

IInv == TypeOK /\ Existing /\ Attempts /\ ConnAlive /\ Wanted /\ Going

-----------------------------------------------------------------------------
(* The invariant holds initially. *)
LEMMA InitIInv == Init => IInv
  <1> SUFFICES ASSUME Init PROVE IInv
    OBVIOUS
  <1> USE ConstAssumption DEF ConstAssumption, Conn
  <1>1. queue \in Seq(Handler) /\ Len(queue) = 0
    BY DEF Init
  <1>2. TypeOK
    <2>1. /\ auto_reconnect \in BOOLEAN /\ is_connecting \in BOOLEAN /\ locked \in BOOLEAN
          /\ attempt \in BOOLEAN /\ started \in BOOLEAN /\ off \in BOOLEAN
      BY Zenon DEF Init
    <2>2. /\ conn \in 0..MaxConns /\ cur \in 0..MaxConns /\ made \in 0..MaxConns
          /\ calls \in 0..MaxCalls /\ timers \in Nat
      BY DEF Init
    <2>3. /\ st \in [Conn -> {"none", "kConnected", "kDisconnecting", "kDisconnected"}]
          /\ reading \subseteq Conn /\ due \subseteq Conn /\ pc = "run"
      BY DEF Init
    <2> QED  BY <1>1, <2>1, <2>2, <2>3 DEF TypeOK
  <1>3. Existing
    BY <1>1 DEF Init, Existing, AllFit
  <1>4. Attempts
    BY <1>1 DEF Init, Attempts, OneRes, NoRes
  <1>5. ConnAlive /\ Wanted /\ Going
    BY DEF Init, ConnAlive, Wanted, Going
  <1> QED  BY <1>2, <1>3, <1>4, <1>5 DEF IInv

(* connect() in the loop starts an attempt only if none is under way, and  *)
(* leaves the client with one or with a connection.                        *)
LEMMA ConnectFacts ==
  ASSUME IInv, NEW c \in {0, conn}, ConnectInLoop(c)
  PROVE  /\ is_connecting' \in BOOLEAN /\ attempt' \in BOOLEAN /\ started' = TRUE
         /\ is_connecting' <=> (attempt' \/ ~NoRes(queue))
         /\ ~(attempt' /\ ~NoRes(queue))
         /\ is_connecting' \/ Connected(c)
  BY ZenonT(60) DEF IInv, TypeOK, Attempts, ConnectInLoop, Connected

(* A posted handler of another kind disturbs nothing. *)
LEMMA PostIInv ==
  ASSUME IInv, NEW h \in Handler, Fits(h, made), ~Res(h),
         queue' = Append(queue, h),
         UNCHANGED <<auto_reconnect, is_connecting, conn, pc, cur, attempt, st, made,
                     started, off>>,
         locked' \in BOOLEAN, calls' \in 0..MaxCalls,
         timers' \in Nat, timers' = timers \/ h.op = "connect",
         reading' \subseteq reading, due' \subseteq due
  PROVE  IInv'
  <1> USE DEF IInv
  <1>1. made \in Nat /\ queue \in Seq(Handler)
    BY ConstAssumption DEF TypeOK, ConstAssumption
  <1>2. /\ queue' \in Seq(Handler) /\ NoRes(queue') = NoRes(queue)
        /\ OneRes(queue) => OneRes(queue')
        /\ Has(queue', "connect") <=> Has(queue, "connect") \/ h.op = "connect"
        /\ AllFit(queue, made) => AllFit(queue', made)
    BY <1>1, Push DEF NoRes
  <1>3. TypeOK'
    BY <1>2 DEF TypeOK, Conn
  <1>4. Existing'
    BY <1>2 DEF Existing
  <1>5. Attempts'
    BY <1>2 DEF Attempts
  <1>6. ConnAlive' /\ Wanted'
    BY DEF ConnAlive, Wanted
  <1>7. Going'
    BY <1>2 DEF Going
  <1> QED  BY <1>3, <1>4, <1>5, <1>6, <1>7

(* Facts about the handler at the head. *)
LEMMA TakeFacts ==
  ASSUME IInv, NEW op, Ready(op), queue' = Tail(queue)
  PROVE  /\ pc = "run" /\ Head(queue).op = op /\ Arg \in 0..MaxConns
         /\ queue' \in Seq(Handler)
         /\ OneRes(queue') /\ AllFit(queue', made) /\ Fits(Head(queue), made)
         /\ op \notin {"connected", "failed"} => NoRes(queue') = NoRes(queue)
         /\ op \in {"connected", "failed"} => ~NoRes(queue) /\ NoRes(queue')
         /\ op # "connect" => Has(queue', "connect") = Has(queue, "connect")
  <1>1. made \in Nat /\ queue \in Seq(Handler) /\ queue # << >> /\ Head(queue).op = op
    BY ConstAssumption DEF IInv, TypeOK, ConstAssumption, Ready
  <1>2. /\ Tail(queue) \in Seq(Handler) /\ Head(queue) \in Handler
        /\ OneRes(queue) => OneRes(Tail(queue))
        /\ ~Res(Head(queue)) => (NoRes(queue) <=> NoRes(Tail(queue)))
        /\ Res(Head(queue)) => ~NoRes(queue) /\ (OneRes(queue) => NoRes(Tail(queue)))
        /\ \A o : Head(queue).op # o => (Has(queue, o) <=> Has(Tail(queue), o))
        /\ AllFit(queue, made) => AllFit(Tail(queue), made) /\ Fits(Head(queue), made)
    BY <1>1, Pop
  <1>3. Res(Head(queue)) <=> op \in {"connected", "failed"}
    BY <1>1 DEF Res
  <1>4. Arg \in 0..MaxConns
    BY <1>2 DEF Arg, Handler
  <1>5. NoRes(queue') \in BOOLEAN /\ NoRes(queue) \in BOOLEAN
    BY DEF NoRes
  <1>6. Has(queue', "connect") \in BOOLEAN /\ Has(queue, "connect") \in BOOLEAN
    BY DEF Has
  <1> QED  BY <1>1, <1>2, <1>3, <1>4, <1>5, <1>6 DEF IInv, Attempts, Existing, Ready

(* Calls that only change flags or read them. *)
LEMMA FlagsIInv ==
  ASSUME IInv, UNCHANGED <<is_connecting, conn, loop, ops, conns, started>>,
         locked' \in BOOLEAN, calls' \in 0..MaxCalls, auto_reconnect' \in BOOLEAN,
         off' \in BOOLEAN, off => off', off' \/ auto_reconnect'
  PROVE  IInv'
  <1> USE DEF IInv, loop, ops, conns
  <1>1. TypeOK'
    BY DEF TypeOK, Conn
  <1>2. Existing' /\ Attempts' /\ ConnAlive'
    BY DEF Existing, Attempts, ConnAlive
  <1>3. Wanted' /\ Going'
    BY DEF Wanted, Going
  <1> QED  BY <1>1, <1>2, <1>3

(* connect(), in the loop or from a callback, and what its handler leaves. *)
LEMMA ConnectIInv ==
  ASSUME IInv, RunConnect \/ ConnectFromCallback
  PROVE  IInv'
  <1> USE DEF IInv, conns, loop
  <1>1. /\ ConnectInLoop(conn)
        /\ UNCHANGED <<auto_reconnect, conn, locked, pc, cur, timers, st, made, reading, due, off>>
        /\ calls' \in 0..MaxCalls
    BY ConstAssumption DEF RunConnect, ConnectFromCallback, TypeOK, ConstAssumption
  <1>2. /\ queue' \in Seq(Handler) /\ OneRes(queue') /\ AllFit(queue', made)
        /\ NoRes(queue') = NoRes(queue)
    <2>1. CASE RunConnect
      BY <2>1, TakeFacts DEF RunConnect
    <2>2. CASE ConnectFromCallback
      BY <2>2 DEF ConnectFromCallback, TypeOK, Attempts, Existing
    <2> QED  BY <2>1, <2>2
  <1>3. /\ is_connecting' \in BOOLEAN /\ attempt' \in BOOLEAN /\ started' = TRUE
        /\ is_connecting' <=> (attempt' \/ ~NoRes(queue))
        /\ ~(attempt' /\ ~NoRes(queue))
        /\ is_connecting' \/ Connected(conn)
    BY <1>1, ConnectFacts
  <1>4. TypeOK'
    BY <1>1, <1>2, <1>3 DEF TypeOK, Conn
  <1>5. Existing' /\ ConnAlive' /\ Wanted'
    BY <1>1, <1>2 DEF Existing, ConnAlive, Wanted
  <1>6. Attempts'
    BY <1>2, <1>3 DEF Attempts
  <1>7. Going'
    BY <1>1, <1>3 DEF Going, Connected
  <1> QED  BY <1>4, <1>5, <1>6, <1>7

(* disconnect(): a connected conn_ begins to close. *)
LEMMA DisconnectIInv ==
  ASSUME IInv, RunDisconnect \/ DisconnectFromCallback
  PROVE  IInv'
  <1> USE DEF IInv, ops, conns
  <1> DEFINE q == IF RunDisconnect THEN Tail(queue) ELSE queue
  <1>1. /\ DisconnectInLoop(q)
        /\ UNCHANGED <<is_connecting, conn, locked, pc, cur, attempt, timers, made, reading, due,
                       started>>
        /\ calls' \in 0..MaxCalls
    BY ConstAssumption DEF RunDisconnect, DisconnectFromCallback, TypeOK, ConstAssumption
  <1>2. q \in Seq(Handler) /\ OneRes(q) /\ AllFit(q, made) /\ NoRes(q) = NoRes(queue)
    <2>1. CASE RunDisconnect
      <3>1. /\ queue \in Seq(Handler) /\ queue # << >> /\ Head(queue).op = "disconnect"
            /\ made \in Nat
        BY <2>1, ConstAssumption DEF RunDisconnect, Ready, TypeOK, ConstAssumption
      <3>2. ~Res(Head(queue))
        BY <3>1 DEF Res
      <3>3. NoRes(q) \in BOOLEAN /\ NoRes(queue) \in BOOLEAN
        BY DEF NoRes
      <3> QED  BY <2>1, <3>1, <3>2, <3>3, Pop DEF Attempts, Existing
    <2>2. CASE ~RunDisconnect
      BY <2>2 DEF TypeOK, Attempts, Existing
    <2> QED  BY <2>1, <2>2
  <1> HIDE DEF q
  <1>3. auto_reconnect' = FALSE /\ off' = TRUE
    BY <1>1 DEF DisconnectInLoop
  <1>4. CASE Connected(conn)
    <2> DEFINE h == H("close", conn)
    <2>1. /\ conn \in 1..made /\ st[conn] = "kConnected"
          /\ st' = [st EXCEPT ![conn] = "kDisconnecting"] /\ queue' = Append(q, h)
      BY <1>1, <1>4 DEF DisconnectInLoop, Connected, TypeOK, Existing, Conn
    <2>2. h \in Handler /\ Fits(h, made) /\ ~Res(h) /\ made \in Nat
      BY <2>1, ConstAssumption DEF H, Handler, Fits, Res, TypeOK, ConstAssumption
    <2>3. /\ queue' \in Seq(Handler) /\ OneRes(queue') /\ AllFit(queue', made)
          /\ NoRes(queue') = NoRes(queue)
      <3>1. NoRes(queue') \in BOOLEAN /\ NoRes(queue) \in BOOLEAN
        BY DEF NoRes
      <3> HIDE DEF h
      <3> QED  BY <1>2, <2>1, <2>2, <3>1, Push
    <2>4. TypeOK'
      BY ZenonT(60), <1>1, <1>3, <2>1, <2>3 DEF TypeOK, Conn
    <2>5. Existing' /\ ConnAlive'
      BY <1>1, <2>1, <2>3 DEF TypeOK, Existing, ConnAlive, Alive, Conn
    <2>6. Attempts' /\ Wanted' /\ Going'
      BY <1>1, <1>3, <2>3 DEF Attempts, Wanted, Going
    <2> QED  BY <2>4, <2>5, <2>6
  <1>5. CASE ~Connected(conn)
    <2>1. queue' = q /\ st' = st
      BY <1>1, <1>5 DEF DisconnectInLoop
    <2>2. TypeOK'
      BY ZenonT(60), <1>1, <1>2, <1>3, <2>1 DEF TypeOK, Conn
    <2>3. Existing' /\ ConnAlive'
      BY <1>1, <1>2, <2>1 DEF Existing, ConnAlive
    <2>4. Attempts' /\ Wanted' /\ Going'
      BY <1>1, <1>2, <1>3, <2>1 DEF Attempts, Wanted, Going
    <2> QED  BY <2>2, <2>3, <2>4
  <1> QED  BY <1>4, <1>5

(* newConnection() without error: the connection gets the next number.     *)
LEMMA NewConnectionIInv ==
  ASSUME IInv, NewConnection
  PROVE  IInv'
  <1> USE DEF IInv, ops
  <1>1. /\ Ready("connected") /\ queue' = Tail(queue) /\ is_connecting' = FALSE
        /\ made' = made + 1 /\ cur' = made + 1 /\ st' = [st EXCEPT ![made + 1] = "kConnected"]
        /\ pc' = "up"
        /\ UNCHANGED <<auto_reconnect, conn, locked, attempt, timers, reading, due, calls,
                       started, off>>
    BY DEF NewConnection
  <1>2. /\ Head(queue).op = "connected" /\ queue' \in Seq(Handler)
        /\ OneRes(queue') /\ AllFit(queue', made) /\ Fits(Head(queue), made)
        /\ ~NoRes(queue) /\ NoRes(queue')
    BY <1>1, TakeFacts
  <1>3. made + 1 \in Conn /\ made \in Nat
    BY <1>2, ConstAssumption DEF Fits, TypeOK, Conn, ConstAssumption
  <1>4. AllFit(queue', made')
    BY ZenonT(60), <1>1, <1>2, <1>3, Grow
  <1>5. TypeOK'
    <2>1. is_connecting' \in BOOLEAN
      BY <1>1, Zenon
    <2> QED  BY <1>1, <1>2, <1>3, <2>1 DEF TypeOK, Conn
  <1>6. Existing'
    BY <1>1, <1>3, <1>4 DEF TypeOK, Existing, Alive, Conn
  <1>7. Attempts'
    BY <1>1, <1>2 DEF Attempts
  <1>8. ConnAlive'
    BY <1>1, <1>3 DEF TypeOK, Existing, ConnAlive, Conn
  <1>9. Wanted' /\ Going'
    BY <1>1 DEF Wanted, Going
  <1> QED  BY <1>5, <1>6, <1>7, <1>8, <1>9

(* conn_ becomes the connection whose callback has returned. *)
LEMMA SetConnIInv ==
  ASSUME IInv, SetConn
  PROVE  IInv'
  <1> USE DEF IInv, ops
  <1>1. cur \in 1..made /\ st[cur] \in Alive /\ cur \in Conn /\ cur # 0
    BY DEF SetConn, TypeOK, Existing, Conn
  <1>2. TypeOK'
    BY <1>1, ConstAssumption DEF SetConn, TypeOK, Conn, ConstAssumption
  <1>3. Existing'
    BY <1>1 DEF SetConn, Existing
  <1>4. Attempts' /\ ConnAlive' /\ Wanted' /\ Going'
    BY <1>1 DEF SetConn, Attempts, ConnAlive, Alive, Wanted, Going
  <1> QED  BY <1>2, <1>3, <1>4

(* A failed attempt, up to its callback. *)
LEMMA NewConnectionFailedIInv ==
  ASSUME IInv, NewConnectionFailed
  PROVE  IInv'
  <1> USE DEF IInv, ops, conns
  <1>1. /\ Ready("failed") /\ queue' = Tail(queue) /\ is_connecting' = FALSE /\ pc' = "fail"
        /\ UNCHANGED <<auto_reconnect, conn, locked, cur, attempt, timers, st, made, reading, due,
                       calls, started, off>>
    BY DEF NewConnectionFailed
  <1>2. /\ queue' \in Seq(Handler) /\ OneRes(queue') /\ AllFit(queue', made)
        /\ ~NoRes(queue) /\ NoRes(queue')
    BY <1>1, TakeFacts
  <1>3. TypeOK'
    <2>1. is_connecting' \in BOOLEAN
      BY <1>1, Zenon
    <2> QED  BY <1>1, <1>2, <2>1 DEF TypeOK, Conn
  <1>4. Existing' /\ ConnAlive'
    BY <1>1, <1>2 DEF Existing, ConnAlive
  <1>5. Attempts' /\ Wanted' /\ Going'
    BY <1>1, <1>2 DEF Attempts, Wanted, Going
  <1> QED  BY <1>3, <1>4, <1>5

(* The retry timer is started if reconnection is wanted. *)
LEMMA RetryLaterIInv ==
  ASSUME IInv, RetryLater
  PROVE  IInv'
  <1> USE DEF IInv, client, conns
  <1>1. TypeOK'
    <2>1. pc' = "run" /\ timers' \in Nat
      BY DEF RetryLater, TypeOK
    <2> QED  BY <2>1 DEF RetryLater, TypeOK, Conn
  <1>2. Existing' /\ Attempts' /\ ConnAlive' /\ Wanted'
    BY DEF RetryLater, Existing, Attempts, ConnAlive, Wanted
  <1>3. Going'
    BY DEF RetryLater, Going, Wanted, TypeOK
  <1> QED  BY <1>1, <1>2, <1>3

(* A connection begins to end, unless it has. *)
LEMMA HandleCloseIInv ==
  ASSUME IInv, HandleClose
  PROVE  IInv'
  <1> USE DEF IInv, client, ops
  <1>1. PICK op \in {"close", "readError"} : Ready(op)
    BY DEF HandleClose
  <1>2. /\ queue' = Tail(queue)
        /\ UNCHANGED <<auto_reconnect, is_connecting, conn, locked, attempt, timers, made, due,
                       calls, started, off>>
    BY DEF HandleClose
  <1>3. /\ pc = "run" /\ Head(queue).op = op /\ queue' \in Seq(Handler)
        /\ OneRes(queue') /\ AllFit(queue', made) /\ Fits(Head(queue), made)
        /\ NoRes(queue') = NoRes(queue) /\ Has(queue', "connect") = Has(queue, "connect")
    BY <1>1, <1>2, TakeFacts
  <1>4. Arg \in 1..made /\ Arg \in Conn /\ Arg \in 0..MaxConns
    <2>1. Head(queue).op \in {"close", "readError"}
      BY <1>3
    <2>2. Arg \in 1..made
      BY <1>3, <2>1 DEF Fits, Arg
    <2>3. made \in 0..MaxConns
      BY DEF TypeOK
    <2> HIDE DEF IInv
    <2> QED  BY <2>2, <2>3, ConstAssumption DEF Conn, ConstAssumption
  <1>5. CASE st[Arg] = "kDisconnected"
    <2>1. UNCHANGED <<st, reading, pc, cur>>
      BY <1>5 DEF HandleClose
    <2>2. TypeOK'
      BY <1>2, <1>3, <2>1 DEF TypeOK, Conn
    <2>3. Existing' /\ ConnAlive'
      BY <1>2, <1>3, <2>1 DEF Existing, ConnAlive
    <2>4. Attempts' /\ Wanted' /\ Going'
      BY <1>2, <1>3, <2>1 DEF Attempts, Wanted, Going
    <2> QED  BY <2>2, <2>3, <2>4
  <1>6. CASE st[Arg] # "kDisconnected"
    <2>1. /\ st' = [st EXCEPT ![Arg] = "kDisconnecting"]
          /\ reading' = reading \ {Arg} /\ pc' = "down" /\ cur' = Arg
      BY <1>6 DEF HandleClose
    <2> HIDE DEF Arg
    <2>2. TypeOK'
      BY <1>2, <1>3, <1>4, <2>1 DEF TypeOK, Conn
    <2>3. Existing' /\ ConnAlive'
      BY <1>2, <1>3, <1>4, <2>1 DEF TypeOK, Existing, ConnAlive, Alive, Conn
    <2>4. Attempts' /\ Wanted' /\ Going'
      BY <1>2, <1>3, <2>1 DEF Attempts, Wanted, Going
    <2> QED  BY <2>2, <2>3, <2>4
  <1> QED  BY <1>5, <1>6

(* The end of a connection: conn_ is reset and a new attempt begins. *)
LEMMA RemoveConnectionIInv ==
  ASSUME IInv, RemoveConnection
  PROVE  IInv'
  <1> USE DEF IInv
  <1>1. /\ pc = "down" /\ pc' = "run" /\ cur' = 0 /\ conn' = 0
        /\ st' = [st EXCEPT ![cur] = "kDisconnected"]
        /\ UNCHANGED <<auto_reconnect, locked, queue, timers, made, reading, due, calls, off>>
    BY DEF RemoveConnection
  <1>2. cur \in 1..made /\ cur \in Conn
    BY <1>1 DEF TypeOK, Existing, Conn
  <1>3. /\ is_connecting' \in BOOLEAN /\ attempt' \in BOOLEAN /\ started' \in BOOLEAN
        /\ is_connecting' <=> (attempt' \/ ~NoRes(queue))
        /\ ~(attempt' /\ ~NoRes(queue))
        /\ auto_reconnect => is_connecting'
    <2>1. CASE auto_reconnect
      <3>1. ConnectInLoop(0)
        BY <2>1 DEF RemoveConnection
      <3>2. ~Connected(0)
        BY DEF Connected
      <3>3. /\ is_connecting' \in BOOLEAN /\ attempt' \in BOOLEAN /\ started' = TRUE
            /\ is_connecting' <=> (attempt' \/ ~NoRes(queue))
            /\ ~(attempt' /\ ~NoRes(queue))
            /\ is_connecting' \/ Connected(0)
        BY <3>1, ConnectFacts
      <3> QED  BY <3>2, <3>3
    <2>2. CASE ~auto_reconnect
      BY <2>2 DEF RemoveConnection, TypeOK, Attempts
    <2> QED  BY <2>1, <2>2
  <1>4. TypeOK'
    BY <1>1, <1>2, <1>3, ConstAssumption DEF TypeOK, Conn, ConstAssumption
  <1>5. Existing' /\ ConnAlive'
    BY <1>1, <1>2 DEF TypeOK, Existing, ConnAlive, Conn
  <1>6. Attempts'
    BY <1>1, <1>3 DEF Attempts
  <1>7. Wanted' /\ Going'
    BY <1>1, <1>3 DEF Wanted, Going
  <1> QED  BY <1>4, <1>5, <1>6, <1>7

(* The result of an attempt is posted; there is no other. *)
LEMMA ConnectCompletesIInv ==
  ASSUME IInv, ConnectCompletes
  PROVE  IInv'
  <1> USE DEF IInv, client, conns
  <1>1. PICK h \in {H("connected", 0), H("failed", 0)} :
          queue' = Append(queue, h) /\ (h.op = "connected" => made < MaxConns)
    BY DEF ConnectCompletes, H
  <1>2. /\ h \in Handler /\ Fits(h, made) /\ Res(h) /\ made \in Nat
        /\ queue \in Seq(Handler) /\ h.op # "connect"
    BY <1>1, ConstAssumption DEF H, Handler, Fits, Res, TypeOK, ConstAssumption
  <1>3. /\ attempt /\ attempt' = FALSE
        /\ UNCHANGED <<auto_reconnect, is_connecting, conn, locked, pc, cur, timers, st, made,
                       reading, due, calls, started, off>>
    BY DEF ConnectCompletes
  <1>4. NoRes(queue) /\ is_connecting
    BY <1>3 DEF Attempts
  <1>5. /\ queue' \in Seq(Handler) /\ OneRes(queue') /\ ~NoRes(queue')
        /\ AllFit(queue', made)
        /\ Has(queue, "connect") => Has(queue', "connect")
    BY <1>1, <1>2, <1>4, Push DEF Attempts, Existing
  <1>6. TypeOK'
    <2>1. attempt' \in BOOLEAN
      BY <1>3, Zenon
    <2> QED  BY <1>3, <1>5, <2>1 DEF TypeOK, Conn
  <1>7. Existing' /\ ConnAlive'
    BY <1>3, <1>5 DEF Existing, ConnAlive
  <1>8. Attempts' /\ Wanted' /\ Going'
    BY <1>3, <1>4, <1>5 DEF Attempts, Wanted, Going
  <1> QED  BY <1>6, <1>7, <1>8

(* close() of a connection by a user, up to the post. *)
LEMMA UserClosesIInv ==
  ASSUME IInv, NEW c \in Conn, UserCloses(c)
  PROVE  IInv'
  <1> USE DEF IInv, client, loop, ops
  <1>1. c \in 1..made
    BY DEF UserCloses, TypeOK, Existing, Conn
  <1>2. TypeOK'
    BY DEF UserCloses, TypeOK
  <1>3. Existing' /\ ConnAlive'
    BY <1>1 DEF UserCloses, TypeOK, Existing, ConnAlive, Alive, Conn
  <1>4. Attempts' /\ Wanted' /\ Going'
    BY DEF UserCloses, Attempts, Wanted, Going
  <1> QED  BY <1>2, <1>3, <1>4

(* Every step preserves the invariant. *)
LEMMA NextIInv == IInv /\ [Next]_vars => IInv'
  <1> SUFFICES ASSUME IInv, [Next]_vars PROVE IInv'
    OBVIOUS
  <1> USE ConstAssumption DEF ConstAssumption
  <1>1. CASE LoopStep
    BY <1>1, ConnectIInv, DisconnectIInv, NewConnectionIInv, SetConnIInv,
       NewConnectionFailedIInv, RetryLaterIInv, HandleCloseIInv, RemoveConnectionIInv
       DEF LoopStep
  <1>2. CASE ConnectFromCallback \/ DisconnectFromCallback
    BY <1>2, ConnectIInv, DisconnectIInv
  <1>3. ASSUME NEW op \in {"connect", "disconnect"}, Call(op) PROVE IInv'
    <2>1. H(op, 0) \in Handler /\ Fits(H(op, 0), made) /\ ~Res(H(op, 0))
      BY DEF H, Handler, Fits, Res
    <2>2. calls' \in 0..MaxCalls
      BY <1>3 DEF Call, IInv, TypeOK
    <2> QED  BY <1>3, <2>1, <2>2, PostIInv DEF Call, IInv, TypeOK, client, ops, conns
  <1>4. ASSUME NEW v \in BOOLEAN, SetAutoReconnect(v) PROVE IInv'
    <2>1. calls' \in 0..MaxCalls
      BY <1>4 DEF SetAutoReconnect, IInv, TypeOK
    <2>2. off' \in BOOLEAN /\ (off => off') /\ (off' \/ auto_reconnect') /\ auto_reconnect' \in BOOLEAN
      BY ZenonT(60), <1>4 DEF SetAutoReconnect, IInv, TypeOK
    <2> QED  BY <1>4, <2>1, <2>2, FlagsIInv DEF SetAutoReconnect, IInv, TypeOK
  <1>5. CASE ConnectCompletes
    BY <1>5, ConnectCompletesIInv
  <1>6. CASE TimerFires
    <2>1. H("connect", 0) \in Handler /\ Fits(H("connect", 0), made) /\ ~Res(H("connect", 0))
          /\ H("connect", 0).op = "connect"
      BY DEF H, Handler, Fits, Res
    <2>2. timers' \in Nat
      BY <1>6 DEF TimerFires, IInv, TypeOK
    <2> QED  BY <1>6, <2>1, <2>2, PostIInv DEF TimerFires, IInv, TypeOK, client, conns
  <1>7. CASE LockConn \/ UnlockConn
    <2>1. calls' \in 0..MaxCalls
      BY <1>7 DEF LockConn, UnlockConn, IInv, TypeOK
    <2>2. locked' \in BOOLEAN
      BY <1>7, Zenon DEF LockConn, UnlockConn
    <2> QED  BY <1>7, <2>1, <2>2, FlagsIInv DEF LockConn, UnlockConn, IInv, TypeOK, Wanted
  <1>8. ASSUME NEW c \in Conn, PeerCloses(c) PROVE IInv'
    <2>1. c \in 1..made
      BY <1>8 DEF PeerCloses, IInv, Existing
    <2>2. H("readError", c) \in Handler /\ Fits(H("readError", c), made) /\ ~Res(H("readError", c))
      BY <2>1 DEF H, Handler, Fits, Res, Conn
    <2> QED  BY <1>8, <2>2, PostIInv DEF PeerCloses, IInv, TypeOK, client, ops
  <1>9. ASSUME NEW c \in Conn, UserCloses(c) PROVE IInv'
    BY <1>9, UserClosesIInv
  <1>10. ASSUME NEW c \in Conn, CloseDue(c) PROVE IInv'
    <2>1. c \in 1..made
      BY <1>10 DEF CloseDue, IInv, Existing
    <2>2. H("close", c) \in Handler /\ Fits(H("close", c), made) /\ ~Res(H("close", c))
      BY <2>1 DEF H, Handler, Fits, Res, Conn
    <2> QED  BY <1>10, <2>2, PostIInv DEF CloseDue, IInv, TypeOK, client, ops
  <1>11. CASE UNCHANGED vars
    BY <1>11, FlagsIInv DEF vars, client, IInv, TypeOK, Wanted
  <1> QED
    BY <1>1, <1>2, <1>3, <1>4, <1>5, <1>6, <1>7, <1>8, <1>9, <1>10, <1>11 DEF Next

(* Every reachable state satisfies the invariant. *)
LEMMA SpecIInv == Spec => []IInv
  BY InitIInv, NextIInv, PTL DEF Spec

-----------------------------------------------------------------------------
(* The members of the client, its queue and its connections keep their     *)
(* types; no more connections are numbered than there are.                 *)
THEOREM TypeCorrect == Spec => []TypeOK
  <1>1. IInv => TypeOK
    BY DEF IInv
  <1> QED  BY <1>1, SpecIInv, PTL

(* is_connecting_ is exact and attempts never overlap, whoever calls       *)
(* connect() and however timers, callbacks and results interleave.         *)
THEOREM AttemptsNeverOverlap == Spec => []OneAttempt
  <1>1. IInv => OneAttempt
    BY DEF IInv, Attempts, OneAttempt, OneRes, NoRes, Res
  <1> QED  BY <1>1, SpecIInv, PTL

(* conn() never returns a connection that has ended. *)
THEOREM ConnNeverDangles == Spec => []ConnAlive
  <1>1. IInv => ConnAlive
    BY DEF IInv
  <1> QED  BY <1>1, SpecIInv, PTL

(* A started client that may reconnect always has something left that      *)
(* leads to a connection.                                                  *)
THEOREM NeverStalls == Spec => []NoStall
  <1>1. IInv => NoStall
    BY DEF IInv, Going, NoStall, Has, Queued
  <1> QED  BY <1>1, SpecIInv, PTL
=============================================================================
