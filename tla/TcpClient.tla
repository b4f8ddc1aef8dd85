----------------------------- MODULE TcpClient -----------------------------
(***************************************************************************)
(* TCPClient (net/tcp_client.cpp): connecting, reconnecting after a        *)
(* failure or a lost connection, and disconnecting.  The client and its    *)
(* connections share one loop; user threads call connect(), disconnect(),  *)
(* setAutoReconnect(), conn() and the connections' close(), and the        *)
(* connection callback, which runs in the loop, may do the same.  A        *)
(* handler is cut where it calls the callback.  Asserts are compiled out.  *)
(***************************************************************************)
EXTENDS Integers, Sequences

CONSTANTS
    MaxConns,   \* bound: connections made
    MaxCalls    \* bound: calls of the client's functions

ASSUME ConstAssumption == MaxConns \in Nat /\ MaxCalls \in Nat

Conn == 1..MaxConns

VARIABLES
    (* members of TCPClient; conn is 0 for a null conn_, locked says that  *)
    (* a user thread is in conn() and holds mutex_                         *)
    auto_reconnect, is_connecting, conn, locked,
    (* the loop: handlers, where it is, the connection it handles *)
    queue, pc, cur,
    (* the pending async_connect, the reconnect timers *)
    attempt, timers,
    (* the connections: status, pending reads, closes not yet posted *)
    st, made, reading, due,
    (* history: calls made, has connect() run, was auto_reconnect_ false *)
    calls, started, off

client == <<auto_reconnect, is_connecting, conn, locked>>
loop   == <<queue, pc, cur>>
ops    == <<attempt, timers>>
conns  == <<st, made, reading, due>>
vars   == <<client, loop, ops, conns, calls, started, off>>

H(op, arg) == [op |-> op, arg |-> arg]

Init ==
    /\ auto_reconnect = TRUE /\ is_connecting = FALSE /\ conn = 0 /\ locked = FALSE
    /\ queue = << >> /\ pc = "run" /\ cur = 0 /\ attempt = FALSE /\ timers = 0
    /\ st = [c \in Conn |-> "none"] /\ made = 0 /\ reading = {} /\ due = {}
    /\ calls = 0 /\ started = FALSE /\ off = FALSE

Ready(op) == pc = "run" /\ queue # << >> /\ Head(queue).op = op
Arg == Head(queue).arg
Connected(c) == c # 0 /\ st[c] = "kConnected"

-----------------------------------------------------------------------------
(* Mutant: the flag is not set. *)
ConnectInLoopNoFlag(c) ==
    /\ attempt' = (attempt \/ ~(is_connecting \/ Connected(c)))
    /\ started' = TRUE
    /\ UNCHANGED is_connecting

(* The lambda of connect(), conn_ being c. *)
ConnectInLoop(c) ==
    /\ IF is_connecting \/ Connected(c)
       THEN UNCHANGED <<is_connecting, attempt>>
       ELSE is_connecting' = TRUE /\ attempt' = TRUE
    /\ started' = TRUE

(* The lambda of disconnect(), with the queue q. *)
DisconnectInLoop(q) ==
    /\ auto_reconnect' = FALSE /\ off' = TRUE
    /\ IF Connected(conn)
       THEN /\ st' = [st EXCEPT ![conn] = "kDisconnecting"]
            /\ queue' = Append(q, H("close", conn))
       ELSE queue' = q /\ UNCHANGED st

(* connect() and disconnect() from a user thread. *)
Call(op) ==
    /\ calls < MaxCalls /\ calls' = calls + 1
    /\ queue' = Append(queue, H(op, 0))
    /\ UNCHANGED <<client, pc, cur, ops, conns, started, off>>

RunConnect ==
    /\ Ready("connect") /\ queue' = Tail(queue)
    /\ ConnectInLoop(conn)
    /\ UNCHANGED <<auto_reconnect, conn, locked, pc, cur, timers, conns, calls, off>>

RunDisconnect ==
    /\ Ready("disconnect")
    /\ DisconnectInLoop(Tail(queue))
    /\ UNCHANGED <<is_connecting, conn, locked, pc, cur, ops, made, reading, due, calls,
                   started>>

(* The same calls from the connection callback: runInLoop() runs the       *)
(* lambda at once.                                                         *)
ConnectFromCallback ==
    /\ pc # "run" /\ calls < MaxCalls /\ calls' = calls + 1
    /\ ConnectInLoop(conn)
    /\ UNCHANGED <<auto_reconnect, conn, locked, loop, timers, conns, off>>

DisconnectFromCallback ==
    /\ pc # "run" /\ calls < MaxCalls /\ calls' = calls + 1
    /\ DisconnectInLoop(queue)
    /\ UNCHANGED <<is_connecting, conn, locked, pc, cur, ops, made, reading, due, started>>

SetAutoReconnect(v) ==
    /\ calls < MaxCalls /\ calls' = calls + 1
    /\ auto_reconnect' = v /\ off' = (off \/ ~v)
    /\ UNCHANGED <<is_connecting, conn, locked, loop, ops, conns, started>>

(* newConnection() without error up to the callback in                     *)
(* connectEstablished(), which runs at once.                               *)
NewConnection ==
    /\ Ready("connected") /\ queue' = Tail(queue)
    /\ is_connecting' = FALSE
    /\ made' = made + 1 /\ cur' = made'
    /\ st' = [st EXCEPT ![made'] = "kConnected"]
    /\ pc' = "up"
    /\ UNCHANGED <<auto_reconnect, conn, locked, ops, reading, due, calls, started, off>>

(* ... launchRead(), and conn_ is set under mutex_. *)
SetConn ==
    /\ pc = "up" /\ ~locked
    /\ reading' = reading \cup {cur} /\ conn' = cur
    /\ pc' = "run" /\ cur' = 0
    /\ UNCHANGED <<auto_reconnect, is_connecting, locked, queue, ops, st, made, due, calls,
                   started, off>>

(* newConnection() with an error up to the callback ... *)
NewConnectionFailed ==
    /\ Ready("failed") /\ queue' = Tail(queue)
    /\ is_connecting' = FALSE /\ pc' = "fail"
    /\ UNCHANGED <<auto_reconnect, conn, locked, cur, ops, conns, calls, started, off>>

(* Mutant: the timer is not started. *)
RetryLaterNever ==
    /\ pc = "fail" /\ pc' = "run"
    /\ UNCHANGED <<client, queue, cur, ops, conns, calls, started, off>>

(* ... and the timer that follows. *)
RetryLater ==
    /\ pc = "fail" /\ pc' = "run"
    /\ timers' = IF auto_reconnect THEN timers + 1 ELSE timers
    /\ UNCHANGED <<client, queue, cur, attempt, conns, calls, started, off>>

(* TCPConn::handleClose() up to the callback. *)
HandleClose ==
    /\ Ready("close") \/ Ready("readError")
    /\ queue' = Tail(queue)
    /\ IF st[Arg] = "kDisconnected"
       THEN UNCHANGED <<st, reading, pc, cur>>
       ELSE /\ st' = [st EXCEPT ![Arg] = "kDisconnecting"]
            /\ reading' = reading \ {Arg}
            /\ pc' = "down" /\ cur' = Arg
    /\ UNCHANGED <<client, ops, made, due, calls, started, off>>

(* Mutant: conn_ is kept. *)
RemoveConnectionKeeps ==
    /\ pc = "down" /\ pc' = "run" /\ cur' = 0
    /\ IF auto_reconnect THEN ConnectInLoop(0)
       ELSE UNCHANGED <<is_connecting, attempt, started>>
    /\ st' = [st EXCEPT ![cur] = "kDisconnected"]
    /\ UNCHANGED <<auto_reconnect, conn, locked, queue, timers, made, reading, due, calls,
                   off>>

(* removeConnection() as its close_cb_, with reconnect(), and the end of   *)
(* handleClose().                                                          *)
RemoveConnection ==
    /\ pc = "down" /\ pc' = "run" /\ cur' = 0
    /\ conn' = 0
    /\ IF auto_reconnect THEN ConnectInLoop(0)
       ELSE UNCHANGED <<is_connecting, attempt, started>>
    /\ st' = [st EXCEPT ![cur] = "kDisconnected"]
    /\ UNCHANGED <<auto_reconnect, locked, queue, timers, made, reading, due, calls, off>>

LoopStep ==
    \/ RunConnect \/ RunDisconnect \/ NewConnection \/ SetConn \/ NewConnectionFailed
    \/ RetryLater \/ HandleClose \/ RemoveConnection

-----------------------------------------------------------------------------
(* The io_service, the peer and the users of the connections. *)

ConnectCompletes ==
    /\ attempt /\ attempt' = FALSE
    /\ \/ made < MaxConns /\ queue' = Append(queue, H("connected", 0))
       \/ queue' = Append(queue, H("failed", 0))
    /\ UNCHANGED <<client, pc, cur, timers, conns, calls, started, off>>

(* The timer's handler is reconnect(), which is connect() in the loop. *)
TimerFires ==
    /\ timers > 0 /\ timers' = timers - 1
    /\ queue' = Append(queue, H("connect", 0))
    /\ UNCHANGED <<client, pc, cur, attempt, conns, calls, started, off>>

PeerCloses(c) ==
    /\ c \in reading /\ reading' = reading \ {c}
    /\ queue' = Append(queue, H("readError", c))
    /\ UNCHANGED <<client, pc, cur, ops, st, made, due, calls, started, off>>

(* close() or closeWithDelay() of a connection: the status changes ... *)
UserCloses(c) ==
    /\ st[c] = "kConnected"
    /\ st' = [st EXCEPT ![c] = "kDisconnecting"] /\ due' = due \cup {c}
    /\ UNCHANGED <<client, loop, ops, made, reading, calls, started, off>>

(* ... and the handler is posted, or its timer expires. *)
CloseDue(c) ==
    /\ c \in due /\ due' = due \ {c}
    /\ queue' = Append(queue, H("close", c))
    /\ UNCHANGED <<client, pc, cur, ops, st, made, reading, calls, started, off>>

(* conn() in a user thread: it copies conn_ under mutex_. *)
LockConn ==
    /\ calls < MaxCalls /\ calls' = calls + 1
    /\ ~locked /\ locked' = TRUE
    /\ UNCHANGED <<auto_reconnect, is_connecting, conn, loop, ops, conns, started, off>>
UnlockConn ==
    /\ locked /\ locked' = FALSE
    /\ UNCHANGED <<auto_reconnect, is_connecting, conn, loop, ops, conns, calls, started, off>>

Next ==
    \/ LoopStep \/ ConnectFromCallback \/ DisconnectFromCallback
    \/ \E op \in {"connect", "disconnect"} : Call(op)
    \/ \E v \in BOOLEAN : SetAutoReconnect(v)
    \/ ConnectCompletes \/ TimerFires \/ LockConn \/ UnlockConn
    \/ \E c \in Conn : PeerCloses(c) \/ UserCloses(c) \/ CloseDue(c)

Spec == Init /\ [][Next]_vars

(* The loop thread runs its handlers and callbacks return; conn() gives    *)
(* mutex_ back; a connection attempt ends, timers expire, a close() that   *)
(* began is posted.                                                        *)
FairSpec ==
    /\ Spec
    /\ WF_vars(LoopStep)
    /\ WF_vars(ConnectCompletes) /\ WF_vars(TimerFires) /\ WF_vars(UnlockConn)
    /\ \A c \in Conn : WF_vars(CloseDue(c))

-----------------------------------------------------------------------------
Queued(op) == \E i \in 1..Len(queue) : queue[i].op = op

Handler == [op : {"connect", "disconnect", "connected", "failed", "close", "readError"},
            arg : 0..MaxConns]

(* The types of the client's members, its loop and its connections. *)
TypeOK ==
    /\ auto_reconnect \in BOOLEAN /\ is_connecting \in BOOLEAN /\ locked \in BOOLEAN
    /\ conn \in 0..MaxConns /\ cur \in 0..MaxConns /\ made \in 0..MaxConns
    /\ pc \in {"run", "up", "fail", "down"}
    /\ queue \in Seq(Handler)
    /\ attempt \in BOOLEAN /\ timers \in Nat
    /\ st \in [Conn -> {"none", "kConnected", "kDisconnecting", "kDisconnected"}]
    /\ reading \subseteq Conn /\ due \subseteq Conn /\ calls \in 0..MaxCalls
    /\ started \in BOOLEAN /\ off \in BOOLEAN

(* is_connecting_ is exact: it is set while an attempt is under way or its *)
(* result waits in the loop, and there is never a second attempt then,     *)
(* whatever timers, callbacks and threads call connect().                  *)
OneAttempt ==
    LET results == {i \in 1..Len(queue) : queue[i].op \in {"connected", "failed"}}
    IN  /\ is_connecting <=> (attempt \/ results # {})
        /\ ~(attempt /\ results # {}) /\ \A i, j \in results : i = j

(* conn() never returns a connection that has ended, even if another one   *)
(* was made while that one was closing.                                    *)
ConnAlive == conn # 0 => st[conn] \in {"kConnected", "kDisconnecting"}

(* While auto_reconnect_ stays true a client that was started never comes  *)
(* to rest without a connection: an attempt, a timer, a queued connect()   *)
(* or a connection that will end is always left.                           *)
NoStall ==
    started /\ ~off =>
      \/ is_connecting \/ conn # 0 \/ timers > 0 \/ pc # "run" \/ Queued("connect")

(* Under fairness the client connects or tries to again and again, unless  *)
(* it is told to stop.                                                     *)
Reconnects == []<>(~started \/ off \/ is_connecting \/ Connected(conn))
=============================================================================
