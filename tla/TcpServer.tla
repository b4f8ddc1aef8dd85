----------------------------- MODULE TcpServer -----------------------------
(***************************************************************************)
(* TCPServer (net/tcp_server.cpp) with what it drives: the acceptor, the   *)
(* loops of its thread pool and the connections it made.  Loop 0 is the    *)
(* server's own loop; with thread_num = 0 the connections live there too.   *)
(* A connection keeps what the server's shutdown depends on: its status,   *)
(* its pending read and the handlers queued for it; TcpConn has the rest   *)
(* of it, EventLoopThreadPool the start and stop of the threads.  *)
(* Asserts are compiled out; following a null pointer is a fault, after    *)
(* which the process does nothing more.                                    *)
(***************************************************************************)
EXTENDS Integers, Sequences

CONSTANTS
    User,       \* threads that call stop()
    ThreadNums, \* bound: the values of thread_num
    MaxConns    \* bound: connections accepted

ASSUME ConstAssumption == ThreadNums \subseteq Nat /\ MaxConns \in Nat

Conn == 1..MaxConns
NoLoop == -1

VARIABLES
    (* members of TCPServer; pool is the pool_ pointer and its next_ *)
    status, substatus, acceptor, connections, next_conn_id, pool, next,
    thread_num,
    (* the loops: handlers ready to run, the connection whose handleClose   *)
    (* runs, where the handler of loop 0 is, are the pool's loops stopped   *)
    queue, closing, pc, todo, stopped,
    (* the pending async_accept: the loop chosen for its socket *)
    accepting,
    (* the connections *)
    st, home, reading,
    (* the callers of start() and stop() *)
    upc,
    (* history: calls of on_stopped_cb, connections stopInLoop() passed by *)
    done, missed,
    fault

server == <<thread_num, status, substatus, acceptor, connections, next_conn_id, pool, next>>
base   == <<pc, todo, stopped>>
conns  == <<st, home, reading>>
vars   == <<server, queue, closing, base, accepting, conns, upc, done, missed, fault>>

Loop == 0..thread_num

Server == {"listen", "stop", "safe", "acceptOk", "acceptError", "acceptAborted",
           "remove"}
Handler ==
    [op : {"listen", "stop", "safe", "acceptAborted"}, arg : {0}]
      \cup [op : {"acceptOk", "acceptError"}, arg : Loop]
      \cup [op : {"remove", "established", "close", "readError"}, arg : Conn]
H(op, arg) == [op |-> op, arg |-> arg]
Push(q, l, h) == [q EXCEPT ![l] = Append(@, h)]
Popped(l) == [queue EXCEPT ![l] = Tail(@)]

Init ==
    /\ thread_num \in ThreadNums
    /\ status = "kNull" /\ substatus = "kSubStatusNull" /\ acceptor = FALSE
    /\ connections = {} /\ next_conn_id = 0 /\ pool = TRUE /\ next = 0
    /\ queue = [l \in Loop |-> << >>] /\ closing = [l \in Loop |-> 0]
    /\ pc = "run" /\ todo = {} /\ stopped = FALSE /\ accepting = NoLoop
    /\ st = [c \in Conn |-> "none"] /\ home = [c \in Conn |-> 0]
    /\ reading = {}
    /\ upc = [u \in User |-> "new"]
    /\ done = 0 /\ missed = {} /\ fault = "none"

(* Loop l takes the handler at the head of its queue. *)
Ready(l, op) ==
    /\ fault = "none" /\ queue[l] # << >> /\ Head(queue[l]).op = op
    /\ closing[l] = 0
    /\ IF l = 0 THEN pc = "run" ELSE ~stopped
Arg(l) == Head(queue[l]).arg

-----------------------------------------------------------------------------
(* start(), with the pool's start(true), which has returned when the       *)
(* lambda is posted.                                                       *)
Start ==
    /\ status = "kNull"
    /\ status' = "kStarting"
    /\ queue' = Push(queue, 0, H("listen", 0))
    /\ UNCHANGED <<thread_num, substatus, acceptor, connections, next_conn_id, pool,
                   next, closing, base, accepting, conns, upc, done, missed, fault>>

(* stop(): a caller that finds kRunning, as it asserts ... *)
Stop(u) ==
    /\ fault = "none" /\ upc[u] = "new" /\ status = "kRunning"
    /\ upc' = [upc EXCEPT ![u] = "stop"]
    /\ UNCHANGED <<server, queue, closing, base, accepting, conns, done, missed,
                   fault>>

(* ... and what it then posts. *)
StopPosts(u) ==
    /\ fault = "none" /\ upc[u] = "stop"
    /\ upc' = [upc EXCEPT ![u] = "called"]
    /\ queue' = Push(queue, 0, H("stop", 0))
    /\ UNCHANGED <<server, closing, base, accepting, conns, done, missed, fault>>

(* doAccept(), the pool being alive: the next loop round robin, then       *)
(* acceptor_->async_accept.                                                *)
DoAccept(open) ==
    IF open
    THEN /\ accepting' = IF thread_num = 0 THEN 0 ELSE next + 1
         /\ next' = IF thread_num = 0 THEN 0 ELSE (next + 1) % thread_num
         /\ UNCHANGED fault
    ELSE fault' = "null_acceptor" /\ UNCHANGED <<accepting, next>>

(* The lambda of start(). *)
Listen ==
    /\ Ready(0, "listen")
    /\ acceptor' = TRUE /\ status' = "kRunning"
    /\ DoAccept(TRUE)
    /\ queue' = Popped(0)
    /\ UNCHANGED <<thread_num, substatus, connections, next_conn_id, pool, closing,
                   base, conns, upc, done, missed>>

(* newConnection() without error: verify_address_cb_ accepts the peer.     *)
(* runInLoop() calls connectEstablished() at once if the connection's loop *)
(* is this one.                                                            *)
NewConnection ==
    LET c == next_conn_id + 1
        l == Arg(0)
    IN  /\ Ready(0, "acceptOk")
        /\ next_conn_id' = c
        /\ connections' = connections \cup {c}
        /\ home' = [home EXCEPT ![c] = l]
        /\ st' = [st EXCEPT ![c] = IF l = 0 THEN "kConnected" ELSE "new"]
        /\ reading' = IF l = 0 THEN reading \cup {c} ELSE reading
        /\ queue' = IF l = 0 THEN Popped(0) ELSE Push(Popped(0), l, H("established", c))
        /\ DoAccept(acceptor)
        /\ UNCHANGED <<thread_num, status, substatus, acceptor, pool, closing, base,
                       upc, done, missed>>

(* newConnection(): the peer is refused, or accept failed. *)
NewConnectionRefused ==
    /\ Ready(0, "acceptOk") \/ Ready(0, "acceptError")
    /\ queue' = Popped(0)
    /\ DoAccept(acceptor)
    /\ UNCHANGED <<thread_num, status, substatus, acceptor, connections,
                   next_conn_id, pool, closing, base, conns, upc, done, missed>>

NewConnectionAborted ==
    /\ Ready(0, "acceptAborted")
    /\ queue' = Popped(0)
    /\ UNCHANGED <<server, closing, base, accepting, conns, upc, done, missed,
                   fault>>

-----------------------------------------------------------------------------
(* Stopping. *)

(* stopInLoop(): closing the acceptor completes the pending accept. *)
StopInLoop ==
    /\ Ready(0, "stop") /\ acceptor
    /\ status' = "kStopping" /\ substatus' = "kStoppingListener"
    /\ acceptor' = FALSE /\ accepting' = NoLoop
    /\ LET q == IF accepting = NoLoop THEN Popped(0)
                ELSE Push(Popped(0), 0, H("acceptAborted", 0))
       IN  IF connections = {}
           THEN queue' = Push(q, 0, H("safe", 0)) /\ UNCHANGED <<pc, todo>>
           ELSE queue' = q /\ pc' = "closeAll" /\ todo' = connections
    /\ UNCHANGED <<thread_num, connections, next_conn_id, pool, next, closing,
                   stopped, conns, upc, done, missed, fault>>

(* stopInLoop(): there is no acceptor any more. *)
StopInLoopNull ==
    /\ Ready(0, "stop") /\ ~acceptor
    /\ status' = "kStopping" /\ substatus' = "kStoppingListener"
    /\ fault' = "null_acceptor" /\ queue' = Popped(0)
    /\ UNCHANGED <<thread_num, acceptor, connections, next_conn_id, pool, next,
                   closing, base, accepting, conns, upc, done, missed>>

(* stopInLoop(): one turn of the loop over connections_.  The test of      *)
(* isConnected() and close()'s exchange of status_ have the same effect as *)
(* the exchange alone.                                                     *)
CloseConnection ==
    /\ fault = "none" /\ pc = "closeAll"
    /\ \E c \in todo :
           /\ \A d \in todo : c <= d
           /\ todo' = todo \ {c}
           /\ IF st[c] = "kConnected"
              THEN /\ st' = [st EXCEPT ![c] = "kDisconnecting"]
                   /\ queue' = Push(queue, home[c], H("close", c))
              ELSE UNCHANGED <<st, queue>>
           /\ missed' = IF st[c] = "new" THEN missed \cup {c} ELSE missed
    /\ UNCHANGED <<server, closing, pc, stopped, accepting, home, reading, upc,
                   done, fault>>

CloseAllDone ==
    /\ fault = "none" /\ pc = "closeAll" /\ todo = {}
    /\ pc' = "run"
    /\ UNCHANGED <<server, queue, closing, todo, stopped, accepting, conns, upc,
                   done, missed, fault>>

(* stopInloopSafe(), stopThreadPool(): the pool's loops are stopped; the   *)
(* handler of each that runs is the last.                                  *)
StopInloopSafe ==
    /\ Ready(0, "safe")
    /\ queue' = Popped(0)
    /\ substatus' = "kStoppingThreadPool"
    /\ IF pool THEN stopped' = TRUE /\ pc' = "join" /\ UNCHANGED fault
               ELSE fault' = "null_pool" /\ UNCHANGED <<stopped, pc>>
    /\ UNCHANGED <<thread_num, status, acceptor, connections, next_conn_id, pool,
                   next, closing, todo, accepting, conns, upc, done, missed>>

(* Mutant: nobody waits for the threads. *)
StopThreadPoolNoJoin ==
    /\ fault = "none" /\ pc = "join"
    /\ pool' = FALSE /\ substatus' = "kSubStatusNull" /\ pc' = "callback"
    /\ queue' = [l \in Loop |-> IF l = 0 THEN queue[0] ELSE << >>]
    /\ UNCHANGED <<thread_num, status, acceptor, connections, next_conn_id, next,
                   closing, todo, stopped, accepting, conns, upc, done, missed,
                   fault>>

(* ... the threads have ended, the pool is deleted, and with its loops the *)
(* handlers they did not run.                                              *)
StopThreadPool ==
    /\ fault = "none" /\ pc = "join" /\ \A l \in Loop \ {0} : closing[l] = 0
    /\ pool' = FALSE /\ substatus' = "kSubStatusNull" /\ pc' = "callback"
    /\ queue' = [l \in Loop |-> IF l = 0 THEN queue[0] ELSE << >>]
    /\ UNCHANGED <<thread_num, status, acceptor, connections, next_conn_id, next,
                   closing, todo, stopped, accepting, conns, upc, done, missed,
                   fault>>

OnStopped ==
    /\ fault = "none" /\ pc = "callback"
    /\ done' = done + 1 /\ pc' = "store"
    /\ UNCHANGED <<server, queue, closing, todo, stopped, accepting, conns, upc,
                   missed, fault>>

StoppedStore ==
    /\ fault = "none" /\ pc = "store"
    /\ status' = "kStopped" /\ pc' = "run"
    /\ UNCHANGED <<thread_num, substatus, acceptor, connections, next_conn_id, pool,
                   next, queue, closing, todo, stopped, accepting, conns, upc, done,
                   missed, fault>>

-----------------------------------------------------------------------------
(* The connections, in their loops. *)

Established(l) ==
    /\ Ready(l, "established")
    /\ st' = [st EXCEPT ![Arg(l)] = "kConnected"]
    /\ reading' = reading \cup {Arg(l)}
    /\ queue' = Popped(l)
    /\ UNCHANGED <<server, closing, base, accepting, home, upc, done, missed,
                   fault>>

(* Mutants: a connection is kept; the end of the last one goes unnoticed;  *)
(* every removal stops the pool.                                           *)
ErasedKeeps(q, c) ==
    /\ UNCHANGED connections
    /\ queue' = q
ErasedUnnoticed(q, c) ==
    /\ connections' = connections \ {c}
    /\ queue' = q
ErasedEager(q, c) ==
    /\ connections' = connections \ {c}
    /\ queue' = IF status = "kStopping" THEN Push(q, 0, H("safe", 0)) ELSE q

(* The lambda of removeConnection(), with the queues q. *)
Erased(q, c) ==
    /\ connections' = connections \ {c}
    /\ queue' = IF status = "kStopping" /\ connections' = {}
                THEN Push(q, 0, H("safe", 0)) ELSE q

RemoveConnection ==
    /\ Ready(0, "remove")
    /\ Erased(Popped(0), Arg(0))
    /\ UNCHANGED <<thread_num, status, substatus, acceptor, next_conn_id, pool,
                   next, closing, base, accepting, conns, upc, done, missed, fault>>

(* handleClose() up to the store of kDisconnected, from close()'s handler  *)
(* or from the end of a read with an error: the socket is closed, and         *)
(* close_cb_ is removeConnection().                                        *)
HandleClose(l) ==
    LET c == Arg(l)
    IN  /\ Ready(l, "close") \/ Ready(l, "readError")
        /\ st[c] # "kDisconnected"
        /\ st' = [st EXCEPT ![c] = "kDisconnecting"]
        /\ closing' = [closing EXCEPT ![l] = c]
        /\ reading' = reading \ {c}
        /\ IF l = 0 THEN Erased(Popped(l), c)
           ELSE queue' = Push(Popped(l), 0, H("remove", c)) /\ UNCHANGED connections
        /\ UNCHANGED <<thread_num, status, substatus, acceptor, next_conn_id, pool,
                       next, base, accepting, home, upc, done, missed, fault>>

(* The connection was closed in the meantime. *)
AlreadyClosed(l) ==
    /\ Ready(l, "close") \/ Ready(l, "readError")
    /\ st[Arg(l)] = "kDisconnected"
    /\ queue' = Popped(l)
    /\ UNCHANGED <<server, closing, base, accepting, conns, upc, done, missed,
                   fault>>

FinishClose(l) ==
    /\ fault = "none" /\ closing[l] # 0
    /\ st' = [st EXCEPT ![closing[l]] = "kDisconnected"]
    /\ closing' = [closing EXCEPT ![l] = 0]
    /\ UNCHANGED <<server, queue, base, accepting, home, reading, upc, done, missed,
                   fault>>

LoopStep(l) ==
    \/ Established(l) \/ HandleClose(l) \/ AlreadyClosed(l) \/ FinishClose(l)
BaseStep ==
    \/ Listen \/ NewConnection \/ NewConnectionRefused \/ NewConnectionAborted
    \/ StopInLoop \/ StopInLoopNull \/ CloseConnection \/ CloseAllDone
    \/ StopInloopSafe \/ StopThreadPool \/ OnStopped \/ StoppedStore \/ RemoveConnection

-----------------------------------------------------------------------------
(* The peers and the users of the connections. *)

(* A peer connects, or accept fails. *)
AcceptCompletes ==
    /\ fault = "none" /\ accepting # NoLoop
    /\ \/ next_conn_id < MaxConns /\ queue' = Push(queue, 0, H("acceptOk", accepting))
       \/ queue' = Push(queue, 0, H("acceptError", accepting))
    /\ accepting' = NoLoop
    /\ UNCHANGED <<server, closing, base, conns, upc, done, missed, fault>>

PeerCloses(c) ==
    /\ fault = "none" /\ c \in reading
    /\ reading' = reading \ {c}
    /\ queue' = Push(queue, home[c], H("readError", c))
    /\ UNCHANGED <<server, closing, base, accepting, st, home, upc, done, missed,
                   fault>>

(* close() from a user of the connection. *)
UserCloses(c) ==
    /\ fault = "none" /\ st[c] = "kConnected"
    /\ st' = [st EXCEPT ![c] = "kDisconnecting"]
    /\ queue' = Push(queue, home[c], H("close", c))
    /\ UNCHANGED <<server, closing, base, accepting, home, reading, upc, done,
                   missed, fault>>

Next ==
    \/ Start \/ \E u \in User : Stop(u) \/ StopPosts(u)
    \/ BaseStep \/ \E l \in Loop : LoopStep(l)
    \/ AcceptCompletes
    \/ \E c \in Conn : PeerCloses(c) \/ UserCloses(c)

Spec == Init /\ [][Next]_vars

(* Every loop thread runs its handlers: weak fairness of Step(l), which is *)
(* enabled when the loop is inside a handler or may take one.  Nothing is  *)
(* assumed of peers and users.                                             *)
Step(l) == l \in Loop /\ (LoopStep(l) \/ (l = 0 /\ BaseStep))
Busy(l) ==
    /\ l \in Loop /\ fault = "none"
    /\ \/ closing[l] # 0
       \/ queue[l] # << >> /\ (IF l = 0 THEN pc = "run" ELSE ~stopped)
       \/ l = 0 /\ pc \notin {"run", "join"}
       \/ l = 0 /\ pc = "join" /\ \A k \in Loop \ {0} : closing[k] = 0
FairSpec ==
    /\ Spec
    /\ \A l \in UNION {0..n : n \in ThreadNums} : []<>(~Busy(l)) \/ []<><<Step(l)>>_vars

-----------------------------------------------------------------------------
Queued(l, op) == {i \in 1..Len(queue[l]) : queue[l][i].op = op}

(* The types; next_ of the pool stays within its loops. *)
TypeOK ==
    /\ thread_num \in ThreadNums
    /\ status \in {"kNull", "kStarting", "kRunning", "kStopping", "kStopped"}
    /\ substatus \in {"kSubStatusNull", "kStoppingListener", "kStoppingThreadPool"}
    /\ acceptor \in BOOLEAN /\ connections \subseteq Conn /\ next_conn_id \in 0..MaxConns
    /\ pool \in BOOLEAN /\ next \in Nat /\ (next = 0 \/ next < thread_num)
    /\ queue \in [Loop -> Seq(Handler)]
    /\ closing \in [Loop -> 0..MaxConns] /\ todo \subseteq Conn /\ stopped \in BOOLEAN
    /\ pc \in {"run", "closeAll", "join", "callback", "store"}
    /\ accepting \in Loop \cup {NoLoop} /\ home \in [Conn -> Loop]
    /\ st \in [Conn -> {"none", "new", "kConnected", "kDisconnecting", "kDisconnected"}]
    /\ reading \subseteq Conn
    /\ upc \in [User -> {"new", "stop", "called"}] /\ done \in Nat
    /\ missed \subseteq Conn /\ fault \in {"none", "null_acceptor", "null_pool"}

(* connections_ is exact although connections end in other threads: one    *)
(* that is alive is in it, and one that has ended is taken out by a        *)
(* removal that is queued exactly as long as it is still in.               *)
MapExact ==
    \A c \in Conn :
      /\ st[c] \in {"new", "kConnected"} => c \in connections
      /\ st[c] = "kDisconnected" =>
           (c \in connections <=> \E i \in Queued(0, "remove") : queue[0][i].arg = c)

(* stopInloopSafe() is posted once per stop, after the last connection has *)
(* left: its asserts on status_ and substatus_ hold when it runs, and the  *)
(* pool it stops is there.                                                 *)
SafeOnce ==
    fault = "none" /\ Queued(0, "safe") # {} =>
      /\ (\A i, j \in Queued(0, "safe") : i = j) /\ pool
      /\ status = "kStopping" /\ substatus = "kStoppingListener"

(* When on_stopped_cb is called the destructor's asserts hold, and loop 0  *)
(* has no handler left that binds the server, except that of a second      *)
(* caller of stop(): the server may be destroyed once stopInloopSafe() has *)
(* returned.                                                               *)
StoppedClean ==
    done > 0 => /\ done = 1 /\ connections = {} /\ ~acceptor /\ ~pool
                /\ \A op \in Server \ {"stop"} : Queued(0, op) = {}

(* The threads of the pool, and with them every pending handler that keeps *)
(* a connection alive, go only when no connection is in use: ~TCPConn      *)
(* asserts kDisconnected.                                                  *)
PoolOutlivesConnections ==
    ~pool => \A c \in Conn : st[c] \in {"none", "kDisconnected"}

(* A stop ends, whatever peers and users do, unless a connection had not   *)
(* been established when stopInLoop() passed it (nobody closes that one)   *)
(* or an accept completed before.                                          *)
StopCompletes ==
    status = "kStopping" ~> (status = "kStopped" \/ missed # {} \/ fault # "none")
=============================================================================
