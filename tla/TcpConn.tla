------------------------------ MODULE TcpConn ------------------------------
(***************************************************************************)
(* One TCPConn (net/tcp_conn.cpp) on its EventLoop: the loop thread that   *)
(* runs its handlers and callbacks, the user threads that hold a           *)
(* TCPConnPtr and call send(), close() and closeWithDelay(), the socket's  *)
(* asynchronous operations, the delayed-close timer and the owner (a       *)
(* TCPServer or TCPClient) that drops its reference in close_cb_.          *)
(*                                                                         *)
(* A handler of the loop is one step, cut where it calls the user's code   *)
(* (connection_cb_, message_cb_) so that other threads interleave with     *)
(* the callback.  A call of a user thread is cut between its access to     *)
(* status_ and what it posts.  Asserts are compiled out: each of them is a *)
(* property.  A step with undefined behaviour records a fault and the      *)
(* process goes no further.                                                *)
(***************************************************************************)
EXTENDS Integers, Sequences, SeqOps

CONSTANTS
    User,           \* user threads
    Loop,           \* the loop thread as a sender (in callbacks)
    Capacity,       \* kPieceCapacity, in bytes of the model
    Shapes,         \* what a send() may carry: the lengths of its pieces
    MaxSends,       \* bound: sends per sender
    MaxReads,       \* bound: successful reads
    ShortWrites     \* may async_send transfer less than the whole piece?

Sender == User \cup {Loop}

ASSUME ConstAssumption ==
    /\ Loop \notin User
    /\ Capacity \in Nat \ {0}
    /\ Shapes \subseteq Seq(1..Capacity) \ {<< >>}
    /\ MaxSends \in Nat
    /\ MaxReads \in Nat
    /\ ShortWrites \in BOOLEAN

VARIABLES
    (* members of TCPConn *)
    status, socket, is_sending, output_buffer, delay_close_timer,
    (* the EventLoop: handlers ready to run, where the loop thread is *)
    queue, pc,
    (* operations the io_service has not completed yet *)
    reading, writing, flying, timer,
    (* user threads: references they hold, where they are in a call *)
    ref, tpc,
    (* the owner's reference *)
    owner,
    (* history: accepted sends, bytes given to the peer, callbacks made *)
    sent, wire, reads, ups, downs,
    fault

conn == <<status, socket, is_sending, output_buffer, delay_close_timer>>
ops  == <<reading, writing, flying, timer>>
hist == <<sent, wire, reads, ups, downs>>
vars == <<conn, queue, pc, ops, ref, tpc, owner, hist, fault>>

(* A byte of a send() is named by its sender, the number of the call, the  *)
(* piece and the place in the piece.                                       *)
Byte  == Sender \X Nat \X Nat \X Nat
Piece == Seq(Byte)
Chain(s, k, shape) ==
    [i \in 1..Len(shape) |-> [j \in 1..shape[i] |-> <<s, k, i, j>>]]

WriteOp == {"writeRaw", "writeShared"}
Op == {"established", "send", "close", "delayedClose", "read"} \cup WriteOp
Handler == [op : Op, ec : {"ok", "error", "aborted"}, data : Seq(Piece)]
H(op, ec, data) == [op |-> op, ec |-> ec, data |-> data]

Init ==
    /\ status = "kDisconnected" /\ socket = TRUE /\ is_sending = FALSE
    /\ output_buffer = << >> /\ delay_close_timer = FALSE
    /\ queue = <<H("established", "ok", << >>)>> /\ pc = "run"
    /\ reading = FALSE /\ writing = "none" /\ flying = << >> /\ timer = "none"
    /\ ref = {} /\ tpc = [u \in User |-> "idle"]
    /\ owner = "held"
    /\ sent = [s \in Sender |-> << >>] /\ wire = << >>
    /\ reads = 0 /\ ups = 0 /\ downs = 0
    /\ fault = "none"

(* No shared_ptr to the connection is left: ~TCPConn has run.  A handler   *)
(* of sendInLoop()'s async_send binds the bare this pointer and keeps      *)
(* nothing alive.                                                          *)
Destroyed ==
    /\ owner = "released" /\ ref = {} /\ pc = "run"
    /\ ~reading /\ timer = "none" /\ writing # "writeShared"
    /\ \A i \in 1..Len(queue) : queue[i].op = "writeRaw"

-----------------------------------------------------------------------------
(* Parts of the handlers. *)

(* Mutant: a piece is put at the front. *)
WritePieceQueueFront(out, chain) == <<Head(chain)>> \o out

(* OutputBuffer::writePieceQueue: push() clears item->next before the loop *)
(* reads it, so only the first piece of the chain is taken.                *)
WritePieceQueue(out, chain) == Append(out, Head(chain))

(* OutputBuffer::readPiece: how many pieces at the front are merged into   *)
(* the first one, up to the first of which not all fits.                   *)
FitInOne(out, m) == Len(FlattenSeq(SubSeq(out, 1, m))) <= Capacity
Merged(out) ==
    CHOOSE m \in 1..Len(out) : /\ \A k \in 2..m : FitInOne(out, k)
                               /\ m = Len(out) \/ ~FitInOne(out, m + 1)

(* is_sending_ = true; readPiece(); socket_->async_send with a handler     *)
(* that binds `how'.                                                       *)
StartWrite(out, how) ==
    /\ is_sending' = TRUE
    /\ output_buffer' = SubSeq(out, Merged(out) + 1, Len(out))
    /\ IF socket
       THEN /\ writing' = how
            /\ flying' = SubSeq(out, 1, Merged(out))
            /\ UNCHANGED fault
       ELSE /\ fault' = "null_socket"
            /\ UNCHANGED <<writing, flying>>

(* Mutants: is_sending_ is not tested; a chain met while sending is lost. *)
SendInLoopAlways(chain) ==
    StartWrite(WritePieceQueue(output_buffer, chain), "writeRaw")
SendInLoopDrops(chain) ==
    IF is_sending
    THEN UNCHANGED <<output_buffer, is_sending, writing, flying, fault>>
    ELSE StartWrite(WritePieceQueue(output_buffer, chain), "writeRaw")

SendInLoop(chain) ==
    LET out == WritePieceQueue(output_buffer, chain)
    IN  IF is_sending
        THEN /\ output_buffer' = out
             /\ UNCHANGED <<is_sending, writing, flying, fault>>
        ELSE StartWrite(out, "writeRaw")

(* Mutant: what queued up during the write is not sent. *)
LaunchWriteStops ==
    is_sending' = FALSE /\ UNCHANGED <<output_buffer, writing, flying, fault>>

LaunchWrite ==
    IF output_buffer # << >>
    THEN StartWrite(output_buffer, "writeShared")
    ELSE /\ is_sending' = FALSE
         /\ UNCHANGED <<output_buffer, writing, flying, fault>>

(* Mutant: the read is not started again once kDisconnecting is set. *)
LaunchReadConnected ==
    /\ reading' = (socket /\ status = "kConnected")
    /\ UNCHANGED fault

LaunchRead ==
    IF socket
    THEN reading' = TRUE /\ UNCHANGED fault
    ELSE fault' = "null_socket" /\ UNCHANGED reading

(* Mutants: the status is not tested; the socket is not closed. *)
HandleCloseAgain ==
    /\ status' = "kDisconnecting" /\ socket' = FALSE
    /\ pc' = "down" /\ downs' = downs + 1
    /\ UNCHANGED <<timer, delay_close_timer>>
HandleCloseLeaksSocket ==
    IF status # "kDisconnected"
    THEN /\ status' = "kDisconnecting" /\ pc' = "down" /\ downs' = downs + 1
         /\ UNCHANGED <<timer, delay_close_timer, socket>>
    ELSE UNCHANGED <<status, timer, delay_close_timer, socket, pc, downs>>

(* handleClose up to the call of connection_cb_. *)
HandleClose ==
    IF status # "kDisconnected"
    THEN /\ status' = "kDisconnecting"
         /\ timer' = IF delay_close_timer /\ timer = "waiting"
                     THEN "cancelled" ELSE timer
         /\ delay_close_timer' = FALSE
         /\ socket' = FALSE
         /\ pc' = "down" /\ downs' = downs + 1
    ELSE UNCHANGED <<status, timer, delay_close_timer, socket, pc, downs>>

(* handleError tests and sets status_ before handleClose() does the same. *)
HandleError == HandleClose

-----------------------------------------------------------------------------
(* Handlers run by the loop thread. *)

Ready(opset) == fault = "none" /\ pc = "run" /\ queue # << >> /\ Head(queue).op \in opset
Done == queue' = Tail(queue)

(* connectEstablished() up to connection_cb_; from here on other threads   *)
(* act on the connection, through the owner's map or the callback.         *)
ConnectEstablished ==
    /\ Ready({"established"}) /\ Done
    /\ status' = "kConnected"
    /\ pc' = "up" /\ ups' = ups + 1 /\ ref' = User
    /\ UNCHANGED <<socket, is_sending, output_buffer, delay_close_timer, ops,
                   tpc, owner, sent, wire, reads, downs, fault>>

(* local_endpoint() or remote_endpoint() throws: the peer is already gone. *)
ConnectEstablishedThrows ==
    /\ Ready({"established"}) /\ Done
    /\ status' = "kConnected"
    /\ fault' = "uncaught"
    /\ UNCHANGED <<socket, is_sending, output_buffer, delay_close_timer, ops,
                   pc, ref, tpc, owner, hist>>

RunSendInLoop ==
    /\ Ready({"send"}) /\ Done
    /\ SendInLoop(Head(queue).data)
    /\ UNCHANGED <<status, socket, delay_close_timer, reading, timer, pc,
                   ref, tpc, owner, hist>>

(* The lambdas of close() and closeWithDelay(). *)
RunClose ==
    /\ Ready({"close", "delayedClose"}) /\ Done
    /\ HandleClose
    /\ UNCHANGED <<is_sending, output_buffer, reading, writing, flying,
                   ref, tpc, owner, sent, wire, reads, ups, fault>>

(* handleRead without error, up to message_cb_. *)
HandleRead ==
    /\ Ready({"read"}) /\ Head(queue).ec = "ok" /\ Done
    /\ pc' = "msg"
    /\ UNCHANGED <<conn, ops, ref, tpc, owner, hist, fault>>

HandleReadError ==
    /\ Ready({"read"}) /\ Head(queue).ec # "ok" /\ Done
    /\ IF Head(queue).ec = "error"
       THEN HandleError
       ELSE UNCHANGED <<status, timer, delay_close_timer, socket, pc, downs>>
    /\ UNCHANGED <<is_sending, output_buffer, reading, writing, flying,
                   ref, tpc, owner, sent, wire, reads, ups, fault>>

HandleWrite ==
    /\ Ready(WriteOp) /\ ~Destroyed /\ Head(queue).ec = "ok" /\ Done
    /\ LaunchWrite
    /\ UNCHANGED <<status, socket, delay_close_timer, reading, timer, pc,
                   ref, tpc, owner, hist>>

HandleWriteError ==
    /\ Ready(WriteOp) /\ ~Destroyed /\ Head(queue).ec # "ok" /\ Done
    /\ is_sending' = FALSE
    /\ IF Head(queue).ec = "error"
       THEN HandleError
       ELSE UNCHANGED <<status, timer, delay_close_timer, socket, pc, downs>>
    /\ UNCHANGED <<output_buffer, reading, writing, flying,
                   ref, tpc, owner, sent, wire, reads, ups, fault>>

(* handleWrite bound to a this that is gone. *)
HandleWriteFreed ==
    /\ Ready(WriteOp) /\ Destroyed /\ Done
    /\ fault' = "freed_this"
    /\ UNCHANGED <<conn, ops, pc, ref, tpc, owner, hist>>

(* connection_cb_ or message_cb_ returns: launchRead(). *)
CallbackReturns ==
    /\ fault = "none" /\ pc \in {"up", "msg"}
    /\ LaunchRead
    /\ pc' = "run"
    /\ UNCHANGED <<conn, queue, writing, flying, timer, ref, tpc, owner, hist>>

(* Mutant: the final store to status_ is missing. *)
FinishCloseNoStatus ==
    /\ fault = "none" /\ pc = "down"
    /\ owner' = "releasing" /\ pc' = "run"
    /\ UNCHANGED <<conn, queue, ops, ref, tpc, hist, fault>>

(* handleClose after connection_cb_: close_cb_, then kDisconnected. *)
FinishClose ==
    /\ fault = "none" /\ pc = "down"
    /\ owner' = "releasing"
    /\ status' = "kDisconnected"
    /\ pc' = "run"
    /\ UNCHANGED <<socket, is_sending, output_buffer, delay_close_timer,
                   queue, ops, ref, tpc, hist, fault>>

(* removeConnection() drops the owner's TCPConnPtr. *)
OwnerReleases ==
    /\ fault = "none" /\ owner = "releasing"
    /\ owner' = "released"
    /\ UNCHANGED <<conn, queue, pc, ops, ref, tpc, hist, fault>>

-----------------------------------------------------------------------------
(* The user's callbacks, in the loop thread. *)

InCallback == fault = "none" /\ pc \in {"up", "msg"} /\ status = "kConnected"

SendFromCallback(shape) ==
    /\ InCallback /\ Len(sent[Loop]) < MaxSends
    /\ sent' = [sent EXCEPT ![Loop] = Append(@, shape)]
    /\ SendInLoop(Chain(Loop, Len(sent[Loop]) + 1, shape))
    /\ UNCHANGED <<status, socket, delay_close_timer, queue, pc, reading, timer,
                   ref, tpc, owner, wire, reads, ups, downs>>

CloseFromCallback ==
    /\ InCallback
    /\ status' = "kDisconnecting"
    /\ queue' = Append(queue, H("close", "ok", << >>))
    /\ UNCHANGED <<socket, is_sending, output_buffer, delay_close_timer, pc,
                   ops, ref, tpc, owner, hist, fault>>

CloseWithDelayFromCallback ==
    /\ InCallback
    /\ status' = "kDisconnecting"
    /\ timer' = "waiting" /\ delay_close_timer' = TRUE
    /\ UNCHANGED <<socket, is_sending, output_buffer, queue, pc, reading,
                   writing, flying, ref, tpc, owner, hist, fault>>

-----------------------------------------------------------------------------
(* User threads. *)

At(u, l) == fault = "none" /\ u \in ref /\ tpc[u] = l
Goto(u, l) == tpc' = [tpc EXCEPT ![u] = l]

(* send(): the test of status_ ... *)
Send(u) ==
    /\ At(u, "idle") /\ status = "kConnected" /\ Len(sent[u]) < MaxSends
    /\ Goto(u, "send")
    /\ UNCHANGED <<conn, queue, pc, ops, ref, owner, hist, fault>>

(* ... and runInLoop(sendInLoop) from another thread. *)
SendPosts(u, shape) ==
    /\ At(u, "send") /\ Goto(u, "idle")
    /\ sent' = [sent EXCEPT ![u] = Append(@, shape)]
    /\ queue' = Append(queue, H("send", "ok", Chain(u, Len(sent[u]) + 1, shape)))
    /\ UNCHANGED <<conn, pc, ops, ref, owner, wire, reads, ups, downs, fault>>

(* Mutant: close() stores kDisconnecting whatever the status was. *)
CloseStores(u, next) ==
    /\ At(u, "idle") /\ status # "kDisconnecting"
    /\ status' = "kDisconnecting"
    /\ Goto(u, next)
    /\ UNCHANGED <<socket, is_sending, output_buffer, delay_close_timer, queue,
                   pc, ops, ref, owner, hist, fault>>

(* close() and closeWithDelay(): the compare_exchange on status_. *)
Close(u, next) ==
    /\ At(u, "idle") /\ status = "kConnected"
    /\ status' = "kDisconnecting"
    /\ Goto(u, next)
    /\ UNCHANGED <<socket, is_sending, output_buffer, delay_close_timer, queue,
                   pc, ops, ref, owner, hist, fault>>

ClosePosts(u) ==
    /\ At(u, "close") /\ Goto(u, "idle")
    /\ queue' = Append(queue, H("close", "ok", << >>))
    /\ UNCHANGED <<conn, pc, ops, ref, owner, hist, fault>>

(* Mutant: runAfter() creates the timer and forgets to wait on it. *)
RunAfterNoWait(u) ==
    /\ At(u, "delay") /\ Goto(u, "assign")
    /\ UNCHANGED <<conn, queue, pc, ops, ref, owner, hist, fault>>

(* closeWithDelay(): EventLoop::runAfter starts the wait ... *)
RunAfter(u) ==
    /\ At(u, "delay") /\ Goto(u, "assign")
    /\ timer' = "waiting"
    /\ UNCHANGED <<conn, queue, pc, reading, writing, flying, ref, owner, hist, fault>>

(* ... and its result is stored in delay_close_timer_. *)
AssignTimer(u) ==
    /\ At(u, "assign") /\ Goto(u, "idle")
    /\ delay_close_timer' = TRUE
    /\ UNCHANGED <<status, socket, is_sending, output_buffer, queue, pc, ops,
                   ref, owner, hist, fault>>

DropRef(u) ==
    /\ At(u, "idle")
    /\ ref' = ref \ {u}
    /\ UNCHANGED <<conn, queue, pc, ops, tpc, owner, hist, fault>>

-----------------------------------------------------------------------------
(* The io_service: completions put handlers into the queue.  A closed      *)
(* socket aborts what is still pending.                                    *)

CompleteRead(ec) ==
    /\ fault = "none" /\ reading
    /\ ec \in IF socket THEN {"ok", "error"} ELSE {"aborted"}
    /\ ec = "ok" => reads < MaxReads
    /\ reading' = FALSE
    /\ reads' = IF ec = "ok" THEN reads + 1 ELSE reads
    /\ queue' = Append(queue, H("read", ec, << >>))
    /\ UNCHANGED <<conn, pc, writing, flying, timer, ref, tpc, owner,
                   sent, wire, ups, downs, fault>>

(* What async_send may have transferred of the pieces in flight. *)
Transferred ==
    IF ShortWrites
    THEN UNION {{SubSeq(flying, 1, k - 1) \o <<SubSeq(flying[k], 1, n)>> :
                    n \in 1..Len(flying[k])} : k \in 1..Len(flying)}
    ELSE {flying}

CompleteWrite(ec) ==
    /\ fault = "none" /\ writing # "none"
    /\ ec \in IF socket THEN {"ok", "error"} ELSE {"aborted"}
    /\ writing' = "none" /\ flying' = << >>
    /\ IF ec = "ok"
       THEN \E part \in Transferred : wire' = wire \o part
       ELSE UNCHANGED wire
    /\ queue' = Append(queue, H(writing, ec, << >>))
    /\ UNCHANGED <<conn, pc, reading, timer, ref, tpc, owner,
                   sent, reads, ups, downs, fault>>

(* The timer expires or was cancelled: the lambda runs in both cases. *)
TimerFires ==
    /\ fault = "none" /\ timer # "none"
    /\ timer' = "none"
    /\ queue' = Append(queue, H("delayedClose", "ok", << >>))
    /\ UNCHANGED <<conn, pc, reading, writing, flying, ref, tpc, owner, hist, fault>>

-----------------------------------------------------------------------------
LoopStep ==
    \/ ConnectEstablished \/ ConnectEstablishedThrows
    \/ RunSendInLoop \/ RunClose
    \/ HandleRead \/ HandleReadError
    \/ HandleWrite \/ HandleWriteError \/ HandleWriteFreed
    \/ CallbackReturns \/ FinishClose

CallbackStep ==
    \/ \E shape \in Shapes : SendFromCallback(shape)
    \/ CloseFromCallback
    \/ CloseWithDelayFromCallback

UserFinishes(u) ==
    \/ \E shape \in Shapes : SendPosts(u, shape)
    \/ ClosePosts(u) \/ RunAfter(u) \/ AssignTimer(u)

UserStep(u) ==
    \/ Send(u)
    \/ Close(u, "close")
    \/ Close(u, "delay")
    \/ UserFinishes(u)
    \/ DropRef(u)

IoStep ==
    \/ \E ec \in {"ok", "error", "aborted"} : CompleteRead(ec) \/ CompleteWrite(ec)
    \/ TimerFires

Next == LoopStep \/ CallbackStep \/ (\E u \in User : UserStep(u)) \/ IoStep \/ OwnerReleases

Spec == Init /\ [][Next]_vars

(* The loop thread keeps running handlers and the callbacks return; a user *)
(* thread finishes a call it began; timers fire and aborted operations     *)
(* complete; the owner's loop runs removeConnection().  Nothing is assumed *)
(* of the peer.                                                            *)
FairSpec ==
    /\ Spec
    /\ WF_vars(LoopStep)
    /\ \A u \in User : WF_vars(UserFinishes(u))
    /\ WF_vars(TimerFires)
    /\ WF_vars(CompleteRead("aborted")) /\ WF_vars(CompleteWrite("aborted"))
    /\ WF_vars(OwnerReleases)

-----------------------------------------------------------------------------
(* The types of the connection's members, its loop and its users. *)
TypeOK ==
    /\ status \in {"kConnected", "kDisconnecting", "kDisconnected"}
    /\ socket \in BOOLEAN /\ is_sending \in BOOLEAN
    /\ output_buffer \in Seq(Piece) /\ delay_close_timer \in BOOLEAN
    /\ queue \in Seq(Handler) /\ pc \in {"run", "up", "msg", "down"}
    /\ reading \in BOOLEAN /\ writing \in WriteOp \cup {"none"}
    /\ flying \in Seq(Piece) /\ timer \in {"none", "waiting", "cancelled"}
    /\ ref \subseteq User
    /\ tpc \in [User -> {"idle", "send", "close", "delay", "assign"}]
    /\ owner \in {"held", "releasing", "released"}
    /\ sent \in [Sender -> Seq(Shapes)] /\ wire \in Seq(Piece)
    /\ reads \in 0..MaxReads /\ ups \in Nat /\ downs \in Nat
    /\ fault \in {"none", "null_socket", "freed_this", "uncaught"}

Queued(opset) == {i \in 1..Len(queue) : queue[i].op \in opset}

(* is_sending_ is true exactly while one async_send is outstanding (not    *)
(* completed, or completed with handleWrite still to run), and there are   *)
(* never two: sendInLoop(), launchWrite() and handleWrite() never overlap  *)
(* writes on the stream nor leave the flag set with no write to clear it.  *)
OneWriteInFlight ==
    fault = "none" =>
      /\ is_sending <=> (writing # "none" \/ Queued(WriteOp) # {})
      /\ writing # "none" => Queued(WriteOp) = {}
      /\ \A i, j \in Queued(WriteOp) : i = j

(* Bytes accepted into output_buffer_ never wait with nobody to send them: *)
(* while the socket is there, a write is outstanding whose handler will    *)
(* call launchWrite().                                                     *)
OutputNeverStranded ==
    fault = "none" /\ socket /\ output_buffer # << >> => is_sending

(* From connection_cb_ until handleClose() the connection has exactly one  *)
(* read: in progress, completed and queued, or about to be started when    *)
(* the running callback returns.  A live connection never stops noticing   *)
(* its peer, and two reads never race for input_buffer_.                   *)
ReadChain ==
    fault = "none" =>
      /\ \A i, j \in Queued({"read"}) : i = j
      /\ reading => Queued({"read"}) = {}
      /\ pc \in {"up", "msg"} => ~reading /\ Queued({"read"}) = {}
      /\ ups = 1 /\ socket => \/ reading
                              \/ Queued({"read"}) # {}
                              \/ pc \in {"up", "msg"}

(* ~TCPConn's first assertion, status_ == kDisconnected: whatever the      *)
(* order in which owner, user threads and handlers let go, the last of     *)
(* them does so after handleClose() has finished.                          *)
DestroyedOnlyDisconnected == Destroyed => status = "kDisconnected"

(* The user sees connection_cb_ once for the connect and at most once for  *)
(* the disconnect, in that order, however many of close(),                 *)
(* closeWithDelay(), its timer, read and write errors race; the socket is  *)
(* open exactly until the second call.                                     *)
CallbacksOnce ==
    /\ ups <= 1 /\ downs <= ups
    /\ socket <=> downs = 0
    /\ owner # "held" => downs = 1 /\ pc # "down"

(* status_ moves kDisconnected -> kConnected -> kDisconnecting ->          *)
(* kDisconnected, and the last value is final although connectEstablished, *)
(* the compare_exchange of closers and handleError() all write it.         *)
StatusOrder ==
    [][status' # status =>
         \/ status = "kDisconnected" /\ ups = 0 /\ status' = "kConnected"
         \/ status = "kConnected" /\ status' = "kDisconnecting"
         \/ status = "kDisconnecting" /\ status' = "kDisconnected" /\ downs = 1]_vars

(* What reaches the peer of one sender's bytes is in the order of its      *)
(* send() calls and has no duplicate, even when the connection drops       *)
(* pieces, splits writes or is closed.                                     *)
WireInOrder == InOrder(FlattenSeq(wire))

(* The bytes of the queued sendInLoop, and all that send() has accepted. *)
Posted(q) ==
    FlattenSeq([i \in 1..Len(q) |-> IF q[i].op = "send" THEN FlattenSeq(q[i].data) ELSE << >>])
Accepted ==
    UNION {UNION {Elements(FlattenSeq(Chain(s, k, sent[s][k]))) : k \in 1..Len(sent[s])} :
              s \in Sender}

(* All that a sender passed to send() while the connection could carry it  *)
(* is on the wire, in flight, in output_buffer_ or in a queued             *)
(* sendInLoop, in order, once and without a gap.                           *)
StreamIntact ==
    LET flow == ((FlattenSeq(wire) \o FlattenSeq(flying)) \o FlattenSeq(output_buffer))
                   \o Posted(queue)
    IN  fault = "none" /\ socket
        /\ ~(\E i \in Queued(WriteOp) : queue[i].ec = "error") =>
          InOrder(flow) /\ Elements(flow) = Accepted

(* A connection that began to close reaches kDisconnected (or the process  *)
(* died): no order of close(), closeWithDelay() and errors loses the       *)
(* close.                                                                  *)
CloseCompletes ==
    status = "kDisconnecting" ~> (status = "kDisconnected" \/ fault # "none")

(* Once closed and no longer referenced by a user thread, the connection   *)
(* is destroyed: no handler, timer or pending operation keeps it alive     *)
(* forever.                                                                *)
NoLeak ==
    (downs = 1 /\ ref = {}) ~> (Destroyed \/ fault # "none")
=============================================================================
