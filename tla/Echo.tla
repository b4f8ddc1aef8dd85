-------------------------------- MODULE Echo --------------------------------
(***************************************************************************)
(* The echo client and server (examples/echo): a TCPClient that connects   *)
(* and reconnects, the server's connections, and on both sides the codec,  *)
(* the dispatcher and the periodic showInfo() of EventLoop::runEvery(),    *)
(* all in one loop per process.                                            *)
(*                                                                         *)
(* A connection is a stream of bytes each way; reads split it anywhere.    *)
(* TcpConn, TcpClient and TcpServer have the rest of the connections' life: *)
(* here a close is a handler and the client connects again after it.       *)
(* EchoClient greets with one request; clients with other greetings are    *)
(* other users of the same codec: one that does not wait for an answer, or *)
(* one whose messages the server has no callback or no type for.           *)
(***************************************************************************)
EXTENDS Codec

CONSTANTS
    MaxConns,   \* bound: connections made
    MaxId,      \* bound: requests sent
    Greetings,  \* bound: the types a client sends when its connection is up
    Cuts,       \* bound: bytes of a read that takes less than there is
    Timers      \* bound: the sides whose timer runs

ASSUME EchoAssumption ==
    /\ MaxConns \in Nat /\ MaxId \in 0..127 /\ Cuts \subseteq 1..Capacity
    /\ Greetings \subseteq Seq(Type)
    /\ {"Request", "Response"} \subseteq Type /\ Timers \subseteq {"client", "server"}

Side == {"client", "server"}
Conn == 1..MaxConns
End == Side \X Conn
EchoClient == <<"Request">>
fix_data == 97
Peer(e) == <<IF e[1] = "client" THEN "server" ELSE "client", e[2]>>

VARIABLES
    (* one end of a connection: status_, input_buffer_, the bytes on the   *)
    (* way to it, is a read pending                                        *)
    status, input, net, reading,
    (* a process: its handlers, the connection whose onMessage() runs, the *)
    (* function bound to its timer, what ended it                          *)
    queue, pc, timer, fault,
    (* members of EchoClient and EchoServer *)
    greeting, request_id, connection_cnt,
    (* history: messages sent to an end and given to its callback, did a   *)
    (* parse meet more than its message, did a header span two pieces      *)
    sent, got, joined, straddled

ends  == <<status, input, net, reading>>
procs == <<queue, pc, timer, fault>>
app   == <<greeting, request_id, connection_cnt>>
hist  == <<sent, got, joined, straddled>>
vars  == <<ends, procs, app, hist>>

H(op, c, data) == [op |-> op, conn |-> c, data |-> data]

Init ==
    /\ status = [e \in End |-> "none"] /\ input = [e \in End |-> EmptyInput]
    /\ net = [e \in End |-> << >>] /\ reading = [e \in End |-> FALSE]
    /\ queue = [s \in Side |-> << >>] /\ pc = [s \in Side |-> 0]
    /\ timer = [s \in Side |-> IF s \in Timers THEN "callback" ELSE "none"] /\ fault = [s \in Side |-> "none"]
    /\ greeting \in Greetings /\ request_id = 0 /\ connection_cnt = [s \in Side |-> 0]
    /\ sent = [e \in End |-> << >>] /\ got = [e \in End |-> << >>]
    /\ joined = [e \in End |-> FALSE] /\ straddled = [e \in End |-> FALSE]

-----------------------------------------------------------------------------
(* Parts of the handlers. *)

(* codec_.send() of the messages ms at e, whose status is st.  send()      *)
(* takes nothing unless the connection is up, and only the first piece of  *)
(* a chain leaves.                                                         *)
Send(e, st, ms) ==
    IF st = "kConnected"
    THEN /\ net' = [net EXCEPT ![Peer(e)] = @ \o FlattenSeq(
                      [i \in 1..Len(ms) |-> Head(FillEmptyBuffer(ms[i])).data])]
         /\ sent' = [sent EXCEPT ![Peer(e)] = @ \o ms]
    ELSE UNCHANGED <<net, sent>>

(* Messages of the types ts with the next ids and the same text. *)
Numbered(ts, text) ==
    [i \in 1..Min({Len(ts), MaxId - request_id}) |-> Message(ts[i], request_id + i - 1, text)]

(* close() of e, with the queues q. *)
CloseConn(e, q) ==
    IF status[e] = "kConnected"
    THEN /\ status' = [status EXCEPT ![e] = "kDisconnecting"]
         /\ queue' = [q EXCEPT ![e[1]] = Append(@, H("close", e[2], << >>))]
    ELSE queue' = q /\ UNCHANGED status

-----------------------------------------------------------------------------
(* Connections come up.  TCPClient connects again when its connection has  *)
(* ended.                                                                  *)

Idle(s) == fault[s] = "none" /\ pc[s] = 0

(* EchoClient::onConnectionCallback() and launchRead(). *)
ClientUp(c) ==
    LET e == <<"client", c>>
        ms == Numbered(greeting, fix_data)
    IN  /\ Idle("client") /\ fault["server"] = "none" /\ status[e] = "none"
        /\ \A d \in 1..(c - 1) : status[<<"client", d>>] = "kDisconnected"
        /\ status' = [status EXCEPT ![e] = "kConnected"]
        /\ connection_cnt' = [connection_cnt EXCEPT !["client"] = @ + 1]
        /\ Send(e, "kConnected", ms) /\ request_id' = request_id + Len(ms)
        /\ reading' = [reading EXCEPT ![e] = TRUE]
        /\ UNCHANGED <<input, procs, greeting, got, joined, straddled>>

(* EchoServer::onConnectionCallback() and launchRead(). *)
ServerUp(c) ==
    LET e == <<"server", c>>
    IN  /\ Idle("server") /\ status[e] = "none" /\ status[Peer(e)] # "none"
        /\ status' = [status EXCEPT ![e] = "kConnected"]
        /\ connection_cnt' = [connection_cnt EXCEPT !["server"] = @ + 1]
        /\ reading' = [reading EXCEPT ![e] = TRUE]
        /\ UNCHANGED <<input, net, procs, greeting, request_id, hist>>

-----------------------------------------------------------------------------
(* Reading and parsing. *)

Ready(s, op) == Idle(s) /\ queue[s] # << >> /\ Head(queue[s]).op = op
Taken(s) == <<s, Head(queue[s]).conn>>
Popped(s) == [queue EXCEPT ![s] = Tail(@)]

(* handleRead() up to message_cb_, which is onMessage(). *)
HandleRead(s) ==
    /\ Ready(s, "read")
    /\ input' = [input EXCEPT ![Taken(s)] = WritePiece(@, Head(queue[s]).data)]
    /\ pc' = [pc EXCEPT ![s] = Taken(s)[2]]
    /\ queue' = Popped(s)
    /\ UNCHANGED <<status, net, reading, timer, fault, app, hist>>

(* s is at the test of the while loop of onMessage(), for the end e. *)
InLoop(s, e) == fault[s] = "none" /\ pc[s] # 0 /\ e = <<s, pc[s]>>
Enough(e) == input[e].len >= kMinMessageLen + kHeaderLen

(* onMessage() ends and handleRead() goes on with launchRead(), which      *)
(* needs the socket.                                                       *)
LeaveNoRead(s, e) ==    \* mutant: no launchRead()
    pc' = [pc EXCEPT ![s] = 0] /\ UNCHANGED <<reading, fault>>
Leave(s, e) ==
    /\ pc' = [pc EXCEPT ![s] = 0]
    /\ IF status[e] = "kDisconnected"
       THEN fault' = [fault EXCEPT ![s] = "null_socket"] /\ UNCHANGED reading
       ELSE reading' = [reading EXCEPT ![e] = TRUE] /\ UNCHANGED fault

Invalid(len) == len > kMaxMessageLen \/ len < kMinMessageLen
CompleteNoHeader(e, len) == input[e].len >= len     \* mutant
Complete(e, len) == input[e].len >= len + kHeaderLen
Straddle(e) == straddled' = [straddled EXCEPT ![e] = @ \/ (Enough(e) /\ Straddles(input[e]))]

(* The lengths peekInt32() may return. *)
Peeked(e) == IF Enough(e) /\ input[e].ps # << >> THEN PeekInt32(input[e]) ELSE {}

(* The loop ends: there is not a whole frame. *)
OnMessageWaits(s, e) ==
    /\ InLoop(s, e)
    /\ ~Enough(e) \/ \E len \in Peeked(e) : ~Invalid(len) /\ ~Complete(e, len)
    /\ Leave(s, e) /\ Straddle(e)
    /\ UNCHANGED <<status, input, net, queue, timer, app, sent, got, joined>>

(* What parse() does once the header, which was not invalid, is skipped.   *)
(* A set of one result, or of none if that is not reached.                 *)
Parsed(e) ==
    {Parse(SubSeq(b, kHeaderLen + 1, Len(b)), input[e].len - kHeaderLen) :
        b \in {Content(input[e].ps) : len \in {l \in Peeked(e) :
                                               ~Invalid(l) /\ Complete(e, l)}}}

(* ... an invalid length or an error of parse(): defaultErrorCallback().   *)
OnMessageFails(s, e) ==
    /\ InLoop(s, e)
    /\ \/ (\E len \in Peeked(e) : Invalid(len)) /\ UNCHANGED input
       \/ \E r \in Parsed(e) :
            /\ r.error \notin {"kNoError", "null"}
            /\ input' = [input EXCEPT ![e] = Consume(@, kHeaderLen + r.used)]
    /\ CloseConn(e, queue)
    /\ Leave(s, e) /\ Straddle(e)
    /\ UNCHANGED <<net, timer, app, sent, got, joined>>

(* The callbacks. *)
OnRequest(e, m) ==
    /\ Send(e, status[e], <<Message("Response", m.id, m.text)>>)
    /\ UNCHANGED <<status, queue, request_id>>
OnResponse(e, m) ==
    LET ms == Numbered(EchoClient, m.text)
    IN  /\ Send(e, status[e], ms) /\ request_id' = request_id + Len(ms)
        /\ UNCHANGED <<status, queue>>
OnUnknownMessage(e) == CloseConn(e, queue) /\ UNCHANGED <<net, sent, request_id>>

OnProtobufMessage(e, m) ==
    \/ e[1] = "server" /\ m.type = "Request" /\ OnRequest(e, m)
    \/ e[1] = "client" /\ m.type = "Response" /\ OnResponse(e, m)
    \/ <<e[1], m.type>> \notin {<<"server", "Request">>, <<"client", "Response">>}
         /\ OnUnknownMessage(e)

(* ... or a message, which the dispatcher gives to its callback.           *)
OnMessageDelivers(s, e) ==
    /\ InLoop(s, e)
    /\ \E r \in Parsed(e) :
         /\ r.error = "kNoError"
         /\ input' = [input EXCEPT ![e] = ConsumeFlat(@, kHeaderLen + r.used)]
         /\ got' = [got EXCEPT ![e] = Append(@, r.msg)]
         /\ OnProtobufMessage(e, r.msg)
    /\ joined' = [joined EXCEPT ![e] =
                    @ \/ \E len \in Peeked(e) : input[e].len > len + kHeaderLen]
    /\ Straddle(e)
    /\ UNCHANGED <<reading, pc, timer, fault, greeting, connection_cnt>>

(* ... or the list of pieces ends before length() does, or peek() has      *)
(* written over the stack.                                                 *)
OnMessageCrashes(s, e) ==
    /\ InLoop(s, e) /\ Enough(e)
    /\ \/ Short(input[e], kHeaderLen) \/ Straddles(input[e])
       \/ \E r \in Parsed(e) : r.error = "null"
    /\ fault' = [fault EXCEPT ![s] = "memory"]
    /\ Straddle(e)
    /\ UNCHANGED <<ends, queue, pc, timer, app, sent, got, joined>>

-----------------------------------------------------------------------------
(* Closing: the lambda of close(), or a read that ended with an error.     *)
(* connection_cb_ counts the connection down.                              *)
OpenAlways(e) == TRUE       \* mutant: no test of kDisconnected
Open(e) == status[e] # "kDisconnected"

HandleClose(s) ==
    LET e == Taken(s)
    IN  /\ Ready(s, "close") \/ Ready(s, "readError")
        /\ queue' = Popped(s)
        /\ IF Open(e)
           THEN /\ status' = [status EXCEPT ![e] = "kDisconnected"]
                /\ reading' = [reading EXCEPT ![e] = FALSE]
                /\ connection_cnt' = [connection_cnt EXCEPT ![s] = @ - 1]
           ELSE UNCHANGED <<status, reading, connection_cnt>>
        /\ UNCHANGED <<input, net, pc, timer, fault, greeting, request_id, hist>>

(* runEvery(): the lambda calls f and waits again with its own copy of     *)
(* callback, made when callback was still empty.                           *)
RunEvery(s) ==
    /\ Ready(s, "callback")
    /\ timer' = [timer EXCEPT ![s] = "empty"]
    /\ queue' = Popped(s)
    /\ UNCHANGED <<ends, pc, fault, app, sent, got, joined, straddled>>

(* The call of the empty function throws, out of io_service::run() and of  *)
(* main().                                                                 *)
RunEveryEmpty(s) ==
    /\ Ready(s, "empty")
    /\ fault' = [fault EXCEPT ![s] = "bad_function_call"]
    /\ queue' = Popped(s)
    /\ UNCHANGED <<ends, pc, timer, app, hist>>

LoopStep(s) ==
    \/ HandleRead(s) \/ HandleClose(s) \/ RunEvery(s) \/ RunEveryEmpty(s)
    \/ \E c \in Conn :
         \/ OnMessageWaits(s, <<s, c>>) \/ OnMessageFails(s, <<s, c>>)
         \/ OnMessageDelivers(s, <<s, c>>) \/ OnMessageCrashes(s, <<s, c>>)

-----------------------------------------------------------------------------
(* The network and the clock. *)

Post(s, h) == queue' = [queue EXCEPT ![s] = Append(@, h)]

ReadCompletes(e, n) ==
    /\ fault[e[1]] = "none" /\ reading[e] /\ n <= Len(net[e])
    /\ n \in Cuts \/ n = Min({Len(net[e]), Capacity})
    /\ Post(e[1], H("read", e[2], SubSeq(net[e], 1, n)))
    /\ net' = [net EXCEPT ![e] = SubSeq(@, n + 1, Len(@))]
    /\ reading' = [reading EXCEPT ![e] = FALSE]
    /\ UNCHANGED <<status, input, pc, timer, fault, app, hist>>

(* The peer has closed, or the network fails. *)
ReadFails(e) ==
    /\ fault[e[1]] = "none" /\ reading[e]
    /\ Post(e[1], H("readError", e[2], << >>))
    /\ reading' = [reading EXCEPT ![e] = FALSE]
    /\ UNCHANGED <<status, input, net, pc, timer, fault, app, hist>>

TimerExpires(s) ==
    /\ fault[s] = "none" /\ timer[s] # "none"
    /\ Post(s, H(timer[s], 0, << >>))
    /\ timer' = [timer EXCEPT ![s] = "none"]
    /\ UNCHANGED <<ends, pc, fault, app, hist>>

Next ==
    \/ \E c \in Conn : ClientUp(c) \/ ServerUp(c)
    \/ \E s \in Side : LoopStep(s) \/ TimerExpires(s)
    \/ \E e \in End : ReadFails(e) \/ \E n \in 1..Capacity : ReadCompletes(e, n)

Spec == Init /\ [][Next]_vars

(* Both loops run (weak fairness of LoopStep, which is enabled when the    *)
(* loop is inside a handler or has one), the kernel accepts connections    *)
(* and delivers data.  Nothing is assumed of failures or of the clock.     *)
Busy(s) == fault[s] = "none" /\ (pc[s] # 0 \/ queue[s] # << >>)
FairSpec ==
    /\ Spec
    /\ \A s \in Side : []<>(~Busy(s)) \/ []<><<LoopStep(s)>>_vars
    /\ \A c \in Conn : WF_vars(ServerUp(c))
    /\ \A e \in End : WF_vars(\E n \in 1..Capacity : ReadCompletes(e, n))

-----------------------------------------------------------------------------
Frames(ms) == FlattenSeq([i \in 1..Len(ms) |-> Content(FillEmptyBuffer(ms[i]))])
Waiting(e) == FlattenSeq([i \in 1..Len(queue[e[1]]) |->
                LET h == queue[e[1]][i] IN IF h.conn = e[2] THEN h.data ELSE << >>])

(* While a connection is up, no two frames met in its buffer and no header *)
(* spanned two pieces, onMessage() stays on the boundaries of frames       *)
(* however reads split them: it has delivered what was sent, in that       *)
(* order; what is buffered, read and on the way is exactly the frames of   *)
(* the rest; and the count and tail_ of the buffer are right.              *)
StreamAligned ==
    \A e \in End : status[e] = "kConnected" /\ ~joined[e] /\ ~straddled[e] =>
      /\ IsPrefix(got[e], sent[e])
      /\ Content(input[e].ps) \o Waiting(e) \o net[e] =
           Frames(SubSeq(sent[e], Len(got[e]) + 1, Len(sent[e])))
      /\ input[e].len = Len(Content(input[e].ps)) /\ input[e].tail

(* EchoClient and EchoServer talk in lock step: on one connection a single *)
(* message is under way, so that frames never meet in a buffer; the        *)
(* answers carry the ids of the requests; and only the timer ends a        *)
(* process.                                                                *)
LockStep ==
    greeting = EchoClient =>
      /\ \A e \in End : ~joined[e] /\ ~straddled[e]
      /\ \A c \in Conn :
           LET ce == <<"client", c>>
               se == <<"server", c>>
           IN  /\ Len(sent[se]) - Len(got[se]) + Len(sent[ce]) - Len(got[ce]) <= 1
               /\ \A i \in 1..Len(sent[ce]) : sent[ce][i].id = sent[se][i].id
      /\ \A s \in Side : fault[s] \notin {"memory", "null_socket"}

(* connection_cnt_ of each side is the number of its connections between   *)
(* their two callbacks.                                                    *)
CountExact ==
    \A s \in Side : connection_cnt[s] =
      Cardinality({c \in Conn : status[<<s, c>>] \in {"kConnected", "kDisconnecting"}})

(* A request of EchoClient is answered, unless its connection or one of    *)
(* the processes ends first.                                               *)
Answered ==
    \A c \in Conn : \A k \in 1..MaxId :
      (greeting = EchoClient /\ Len(sent[<<"server", c>>]) >= k) ~>
        \/ Len(got[<<"client", c>>]) >= k
        \/ \E s \in Side : status[<<s, c>>] = "kDisconnected" \/ fault[s] # "none"

(* Queue::push() of the piece that was read, as its assert says: without a *)
(* last piece there is no first one either.                                *)
PushAssert == \A s \in Side : Ready(s, "read") => input[Taken(s)].tail
=============================================================================
