# libnetpp: TLA+ models, checks and proofs

libnetpp (`src/netpp`) is a C++ TCP library on Boost.Asio: event loops, a pool of
loop threads, connections, a server, a client, a chunked buffer with a shared
cache of pieces, a Protobuf codec and logging. `src/examples/echo` is a client and a
server built on it. This directory models all of these, checks the models with TLC
and proves the safety of all but the codec and the examples with TLAPS. `PROJECT.json` lists components,
runs, mutants, the map from definitions to source lines, findings, hazards and
theorems.

## 1. The system

| Part | State | Operations | What is hard |
|---|---|---|---|
| Piece pool (`net/piece`) | cache queue, `using_count_` | `newPiece`, `deletePiece`, destructor | new/delete outside the lock, a limit that moves, `Buffer::clear` bypasses it |
| Buffer (`net/buffer.*`) | list of pieces with offsets, `length_` | prepend, read, write, skip, peek, move, swap, clear; `InputBuffer::writePiece` | a count kept apart from the list, piece boundaries, a length read after release |
| EventLoop | io_service, `status_` | start, stop, runInLoop, queueInLoop, runAfter, runEvery | inline dispatch against posting; a cancelled timer still runs its function |
| EventLoopThread, EventLoopThreadPool | statuses, counters, done callback, next loop | start, stop, join, getNextLoop | start and stop race, only the last thread reports |
| TCPConn | `status_`, socket, `is_sending_`, output and input buffers, timer | send, close, closeWithDelay, handlers | any thread sends and closes, the loop handles errors, lifetime by shared_ptr |
| TCPServer | statuses, acceptor, connection map, pool | start, stop, accept, remove | connections end in other threads while the server stops |
| TCPClient | `conn_`, `is_connecting_`, `auto_reconnect_`, mutex | connect, disconnect, reconnect, conn | calls from callbacks run inline, several sources of reconnection |
| ProtobufCodec, stream adapters, ProtobufDispatcher | the connection's input buffer | fillEmptyBuffer, onMessage, parse, onProtobufMessage | frames split by reads, two frames in one buffer, a parser that does not know where its frame ends |
| Echo examples | `request_id_`, `connection_cnt_`, a periodic timer | connection, request and response callbacks | closes between and inside callbacks |
| Logging (`base/logging`) | `initialized_`, mutex, sinks | initLogging, lg | first use from several threads, a sink that throws |

A server or client makes a TCPConn on a loop. All handlers of a loop run in one
thread in FIFO order. User threads hold TCPConnPtr references, change `status_`
directly and post the rest. The connection's `close_cb_` returns it to its owner, its
`message_cb_` is the codec's `onMessage()`, which hands messages to the dispatcher.
All buffers take pieces from the one pool.

Conventions of all modules: a handler is one step, cut where another thread or
user code can act in between (a callback, an unlock, an access to an atomic).
`assert` is compiled out and appears as a property. Following a null or dangling
pointer is a fault that ends the run of the process. Boost.Asio, Boost.Log and the
Protocol Buffers library (`src/thirdparty`, a vendored copy) are external: they are
modelled from how the code uses them (FIFO handlers, dispatch inline in the loop's
thread, operations of a closed socket completing as aborted; a parser that reads
fields until its stream ends or a tag is 0).

## 2. Modules

- **PiecePool** – `queue`, `using_count`, `held`, `heap` and a `pc` per thread.
  NewPiece, DeletePiece are the critical sections; Allocate and DeleteNext run
  outside the lock; BufferClear deletes a piece without telling the pool.
- **SeqOps** – the operators on sequences the other modules share: FlattenSeq, the
  last and the first elements, and InOrder, the order in which one sender's bytes
  leave it.
- **Pieces** – lists of pieces without state. The loops of `read`, `skip` and `write`
  are closed-form operators (Stop, Drop, Moved, Fill), shared by Buffer and Codec.
- **Buffer**, **ByteQueue** – each buffer is a sequence of `[off, data]` records
  and a separate `length`. Bytes are numbered as they are made. `StaleLen` holds the
  lengths a piece may show after it was given back. The target of
  `read(len, Buffer*)` has no pieces, as its parameter `empty_buf` says; `skip(0)` and
  `readAll` on a buffer without pieces follow a null pointer and are not called.
  ByteQueue is the promise: bytes leave at the front in the order they entered;
  `Buffer!Queue` maps each buffer to the concatenation of its pieces.
- **TcpConn** – one connection: members, the loop's `queue` and `pc` (inside which
  callback), pending operations, the delayed-close `timer`, references (`ref`,
  `owner`), user threads' `tpc`, history (`sent`, `wire`, `ups`, `downs`). A byte is
  its sender, its call, its piece and its place there. `readPiece()` gives the
  first pieces that fit into one (FitInOne, Merged) to a write.
- **EventLoopThreadPool** – the caller (`cpc`) and every thread (`tpc`), with each
  store to a status and each fetch_add as a step.
- **TcpServer** – loop 0 and the pool's loops with their queues, the pending accept,
  the map, the stop sequence (`pc`: closeAll, join, callback, store) and reduced
  connections (status and pending read; they do not send). `thread_num` is chosen in
  Init, so that removal inline and removal through a queue are both met.
- **TcpClient** – one loop, its `pc` inside callbacks, timers, the attempt, `conn`
  and the mutex. `due` holds closes whose handler is not posted yet: `close()`
  between its two steps, or `closeWithDelay()` waiting.
- **Codec** – framing and parsing as functions of an input buffer. Lengths are
  int32 in network order; an integer that spans two pieces is peeked the way `peek()`
  copies it, so that some of its bytes are whatever was there (`Garbage`). The buffer
  keeps `length_` and whether `tail_` is set apart from its pieces: `flatBackUp()`
  changes one and not the other. Messages have two fields of one byte, not written
  when 0, as proto3 has it.
- **Echo** – the client and the server process of the example over Codec: streams of
  bytes each way that reads split, `onMessage()` with one step per turn of its
  loop, dispatcher, callbacks, close, reconnection, and `runEvery()` for `showInfo()`.
  `greeting` is what the client sends first: EchoClient sends one request; the other
  greetings are other users of the same codec.
- **Logging** – threads in `lg()` and `initLogging()`: the test without the mutex, the
  mutex, the second test, the sinks, the store of the flag, and the exception path.
- **MC\*** modules give names to the constants of the runs. **\*Proofs** hold theorems.
  Definitions marked as mutants are variants of the one that follows them with a
  plausible bug; `PROJECT.json` says which property each of them breaks.

## 3. Runs

Passing runs (distinct states on these bounds):

| Run | Shows | Bounds | States |
|---|---|---|---|
| piece_pool | exact count, bounded cache, no piece shared, lost or freed twice | 3 threads, 6 pieces, cache base 1, 1 bypass | 387 (symmetry) |
| buffer | exact length, no overrun, no empty piece in a chain, refinement of ByteQueue | 2 buffers, capacity 3, 6 bytes | 119,358 |
| tcp_conn | one write, one read, callbacks once, status order, output never stranded, no gap in what is sent; a close completes and nothing leaks | 2 users and callbacks, 1 send each, 1 read | 451,512 |
| tcp_conn_wire | order of what reaches the peer with chains, short writes and closes | 1 user and callbacks, 2 sends each | 825,570 |
| loop_pool | running and stopped mean what they say, done callback after all threads, loops handed out evenly and alive; with start(true) stop's assert holds and the status only moves forward; start, stop and the done callback complete | up to 3 threads, 2 rounds of getNextLoop | 123,462 |
| tcp_server | map exact, stop continued once, clean end, pool outlives connections, a stop completes | 0 or 2 pool threads, 2 connections, 2 callers | 796,459 |
| tcp_client | one attempt at a time, conn() alive, never stalled, reconnects again and again | 2 connections, 4 calls | 154,098 |
| echo | onMessage() stays on frame boundaries however reads split frames, client and server in lock step, exact connection counts, requests answered | 1 connection, 3 requests, capacity 20, reads cut at 3 and 13 bytes, 4 greetings, the server's timer | 92,400 |
| logging | sinks added once, the logger complete for whoever gets it, every call returns | 3 threads, 1 exception | 44,623 |

Why the bounds are enough for the questions asked: two users suffice for every
pairwise race on a connection, a third actor being its loop; capacity 2 or 3 with
sends that fill, merge and split pieces meets every branch of the buffer code; three
threads separate first, middle and last in the pool's counters, and holder, waiter and
late caller in logging; two connections separate "the last" from "another" in the
server's map and "old" from "new" in the client. In echo a frame has 14 or 16 bytes:
capacity 20 merges the reads of one frame into a piece and splits two frames over
two, a cut at 3 divides the header, a cut at 13 divides the body. The size of the bounds
on calls only cuts repetitions.

Deadlock is checked in the logging run, where an idle thread can always call. It is
not checked in the others: each system may come to rest (closed connection, stopped
pool, users that call nothing).

Violation runs, each about an assertion or comment of the code:

| Run | Statement | What happens |
|---|---|---|
| tcp_conn_multi_piece | `codec.h:55` | all pieces but the first of a chain are lost |
| buffer_reuse | `buffer.cpp:106` | `writePiece` counts the length of a released piece |
| echo_push_assert | `queue.h:43` | a parse that met the next frame leaves `tail_` null, and the next read replaces the bytes put back |

The models contain further behaviours at odds with an assertion or a comment, or
simply surprising, that have no run of their own:

- `tcp_conn.cpp:73` – the first write of a connection keeps no reference to it, so the
  connection may be destroyed while it is sending.
- `tcp_conn.cpp:211` – the lambda of `close()`, or the timer lambda of
  `closeWithDelay()`, arrives after an error has closed the connection. It then
  returns at the test of kDisconnected; CallbacksOnce shows that the callback is not repeated.
- `tcp_conn.cpp:36-38` – `readPiece` pops a piece it has merged without giving it back.
  In PiecePool such a piece is one that its thread holds for good.
- `tcp_conn.cpp:53` – a `write` of no bytes after a full piece leaves an empty piece.
  The buffer run writes at least one byte.
- `event_loop.cpp:54` – the lambda of `runEvery()` waits again with a copy of
  `callback` made while that was empty: the second expiry throws
  `bad_function_call` (RunEveryEmpty).
- `event_loop_thread.cpp:30` – after `start(false)` a `stop()` can overtake the start
  of a thread. StopAssert is stated for `start(true)`; CallsComplete holds for both.
- `tcp_server.cpp:51` – two callers of `stop()` can both find kRunning. The second
  `stopInLoop()` follows the null `acceptor_` (action StopInLoopNull, a fault).
- `tcp_client.cpp:44` – `disconnect()` can meet a connection that is closing.
- `tcp_client.cpp:76` – `removeConnection()` of a connection that a second one has
  replaced in `conn_`.
- `tcp_client.h:52` – `removeConnection()` resets `conn_` without the mutex that is
  "guard of connection_" (RemoveConnection has no test of `locked`).
- `buffer.h:63` – `peek()` of an integer that spans two pieces writes its second part
  beyond the integer (PeekInt32, OnMessageCrashes).
- `logging.cpp:107`, `logging.cpp:114` – `initLogging()` asserts that nobody has
  initialised yet; `lg()` in another thread may have.

Some conditions are built into passing properties because the code does not meet the
stronger statement. StopCompletes of TcpServer exempts a connection that stopInLoop()
found before connectEstablished() ran (nobody closes it), and an accept that had
completed before stopInLoop() (its doAccept() follows the null `acceptor_`, a fault).
StreamIntact holds for sends of one piece and writes that are not cut short.
StreamAligned holds until two frames meet in a buffer (`joined`: `parse()` does not
look at the length of its frame) or a header spans two pieces (`straddled`); LockStep
shows that EchoClient and EchoServer never get there. SinksOnce allows one more sink
per exception, whose caller had added them already.

## 4. Fairness

Weak fairness of loop threads and of threads inside a call (the operating system
schedules them), of timers and of aborted completions (the io_service delivers
them), for the client of connection attempts (the kernel times them out), and in
echo of the delivery of data that was sent and of the server's accept. Nothing is
assumed of peers, of other input or output, or that users call anything.

TcpServer and Echo write weak fairness of a loop as
`[]<>(~Busy(l)) \/ []<><<Step(l)>>_vars`, where Busy says when a loop is inside a
handler or has one. It is what WF says, with ENABLED spelled out: TLC evaluates it
much faster.

## 5. Proofs

TLAPS proves, for every value of the constants that satisfies the module's
`ConstAssumption`:

- **PiecePoolProofs** – TypeOK, UsingCountExact, CacheBounded, DelArrayBounded,
  NoAlias, HeapExact. The inductive invariant is their conjunction: the limit of
  the cache needs the count, and the count needs that pieces are in one place. The
  lemmas on sequences say what Append, Head, Tail and concatenation do to the set of
  elements and to injectivity.
- **TcpConnProofs** – TypeOK, OneWriteInFlight, OutputNeverStranded, ReadChain,
  CallbacksOnce, DestroyedOnlyDisconnected as invariants and StatusOrder as an action
  property. The inductive invariant `IInv` adds *Life* (how status, socket,
  callbacks, owner and `pc` move together, and that `connectEstablished` is alone in
  the queue before the first callback) and *QInv* (only a closed socket aborts
  operations; a posted send carries a piece). Without Life an aborted or late handler
  could be met in a state that never occurs. The queue lemmas say what appending a
  handler and taking the head do to "no" and "one" handler of a kind.
  Two further invariants, inductive together with `IInv`, are about bytes.
  *OInv* gives WireInOrder, for chains of any length, short writes and failures: what is
  on the wire, in flight, in the output buffer and posted to the loop is in order, each
  before the next, and the loop's own sends never wait in the queue. That
  last part is what makes the inline `sendInLoop()` of a callback safe.
  *SInv* gives StreamIntact: what was accepted is what is under way. Its two hypotheses, sends
  of one piece and whole writes, are necessary: tcp_conn_multi_piece shows the loss of
  the other pieces, and `handleWrite()` does not send the rest of a short write.
- **EventLoopThreadPoolProofs** – TypeOK, RunningMeansAllRun, StoppedMeansAllExited and
  StopAssert as invariants, StatusMonotone and NextLoopLive as action properties, for
  any number of threads. The counters are the difficulty: *CountInv* says that `started_count_` and
  `exited_count_` are the cardinalities of the sets of threads that have passed the
  fetch_add, so that the thread that reads the last value knows of all others.
  *CallerInv*, *ThreadInv*, *StatusInv* and *WaitInv* relate the positions of caller
  and threads with the three statuses. NextLoopLive needs *RoundRobin*: the loops up to
  `next_` have been given once more than the others, across the wrap to the first.
- **TcpClientProofs** – TypeOK, OneAttempt, ConnAlive, NoStall. *Attempts* says that a
  pending attempt or its result in the queue, never both and never two, exists exactly
  while `is_connecting_` is set; *Existing* that handlers name connections that were
  made; *Wanted* and *Going* follow what will call `connect()` next.
- **TcpServerProofs** – TypeOK, MapExact, SafeOnce, StoppedClean,
  PoolOutlivesConnections, for any number of loops, connections and callers of
  `stop()`. The invariant has four parts. *HandlerInv*: the handlers of a connection
  are in its own loop and fit its status. *ConnInv*: a connection is *Live* until
  `handleClose()` calls `removeConnection()` and *Gone* from then on, and a Gone one is in
  the map exactly while one removal is queued. *AcceptInv*: one accept is outstanding, in the
  kernel or in the loop. *PhaseInv*: what holds before listening, while running, while
  connections are being closed (at most one `stopInloopSafe()` is queued, behind all
  results of accepts, and only with an empty map) and after it. *EndInv* repeats what
  must survive a fault. That the accepts come first is what keeps a connection from
  being made after the pool is gone.
- **LoggingProofs** – SinksOnce, LoggerReady. The invariant says that the holder of the
  mutex is the only thread between lock and unlock (*Exclusive*), what the flag is at
  each point (*Progress*), and counts sinks against exceptions (*Counted*).
- **BufferProofs** – TypeOK, LengthExact and ChainNonEmpty as invariants, and
  ImplementsByteQueue: Buffer refines ByteQueue, for any capacity, any number of buffers
  and pieces, and any sizes of reads and writes. The inductive invariant says that `length_` is
  the length of the concatenated pieces and at most the number of bytes made. For each loop
  of `buffer.cpp` a lemma says what it does to the concatenation: skipping
  drops a prefix, moving hands over a prefix, filling appends. *Tidy* gives
  ChainNonEmpty: the only empty piece is the one `reservedPrepend()` puts into an empty
  buffer, which still has room. The theorems assume `StaleLen = {}`: a piece's length read
  after its release is still the old one (buffer_reuse shows what happens otherwise).
  ChainNonEmpty assumes that no write is empty, as section 3 explains.
- **SeqOpsProofs** – the lemmas on FlattenSeq and InOrder that TcpConnProofs and
  BufferProofs share. Facts about lists of any length are proved by induction
  on the length, in the form that a nonempty set of naturals has a least element: take the
  least length at which the fact fails. *Line*, *Known*, *Shift* and *New* are the algebra of bytes that
  move through a row of sequences, without the state of a connection.

Only model-checked:

- Liveness under fairness: CloseCompletes, NoLeak, CallsComplete, StopCompletes,
  Reconnects, Answered, CallReturns. It needs ENABLED, which TLAPS does not handle.
- Codec, and StreamAligned and LockStep of Echo. They depend on where the parser stops
  in every stream of frames, cut by reads in every way, which would need an
  induction over both the frames and the cuts. CountExact of Echo does not depend on
  it, but has no proof either.

## 6. Not modelled

- The Protocol Buffers library in `src/thirdparty` (a vendored copy, by far the most
  lines under `src/`) and the code `protoc` generated for the echo messages.
- The output of `showInfo()` and the counters it prints; failing writes in echo (TcpConn
  has them); more than one connection at a time between the example's processes. The
  specification allows several, the run has one: two make the run too long.
- Log formats, levels, and rotation of files.
- Composition of TcpServer with the full connections of TcpConn. Connections of
  TcpServer do not send. In particular the aborted write of a closed
  connection may still be queued in a pool loop when the server stops the pool; it is
  then dropped, and `tcp_conn.cpp:73` meets a connection that is still sending. The server's run is near its limit of states
  with the reduced ones.
- EventLoopThread's failing pre function and its use outside the pool.
- Exceptions of `remote_endpoint()` in the server; in TcpConn they end the process.
- Wrap-around of 64-bit ids and counters.
- Destruction of a client or server while its handlers are queued: the classes leave
  that to the caller. StoppedClean says when a server may be destroyed.
- `main()` of the examples beyond start-up, the Visual Studio projects.
