--------------------------- MODULE TcpConnProofs ---------------------------
(***************************************************************************)
(* Proofs about TcpConn, for any number of user threads, any capacity and  *)
(* any sends.  The inductive invariant IInv adds to the checked properties *)
(* how the life of the connection (ups, downs) is tied to status_, socket_ *)
(* and the queue.  OInv and SInv are about the bytes: their order, and     *)
(* that none is lost.                                                      *)
(***************************************************************************)
EXTENDS TcpConn, SeqOpsProofs

(* The state of the handler queue the invariants depend on. *)
NoWrite == Queued(WriteOp) = {}

OneWrite == \A i, j \in Queued(WriteOp) : i = j

NoRead == Queued({"read"}) = {}

OneRead == \A i, j \in Queued({"read"}) : i = j

NoEstablished == Queued({"established"}) = {}

Life ==
    /\ ups \in {0, 1} /\ downs \in {0, 1} /\ downs <= ups
    /\ socket <=> downs = 0
    /\ owner # "held" => downs = 1 /\ pc # "down" /\ status = "kDisconnected"
    /\ fault = "none" =>
         /\ ups = 1 => NoEstablished
         /\ ups = 0 => /\ status = "kDisconnected" /\ pc = "run" /\ ref = {}
                       /\ ~reading /\ writing = "none" /\ ~is_sending
                       /\ timer = "none" /\ Len(queue) = 1 /\ ~NoEstablished
                       /\ NoRead /\ NoWrite
         /\ pc = "down" <=> downs = 1 /\ status = "kDisconnecting"
         /\ downs = 1 => status # "kConnected"
         /\ ups = 1 /\ status = "kDisconnected" => downs = 1

WInv == fault = "none" =>
    /\ is_sending <=> (writing # "none" \/ ~NoWrite)
    /\ writing # "none" => NoWrite
    /\ OneWrite

RInv == fault = "none" =>
    /\ OneRead
    /\ reading => NoRead
    /\ pc \in {"up", "msg"} => ~reading /\ NoRead
    /\ ups = 1 /\ socket => reading \/ ~NoRead \/ pc \in {"up", "msg"}

(* Only a closed socket aborts its operations; a send carries a piece. *)
QInv == \A i \in 1..Len(queue) :
          /\ queue[i].ec = "aborted" => ~socket
          /\ queue[i].op = "send" => queue[i].data # << >>

IInv == TypeOK /\ QInv /\ WInv /\ RInv /\ OutputNeverStranded /\ Life

-----------------------------------------------------------------------------
(* What push and pop do to the indices of the handlers with given ops. *)
In(q, S) == {i \in 1..Len(q) : q[i].op \in S}

(* ... and the loop thread takes the first handler to run it. *)
LEMMA Pop ==
  ASSUME TypeOK, queue # << >>, queue' = Tail(queue)
  PROVE  /\ queue' \in Seq(Handler) /\ Head(queue) \in Handler
         /\ Len(queue) \in Nat /\ Len(queue') = Len(queue) - 1
         /\ Head(queue).op \in WriteOp => ~NoWrite /\ (OneWrite => NoWrite')
         /\ Head(queue).op \notin WriteOp => (NoWrite' <=> NoWrite)
         /\ OneWrite => OneWrite'
         /\ Head(queue).op = "read" => ~NoRead /\ (OneRead => NoRead')
         /\ Head(queue).op # "read" => (NoRead' <=> NoRead)
         /\ OneRead => OneRead'
         /\ Head(queue).op = "established" => ~NoEstablished
         /\ Head(queue).op # "established" => (NoEstablished' <=> NoEstablished)
         /\ Len(queue) = 1 => NoEstablished' /\ NoWrite' /\ NoRead'
  (* Popping the first handler shifts the indices, and drops its own. *)
<1>PopIn.
     ASSUME NEW q \in Seq(Handler), q # << >>, NEW S
     PROVE  /\ Head(q).op \in S => In(q, S) # {}
            /\ Head(q).op \in S /\ (\A i, j \in In(q, S) : i = j) => In(Tail(q), S) = {}
            /\ Head(q).op \notin S => (In(Tail(q), S) = {} <=> In(q, S) = {})
            /\ (\A i, j \in In(q, S) : i = j) => \A i, j \in In(Tail(q), S) : i = j
  <2> USE <1>PopIn
  <2> DEFINE r == Tail(q)
  <2>1. /\ r \in Seq(Handler) /\ Len(r) = Len(q) - 1 /\ Len(q) \in Nat \ {0}
        /\ \A i \in 1..Len(r) : r[i] = q[i + 1]
        /\ Head(q) = q[1]
    OBVIOUS
  <2> HIDE DEF r
  <2>2. \A i \in 1..Len(r) : i \in Nat /\ i + 1 \in 1..Len(q) /\ i + 1 # 1
    BY <2>1
  <2>3. \A i \in 1..Len(q) : i = 1 \/ (i - 1 \in 1..Len(r) /\ r[i - 1] = q[i])
    BY <2>1
  <2>4. \A i \in In(r, S) : i \in Nat /\ i + 1 \in In(q, S) /\ i + 1 # 1
    BY Zenon, <2>1, <2>2 DEF In
  <2>5. \A i \in In(q, S) : i \in 1..Len(q) /\ (i = 1 \/ i - 1 \in In(r, S))
    BY Zenon, <2>1, <2>3 DEF In
  <2>6. Head(q).op \in S <=> 1 \in In(q, S)
    BY <2>1 DEF In
  <2>7. (\A i, j \in In(q, S) : i = j) => \A i, j \in In(r, S) : i = j
    BY <2>4
  <2>8. QED
    BY Zenon, <2>4, <2>5, <2>6, <2>7 DEF r

<1>1. queue \in Seq(Handler)
  BY Zenon DEF TypeOK
<1>2. /\ queue' \in Seq(Handler) /\ Len(queue') = Len(queue) - 1
      /\ Len(queue) \in Nat /\ Head(queue) \in Handler
  BY <1>1
<1>3. /\ NoWrite <=> In(queue, WriteOp) = {}
      /\ NoWrite' <=> In(queue', WriteOp) = {}
      /\ OneWrite <=> \A i, j \in In(queue, WriteOp) : i = j
      /\ OneWrite' <=> \A i, j \in In(queue', WriteOp) : i = j
  BY Zenon DEF NoWrite, OneWrite, Queued, In
<1>4. /\ NoRead <=> In(queue, {"read"}) = {}
      /\ NoRead' <=> In(queue', {"read"}) = {}
      /\ OneRead <=> \A i, j \in In(queue, {"read"}) : i = j
      /\ OneRead' <=> \A i, j \in In(queue', {"read"}) : i = j
      /\ NoEstablished <=> In(queue, {"established"}) = {}
      /\ NoEstablished' <=> In(queue', {"established"}) = {}
  BY Zenon DEF NoRead, OneRead, NoEstablished, Queued, In
<1>5. ASSUME NEW S
      PROVE  /\ Head(queue).op \in S => In(queue, S) # {}
             /\ Head(queue).op \in S /\ (\A i, j \in In(queue, S) : i = j)
                  => In(queue', S) = {}
             /\ Head(queue).op \notin S => (In(queue', S) = {} <=> In(queue, S) = {})
             /\ (\A i, j \in In(queue, S) : i = j) => \A i, j \in In(queue', S) : i = j
  BY <1>1, <1>PopIn
<1>6. ASSUME NEW S, Len(queue) = 1 PROVE In(queue', S) = {}
  BY <1>2, <1>6 DEF In
<1>7. QED
  BY <1>2, <1>3, <1>4, <1>5, <1>6

(* ... and by a pop, whose handler was pushed under the same rule. *)
LEMMA PopQueue ==
  ASSUME TypeOK, QInv, queue # << >>, queue' = Tail(queue), socket' => socket
  PROVE  /\ QInv'
         /\ Head(queue).ec = "aborted" => ~socket
         /\ Head(queue).op = "send" => Head(queue).data # << >>
<1>1. /\ Len(queue) \in Nat \ {0} /\ Len(queue') = Len(queue) - 1
      /\ \A i \in 1..Len(queue') : queue'[i] = queue[i + 1]
      /\ Head(queue) = queue[1]
  BY DEF TypeOK
<1>2. \A i \in 1..Len(queue') : i + 1 \in 1..Len(queue)
  BY <1>1
<1>3. QInv'
  BY Zenon, <1>1, <1>2 DEF QInv
<1>4. QED
  BY <1>1, <1>3 DEF QInv

-----------------------------------------------------------------------------
(* readPiece() takes at least one piece and no more than there are. *)
LEMMA MergedBound ==
  ASSUME NEW out \in Seq(Piece), out # << >>
  PROVE  Merged(out) \in 1..Len(out)
<1> DEFINE T == {m \in 1..Len(out) : m = Len(out) \/ ~FitInOne(out, m + 1)}
<1>1. Len(out) \in Nat \ {0}
  OBVIOUS
<1>2. T \subseteq Nat /\ T # {}
  BY <1>1
<1>3. PICK m \in T : \A n \in T : m <= n
  BY <1>2, LeastNat, Zenon
<1>4. ASSUME NEW k \in 2..m PROVE FitInOne(out, k)
  <2>1. k - 1 \in 1..Len(out) /\ ~(m <= k - 1) /\ (k - 1) + 1 = k
    BY <1>1
  <2>2. k - 1 \notin T
    BY ZenonT(30), <1>3, <2>1
  <2>3. QED
    BY Zenon, <2>1, <2>2
<1>5. QED
  BY <1>4, Zenon DEF Merged

(* Splitting the output at the merged prefix yields pieces on both sides. *)
LEMMA SplitOutput ==
  ASSUME NEW out \in Seq(Piece), out # << >>
  PROVE  /\ SubSeq(out, 1, Merged(out)) \in Seq(Piece)
         /\ SubSeq(out, Merged(out) + 1, Len(out)) \in Seq(Piece)
<1>1. Merged(out) \in 1..Len(out) /\ Len(out) \in Nat
  BY MergedBound
<1> DEFINE m == Merged(out)
<1>2. \A i \in 1..Len(out) : out[i] \in Piece
  OBVIOUS
<1> HIDE DEF m
<1>3. m \in 1..Len(out)
  BY Zenon, <1>1 DEF m
<1>4. \A i \in 1..m : out[i] \in Piece
  BY <1>1, <1>2, <1>3
<1>5. \A i \in (m + 1)..Len(out) : out[i] \in Piece
  BY <1>1, <1>2, <1>3
<1>6. SubSeq(out, 1, m) \in Seq(Piece)
  BY <1>1, <1>3, <1>4
<1>7. SubSeq(out, m + 1, Len(out)) \in Seq(Piece)
  BY <1>1, <1>3, <1>5
<1>8. QED
  BY Zenon, <1>6, <1>7 DEF m

(* A chain made by send() is a non-empty sequence of pieces. *)
LEMMA ChainType ==
  ASSUME NEW s \in Sender, NEW k \in Nat, NEW shape \in Shapes
  PROVE  Chain(s, k, shape) \in Seq(Piece) /\ Chain(s, k, shape) # << >>
<1>1. shape \in Seq(1..Capacity) /\ shape # << >>
  BY Zenon, ConstAssumption
<1>2. Len(shape) \in Nat \ {0} /\ \A i \in 1..Len(shape) : shape[i] \in Nat
  BY <1>1, ConstAssumption
<1>3. ASSUME NEW i \in 1..Len(shape)
      PROVE  [j \in 1..shape[i] |-> <<s, k, i, j>>] \in Piece
  <2>1. \A j \in 1..shape[i] : <<s, k, i, j>> \in Byte
    BY <1>2 DEF Byte
  <2>2. shape[i] \in Nat
    BY Zenon, <1>2
  <2>3. QED
    BY <2>1, <2>2 DEF Piece
<1>4. Chain(s, k, shape) \in Seq(Piece)
  BY <1>2, <1>3 DEF Chain
<1>5. DOMAIN Chain(s, k, shape) = 1..Len(shape)
  BY Zenon DEF Chain
<1>6. Len(Chain(s, k, shape)) = Len(shape)
  BY <1>2, <1>4, <1>5
<1>7. QED
  BY Zenon, <1>2, <1>4, <1>6

(* What a write transferred is again a sequence of pieces. *)
LEMMA TransferredType ==
  ASSUME TypeOK, NEW part \in Transferred
  PROVE  part \in Seq(Piece)
<1>1. flying \in Seq(Piece)
  BY Zenon DEF TypeOK
<1>2. CASE ~ShortWrites
  BY Zenon, <1>1, <1>2 DEF Transferred
<1>3. CASE ShortWrites
  <2>1. PICK k \in 1..Len(flying) :
          \E n \in 1..Len(flying[k]) :
             part = SubSeq(flying, 1, k - 1) \o <<SubSeq(flying[k], 1, n)>>
    BY ZenonT(30), <1>3 DEF Transferred
  <2>2. PICK n \in 1..Len(flying[k]) :
             part = SubSeq(flying, 1, k - 1) \o <<SubSeq(flying[k], 1, n)>>
    BY ZenonT(30), <2>1
  <2>3. Len(flying) \in Nat /\ flying[k] \in Seq(Byte) /\ Len(flying[k]) \in Nat
    BY <1>1 DEF Piece
  <2>4. \A i \in 1..(k - 1) : flying[i] \in Piece
    BY <1>1, <2>3
  <2>5. \A i \in 1..n : flying[k][i] \in Byte
    BY <2>3
  <2>6. SubSeq(flying, 1, k - 1) \in Seq(Piece)
    BY <1>1, <2>3, <2>4
  <2>7. SubSeq(flying[k], 1, n) \in Piece
    BY <2>3, <2>5 DEF Piece
  <2>8. <<SubSeq(flying[k], 1, n)>> \in Seq(Piece)
    BY <2>7
  <2>9. QED
    BY <2>2, <2>6, <2>8
<1>4. QED
  BY Zenon, <1>2, <1>3

-----------------------------------------------------------------------------
(* The variables the parts of the handlers change, after them. *)
WriteTypes ==
    /\ is_sending \in BOOLEAN /\ output_buffer \in Seq(Piece)
    /\ writing \in WriteOp \cup {"none"} /\ flying \in Seq(Piece)
    /\ fault \in {"none", "null_socket", "freed_this", "uncaught"}

(* Starting a write: one is pending, or socket_ was null. *)
LEMMA StartWriteFacts ==
  ASSUME TypeOK, NEW out \in Seq(Piece), out # << >>, NEW how \in WriteOp,
         StartWrite(out, how)
  PROVE  /\ WriteTypes' /\ is_sending'
         /\ socket => writing' = how /\ fault' = fault
         /\ ~socket => fault' = "null_socket"
<1>1. output_buffer' \in Seq(Piece)
  BY Zenon, SplitOutput DEF StartWrite
<1>2. flying' \in Seq(Piece)
  BY ZenonT(30), SplitOutput DEF StartWrite, TypeOK
<1>3. /\ is_sending' = TRUE /\ writing' \in WriteOp \cup {"none"}
      /\ fault' \in {"none", "null_socket", "freed_this", "uncaught"}
  BY Zenon DEF StartWrite, TypeOK
<1>4. QED
  BY Zenon, <1>1, <1>2, <1>3 DEF StartWrite, WriteTypes

(* sendInLoop(): appends to the output of the write that is outstanding,   *)
(* or starts one.                                                          *)
LEMMA SendInLoopFacts ==
  ASSUME TypeOK, NEW chain \in Seq(Piece), chain # << >>, SendInLoop(chain)
  PROVE  /\ WriteTypes' /\ is_sending'
         /\ is_sending => writing' = writing /\ fault' = fault
         /\ ~is_sending /\ socket => writing' = "writeRaw" /\ fault' = fault
         /\ ~is_sending /\ ~socket => fault' = "null_socket"
<1> DEFINE out == WritePieceQueue(output_buffer, chain)
<1>1. Head(chain) \in Piece
  OBVIOUS
<1>2. out \in Seq(Piece) /\ out # << >>
  <2>1. output_buffer \in Seq(Piece)
    BY Zenon DEF TypeOK
  <2>2. /\ Append(output_buffer, Head(chain)) \in Seq(Piece)
        /\ Append(output_buffer, Head(chain)) # << >>
    <3>1. \A s \in Seq(Piece), y \in Piece : Append(s, y) \in Seq(Piece) /\ Append(s, y) # << >>
      OBVIOUS
    <3>2. QED
      BY <1>1, <2>1, <3>1, Zenon
  <2>3. QED
    BY Zenon, <2>2 DEF WritePieceQueue
<1>3. CASE is_sending
  <2>1. output_buffer' = out /\ UNCHANGED <<is_sending, writing, flying, fault>>
    BY Zenon, <1>3 DEF SendInLoop
  <2> HIDE DEF out
  <2>2. QED
    BY Zenon, <1>2, <1>3, <2>1 DEF TypeOK, WriteTypes
<1>4. CASE ~is_sending
  <2>1. StartWrite(out, "writeRaw")
    BY Zenon, <1>4 DEF SendInLoop
  <2> HIDE DEF out
  <2>2. QED
    BY Zenon, <1>2, <1>4, <2>1, StartWriteFacts DEF WriteOp
<1>5. QED
  BY Zenon, <1>3, <1>4

(* launchWrite(): clears is_sending_ only when nothing is left to send. *)
LEMMA LaunchWriteFacts ==
  ASSUME TypeOK, LaunchWrite
  PROVE  /\ WriteTypes'
         /\ output_buffer # << >> /\ socket =>
              is_sending' /\ writing' = "writeShared" /\ fault' = fault
         /\ output_buffer # << >> /\ ~socket => fault' = "null_socket"
         /\ output_buffer = << >> => /\ ~is_sending' /\ writing' = writing
                                     /\ fault' = fault /\ output_buffer' = << >>
<1>1. CASE output_buffer # << >>
  <2>1. StartWrite(output_buffer, "writeShared")
    BY Zenon, <1>1 DEF LaunchWrite
  <2>2. QED
    BY Zenon, <1>1, <2>1, StartWriteFacts DEF WriteOp, TypeOK
<1>2. CASE output_buffer = << >>
  BY ZenonT(30), <1>2 DEF LaunchWrite, TypeOK, WriteTypes
<1>3. QED
  BY Zenon, <1>1, <1>2

(* handleClose(): the first call closes the socket and makes the second    *)
(* connection_cb_ call; any later one changes nothing.                     *)
LEMMA HandleCloseFacts ==
  ASSUME IInv, fault = "none", pc = "run", ups = 1, HandleClose
  PROVE  /\ status' \in {"kDisconnecting", "kDisconnected"}
         /\ ~socket' /\ socket' \in BOOLEAN /\ downs' = 1
         /\ timer' \in {"none", "waiting", "cancelled"}
         /\ delay_close_timer' \in BOOLEAN /\ pc' \in {"run", "down"}
         /\ pc' = "down" <=> status' = "kDisconnecting"
         /\ owner # "held" => status' = "kDisconnected"
<1>1. CASE status # "kDisconnected"
  <2>1. /\ status' = "kDisconnecting" /\ delay_close_timer' = FALSE
        /\ timer' = IF delay_close_timer /\ timer = "waiting" THEN "cancelled" ELSE timer
        /\ socket' = FALSE /\ pc' = "down" /\ downs' = downs + 1
    BY Zenon, <1>1 DEF HandleClose
  <2>2. downs = 0 /\ owner = "held"
    BY Zenon, <1>1 DEF IInv, Life, TypeOK
  <2>3. timer' \in {"none", "waiting", "cancelled"}
    BY Zenon, <2>1 DEF IInv, TypeOK
  <2>4. ~socket' /\ socket' \in BOOLEAN /\ delay_close_timer' \in BOOLEAN
    BY ZenonT(30), <2>1
  <2>5. status' = "kDisconnecting" /\ pc' = "down" /\ downs' = 1
    BY <2>1, <2>2
  <2>6. QED
    BY Zenon, <2>2, <2>3, <2>4, <2>5
<1>2. CASE status = "kDisconnected"
  <2>1. UNCHANGED <<status, timer, delay_close_timer, socket, pc, downs>>
    BY Zenon, <1>2 DEF HandleClose
  <2>2. downs = 1 /\ ~socket /\ socket \in BOOLEAN
    BY Zenon, <1>2 DEF IInv, Life, TypeOK
  <2>3. QED
    BY Zenon, <1>2, <2>1, <2>2 DEF IInv, TypeOK
<1>3. QED
  BY Zenon, <1>1, <1>2

(* A handler other than connectEstablished() runs on an established        *)
(* connection.                                                             *)
LEMMA Established ==
  ASSUME IInv, NEW opset, Ready(opset)
  PROVE  /\ fault = "none" /\ pc = "run" /\ queue # << >> /\ Head(queue).op \in opset
         /\ "established" \notin opset => ups = 1
         /\ Head(queue).op = "established" => ups = 0
<1>1. /\ fault = "none" /\ pc = "run" /\ queue # << >> /\ Head(queue).op \in opset
  BY Zenon DEF Ready
<1>2. queue \in Seq(Handler)
  BY Zenon DEF IInv, TypeOK
<1>3. Len(queue) \in Nat \ {0} /\ Head(queue) = queue[1]
  BY <1>1, <1>2
<1>4. Head(queue).op = "established" => ~NoEstablished
  BY <1>3 DEF NoEstablished, Queued
<1>5. ASSUME ups = 0 PROVE Head(queue).op = "established"
  <2>1. Len(queue) = 1 /\ ~NoEstablished
    BY Zenon, <1>1, <1>5 DEF IInv, Life
  <2>2. PICK i \in 1..Len(queue) : queue[i].op = "established"
    BY Zenon, <2>1 DEF NoEstablished, Queued
  <2>3. QED
    BY <1>3, <2>1, <2>2
<1>6. QED
  BY Zenon, <1>1, <1>4, <1>5 DEF IInv, Life

-----------------------------------------------------------------------------
(* Every step of the system keeps the invariant. *)
LEMMA NextIInv == IInv /\ [Next]_vars => IInv'
  (* The same, for the handler queue of the connection: a completion, a      *)
  (* posted call or an expired timer enters it ...                           *)
<1>Push.
     ASSUME TypeOK, NEW h \in Handler, queue' = Append(queue, h)
     PROVE  /\ queue' \in Seq(Handler) /\ Len(queue') = Len(queue) + 1
            /\ h.op \notin WriteOp => (NoWrite' <=> NoWrite) /\ (OneWrite' <=> OneWrite)
            /\ h.op \in WriteOp => ~NoWrite' /\ (NoWrite => OneWrite')
            /\ h.op # "read" => (NoRead' <=> NoRead) /\ (OneRead' <=> OneRead)
            /\ h.op = "read" => ~NoRead' /\ (NoRead => OneRead')
            /\ h.op # "established" => (NoEstablished' <=> NoEstablished)
     (* Pushing a handler adds its index to those with its op, and no other. *)
  <2> USE <1>Push
  <2>PushIn.
       ASSUME NEW q \in Seq(Handler), NEW g \in Handler, NEW S
       PROVE  /\ g.op \notin S => In(Append(q, g), S) = In(q, S)
              /\ g.op \in S => /\ In(Append(q, g), S) # {}
                               /\ In(q, S) = {} => \A i, j \in In(Append(q, g), S) : i = j
    <3> USE <2>PushIn
    <3> DEFINE r == Append(q, g)
    <3>1. /\ r \in Seq(Handler) /\ Len(r) = Len(q) + 1 /\ Len(q) \in Nat
          /\ \A i \in 1..Len(q) : r[i] = q[i]
          /\ r[Len(q) + 1] = g
      OBVIOUS
    <3> HIDE DEF r
    <3>2. \A i \in 1..Len(r) : i \in 1..Len(q) \/ i = Len(q) + 1
      BY <3>1
    <3>3. Len(q) + 1 \in 1..Len(r) /\ Len(q) + 1 \notin 1..Len(q) /\ 1..Len(q) \subseteq 1..Len(r)
      BY <3>1
    <3>4. ASSUME g.op \notin S PROVE In(r, S) = In(q, S)
      BY Zenon, <3>1, <3>2, <3>3, <3>4 DEF In
    <3>5. ASSUME g.op \in S PROVE Len(q) + 1 \in In(r, S)
      BY Zenon, <3>1, <3>3, <3>5 DEF In
    <3>6. ASSUME g.op \in S, In(q, S) = {} PROVE \A i, j \in In(r, S) : i = j
      BY Zenon, <3>1, <3>2, <3>6 DEF In
    <3>7. QED
      BY Zenon, <3>4, <3>5, <3>6 DEF r

  <2>1. queue \in Seq(Handler)
    BY Zenon DEF TypeOK
  <2>2. queue' \in Seq(Handler) /\ Len(queue') = Len(queue) + 1
    BY <2>1
  <2>3. \A S : Queued(S) = In(queue, S)
    BY Zenon DEF Queued, In
  <2>4. /\ NoWrite <=> In(queue, WriteOp) = {}
        /\ NoWrite' <=> In(queue', WriteOp) = {}
        /\ OneWrite <=> \A i, j \in In(queue, WriteOp) : i = j
        /\ OneWrite' <=> \A i, j \in In(queue', WriteOp) : i = j
    BY Zenon DEF NoWrite, OneWrite, Queued, In
  <2>5. /\ NoRead <=> In(queue, {"read"}) = {}
        /\ NoRead' <=> In(queue', {"read"}) = {}
        /\ OneRead <=> \A i, j \in In(queue, {"read"}) : i = j
        /\ OneRead' <=> \A i, j \in In(queue', {"read"}) : i = j
        /\ NoEstablished <=> In(queue, {"established"}) = {}
        /\ NoEstablished' <=> In(queue', {"established"}) = {}
    BY Zenon DEF NoRead, OneRead, NoEstablished, Queued, In
  <2>6. ASSUME NEW S
        PROVE  /\ h.op \notin S => In(queue', S) = In(queue, S)
               /\ h.op \in S => /\ In(queue', S) # {}
                                /\ In(queue, S) = {} => \A i, j \in In(queue', S) : i = j
    BY <2>1, <2>PushIn
  <2>7. QED
    BY Zenon, <2>2, <2>4, <2>5, <2>6

  (* A handler that leaves the queue alone leaves these facts alone. *)
<1>Same.
     ASSUME queue' = queue
     PROVE  /\ NoWrite' <=> NoWrite
            /\ OneWrite' <=> OneWrite
            /\ NoRead' <=> NoRead
            /\ OneRead' <=> OneRead
            /\ NoEstablished' <=> NoEstablished
  <2> USE <1>Same
  <2>1. QED
    BY Zenon DEF NoWrite, OneWrite, NoRead, OneRead, NoEstablished, Queued

  (* What the queued handlers carry is kept by a push that obeys it ... *)
<1>PushQueue.
     ASSUME TypeOK, QInv, NEW h \in Handler, queue' = Append(queue, h),
            h.ec = "aborted" => ~socket, h.op = "send" => h.data # << >>,
            socket' = socket
     PROVE  QInv'
  <2> USE <1>PushQueue
  <2>1. /\ Len(queue) \in Nat /\ Len(queue') = Len(queue) + 1
        /\ \A i \in 1..Len(queue) : queue'[i] = queue[i]
        /\ queue'[Len(queue) + 1] = h
    BY DEF TypeOK
  <2>2. SUFFICES ASSUME NEW i \in 1..Len(queue')
                 PROVE  /\ queue'[i].ec = "aborted" => ~socket
                        /\ queue'[i].op = "send" => queue'[i].data # << >>
    BY Zenon DEF QInv
  <2>3. i \in 1..Len(queue) \/ i = Len(queue) + 1
    BY <2>1
  <2>4. QED
    BY Zenon, <2>1, <2>2, <2>3 DEF QInv

  (* connectEstablished(), also when it throws, keeps the invariant. *)
<1>ConnectEstablishedIInv.
     ASSUME IInv, ConnectEstablished \/ ConnectEstablishedThrows
     PROVE  IInv'
  <2> USE <1>ConnectEstablishedIInv
  <2>1. Ready({"established"}) /\ queue' = Tail(queue)
    BY Zenon DEF ConnectEstablished, ConnectEstablishedThrows, Done
  <2>2. /\ fault = "none" /\ pc = "run" /\ queue # << >>
        /\ Head(queue).op = "established" /\ ups = 0
    BY <2>1, Established
  <2>3. /\ queue' \in Seq(Handler) /\ Len(queue) = 1
        /\ NoEstablished' /\ NoWrite' /\ NoRead' /\ OneWrite' /\ OneRead'
    BY Zenon, <2>1, <2>2, Pop DEF IInv, Life, WInv, RInv
  <2>4. CASE ConnectEstablished
    <3>0. /\ status' = "kConnected" /\ pc' = "up" /\ ups' = ups + 1 /\ ref' = User
          /\ UNCHANGED <<socket, is_sending, output_buffer, delay_close_timer,
                         reading, writing, flying, timer,
                         tpc, owner, sent, wire, reads, downs, fault>>
      BY Zenon, <2>4 DEF ConnectEstablished, ops
    <3>1. TypeOK'
      BY <2>3, <3>0 DEF IInv, TypeOK
    <3>2. QInv'
      BY Zenon, <2>1, <2>2, <3>0, PopQueue DEF IInv
    <3>3. WInv' /\ RInv' /\ OutputNeverStranded' /\ Life'
      BY <2>2, <2>3, <3>0 DEF IInv, WInv, RInv, OutputNeverStranded, Life
    <3>4. QED
      BY Zenon, <3>1, <3>2, <3>3 DEF IInv
  <2>5. CASE ConnectEstablishedThrows
    <3>0. /\ status' = "kConnected" /\ fault' = "uncaught"
          /\ UNCHANGED <<socket, is_sending, output_buffer, delay_close_timer,
                         reading, writing, flying, timer, pc, ref, tpc, owner,
                         sent, wire, reads, ups, downs>>
      BY Zenon, <2>5 DEF ConnectEstablishedThrows, ops, hist
    <3>1. TypeOK'
      BY ZenonT(60), <2>3, <3>0 DEF IInv, TypeOK
    <3>2. QInv'
      BY Zenon, <2>1, <2>2, <3>0, PopQueue DEF IInv
    <3>3. WInv' /\ RInv' /\ OutputNeverStranded' /\ Life'
      BY <2>2, <2>3, <3>0, SMTT(30) DEF IInv, WInv, RInv, OutputNeverStranded, Life
    <3>4. QED
      BY Zenon, <3>1, <3>2, <3>3 DEF IInv
  <2>6. QED
    BY Zenon, <2>4, <2>5

  (* sendInLoop() run from the queue keeps the invariant. *)
<1>RunSendInLoopIInv.
     ASSUME IInv, RunSendInLoop
     PROVE  IInv'
  <2> USE <1>RunSendInLoopIInv
  <2>0. /\ Ready({"send"}) /\ queue' = Tail(queue) /\ SendInLoop(Head(queue).data)
        /\ UNCHANGED <<status, socket, delay_close_timer, reading, timer, pc,
                       ref, tpc, owner, sent, wire, reads, ups, downs>>
    BY Zenon DEF RunSendInLoop, Done, hist
  <2>1. /\ fault = "none" /\ pc = "run" /\ queue # << >>
        /\ Head(queue).op = "send" /\ ups = 1
    BY <2>0, Established
  <2>2. TypeOK /\ QInv
    BY Zenon DEF IInv
  <2>3. QInv' /\ Head(queue).data # << >>
    BY Zenon, <2>0, <2>1, <2>2, PopQueue
  <2>4. /\ queue' \in Seq(Handler) /\ Head(queue).data \in Seq(Piece)
        /\ (NoWrite' <=> NoWrite) /\ (OneWrite => OneWrite')
        /\ (NoRead' <=> NoRead) /\ (OneRead => OneRead')
        /\ (NoEstablished' <=> NoEstablished)
    BY <2>0, <2>1, <2>2, Pop, Zenon DEF WriteOp, Handler
  <2>5. /\ WriteTypes' /\ is_sending'
        /\ is_sending => writing' = writing /\ fault' = fault
        /\ ~is_sending /\ socket => writing' = "writeRaw" /\ fault' = fault
        /\ ~is_sending /\ ~socket => fault' = "null_socket"
    BY Zenon, <2>0, <2>2, <2>3, <2>4, SendInLoopFacts
  <2>6. TypeOK'
    BY <2>0, <2>2, <2>4, <2>5, ZenonT(60) DEF TypeOK, WriteTypes
  <2>7. WInv'
    BY <2>1, <2>4, <2>5, Zenon DEF IInv, WInv
  <2>8. RInv' /\ OutputNeverStranded' /\ Life'
    BY Zenon, <2>0, <2>1, <2>4, <2>5 DEF IInv, RInv, OutputNeverStranded, Life
  <2>9. QED
    BY Zenon, <2>3, <2>6, <2>7, <2>8 DEF IInv

  (* The lambdas of close() and closeWithDelay() keep the invariant. *)
<1>RunCloseIInv.
     ASSUME IInv, RunClose
     PROVE  IInv'
  <2> USE <1>RunCloseIInv
  <2>0. /\ Ready({"close", "delayedClose"}) /\ queue' = Tail(queue) /\ HandleClose
        /\ UNCHANGED <<is_sending, output_buffer, reading, writing, flying,
                       ref, tpc, owner, sent, wire, reads, ups, fault>>
    BY Zenon DEF RunClose, Done
  <2>1. /\ fault = "none" /\ pc = "run" /\ queue # << >>
        /\ Head(queue).op \in {"close", "delayedClose"} /\ ups = 1
    BY <2>0, Established
  <2>2. TypeOK /\ QInv
    BY Zenon DEF IInv
  <2>3. /\ status' \in {"kDisconnecting", "kDisconnected"}
        /\ ~socket' /\ socket' \in BOOLEAN /\ downs' = 1
        /\ timer' \in {"none", "waiting", "cancelled"}
        /\ delay_close_timer' \in BOOLEAN /\ pc' \in {"run", "down"}
        /\ pc' = "down" <=> status' = "kDisconnecting"
        /\ owner # "held" => status' = "kDisconnected"
    BY Zenon, <2>0, <2>1, HandleCloseFacts
  <2>4. QInv'
    BY Zenon, <2>0, <2>1, <2>2, <2>3, PopQueue
  <2>5. /\ queue' \in Seq(Handler)
        /\ (NoWrite' <=> NoWrite) /\ (OneWrite => OneWrite')
        /\ (NoRead' <=> NoRead) /\ (OneRead => OneRead')
        /\ (NoEstablished' <=> NoEstablished)
    BY Zenon, <2>0, <2>1, <2>2, Pop DEF WriteOp
  <2>6. TypeOK'
    BY Zenon, <2>0, <2>2, <2>3, <2>5 DEF TypeOK
  <2>7. WInv'
    BY Zenon, <2>0, <2>5 DEF IInv, WInv
  <2>8. RInv' /\ OutputNeverStranded' /\ Life'
    BY SMTT(30), <2>0, <2>1, <2>3, <2>5 DEF IInv, RInv, OutputNeverStranded, Life
  <2>9. QED
    BY Zenon, <2>4, <2>6, <2>7, <2>8 DEF IInv

  (* handleRead() up to message_cb_ keeps the invariant. *)
<1>HandleReadIInv.
     ASSUME IInv, HandleRead
     PROVE  IInv'
  <2> USE <1>HandleReadIInv
  <2>0. /\ Ready({"read"}) /\ queue' = Tail(queue) /\ pc' = "msg"
        /\ UNCHANGED <<status, socket, is_sending, output_buffer, delay_close_timer,
                       reading, writing, flying, timer, ref, tpc, owner,
                       sent, wire, reads, ups, downs, fault>>
    BY Zenon DEF HandleRead, Done, conn, ops, hist
  <2>1. /\ fault = "none" /\ pc = "run" /\ queue # << >>
        /\ Head(queue).op = "read" /\ ups = 1
    BY <2>0, Established
  <2>2. TypeOK /\ QInv
    BY Zenon DEF IInv
  <2>3. QInv'
    BY Zenon, <2>0, <2>1, <2>2, PopQueue
  <2>4. /\ queue' \in Seq(Handler) /\ ~NoRead /\ (OneRead => NoRead' /\ OneRead')
        /\ (NoWrite' <=> NoWrite) /\ (OneWrite => OneWrite')
        /\ (NoEstablished' <=> NoEstablished)
    BY <2>0, <2>1, <2>2, Pop, Zenon DEF WriteOp
  <2>5. TypeOK'
    BY <2>0, <2>2, <2>4 DEF TypeOK
  <2>6. WInv'
    BY Zenon, <2>0, <2>4 DEF IInv, WInv
  <2>7. RInv' /\ OutputNeverStranded' /\ Life'
    BY Zenon, <2>0, <2>1, <2>4 DEF IInv, RInv, OutputNeverStranded, Life
  <2>8. QED
    BY Zenon, <2>3, <2>5, <2>6, <2>7 DEF IInv

  (* handleRead() with an error keeps the invariant: a real error closes the *)
  (* connection, an abort means that it is closed.                           *)
<1>HandleReadErrorIInv.
     ASSUME IInv, HandleReadError
     PROVE  IInv'
  <2> USE <1>HandleReadErrorIInv
  <2>0. /\ Ready({"read"}) /\ queue' = Tail(queue) /\ Head(queue).ec # "ok"
        /\ IF Head(queue).ec = "error"
           THEN HandleClose
           ELSE UNCHANGED <<status, timer, delay_close_timer, socket, pc, downs>>
        /\ UNCHANGED <<is_sending, output_buffer, reading, writing, flying,
                       ref, tpc, owner, sent, wire, reads, ups, fault>>
    BY Zenon DEF HandleReadError, HandleError, Done
  <2>1. /\ fault = "none" /\ pc = "run" /\ queue # << >>
        /\ Head(queue).op = "read" /\ ups = 1
    BY <2>0, Established
  <2>2. TypeOK /\ QInv
    BY Zenon DEF IInv
  <2>3. /\ queue' \in Seq(Handler) /\ Head(queue) \in Handler
        /\ ~NoRead /\ (OneRead => NoRead' /\ OneRead')
        /\ (NoWrite' <=> NoWrite) /\ (OneWrite => OneWrite')
        /\ (NoEstablished' <=> NoEstablished)
    BY Zenon, <2>0, <2>1, <2>2, Pop DEF WriteOp
  <2>4. CASE Head(queue).ec = "error"
    <3>1. /\ status' \in {"kDisconnecting", "kDisconnected"}
          /\ ~socket' /\ socket' \in BOOLEAN /\ downs' = 1
          /\ timer' \in {"none", "waiting", "cancelled"}
          /\ delay_close_timer' \in BOOLEAN /\ pc' \in {"run", "down"}
          /\ pc' = "down" <=> status' = "kDisconnecting"
          /\ owner # "held" => status' = "kDisconnected"
      BY Zenon, <2>0, <2>1, <2>4, HandleCloseFacts
    <3>2. QInv'
      BY Zenon, <2>0, <2>1, <2>2, <3>1, PopQueue
    <3>3. TypeOK'
      BY <2>0, <2>2, <2>3, <3>1, Zenon DEF TypeOK
    <3>4. WInv'
      BY <2>0, <2>3, Zenon DEF IInv, WInv
    <3>5. RInv' /\ OutputNeverStranded' /\ Life'
      BY SMTT(30), <2>0, <2>1, <2>3, <3>1 DEF IInv, RInv, OutputNeverStranded, Life
    <3>6. QED
      BY Zenon, <3>2, <3>3, <3>4, <3>5 DEF IInv
  <2>5. CASE Head(queue).ec = "aborted"
    <3>1. UNCHANGED <<status, timer, delay_close_timer, socket, pc, downs>>
      BY Zenon, <2>0, <2>5
    <3>2. QInv' /\ ~socket
      BY Zenon, <2>0, <2>1, <2>2, <2>5, <3>1, PopQueue
    <3>3. TypeOK'
      BY SMTT(30), <2>0, <2>2, <2>3, <3>1 DEF TypeOK
    <3>4. WInv'
      BY <2>0, <2>3, Zenon DEF IInv, WInv
    <3>5. RInv' /\ OutputNeverStranded' /\ Life'
      BY <2>0, <2>1, <2>3, <3>1, <3>2, Zenon DEF IInv, RInv, OutputNeverStranded, Life
    <3>6. QED
      BY Zenon, <3>2, <3>3, <3>4, <3>5 DEF IInv
  <2>6. QED
    BY Zenon, <2>0, <2>3, <2>4, <2>5 DEF Handler

  (* handleWrite() without error keeps the invariant. *)
<1>HandleWriteIInv.
     ASSUME IInv, HandleWrite
     PROVE  IInv'
  <2> USE <1>HandleWriteIInv
  <2>0. /\ Ready(WriteOp) /\ queue' = Tail(queue) /\ LaunchWrite
        /\ UNCHANGED <<status, socket, delay_close_timer, reading, timer, pc,
                       ref, tpc, owner, sent, wire, reads, ups, downs>>
    BY Zenon DEF HandleWrite, Done, hist
  <2>1. /\ fault = "none" /\ pc = "run" /\ queue # << >>
        /\ Head(queue).op \in WriteOp /\ ups = 1
    BY <2>0, Established DEF WriteOp
  <2>2. TypeOK /\ QInv
    BY Zenon DEF IInv
  <2>3. QInv'
    BY Zenon, <2>0, <2>1, <2>2, PopQueue
  <2>4. /\ queue' \in Seq(Handler)
        /\ ~NoWrite /\ (OneWrite => NoWrite' /\ OneWrite')
        /\ (NoRead' <=> NoRead) /\ (OneRead => OneRead')
        /\ (NoEstablished' <=> NoEstablished)
    BY Zenon, <2>0, <2>1, <2>2, Pop DEF WriteOp
  <2>5. /\ WriteTypes'
        /\ output_buffer # << >> /\ socket =>
             is_sending' /\ writing' = "writeShared" /\ fault' = fault
        /\ output_buffer # << >> /\ ~socket => fault' = "null_socket"
        /\ output_buffer = << >> => /\ ~is_sending' /\ writing' = writing
                                    /\ fault' = fault /\ output_buffer' = << >>
    BY Zenon, <2>0, <2>2, LaunchWriteFacts
  <2>6. TypeOK'
    BY ZenonT(60), <2>0, <2>2, <2>4, <2>5 DEF TypeOK, WriteTypes
  <2>7. WInv'
    BY <2>1, <2>4, <2>5, Zenon DEF IInv, WInv
  <2>8. RInv' /\ OutputNeverStranded' /\ Life'
    BY <2>0, <2>1, <2>4, <2>5, Zenon DEF IInv, RInv, OutputNeverStranded, Life
  <2>9. QED
    BY Zenon, <2>3, <2>6, <2>7, <2>8 DEF IInv

  (* handleWrite() with an error keeps the invariant; output that is left    *)
  (* over belongs to a closed connection.                                    *)
<1>HandleWriteErrorIInv.
     ASSUME IInv, HandleWriteError
     PROVE  IInv'
  <2> USE <1>HandleWriteErrorIInv
  <2>0. /\ Ready(WriteOp) /\ queue' = Tail(queue) /\ Head(queue).ec # "ok"
        /\ is_sending' = FALSE
        /\ IF Head(queue).ec = "error"
           THEN HandleClose
           ELSE UNCHANGED <<status, timer, delay_close_timer, socket, pc, downs>>
        /\ UNCHANGED <<output_buffer, reading, writing, flying,
                       ref, tpc, owner, sent, wire, reads, ups, fault>>
    BY Zenon DEF HandleWriteError, HandleError, Done
  <2>1. /\ fault = "none" /\ pc = "run" /\ queue # << >>
        /\ Head(queue).op \in WriteOp /\ ups = 1
    BY <2>0, Established DEF WriteOp
  <2>2. TypeOK /\ QInv
    BY Zenon DEF IInv
  <2>3. /\ queue' \in Seq(Handler) /\ Head(queue) \in Handler
        /\ ~NoWrite /\ (OneWrite => NoWrite' /\ OneWrite')
        /\ (NoRead' <=> NoRead) /\ (OneRead => OneRead')
        /\ (NoEstablished' <=> NoEstablished)
    BY Zenon, <2>0, <2>1, <2>2, Pop DEF WriteOp
  <2>4. /\ is_sending' \in BOOLEAN
        /\ UNCHANGED <<output_buffer, reading, writing, flying,
                       ref, tpc, owner, sent, wire, reads, ups, fault>>
    BY ZenonT(30), <2>0
  <2>5. WInv'
    BY Zenon, <2>0, <2>1, <2>3 DEF IInv, WInv
  <2>6. CASE Head(queue).ec = "error"
    <3>1. /\ status' \in {"kDisconnecting", "kDisconnected"}
          /\ ~socket' /\ socket' \in BOOLEAN /\ downs' = 1
          /\ timer' \in {"none", "waiting", "cancelled"}
          /\ delay_close_timer' \in BOOLEAN /\ pc' \in {"run", "down"}
          /\ pc' = "down" <=> status' = "kDisconnecting"
          /\ owner # "held" => status' = "kDisconnected"
      BY Zenon, <2>0, <2>1, <2>6, HandleCloseFacts
    <3>2. QInv'
      BY Zenon, <2>0, <2>1, <2>2, <3>1, PopQueue
    <3>3. TypeOK'
      BY <2>4, <2>2, <2>3, <3>1, Zenon DEF TypeOK
    <3>4. RInv' /\ OutputNeverStranded' /\ Life'
      BY SMTT(30), <2>0, <2>1, <2>3, <3>1 DEF IInv, RInv, OutputNeverStranded, Life
    <3>5. QED
      BY Zenon, <2>5, <3>2, <3>3, <3>4 DEF IInv
  <2>7. CASE Head(queue).ec = "aborted"
    <3>1. UNCHANGED <<status, timer, delay_close_timer, socket, pc, downs>>
      BY Zenon, <2>0, <2>7
    <3>2. QInv' /\ ~socket
      BY Zenon, <2>0, <2>1, <2>2, <2>7, <3>1, PopQueue
    <3>3. TypeOK'
      BY <2>4, <2>2, <2>3, <3>1, SMTT(30) DEF TypeOK
    <3>4. RInv' /\ OutputNeverStranded' /\ Life'
      BY <2>0, <2>1, <2>3, <3>1, <3>2, Zenon DEF IInv, RInv, OutputNeverStranded, Life
    <3>5. QED
      BY Zenon, <2>5, <3>2, <3>3, <3>4 DEF IInv
  <2>8. QED
    BY Zenon, <2>0, <2>3, <2>6, <2>7 DEF Handler

  (* handleWrite() on a destroyed connection stops the process. *)
<1>HandleWriteFreedIInv.
     ASSUME IInv, HandleWriteFreed
     PROVE  IInv'
  <2> USE <1>HandleWriteFreedIInv
  <2>0. /\ Ready(WriteOp) /\ queue' = Tail(queue) /\ fault' = "freed_this"
        /\ UNCHANGED <<status, socket, is_sending, output_buffer, delay_close_timer,
                       reading, writing, flying, timer, pc, ref, tpc, owner,
                       sent, wire, reads, ups, downs>>
    BY Zenon DEF HandleWriteFreed, Done, conn, ops, hist
  <2>1. queue # << >> /\ TypeOK /\ QInv
    BY Zenon, <2>0 DEF Ready, IInv
  <2>2. QInv' /\ queue' \in Seq(Handler)
    BY Zenon, <2>0, <2>1, PopQueue, Pop
  <2>3. TypeOK'
    BY <2>0, <2>1, <2>2, SMTT(30) DEF TypeOK
  <2>4. WInv' /\ RInv' /\ OutputNeverStranded' /\ Life'
    BY Zenon, <2>0 DEF IInv, WInv, RInv, OutputNeverStranded, Life
  <2>5. QED
    BY <2>2, <2>3, <2>4, Zenon DEF IInv

  (* The return of a callback, the end of handleClose() and the owner's      *)
  (* release keep the invariant; so does closeWithDelay() in a callback.     *)
<1>QuietLoopIInv.
     ASSUME IInv,
            CallbackReturns \/ FinishClose \/ OwnerReleases \/ CloseWithDelayFromCallback
     PROVE  IInv'
  <2> USE <1>QuietLoopIInv
  <2>1. fault = "none" /\ queue' = queue /\ TypeOK /\ QInv
    BY Zenon DEF CallbackReturns, FinishClose, OwnerReleases, CloseWithDelayFromCallback,
           InCallback, IInv
  <2>2. /\ (NoWrite' <=> NoWrite) /\ (OneWrite' <=> OneWrite)
        /\ (NoRead' <=> NoRead) /\ (OneRead' <=> OneRead)
        /\ (NoEstablished' <=> NoEstablished)
    BY Zenon, <2>1, <1>Same
  <2>3. CASE CallbackReturns
    <3>0. /\ pc \in {"up", "msg"} /\ pc' = "run"
          /\ socket => reading' = TRUE /\ fault' = fault
          /\ ~socket => fault' = "null_socket" /\ reading' = reading
          /\ UNCHANGED <<status, socket, is_sending, output_buffer, delay_close_timer,
                         writing, flying, timer, ref, tpc, owner,
                         sent, wire, reads, ups, downs>>
      BY Zenon, <2>3 DEF CallbackReturns, LaunchRead, conn, hist
    <3>1. reading' \in BOOLEAN /\ fault' \in {"none", "null_socket"}
      BY ZenonT(30), <2>1, <3>0 DEF TypeOK
    <3>2. TypeOK' /\ QInv'
      BY ZenonT(30), <2>1, <3>0, <3>1 DEF TypeOK, QInv
    <3>3. WInv' /\ OutputNeverStranded'
      BY <2>1, <2>2, <3>0, <3>1, Zenon DEF IInv, WInv, OutputNeverStranded
    <3>4. RInv' /\ Life'
      BY Zenon, <2>1, <2>2, <3>0, <3>1 DEF IInv, RInv, Life
    <3>5. QED
      BY Zenon, <3>2, <3>3, <3>4 DEF IInv
  <2>4. CASE FinishClose
    <3>0. /\ pc = "down" /\ owner' = "releasing" /\ status' = "kDisconnected" /\ pc' = "run"
          /\ UNCHANGED <<socket, is_sending, output_buffer, delay_close_timer,
                         reading, writing, flying, timer, ref, tpc,
                         sent, wire, reads, ups, downs, fault>>
      BY Zenon, <2>4 DEF FinishClose, ops, hist
    <3>1. TypeOK' /\ QInv'
      BY Zenon, <2>1, <3>0 DEF TypeOK, QInv
    <3>2. WInv' /\ RInv' /\ OutputNeverStranded' /\ Life'
      BY Zenon, <2>1, <2>2, <3>0 DEF IInv, WInv, RInv, OutputNeverStranded, Life
    <3>3. QED
      BY Zenon, <3>1, <3>2 DEF IInv
  <2>5. CASE OwnerReleases
    <3>0. /\ owner = "releasing" /\ owner' = "released"
          /\ UNCHANGED <<status, socket, is_sending, output_buffer, delay_close_timer,
                         reading, writing, flying, timer, pc, ref, tpc,
                         sent, wire, reads, ups, downs, fault>>
      BY <2>5, Zenon DEF OwnerReleases, conn, ops, hist
    <3>1. TypeOK' /\ QInv'
      BY <2>1, <3>0, SMTT(30) DEF TypeOK, QInv
    <3>2. WInv' /\ RInv' /\ OutputNeverStranded' /\ Life'
      BY Zenon, <2>1, <2>2, <3>0 DEF IInv, WInv, RInv, OutputNeverStranded, Life
    <3>3. QED
      BY Zenon, <3>1, <3>2 DEF IInv
  <2>6. CASE CloseWithDelayFromCallback
    <3>0. /\ pc \in {"up", "msg"} /\ status = "kConnected" /\ status' = "kDisconnecting"
          /\ timer' = "waiting" /\ delay_close_timer' = TRUE
          /\ UNCHANGED <<socket, is_sending, output_buffer, pc, reading,
                         writing, flying, ref, tpc, owner,
                         sent, wire, reads, ups, downs, fault>>
      BY <2>6, Zenon DEF CloseWithDelayFromCallback, InCallback, hist
    <3>1. TypeOK' /\ QInv'
      BY Zenon, <2>1, <3>0 DEF TypeOK, QInv
    <3>2. WInv' /\ RInv' /\ OutputNeverStranded' /\ Life'
      BY Zenon, <2>1, <2>2, <3>0 DEF IInv, WInv, RInv, OutputNeverStranded, Life
    <3>3. QED
      BY Zenon, <3>1, <3>2 DEF IInv
  <2>7. QED
    BY Zenon, <2>3, <2>4, <2>5, <2>6

  (* send() in a callback runs sendInLoop() at once, and keeps the invariant. *)
<1>SendFromCallbackIInv.
     ASSUME IInv, NEW shape \in Shapes, SendFromCallback(shape)
     PROVE  IInv'
  <2> USE <1>SendFromCallbackIInv
  <2> DEFINE chain == Chain(Loop, Len(sent[Loop]) + 1, shape)
  <2>0. /\ fault = "none" /\ pc \in {"up", "msg"} /\ status = "kConnected"
        /\ sent' = [sent EXCEPT ![Loop] = Append(@, shape)] /\ SendInLoop(chain)
        /\ UNCHANGED <<status, socket, delay_close_timer, queue, pc, reading, timer,
                       ref, tpc, owner, wire, reads, ups, downs>>
    BY Zenon DEF SendFromCallback, InCallback
  <2>1. TypeOK /\ QInv /\ Loop \in Sender
    BY Zenon DEF IInv, Sender
  <2>2. sent[Loop] \in Seq(Shapes) /\ Len(sent[Loop]) + 1 \in Nat
    BY <2>1 DEF TypeOK
  <2>3. chain \in Seq(Piece) /\ chain # << >>
    BY Zenon, <2>1, <2>2, ChainType
  <2> HIDE DEF chain
  <2>4. /\ WriteTypes' /\ is_sending'
        /\ is_sending => writing' = writing /\ fault' = fault
        /\ ~is_sending /\ socket => writing' = "writeRaw" /\ fault' = fault
        /\ ~is_sending /\ ~socket => fault' = "null_socket"
    BY Zenon, <2>0, <2>1, <2>3, SendInLoopFacts
  <2>5. /\ (NoWrite' <=> NoWrite) /\ (OneWrite' <=> OneWrite)
        /\ (NoRead' <=> NoRead) /\ (OneRead' <=> OneRead)
        /\ (NoEstablished' <=> NoEstablished)
    BY Zenon, <2>0, <1>Same
  <2>6. sent' \in [Sender -> Seq(Shapes)]
    BY <2>0, <2>1, <2>2 DEF TypeOK
  <2>7. TypeOK' /\ QInv'
    BY Zenon, <2>0, <2>1, <2>4, <2>6 DEF TypeOK, WriteTypes, QInv
  <2>8. WInv'
    BY <2>0, <2>4, <2>5, Zenon DEF IInv, WInv
  <2>9. RInv' /\ OutputNeverStranded' /\ Life'
    BY <2>0, <2>4, <2>5, Zenon DEF IInv, RInv, OutputNeverStranded, Life
  <2>10. QED
    BY Zenon, <2>7, <2>8, <2>9 DEF IInv

  (* Posting a send or a close keeps the invariant, whatever the connection  *)
  (* has become since status_ was tested.                                    *)
<1>PostIInv.
     ASSUME IInv, fault = "none", ups = 1, NEW h \in Handler, queue' = Append(queue, h),
            h.op \in {"send", "close", "delayedClose"}, h.ec = "ok",
            h.op = "send" => h.data # << >>,
            TypeOK', status' = status \/ (status = "kConnected" /\ status' = "kDisconnecting"),
            UNCHANGED <<socket, is_sending, output_buffer, pc, reading, writing, flying,
                        ref, owner, ups, downs, fault>>
     PROVE  IInv'
  <2> USE <1>PostIInv
  <2>1. TypeOK /\ QInv
    BY Zenon DEF IInv
  <2>2. /\ (NoWrite' <=> NoWrite) /\ (OneWrite' <=> OneWrite)
        /\ (NoRead' <=> NoRead) /\ (OneRead' <=> OneRead)
        /\ (NoEstablished' <=> NoEstablished)
    BY Zenon, <2>1, <1>Push DEF WriteOp
  <2>3. QInv'
    BY Zenon, <2>1, <1>PushQueue
  <2>4. WInv' /\ RInv' /\ OutputNeverStranded'
    BY Zenon, <2>2 DEF IInv, WInv, RInv, OutputNeverStranded
  <2>5. Life'
    BY Zenon, <2>2 DEF IInv, Life
  <2>6. QED
    BY Zenon, <2>3, <2>4, <2>5 DEF IInv

  (* close() in a callback keeps the invariant. *)
<1>CloseFromCallbackIInv.
     ASSUME IInv, CloseFromCallback
     PROVE  IInv'
  <2> USE <1>CloseFromCallbackIInv
  <2> DEFINE h == H("close", "ok", << >>)
  <2>0. /\ fault = "none" /\ pc \in {"up", "msg"} /\ status = "kConnected"
        /\ status' = "kDisconnecting" /\ queue' = Append(queue, h)
        /\ UNCHANGED <<socket, is_sending, output_buffer, delay_close_timer, pc,
                       reading, writing, flying, timer, ref, tpc, owner,
                       sent, wire, reads, ups, downs, fault>>
    BY Zenon DEF CloseFromCallback, InCallback, ops, hist
  <2>1. h \in Handler /\ h.op = "close" /\ h.ec = "ok"
    BY DEF H, Handler, Op
  <2> HIDE DEF h
  <2>2. ups = 1 /\ TypeOK
    BY Zenon, <2>0 DEF IInv, Life
  <2>3. queue' \in Seq(Handler)
    BY Zenon, <2>0, <2>1, <2>2, <1>Push
  <2>4. TypeOK'
    BY <2>0, <2>2, <2>3, ZenonT(60) DEF TypeOK
  <2>5. QED
    BY Zenon, <2>0, <2>1, <2>2, <2>4, <1>PostIInv

  (* The expiry or cancellation of the delayed close keeps the invariant. *)
<1>TimerFiresIInv.
     ASSUME IInv, TimerFires
     PROVE  IInv'
  <2> USE <1>TimerFiresIInv
  <2> DEFINE h == H("delayedClose", "ok", << >>)
  <2>0. /\ fault = "none" /\ timer # "none" /\ timer' = "none" /\ queue' = Append(queue, h)
        /\ UNCHANGED <<status, socket, is_sending, output_buffer, delay_close_timer, pc,
                       reading, writing, flying, ref, tpc, owner,
                       sent, wire, reads, ups, downs, fault>>
    BY Zenon DEF TimerFires, conn, hist
  <2>1. h \in Handler /\ h.op = "delayedClose" /\ h.ec = "ok"
    BY DEF H, Handler, Op
  <2> HIDE DEF h
  <2>2. ups = 1 /\ TypeOK
    BY Zenon, <2>0 DEF IInv, Life
  <2>3. queue' \in Seq(Handler)
    BY Zenon, <2>0, <2>1, <2>2, <1>Push
  <2>4. TypeOK'
    BY ZenonT(60), <2>0, <2>2, <2>3 DEF TypeOK
  <2>5. QED
    BY Zenon, <2>0, <2>1, <2>2, <2>4, <1>PostIInv

  (* A step of a user thread keeps the invariant. *)
<1>UserStepIInv.
     ASSUME IInv, NEW u \in User, UserStep(u)
     PROVE  IInv'
  <2> USE <1>UserStepIInv
  <2>1. fault = "none" /\ u \in ref
    BY ZenonT(30) DEF UserStep, UserFinishes, Send, Close, SendPosts, ClosePosts, RunAfter,
           AssignTimer, DropRef, At
  <2>2. ups = 1 /\ TypeOK /\ QInv
    BY Zenon, <2>1 DEF IInv, Life
  <2>3. ASSUME NEW shape \in Shapes, SendPosts(u, shape) PROVE IInv'
    <3> DEFINE chain == Chain(u, Len(sent[u]) + 1, shape)
               h == H("send", "ok", chain)
    <3>0. /\ tpc' = [tpc EXCEPT ![u] = "idle"]
          /\ sent' = [sent EXCEPT ![u] = Append(@, shape)] /\ queue' = Append(queue, h)
          /\ UNCHANGED <<status, socket, is_sending, output_buffer, delay_close_timer,
                         pc, reading, writing, flying, timer, ref, owner,
                         wire, reads, ups, downs, fault>>
      BY <2>3, Zenon DEF SendPosts, Goto, conn, ops
    <3>1. u \in Sender /\ sent[u] \in Seq(Shapes) /\ Len(sent[u]) + 1 \in Nat
      BY <2>2 DEF TypeOK, Sender
    <3>2. chain \in Seq(Piece) /\ chain # << >>
      BY Zenon, <3>1, ChainType
    <3> HIDE DEF chain
    <3>3. h \in Handler /\ h.op = "send" /\ h.ec = "ok" /\ h.data # << >>
      BY ZenonT(30), <3>2 DEF H, Handler, Op
    <3> HIDE DEF h
    <3>4. sent' \in [Sender -> Seq(Shapes)]
      <4>1. sent \in [Sender -> Seq(Shapes)]
        BY Zenon, <2>2 DEF TypeOK
      <4>2. QED
        BY <2>2, <3>0, <3>1, <4>1
    <3>5. queue' \in Seq(Handler)
      BY ZenonT(30), <2>2, <3>0, <3>3, <1>Push
    <3>6. TypeOK'
      BY <2>2, <3>0, <3>4, <3>5, SMTT(30) DEF TypeOK
    <3>7. QED
      BY ZenonT(30), <2>1, <2>2, <3>0, <3>3, <3>6, <1>PostIInv
  <2>4. ASSUME ClosePosts(u) PROVE IInv'
    <3> DEFINE h == H("close", "ok", << >>)
    <3>0. /\ tpc' = [tpc EXCEPT ![u] = "idle"] /\ queue' = Append(queue, h)
          /\ UNCHANGED <<status, socket, is_sending, output_buffer, delay_close_timer,
                         pc, reading, writing, flying, timer, ref, owner,
                         sent, wire, reads, ups, downs, fault>>
      BY <2>4, Zenon DEF ClosePosts, Goto, conn, ops, hist
    <3>1. h \in Handler /\ h.op = "close" /\ h.ec = "ok"
      BY SMTT(30) DEF H, Handler, Op
    <3> HIDE DEF h
    <3>2. queue' \in Seq(Handler)
      BY Zenon, <2>2, <3>0, <3>1, <1>Push
    <3>3. TypeOK'
      BY SMTT(30), <2>2, <3>0, <3>2 DEF TypeOK
    <3>4. QED
      BY ZenonT(30), <2>1, <2>2, <3>0, <3>1, <3>3, <1>PostIInv
  <2>5. ASSUME Send(u) \/ Close(u, "close") \/ Close(u, "delay") \/ RunAfter(u)
                 \/ AssignTimer(u) \/ DropRef(u)
        PROVE  IInv'
    <3>0. /\ status' = status \/ (status = "kConnected" /\ status' = "kDisconnecting")
          /\ tpc' = tpc \/ \E l \in {"idle", "send", "close", "delay", "assign"} :
                               tpc' = [tpc EXCEPT ![u] = l]
          /\ timer' = timer \/ timer' = "waiting"
          /\ delay_close_timer' = delay_close_timer \/ delay_close_timer' = TRUE
          /\ ref' = ref \/ ref' = ref \ {u}
          /\ UNCHANGED <<socket, is_sending, output_buffer, queue, pc, reading, writing,
                         flying, owner, sent, wire, reads, ups, downs, fault>>
      BY Zenon, <2>5 DEF Send, Close, RunAfter, AssignTimer, DropRef, At, Goto, conn, ops, hist
    <3>1. /\ (NoWrite' <=> NoWrite) /\ (OneWrite' <=> OneWrite)
          /\ (NoRead' <=> NoRead) /\ (OneRead' <=> OneRead)
          /\ (NoEstablished' <=> NoEstablished)
      BY Zenon, <3>0, <1>Same
    <3>2. tpc' \in [User -> {"idle", "send", "close", "delay", "assign"}]
      BY ZenonT(30), <2>2, <3>0 DEF TypeOK
    <3>3. delay_close_timer' \in BOOLEAN
      BY ZenonT(30), <2>2, <3>0 DEF TypeOK
    <3>4. TypeOK' /\ QInv'
      BY SMTT(30), <2>2, <3>0, <3>2, <3>3 DEF TypeOK, QInv
    <3>5. WInv' /\ RInv' /\ OutputNeverStranded'
      BY Zenon, <3>0, <3>1 DEF IInv, WInv, RInv, OutputNeverStranded
    <3>6. Life'
      BY Zenon, <2>1, <2>2, <3>0, <3>1 DEF IInv, Life
    <3>7. QED
      BY <3>4, <3>5, <3>6, Zenon DEF IInv
  <2>6. QED
    BY Zenon, <2>3, <2>4, <2>5 DEF UserStep, UserFinishes

  (* The completion of a read keeps the invariant. *)
<1>CompleteReadIInv.
     ASSUME IInv, NEW ec \in {"ok", "error", "aborted"}, CompleteRead(ec)
     PROVE  IInv'
  <2> USE <1>CompleteReadIInv
  <2> DEFINE h == H("read", ec, << >>)
  <2>0. /\ fault = "none" /\ reading /\ reading' = FALSE /\ queue' = Append(queue, h)
        /\ ec = "aborted" => ~socket
        /\ ec = "ok" => reads < MaxReads
        /\ reads' = IF ec = "ok" THEN reads + 1 ELSE reads
        /\ UNCHANGED <<status, socket, is_sending, output_buffer, delay_close_timer, pc,
                       writing, flying, timer, ref, tpc, owner,
                       sent, wire, ups, downs, fault>>
    BY Zenon DEF CompleteRead, conn
  <2>1. h \in Handler /\ h.op = "read" /\ h.ec = ec
    BY SMTT(30) DEF H, Handler, Op
  <2> HIDE DEF h
  <2>2. ups = 1 /\ TypeOK /\ QInv
    BY Zenon, <2>0 DEF IInv, Life
  <2>3. /\ queue' \in Seq(Handler) /\ ~NoRead' /\ (NoRead => OneRead')
        /\ (NoWrite' <=> NoWrite) /\ (OneWrite' <=> OneWrite)
        /\ (NoEstablished' <=> NoEstablished)
    BY Zenon, <2>0, <2>1, <2>2, <1>Push DEF WriteOp
  <2>4. QInv'
    BY Zenon, <2>0, <2>1, <2>2, <1>PushQueue
  <2>5. reads' \in 0..MaxReads
    BY SMTT(30), <2>0, <2>2, ConstAssumption DEF TypeOK
  <2>6. TypeOK'
    <3>1. /\ reading' \in BOOLEAN
          /\ UNCHANGED <<status, socket, is_sending, output_buffer, delay_close_timer, pc,
                         writing, flying, timer, ref, tpc, owner,
                         sent, wire, ups, downs, fault>>
      BY ZenonT(30), <2>0
    <3>2. QED
      BY SMTT(30), <2>2, <2>3, <2>5, <3>1 DEF TypeOK
  <2>7. WInv'
    BY <2>0, <2>3, Zenon DEF IInv, WInv
  <2>8. RInv' /\ OutputNeverStranded'
    BY Zenon, <2>0, <2>3 DEF IInv, RInv, OutputNeverStranded
  <2>9. Life'
    BY Zenon, <2>0, <2>2, <2>3 DEF IInv, Life
  <2>10. QED
    BY Zenon, <2>4, <2>6, <2>7, <2>8, <2>9 DEF IInv

  (* The completion of a write keeps the invariant. *)
<1>CompleteWriteIInv.
     ASSUME IInv, NEW ec \in {"ok", "error", "aborted"}, CompleteWrite(ec)
     PROVE  IInv'
  <2> USE <1>CompleteWriteIInv
  <2> DEFINE h == H(writing, ec, << >>)
  <2>0. /\ fault = "none" /\ writing # "none" /\ writing' = "none" /\ flying' = << >>
        /\ ec = "aborted" => ~socket
        /\ queue' = Append(queue, h)
        /\ wire' = wire \/ \E part \in Transferred : wire' = wire \o part
        /\ UNCHANGED <<status, socket, is_sending, output_buffer, delay_close_timer, pc,
                       reading, timer, ref, tpc, owner, sent, reads, ups, downs, fault>>
    BY Zenon DEF CompleteWrite, conn
  <2>1. ups = 1 /\ TypeOK /\ QInv /\ writing \in WriteOp
    BY Zenon, <2>0 DEF IInv, Life, TypeOK
  <2>2. h \in Handler /\ h.op \in WriteOp /\ h.ec = ec
    BY <2>1 DEF H, Handler, Op
  <2> HIDE DEF h
  <2>3. /\ queue' \in Seq(Handler) /\ ~NoWrite' /\ (NoWrite => OneWrite')
        /\ (NoRead' <=> NoRead) /\ (OneRead' <=> OneRead)
        /\ (NoEstablished' <=> NoEstablished)
    BY Zenon, <2>0, <2>1, <2>2, <1>Push DEF WriteOp
  <2>4. QInv'
    BY ZenonT(30), <2>0, <2>1, <2>2, <1>PushQueue DEF WriteOp
  <2>5. wire' \in Seq(Piece)
    <3>1. wire \in Seq(Piece)
      BY <2>1, Zenon DEF TypeOK
    <3>2. ASSUME NEW part \in Transferred PROVE wire \o part \in Seq(Piece)
      <4>1. part \in Seq(Piece)
        BY Zenon, <2>1, TransferredType
      <4>2. QED
        BY <3>1, <4>1
    <3>3. QED
      BY ZenonT(30), <2>0, <3>1, <3>2
  <2>6. TypeOK'
    BY SMTT(30), <2>0, <2>1, <2>3, <2>5 DEF TypeOK
  <2>7. WInv'
    BY Zenon, <2>0, <2>3 DEF IInv, WInv
  <2>8. RInv' /\ OutputNeverStranded'
    BY Zenon, <2>0, <2>3 DEF IInv, RInv, OutputNeverStranded
  <2>9. Life'
    BY Zenon, <2>0, <2>1, <2>3 DEF IInv, Life
  <2>10. QED
    BY Zenon, <2>4, <2>6, <2>7, <2>8, <2>9 DEF IInv

<1> SUFFICES ASSUME IInv, [Next]_vars PROVE IInv'
  BY Zenon
<1>1. CASE LoopStep
  BY Zenon, <1>1, <1>ConnectEstablishedIInv, <1>RunSendInLoopIInv, <1>RunCloseIInv, <1>HandleReadIInv,
     <1>HandleReadErrorIInv, <1>HandleWriteIInv, <1>HandleWriteErrorIInv, <1>HandleWriteFreedIInv,
     <1>QuietLoopIInv DEF LoopStep
<1>2. CASE CallbackStep
  BY <1>2, <1>SendFromCallbackIInv, <1>CloseFromCallbackIInv, <1>QuietLoopIInv, Zenon DEF CallbackStep
<1>3. CASE \E u \in User : UserStep(u)
  BY Zenon, <1>3, <1>UserStepIInv
<1>4. CASE IoStep
  BY Zenon, <1>4, <1>CompleteReadIInv, <1>CompleteWriteIInv, <1>TimerFiresIInv DEF IoStep
<1>5. CASE OwnerReleases
  BY Zenon, <1>5, <1>QuietLoopIInv
<1>6. CASE UNCHANGED vars
  <2>0. UNCHANGED <<status, socket, is_sending, output_buffer, delay_close_timer,
                    queue, pc, reading, writing, flying, timer, ref, tpc, owner,
                    sent, wire, reads, ups, downs, fault>>
    BY Zenon, <1>6 DEF vars, conn, ops, hist
  <2>1. /\ (NoWrite' <=> NoWrite) /\ (OneWrite' <=> OneWrite)
        /\ (NoRead' <=> NoRead) /\ (OneRead' <=> OneRead)
        /\ (NoEstablished' <=> NoEstablished)
    BY Zenon, <2>0, <1>Same
  <2>2. TypeOK' /\ QInv'
    BY SMTT(30), <2>0 DEF IInv, TypeOK, QInv
  <2>3. WInv' /\ RInv' /\ OutputNeverStranded' /\ Life'
    BY Zenon, <2>0, <2>1 DEF IInv, WInv, RInv, OutputNeverStranded, Life
  <2>4. QED
    BY Zenon, <2>2, <2>3 DEF IInv
<1>7. QED
  BY Zenon, <1>1, <1>2, <1>3, <1>4, <1>5, <1>6 DEF Next

(* Flattening a sequence of one piece, or with a piece in front. *)
LEMMA FlattenOne ==
  ASSUME NEW x \in Piece, NEW tt \in Seq(Piece)
  PROVE  /\ FlattenSeq(<<x>>) = x
         /\ FlattenSeq(<<x>> \o tt) = x \o FlattenSeq(tt)
<1>1. << >> \in Seq(Seq(Byte)) /\ <<x>> \in Seq(Seq(Byte)) /\ tt \in Seq(Seq(Byte)) /\ x \in Seq(Byte)
  BY DEF Piece
<1>2. <<x>> = Append(<< >>, x)
  OBVIOUS
<1>3. FlattenSeq(Append(<< >>, x)) = FlattenSeq(<< >>) \o x
  BY <1>1, FlattenAppend, Zenon
<1>4. << >> \o x = x
  BY <1>1
<1>5. FlattenSeq(<<x>>) = x
  BY <1>2, <1>3, <1>4, FlattenEmpty, Zenon
<1>6. FlattenSeq(<<x>> \o tt) = FlattenSeq(<<x>>) \o FlattenSeq(tt)
  BY <1>1, FlattenConcat, Zenon
<1>7. QED
  BY <1>5, <1>6, Zenon

(* The bytes of a sequence of pieces are those of its pieces. *)
LEMMA PieceElements ==
  ASSUME NEW ss \in Seq(Piece)
  PROVE  /\ FlattenSeq(ss) \in Seq(Byte)
         /\ Elements(FlattenSeq(ss)) = UNION {Elements(ss[i]) : i \in 1..Len(ss)}
BY FlattenType, FlattenElements, Zenon DEF Piece

(* A chain is its first piece, which writePieceQueue() takes, and the rest. *)
LEMMA ChainSplit ==
  ASSUME NEW chain \in Seq(Piece), chain # << >>
  PROVE  /\ Head(chain) \in Seq(Byte) /\ FlattenSeq(Tail(chain)) \in Seq(Byte)
         /\ FlattenSeq(chain) = Head(chain) \o FlattenSeq(Tail(chain))
         /\ Len(chain) = 1 => FlattenSeq(Tail(chain)) = << >>
<1>1. PICK x, t : x = Head(chain) /\ t = Tail(chain)
  BY ZenonT(30)
<1>2. x \in Piece /\ t \in Seq(Piece) /\ Len(t) = Len(chain) - 1
  BY <1>1
<1>3. chain = <<x>> \o t
  BY <1>1, <1>2
<1>4. FlattenSeq(<<x>>) = x /\ FlattenSeq(<<x>> \o t) = x \o FlattenSeq(t)
  BY <1>2, FlattenOne, Zenon
<1>5. FlattenSeq(t) \in Seq(Byte)
  BY <1>2, PieceElements, Zenon
<1>6. ASSUME Len(chain) = 1 PROVE FlattenSeq(t) = << >>
  <2>1. t = << >>
    BY <1>2, <1>6
  <2>2. QED
    BY <2>1, FlattenEmpty, Zenon
<1>7. QED
  BY <1>1, <1>2, <1>3, <1>4, <1>5, <1>6, Zenon DEF Piece

-----------------------------------------------------------------------------
(* The bytes of the queued sendInLoop. *)
Carries(h) == IF h.op = "send" THEN FlattenSeq(h.data) ELSE << >>

(* What a handler carries is a sequence of bytes. *)
LEMMA CarriesType ==
  ASSUME NEW h \in Handler
  PROVE  Carries(h) \in Piece
<1>1. h.data \in Seq(Piece)
  BY Zenon DEF Handler
<1>2. FlattenSeq(h.data) \in Seq(Byte) /\ << >> \in Seq(Byte)
  <2>1. FlattenSeq(h.data) \in Seq(Byte)
    BY <1>1, PieceElements, Zenon
  <2>2. QED
    BY <2>1
<1>3. QED
  BY <1>2, Zenon DEF Carries, Piece

(* The posted bytes are those the handlers carry, ... *)
LEMMA PostedMap ==
  ASSUME NEW q \in Seq(Handler), NEW m, m = [i \in 1..Len(q) |-> Carries(q[i])]
  PROVE  /\ Posted(q) = FlattenSeq(m) /\ m \in Seq(Piece) /\ Len(m) = Len(q)
         /\ Len(q) \in Nat /\ \A i \in 1..Len(q) : m[i] = Carries(q[i])
<1>1. Len(q) \in Nat /\ \A i \in 1..Len(q) : q[i] \in Handler
  OBVIOUS
<1>2. \A i \in 1..Len(q) : Carries(q[i]) \in Piece
  BY <1>1, CarriesType, Zenon
<1>3. m \in Seq(Piece)
  BY <1>1, <1>2
<1>4. Len(m) = Len(q)
  BY <1>1, <1>3
<1>5. Posted(q) = FlattenSeq(m)
  BY Zenon DEF Posted, Carries
<1>6. QED
  BY Zenon, <1>1, <1>3, <1>4, <1>5

(* ... a pushed handler adds its bytes at the end ... *)
LEMMA PostedPush ==
  ASSUME NEW q \in Seq(Handler), NEW h \in Handler
  PROVE  /\ Posted(q) \in Seq(Byte)
         /\ Posted(Append(q, h)) = Posted(q) \o Carries(h)
<1> DEFINE r == Append(q, h)
<1>1. PICK m, n : /\ m = [i \in 1..Len(q) |-> Carries(q[i])]
                  /\ n = [i \in 1..Len(r) |-> Carries(r[i])]
  BY ZenonT(30)
<1>2. /\ r \in Seq(Handler) /\ Len(r) = Len(q) + 1 /\ r[Len(q) + 1] = h
      /\ \A i \in 1..Len(q) : r[i] = q[i]
  OBVIOUS
<1> HIDE DEF r
<1>3. /\ Posted(q) = FlattenSeq(m) /\ m \in Seq(Piece) /\ Len(m) = Len(q)
      /\ Len(q) \in Nat /\ \A i \in 1..Len(q) : m[i] = Carries(q[i])
  BY Zenon, <1>1, PostedMap
<1>4. /\ Posted(r) = FlattenSeq(n) /\ n \in Seq(Piece) /\ Len(n) = Len(r)
      /\ \A i \in 1..Len(r) : n[i] = Carries(r[i])
  BY Zenon, <1>1, <1>2, PostedMap
<1>5. PICK c : c = Carries(h)
  BY Zenon
<1>6. c \in Piece
  BY <1>5, CarriesType, Zenon
<1>7. n = Append(m, c)
  <2>1. /\ Append(m, c) \in Seq(Piece) /\ Len(Append(m, c)) = Len(q) + 1
        /\ Append(m, c)[Len(q) + 1] = c /\ \A i \in 1..Len(q) : Append(m, c)[i] = m[i]
    BY <1>3, <1>6
  <2>2. Len(n) = Len(q) + 1 /\ n[Len(q) + 1] = c /\ \A i \in 1..Len(q) : n[i] = m[i]
    BY <1>2, <1>3, <1>4, <1>5
  <2>3. \A i \in 1..(Len(q) + 1) : i \in 1..Len(q) \/ i = Len(q) + 1
    BY <1>3
  <2>4. QED
    BY <1>4, <2>1, <2>2, <2>3
<1>8. m \in Seq(Seq(Byte)) /\ c \in Seq(Byte)
  BY Zenon, <1>3, <1>6 DEF Piece
<1>9. FlattenSeq(Append(m, c)) = FlattenSeq(m) \o c
  BY <1>8, FlattenAppend, Zenon
<1>10. FlattenSeq(m) \in Seq(Byte)
  BY <1>3, PieceElements, Zenon
<1>11. QED
  BY <1>3, <1>4, <1>5, <1>7, <1>9, <1>10, Zenon DEF r

(* ... and the handler that runs takes the first. *)
LEMMA PostedPop ==
  ASSUME NEW q \in Seq(Handler), q # << >>
  PROVE  /\ Carries(Head(q)) \in Seq(Byte) /\ Posted(Tail(q)) \in Seq(Byte)
         /\ Posted(q) = Carries(Head(q)) \o Posted(Tail(q))
<1> DEFINE r == Tail(q)
<1>1. PICK m, n : /\ m = [i \in 1..Len(q) |-> Carries(q[i])]
                  /\ n = [i \in 1..Len(r) |-> Carries(r[i])]
  BY ZenonT(30)
<1>2. /\ r \in Seq(Handler) /\ Len(r) = Len(q) - 1 /\ Head(q) = q[1] /\ Head(q) \in Handler
      /\ Len(q) \in Nat \ {0} /\ \A i \in 1..Len(r) : r[i] = q[i + 1]
  OBVIOUS
<1> HIDE DEF r
<1>3. /\ Posted(q) = FlattenSeq(m) /\ m \in Seq(Piece) /\ Len(m) = Len(q)
      /\ \A i \in 1..Len(q) : m[i] = Carries(q[i])
  BY Zenon, <1>1, PostedMap
<1>4. /\ Posted(r) = FlattenSeq(n) /\ n \in Seq(Piece) /\ Len(n) = Len(r)
      /\ \A i \in 1..Len(r) : n[i] = Carries(r[i])
  BY Zenon, <1>1, <1>2, PostedMap
<1>5. PICK c : c = Carries(Head(q))
  BY Zenon
<1>6. c \in Piece
  BY <1>2, <1>5, CarriesType, Zenon
<1>7. m = <<c>> \o n
  <2>1. PICK d : d = <<c>> \o n
    BY ZenonT(30)
  <2>2. d \in Seq(Piece) /\ Len(d) = Len(q) /\ d[1] = c /\ \A i \in 2..Len(q) : d[i] = n[i - 1]
    BY <1>2, <1>4, <1>6, <2>1
  <2>3. m[1] = c
    BY <1>2, <1>3, <1>5
  <2>4. ASSUME NEW i \in 2..Len(q) PROVE m[i] = n[i - 1]
    <3>1. PICK j : j = i - 1
      BY Zenon
    <3>2. j \in 1..Len(r) /\ j + 1 = i /\ i \in 1..Len(q)
      BY <1>2, <3>1
    <3>3. QED
      BY Zenon, <1>2, <1>3, <1>4, <3>1, <3>2
  <2>5. \A i \in 1..Len(q) : i = 1 \/ i \in 2..Len(q)
    BY <1>2
  <2>6. \A i \in 1..Len(q) : m[i] = d[i]
    BY Zenon, <2>2, <2>3, <2>4, <2>5
  <2>7. QED
    BY SMTT(30), <1>3, <2>1, <2>2, <2>6
<1>8. FlattenSeq(<<c>> \o n) = c \o FlattenSeq(n)
  BY <1>4, <1>6, FlattenOne, Zenon
<1>9. FlattenSeq(n) \in Seq(Byte) /\ c \in Seq(Byte)
  BY <1>4, <1>6, PieceElements, Zenon DEF Piece
<1>10. QED
  BY <1>3, <1>4, <1>5, <1>7, <1>8, <1>9, Zenon DEF r

(* The invariant of the order: WireInOrder, and as long as the process has *)
(* not died what is known of the whole flow.                               *)
OInv ==
    /\ WireInOrder
    /\ fault = "none" => Known(Loop, FlattenSeq(wire), FlattenSeq(flying),
                               FlattenSeq(output_buffer), Posted(queue), sent)

(* With sends of one piece and whole writes nothing is lost either: SInv.  *)
Whole == (\A shape \in Shapes : Len(shape) = 1) /\ ~ShortWrites

Underway ==
    All(FlattenSeq(wire), FlattenSeq(flying), FlattenSeq(output_buffer), Posted(queue))

Clean(q) == \A i \in 1..Len(q) : ~(q[i].op \in WriteOp /\ q[i].ec = "error")

(* All that was accepted is under way while no write has failed; what a    *)
(* write carried is not in flight any more once it has completed.          *)
SInv ==
    /\ \A i \in 1..Len(queue) : queue[i].op = "send" => Len(queue[i].data) = 1
    /\ fault = "none" /\ writing = "none" => flying = << >>
    /\ fault = "none" /\ socket /\ Clean(queue) => Underway = Accepted

(* The four places a byte passes through hold sequences of bytes. *)
LEMMA FlowType ==
  ASSUME TypeOK
  PROVE  /\ FlattenSeq(wire) \in Seq(Byte) /\ FlattenSeq(flying) \in Seq(Byte)
         /\ FlattenSeq(output_buffer) \in Seq(Byte) /\ Posted(queue) \in Seq(Byte)
<1>1. /\ wire \in Seq(Piece) /\ flying \in Seq(Piece) /\ output_buffer \in Seq(Piece)
      /\ queue \in Seq(Handler)
  BY Zenon DEF TypeOK
<1>2. H("close", "ok", << >>) \in Handler
  BY DEF H, Handler, Op
<1>3. Posted(queue) \in Seq(Byte)
  BY <1>1, <1>2, PostedPush, Zenon
<1>4. QED
  BY <1>1, <1>3, PieceElements, Zenon

-----------------------------------------------------------------------------
(* What the parts of the handlers do to the flow. *)

(* async_send takes the merged prefix of the output. *)
LEMMA StartWriteFlow ==
  ASSUME NEW out \in Seq(Piece), out # << >>, NEW how, StartWrite(out, how), socket
  PROVE  /\ Shift(Byte, FlattenSeq(out), FlattenSeq(flying), FlattenSeq(output_buffer'), FlattenSeq(flying'))
         /\ writing' = how
<1>1. PICK m, a, b : /\ m = Merged(out) /\ a = SubSeq(out, 1, m)
                     /\ b = SubSeq(out, m + 1, Len(out))
  BY ZenonT(30)
<1>2. m \in 1..Len(out) /\ Len(out) \in Nat
  BY <1>1, MergedBound
<1>3. m \in 0..Len(out)
  BY <1>2
<1>4. a \in Seq(Piece) /\ b \in Seq(Piece) /\ out = a \o b
  BY <1>1, <1>3, CutSeq, Zenon
<1>5. a \in Seq(Seq(Byte)) /\ b \in Seq(Seq(Byte))
  BY Zenon, <1>4 DEF Piece
<1>6. FlattenSeq(out) = FlattenSeq(a) \o FlattenSeq(b)
  BY <1>4, <1>5, FlattenConcat, Zenon
<1>7. FlattenSeq(a) \in Seq(Byte) /\ FlattenSeq(b) \in Seq(Byte)
  BY <1>4, PieceElements, Zenon
<1>8. output_buffer' = b /\ flying' = a /\ writing' = how
  BY Zenon, <1>1 DEF StartWrite
<1>9. QED
  BY <1>6, <1>7, <1>8, Zenon DEF Shift

(* A flow that does not move. *)
LEMMA NoShift ==
  ASSUME NEW o \in Seq(Byte), NEW f
  PROVE  Shift(Byte, o, f, o, f)
<1>1. << >> \in Seq(Byte) /\ o = << >> \o o
  OBVIOUS
<1>2. QED
  BY <1>1, Zenon DEF Shift

(* sendInLoop(): the first piece of the chain joins the output. *)
LEMMA SendInLoopFlow ==
  ASSUME TypeOK, NEW chain \in Seq(Piece), chain # << >>, SendInLoop(chain),
         is_sending \/ socket
  PROVE  /\ Shift(Byte, FlattenSeq(output_buffer) \o Head(chain), FlattenSeq(flying),
                  FlattenSeq(output_buffer'), FlattenSeq(flying'))
         /\ is_sending => flying' = flying /\ writing' = writing
         /\ ~is_sending => writing' = "writeRaw"
<1>1. PICK c, out : c = Head(chain) /\ out = Append(output_buffer, c)
  BY ZenonT(30)
<1>2. c \in Piece /\ output_buffer \in Seq(Piece)
  BY <1>1 DEF TypeOK
<1>3. out \in Seq(Piece) /\ out # << >>
  BY <1>1, <1>2
<1>4. output_buffer \in Seq(Seq(Byte)) /\ c \in Seq(Byte)
  BY Zenon, <1>2 DEF Piece
<1>5. FlattenSeq(out) = FlattenSeq(output_buffer) \o c
  BY <1>1, <1>4, FlattenAppend, Zenon
<1>6. out = WritePieceQueue(output_buffer, chain)
  BY Zenon, <1>1 DEF WritePieceQueue
<1>7. CASE is_sending
  <2>1. output_buffer' = out /\ flying' = flying /\ writing' = writing
    BY Zenon, <1>6, <1>7 DEF SendInLoop
  <2>2. FlattenSeq(out) \in Seq(Byte)
    BY <1>3, PieceElements, Zenon
  <2>3. Shift(Byte, FlattenSeq(out), FlattenSeq(flying), FlattenSeq(out), FlattenSeq(flying))
    BY <2>2, NoShift, Zenon
  <2>4. QED
    BY <1>1, <1>5, <1>7, <2>1, <2>3, Zenon
<1>8. CASE ~is_sending
  <2>1. StartWrite(out, "writeRaw") /\ socket
    BY Zenon, <1>6, <1>8 DEF SendInLoop
  <2>2. /\ Shift(Byte, FlattenSeq(out), FlattenSeq(flying), FlattenSeq(output_buffer'), FlattenSeq(flying'))
        /\ writing' = "writeRaw"
    BY <1>3, <2>1, StartWriteFlow, Zenon
  <2>3. QED
    BY <1>1, <1>5, <1>8, <2>2, Zenon
<1>9. QED
  BY Zenon, <1>7, <1>8

-----------------------------------------------------------------------------
(* The steps that leave the flow alone: they take or put a handler that    *)
(* carries no bytes, and a handler of a failed write closes the socket.    *)
Quiet ==
    /\ wire' = wire /\ flying' = flying /\ output_buffer' = output_buffer
    /\ sent' = sent /\ writing' = writing
    /\ fault' = "none" => fault = "none"
    /\ socket' => socket
    /\ \/ queue' = queue
       \/ \E h \in Handler : h.op \notin {"send"} \cup WriteOp /\ queue' = Append(queue, h)
       \/ /\ queue # << >> /\ Head(queue).op # "send" /\ queue' = Tail(queue)
          /\ Head(queue).op \in WriteOp /\ Head(queue).ec = "error" =>
                fault' # "none" \/ ~socket'

(* A handler that is not a sendInLoop() carries nothing in or out. *)
LEMMA NothingPosted ==
  ASSUME NEW q \in Seq(Handler)
  PROVE  /\ \A h \in Handler : h.op # "send" => Posted(Append(q, h)) = Posted(q)
         /\ q # << >> /\ Head(q).op # "send" => Posted(Tail(q)) = Posted(q)
<1>1. ASSUME NEW h \in Handler, h.op # "send" PROVE Posted(Append(q, h)) = Posted(q)
  <2>1. Posted(q) \in Seq(Byte) /\ Posted(Append(q, h)) = Posted(q) \o Carries(h)
    BY PostedPush, Zenon
  <2>2. Carries(h) = << >>
    BY <1>1, Zenon DEF Carries
  <2>3. Posted(q) \o << >> = Posted(q)
    BY <2>1, SMT
  <2>4. QED
    BY <2>1, <2>2, <2>3, Zenon
<1>2. ASSUME q # << >>, Head(q).op # "send" PROVE Posted(Tail(q)) = Posted(q)
  <2>1. Posted(Tail(q)) \in Seq(Byte) /\ Posted(q) = Carries(Head(q)) \o Posted(Tail(q))
    BY <1>2, PostedPop, Zenon
  <2>2. Carries(Head(q)) = << >>
    BY <1>2, Zenon DEF Carries
  <2>3. << >> \o Posted(Tail(q)) = Posted(Tail(q))
    BY <2>1, SMT
  <2>4. QED
    BY <2>1, <2>2, <2>3, Zenon
<1>3. QED
  BY Zenon, <1>1, <1>2

(* A step that leaves the flow alone leaves the posted bytes alone, ... *)
LEMMA QuietPosted ==
  ASSUME TypeOK, Quiet
  PROVE  Posted(queue') = Posted(queue)
<1>1. queue \in Seq(Handler)
  BY Zenon DEF TypeOK
<1>2. CASE queue' = queue
  BY <1>2, Zenon
<1>3. CASE \E h \in Handler : h.op \notin {"send"} \cup WriteOp /\ queue' = Append(queue, h)
  <2>1. PICK h \in Handler : h.op # "send" /\ queue' = Append(queue, h)
    BY <1>3, Zenon
  <2>2. QED
    BY <1>1, <2>1, NothingPosted, Zenon
<1>4. CASE queue # << >> /\ Head(queue).op # "send" /\ queue' = Tail(queue)
  BY <1>1, <1>4, NothingPosted, Zenon
<1>5. QED
  BY <1>2, <1>3, <1>4, Zenon DEF Quiet

(* ... and the order of the bytes, ... *)
LEMMA QuietOInv ==
  ASSUME TypeOK, OInv, Quiet
  PROVE  OInv'
<1>1. Posted(queue') = Posted(queue)
  BY QuietPosted, Zenon
<1>2. /\ wire' = wire /\ flying' = flying /\ output_buffer' = output_buffer /\ sent' = sent
      /\ fault' = "none" => fault = "none"
  BY Zenon DEF Quiet
<1>3. WireInOrder'
  BY <1>2, Zenon DEF OInv, WireInOrder
<1>4. QED
  BY <1>1, <1>2, <1>3, Zenon DEF OInv

(* Pieces of queued sends, and failed writes, over push and pop. *)
Singles(q) == \A i \in 1..Len(q) : q[i].op = "send" => Len(q[i].data) = 1

(* Pushing and popping keep posted chains at one piece each, and a failed  *)
(* write cannot leave the queue unnoticed.                                 *)
LEMMA QueuePush ==
  ASSUME NEW q \in Seq(Handler), NEW h \in Handler
  PROVE  /\ Singles(q) /\ (h.op = "send" => Len(h.data) = 1) => Singles(Append(q, h))
         /\ Clean(Append(q, h)) => Clean(q) /\ ~(h.op \in WriteOp /\ h.ec = "error")
<1>1. PICK r : r = Append(q, h)
  BY ZenonT(30)
<1>2. /\ Len(q) \in Nat /\ Len(r) = Len(q) + 1 /\ r[Len(q) + 1] = h
      /\ \A i \in 1..Len(q) : r[i] = q[i]
  BY <1>1
<1>3. /\ \A i \in 1..Len(r) : i \in 1..Len(q) \/ i = Len(q) + 1
      /\ \A i \in 1..Len(q) : i \in 1..Len(r)
      /\ Len(q) + 1 \in 1..Len(r)
  BY <1>2
<1>4. Singles(q) /\ (h.op = "send" => Len(h.data) = 1) => Singles(r)
  BY <1>2, <1>3, Zenon DEF Singles
<1>5. Clean(r) => Clean(q) /\ ~(h.op \in WriteOp /\ h.ec = "error")
  BY <1>2, <1>3, Zenon DEF Clean
<1>6. QED
  BY <1>1, <1>4, <1>5, Zenon

(* The same for the handler that runs. *)
LEMMA QueuePop ==
  ASSUME NEW q \in Seq(Handler), q # << >>
  PROVE  /\ Singles(q) => Singles(Tail(q)) /\ (Head(q).op = "send" => Len(Head(q).data) = 1)
         /\ Clean(Tail(q)) /\ ~(Head(q).op \in WriteOp /\ Head(q).ec = "error") => Clean(q)
<1>1. PICK r : r = Tail(q)
  BY ZenonT(30)
<1>2. /\ Len(q) \in Nat \ {0} /\ Len(r) = Len(q) - 1 /\ Head(q) = q[1]
      /\ \A i \in 1..Len(r) : r[i] = q[i + 1]
  BY <1>1
<1>3. /\ \A i \in 1..Len(r) : i + 1 \in 1..Len(q)
      /\ 1 \in 1..Len(q)
  BY <1>2
<1>4. \A i \in 1..Len(q) : i = 1 \/ \E j \in 1..Len(r) : j + 1 = i
  <2> TAKE i \in 1..Len(q)
  <2>1. i # 1 => i - 1 \in 1..Len(r) /\ (i - 1) + 1 = i
    BY <1>2
  <2>2. QED
    BY Zenon, <2>1
<1>5. Singles(q) => Singles(r) /\ (Head(q).op = "send" => Len(Head(q).data) = 1)
  BY <1>2, <1>3, Zenon DEF Singles
<1>6. Clean(r) /\ ~(Head(q).op \in WriteOp /\ Head(q).ec = "error") => Clean(q)
  <2> SUFFICES ASSUME Clean(r), ~(Head(q).op \in WriteOp /\ Head(q).ec = "error"),
                      NEW i \in 1..Len(q)
               PROVE  ~(q[i].op \in WriteOp /\ q[i].ec = "error")
    BY Zenon DEF Clean
  <2>1. CASE i = 1
    BY <1>2, <2>1, Zenon
  <2>2. ASSUME NEW j \in 1..Len(r), j + 1 = i PROVE r[j] = q[i]
    BY <1>2, <2>2, Zenon
  <2>3. QED
    BY <1>4, <2>1, <2>2, Zenon DEF Clean
<1>7. QED
  BY <1>1, <1>5, <1>6, Zenon

(* ... and the completeness of the stream. *)
LEMMA QuietSInv ==
  ASSUME TypeOK, SInv, Quiet
  PROVE  SInv'
<1>1. Posted(queue') = Posted(queue) /\ queue \in Seq(Handler)
  BY Zenon, QuietPosted DEF TypeOK
<1>2. /\ wire' = wire /\ flying' = flying /\ output_buffer' = output_buffer /\ sent' = sent
      /\ writing' = writing /\ (fault' = "none" => fault = "none") /\ (socket' => socket)
  BY Zenon DEF Quiet
<1>3. Underway' = Underway /\ Accepted' = Accepted
  <2>1. Underway' = All(FlattenSeq(wire'), FlattenSeq(flying'), FlattenSeq(output_buffer'),
                        Posted(queue'))
    BY Zenon DEF Underway
  <2>2. Underway' = Underway
    BY <1>1, <1>2, <2>1, Zenon DEF Underway
  <2>3. Accepted' = Accepted
    BY <1>2 DEF Accepted
  <2>4. QED
    BY Zenon, <2>2, <2>3
<1>4. Singles(queue)
  BY Zenon DEF Singles, SInv
<1>5. Singles(queue') /\ (fault' = "none" /\ socket' /\ Clean(queue') => Clean(queue))
  <2>1. CASE queue' = queue
    BY <1>4, <2>1, Zenon
  <2>2. CASE \E h \in Handler : h.op \notin {"send"} \cup WriteOp /\ queue' = Append(queue, h)
    <3>1. PICK h \in Handler : h.op # "send" /\ queue' = Append(queue, h)
      BY <2>2, Zenon
    <3>2. QED
      BY <1>1, <1>4, <3>1, QueuePush, Zenon
  <2>3. CASE /\ queue # << >> /\ Head(queue).op # "send" /\ queue' = Tail(queue)
             /\ Head(queue).op \in WriteOp /\ Head(queue).ec = "error" =>
                   fault' # "none" \/ ~socket'
    BY <1>1, <1>4, <2>3, QueuePop, Zenon
  <2>4. QED
    BY <2>1, <2>2, <2>3, Zenon DEF Quiet
<1>6. QED
  BY <1>2, <1>3, <1>5, Zenon DEF SInv, Singles

-----------------------------------------------------------------------------
(* An accepted send() adds its bytes, all of them new. *)
LEMMA SentGrows ==
  ASSUME TypeOK, NEW s \in Sender, NEW shape \in Shapes,
         sent' = [sent EXCEPT ![s] = Append(@, shape)],
         NEW chain, chain = Chain(s, Len(sent[s]) + 1, shape)
  PROVE  /\ chain \in Seq(Piece) /\ chain # << >>
         /\ New(Sender, Byte, FlattenSeq(chain), s, sent, sent')
         /\ Len(shape) = 1 => Len(chain) = 1
         /\ Accepted' = Accepted \cup Elements(FlattenSeq(chain))
  (* The pieces of a call carry its sender and number, in order; only the    *)
  (* first is left of a call of one piece.                                   *)
<1>ChainFacts.
     ASSUME NEW u \in Sender, NEW k \in Nat, NEW sh \in Shapes,
            NEW ch, ch = Chain(u, k, sh)
     PROVE  /\ ch \in Seq(Piece) /\ ch # << >> /\ FlattenSeq(ch) \in Seq(Byte)
            /\ InOrder(FlattenSeq(ch))
            /\ \A b \in Elements(FlattenSeq(ch)) : b[1] = u /\ b[2] = k
            /\ Len(sh) = 1 => Len(ch) = 1
  <2> USE <1>ChainFacts
  <2>1. sh \in Seq(1..Capacity) /\ sh # << >>
    BY Zenon, ConstAssumption
  <2>2. Len(sh) \in Nat \ {0} /\ \A i \in 1..Len(sh) : sh[i] \in Nat
    BY <2>1, ConstAssumption
  <2>3. ch \in Seq(Piece) /\ ch # << >>
    BY ChainType, Zenon
  <2>4. ch = [i \in 1..Len(sh) |-> [j \in 1..sh[i] |-> <<u, k, i, j>>]]
    BY Zenon DEF Chain
  <2>5. Len(ch) = Len(sh)
    BY <2>2, <2>3, <2>4
  <2>6. ASSUME NEW i \in 1..Len(ch)
        PROVE  /\ ch[i] \in Seq(Byte)
               /\ Len(ch[i]) = sh[i]
               /\ \A j \in 1..sh[i] : ch[i][j] = <<u, k, i, j>>
    <3>1. ch[i] = [j \in 1..sh[i] |-> <<u, k, i, j>>]
      BY Zenon, <2>4, <2>5
    <3>2. ch[i] \in Seq(Byte)
      BY <2>3 DEF Piece
    <3>3. sh[i] \in Nat
      BY Zenon, <2>2, <2>5
    <3>4. Len(ch[i]) = sh[i]
      BY SMTT(30), <3>1, <3>2, <3>3
    <3>5. QED
      BY ZenonT(30), <3>1, <3>2, <3>4
  <2>7. ASSUME NEW i \in 1..Len(ch), NEW b \in Elements(ch[i])
        PROVE  b[1] = u /\ b[2] = k /\ b[3] = i
    BY SMTT(30), <2>6 DEF Elements
  <2>8. ASSUME NEW i \in 1..Len(ch) PROVE InOrder(ch[i])
    <3> SUFFICES ASSUME NEW p \in 1..Len(ch[i]), NEW q \in 1..Len(ch[i]), p < q
                 PROVE  Before(ch[i][p], ch[i][q])
      BY Zenon DEF InOrder
    <3>1. PICK a, b : a = ch[i][p] /\ b = ch[i][q]
      BY Zenon
    <3>2. a = <<u, k, i, p>> /\ b = <<u, k, i, q>>
      BY Zenon, <2>6, <3>1
    <3>3. a[2] = b[2] /\ a[3] = b[3] /\ a[4] < b[4]
      BY Zenon, <3>2
    <3>4. QED
      BY <3>1, <3>3, BeforeRules, Zenon
  <2>9. ASSUME NEW i \in 1..Len(ch), NEW j \in 1..Len(ch), i < j
        PROVE  Prec(Elements(ch[i]), Elements(ch[j]))
    <3> SUFFICES ASSUME NEW a \in Elements(ch[i]), NEW b \in Elements(ch[j])
                 PROVE  Before(a, b)
      BY Zenon DEF Prec
    <3>1. a[2] = k /\ a[3] = i /\ b[2] = k /\ b[3] = j
      BY Zenon, <2>7
    <3>2. QED
      BY <2>9, <3>1, BeforeRules, Zenon
  <2>10. InOrder(FlattenSeq(ch))
    <3>1. ch \in Seq(Seq(Byte))
      BY Zenon, <2>3 DEF Piece
    <3>2. QED
      BY <2>8, <2>9, <3>1, FlattenInOrder, Zenon
  <2>11. /\ FlattenSeq(ch) \in Seq(Byte)
         /\ Elements(FlattenSeq(ch)) = UNION {Elements(ch[i]) : i \in 1..Len(ch)}
    BY <2>3, PieceElements, Zenon
  <2>12. ASSUME NEW b \in Elements(FlattenSeq(ch)) PROVE b[1] = u /\ b[2] = k
    <3>1. PICK i \in 1..Len(ch) : b \in Elements(ch[i])
      BY <2>11, Zenon
    <3>2. QED
      BY Zenon, <2>7, <3>1
  <2>13. QED
    BY <2>3, <2>5, <2>10, <2>11, <2>12, Zenon

<1>1. sent \in [Sender -> Seq(Shapes)]
  BY Zenon DEF TypeOK
<1>2. PICK n \in Nat : n = Len(sent[s])
  BY <1>1
<1>3. n + 1 \in Nat /\ chain = Chain(s, n + 1, shape)
  BY <1>2
<1>4. /\ chain \in Seq(Piece) /\ chain # << >> /\ FlattenSeq(chain) \in Seq(Byte)
      /\ InOrder(FlattenSeq(chain))
      /\ \A b \in Elements(FlattenSeq(chain)) : b[1] = s /\ b[2] = n + 1
      /\ Len(shape) = 1 => Len(chain) = 1
  <2>1. PICK k \in Nat : k = n + 1 /\ chain = Chain(s, k, shape)
    BY <1>3, Zenon
  <2>2. /\ chain \in Seq(Piece) /\ chain # << >> /\ FlattenSeq(chain) \in Seq(Byte)
        /\ InOrder(FlattenSeq(chain)) /\ (Len(shape) = 1 => Len(chain) = 1)
    BY <2>1, <1>ChainFacts, SMTT(30)
  <2>3. \A b \in Elements(FlattenSeq(chain)) : b[1] = s /\ b[2] = k
    BY <2>1, <1>ChainFacts, SMTT(60)
  <2>4. QED
    BY <2>1, <2>2, <2>3, Zenon
<1>5. /\ sent'[s] = Append(sent[s], shape) /\ sent[s] \in Seq(Shapes)
      /\ \A r \in Sender : r # s => sent'[r] = sent[r]
  BY Zenon, <1>1
<1>6. /\ Len(sent'[s]) = n + 1 /\ sent'[s][n + 1] = shape
      /\ \A i \in 1..n : sent'[s][i] = sent[s][i]
  BY <1>2, <1>5
<1>7. \A r \in Sender : Len(sent[r]) \in Nat
  BY <1>1
<1>8. ASSUME NEW r \in Sender
      PROVE  Len(sent[r]) \in Nat /\ Len(sent'[r]) \in Nat /\ Len(sent[r]) <= Len(sent'[r])
  <2>1. CASE r = s
    BY <1>2, <1>6, <2>1
  <2>2. CASE r # s
    <3>1. PICK m \in Nat : m = Len(sent[r])
      BY Zenon, <1>7
    <3>2. m = Len(sent'[r]) /\ m <= m
      BY <1>5, <2>2, <3>1
    <3>3. QED
      BY <3>1, <3>2, Zenon
  <2>3. QED
    BY Zenon, <2>1, <2>2
<1>9. New(Sender, Byte, FlattenSeq(chain), s, sent, sent')
  <2>1. \A b \in Byte : b[1] \in Sender /\ b[2] \in Nat
    BY Zenon DEF Byte
  <2>2. QED
    BY <1>2, <1>4, <1>6, <1>8, <2>1, Zenon DEF New
<1> DEFINE C(r, k, sh) == Elements(FlattenSeq(Chain(r, k, sh)))
<1>10. /\ \A b : b \in Accepted <=> \E r \in Sender : \E k \in 1..Len(sent[r]) : b \in C(r, k, sent[r][k])
       /\ \A b : b \in Accepted' <=> \E r \in Sender : \E k \in 1..Len(sent'[r]) : b \in C(r, k, sent'[r][k])
       /\ Elements(FlattenSeq(chain)) = C(s, n + 1, shape)
  <2>1. /\ Accepted = UNION {UNION {C(r, k, sent[r][k]) : k \in 1..Len(sent[r])} : r \in Sender}
        /\ Accepted' = UNION {UNION {C(r, k, sent'[r][k]) : k \in 1..Len(sent'[r])} : r \in Sender}
    BY Zenon DEF Accepted
  <2>2. Elements(FlattenSeq(chain)) = C(s, n + 1, shape)
    BY <1>3, Zenon
  <2> HIDE DEF C
  <2>3. \A b : b \in Accepted <=> \E r \in Sender : \E k \in 1..Len(sent[r]) : b \in C(r, k, sent[r][k])
    BY <2>1
  <2>4. \A b : b \in Accepted' <=> \E r \in Sender : \E k \in 1..Len(sent'[r]) : b \in C(r, k, sent'[r][k])
    BY SMTT(30), <2>1
  <2>5. QED
    BY Zenon, <2>2, <2>3, <2>4
<1> HIDE DEF C
<1>11. ASSUME NEW b, b \in Accepted' PROVE b \in Accepted \cup C(s, n + 1, shape)
  <2>0. PICK r \in Sender : \E k \in 1..Len(sent'[r]) : b \in C(r, k, sent'[r][k])
    BY <1>10, <1>11, Zenon
  <2>1. PICK k \in 1..Len(sent'[r]) : b \in C(r, k, sent'[r][k])
    BY <2>0, Zenon
  <2>2. CASE r # s
    BY <1>5, <1>10, <2>1, <2>2, Zenon
  <2>3. CASE r = s
    <3>1. k \in 1..n \/ k = n + 1
      BY <1>6, <2>1, <2>3
    <3>2. CASE k = n + 1
      BY <1>6, <2>1, <2>3, <3>2, Zenon
    <3>3. CASE k \in 1..n
      <4>1. k \in 1..Len(sent[s]) /\ sent'[s][k] = sent[s][k]
        BY <1>2, <1>6, <3>3, Zenon
      <4>2. QED
        BY <1>10, <2>1, <2>3, <4>1, Zenon
    <3>4. QED
      BY Zenon, <3>1, <3>2, <3>3
  <2>4. QED
    BY Zenon, <2>2, <2>3
<1>12. ASSUME NEW b, b \in Accepted PROVE b \in Accepted'
  <2>0. PICK r \in Sender : \E k \in 1..Len(sent[r]) : b \in C(r, k, sent[r][k])
    BY <1>10, <1>12, Zenon
  <2>1. PICK k \in 1..Len(sent[r]) : b \in C(r, k, sent[r][k])
    BY <2>0, Zenon
  <2>2. CASE r # s
    BY <1>5, <1>10, <2>1, <2>2, Zenon
  <2>3. CASE r = s
    <3>1. k \in 1..n
      BY <1>2, <2>3, Zenon
    <3>2. k \in 1..Len(sent'[s]) /\ sent'[s][k] = sent[s][k]
      BY <1>6, <3>1
    <3>3. QED
      BY <1>10, <2>1, <2>3, <3>2, Zenon
  <2>4. QED
    BY Zenon, <2>2, <2>3
<1>13. ASSUME NEW b \in C(s, n + 1, shape) PROVE b \in Accepted'
  <2>1. n + 1 \in 1..Len(sent'[s])
    BY <1>6
  <2>2. QED
    BY <1>6, <1>10, <2>1, Zenon
<1>14. Accepted' = Accepted \cup Elements(FlattenSeq(chain))
  BY <1>10, <1>11, <1>12, <1>13, Zenon
<1>15. QED
  BY <1>4, <1>9, <1>14, Zenon

(* sendInLoop() run from the queue. *)
LEMMA RunSendInLoopStream ==
  ASSUME IInv, OInv, RunSendInLoop
  PROVE  OInv' /\ (SInv => SInv')
<1>0. /\ Ready({"send"}) /\ queue' = Tail(queue) /\ SendInLoop(Head(queue).data)
      /\ socket' = socket /\ sent' = sent /\ wire' = wire
  BY Zenon DEF RunSendInLoop, Done, hist
<1>1. fault = "none" /\ queue # << >> /\ Head(queue).op = "send"
  BY <1>0, Established
<1>2. TypeOK /\ QInv /\ queue \in Seq(Handler)
  BY Zenon DEF IInv, TypeOK
<1>3. Head(queue).data # << >>
  BY Zenon, <1>0, <1>1, <1>2, PopQueue
<1>4. PICK chain : chain = Head(queue).data
  BY Zenon
<1>5. chain \in Seq(Piece) /\ chain # << >> /\ SendInLoop(chain)
  <2>1. Head(queue) \in Handler
    BY <1>1, <1>2
  <2>2. chain \in Seq(Piece)
    BY Zenon, <1>4, <2>1 DEF Handler
  <2>3. QED
    BY <1>0, <1>3, <1>4, <2>2, Zenon
<1>6. ~is_sending /\ ~socket => fault' = "null_socket"
  BY Zenon, <1>2, <1>5, SendInLoopFacts
<1>7. WireInOrder'
  BY <1>0, Zenon DEF OInv, WireInOrder
<1>8. SInv => Singles(queue') /\ Len(chain) = 1 /\ (Clean(queue') => Clean(queue))
  <2>1. SInv => Singles(queue)
    BY Zenon DEF SInv, Singles
  <2>2. Head(queue).op \notin WriteOp
    BY Zenon, <1>1 DEF WriteOp
  <2>3. QED
    BY <1>0, <1>1, <1>2, <1>4, <2>1, <2>2, QueuePop, Zenon
<1>9. CASE fault' # "none"
  BY <1>7, <1>8, <1>9, Zenon DEF OInv, SInv, Singles
<1>10. CASE fault' = "none"
  <2>1. is_sending \/ socket
    BY Zenon, <1>6, <1>10
  <2>2. PICK w, f, o, p, r, x, y, f2, o2 :
          /\ w = FlattenSeq(wire) /\ f = FlattenSeq(flying) /\ o = FlattenSeq(output_buffer)
          /\ p = Posted(queue) /\ r = Posted(Tail(queue))
          /\ x = Head(chain) /\ y = FlattenSeq(Tail(chain))
          /\ f2 = FlattenSeq(flying') /\ o2 = FlattenSeq(output_buffer')
    BY Zenon
  <2>3. w \in Seq(Byte) /\ f \in Seq(Byte) /\ o \in Seq(Byte) /\ p \in Seq(Byte)
    BY <1>2, <2>2, FlowType, Zenon
  <2>4. x \in Seq(Byte) /\ y \in Seq(Byte) /\ FlattenSeq(chain) = x \o y
    BY <1>5, <2>2, ChainSplit, Zenon
  <2>5. r \in Seq(Byte) /\ p = Carries(Head(queue)) \o r
    BY <1>1, <1>2, <2>2, PostedPop, Zenon
  <2>6. Carries(Head(queue)) = x \o y
    BY <1>1, <1>4, <2>4, Zenon DEF Carries
  <2>7. p = (x \o y) \o r
    BY <2>5, <2>6, Zenon
  <2>8. Known(Loop, w, f, o, p, sent)
    BY <1>1, <2>2, Zenon DEF OInv
  <2>9. Known(Loop, w, f, o \o x, r, sent)
    BY <2>3, <2>4, <2>5, <2>7, <2>8, KnownTake, Zenon
  <2>10. /\ Shift(Byte, o \o x, f, o2, f2)
         /\ is_sending => flying' = flying /\ writing' = writing
         /\ ~is_sending => writing' = "writeRaw"
    BY <1>2, <1>5, <2>1, <2>2, SendInLoopFlow, Zenon
  <2>11. o \o x \in Seq(Byte)
    BY <2>3, <2>4
  <2>12. Known(Loop, w, f2, o2, r, sent)
    BY <2>3, <2>5, <2>9, <2>10, <2>11, KnownShift, Zenon
  <2>13. OInv'
    BY <1>0, <1>7, <2>2, <2>12, Zenon DEF OInv
  <2>14. ASSUME SInv PROVE SInv'
    <3>1. y = << >>
      BY <1>5, <1>8, <2>2, <2>14, ChainSplit, Zenon
    <3>2. Line(w, f, o, p)
      BY Zenon, <2>8 DEF Known
    <3>3. All(w, f, o \o x, r) = All(w, f, o, p)
      <4>1. Alike(All(w, f, o \o x, r), All(w, f, o, p))
        BY <2>3, <2>4, <2>5, <2>7, <3>1, TakeAll, ZenonT(30)
      <4>2. QED
        BY Zenon, <4>1 DEF Alike
    <3>4. Line(w, f, o \o x, r)
      BY Zenon, <2>9 DEF Known
    <3>5. writing = "none" => flying = << >>
      BY Zenon, <1>1, <2>14 DEF SInv
    <3>6. f = << >> \/ f2 = f
      <4>1. CASE is_sending
        BY <2>2, <2>10, <4>1, Zenon
      <4>2. CASE ~is_sending
        <5>1. writing = "none"
          BY Zenon, <1>1, <4>2 DEF IInv, WInv
        <5>2. QED
          BY <2>2, <3>5, <5>1, FlattenEmpty, Zenon
      <4>3. QED
        BY Zenon, <4>1, <4>2
    <3>7. All(w, f2, o2, r) = All(w, f, o \o x, r)
      <4>1. Alike(All(w, f2, o2, r), All(w, f, o \o x, r))
        BY <2>3, <2>5, <2>10, <2>11, <3>6, ShiftAll, ZenonT(30)
      <4>2. QED
        BY Zenon, <4>1 DEF Alike
    <3>8. Underway' = All(w, f2, o2, r)
      BY Zenon, <1>0, <2>2 DEF Underway
    <3>9. Underway = All(w, f, o, p)
      BY <2>2, Zenon DEF Underway
    <3>10. Accepted' = Accepted
      <4>1. sent' = sent
        BY Zenon, <1>0
      <4>2. QED
        BY <4>1, SMTT(30) DEF Accepted
    <3>11. writing' = "none" => flying' = << >>
      BY Zenon, <2>10, <3>5
    <3>12. socket' /\ Clean(queue') => Underway' = Accepted'
      BY <1>0, <1>1, <1>8, <2>14, <3>3, <3>7, <3>8, <3>9, <3>10, Zenon DEF SInv
    <3>13. QED
      BY <1>8, <2>14, <3>11, <3>12, Zenon DEF SInv, Singles
  <2>15. QED
    BY Zenon, <2>13, <2>14
<1>11. QED
  BY Zenon, <1>9, <1>10

(* handleWrite() without error: launchWrite(). *)
LEMMA HandleWriteStream ==
  ASSUME IInv, OInv, HandleWrite
  PROVE  OInv' /\ (SInv => SInv')
  (* launchWrite(): the next write, or none. *)
<1>LaunchWriteFlow.
     ASSUME TypeOK, LaunchWrite, output_buffer = << >> \/ socket
     PROVE  /\ Shift(Byte, FlattenSeq(output_buffer), FlattenSeq(flying),
                     FlattenSeq(output_buffer'), FlattenSeq(flying'))
            /\ writing' # "none" \/ (writing' = writing /\ flying' = flying)
  <2> USE <1>LaunchWriteFlow
  <2>1. output_buffer \in Seq(Piece) /\ FlattenSeq(output_buffer) \in Seq(Byte)
    BY Zenon, FlowType DEF TypeOK
  <2>2. CASE output_buffer # << >>
    <3>1. StartWrite(output_buffer, "writeShared") /\ socket
      BY Zenon, <2>2 DEF LaunchWrite
    <3>2. /\ Shift(Byte, FlattenSeq(output_buffer), FlattenSeq(flying),
                   FlattenSeq(output_buffer'), FlattenSeq(flying'))
          /\ writing' = "writeShared"
      BY <2>1, <2>2, <3>1, StartWriteFlow, Zenon
    <3>3. writing' # "none"
      BY Zenon, <3>2
    <3>4. QED
      BY <3>2, <3>3, Zenon
  <2>3. CASE output_buffer = << >>
    <3>1. output_buffer' = output_buffer /\ flying' = flying /\ writing' = writing
      BY Zenon, <2>3 DEF LaunchWrite
    <3>2. QED
      BY <2>1, <3>1, NoShift, Zenon
  <2>4. QED
    BY Zenon, <2>2, <2>3

<1>0. /\ Ready(WriteOp) /\ Head(queue).ec = "ok" /\ queue' = Tail(queue) /\ LaunchWrite
      /\ socket' = socket /\ sent' = sent /\ wire' = wire
  BY Zenon DEF HandleWrite, Done, hist
<1>1. fault = "none" /\ queue # << >> /\ Head(queue).op \in WriteOp
  BY Zenon, <1>0, Established
<1>2. TypeOK /\ queue \in Seq(Handler)
  BY Zenon DEF IInv, TypeOK
<1>3. writing = "none"
  BY Zenon, <1>0, <1>1, <1>2, Pop DEF IInv, WInv
<1>4. output_buffer # << >> /\ ~socket => fault' = "null_socket"
  BY Zenon, <1>0, <1>2, LaunchWriteFacts
<1>5. WireInOrder'
  BY <1>0, Zenon DEF OInv, WireInOrder
<1>6. Head(queue).op # "send" /\ Head(queue).ec # "error"
  BY Zenon, <1>0, <1>1 DEF WriteOp
<1>7. Posted(queue') = Posted(queue)
  BY <1>0, <1>1, <1>2, <1>6, NothingPosted, Zenon
<1>8. SInv => Singles(queue') /\ (Clean(queue') => Clean(queue))
  <2>1. SInv => Singles(queue)
    BY Zenon DEF SInv, Singles
  <2>2. QED
    BY <1>0, <1>1, <1>2, <1>6, <2>1, QueuePop, Zenon
<1>9. CASE fault' # "none"
  BY <1>5, <1>8, <1>9, Zenon DEF OInv, SInv, Singles
<1>10. CASE fault' = "none"
  <2>1. output_buffer = << >> \/ socket
    BY Zenon, <1>4, <1>10
  <2>2. PICK w, f, o, p, f2, o2 :
          /\ w = FlattenSeq(wire) /\ f = FlattenSeq(flying) /\ o = FlattenSeq(output_buffer)
          /\ p = Posted(queue)
          /\ f2 = FlattenSeq(flying') /\ o2 = FlattenSeq(output_buffer')
    BY Zenon
  <2>3. w \in Seq(Byte) /\ f \in Seq(Byte) /\ o \in Seq(Byte) /\ p \in Seq(Byte)
    BY <1>2, <2>2, FlowType, Zenon
  <2>4. Known(Loop, w, f, o, p, sent)
    BY <1>1, <2>2, Zenon DEF OInv
  <2>5. /\ Shift(Byte, o, f, o2, f2)
        /\ writing' # "none" \/ (writing' = writing /\ flying' = flying)
    BY <1>0, <1>2, <2>1, <2>2, <1>LaunchWriteFlow, Zenon
  <2>6. Known(Loop, w, f2, o2, p, sent)
    BY <2>3, <2>4, <2>5, KnownShift, Zenon
  <2>7. OInv'
    BY <1>0, <1>5, <1>7, <2>2, <2>6, Zenon DEF OInv
  <2>8. ASSUME SInv PROVE SInv'
    <3>1. Line(w, f, o, p)
      BY Zenon, <2>4 DEF Known
    <3>2. flying = << >>
      BY Zenon, <1>1, <1>3, <2>8 DEF SInv
    <3>3. f = << >>
      BY <2>2, <3>2, FlattenEmpty, Zenon
    <3>4. All(w, f2, o2, p) = All(w, f, o, p)
      <4>1. Alike(All(w, f2, o2, p), All(w, f, o, p))
        BY <2>3, <2>5, <3>3, ShiftAll, ZenonT(30)
      <4>2. QED
        BY Zenon, <4>1 DEF Alike
    <3>5. Underway' = All(w, f2, o2, p)
      BY Zenon, <1>0, <1>7, <2>2 DEF Underway
    <3>6. Underway = All(w, f, o, p)
      BY <2>2, Zenon DEF Underway
    <3>7. Accepted' = Accepted
      BY <1>0 DEF Accepted
    <3>8. writing' = "none" => flying' = << >>
      BY Zenon, <2>5, <3>2
    <3>9. socket' /\ Clean(queue') => Underway' = Accepted'
      BY <1>0, <1>1, <1>8, <2>8, <3>4, <3>5, <3>6, <3>7, Zenon DEF SInv
    <3>10. QED
      BY <1>8, <2>8, <3>8, <3>9, Zenon DEF SInv, Singles
  <2>9. QED
    BY Zenon, <2>7, <2>8
<1>11. QED
  BY Zenon, <1>9, <1>10

-----------------------------------------------------------------------------
(* send() in a callback overtakes what other threads have posted. *)
LEMMA SendFromCallbackStream ==
  ASSUME IInv, OInv, NEW shape \in Shapes, SendFromCallback(shape)
  PROVE  OInv' /\ (Whole /\ SInv => SInv')
<1>1. PICK chain : chain = Chain(Loop, Len(sent[Loop]) + 1, shape)
  BY Zenon
<1>0. /\ fault = "none" /\ SendInLoop(chain)
      /\ sent' = [sent EXCEPT ![Loop] = Append(@, shape)]
      /\ socket' = socket /\ queue' = queue /\ wire' = wire
  BY Zenon, <1>1 DEF SendFromCallback, InCallback
<1>2. TypeOK /\ Loop \in Sender
  BY Zenon DEF IInv, Sender
<1>3. /\ chain \in Seq(Piece) /\ chain # << >>
      /\ New(Sender, Byte, FlattenSeq(chain), Loop, sent, sent')
      /\ Len(shape) = 1 => Len(chain) = 1
      /\ Accepted' = Accepted \cup Elements(FlattenSeq(chain))
  BY ZenonT(30), <1>0, <1>1, <1>2, SentGrows
<1>4. ~is_sending /\ ~socket => fault' = "null_socket"
  BY Zenon, <1>0, <1>2, <1>3, SendInLoopFacts
<1>5. WireInOrder'
  BY <1>0, Zenon DEF OInv, WireInOrder
<1>6. CASE fault' # "none"
  BY <1>0, <1>5, <1>6, Zenon DEF OInv, SInv
<1>7. CASE fault' = "none"
  <2>1. is_sending \/ socket
    BY Zenon, <1>4, <1>7
  <2>2. PICK w, f, o, p, x, y, z, f2, o2 :
          /\ w = FlattenSeq(wire) /\ f = FlattenSeq(flying) /\ o = FlattenSeq(output_buffer)
          /\ p = Posted(queue)
          /\ x = Head(chain) /\ y = FlattenSeq(Tail(chain)) /\ z = FlattenSeq(chain)
          /\ f2 = FlattenSeq(flying') /\ o2 = FlattenSeq(output_buffer')
    BY Zenon
  <2>3. w \in Seq(Byte) /\ f \in Seq(Byte) /\ o \in Seq(Byte) /\ p \in Seq(Byte)
    BY <1>2, <2>2, FlowType, Zenon
  <2>4. x \in Seq(Byte) /\ y \in Seq(Byte) /\ z = x \o y
    BY <1>3, <2>2, ChainSplit, Zenon
  <2>5. New(Sender, Byte, z, Loop, sent, sent')
    BY <1>3, <2>2, Zenon
  <2>6. Known(Loop, w, f, o, p, sent)
    BY <1>0, <2>2, Zenon DEF OInv
  <2>7. Known(Loop, w, f, o \o x, p, sent')
    BY <1>2, <2>3, <2>4, <2>5, <2>6, KnownInsert, Zenon
  <2>8. /\ Shift(Byte, o \o x, f, o2, f2)
        /\ is_sending => flying' = flying /\ writing' = writing
        /\ ~is_sending => writing' = "writeRaw"
    BY <1>0, <1>2, <1>3, <2>1, <2>2, SendInLoopFlow, Zenon
  <2>9. o \o x \in Seq(Byte)
    BY <2>3, <2>4
  <2>10. Known(Loop, w, f2, o2, p, sent')
    BY <2>3, <2>7, <2>8, <2>9, KnownShift, Zenon
  <2>11. OInv'
    BY <1>0, <1>5, <2>2, <2>10, Zenon DEF OInv
  <2>12. ASSUME Whole, SInv PROVE SInv'
    <3>1. Len(chain) = 1
      BY <1>3, <2>12, Zenon DEF Whole
    <3>2. y = << >>
      BY <1>3, <2>2, <3>1, ChainSplit, Zenon
    <3>3. z = x
      BY <2>4, <3>2, SMT
    <3>4. All(w, f, o \o x, p) = All(w, f, o, p) \cup Elements(x)
      <4>1. Elements(o \o x) = Elements(o) \cup Elements(x)
        BY <2>3, <2>4, ElementsConcat, ZenonT(60)
      <4>2. QED
        BY <4>1, Zenon DEF All
    <3>5. writing = "none" => flying = << >>
      BY Zenon, <1>0, <2>12 DEF SInv
    <3>6. f = << >> \/ f2 = f
      <4>1. CASE is_sending
        BY <2>2, <2>8, <4>1, Zenon
      <4>2. CASE ~is_sending
        <5>1. writing = "none"
          BY Zenon, <1>0, <4>2 DEF IInv, WInv
        <5>2. QED
          BY <2>2, <3>5, <5>1, FlattenEmpty, Zenon
      <4>3. QED
        BY Zenon, <4>1, <4>2
    <3>7. All(w, f2, o2, p) = All(w, f, o \o x, p)
      <4>1. Alike(All(w, f2, o2, p), All(w, f, o \o x, p))
        BY <2>3, <2>8, <2>9, <3>6, ShiftAll, ZenonT(30)
      <4>2. QED
        BY Zenon, <4>1 DEF Alike
    <3>8. Underway' = All(w, f2, o2, p)
      BY Zenon, <1>0, <2>2 DEF Underway
    <3>9. Underway = All(w, f, o, p)
      BY <2>2, Zenon DEF Underway
    <3>10. Accepted' = Accepted \cup Elements(x)
      BY <1>3, <2>2, <3>3, Zenon
    <3>11. writing' = "none" => flying' = << >>
      BY Zenon, <2>8, <3>5
    <3>12. socket' /\ Clean(queue') => Underway' = Accepted'
      <4> SUFFICES ASSUME socket', Clean(queue') PROVE Underway' = Accepted'
        BY Zenon
      <4>1. Underway = Accepted
        BY <1>0, <2>12, Zenon DEF SInv
      <4>2. QED
        BY <3>4, <3>7, <3>8, <3>9, <3>10, <4>1, Zenon
    <3>13. QED
      BY <1>0, <2>12, <3>11, <3>12, Zenon DEF SInv
  <2>13. QED
    BY Zenon, <2>11, <2>12
<1>8. QED
  BY Zenon, <1>6, <1>7

(* send() from another thread posts its chain behind the others. *)
LEMMA SendPostsStream ==
  ASSUME IInv, OInv, NEW u \in User, NEW shape \in Shapes, SendPosts(u, shape)
  PROVE  OInv' /\ (Whole /\ SInv => SInv')
<1>1. PICK chain, h : chain = Chain(u, Len(sent[u]) + 1, shape) /\ h = H("send", "ok", chain)
  BY Zenon
<1>0. /\ fault = "none" /\ fault' = fault
      /\ sent' = [sent EXCEPT ![u] = Append(@, shape)] /\ queue' = Append(queue, h)
      /\ socket' = socket /\ wire' = wire /\ flying' = flying
      /\ output_buffer' = output_buffer /\ writing' = writing
  BY <1>1, Zenon DEF SendPosts, At, conn, ops
<1>2. TypeOK /\ u \in Sender /\ queue \in Seq(Handler)
  BY Zenon DEF IInv, Sender, TypeOK
<1>3. /\ chain \in Seq(Piece) /\ chain # << >>
      /\ New(Sender, Byte, FlattenSeq(chain), u, sent, sent')
      /\ Len(shape) = 1 => Len(chain) = 1
      /\ Accepted' = Accepted \cup Elements(FlattenSeq(chain))
  BY ZenonT(30), <1>0, <1>1, <1>2, SentGrows
<1>4. h \in Handler /\ h.op = "send" /\ h.data = chain
  BY ZenonT(30), <1>1, <1>3 DEF H, Handler, Op
<1>5. WireInOrder'
  BY <1>0, Zenon DEF OInv, WireInOrder
<1>6. PICK w, f, o, p, z :
          /\ w = FlattenSeq(wire) /\ f = FlattenSeq(flying) /\ o = FlattenSeq(output_buffer)
          /\ p = Posted(queue) /\ z = FlattenSeq(chain)
  BY Zenon
<1>7. w \in Seq(Byte) /\ f \in Seq(Byte) /\ o \in Seq(Byte) /\ p \in Seq(Byte)
  BY <1>2, <1>6, FlowType, Zenon
<1>8. Posted(queue') = p \o z
  <2>1. Carries(h) = z
    BY <1>4, <1>6, Zenon DEF Carries
  <2>2. Posted(Append(queue, h)) = Posted(queue) \o Carries(h)
    BY <1>2, <1>4, PostedPush, Zenon
  <2>3. QED
    BY <1>0, <1>6, <2>1, <2>2, Zenon
<1>9. Known(Loop, w, f, o, p, sent) /\ New(Sender, Byte, z, u, sent, sent')
  BY <1>0, <1>3, <1>6, Zenon DEF OInv
<1>10. Known(Loop, w, f, o, p \o z, sent')
  <2>1. u # Loop
    BY Zenon, ConstAssumption
  <2>2. QED
    BY <1>2, <1>7, <1>9, <2>1, KnownPush, Zenon
<1>11. OInv'
  BY <1>0, <1>5, <1>6, <1>8, <1>10, Zenon DEF OInv
<1>12. ASSUME Whole, SInv PROVE SInv'
  <2>1. Len(h.data) = 1
    BY <1>3, <1>4, <1>12, Zenon DEF Whole
  <2>2. Singles(queue)
    BY <1>12, Zenon DEF SInv, Singles
  <2>3. Singles(queue') /\ (Clean(queue') => Clean(queue))
    BY <1>0, <1>2, <1>4, <2>1, <2>2, QueuePush, Zenon
  <2>4. Elements(p \o z) = Elements(p) \cup Elements(z)
    BY <1>7, <1>9, ElementsConcat, ZenonT(30) DEF New
  <2>5. All(w, f, o, p \o z) = All(w, f, o, p) \cup Elements(z)
    BY <2>4, Zenon DEF All
  <2>6. Underway' = All(w, f, o, p \o z)
    BY Zenon, <1>0, <1>6, <1>8 DEF Underway
  <2>7. Underway = All(w, f, o, p)
    BY <1>6, Zenon DEF Underway
  <2>8. Accepted' = Accepted \cup Elements(z)
    BY <1>3, <1>6, Zenon
  <2>9. ASSUME socket', Clean(queue') PROVE Underway' = Accepted'
    <3>1. Underway = Accepted
      BY <1>0, <1>12, <2>3, <2>9, Zenon DEF SInv
    <3>2. QED
      BY <2>5, <2>6, <2>7, <2>8, <3>1, Zenon
  <2>10. QED
    BY <1>0, <1>12, <2>3, <2>9, Zenon DEF SInv, Singles
<1>13. QED
  BY Zenon, <1>11, <1>12

(* A write completes: what it transferred is on the wire. *)
LEMMA CompleteWriteStream ==
  ASSUME IInv, OInv, NEW ec \in {"ok", "error", "aborted"}, CompleteWrite(ec)
  PROVE  OInv' /\ (Whole /\ SInv => SInv')
  (* What a write transferred is a first part of the pieces in flight. *)
<1>TransferredFlow.
     ASSUME TypeOK, NEW part \in Transferred
     PROVE  /\ part \in Seq(Piece) /\ FlattenSeq(part) \in Seq(Byte)
            /\ \E rest \in Seq(Byte) : /\ FlattenSeq(flying) = FlattenSeq(part) \o rest
                                       /\ ~ShortWrites => rest = << >>
  <2> USE <1>TransferredFlow
  <2>1. flying \in Seq(Piece) /\ part \in Seq(Piece)
    BY Zenon, TransferredType DEF TypeOK
  <2>2. FlattenSeq(part) \in Seq(Byte) /\ FlattenSeq(flying) \in Seq(Byte)
    BY <2>1, PieceElements, Zenon
  <2>3. CASE ~ShortWrites
    <3>1. part = flying
      BY Zenon, <2>3 DEF Transferred
    <3>2. FlattenSeq(flying) = FlattenSeq(part) \o << >> /\ << >> \in Seq(Byte)
      BY <2>2, <3>1
    <3>3. QED
      BY <2>1, <2>2, <3>2, Zenon
  <2>4. CASE ShortWrites
    <3>1. PICK k \in 1..Len(flying) :
            \E n \in 1..Len(flying[k]) :
               part = SubSeq(flying, 1, k - 1) \o <<SubSeq(flying[k], 1, n)>>
      BY ZenonT(30), <2>4 DEF Transferred
    <3>2. PICK n \in 1..Len(flying[k]) :
               part = SubSeq(flying, 1, k - 1) \o <<SubSeq(flying[k], 1, n)>>
      BY ZenonT(30), <3>1
    <3>3. PICK j, a, d, c, x, y, e :
            /\ j = k - 1 /\ a = SubSeq(flying, 1, j) /\ d = SubSeq(flying, j + 1, Len(flying))
            /\ c = flying[k] /\ x = SubSeq(c, 1, n) /\ y = SubSeq(c, n + 1, Len(c))
            /\ e = Tail(d)
      BY ZenonT(30)
    <3>4. Len(flying) \in Nat /\ c \in Seq(Byte) /\ Len(c) \in Nat
      BY <2>1, <3>3 DEF Piece
    <3>5. j \in 0..Len(flying) /\ n \in 0..Len(c) /\ Len(flying) - j # 0 /\ j + 1 = k
      BY <3>3, <3>4
    <3>6. a \in Seq(Piece) /\ d \in Seq(Piece) /\ Len(d) = Len(flying) - j /\ flying = a \o d
      BY <2>1, <3>3, <3>5, CutSeq, Zenon
    <3>7. x \in Seq(Byte) /\ y \in Seq(Byte) /\ c = x \o y
      BY <3>3, <3>4, <3>5, CutSeq, Zenon
    <3>8. d # << >> /\ Head(d) = c
      <4>1. d # << >>
        BY Zenon, <3>5, <3>6
      <4>2. d[1] = flying[k]
        BY <2>1, <3>3, <3>4, <3>5
      <4>3. Head(d) = d[1]
        OBVIOUS
      <4>4. QED
        BY <3>3, <4>1, <4>2, <4>3, Zenon
    <3>9. FlattenSeq(d) = c \o FlattenSeq(e) /\ FlattenSeq(e) \in Seq(Byte)
      BY <3>3, <3>6, <3>8, ChainSplit, Zenon
    <3>10. /\ a \in Seq(Seq(Byte)) /\ d \in Seq(Seq(Byte)) /\ <<x>> \in Seq(Seq(Byte))
           /\ x \in Piece
      BY <3>6, <3>7 DEF Piece
    <3>11. FlattenSeq(flying) = FlattenSeq(a) \o FlattenSeq(d)
      BY <3>6, <3>10, FlattenConcat, Zenon
    <3>12. part = a \o <<x>>
      BY Zenon, <3>2, <3>3
    <3>13. FlattenSeq(part) = FlattenSeq(a) \o FlattenSeq(<<x>>)
      BY <3>10, <3>12, FlattenConcat, Zenon
    <3>14. FlattenSeq(<<x>>) = x
      BY <2>1, <3>10, FlattenOne, Zenon
    <3>15. PICK A, E : A = FlattenSeq(a) /\ E = FlattenSeq(e)
      BY Zenon
    <3>16. A \in Seq(Byte) /\ E \in Seq(Byte) /\ y \o E \in Seq(Byte)
      BY SMTT(30), <3>6, <3>7, <3>9, <3>15, PieceElements
    <3>17. A \o ((x \o y) \o E) = (A \o x) \o (y \o E)
      <4>0. \A p, q, r \in Seq(Byte) : (p \o q) \o r = p \o (q \o r)
        BY SMTT(30)
      <4>1. (x \o y) \o E = x \o (y \o E)
        BY <3>7, <3>16, <4>0, ZenonT(30)
      <4>2. A \o (x \o (y \o E)) = (A \o x) \o (y \o E)
        BY <3>7, <3>16, <4>0, ZenonT(30)
      <4>3. QED
        BY <4>1, <4>2, Zenon
    <3>18. FlattenSeq(flying) = FlattenSeq(part) \o (y \o E)
      BY <3>7, <3>9, <3>11, <3>13, <3>14, <3>15, <3>17, Zenon
    <3>19. QED
      BY <2>1, <2>2, <2>4, <3>16, <3>18, Zenon
  <2>5. QED
    BY Zenon, <2>3, <2>4

<1>1. PICK h : h = H(writing, ec, << >>)
  BY Zenon
<1>0. /\ fault = "none" /\ fault' = fault /\ writing # "none" /\ writing' = "none"
      /\ flying' = << >> /\ socket' = socket /\ output_buffer' = output_buffer /\ sent' = sent
      /\ ec = "aborted" => ~socket
      /\ queue' = Append(queue, h)
      /\ ec # "ok" => wire' = wire
      /\ ec = "ok" => \E part \in Transferred : wire' = wire \o part
  BY <1>1, Zenon DEF CompleteWrite, conn
<1>2. TypeOK /\ queue \in Seq(Handler) /\ writing \in WriteOp /\ wire \in Seq(Piece)
  BY Zenon, <1>0 DEF IInv, TypeOK
<1>3. h \in Handler /\ h.op \in WriteOp /\ h.op # "send" /\ h.ec = ec
  BY <1>1, <1>2 DEF H, Handler, Op, WriteOp
<1>4. PICK w, f, o, p :
          /\ w = FlattenSeq(wire) /\ f = FlattenSeq(flying) /\ o = FlattenSeq(output_buffer)
          /\ p = Posted(queue)
  BY Zenon
<1>5. w \in Seq(Byte) /\ f \in Seq(Byte) /\ o \in Seq(Byte) /\ p \in Seq(Byte)
  BY <1>2, <1>4, FlowType, Zenon
<1>6. Known(Loop, w, f, o, p, sent)
  BY <1>0, <1>4, Zenon DEF OInv
<1>7. Posted(queue') = p /\ FlattenSeq(flying') = << >>
  BY <1>0, <1>2, <1>3, <1>4, NothingPosted, FlattenEmpty, Zenon
<1>8. \E a, b \in Seq(Byte) : /\ f = a \o b /\ FlattenSeq(wire') = w \o a
                              /\ ec = "ok" /\ ~ShortWrites => b = << >>
  <2>1. CASE ec # "ok"
    <3>1. << >> \in Seq(Byte) /\ f = << >> \o f /\ w = w \o << >>
      BY <1>5
    <3>2. FlattenSeq(wire') = w \o << >>
      BY <1>0, <1>4, <2>1, <3>1, Zenon
    <3>3. QED
      BY <1>5, <2>1, <3>1, <3>2, Zenon
  <2>2. CASE ec = "ok"
    <3>1. PICK part \in Transferred : wire' = wire \o part
      BY <1>0, <2>2, Zenon
    <3>2. part \in Seq(Piece) /\ FlattenSeq(part) \in Seq(Byte)
      BY <1>2, <1>TransferredFlow, Zenon
    <3>3. PICK rest \in Seq(Byte) : /\ FlattenSeq(flying) = FlattenSeq(part) \o rest
                                    /\ ~ShortWrites => rest = << >>
      BY <1>2, <1>TransferredFlow, Zenon
    <3>4. wire \in Seq(Seq(Byte)) /\ part \in Seq(Seq(Byte))
      BY <1>2, <3>2, Zenon DEF Piece
    <3>5. FlattenSeq(wire \o part) = FlattenSeq(wire) \o FlattenSeq(part)
      BY <3>4, FlattenConcat, Zenon
    <3>6. FlattenSeq(wire') = w \o FlattenSeq(part)
      BY <1>4, <3>1, <3>5, Zenon
    <3>7. QED
      BY <1>4, <3>2, <3>3, <3>6, Zenon
  <2>3. QED
    BY ZenonT(30), <2>1, <2>2
<1>9. PICK a \in Seq(Byte), b \in Seq(Byte) :
        /\ f = a \o b /\ FlattenSeq(wire') = w \o a
        /\ ec = "ok" /\ ~ShortWrites => b = << >>
  BY <1>8, Zenon
<1>10. Known(Loop, w \o a, << >>, o, p, sent)
  BY <1>5, <1>6, <1>9, KnownDone, Zenon
<1>11. WireInOrder'
  <2>1. InOrder(w \o a)
    BY <1>10, Zenon DEF Known, Line
  <2>2. QED
    BY <1>9, <2>1, Zenon DEF WireInOrder
<1>12. OInv'
  <2>1. Known(Loop, FlattenSeq(wire'), FlattenSeq(flying'), FlattenSeq(output_buffer'), Posted(queue'), sent')
    BY <1>0, <1>4, <1>7, <1>9, <1>10, Zenon
  <2>2. QED
    BY <1>11, <2>1, Zenon DEF OInv
<1>13. ASSUME Whole, SInv PROVE SInv'
  <2>1. Singles(queue)
    BY <1>13, Zenon DEF SInv, Singles
  <2>2. /\ Singles(queue')
        /\ Clean(queue') => Clean(queue) /\ ~(h.op \in WriteOp /\ h.ec = "error")
    BY <1>0, <1>2, <1>3, <2>1, QueuePush, Zenon
  <2>3. ASSUME socket', Clean(queue') PROVE Underway' = Accepted'
    <3>1. ec = "ok"
      BY Zenon, <1>0, <1>3, <2>2, <2>3
    <3>2. b = << >>
      BY <1>9, <1>13, <3>1, Zenon DEF Whole
    <3>3. Elements(b) = {} /\ Elements(<< >>) = {}
      BY <3>2, EmptyInOrder, Zenon
    <3>4. Elements(f) = Elements(a) \cup Elements(b)
      <4>1. Elements(a \o b) = Elements(a) \cup Elements(b)
        <5>1. a \in Seq(Byte) /\ b \in Seq(Byte)
          BY <1>9, Zenon
        <5>2. QED
          BY <5>1, ElementsConcat, ZenonT(30)
      <4>2. QED
        BY <1>9, <4>1, Zenon
    <3>5. Elements(w \o a) = Elements(w) \cup Elements(a)
      BY <1>5, <1>9, ElementsConcat, ZenonT(30)
    <3>6. All(w \o a, << >>, o, p) = All(w, f, o, p)
      BY <3>3, <3>4, <3>5, Zenon DEF All
    <3>7. Underway' = All(w \o a, << >>, o, p)
      <4>1. Underway' = All(FlattenSeq(wire'), FlattenSeq(flying'), FlattenSeq(output_buffer'),
                            Posted(queue'))
        BY Zenon DEF Underway
      <4>2. QED
        BY <1>0, <1>4, <1>7, <1>9, <4>1, Zenon
    <3>8. Underway = All(w, f, o, p)
      BY <1>4, Zenon DEF Underway
    <3>9. Accepted' = Accepted
      BY <1>0 DEF Accepted
    <3>10. Underway = Accepted
      BY <1>0, <1>13, <2>2, <2>3, Zenon DEF SInv
    <3>11. QED
      BY <3>6, <3>7, <3>8, <3>9, <3>10, Zenon
  <2>4. QED
    BY <1>0, <2>2, <2>3, Zenon DEF SInv, Singles
<1>14. QED
  BY Zenon, <1>12, <1>13

-----------------------------------------------------------------------------
Still ==
    /\ wire' = wire /\ flying' = flying /\ output_buffer' = output_buffer
    /\ sent' = sent /\ writing' = writing

(* The handlers that carry no bytes. *)
LEMMA QuietHandlers ==
  ASSUME IInv, \/ ConnectEstablished \/ ConnectEstablishedThrows \/ RunClose \/ HandleRead
               \/ HandleReadError \/ HandleWriteError \/ HandleWriteFreed
  PROVE  Quiet
<1>1. CASE ConnectEstablished
  <2>1. Ready({"established"}) /\ Done /\ Still /\ fault' = fault /\ socket' = socket
    BY Zenon, <1>1 DEF ConnectEstablished, Still, ops
  <2>2. QED
    BY Zenon, <2>1 DEF Ready, Done, Still, Quiet, WriteOp
<1>2. CASE ConnectEstablishedThrows
  <2>1. Ready({"established"}) /\ Done /\ Still /\ fault' = "uncaught" /\ socket' = socket
    BY Zenon, <1>2 DEF ConnectEstablishedThrows, Still, ops, hist
  <2>2. QED
    BY Zenon, <2>1 DEF Ready, Done, Still, Quiet, WriteOp
<1>3. CASE RunClose
  <2>1. /\ Ready({"close", "delayedClose"}) /\ Done /\ Still /\ fault' = fault
        /\ socket' => socket
    BY Zenon, <1>3 DEF RunClose, Still, HandleClose
  <2>2. QED
    BY Zenon, <2>1 DEF Ready, Done, Still, Quiet, WriteOp
<1>4. CASE HandleRead
  <2>1. Ready({"read"}) /\ Done /\ Still /\ fault' = fault /\ socket' = socket
    BY Zenon, <1>4 DEF HandleRead, Still, ops, conn, hist
  <2>2. QED
    BY Zenon, <2>1 DEF Ready, Done, Still, Quiet, WriteOp
<1>5. CASE HandleReadError
  <2>1. /\ Ready({"read"}) /\ Done /\ Still /\ fault' = fault
        /\ socket' => socket
    BY Zenon, <1>5 DEF HandleReadError, Still, HandleError, HandleClose
  <2>2. QED
    BY Zenon, <2>1 DEF Ready, Done, Still, Quiet, WriteOp
<1>6. CASE HandleWriteError
  <2>1. /\ Ready(WriteOp) /\ Done /\ Still /\ fault' = fault
        /\ IF Head(queue).ec = "error" THEN HandleClose ELSE socket' = socket
    BY Zenon, <1>6 DEF HandleWriteError, Still, HandleError
  <2>2. /\ fault = "none" /\ pc = "run" /\ queue # << >> /\ Head(queue).op \in WriteOp
        /\ ups = 1
    BY <2>1, Established DEF WriteOp
  <2>3. /\ Head(queue).ec = "error" => ~socket'
        /\ socket' => socket
    BY Zenon, <2>1, <2>2, HandleCloseFacts
  <2>4. QED
    BY Zenon, <2>1, <2>2, <2>3 DEF Done, Still, Quiet, WriteOp
<1>7. CASE HandleWriteFreed
  <2>1. Ready(WriteOp) /\ Done /\ Still /\ fault' = "freed_this" /\ socket' = socket
    BY Zenon, <1>7 DEF HandleWriteFreed, Still, ops, conn, hist
  <2>2. QED
    BY Zenon, <2>1 DEF Ready, Done, Still, Quiet, WriteOp
<1>8. QED
  BY Zenon, <1>1, <1>2, <1>3, <1>4, <1>5, <1>6, <1>7

(* The steps that post a handler without bytes, and those that post none. *)
LEMMA QuietOthers ==
  ASSUME IInv,
         \/ CallbackReturns \/ FinishClose \/ OwnerReleases
         \/ CloseFromCallback \/ CloseWithDelayFromCallback
         \/ \E ec \in {"ok", "error", "aborted"} : CompleteRead(ec)
         \/ TimerFires \/ UNCHANGED vars
  PROVE  Quiet
<1>1. CASE CallbackReturns
  <2>1. Still /\ socket' = socket /\ queue' = queue /\ fault = "none"
    BY Zenon, <1>1 DEF CallbackReturns, Still, conn, hist
  <2>2. QED
    BY Zenon, <2>1 DEF Still, Quiet
<1>2. CASE FinishClose \/ OwnerReleases \/ CloseWithDelayFromCallback \/ UNCHANGED vars
  <2>1. Still /\ socket' = socket /\ queue' = queue /\ fault' = fault
    <3>1. CASE FinishClose
      BY Zenon, <3>1 DEF FinishClose, Still, conn, ops, hist
    <3>2. CASE OwnerReleases
      BY Zenon, <3>2 DEF OwnerReleases, Still, conn, ops, hist
    <3>3. CASE CloseWithDelayFromCallback
      BY Zenon, <3>3 DEF CloseWithDelayFromCallback, Still, conn, ops, hist
    <3>4. CASE UNCHANGED vars
      BY Zenon, <3>4 DEF vars, Still, conn, ops, hist
    <3>5. QED
      BY Zenon, <1>2, <3>1, <3>2, <3>3, <3>4
  <2>2. QED
    BY Zenon, <2>1 DEF Still, Quiet
<1>3. CASE CloseFromCallback
  <2>1. /\ Still /\ socket' = socket /\ fault' = fault
        /\ queue' = Append(queue, H("close", "ok", << >>))
    BY Zenon, <1>3 DEF CloseFromCallback, Still, ops, hist
  <2>2. H("close", "ok", << >>) \in Handler /\ H("close", "ok", << >>).op = "close"
    <3>1. << >> \in Seq(Piece)
      OBVIOUS
    <3>2. QED
      BY <3>1, Zenon DEF H, Handler, Op
  <2>3. QED
    BY Zenon, <2>1, <2>2 DEF Still, Quiet, WriteOp
<1>4. ASSUME NEW ec \in {"ok", "error", "aborted"}, CompleteRead(ec) PROVE Quiet
  <2>1. /\ Still /\ socket' = socket /\ fault' = fault
        /\ queue' = Append(queue, H("read", ec, << >>))
    BY Zenon, <1>4 DEF CompleteRead, Still, conn
  <2>2. H("read", ec, << >>) \in Handler /\ H("read", ec, << >>).op = "read"
    BY DEF H, Handler, Op
  <2>3. QED
    BY Zenon, <2>1, <2>2 DEF Still, Quiet, WriteOp
<1>5. CASE TimerFires
  <2>1. /\ Still /\ socket' = socket /\ fault' = fault
        /\ queue' = Append(queue, H("delayedClose", "ok", << >>))
    BY Zenon, <1>5 DEF TimerFires, Still, conn, hist
  <2>2. /\ H("delayedClose", "ok", << >>) \in Handler
        /\ H("delayedClose", "ok", << >>).op = "delayedClose"
    BY DEF H, Handler, Op
  <2>3. QED
    BY Zenon, <2>1, <2>2 DEF Still, Quiet, WriteOp
<1>6. QED
  BY Zenon, <1>1, <1>2, <1>3, <1>4, <1>5

(* A step of a user leaves the flow alone unless it posts a send(). *)
LEMMA QuietUser ==
  ASSUME IInv, NEW u \in User, UserStep(u)
  PROVE  Quiet \/ \E shape \in Shapes : SendPosts(u, shape)
<1>1. CASE Send(u) \/ DropRef(u) \/ AssignTimer(u) \/ RunAfter(u)
  <2>1. Still /\ socket' = socket /\ queue' = queue /\ fault' = fault
    BY <1>1, Zenon DEF Send, DropRef, AssignTimer, RunAfter, Still, conn, ops, hist
  <2>2. QED
    BY Zenon, <2>1 DEF Still, Quiet
<1>2. CASE Close(u, "close") \/ Close(u, "delay")
  <2>1. Still /\ socket' = socket /\ queue' = queue /\ fault' = fault
    BY <1>2, Zenon DEF Close, Still, ops, hist
  <2>2. QED
    BY Zenon, <2>1 DEF Still, Quiet
<1>3. CASE ClosePosts(u)
  <2>1. /\ Still /\ socket' = socket /\ fault' = fault
        /\ queue' = Append(queue, H("close", "ok", << >>))
    BY Zenon, <1>3 DEF ClosePosts, Still, conn, ops, hist
  <2>2. H("close", "ok", << >>) \in Handler /\ H("close", "ok", << >>).op = "close"
    <3>1. << >> \in Seq(Piece)
      OBVIOUS
    <3>2. QED
      BY <3>1, Zenon DEF H, Handler, Op
  <2>3. QED
    BY Zenon, <2>1, <2>2 DEF Still, Quiet, WriteOp
<1>4. QED
  BY <1>1, <1>2, <1>3, Zenon DEF UserStep, UserFinishes

(* Every step keeps the flow in order and, when no piece and no part of a  *)
(* write may be dropped, whole.                                            *)
LEMMA NextStream ==
  ASSUME IInv, OInv, [Next]_vars
  PROVE  OInv' /\ (Whole /\ SInv => SInv')
<1>1. Quiet => OInv' /\ (SInv => SInv')
  BY QuietOInv, QuietSInv, Zenon DEF IInv
<1>2. CASE LoopStep
  <2>1. \/ RunSendInLoop \/ HandleWrite
        \/ CallbackReturns \/ FinishClose
        \/ \/ ConnectEstablished \/ ConnectEstablishedThrows \/ RunClose \/ HandleRead
           \/ HandleReadError \/ HandleWriteError \/ HandleWriteFreed
    BY <1>2, Zenon DEF LoopStep
  <2>2. QED
    BY <1>1, <2>1, RunSendInLoopStream, HandleWriteStream, QuietHandlers, QuietOthers, Zenon
<1>3. CASE CallbackStep
  BY <1>1, <1>3, SendFromCallbackStream, QuietOthers, Zenon DEF CallbackStep
<1>4. CASE \E u \in User : UserStep(u)
  BY <1>1, <1>4, SendPostsStream, QuietUser, Zenon
<1>5. CASE IoStep
  BY <1>1, <1>5, CompleteWriteStream, QuietOthers, Zenon DEF IoStep
<1>6. CASE OwnerReleases \/ UNCHANGED vars
  BY <1>1, <1>6, QuietOthers, Zenon
<1>7. QED
  BY <1>2, <1>3, <1>4, <1>5, <1>6, Zenon DEF Next

(* Initially nothing is under way and nothing was accepted. *)
LEMMA InitStream ==
  ASSUME Init
  PROVE  OInv /\ SInv
<1>1. PICK h : h = H("established", "ok", << >>)
  BY Zenon
<1>2. h \in Handler /\ h.op = "established"
  BY <1>1 DEF H, Handler, Op
<1>3. /\ queue = <<h>> /\ wire = << >> /\ flying = << >> /\ output_buffer = << >>
      /\ \A s \in Sender : sent[s] = << >>
  BY Zenon, <1>1 DEF Init
<1>4. << >> \in Seq(Handler) /\ queue = Append(<< >>, h) /\ Len(queue) = 1 /\ queue[1] = h
  BY <1>2, <1>3
<1>5. Posted(queue) = << >>
  <2>1. PICK e : e = << >>
    BY Zenon
  <2>2. e \in Seq(Handler) /\ h.op # "send" /\ queue = Append(e, h)
    BY Zenon, <1>2, <1>4, <2>1
  <2>3. Posted(queue) = Posted(e)
    BY <1>2, <2>2, NothingPosted, Zenon
  <2>4. PICK m : m = [i \in 1..Len(e) |-> Carries(e[i])]
    BY ZenonT(30)
  <2>5. Posted(e) = FlattenSeq(m) /\ m \in Seq(Piece) /\ Len(m) = Len(e)
    BY <2>2, <2>4, PostedMap, Zenon
  <2>6. m = << >>
    BY <2>1, <2>5
  <2>7. QED
    BY <2>3, <2>5, <2>6, FlattenEmpty, Zenon
<1>6. PICK e : e = << >>
  BY Zenon
<1>7. Elements(e) = {} /\ InOrder(e) /\ All(e, e, e, e) = {}
  <2>1. Elements(e) = {} /\ InOrder(e)
    BY <1>6, EmptyInOrder, Zenon
  <2>2. QED
    BY Zenon, <2>1 DEF All
<1>8. Line(e, e, e, e)
  BY <1>7, Zenon DEF Line, Prec
<1>9. /\ FlattenSeq(wire) = e /\ FlattenSeq(flying) = e /\ FlattenSeq(output_buffer) = e
      /\ Posted(queue) = e
  BY <1>3, <1>5, <1>6, FlattenEmpty, Zenon
<1>10. OInv
  <2>1. Known(Loop, e, e, e, e, sent)
    BY <1>7, <1>8, Zenon DEF Known
  <2>2. QED
    BY <1>7, <1>9, <2>1, Zenon DEF OInv, WireInOrder
<1>11. Underway = {}
  BY <1>7, <1>9, Zenon DEF Underway
<1>12. Accepted = {}
  <2>1. \A s \in Sender : 1..Len(sent[s]) = {}
    BY <1>3
  <2>2. QED
    BY <2>1, Zenon DEF Accepted
<1>13. \A i \in 1..Len(queue) : queue[i].op # "send"
  BY <1>2, <1>4
<1>14. QED
  BY <1>3, <1>10, <1>11, <1>12, <1>13, Zenon DEF SInv

(* The invariant holds in every reachable state. *)
LEMMA SpecIInv == Spec => []IInv
  (* The initial state satisfies the invariant. *)
<1>InitIInv.
     Init => IInv
  <2> SUFFICES ASSUME Init PROVE IInv
    BY Zenon
  <2> DEFINE h == H("established", "ok", << >>)
  <2>1. h \in Handler /\ h.op = "established" /\ h.ec = "ok"
    BY DEF H, Handler, Op
  <2>2. queue = <<h>>
    BY Zenon DEF Init
  <2> HIDE DEF h
  <2>3. queue \in Seq(Handler) /\ Len(queue) = 1 /\ queue[1] = h
    BY <2>1, <2>2
  <2>4. \A i \in 1..Len(queue) : queue[i] = h
    BY <2>3
  <2>5. NoWrite /\ OneWrite /\ NoRead /\ OneRead /\ ~NoEstablished
    BY <2>1, <2>3, <2>4 DEF NoWrite, OneWrite, NoRead, OneRead, NoEstablished, Queued, WriteOp
  <2>6. QInv
    BY Zenon, <2>1, <2>4 DEF QInv
  <2>7. TypeOK
    <3>1. /\ sent \in [Sender -> Seq(Shapes)]
          /\ tpc \in [User -> {"idle", "send", "close", "delay", "assign"}]
      BY DEF Init
    <3>2. /\ output_buffer \in Seq(Piece) /\ flying \in Seq(Piece) /\ wire \in Seq(Piece)
          /\ ref \subseteq User
      BY DEF Init
    <3>3. reads \in 0..MaxReads /\ ups \in Nat /\ downs \in Nat
      BY ConstAssumption DEF Init
    <3>4. /\ socket \in BOOLEAN /\ is_sending \in BOOLEAN
          /\ delay_close_timer \in BOOLEAN /\ reading \in BOOLEAN
      BY ZenonT(30) DEF Init
    <3>5. /\ status \in {"kConnected", "kDisconnecting", "kDisconnected"}
          /\ pc \in {"run", "up", "msg", "down"} /\ writing \in WriteOp \cup {"none"}
          /\ timer \in {"none", "waiting", "cancelled"}
          /\ owner \in {"held", "releasing", "released"}
          /\ fault \in {"none", "null_socket", "freed_this", "uncaught"}
      BY Zenon DEF Init
    <3>6. QED
      BY Zenon, <2>3, <3>1, <3>2, <3>3, <3>4, <3>5 DEF TypeOK
  <2>8. WInv /\ RInv /\ OutputNeverStranded
    BY <2>3, <2>5 DEF Init, WInv, RInv, OutputNeverStranded
  <2>9. Life
    BY <2>3, <2>5 DEF Init, Life
  <2>10. QED
    BY Zenon, <2>6, <2>7, <2>8, <2>9 DEF IInv

<1>1. QED
  BY <1>InitIInv, NextIInv, PTL DEF Spec

(* Every member, queue and history variable keeps its type: in particular  *)
(* writePieceQueue() and readPiece() always handle whole pieces.           *)
THEOREM TypeCorrect == Spec => []TypeOK
<1>1. IInv => TypeOK
  BY Zenon DEF IInv
<1>2. QED
  BY <1>1, SpecIInv, PTL

(* is_sending_ is set exactly while one async_send is outstanding, for any *)
(* number of threads that call send() and close().                         *)
THEOREM WritesNeverOverlap == Spec => []OneWriteInFlight
<1>1. IInv => OneWriteInFlight
  BY Zenon DEF IInv, WInv, OneWriteInFlight, NoWrite, OneWrite
<1>2. QED
  BY <1>1, SpecIInv, PTL

(* While the socket is open, output that waits has a write before it. *)
THEOREM OutputAlwaysCarried == Spec => []OutputNeverStranded
<1>1. IInv => OutputNeverStranded
  BY Zenon DEF IInv
<1>2. QED
  BY <1>1, SpecIInv, PTL

(* An open connection has exactly one read, through every callback, error  *)
(* and close.                                                              *)
THEOREM ReadNeverLost == Spec => []ReadChain
<1>1. IInv => ReadChain
  BY Zenon DEF IInv, RInv, ReadChain, NoRead, OneRead
<1>2. QED
  BY <1>1, SpecIInv, PTL

(* connection_cb_ is called once up and at most once down, and the socket  *)
(* is closed between the two.                                              *)
THEOREM CallbacksCorrect == Spec => []CallbacksOnce
<1>1. IInv => CallbacksOnce
  BY DEF IInv, Life, CallbacksOnce
<1>2. QED
  BY <1>1, SpecIInv, PTL

(* ~TCPConn's assertion on status_ always holds. *)
THEOREM DestroyedDisconnected == Spec => []DestroyedOnlyDisconnected
<1>1. IInv => DestroyedOnlyDisconnected
  BY Zenon DEF IInv, Life, DestroyedOnlyDisconnected, Destroyed
<1>2. QED
  BY <1>1, SpecIInv, PTL

(* status_ is written by connectEstablished(), by the compare_exchange of  *)
(* the closers and by handleClose(), and never leaves its order.           *)
THEOREM StatusNeverGoesBack == Spec => StatusOrder
  (* The only steps that change status_ do so in its order. *)
<1>NextStatusOrder.
     ASSUME IInv, [Next]_vars, status' # status
     PROVE  \/ status = "kDisconnected" /\ ups = 0 /\ status' = "kConnected"
            \/ status = "kConnected" /\ status' = "kDisconnecting"
            \/ status = "kDisconnecting" /\ status' = "kDisconnected" /\ downs = 1
  <2> USE <1>NextStatusOrder
  <2>1. CASE ConnectEstablished \/ ConnectEstablishedThrows
    <3>1. Ready({"established"}) /\ status' = "kConnected"
      BY Zenon, <2>1 DEF ConnectEstablished, ConnectEstablishedThrows
    <3>2. ups = 0 /\ fault = "none"
      BY <3>1, Established
    <3>3. QED
      BY <3>1, <3>2, Zenon DEF IInv, Life
  <2>2. CASE HandleClose
    <3>1. status # "kDisconnected" /\ status' = "kDisconnecting"
      BY Zenon, <2>2 DEF HandleClose
    <3>2. QED
      BY Zenon, <3>1 DEF IInv, TypeOK
  <2>3. CASE FinishClose
    <3>1. fault = "none" /\ pc = "down" /\ status' = "kDisconnected"
      BY Zenon, <2>3 DEF FinishClose
    <3>2. QED
      BY Zenon, <3>1 DEF IInv, Life
  <2>4. CASE CloseFromCallback \/ CloseWithDelayFromCallback
               \/ \E u \in User : Close(u, "close") \/ Close(u, "delay")
    BY Zenon, <2>4 DEF CloseFromCallback, CloseWithDelayFromCallback, InCallback, Close
  <2>5. ASSUME LoopStep, ~ConnectEstablished, ~ConnectEstablishedThrows, ~FinishClose
        PROVE  HandleClose
    BY ZenonT(30), <2>5 DEF LoopStep, RunSendInLoop, RunClose, HandleRead, HandleReadError, HandleWrite,
       HandleWriteError, HandleWriteFreed, CallbackReturns, HandleError, conn
  <2>6. ASSUME NEW u \in User, UserStep(u) PROVE Close(u, "close") \/ Close(u, "delay")
    BY ZenonT(30), <2>6 DEF UserStep, UserFinishes, Send, SendPosts, ClosePosts, RunAfter, AssignTimer,
       DropRef, conn
  <2>7. ASSUME CallbackStep PROVE CloseFromCallback \/ CloseWithDelayFromCallback
    BY <2>7, Zenon DEF CallbackStep, SendFromCallback
  <2>8. ~IoStep /\ ~OwnerReleases /\ ~(UNCHANGED vars)
    BY ZenonT(30) DEF IoStep, CompleteRead, CompleteWrite, TimerFires, OwnerReleases, vars, conn
  <2>9. QED
    BY Zenon, <2>1, <2>2, <2>3, <2>4, <2>5, <2>6, <2>7, <2>8 DEF Next

<1>1. IInv /\ [Next]_vars =>
        [status' # status =>
           \/ status = "kDisconnected" /\ ups = 0 /\ status' = "kConnected"
           \/ status = "kConnected" /\ status' = "kDisconnecting"
           \/ status = "kDisconnecting" /\ status' = "kDisconnected" /\ downs = 1]_vars
  BY Zenon, <1>NextStatusOrder
<1>2. QED
  BY <1>1, SpecIInv, PTL DEF Spec, StatusOrder

(* In all reachable states the bytes are in order on their whole way. *)
LEMMA SpecOInv == Spec => []OInv
<1>1. Init => OInv
  BY Zenon, InitStream
<1>2. IInv /\ OInv /\ [Next]_vars => OInv'
  BY Zenon, NextStream
<1>3. QED
  BY <1>1, <1>2, SpecIInv, PTL DEF Spec

(* What reaches the peer of a sender's bytes is in the order of its send() *)
(* calls and has no duplicate, whatever is dropped or split on the way.    *)
THEOREM WireOrder == Spec => []WireInOrder
<1>1. OInv => WireInOrder
  BY Zenon DEF OInv
<1>2. QED
  BY <1>1, SpecOInv, PTL

(* While the socket is open and no write has failed, all that send()       *)
(* accepted is under way or on the wire, in order: for sends of one piece  *)
(* and writes that are never short (both are necessary:                    *)
(* writePieceQueue() keeps the first piece of a chain, handleWrite() does  *)
(* not send the rest of a short write).                                    *)
THEOREM NoByteLost ==
  (\A shape \in Shapes : Len(shape) = 1) /\ ~ShortWrites => (Spec => []StreamIntact)
<1> SUFFICES ASSUME Whole PROVE Spec => []StreamIntact
  BY Zenon DEF Whole
<1>1. Init => OInv /\ SInv
  BY Zenon, InitStream
<1>2. IInv /\ OInv /\ SInv /\ [Next]_vars => SInv'
  BY Zenon, NextStream
<1>3. IInv /\ OInv /\ SInv => StreamIntact
  <2> SUFFICES ASSUME IInv, OInv, SInv, fault = "none", socket,
                      ~(\E i \in Queued(WriteOp) : queue[i].ec = "error")
               PROVE  LET flow == ((FlattenSeq(wire) \o FlattenSeq(flying))
                                      \o FlattenSeq(output_buffer)) \o Posted(queue)
                      IN  InOrder(flow) /\ Elements(flow) = Accepted
    BY Zenon DEF StreamIntact
  <2>1. PICK w, f, o, p :
          /\ w = FlattenSeq(wire) /\ f = FlattenSeq(flying) /\ o = FlattenSeq(output_buffer)
          /\ p = Posted(queue)
    BY Zenon
  <2>2. w \in Seq(Byte) /\ f \in Seq(Byte) /\ o \in Seq(Byte) /\ p \in Seq(Byte)
    BY <2>1, FlowType, Zenon DEF IInv
  <2>3. Line(w, f, o, p)
    BY <2>1, Zenon DEF OInv, Known
  <2>4. Clean(queue)
    BY Zenon DEF Clean, Queued
  <2>5. All(w, f, o, p) = Accepted
    BY <2>1, <2>4, Zenon DEF SInv, Underway
  <2>6. /\ InOrder(((w \o f) \o o) \o p)
        /\ Elements(((w \o f) \o o) \o p) = All(w, f, o, p)
    BY <2>2, <2>3, LineFlow, ZenonT(30)
  <2>7. QED
    BY <2>1, <2>5, <2>6, Zenon
<1>4. QED
  BY <1>1, <1>2, <1>3, SpecIInv, SpecOInv, PTL DEF Spec
=============================================================================
