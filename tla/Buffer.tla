------------------------------- MODULE Buffer -------------------------------
(***************************************************************************)
(* Buffer (net/buffer.cpp) and the input buffer of a connection            *)
(* (TCPConn::InputBuffer in net/tcp_conn.cpp): a list of pieces of         *)
(* Capacity bytes, each with the offset of its first byte, and a separate  *)
(* count of the bytes.  Bytes are numbered in the order they are made, so  *)
(* that loss, duplication and reordering can be told apart.                *)
(***************************************************************************)
EXTENDS Pieces

CONSTANTS
    Name,           \* buffers
    Input,          \* the one that is a connection's InputBuffer
    WriteSizes,     \* sizes of the data given to write()
    MaxBytes,       \* bound: bytes ever put into a buffer
    StaleLen        \* lengths another thread may give a piece after deletePiece

ASSUME ConstAssumption ==
    /\ WriteSizes \subseteq Nat
    /\ MaxBytes \in Nat
    /\ Input \in Name
    /\ StaleLen \subseteq Nat

VARIABLES
    pieces,     \* the Queue<Piece> of each buffer
    length,     \* length_
    fresh,      \* bytes made so far
    got         \* what the last operation handed to the caller

vars == <<pieces, length, fresh, got>>

Data(n) == [i \in 1..n |-> fresh + i]

Init ==
    /\ pieces = [b \in Name |-> << >>] /\ length = [b \in Name |-> 0]
    /\ fresh = 0 /\ got = << >>

-----------------------------------------------------------------------------
(* The operations. *)

Set(b, ps, n) ==
    /\ pieces' = [pieces EXCEPT ![b] = ps]
    /\ length' = [length EXCEPT ![b] = n]

Write(b, n) ==
    /\ fresh + n <= MaxBytes
    /\ Set(b, Fill(pieces[b], Data(n)), length[b] + n)
    /\ fresh' = fresh + n /\ got' = << >>

ReservedPrepend(b, n) ==
    /\ length[b] = 0 /\ pieces[b] = << >> /\ n < Capacity
    /\ Set(b, <<Piece(n, << >>)>>, length[b])
    /\ got' = << >> /\ UNCHANGED fresh

Prepend(b, n) ==
    /\ fresh + n <= MaxBytes
    /\ pieces[b] # << >> /\ n <= Head(pieces[b]).off
    /\ LET p == Head(pieces[b])
       IN  Set(b, <<Piece(p.off - n, Data(n) \o p.data)>> \o Tail(pieces[b]),
               length[b] + n)
    /\ fresh' = fresh + n /\ got' = << >>

(* read() into memory; skip() is the same without the copy. *)
Read(b, n) ==
    /\ n > 0 /\ length[b] >= n
    /\ got' = SubSeq(Content(pieces[b]), 1, n)
    /\ Set(b, Drop(pieces[b], n), length[b] - n)
    /\ UNCHANGED fresh

Skip(b, n) ==
    /\ length[b] >= n /\ pieces[b] # << >>
    /\ Set(b, Drop(pieces[b], n), length[b] - n)
    /\ got' = << >> /\ UNCHANGED fresh

(* read() into a buffer, which the header calls empty_buf. *)
ReadToBuffer(b, c, n) ==
    /\ n > 0 /\ length[b] >= n /\ pieces[c] = << >>
    /\ pieces' = [pieces EXCEPT ![b] = Drop(@, n), ![c] = @ \o Moved(pieces[b], n)]
    /\ length' = [length EXCEPT ![b] = @ - n, ![c] = @ + n]
    /\ got' = << >> /\ UNCHANGED fresh

(* moveToQueueHead() gives the list away, clear() deletes it. *)
MoveToQueueHead(b) ==
    /\ got' = Content(pieces[b])
    /\ Set(b, << >>, 0)
    /\ UNCHANGED fresh

Clear(b) == Set(b, << >>, 0) /\ got' = << >> /\ UNCHANGED fresh

Swap(b, c) ==
    /\ pieces' = [pieces EXCEPT ![b] = pieces[c], ![c] = pieces[b]]
    /\ length' = [length EXCEPT ![b] = length[c], ![c] = length[b]]
    /\ got' = << >> /\ UNCHANGED fresh

(* InputBuffer::writePiece(): a piece of n bytes is merged into the last   *)
(* one if it fits, which is first moved to the start of its data[], or     *)
(* pushed.  After a merge the length is read from the piece just given to  *)
(* deletePiece(), which another thread may have taken by then.             *)
WritePiece(n) ==
    /\ fresh + n <= MaxBytes
    /\ LET ps == pieces[Input]
       IN  \/ /\ Mergeable(ps, n)
              /\ \E len \in {n} \cup StaleLen :
                   Set(Input, Merge(ps, Data(n)), length[Input] + len)
           \/ /\ ~Mergeable(ps, n)
              /\ Set(Input, Append(ps, Piece(0, Data(n))), length[Input] + n)
    /\ fresh' = fresh + n /\ got' = << >>

Next ==
    \/ \E b \in Name :
         \/ \E n \in WriteSizes : Write(b, n)
         \/ \E n \in 1..(Capacity - 1) : ReservedPrepend(b, n) \/ Prepend(b, n)
         \/ \E n \in 0..MaxBytes : Read(b, n) \/ Skip(b, n)
         \/ MoveToQueueHead(b) \/ Clear(b)
    \/ \E n \in 1..Capacity : WritePiece(n)
    \/ \E b, c \in Name : b # c /\ (Swap(b, c) \/ \E n \in 1..MaxBytes : ReadToBuffer(b, c, n))

Spec == Init /\ [][Next]_vars

-----------------------------------------------------------------------------
(* The types; and no operation writes beyond data[] of a piece, so that    *)
(* the uint16_t and size_t differences in write() never wrap.              *)
TypeOK ==
    /\ \A b \in Name : \A i \in 1..Len(pieces[b]) :
         /\ pieces[b][i].off \in 0..Capacity /\ Range(pieces[b][i].data) \subseteq 1..MaxBytes
         /\ pieces[b][i].off + Len(pieces[b][i].data) <= Capacity
    /\ length \in [Name -> 0..MaxBytes] /\ fresh \in 0..MaxBytes

(* length() is the number of bytes in the pieces after any sequence of     *)
(* calls: the loops of read() and skip() rely on it to end before the list *)
(* does.                                                                   *)
LengthExact == \A b \in Name : length[b] = Len(Content(pieces[b]))

(* length() never promises a byte that is not there.  read() asserts       *)
(* length() >= len and then trusts it: its loop ends only at the last of   *)
(* the len bytes and would follow a null front() otherwise.                *)
LengthNeverOver == \A b \in Name : length[b] <= Len(Content(pieces[b]))

(* A chain that send() takes has no empty piece: writePieceQueue() asserts *)
(* item->len > 0 of each.                                                  *)
ChainNonEmpty ==
    \A b \in Name : length[b] > 0 =>
      \A i \in 1..Len(pieces[b]) : pieces[b][i].data # << >>

(* The list of pieces behaves as a queue of bytes: every operation of      *)
(* Buffer is one of ByteQueue's on the concatenated content.               *)
Queue == INSTANCE ByteQueue
           WITH bytes <- [b \in Name |-> Content(pieces[b])], made <- fresh
ImplementsByteQueue == Queue!Spec
=============================================================================
