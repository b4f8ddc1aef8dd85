------------------------------- MODULE Codec -------------------------------
(***************************************************************************)
(* ProtobufCodec (net/protobuf/codec.cpp) with the stream adapters, as     *)
(* functions of an input buffer: framing, and parsing of one frame.  The   *)
(* loop of onMessage() and its callbacks are actions of Echo.              *)
(*                                                                         *)
(* Bytes are numbers below 256.  A message has a type and two fields; a    *)
(* field is a tag and one byte, and is not written when it is 0 or empty,  *)
(* as proto3 has it.                                                       *)
(***************************************************************************)
EXTENDS Pieces

CONSTANTS
    kMaxMessageLen,
    Type,           \* message types
    Known,          \* those of the generated pool of the receiver
    TypeName,       \* their names, as bytes without the closing NUL
    Garbage         \* what an uninitialised byte of an int32 may hold

ASSUME CodecAssumption ==
    /\ kMaxMessageLen \in Nat
    /\ DOMAIN TypeName = Type /\ Known \subseteq Type
    /\ \A t \in Type : TypeName[t] \in Seq(1..127)
    /\ Garbage \subseteq 0..127

kHeaderLen == 4
kMinMessageLen == 2 * kHeaderLen + 2

(* Int32 in network order, and back. *)
Int32(n) == <<n \div 16777216, (n \div 65536) % 256, (n \div 256) % 256, n % 256>>
Value(b) == ((b[1] * 256 + b[2]) * 256 + b[3]) * 256 + b[4]

Message(t, id, text) == [type |-> t, id |-> id, text |-> text]
Body(m) ==
    (IF m.id = 0 THEN << >> ELSE <<8, m.id>>) \o (IF m.text = 0 THEN << >> ELSE <<18, m.text>>)

(* BufferOutputStream: flatNext() lends the room of the last piece or of a *)
(* new one and flatBackUp() takes back what the message did not use: the   *)
(* bytes come to lie where write() would put them.                         *)
FlatOutput(ps, b) == Fill(ps, b)

(* fillEmptyBuffer(): room for the header, the length of the name, the     *)
(* name with its NUL, the body, and the header put in front.               *)
FillEmptyBuffer(m) ==
    LET name == Append(TypeName[m.type], 0)
        ps   == FlatOutput(Fill(<<Piece(kHeaderLen, << >>)>>, Int32(Len(name)) \o name), Body(m))
        p    == Head(ps)
    IN  <<Piece(p.off - kHeaderLen, Int32(Len(Content(ps))) \o p.data)>> \o Tail(ps)

-----------------------------------------------------------------------------
(* The input buffer: its pieces, length_, and whether tail_ points to the  *)
(* last piece (it is null otherwise).                                      *)
Input == [ps : Seq([off : Nat, data : Seq(0..255)]), len : Nat, tail : BOOLEAN]
EmptyInput == [ps |-> << >>, len |-> 0, tail |-> TRUE]

(* InputBuffer::writePiece() of a new piece with data d.  With tail_ null  *)
(* push() makes the new piece the only one.                                *)
WritePiece(in, d) ==
    [ps |-> IF ~in.tail THEN <<Piece(0, d)>>
            ELSE IF Mergeable(in.ps, Len(d)) THEN Merge(in.ps, d)
            ELSE Append(in.ps, Piece(0, d)),
     len |-> in.len + Len(d),
     tail |-> TRUE]

(* read() and skip() of n bytes in all. *)
Consume(in, n) ==
    LET ps == Drop(in.ps, n)
    IN  [ps |-> ps, len |-> in.len - n, tail |-> in.tail \/ ps = << >>]

(* The same when the last bytes went through BufferInputStream: pieces are *)
(* popped as they are read, and what is left of the last is put back at    *)
(* the head, which does not set tail_.                                     *)
ConsumeFlat(in, n) ==
    LET ps == Drop(in.ps, n)
    IN  [ps |-> ps, len |-> in.len - n,
         tail |-> ps = << >> \/ Left(in.ps, n) = 0 \/ Len(ps) > 1]

(* The list ends before n bytes: the loops follow a null front(). *)
Short(in, n) == Len(Content(in.ps)) < n

(* peek() of an int32 that spans two pieces copies what follows the first  *)
(* part to a place beyond the variable, whose other bytes stay as they are. *)
Straddles(in) == in.ps # << >> /\ Len(Head(in.ps).data) < kHeaderLen
PeekInt32(in) ==
    LET known == Head(in.ps).data
    IN  {Value(known \o rest) : rest \in [1..(kHeaderLen - Len(known)) -> Garbage]}

-----------------------------------------------------------------------------
(* The protobuf parser on a stream of bytes b: it reads fields until the   *)
(* stream ends or a tag is 0, which it consumes.                           *)
ParseEnd(b) ==
    LET ends == {i \in 1..Len(b) : i % 2 = 1 /\ b[i] = 0}
    IN  IF ends = {} THEN Len(b) ELSE Min(ends)

FieldTag(b, tag) == tag     \* mutant: off by one, the tag for the value
Field(b, tag) ==
    LET at == {i \in 1..(ParseEnd(b) - 1) : i % 2 = 1 /\ b[i] = tag}
    IN  IF at = {} THEN 0 ELSE b[Max(at) + 1]

(* createMessage(): the pool compares names up to their first NUL. *)
TypeOf(name) ==
    LET nul == {i \in 1..Len(name) : name[i] = 0}
        key == IF nul = {} THEN name ELSE SubSeq(name, 1, Min(nul) - 1)
    IN  {t \in Known : TypeName[t] = key}

Failed(n, error) == [used |-> n, error |-> error, msg |-> << >>]

(* parse() on the bytes b of a list whose buffer counts len: the result    *)
(* and the bytes used.  The length of the frame is not looked at.  Error   *)
(* "null" stands for a read beyond the list of pieces.                     *)
Parse(b, len) ==
    LET nameLen == Value(b)
        start   == kHeaderLen + nameLen
        types   == TypeOf(SubSeq(b, kHeaderLen + 1, start))
        body    == SubSeq(b, start + 1, Len(b))
    IN  IF Len(b) < kHeaderLen THEN Failed(0, "null")
        ELSE IF nameLen <= 0 THEN Failed(kHeaderLen, "kInvalidNameLen")
        ELSE IF len < start THEN Failed(kHeaderLen, "kParseError")
        ELSE IF Len(b) < start THEN Failed(kHeaderLen, "null")
        ELSE IF types = {} THEN Failed(start, "kUnknownMessageType")
        ELSE [used |-> start + ParseEnd(body), error |-> "kNoError",
              msg |-> Message(CHOOSE t \in types : TRUE, Field(body, 8), Field(body, 18))]
=============================================================================
