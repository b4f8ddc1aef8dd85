------------------------------- MODULE Pieces -------------------------------
(***************************************************************************)
(* Lists of pieces (net/piece, net/buffer.cpp), without state: a piece has *)
(* the offset of its first byte and its data; the loops of Buffer's        *)
(* functions are functions of the list.                                    *)
(***************************************************************************)
EXTENDS Integers, Sequences, FiniteSets, FiniteSetsExt, SeqOps

CONSTANT Capacity       \* kPieceCapacity

ASSUME CapacityAssumption == Capacity \in Nat \ {0}

Piece(off, data) == [off |-> off, data |-> data]
Content(ps) == FlattenSeq([i \in 1..Len(ps) |-> ps[i].data])

(* The piece in which the loop of read() and skip() stops: the first by    *)
(* whose end n bytes have been passed.                                     *)
Stop(ps, n) == Min({j \in 1..Len(ps) : Len(Content(SubSeq(ps, 1, j))) >= n})

(* How many bytes of that piece are left behind. *)
Left(ps, n) == Len(Content(SubSeq(ps, 1, Stop(ps, n)))) - n

(* Mutants: a piece that is used up stays; the rest of a piece is lost. *)
DropKeepsEmpty(ps, n) ==
    LET j == Stop(ps, n)
        used == Len(ps[j].data) - Left(ps, n)
    IN  <<Piece(ps[j].off + used, SubSeq(ps[j].data, used + 1, Len(ps[j].data)))>>
          \o SubSeq(ps, j + 1, Len(ps))
DropWhole(ps, n) == SubSeq(ps, Stop(ps, n) + 1, Len(ps))

(* What read() and skip() leave of the list. *)
Drop(ps, n) ==
    LET j == Stop(ps, n)
        used == Len(ps[j].data) - Left(ps, n)
        rest == SubSeq(ps, j + 1, Len(ps))
    IN  IF Left(ps, n) = 0 THEN rest
        ELSE <<Piece(ps[j].off + used, SubSeq(ps[j].data, used + 1, Len(ps[j].data)))>>
               \o rest

(* What read() into a buffer pushes there: whole pieces, and a new piece   *)
(* for the first part of the last one.                                     *)
Moved(ps, n) ==
    LET j == Stop(ps, n)
        used == Len(ps[j].data) - Left(ps, n)
    IN  IF Left(ps, n) = 0 THEN SubSeq(ps, 1, j)
        ELSE Append(SubSeq(ps, 1, j - 1), Piece(0, SubSeq(ps[j].data, 1, used)))

Room(p) == Capacity - p.off - Len(p.data)

(* write(): fills the last piece (a new one if there is none or it is      *)
(* full), then new pieces for the rest.                                    *)
Fill(ps, d) ==
    LET qs == IF ps = << >> \/ Room(Last(ps)) = 0
              THEN Append(ps, Piece(0, << >>)) ELSE ps
        room == Room(Last(qs))
        more == IF Len(d) <= room THEN 0
                ELSE (Len(d) - room + Capacity - 1) \div Capacity
        chunk(k) == SubSeq(d, room + (k - 1) * Capacity + 1,
                           Min({room + k * Capacity, Len(d)}))
    IN  Append(Front(qs), Piece(Last(qs).off,
                                Last(qs).data \o SubSeq(d, 1, Min({room, Len(d)}))))
          \o [k \in 1..more |-> Piece(0, chunk(k))]

(* InputBuffer::writePiece() merges n bytes into the last piece if they    *)
(* fit, which is first moved to the start of its data[].                   *)
MergeableAny(ps, n) == ps # << >>       \* mutant: the sum is not compared
Mergeable(ps, n) == ps # << >> /\ Len(Last(ps).data) + n <= Capacity
Merge(ps, d) == Append(Front(ps), Piece(0, Last(ps).data \o d))
=============================================================================
