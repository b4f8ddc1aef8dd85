----------------------------- MODULE ByteQueue -----------------------------
(***************************************************************************)
(* What Buffer promises to its users: byte queues that can be read and     *)
(* skipped at the front, written at the back, prepended to, moved between  *)
(* and emptied.  How the bytes are split into pieces is not visible.       *)
(***************************************************************************)
EXTENDS Integers, Sequences

CONSTANT Name

VARIABLES
    bytes,      \* the content of each buffer
    made,       \* bytes made so far, which are numbered from 1
    got         \* what the last operation handed to the caller

vars == <<bytes, made, got>>

Init == bytes = [b \in Name |-> << >>] /\ made = 0 /\ got = << >>

(* The bytes an operation adds are the next ones. *)
New == [i \in 1..(made' - made) |-> made + i]

Back(b) ==
    /\ made' >= made
    /\ bytes' = [bytes EXCEPT ![b] = @ \o New]
    /\ got' = << >>

Front(b) ==
    /\ made' >= made
    /\ bytes' = [bytes EXCEPT ![b] = New \o @]
    /\ got' = << >>

(* Bytes leave at the front; the caller gets exactly those, or none. *)
Take(b) ==
    /\ \E n \in 0..Len(bytes[b]) :
         /\ bytes' = [bytes EXCEPT ![b] = SubSeq(@, n + 1, Len(@))]
         /\ got' = SubSeq(bytes[b], 1, n) \/ got' = << >>
    /\ made' = made

Move(b, c) ==
    /\ \E n \in 1..Len(bytes[b]) :
         bytes' = [bytes EXCEPT ![b] = SubSeq(@, n + 1, Len(@)),
                                ![c] = @ \o SubSeq(bytes[b], 1, n)]
    /\ got' = << >> /\ made' = made

Swap(b, c) ==
    /\ bytes' = [bytes EXCEPT ![b] = bytes[c], ![c] = bytes[b]]
    /\ got' = << >> /\ made' = made

Next ==
    \/ \E b \in Name : Back(b) \/ Front(b) \/ Take(b)
    \/ \E b, c \in Name : b # c /\ (Move(b, c) \/ Swap(b, c))

Spec == Init /\ [][Next]_vars
=============================================================================
