------------------------------- MODULE SeqOps -------------------------------
(***************************************************************************)
(* The operators on sequences that lists of pieces need.  SequencesExt has *)
(* them too, but all that it extends would be carried into every           *)
(* obligation of the proofs about the modules that use them.               *)
(***************************************************************************)
EXTENDS Integers, Sequences

Last(s) == s[Len(s)]
Front(s) == SubSeq(s, 1, Len(s) - 1)
IsPrefix(s, t) == Len(s) <= Len(t) /\ s = SubSeq(t, 1, Len(s))

(* The concatenation of the sequences in ss: flat[i] is that of the first  *)
(* i of them.                                                              *)
FlattenSeq(ss) ==
    LET flat[i \in 0..Len(ss)] == IF i = 0 THEN << >> ELSE flat[i - 1] \o ss[i]
    IN  flat[Len(ss)]

(* What a sequence holds. *)
Elements(s) == {s[i] : i \in 1..Len(s)}

(* A byte is known by its sender, its call and its place in the call: the  *)
(* order in which one sender sent its bytes, and a sequence that keeps to  *)
(* it.                                                                     *)
Before(a, b) == \E d \in 2..4 : (\A e \in 2..(d - 1) : a[e] = b[e]) /\ a[d] < b[d]
InOrder(bytes) ==
    \A i, j \in 1..Len(bytes) :
      i < j /\ bytes[i][1] = bytes[j][1] => Before(bytes[i], bytes[j])
=============================================================================
