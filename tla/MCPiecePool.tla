---------------------------- MODULE MCPiecePool ----------------------------
(* PiecePool for TLC: pieces and threads are interchangeable. *)
EXTENDS PiecePool, TLC

Symmetry == Permutations(Thread) \cup Permutations(Piece)
=============================================================================
