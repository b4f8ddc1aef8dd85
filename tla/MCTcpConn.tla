----------------------------- MODULE MCTcpConn -----------------------------
(* TcpConn for TLC: sends of one byte, two of which may share a write, and *)
(* of two pieces.                                                          *)
EXTENDS TcpConn

OneByte == {<<1>>}
MultiPiece == {<<1>>, <<2, 1>>}
=============================================================================
