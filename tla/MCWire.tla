------------------------------- MODULE MCWire -------------------------------
(* An instance of Wire for the model checker: frames of three bytes, which  *)
(* a read() may cut anywhere.                                               *)
EXTENDS Wire

AnyPiece == 1 .. FrameSize
=============================================================================
