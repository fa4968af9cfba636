------------------------- MODULE MCMatrixConnection -------------------------
(* Instances of MatrixConnection for TLC. *)
EXTENDS MatrixConnection
=============================================================================
