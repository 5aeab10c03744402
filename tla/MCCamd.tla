-------------------------------- MODULE MCCamd --------------------------------
(* Jumps at the limits of timewatch; -60 makes a file as old as the one       *)
(* before it, -61 older.                                                     *)
EXTENDS Camd

JumpSizes == {-61, -60, 51}
=============================================================================
