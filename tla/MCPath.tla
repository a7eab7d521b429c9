-------------------------------- MODULE MCPath --------------------------------
(***************************************************************************)
(* PathBuffer for TLC: arrays of five bytes, strings of up to seven, and   *)
(* the length -1.                                                          *)
(***************************************************************************)
EXTENDS PathBuffer

MCLengths == -1..7
=============================================================================
