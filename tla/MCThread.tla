------------------------------- MODULE MCThread -------------------------------
(***************************************************************************)
(* EngineThread for TLC: two error numbers, so that one of an earlier call *)
(* can be told from the one of this call.                                  *)
(***************************************************************************)
EXTENDS EngineThread

CONSTANTS e1, e2, zero

MCErrors == {e1, e2}
=============================================================================
