------------------------------- MODULE MCLoops -------------------------------
(***************************************************************************)
(* TransferLoops for TLC: files of up to five bytes, chunks of up to two   *)
(* for TransmitFile and sendfile64, blocks of two, and a stream of three.  *)
(***************************************************************************)
EXTENDS TransferLoops

MCSizes == 0..5
=============================================================================
