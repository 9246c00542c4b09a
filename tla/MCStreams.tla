----------------------------- MODULE MCStreams -----------------------------
(***************************************************************************)
(* Streams for TLC.                                                        *)
(***************************************************************************)
EXTENDS Streams
=============================================================================
