--------------------------- MODULE MCMjpegEncoder ---------------------------
(* A small instance of MjpegEncoder for TLC: three encode threads. *)
EXTENDS MjpegEncoder
=============================================================================
