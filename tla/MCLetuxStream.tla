---------------------------- MODULE MCLetuxStream ----------------------------
(***************************************************************************)
(* An instance of LetuxStream for TLC: the default of two buffers, a       *)
(* camera whose driver may grant three, and any one failure.               *)
(***************************************************************************)
EXTENDS LetuxStream

MCAnyFault == {"camon", "uvcon", "stall", "xfer", "reset", "qbuf"}
=============================================================================
