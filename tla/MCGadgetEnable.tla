--------------------------- MODULE MCGadgetEnable ---------------------------
(***************************************************************************)
(* An instance of GadgetEnable for TLC: a series of calls, one after the   *)
(* other.                                                                  *)
(***************************************************************************)
EXTENDS GadgetEnable

MCKinds == <<"acm", "acm", "acm", "ecm", "rndis">>
=============================================================================
