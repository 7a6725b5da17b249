----------------------------- MODULE MCUsbMount -----------------------------
(***************************************************************************)
(* Instance of UsbMount for TLC.                                           *)
(***************************************************************************)
EXTENDS UsbMount, TLC

MCSymmetry == Permutations(Partitions) \cup Permutations(Labels)
=============================================================================
