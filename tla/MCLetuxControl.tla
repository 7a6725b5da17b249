--------------------------- MODULE MCLetuxControl ---------------------------
(***************************************************************************)
(* An instance of LetuxControl for TLC: the tables uvc_formats, uvc_frames *)
(* of uvc-gadget.c, with their sizes in units of 640x360x2 bytes and their *)
(* intervals in units of 66.6666 ms.                                       *)
(***************************************************************************)
EXTENDS LetuxControl

MCFrames == <<[size |-> 1, intervals |-> <<1, 15, 75>>], [size |-> 4, intervals |-> <<75>>]>>
MCFormats == <<[mjpeg |-> FALSE, frames |-> MCFrames], [mjpeg |-> TRUE, frames |-> MCFrames]>>
=============================================================================
