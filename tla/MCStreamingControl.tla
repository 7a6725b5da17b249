------------------------- MODULE MCStreamingControl -------------------------
(***************************************************************************)
(* Instances of StreamingControl for TLC, and what the sources say of the  *)
(* frame rate that does not hold for slow ones.                            *)
(***************************************************************************)
EXTENDS StreamingControl

Frame(name, intervals) == [name |-> name, size |-> name, intervals |-> intervals]
Format(name, type, frames) == [name |-> name, type |-> type, guid |-> "YUY2", frames |-> frames]
Uvc(name, formats) == [name |-> name, kind |-> "uvc", formats |-> formats]
Gadget(name, udc, functions) == [name |-> name, udc |-> udc, functions |-> functions]
Video(udc, function) == [udc |-> udc, function |-> function]
World(gadgets, videos, gadget, name) ==
  [gadgets |-> gadgets, videos |-> videos, function |-> [gadget |-> gadget, name |-> name]]

\* As scripts/uvc-gadget.sh makes them: u before m, and frames in no order.
Mjpeg == Format(1, "mjpeg", <<Frame(1, <<333333, 666666>>)>>)
Uncompressed == Format(2, "uncompressed", <<Frame(2, <<333333>>), Frame(1, <<500000>>)>>)
Acm == [name |-> "acm.0", kind |-> "acm", formats |-> << >>]

\* Two UVC functions, whose nodes are in the other order, one named by its path
\* and one by its name; and three worlds the program gives up in: the first
\* function is of another kind, the first gadget with the name is not bound, a
\* format has a type the program does not know.
Two == <<Gadget("g1", "udc", <<Uvc("uvc.0", <<Mjpeg>>), Uvc("uvc.1", <<Uncompressed, Mjpeg>>)>>)>>
MCWorlds ==
  {World(Two, <<Video("udc", "uvc.1"), Video("udc", "uvc.0")>>, "g1", "uvc.1"),
   World(Two, <<Video("udc", "uvc.1"), Video("udc", "uvc.0")>>, "any", "uvc.0"),
   World(<<Gadget("letux", "udc", <<Acm, Uvc("uvc.0", <<Mjpeg>>)>>)>>, <<Video("udc", "uvc.0")>>, "any", "any"),
   World(<<Gadget("g0", "none", <<Uvc("uvc.0", <<Mjpeg>>)>>), Gadget("g1", "udc", <<Uvc("uvc.0", <<Mjpeg>>)>>)>>,
         <<Video("udc", "uvc.0")>>, "any", "uvc.0"),
   World(<<Gadget("g1", "udc", <<Uvc("uvc.0", <<Mjpeg, Format(3, "framebased", <<Frame(1, <<333333>>)>>)>>)>>)>>,
         <<Video("udc", "uvc.0")>>, "any", "any")}
MCHostIntervals == {0, 333333, 400000, 2000000}

\* The legacy driver, whose table has frames that last five seconds.
MCLegacy == {World(<< >>, <<Video("udc", "g_webcam")>>, "any", "any")}
MCSlowHostIntervals == {0, 20000000}

MCCameraRates == {15}

\* uvc.c:352, "fps is guaranteed to be non-zero and thus valid": a commit never
\* sets a frame rate of zero.
FpsNonZero == [][commit' # commit => rate' # 0]_vars
=============================================================================
