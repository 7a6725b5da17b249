----------------------------- MODULE MCShutdown -----------------------------
(***************************************************************************)
(* Instances of Shutdown for TLC.                                          *)
(***************************************************************************)
EXTENDS Shutdown

MCFormats == {"MJPEG", "YUYV"}
MCNative == {"YUYV", "YUV420"}
MCSinkFaults == {"reqbufs", "more", "fewer", "query", "size", "mmap", "dqbuf"}
MCCameraFaults == {"alloc", "fewer", "start", "format"}
MCNone == {}
=============================================================================
