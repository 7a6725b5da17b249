--------------------------- MODULE CameraPipeline ---------------------------
(***************************************************************************)
(* A libcamera camera behind uvc-gadget (lib/libcamera-source.cpp with the *)
(* stream lifecycle of lib/stream.c): three parties outside the event loop *)
(* touch its buffers.  The camera's thread completes requests and wakes    *)
(* the loop through a pipe, the threads of the MJPEG encoder compress      *)
(* frames into the UVC device's memory, and the UVC device sends them.     *)
(* A request, its camera buffer and the UVC buffer have one index.         *)
(*                                                                         *)
(* The encoder is a queue that gives frames back in order and that its     *)
(* destructor drains: what FrameOrder states and MjpegEncoder implements   *)
(* (accepted is what was delivered followed by this queue).  The walk of   *)
(* the dispatcher's list is modelled in UvcStream; here every ready        *)
(* callback may be the next one.  A handler of the loop is one step, but   *)
(* uvc_stream_stop, which waits for other threads, is several.             *)
(*                                                                         *)
(* CameraFaults names the failures that are not ioctls on buffers:         *)
(*   "alloc"   configure() or allocate() fails                             *)
(*   "fewer"   the allocator grants fewer buffers than were asked for      *)
(*   "start"   createRequest(), addBuffer() or start() fails               *)
(*   "request" queueRequest() fails                                        *)
(*   "format"  the UVC device refuses the committed format                 *)
(* STREAMON never fails here and the cable is not pulled (SinkFaults-      *)
(* Assumption): a host that then asks for another stream would start a     *)
(* camera that runs, which libcamera refuses in ways not modelled.         *)
(*                                                                         *)
(* Shutdown puts these actions into the program's main loop.               *)
(***************************************************************************)
EXTENDS V4l2Device

CONSTANTS Formats,        \* the formats the host may commit
          Native,         \* the formats the camera supplies
          CameraFaults,   \* the failures of libcamera and of set_format
          MaxEvents       \* bound on the events the kernel has pending

ASSUME FormatsAreNonempty == Formats # {} /\ Native # {}
ASSUME CameraFaultsAssumption == CameraFaults \subseteq {"alloc", "fewer", "start", "request", "format"}
ASSUME SinkFaultsAssumption == Faults \cap {"streamon", "reset"} = {}
ASSUME MaxEventsAssumption == MaxEvents \in Nat \ {0}

VARIABLES committed,   \* the format the host has committed
          camFormat,   \* streamConfig.pixelFormat
          type,        \* src->src.type: "DMABUF" or "ENCODED"
          camera,      \* nbufs, requests, queued, completed, on
          pipe,        \* the pipe of requestComplete can be read
          encoding,    \* buffers in the encoder, in the order of EncodeBuffer
          sink,        \* the UVC device
          watched,     \* uvc_stream_uvc_process is called when sink is ready
          pc,          \* where the loop is: "loop" or a step of uvc_stream_stop
          evq,         \* events the kernel has not delivered yet
          kstate       \* the UVC function in the kernel

format == <<committed, camFormat, type>>
host == <<evq, kstate>>
vars == <<format, camera, pipe, encoding, sink, watched, pc, host>>

NoCamera == [nbufs |-> 0, requests |-> {}, queued |-> << >>, completed |-> << >>, on |-> FALSE]

Init ==
  /\ committed = "none"
  /\ camFormat \in Native
  /\ type = "DMABUF"
  /\ camera = NoCamera
  /\ pipe = FALSE
  /\ encoding = << >>
  /\ sink = NewDevice
  /\ watched = FALSE
  /\ pc = "loop"
  /\ evq = << >>
  /\ kstate = "connected"

Elements(s) == {s[k] : k \in 1 .. Len(s)}

-----------------------------------------------------------------------------
(* libcamera_source_set_format *)

\* validate() keeps a format the camera supplies and replaces any other.
Validated(f) == IF f \in Native THEN {f} ELSE Native

SourceSetFormat(f) ==
  \E v \in Validated(f) :
    IF f = "MJPEG" /\ v # "MJPEG"
    THEN camFormat' \in Validated("YUV420") /\ type' = "ENCODED"
    ELSE camFormat' = v /\ UNCHANGED type

-----------------------------------------------------------------------------
(* The start of the stream *)

\* libcamera_source_alloc_buffers.  The import of a compressed stream supposes
\* as many buffers on both sides.
Granted ==
  IF "fewer" \in CameraFaults /\ type = "DMABUF" THEN 1 .. NBufs ELSE {NBufs}

\* Every buffer gets a request; they are queued once the camera has started.
\* When one cannot be queued the camera is stopped, and those that had
\* completed by then are in the list.
CameraStreamOn(c) ==
  LET made == [c EXCEPT !.requests = 0 .. c.nbufs - 1]
      first(n) == [k \in 1 .. n |-> k - 1]
  IN {[made EXCEPT !.on = TRUE, !.queued = first(c.nbufs)]}
     \cup (IF "start" \in CameraFaults THEN {made} ELSE {})
     \cup (IF "request" \in CameraFaults
           THEN {[made EXCEPT !.completed = first(n)] : n \in 0 .. c.nbufs - 1} ELSE {})

\* The sink's side of uvc_stream_start_encoded and uvc_stream_start_alloc.
SinkBuffers(b, n) == IF type = "ENCODED" THEN MmapBuffers(b) ELSE ImportBuffers(b, n)
MemType == IF type = "ENCODED" THEN "MMAP" ELSE "DMABUF"

\* A failure frees what was allocated.  The results of both stream_on calls
\* are ignored.
Start ==
  \/ "alloc" \in CameraFaults /\ UNCHANGED <<camera, pipe, sink, watched>>
  \/ \E n \in Granted : \E b \in AllocBuffers(sink, MemType, n) :
       \/ b.ret = "error" /\ sink' = b.dev /\ UNCHANGED <<camera, pipe, watched>>
       \/ /\ b.ret = "ok"
          /\ \E m \in SinkBuffers(b.dev, n) :
               \/ /\ m.ret = "error"
                  /\ sink' = FreeBuffers(m.dev)
                  /\ UNCHANGED <<camera, pipe, watched>>
               \/ /\ m.ret = "ok"
                  /\ camera' \in CameraStreamOn([camera EXCEPT !.nbufs = n])
                  /\ pipe' = (pipe \/ camera'.completed # << >>)
                  /\ \E on \in StreamOn(m.dev) : sink' = on.dev
                  /\ watched' = TRUE

-----------------------------------------------------------------------------
(* The callbacks of the event loop *)

Deliver(event) ==
  /\ pc = "loop"
  /\ evq # << >>
  /\ Head(evq) = event
  /\ evq' = Tail(evq)

HandleCommit ==
  \E f \in Formats :
    /\ Deliver(<<"COMMIT", f>>)
    /\ committed' = f
    /\ \/ SourceSetFormat(f)
       \/ "format" \in CameraFaults /\ UNCHANGED <<camFormat, type>>
    /\ UNCHANGED <<camera, pipe, encoding, sink, watched, pc, kstate>>

HandleStreamOn ==
  /\ Deliver(<<"STREAMON">>)
  /\ Start
  /\ kstate' = IF sink'.streaming /\ ~sink.streaming THEN "streaming" ELSE kstate
  /\ UNCHANGED <<format, encoding, pc>>

\* libcamera_source_video_process: one request a call; the pipe is not read.
VideoProcess ==
  /\ pc = "loop"
  /\ camera.on
  /\ pipe
  /\ camera.completed # << >>
  /\ LET i == Head(camera.completed) IN
       /\ camera' = [camera EXCEPT !.completed = Tail(@)]
       /\ IF type = "ENCODED"
          THEN encoding' = Append(encoding, i) /\ UNCHANGED sink
          ELSE (\E q \in QueueBuffer(sink, i) : sink' = q.dev) /\ UNCHANGED encoding
  /\ UNCHANGED <<format, pipe, watched, pc, host>>

\* Slips: every request is queued again; the first one is never found; none is.
RequeueAll(c, i) == {[c EXCEPT !.queued = [k \in 1 .. c.nbufs |-> k - 1]]}
RequeueLater(c, i) == {IF i \in c.requests \ {0} THEN [c EXCEPT !.queued = Append(@, i)] ELSE c}
RequeueNone(c, i) == {c}

\* libcamera_source_queue_buffer: the request with this index is used again.
\* A camera that does not run refuses it; nobody looks at the result.
RequeueRequest(c, i) ==
  IF i \in c.requests /\ c.on
  THEN {[c EXCEPT !.queued = Append(@, i)]} \cup IF "request" \in CameraFaults THEN {c} ELSE {}
  ELSE {c}

\* uvc_stream_uvc_process: the host has read buffer i.
SinkProcess ==
  /\ pc = "loop"
  /\ watched
  /\ CanDequeue(sink)
  /\ \E r \in DequeueBuffer(sink) :
       \/ r.ret = "error" /\ UNCHANGED <<camera, sink>>
       \/ r.ret = "ok" /\ sink' = r.dev /\ camera' \in RequeueRequest(camera, r.index)
  /\ UNCHANGED <<format, pipe, encoding, watched, pc, host>>

-----------------------------------------------------------------------------
(* uvc_stream_stop *)

StopSink ==
  /\ Deliver(<<"STREAMOFF">>)
  /\ watched' = FALSE
  /\ sink' = StreamOff(sink)
  /\ pc' = "camera"
  /\ UNCHANGED <<format, camera, pipe, encoding, kstate>>

\* Slip: the finished requests are forgotten in the list.
KeepCompleted(c) == [c EXCEPT !.on = FALSE, !.requests = {}, !.queued = << >>]
\* camera->stop() cancels what is queued; requests and completed_requests go.
Stopped(c) == [c EXCEPT !.on = FALSE, !.requests = {}, !.queued = << >>, !.completed = << >>]

StopCamera ==
  /\ pc = "camera"
  /\ camera' = Stopped(camera)
  /\ pc' = "encoder"
  /\ UNCHANGED <<format, pipe, encoding, sink, watched, host>>

\* Slip: the destructor does not wait.
NotJoined == TRUE
\* The destructor has joined its threads, and they empty the queues first.
EncoderJoined == encoding = << >>

\* The end of libcamera_source_stream_off, and the buffers of both ends.
StopFree ==
  /\ pc = "encoder"
  /\ EncoderJoined
  /\ type' = "DMABUF"
  /\ sink' = FreeBuffers(sink)
  /\ camera' = [camera EXCEPT !.nbufs = 0]
  /\ pc' = "loop"
  /\ UNCHANGED <<committed, camFormat, pipe, encoding, watched, host>>

-----------------------------------------------------------------------------
(* The other threads, the kernel and the host *)

\* requestComplete, on the camera's thread.
RequestComplete ==
  /\ camera.on
  /\ camera.queued # << >>
  /\ camera' = [camera EXCEPT !.queued = Tail(@), !.completed = Append(@, Head(camera.queued))]
  /\ pipe' = TRUE
  /\ UNCHANGED <<format, encoding, sink, watched, pc, host>>

\* outputReady, on the encoder's output thread; the result is ignored.
OutputReady ==
  /\ encoding # << >>
  /\ encoding' = Tail(encoding)
  /\ \E q \in QueueBuffer(sink, Head(encoding)) : sink' = q.dev
  /\ UNCHANGED <<format, camera, pipe, watched, pc, host>>

SinkComplete ==
  /\ kstate = "streaming"
  /\ CanComplete(sink)
  /\ sink' = Complete(sink)
  /\ UNCHANGED <<format, camera, pipe, encoding, watched, pc, host>>

\* A host that waits for SET_INTERFACE 1 sends nothing else.
HostRequest(event) ==
  /\ kstate = "connected"
  /\ <<"STREAMON">> \notin Elements(evq)
  /\ Len(evq) < MaxEvents
  /\ evq' = Append(evq, event)
  /\ UNCHANGED kstate

HostCommit == \E f \in Formats : HostRequest(<<"COMMIT", f>>)

\* The host starts a stream only after a COMMIT.
HostStreamOn ==
  /\ committed # "none" \/ \E f \in Formats : <<"COMMIT", f>> \in Elements(evq)
  /\ HostRequest(<<"STREAMON">>)

HostStreamOff ==
  /\ kstate = "streaming"
  /\ Len(evq) < MaxEvents
  /\ evq' = Append(evq, <<"STREAMOFF">>)
  /\ kstate' = "connected"

Host ==
  /\ HostCommit \/ HostStreamOn \/ HostStreamOff
  /\ UNCHANGED <<format, camera, pipe, encoding, sink, watched, pc>>

Stop == StopSink \/ StopCamera \/ StopFree

-----------------------------------------------------------------------------
(* Properties *)

\* A buffer is with one party at a time, whichever thread runs: the camera fills
\* it, its request waits, the encoder reads and writes it, or the UVC device
\* sends it.  Two at once would tear a frame.
OneOwner ==
  LET all == camera.queued \o camera.completed \o encoding \o sink.queued \o sink.done IN
  Len(all) = Cardinality(Elements(all))

\* While the stream runs no buffer that both ends have drops out of circulation,
\* as long as the drivers take what they are given: a VIDIOC_QBUF or a
\* queueRequest() that fails loses its buffer, as nobody looks at the result
\* (stream.c:47, libcamera-source.cpp:431), and so does a missing handle (dup).
NothingStranded ==
  pc = "loop" /\ camera.on /\ sink.streaming =>
    0 .. sink.nbufs - 1 \subseteq
      Elements(camera.queued \o camera.completed \o encoding) \cup InKernel(sink)

\* The encoder's threads never work on memory that is unmapped: the destructor
\* in stream_off comes before both frees of uvc_stream_stop (stream.c:268-272).
EncoderMemory == encoding # << >> => camera.nbufs # 0 /\ sink.mem # {}

\* The list the camera's thread fills never holds a request that was destroyed
\* (libcamera-source.cpp:401-406).
RequestsLive == Elements(camera.completed \o camera.queued) \subseteq camera.requests

\* A stream that is not watched has given everything back, also the frames the
\* encoder handed to the UVC device after its STREAMOFF.  Only the buffers of a
\* driver that granted more than it was asked for stay with it: nbufs is still 0
\* then, and v4l2_free_buffers does nothing (v4l2.c:555-559 and 593).
StoppedIsReleased ==
  pc = "loop" /\ ~watched =>
    /\ camera = NoCamera
    /\ encoding = << >>
    /\ sink.nbufs = 0
    /\ sink.kbufs \notin 1 .. NBufs
    /\ InKernel(sink) = {}
    /\ sink.mem = {} /\ sink.dmabuf = {}

\* As long as the host streams from a camera that has started, it gets frames.
FramesFlow == <>[](kstate = "streaming" /\ camera.on) => []<><<SinkComplete>>_vars
=============================================================================
