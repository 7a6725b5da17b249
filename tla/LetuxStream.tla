----------------------------- MODULE LetuxStream -----------------------------
(***************************************************************************)
(* The streaming half of uvc-gadget-for-letux (uvc-gadget.c): the select() *)
(* loop of main, the STREAMON and STREAMOFF events and the two handlers    *)
(* that carry buffers between a V4L2 camera and the UVC function.  A frame *)
(* is never copied: the camera's mapped buffers are handed to the UVC      *)
(* function as user pointers (the default, -o 1).  In "pattern" mode (-d   *)
(* or -i) there is no camera and the program fills buffers of its own.     *)
(*                                                                         *)
(* The loop is one thread: select() takes a snapshot, then the events, the *)
(* UVC function and the camera are served in that order.  The kernel, the  *)
(* camera and the USB host move between any two of these steps.            *)
(*                                                                         *)
(* Faults names what may go wrong, MaxFaults times at most; "faults" lists *)
(* what did:                                                               *)
(*   "camon"  STREAMON of the camera fails   "uvcon" of the UVC function   *)
(*   "stall"  nothing happens for two seconds                              *)
(*   "xfer"   a USB transfer fails           "reset" the cable is pulled   *)
(*   "qbuf"   QBUF fails, of either driver                                 *)
(***************************************************************************)
EXTENDS Naturals, Sequences, FiniteSets

CONSTANTS NBufs,          \* option -n: buffers asked for on both sides
          CameraGrants,   \* how many buffers the camera's driver may grant
          Modes,          \* a subset of {"camera", "pattern"}
          Faults, MaxFaults,
          MaxEvents,      \* bound on the events the kernel has pending
          MaxStarts       \* bound on the streams the host asks for

ASSUME NBufsAssumption == NBufs \in 2 .. 32
ASSUME CameraGrantsAssumption == CameraGrants \subseteq 2 .. 32 /\ CameraGrants # {}
ASSUME ModesAssumption == Modes \subseteq {"camera", "pattern"} /\ Modes # {}
ASSUME FaultsAssumption == Faults \subseteq {"camon", "uvcon", "stall", "xfer", "reset", "qbuf"}
ASSUME BoundsAssumption == MaxFaults \in Nat /\ MaxEvents \in Nat \ {0} /\ MaxStarts \in Nat

VARIABLES mode,       \* run_standalone
          vdev,       \* struct v4l2_device: streaming, nbufs, out
          udev,       \* struct uvc_device: streaming, first, shutdown, out
          mem,        \* the camera's buffers are mapped; the pattern's exist
          cam,        \* the queue of the camera's driver
          uvc,        \* the queue of the UVC function
          evq,        \* UVC events not delivered yet
          kstate,     \* the UVC function in the kernel
          pc, ready,  \* where the loop is, and what select() reported
          starts, faults

prog == <<vdev, udev, mem>>
loop == <<pc, ready>>
vars == <<mode, vdev, udev, mem, cam, uvc, evq, kstate, pc, ready, starts, faults>>

Most == LET n == CHOOSE g \in CameraGrants : \A h \in CameraGrants : h <= g
        IN IF n > NBufs THEN n ELSE NBufs
Buffers == 0 .. Most - 1
Files == {"events", "uvc", "cam"}      \* the three sets select() is given

Elements(s) == {s[k] : k \in 1 .. Len(s)}
Held(q) == Elements(q.queued) \cup Elements(q.done)
Idle(q) == [q EXCEPT !.queued = << >>, !.done = << >>, !.on = FALSE]
InOrder(n) == [k \in 1 .. n |-> k - 1]

\* main up to the loop: the camera's buffers are allocated and mapped once.
Init ==
  /\ mode \in Modes
  /\ \E g \in CameraGrants :
       LET n == IF mode = "camera" THEN g ELSE 0 IN
       /\ vdev = [streaming |-> FALSE, nbufs |-> n, out |-> 0]
       /\ cam = [bufs |-> n, queued |-> << >>, done |-> << >>, on |-> FALSE]
  /\ udev = [streaming |-> FALSE, first |-> FALSE, shutdown |-> FALSE, out |-> 0]
  /\ mem = (mode = "camera")
  /\ uvc = [bufs |-> 0, queued |-> << >>, done |-> << >>, on |-> FALSE, bad |-> {}, gone |-> FALSE]
  /\ evq = << >>
  /\ kstate = "connected"
  /\ pc = "select"
  /\ ready = {}
  /\ starts = 0
  /\ faults = << >>

Fault(f) == f \in Faults /\ Len(faults) < MaxFaults /\ faults' = Append(faults, f)

-----------------------------------------------------------------------------
(* The loop of main *)

\* A device that does not stream is reported as ready: its poll fails.
Ready(f) ==
  CASE f = "events" -> evq # << >>
    [] f = "uvc" -> ~uvc.on \/ uvc.done # << >>
    [] f = "cam" -> mode = "camera" /\ (~cam.on \/ cam.done # << >>)

Select ==
  /\ pc = "select"
  /\ ready' = {f \in Files : Ready(f)}
  /\ ready' # {}
  /\ pc' = "events"
  /\ UNCHANGED <<mode, prog, cam, uvc, evq, kstate, starts, faults>>

\* The steps of one round of the loop, each skipped when select() did not
\* report its file.
After == [events |-> "uvc", uvc |-> "cam", cam |-> "select"]
Serve(f) == pc = f /\ f \in ready /\ pc' = After[f] /\ UNCHANGED ready

Skip ==
  /\ pc \in Files \ ready
  /\ pc' = After[pc]
  /\ UNCHANGED <<mode, prog, cam, uvc, evq, kstate, ready, starts, faults>>

CamCanFill == cam.on /\ cam.queued # << >>
HostCanRead == kstate = "streaming" /\ uvc.on /\ uvc.queued # << >>

\* select() gives up after two seconds in which nothing became ready, and
\* the loop ends; without a camera it waits for ever.
Timeout ==
  /\ pc = "select"
  /\ mode = "camera"
  /\ \A f \in Files : ~Ready(f)
  /\ \/ ~CamCanFill /\ ~HostCanRead /\ UNCHANGED faults
     \/ (CamCanFill \/ HostCanRead) /\ Fault("stall")
  /\ pc' = "stop_camera"
  /\ UNCHANGED <<mode, prog, cam, uvc, evq, kstate, ready, starts>>

StopCamera ==
  /\ pc = "stop_camera"
  /\ IF vdev.streaming
     THEN /\ cam' = [Idle(cam) EXCEPT !.bufs = 0]
          /\ mem' = FALSE
          /\ vdev' = [vdev EXCEPT !.streaming = FALSE]
     ELSE UNCHANGED <<cam, mem, vdev>>
  /\ pc' = "stop_uvc"
  /\ UNCHANGED <<mode, udev, uvc, evq, kstate, ready, starts, faults>>

\* The descriptors are closed, which frees what is left in the kernel and
\* takes the function off the bus.
StopUvc ==
  /\ pc = "stop_uvc"
  /\ udev' = [udev EXCEPT !.streaming = FALSE]
  /\ uvc' = [Idle(uvc) EXCEPT !.bufs = 0, !.bad = {}]
  /\ cam' = [Idle(cam) EXCEPT !.bufs = 0]
  /\ mem' = FALSE
  /\ kstate' = "closed"
  /\ pc' = "ended"
  /\ UNCHANGED <<mode, vdev, evq, ready, starts, faults>>

-----------------------------------------------------------------------------
(* The STREAMON and STREAMOFF events *)

Deliver(event) ==
  /\ Serve("events")
  /\ Head(evq) = event
  /\ evq' = Tail(evq)
  /\ UNCHANGED <<mode, starts>>

\* REQBUFS of the UVC function drops what its queue held.
Requested(n) == [Idle(uvc) EXCEPT !.bufs = n, !.bad = {}]

\* v4l2_qbuf: every buffer in index order, up to the first that is refused.
CameraQueued ==
  LET refused == {i \in 0 .. vdev.nbufs - 1 : i >= cam.bufs \/ i \in Held(cam)}
  IN IF refused = {} THEN vdev.nbufs
     ELSE CHOOSE n \in refused : \A i \in refused : n <= i

\* v4l2_qbuf and v4l2_start_capturing.  A failure keeps what was queued.
QueueCamera == \E n \in 0 .. CameraQueued :
  LET queued == [cam EXCEPT !.queued = @ \o InOrder(n)]
      counted == [vdev EXCEPT !.out = @ + n]
  IN \/ n < CameraQueued /\ cam' = queued /\ vdev' = counted /\ Fault("qbuf")
     \/ n = CameraQueued /\ n < vdev.nbufs /\ cam' = queued /\ vdev' = counted /\ UNCHANGED faults
     \/ n = vdev.nbufs /\ cam' = queued /\ vdev' = counted /\ Fault("camon")
     \/ /\ n = vdev.nbufs
        /\ cam' = [queued EXCEPT !.on = TRUE]
        /\ vdev' = [counted EXCEPT !.streaming = TRUE]
        /\ UNCHANGED faults

\* uvc_video_qbuf and uvc_video_stream with the pattern's own buffers; a
\* failure of the former ends it, the result of the latter is ignored.
StartPattern == \E n \in 0 .. NBufs :
  LET queued == [Requested(NBufs) EXCEPT !.queued = InOrder(n)]
      counted == [udev EXCEPT !.out = @ + n]
      started == [counted EXCEPT !.streaming = TRUE, !.first = TRUE]
  IN \/ n < NBufs /\ uvc' = queued /\ udev' = counted /\ UNCHANGED kstate /\ Fault("qbuf")
     \/ n = NBufs /\ uvc' = queued /\ udev' = started /\ UNCHANGED kstate /\ Fault("uvcon")
     \/ /\ n = NBufs
        /\ uvc' = [queued EXCEPT !.on = TRUE]
        /\ udev' = [started EXCEPT !.shutdown = FALSE]
        /\ kstate' = "streaming"
        /\ UNCHANGED faults

\* uvc_handle_streamon_event.  REQBUFS is refused while the function streams.
HandleStreamOn ==
  /\ Deliver("STREAMON")
  /\ \/ uvc.on /\ UNCHANGED <<prog, cam, uvc, kstate, faults>>
     \/ ~uvc.on /\ mode = "camera" /\ uvc' = Requested(NBufs) /\ QueueCamera
        /\ UNCHANGED <<udev, mem, kstate>>
     \/ ~uvc.on /\ mode = "pattern" /\ mem' = TRUE /\ StartPattern
        /\ UNCHANGED <<vdev, cam>>

\* STREAMOFF gives the camera's buffers back; they stay allocated.
StopCapturing ==
  IF vdev.streaming THEN cam' = Idle(cam) /\ vdev' = [vdev EXCEPT !.streaming = FALSE]
  ELSE UNCHANGED <<vdev, cam>>

\* Slip: the flag of the first buffer is not reset.
StopUvcKeepsFirst ==
  IF udev.streaming
  THEN /\ uvc' = [Requested(0) EXCEPT !.gone = FALSE]
       /\ udev' = [udev EXCEPT !.streaming = FALSE]
  ELSE UNCHANGED <<udev, uvc>>

\* Slip: the buffers are released without stopping the UVC function.
StopWithoutStreamOff ==
  IF udev.streaming
  THEN udev' = [udev EXCEPT !.streaming = FALSE, !.first = FALSE] /\ UNCHANGED uvc
  ELSE UNCHANGED <<udev, uvc>>

\* The counters keep their values.
StopStreaming ==
  IF udev.streaming
  THEN /\ uvc' = [Requested(0) EXCEPT !.gone = FALSE]
       /\ udev' = [udev EXCEPT !.streaming = FALSE, !.first = FALSE]
  ELSE UNCHANGED <<udev, uvc>>

HandleStreamOff ==
  /\ Deliver("STREAMOFF")
  /\ StopCapturing
  /\ StopStreaming
  /\ mem' = (mem /\ ~(mode = "pattern" /\ udev.streaming))
  /\ UNCHANGED <<kstate, faults>>

-----------------------------------------------------------------------------
(* uvc_video_process: a buffer the host has read *)

\* One buffer at least stays with the UVC function, until it shuts down.
MayDequeue == udev.shutdown \/ udev.out > 1

UvcDequeued == [uvc EXCEPT !.done = Tail(@), !.bad = @ \ {Head(uvc.done)}]

\* Slip: a buffer with an error drops out and nobody is told.
DropSilently == [udev EXCEPT !.out = @ - 1]
DropFlagged == [udev EXCEPT !.out = @ - 1, !.shutdown = TRUE]

\* Slip: the buffer is taken from the function and the camera never gets it.
GiveNothingBack ==
  /\ uvc' = UvcDequeued
  /\ udev' = [udev EXCEPT !.out = @ - 1]
  /\ UNCHANGED <<cam, vdev, faults>>

\* A buffer marked with an error is not handed on: the stream is ending.  One
\* the camera's QBUF refuses is with neither driver any more.
GiveBack ==
  LET i == Head(uvc.done)
      healthy == i \notin uvc.bad
  IN /\ uvc' = UvcDequeued
     /\ udev' = IF healthy THEN [udev EXCEPT !.out = @ - 1] ELSE DropFlagged
     /\ \/ /\ healthy /\ i \notin Held(cam)
           /\ cam' = [cam EXCEPT !.queued = Append(@, i)]
           /\ vdev' = [vdev EXCEPT !.out = @ + 1]
           /\ UNCHANGED faults
        \/ (~healthy \/ i \in Held(cam)) /\ UNCHANGED <<cam, vdev, faults>>
        \/ healthy /\ UNCHANGED <<cam, vdev>> /\ Fault("qbuf")

\* The pattern is drawn into the buffer and the buffer queued again, unless
\* the function is gone or its QBUF fails.
Refill ==
  /\ \/ /\ ~uvc.gone
        /\ uvc' = [UvcDequeued EXCEPT !.queued = Append(@, Head(uvc.done))]
        /\ UNCHANGED <<udev, faults>>
     \/ /\ uvc' = UvcDequeued
        /\ udev' = [udev EXCEPT !.out = @ - 1]
        /\ (uvc.gone /\ UNCHANGED faults) \/ Fault("qbuf")
  /\ UNCHANGED <<cam, vdev>>

ProcessUvc ==
  /\ Serve("uvc")
  /\ LET serves == /\ udev.streaming
                   /\ mode = "camera" => vdev.streaming /\ udev.first /\ MayDequeue
                   /\ uvc.on /\ uvc.done # << >>
     IN IF ~serves THEN UNCHANGED <<uvc, udev, cam, vdev, faults>>
        ELSE IF mode = "camera" THEN GiveBack ELSE Refill
  /\ UNCHANGED <<mode, mem, evq, kstate, starts>>

-----------------------------------------------------------------------------
(* v4l2_process_data: a frame of the camera *)

\* Slip: the buffer is read but stays with the camera.
CamPeeked == cam
CamDequeued == [cam EXCEPT !.done = Tail(@)]

\* Slip: later frames are queued without being counted.
CountFirst == udev.out + (IF udev.first THEN 0 ELSE 1)
Count == udev.out + 1

\* The first frame starts the UVC function; whether that works is not asked.
QueueToUvc ==
  LET i == Head(cam.done)
      queued == [uvc EXCEPT !.queued = Append(@, i)]
      counted == [udev EXCEPT !.out = Count]
      first == [counted EXCEPT !.first = TRUE, !.streaming = TRUE]
  IN IF udev.first
     THEN uvc' = queued /\ udev' = counted /\ UNCHANGED <<kstate, faults>>
     ELSE \/ /\ uvc' = [queued EXCEPT !.on = TRUE]
             /\ udev' = [first EXCEPT !.shutdown = FALSE]
             /\ kstate' = "streaming"
             /\ UNCHANGED faults
          \/ uvc' = queued /\ udev' = first /\ UNCHANGED kstate /\ Fault("uvcon")

\* Whatever QBUF returns, the camera no longer has the buffer.
ProcessCamera ==
  /\ Serve("cam")
  /\ LET i == Head(cam.done)
         serves == /\ vdev.streaming
                   /\ udev.first => vdev.out > 0
                   /\ cam.on /\ cam.done # << >>
     IN IF ~serves THEN UNCHANGED <<uvc, udev, cam, vdev, kstate, faults>>
        ELSE /\ cam' = CamDequeued
             /\ vdev' = [vdev EXCEPT !.out = @ - 1]
             /\ \/ UNCHANGED <<uvc, udev, kstate>> /\ Fault("qbuf")
                \/ IF i >= uvc.bufs \/ i \in Held(uvc)
                   THEN UNCHANGED <<uvc, udev, kstate, faults>>
                   ELSE IF uvc.gone
                   THEN udev' = [udev EXCEPT !.shutdown = TRUE] /\ UNCHANGED <<uvc, kstate, faults>>
                   ELSE QueueToUvc
  /\ UNCHANGED <<mode, mem, evq, starts>>

Program ==
  Select \/ Skip \/ Timeout \/ StopCamera \/ StopUvc
  \/ HandleStreamOn \/ HandleStreamOff \/ ProcessUvc \/ ProcessCamera

-----------------------------------------------------------------------------
(* The kernel, the camera and the USB host *)

\* The transfers that were pending end with an error.
Cancelled == [uvc EXCEPT !.queued = << >>, !.done = @ \o uvc.queued,
                         !.bad = @ \cup Elements(uvc.queued)]

\* SET_INTERFACE 1.
HostStreamOn ==
  /\ kstate = "connected"
  /\ Len(evq) < MaxEvents
  /\ starts < MaxStarts
  /\ starts' = starts + 1
  /\ evq' = Append(evq, "STREAMON")
  /\ UNCHANGED <<mode, prog, cam, uvc, kstate, loop, faults>>

\* The function notices that the endpoint is gone when a transfer was pending.
Disconnect ==
  /\ kstate = "streaming"
  /\ kstate' = "connected"
  /\ \E gone \in {TRUE, uvc.queued # << >>} : uvc' = [Cancelled EXCEPT !.gone = gone]

\* SET_INTERFACE 0.
HostStreamOff ==
  /\ Len(evq) < MaxEvents
  /\ Disconnect
  /\ evq' = Append(evq, "STREAMOFF")
  /\ UNCHANGED <<mode, prog, cam, loop, starts, faults>>

\* The cable is pulled and plugged again.  uvc_events_init does not subscribe
\* to DISCONNECT, so the program is not told.
HostReset ==
  /\ Disconnect
  /\ Fault("reset")
  /\ UNCHANGED <<mode, prog, cam, evq, loop, starts>>

TransferFails ==
  /\ HostCanRead
  /\ uvc' = Cancelled
  /\ Fault("xfer")
  /\ UNCHANGED <<mode, prog, cam, evq, kstate, loop, starts>>

CameraFills ==
  /\ CamCanFill
  /\ cam' = [cam EXCEPT !.queued = Tail(@), !.done = Append(@, Head(cam.queued))]
  /\ UNCHANGED <<mode, prog, uvc, evq, kstate, loop, starts, faults>>

HostReads ==
  /\ HostCanRead
  /\ uvc' = [uvc EXCEPT !.queued = Tail(@), !.done = Append(@, Head(uvc.queued))]
  /\ UNCHANGED <<mode, prog, cam, evq, kstate, loop, starts, faults>>

Environment ==
  HostStreamOn \/ HostStreamOff \/ HostReset \/ TransferFails \/ CameraFills \/ HostReads

Next == Program \/ Environment

Safety == Init /\ [][Next]_vars

\* The loop runs whenever it can; a camera that captures fills its buffers
\* and a host that streams reads them.
Fairness == WF_vars(Program) /\ WF_vars(CameraFills) /\ WF_vars(HostReads)

Spec == Safety /\ Fairness

-----------------------------------------------------------------------------
(* Properties *)

Lists == UNION {[1 .. n -> Buffers] : n \in 0 .. Most}

\* Every variable has its type.
TypeOK ==
  /\ mode \in Modes
  /\ vdev \in [streaming : BOOLEAN, nbufs : {0} \cup CameraGrants, out : Nat]
  /\ udev \in [streaming : BOOLEAN, first : BOOLEAN, shutdown : BOOLEAN, out : Nat]
  /\ mem \in BOOLEAN
  /\ cam \in [bufs : {0} \cup CameraGrants, queued : Lists, done : Lists, on : BOOLEAN]
  /\ uvc \in [bufs : {0, NBufs}, queued : Lists, done : Lists, on : BOOLEAN,
              bad : SUBSET Buffers, gone : BOOLEAN]
  /\ evq \in UNION {[1 .. n -> {"STREAMON", "STREAMOFF"}] : n \in 0 .. MaxEvents}
  /\ kstate \in {"connected", "streaming", "closed"}
  /\ pc \in Files \cup {"select", "stop_camera", "stop_uvc", "ended"}
  /\ ready \subseteq Files
  /\ starts \in 0 .. MaxStarts
  /\ faults \in UNION {[1 .. n -> Faults] : n \in 0 .. MaxFaults}

Running == pc \in Files \cup {"select"}
Healthy == faults = << >>

\* The camera never fills a buffer the host is being sent: both ends use the
\* same memory, and only the hand-over of indices keeps them apart.
OneOwner == mode = "camera" => Held(cam) \cap Held(uvc) = {}

\* The counters are never reset and still never promise less than the drivers
\* hold: uvc_video_process and v4l2_process_data decide by them whether to
\* dequeue, and a count too low would leave a finished buffer for ever.
CountersCover ==
  /\ udev.out >= Cardinality(Held(uvc))
  /\ vdev.out >= Cardinality(Held(cam))

\* While frames go out and nothing announced a shutdown, every buffer that
\* both ends know is with one of the two drivers (comment at 990-997: only
\* buffers marked with an error drop out).  Any failure may have come before
\* but that of a QBUF: neither handler queues again what a driver refused
\* (504-516, 1013-1015), and that buffer is lost until the next STREAMON.
Circulation ==
  mode = "camera" /\ Running /\ kstate = "streaming" /\ vdev.streaming /\ ~udev.shutdown /\ ~uvc.gone
    /\ "qbuf" \notin Elements(faults) =>
    {i \in 0 .. vdev.nbufs - 1 : i < uvc.bufs} \subseteq Held(cam) \cup Held(uvc)

\* While the loop runs, no driver holds memory the program has given back.
MemoryHeld == Running /\ Held(cam) \cup Held(uvc) # {} => mem

\* Without a fault the two seconds of select() never pass unused: the program
\* does not end by itself (camera and host both keep a buffer to work on).
KeepsRunning == Healthy => Running

\* Without a fault a stream reaches the host and the host keeps getting frames,
\* however often it has been stopped before: capturing alone is not enough.
FramesFlow == <>[](Healthy /\ (vdev.streaming \/ kstate = "streaming")) => []<><<HostReads>>_vars
=============================================================================
