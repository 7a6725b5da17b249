------------------------------ MODULE UvcStream ------------------------------
(***************************************************************************)
(* The streaming loop of uvc-gadget: the select() dispatcher of            *)
(* lib/events.c, the STREAMON and STREAMOFF events of lib/uvc.c, the       *)
(* stream lifecycle of lib/stream.c, and its two kinds of local source:    *)
(* a V4L2 camera whose buffers the UVC device imports (DMABUF,             *)
(* lib/v4l2-source.c) and a still image copied into the UVC device's own   *)
(* buffers (STATIC, lib/jpg-source.c and lib/test-source.c).               *)
(*                                                                         *)
(* One thread runs every callback, so a callback is one step; the kernel,  *)
(* the camera and the USB host move between any two of them.  select()     *)
(* takes a snapshot of what is ready, and the dispatcher walks the list    *)
(* with that snapshot while the callbacks change the list.                 *)
(***************************************************************************)
EXTENDS V4l2Device

CONSTANTS SourceTypes,    \* the kinds of source the program may be started with
          MaxEvents       \* bound on the events the kernel has pending

ASSUME SourceTypesAssumption == SourceTypes \subseteq {"DMABUF", "STATIC"} /\ SourceTypes # {}
ASSUME MaxEventsAssumption == MaxEvents \in Nat \ {0}

VARIABLES type,       \* src->type, fixed when the program starts
          src,        \* the source's device; a still image only uses .streaming
          sink,       \* the UVC device
          watchers,   \* events->events: the watched <<descriptor, type>>, in order
          ready,      \* what the last select() reported
          cursor,     \* the entry the dispatcher is at; End while in select()
          evq,        \* UVC events the kernel has not delivered yet
          kstate      \* the UVC function in the kernel

vars == <<type, src, sink, watchers, ready, cursor, evq, kstate>>

EventEntry  == <<"sink", "EXCEPTION">>    \* uvc_events_process
SinkEntry   == <<"sink", "WRITE">>        \* uvc_stream_uvc_process(_no_buf)
SourceEntry == <<"src", "READ">>          \* v4l2_source_video_process
Entries == {EventEntry, SinkEntry, SourceEntry}
End   == <<"list", "head">>               \* the walk is over
Freed == <<"list", "freed">>              \* the entry was freed under the walk

Watched == {watchers[k] : k \in 1 .. Len(watchers)}

Init ==
  /\ type \in SourceTypes
  /\ src = NewDevice
  /\ sink = NewDevice
  /\ watchers = <<EventEntry>>
  /\ ready = {}
  /\ cursor = End
  /\ evq = << >>
  /\ kstate = "connected"

-----------------------------------------------------------------------------
(* lib/events.c *)

Watch(w, e) == Append(w, e)

\* Slip: every entry of the descriptor goes; the UVC device has two.
UnwatchDescriptor(w, e) == SelectSeq(w, LAMBDA x : x[1] # e[1])

\* The last entry that matches is removed.
Unwatch(w, e) ==
  LET at == {k \in 1 .. Len(w) : w[k] = e} IN
  IF at = {} THEN w
  ELSE LET last == CHOOSE k \in at : \A j \in at : j <= k IN
       SubSeq(w, 1, last - 1) \o SubSeq(w, last + 1, Len(w))

\* The entry after e in the list w, as list_for_each_entry finds it.
Following(w, e) ==
  LET at == {k \in 1 .. Len(w) : w[k] = e} IN
  IF at = {} THEN Freed
  ELSE LET k == CHOOSE k \in at : TRUE IN
       IF k = Len(w) THEN End ELSE w[k + 1]

\* Slip: the write set is not handed to select().
ReadyNoWrite(e) ==
  CASE e = EventEntry  -> evq # << >>
    [] e = SinkEntry   -> FALSE
    [] e = SourceEntry -> Selectable(src)

Ready(e) ==
  CASE e = EventEntry  -> evq # << >>
    [] e = SinkEntry   -> Selectable(sink)
    [] e = SourceEntry -> Selectable(src)

Select ==
  /\ cursor = End
  /\ ready' = {e \in Watched : Ready(e)}
  /\ ready' # {}
  /\ cursor' = Head(watchers)
  /\ UNCHANGED <<type, src, sink, watchers, evq, kstate>>

\* The dispatcher calls entry e, and then follows its link.
Called(e) == cursor = e /\ e \in ready
Returned == cursor' = Following(watchers', cursor) /\ UNCHANGED ready

Skip ==
  /\ cursor \in Entries
  /\ cursor \notin ready
  /\ UNCHANGED <<type, src, sink, watchers, evq, kstate>>
  /\ Returned

-----------------------------------------------------------------------------
(* lib/v4l2-source.c and the still image sources *)

\* Queue every buffer, start, and watch the camera only if that worked.
V4l2SourceStreamOn(d) ==
  UNION {IF q.ret = "error" THEN {[dev |-> q.dev, watch |-> << >>]}
         ELSE {[dev |-> r.dev, watch |-> IF r.ret = "ok" THEN <<SourceEntry>> ELSE << >>] :
                  r \in StreamOn(q.dev)} : q \in QueueAll(d)}

\* A still image arms its timer; it has no buffers of its own.
StaticSourceStreamOn(d) == [d EXCEPT !.streaming = TRUE]

-----------------------------------------------------------------------------
(* lib/stream.c *)

\* The results of both stream_on calls are ignored: the sink is watched.
StartBoth(s, k) ==
  \E started \in V4l2SourceStreamOn(s), on \in StreamOn(k) :
    /\ src' = started.dev
    /\ sink' = on.dev
    /\ watchers' = Watch(watchers \o started.watch, SinkEntry)

\* uvc_stream_start_alloc; each failure undoes the steps before it.
StartAlloc ==
  \E a \in AllocBuffers(src, "MMAP", NBufs) :
    \/ /\ a.ret = "error"
       /\ src' = a.dev
       /\ UNCHANGED <<sink, watchers>>
    \/ /\ a.ret = "ok"
       /\ \E x \in ExportBuffers(a.dev) :
            \/ /\ x.ret = "error"
               /\ src' = FreeBuffers(x.dev)
               /\ UNCHANGED <<sink, watchers>>
            \/ /\ x.ret = "ok"
               /\ \E b \in AllocBuffers(sink, "DMABUF", x.dev.nbufs) :
                    \/ /\ b.ret = "error"
                       /\ src' = FreeBuffers(x.dev)
                       /\ sink' = b.dev
                       /\ UNCHANGED watchers
                    \/ /\ b.ret = "ok"
                       /\ \E i \in ImportBuffers(b.dev, x.dev.nbufs) :
                            \/ /\ i.ret = "error"
                               /\ src' = FreeBuffers(x.dev)
                               /\ sink' = FreeBuffers(i.dev)
                               /\ UNCHANGED watchers
                            \/ i.ret = "ok" /\ StartBoth(x.dev, i.dev)

\* uvc_stream_start_no_alloc; a failure returns and undoes nothing.
StartNoAlloc ==
  \E b \in AllocBuffers(sink, "MMAP", NBufs) :
    \/ /\ b.ret = "error"
       /\ sink' = b.dev
       /\ UNCHANGED <<src, watchers>>
    \/ /\ b.ret = "ok"
       /\ \E m \in MmapBuffers(b.dev) :
            \/ /\ m.ret = "error"
               /\ sink' = m.dev
               /\ UNCHANGED <<src, watchers>>
            \/ /\ m.ret = "ok"
               /\ \E q \in QueueAll(m.dev) :
                    \/ /\ q.ret = "error"
                       /\ sink' = q.dev
                       /\ UNCHANGED <<src, watchers>>
                    \/ /\ q.ret = "ok"
                       /\ src' = StaticSourceStreamOn(src)
                       /\ \E on \in StreamOn(q.dev) :
                            /\ sink' = on.dev
                            /\ watchers' = IF on.ret = "ok" THEN Watch(watchers, SinkEntry)
                                                            ELSE watchers

\* Slip: the source's buffers are kept.
StopKeepsSource ==
  /\ sink' = FreeBuffers(StreamOff(sink))
  /\ src' = StreamOff(src)
  /\ watchers' = Unwatch(Unwatch(watchers, SinkEntry), SourceEntry)

\* uvc_stream_stop.
Stop ==
  /\ sink' = FreeBuffers(StreamOff(sink))
  /\ src' = FreeBuffers(StreamOff(src))
  /\ watchers' = Unwatch(Unwatch(watchers, SinkEntry), SourceEntry)

-----------------------------------------------------------------------------
(* The callbacks *)

\* Slip: the event is looked at but not dequeued.
DeliverPeek(event) ==
  /\ Called(EventEntry)
  /\ evq # << >>
  /\ Head(evq) = event
  /\ UNCHANGED evq

Deliver(event) ==
  /\ Called(EventEntry)
  /\ evq # << >>
  /\ Head(evq) = event
  /\ evq' = Tail(evq)

\* STREAMON succeeding on the UVC device makes the function stream.
HandleStreamOn ==
  /\ Deliver("STREAMON")
  /\ IF type = "DMABUF" THEN StartAlloc ELSE StartNoAlloc
  /\ kstate' = IF sink'.streaming /\ ~sink.streaming THEN "streaming" ELSE kstate
  /\ UNCHANGED type
  /\ Returned

HandleStreamOff ==
  /\ Deliver("STREAMOFF")
  /\ Stop
  /\ UNCHANGED <<type, kstate>>
  /\ Returned

\* A frame of the camera goes to the UVC device; its result is ignored.
SourceProcess ==
  /\ Called(SourceEntry)
  /\ \E r \in DequeueBuffer(src) :
       \/ r.ret = "error" /\ UNCHANGED <<src, sink>>
       \/ /\ r.ret = "ok"
          /\ src' = r.dev
          /\ \E q \in QueueBuffer(sink, r.index) : sink' = q.dev
  /\ UNCHANGED <<type, watchers, evq, kstate>>
  /\ Returned

\* A buffer the host has read goes back to the camera, or is filled again.
SinkProcess ==
  /\ Called(SinkEntry)
  /\ \E r \in DequeueBuffer(sink) :
       \/ r.ret = "error" /\ UNCHANGED <<src, sink>>
       \/ /\ r.ret = "ok"
          /\ IF type = "DMABUF"
             THEN sink' = r.dev /\ \E q \in QueueBuffer(src, r.index) : src' = q.dev
             ELSE (\E q \in QueueBuffer(r.dev, r.index) : sink' = q.dev) /\ UNCHANGED src
  /\ UNCHANGED <<type, watchers, evq, kstate>>
  /\ Returned

EventsLoop == Select \/ Skip \/ HandleStreamOn \/ HandleStreamOff \/ SourceProcess \/ SinkProcess

-----------------------------------------------------------------------------
(* The kernel, the camera and the USB host *)

\* SET_INTERFACE 1: the function asks for a stream when it is only connected.
HostStreamOn ==
  /\ kstate = "connected"
  /\ Len(evq) < MaxEvents
  /\ evq' = Append(evq, "STREAMON")
  /\ UNCHANGED <<type, src, sink, watchers, ready, cursor, kstate>>

\* SET_INTERFACE 0.
HostStreamOff ==
  /\ kstate = "streaming"
  /\ Len(evq) < MaxEvents
  /\ evq' = Append(evq, "STREAMOFF")
  /\ kstate' = "connected"
  /\ UNCHANGED <<type, src, sink, watchers, ready, cursor>>

\* The cable is pulled and plugged again: pending transfers are given back.
\* DISCONNECT is not among the subscribed events, so no event arrives.
HostReset ==
  /\ "reset" \in Faults
  /\ kstate = "streaming"
  /\ kstate' = "connected"
  /\ sink' = [sink EXCEPT !.queued = << >>, !.done = @ \o sink.queued]
  /\ UNCHANGED <<type, src, watchers, ready, cursor, evq>>

\* The camera has filled a buffer.
SourceComplete ==
  /\ CanComplete(src)
  /\ src' = Complete(src)
  /\ UNCHANGED <<type, sink, watchers, ready, cursor, evq, kstate>>

\* The host has read a buffer.
SinkComplete ==
  /\ kstate = "streaming"
  /\ CanComplete(sink)
  /\ sink' = Complete(sink)
  /\ UNCHANGED <<type, src, watchers, ready, cursor, evq, kstate>>

Environment == HostStreamOn \/ HostStreamOff \/ HostReset \/ SourceComplete \/ SinkComplete

Next == EventsLoop \/ Environment

Safety == Init /\ [][Next]_vars

\* The loop never sleeps while something is ready; a camera that streams
\* fills its buffers and a host that streams reads them.
Fairness == WF_vars(EventsLoop) /\ WF_vars(SourceComplete) /\ WF_vars(SinkComplete)

Spec == Safety /\ Fairness

-----------------------------------------------------------------------------
(* Properties *)

\* Every variable has its type; the UVC event entry stays first in the list.
TypeOK ==
  /\ type \in SourceTypes
  /\ src \in Device
  /\ sink \in Device
  /\ watchers \in UNION {[1 .. n -> Entries] : n \in 1 .. 3}
  /\ watchers[1] = EventEntry
  /\ ready \subseteq Entries
  /\ cursor \in Entries \cup {End, Freed}
  /\ evq \in UNION {[1 .. n -> {"STREAMON", "STREAMOFF"}] : n \in 0 .. MaxEvents}
  /\ kstate \in {"connected", "streaming"}

\* A frame buffer is never in the camera's and in the USB controller's hands
\* at once, whatever fails and however often the stream is restarted: the
\* camera would overwrite a frame the host is reading (stream.c:40-62).
OneOwner ==
  type = "DMABUF" => InKernel(src) \cap InKernel(sink) = {}

\* While both ends stream, no buffer drops out of circulation: each one is
\* with one of the two drivers between any two callbacks.  A driver that takes
\* fewer buffers, a handle that is not duplicated and a VIDIOC_QBUF that fails
\* do lose one: the loop ignores all three (stream.c:47 and 61).
NothingStranded ==
  src.streaming /\ sink.streaming => InKernel(src) \cup InKernel(sink) = 0 .. sink.nbufs - 1

\* More buffers than NBufs are those of a driver that granted too many.
Released(d) ==
  /\ d.nbufs = 0
  /\ d.kbufs \notin 1 .. NBufs
  /\ d.dmabuf = {}
  /\ d.mem = {}
  /\ InKernel(d) = {}
  /\ ~d.streaming

\* Either a camera's stream is watched or everything the library took has been
\* given back: a start that fails half way and a stop both leave the next start
\* a clean slate (the error labels of uvc_stream_start_alloc, uvc_stream_stop).
\* One thing is not given back: when a driver grants more buffers than it was
\* asked for, the call fails with nbufs still 0, and v4l2_free_buffers does
\* nothing (v4l2.c:555-559 and 593), so the driver keeps them.
\* uvc_stream_start_no_alloc promises less: it keeps its buffers.
WatchedOrReleased ==
  type = "DMABUF" /\ SinkEntry \notin Watched =>
    Released(src) /\ Released(sink) /\ SourceEntry \notin Watched

\* Repeated STREAMON events never put a descriptor in the list twice: the stop
\* would remove one entry and leave the other to run on freed buffers.
WatchedOnce == Len(watchers) = Cardinality(Watched)

\* The dispatcher never follows the link of an entry a callback has freed:
\* events_dispatch walks the list that events_unwatch_fd changes.
CursorInList == cursor # Freed

\* A STREAMON event that no other event follows leaves the function streaming,
\* whatever came before it: stale and repeated events, stops, restarts
\* (uvc.c:389-391, "1 to start it" in stream.h:109).
StreamOnStarts == [][HandleStreamOn /\ evq' = << >> => kstate' = "streaming"]_vars

\* The traffic of the stream does not starve the USB events.
EventsServed == Len(evq) = MaxEvents ~> Len(evq) < MaxEvents

\* As long as the host keeps the stream on, it keeps getting frames.
FramesFlow == <>[](kstate = "streaming") => []<><<SinkComplete>>_vars
=============================================================================
