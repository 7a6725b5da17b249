------------------------------ MODULE Shutdown ------------------------------
(***************************************************************************)
(* uvc-gadget from the signal handler's installation to its exit: the      *)
(* event loop of lib/events.c, which SIGINT ends, and the cleanup of       *)
(* src/main.c, around the camera pipeline of CameraPipeline.  The signal   *)
(* may arrive at any point of the main thread; the camera's thread and the *)
(* encoder's run on until what they need is gone, or the process is.       *)
(*                                                                         *)
(* The descriptors select() watches are those of CameraPipeline: the       *)
(* events and the frames of the UVC device, and the pipe.                  *)
(***************************************************************************)
EXTENDS CameraPipeline

VARIABLES done,    \* events->done
          phase    \* where the main thread is

life == <<done, phase>>
all == <<vars, life>>

\* Slip: the pipe is closed before the camera's signal is disconnected.
PipeFirst == <<"stream", "pipe", "signal", "source", "return">>
\* What the cleanup takes down, in its order; a phase is named for its next step.
CleanupOrder == <<"stream", "signal", "pipe", "source", "return">>
Cleanup == Elements(CleanupOrder)

Place(part) == CHOOSE k \in 1 .. Len(CleanupOrder) : CleanupOrder[k] = part
Gone(part) == phase = "exited" \/ (phase \in Cleanup /\ Place(phase) > Place(part))

StartUp == Init /\ done = FALSE /\ phase = "setup"

-----------------------------------------------------------------------------
(* The loop *)

\* events_loop begins by clearing the flag, also one set by an early SIGINT.
EnterLoop ==
  /\ phase = "setup"
  /\ done' = FALSE
  /\ phase' = "test"
  /\ UNCHANGED vars

\* Slip: the loop does not look at the flag.
TestNothing == "armed"
AfterTest == IF done THEN CleanupOrder[1] ELSE "armed"

LoopTest == phase = "test" /\ phase' = AfterTest /\ UNCHANGED <<vars, done>>

\* A descriptor is ready.  Nobody reads the pipe: it stays ready.
Ready == evq # << >> \/ (watched /\ Selectable(sink)) \/ (camera.on /\ pipe)

\* "armed" has copied the sets and is about to call select().
Select ==
  /\ phase = "armed"
  /\ phase' = IF Ready THEN "dispatch" ELSE "select"
  /\ UNCHANGED <<vars, done>>

Wake == phase = "select" /\ Ready /\ phase' = "dispatch" /\ UNCHANGED <<vars, done>>

\* After each callback the walk ends when done is set.
Dispatch(callback) ==
  /\ phase = "dispatch"
  /\ callback
  /\ phase' = IF done /\ pc' = "loop" THEN CleanupOrder[1] ELSE "dispatch"
  /\ UNCHANGED done

\* The end of the list, or a callback with nothing to do.
DispatchEnd == phase = "dispatch" /\ pc = "loop" /\ phase' = "test" /\ UNCHANGED <<vars, done>>

\* The handler of SIGINT; a select() that sleeps returns with EINTR.
Interrupt ==
  /\ phase # "exited"
  /\ done' = TRUE
  /\ phase' = IF phase = "select" THEN "test" ELSE phase
  /\ UNCHANGED vars

-----------------------------------------------------------------------------
(* The cleanup of main() *)

AfterCleanup(part) ==
  IF part = CleanupOrder[Len(CleanupOrder)] THEN "exited" ELSE CleanupOrder[Place(part) + 1]

CleanupStep(part) == phase = part /\ phase' = AfterCleanup(part) /\ UNCHANGED done

\* uvc_stream_delete stops nothing.  Closing the device takes the function off
\* the bus and its buffers from the driver; the mappings stay.
DeleteStream ==
  /\ CleanupStep("stream")
  /\ sink' = [StreamOff(sink) EXCEPT !.kbufs = 0, !.dmabuf = {}]
  /\ evq' = << >>
  /\ kstate' = "gone"
  /\ UNCHANGED <<format, camera, pipe, encoding, watched, pc>>

\* libcamera_source_destroy
DisconnectSignal == CleanupStep("signal") /\ UNCHANGED vars
ClosePipe == CleanupStep("pipe") /\ pipe' = FALSE
             /\ UNCHANGED <<format, camera, encoding, sink, watched, pc, host>>

\* The camera, its requests and the source are destroyed; the encoder is not.
DeleteSource ==
  /\ CleanupStep("source")
  /\ camera' = [NoCamera EXCEPT !.nbufs = camera.nbufs]
  /\ UNCHANGED <<format, pipe, encoding, sink, watched, pc, host>>

\* The end of the process: all threads end, all memory is gone.
ProcessEnds ==
  /\ camera' = NoCamera
  /\ encoding' = << >>
  /\ sink' = NewDevice
  /\ watched' = FALSE
  /\ UNCHANGED <<format, pipe, pc, host, done>>

\* events_cleanup and the return from main().
Return == CleanupStep("return") /\ ProcessEnds

-----------------------------------------------------------------------------
(* The other threads, the kernel and the host *)

\* requestComplete is called as long as the signal is connected.
CameraThread == ~Gone("signal") /\ RequestComplete /\ UNCHANGED life

\* The handler of a stream that was freed: the device is closed and takes
\* nothing, or the program crashes.
OutputAfterFree ==
  /\ encoding # << >>
  /\ \/ /\ encoding' = Tail(encoding)
        /\ UNCHANGED <<format, camera, pipe, sink, watched, pc, host, life>>
     \/ phase' = "exited" /\ ProcessEnds

EncoderThread ==
  \/ ~Gone("stream") /\ OutputReady /\ UNCHANGED life
  \/ Gone("stream") /\ OutputAfterFree

Outside == (SinkComplete \/ Host) /\ UNCHANGED life

Callback == HandleCommit \/ HandleStreamOn \/ VideoProcess \/ SinkProcess \/ Stop

MainThread ==
  \/ EnterLoop \/ LoopTest \/ Select \/ Wake \/ Dispatch(Callback) \/ DispatchEnd
  \/ DeleteStream \/ DisconnectSignal \/ ClosePipe \/ DeleteSource \/ Return

Ended == phase = "exited" /\ UNCHANGED all

Run == MainThread \/ Interrupt \/ CameraThread \/ EncoderThread \/ Outside \/ Ended

\* The main thread runs and a walk calls every callback that select() reported;
\* the other threads run, and a host that streams reads frames.
Scheduling ==
  /\ WF_all(MainThread)
  /\ WF_all(Dispatch(Stop))
  /\ SF_all(DispatchEnd)
  /\ SF_all(Dispatch(VideoProcess)) /\ SF_all(Dispatch(SinkProcess))
  /\ WF_all(CameraThread) /\ WF_all(EncoderThread) /\ WF_all(SinkComplete /\ UNCHANGED life)

Unfair == StartUp /\ [][Run]_all
Program == Unfair /\ Scheduling

-----------------------------------------------------------------------------
(* Properties *)

\* A SIGINT ends the program, whatever the streams and the other threads do,
\* once the main thread has a chance to see it: one that came between the loop's
\* test and select() waits until a descriptor is ready (events.c:129-139), one
\* before the loop is forgotten (events.c:127).
InterruptEnds ==
  done /\ (phase \notin {"setup", "armed", "select"} \/ (phase = "select" /\ Ready))
    ~> phase = "exited"

\* What the camera's thread uses is there whenever it runs
\* (libcamera-source.cpp:161-169), and of a stream that sends the camera's own
\* frames nothing is called after it was freed.
ExitOrder ==
  [][/\ CameraThread => ~Gone("pipe") /\ ~Gone("source")
     /\ type = "DMABUF" /\ EncoderThread => ~Gone("stream")]_all

\* "This will allow the main loop to be interrupted, and resources to be freed
\* cleanly" (main.c:129-131): the encoder has no frame left for a freed stream.
CleanExit == Gone("stream") => encoding = << >>
=============================================================================
