-------------------------- MODULE StreamingControl --------------------------
(***************************************************************************)
(* How the host negotiates a format with uvc-gadget and what becomes of it *)
(* in a slideshow: the table of formats the program reads when it starts   *)
(* (ConfigFs, src/main.c), the PROBE and COMMIT controls of lib/uvc.c that *)
(* choose from it, the format and frame rate they set (lib/stream.c), the  *)
(* slides and the timer that paces them (lib/slideshow-source.c,           *)
(* lib/timer.c), or the rate a camera is asked for (lib/v4l2-source.c,     *)
(* lib/v4l2.c).                                                            *)
(*                                                                         *)
(* The event loop handles one request, stream event or frame per step.     *)
(* The host follows the UVC protocol: a data stage follows a SET_CUR, and  *)
(* it starts the stream only after a COMMIT; it may give a request up and  *)
(* send another one instead of the data.                                   *)
(***************************************************************************)
EXTENDS ConfigFs

CONSTANTS Worlds,         \* what the program may find when it starts (ConfigFs)
          HostIntervals,  \* intervals the host may ask for (units of 100 ns)
          MaxSlides,      \* bound on the images found in a directory
          Sources,        \* the sources the program may be started with
          CameraRates,    \* rates the camera's driver may choose by itself
          SinkRefuses     \* whether the UVC device may refuse a format

ASSUME WorldsAssumption == \E w \in Worlds : ParseUvcFunction(w).ret = "ok"
ASSUME HostIntervalsAssumption == HostIntervals \subseteq Nat
ASSUME MaxSlidesAssumption == MaxSlides \in Nat \ {0}
ASSUME SourcesAssumption == Sources \subseteq {"slideshow", "camera"} /\ CameraRates \subseteq Nat
ASSUME SinkRefusesAssumption == SinkRefuses \in BOOLEAN

UIntMax == 2147483647                   \* stands for UINT_MAX and for (unsigned)-1
Second == 10000000                      \* an interval of one second

VARIABLES world,      \* what the program has found
          fc,         \* what configfs_parse_uvc_function made of it
          kind,       \* the source, fixed when the program starts
          control,    \* dev->control: what the next data stage sets
          dataStage,  \* the host has begun a SET_CUR and owes the data
          probe,      \* dev->probe
          commit,     \* dev->commit
          resp,       \* the last control the host was sent
          sinkFormat, \* <<format, frame>> of the UVC device
          srcFormat,  \* <<format, frame>> of the slides, or of the camera
          slides,     \* how many slides are in the list
          cur,        \* src->cur_slide: its place in the list; 0 is none
          rate,       \* what the source was asked for: frames per second
          granted,    \* the camera's own rate
          period,     \* timer->settings, in nanoseconds
          armed,      \* the running timer's period; 0 is disarmed
          streaming,  \* src->streaming
          sinkOn,     \* the UVC device streams and is watched
          loop        \* "runs", "blocked" in timer_wait, "crashed", or "exited"

negotiation == <<control, dataStage, probe, commit, resp>>
source == <<sinkFormat, srcFormat, slides, cur, rate, granted, period, armed, streaming, sinkOn, loop>>
setup == <<world, fc, kind>>
vars == <<setup, negotiation, source>>

Formats == fc.formats
Intervals(f, r) == Formats[f].frames[r].intervals
AnyIndex == 0 .. 1 + Len(Formats)       \* bFormatIndex, bFrameIndex of a request

-----------------------------------------------------------------------------
(* uvc_fill_streaming_control *)

Clamp(v, min, max) == IF v < min THEN min ELSE IF v > max THEN max ELSE v

Lowest(S) == CHOOSE k \in S : \A j \in S : k <= j

\* Slip: the interval must be exceeded.
FirstAbove(ivals, ival) ==
  LET above == {k \in 1 .. Len(ivals) : ival < ivals[k]} IN
  ivals[IF above = {} THEN Len(ivals) ELSE Lowest(above)]

\* The first interval of the frame that is not shorter, or else its last.
FirstNotBelow(ivals, ival) ==
  LET notBelow == {k \in 1 .. Len(ivals) : ival <= ivals[k]} IN
  ivals[IF notBelow = {} THEN Len(ivals) ELSE Lowest(notBelow)]

Fill(iformat, iframe, ival) ==
  LET f == Clamp(iformat, 1, Len(Formats))
      r == Clamp(iframe, 1, Len(Formats[f].frames))
  IN [format |-> f, frame |-> r, interval |-> FirstNotBelow(Intervals(f, r), ival)]

Refill(ctrl) == Fill(ctrl.format, ctrl.frame, ctrl.interval)

NoFormat == <<0, 0>>
NoResponse == [format |-> 0, frame |-> 0, interval |-> 0]

\* Without a function main() returns before it installs anything.
Init ==
  /\ world \in Worlds
  /\ fc = ParseUvcFunction(world)
  /\ loop = IF fc.ret = "ok" THEN "runs" ELSE "exited"
  /\ kind \in Sources
  /\ control = "none"
  /\ dataStage = FALSE
  /\ probe = IF loop = "runs" THEN Fill(1, 1, 0) ELSE NoResponse
  /\ commit = probe
  /\ resp = NoResponse
  /\ sinkFormat = NoFormat
  /\ srcFormat = NoFormat
  /\ slides = 0
  /\ cur = 0
  /\ rate = 0
  /\ granted = 0
  /\ period = 0
  /\ armed = 0
  /\ streaming = FALSE
  /\ sinkOn = FALSE

-----------------------------------------------------------------------------
(* uvc_events_process_setup *)

\* SET_CUR of the probe or the commit control.
SetCur(cs) ==
  /\ control' = cs
  /\ dataStage' = TRUE
  /\ UNCHANGED <<probe, commit, resp>>

\* What the device answers to a GET request; GET_RES answers zeroes.
Answer(req, cs) ==
  CASE req = "GET_CUR"                -> IF cs = "PROBE" THEN probe ELSE commit
    [] req = "GET_MAX"                -> Fill(UIntMax, UIntMax, UIntMax)
    [] req \in {"GET_MIN", "GET_DEF"} -> Fill(1, 1, 0)
    [] req = "GET_RES"                -> NoResponse

Get(req, cs) ==
  /\ control' = "none"
  /\ dataStage' = FALSE
  /\ resp' = Answer(req, cs)
  /\ UNCHANGED <<probe, commit>>

\* A request to another control: it forgets a SET_CUR whose data never came.
OtherRequest ==
  /\ control' = "none"
  /\ dataStage' \in BOOLEAN
  /\ UNCHANGED <<probe, commit, resp>>

ProcessSetup ==
  /\ loop = "runs"
  /\ \/ \E cs \in {"PROBE", "COMMIT"} : SetCur(cs)
     \/ \E cs \in {"PROBE", "COMMIT"}, req \in {"GET_CUR", "GET_MAX", "GET_MIN", "GET_DEF", "GET_RES"} :
          Get(req, cs)
     \/ OtherRequest
  /\ UNCHANGED source

-----------------------------------------------------------------------------
(* uvc_stream_set_format, uvc_stream_set_frame_rate *)

\* Slip: a directory that cannot be read leaves the list empty.
NoDummySlide == 0
\* An unreadable directory leaves one black slide.
DummySlide == 1

\* The slides of the old format are dropped, those of the new one are read.
SlideshowSetFormat(fmt) ==
  /\ srcFormat' = fmt
  /\ slides' \in {DummySlide} \cup 1 .. MaxSlides
  /\ cur' = IF slides' = 0 THEN 0 ELSE 1

\* The camera's driver may choose another format.
CameraSetFormat(fmt) ==
  /\ \E f \in 1 .. Len(Formats) : \E r \in 1 .. Len(Formats[f].frames) : srcFormat' = <<f, r>>
  /\ UNCHANGED <<slides, cur>>

SourceSetFormat(fmt) == IF kind = "camera" THEN CameraSetFormat(fmt) ELSE SlideshowSetFormat(fmt)

\* Slip: the source is set although the UVC device refused.
SetFormatAnyway(fmt) ==
  /\ SourceSetFormat(fmt)
  /\ sinkFormat' \in {fmt} \cup IF SinkRefuses THEN {sinkFormat} ELSE {}

\* uvc_stream_set_format: the source is set only if the UVC device took the format.
SetFormat(fmt) ==
  \/ sinkFormat' = fmt /\ SourceSetFormat(fmt)
  \/ SinkRefuses /\ UNCHANGED <<sinkFormat, srcFormat, slides, cur>>

\* fps = 1.0 / (dwFrameInterval / 10000000.0), converted to an integer.
FramesPerSecond(interval) == Second \div interval

\* timer_set_fps divides by fps; v4l2_set_frame_rate does not look at the answer.
SetFrameRate(fps) ==
  /\ rate' = fps
  /\ IF kind = "camera"
     THEN granted' \in {fps} \cup CameraRates /\ UNCHANGED <<period, loop>>
     ELSE /\ UNCHANGED granted
          /\ IF fps = 0 THEN loop' = "crashed" /\ UNCHANGED period
                        ELSE period' = 1000000000 \div fps /\ UNCHANGED loop

-----------------------------------------------------------------------------
(* uvc_events_process_data *)

Commit(ctrl) ==
  /\ commit' = Refill(ctrl)
  /\ SetFormat(<<commit'.format, commit'.frame>>)
  /\ SetFrameRate(FramesPerSecond(commit'.interval))
  /\ UNCHANGED <<probe, armed, streaming, sinkOn>>

\* The host asks for anything, or for what it was told last.
ProcessData ==
  /\ loop = "runs"
  /\ dataStage
  /\ dataStage' = FALSE
  /\ \E ctrl \in {resp} \cup [format : AnyIndex, frame : AnyIndex, interval : HostIntervals] :
       \/ control = "PROBE" /\ probe' = Refill(ctrl) /\ UNCHANGED <<commit, source>>
       \/ control = "COMMIT" /\ Commit(ctrl)
       \/ control = "none" /\ UNCHANGED <<probe, commit, source>>
  /\ UNCHANGED <<control, resp>>

-----------------------------------------------------------------------------
(* The stream *)

Prefill == 4      \* buffers filled before the stream starts (stream.c:142)

\* The slide after the next k ones: the list is a ring.
SlideAfter(k) == IF slides = 0 THEN cur ELSE 1 + ((cur - 1 + k) % slides)

\* What copying the slide and waiting for the timer does to the loop.
\* read() on a timerfd that is not armed never returns.
AfterFill ==
  IF cur = 0 THEN "crashed" ELSE IF streaming /\ armed = 0 THEN "blocked" ELSE "runs"

\* Slip: the timer is not armed.
StaysDisarmed == armed
\* timer_arm: a tv_nsec of a whole second is refused.
Armed == IF period < 1000000000 THEN period ELSE armed

\* STREAMON: the buffers are filled before the timer runs.
StreamOn ==
  /\ loop = "runs"
  /\ rate # 0
  /\ ~sinkOn
  /\ IF kind = "camera"
     THEN sinkOn' = TRUE /\ UNCHANGED <<cur, armed, streaming, loop>>
     ELSE /\ loop' = AfterFill
          /\ cur' = SlideAfter(Prefill)
          /\ IF loop' = "runs"
             THEN /\ armed' = Armed
                  /\ streaming' = (streaming \/ period < 1000000000)
                  /\ sinkOn' = TRUE
             ELSE UNCHANGED <<armed, streaming, sinkOn>>
  /\ UNCHANGED <<negotiation, sinkFormat, srcFormat, slides, rate, granted, period>>

\* A frame was sent: its buffer is filled again, at the timer's pace.
FillFrame ==
  /\ loop = "runs"
  /\ sinkOn
  /\ kind = "slideshow"
  /\ loop' = AfterFill
  /\ cur' = SlideAfter(1)
  /\ UNCHANGED <<negotiation, sinkFormat, srcFormat, slides, rate, granted, period, armed,
                 streaming, sinkOn>>

\* Slip: the source goes on as if the timer still ran.
StillStreaming == streaming
StoppedStreaming == FALSE

StreamOff ==
  /\ loop = "runs"
  /\ sinkOn
  /\ sinkOn' = FALSE
  /\ armed' = 0
  /\ streaming' = StoppedStreaming
  /\ UNCHANGED <<negotiation, sinkFormat, srcFormat, slides, cur, rate, granted, period, loop>>

Next ==
  /\ ProcessSetup \/ ProcessData \/ StreamOn \/ FillFrame \/ StreamOff
  /\ UNCHANGED setup

Spec == Init /\ [][Next]_vars

-----------------------------------------------------------------------------
(* Properties *)

\* What is negotiated is a frame and an interval that the function behind the
\* video device declares, whatever the host asked for: the program, which reads
\* the function's directories, and the host, which reads its descriptors, mean
\* the same by an index (configfs.c:709 and 793, uvc.c:139-155).
Declared ==
  loop # "exited" =>
    \A ctrl \in {probe, commit} :
      Declares(world, world.videos[fc.video], ctrl.format, ctrl.frame, ctrl.interval)

\* An answer stands: a host that commits exactly what the device told it, the
\* current, minimum, maximum or default setting, gets exactly that.
AnswerStands == resp # NoResponse => Refill(resp) = resp

\* The slideshow plays the format the UVC device announces, a refusal included:
\* otherwise the host would decode frames of another size (stream.c:294-298).
EndsAgree == kind = "slideshow" => srcFormat = sinkFormat

\* Once a format is set there is a slide to show: "the format passed here _must_
\* be accepted" (slideshow-source.c:248-254).
SlideToShow == kind = "slideshow" /\ sinkFormat # NoFormat => cur \in 1 .. slides

\* Once the UVC device has taken a format the event loop never waits for a timer
\* that does not run, which would stop the handling of USB events for good:
\* fill_buffer, stream_on, stream_off and set_frame_rate keep the timer and the
\* streaming flag together.  (Without a format there is no slide to copy.)
LoopRuns == sinkFormat # NoFormat => loop = "runs"

\* While a slideshow is on, its timer runs: "to ensure that our configured frame
\* rate is adhered to" (slideshow-source.c:335-338).
Paced == kind = "slideshow" /\ sinkOn => streaming /\ armed # 0
=============================================================================
