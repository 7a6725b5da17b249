---------------------------- MODULE LetuxControl ----------------------------
(***************************************************************************)
(* The control requests of uvc-gadget-for-letux (uvc-gadget.c): the PROBE  *)
(* and COMMIT controls, the exposure mode of the camera terminal, the      *)
(* brightness of the processing unit and the error code of the last        *)
(* request; and what a COMMIT changes in a stream without a camera, whose  *)
(* buffers are allocated when it starts and drawn for every frame.         *)
(*                                                                         *)
(* A request that sets something comes in two events, SETUP and DATA, and  *)
(* dev->control is all that connects them.  The host may give a request up *)
(* after the first and send another, and it may send any request at any    *)
(* time, a COMMIT during a stream included.                                *)
(***************************************************************************)
EXTENDS Naturals, Sequences, FiniteSets

CONSTANTS Formats,        \* uvc_formats: [mjpeg, frames], each frame [size, intervals]
          ImageSize,      \* imgsize
          Pictures,       \* "camera", "pattern" (-d) and "image" (-i)
          HostIndices,    \* bFormatIndex and bFrameIndex of a request
          HostIntervals,  \* intervals the host may ask for
          HostLevels      \* values the host may send as brightness

Frame(f, r) == Formats[f].frames[r]

ASSUME FormatsAssumption ==
  /\ Formats \in Seq([mjpeg : BOOLEAN, frames : Seq([size : Nat, intervals : Seq(Nat)])])
  /\ Formats # << >>
  /\ \A f \in 1 .. Len(Formats) :
       /\ Formats[f].frames # << >>
       /\ \A r \in 1 .. Len(Formats[f].frames) :
            /\ Frame(f, r).intervals # << >>
            /\ \A j, k \in 1 .. Len(Frame(f, r).intervals) :
                 j <= k => Frame(f, r).intervals[j] <= Frame(f, r).intervals[k]
ASSUME InputsAssumption ==
  /\ ImageSize \in Nat
  /\ Pictures \subseteq {"camera", "pattern", "image"} /\ Pictures # {}
  /\ HostIndices \subseteq Nat /\ HostIntervals \subseteq Nat /\ HostLevels \subseteq Nat

VARIABLES picture,     \* what the frames show, fixed by the options
          control,     \* dev->control
          setting,     \* what the host is setting: it owes the data
          probe,       \* dev->probe
          commit,      \* dev->commit
          told,        \* the last control the host was sent
          errcode,     \* dev->request_error_code
          brightness,  \* dev->brightness_val
          camera,      \* the brightness of the camera
          fmt,         \* dev->fcc, width and height, as <<format, frame>>
          negotiated,  \* the host has sent a COMMIT
          buffers,     \* the format the buffers were allocated for
          late,        \* a COMMIT has come since they were
          alive        \* the program has not crashed

units == <<errcode, brightness, camera>>
stream == <<fmt, negotiated, buffers, late, alive>>
controlVars == <<picture, control, setting, probe, commit, told, units, stream>>

MaxLevel == 255     \* PU_BRIGHTNESS_MAX_VAL
NoFormat == <<0, 0>>
NoControl == [format |-> 0, frame |-> 0, interval |-> 0, size |-> 0]
Indices == UNION {{f} \X (1 .. Len(Formats[f].frames)) : f \in 1 .. Len(Formats)}

-----------------------------------------------------------------------------
(* uvc_fill_streaming_control, and the rounding of uvc_events_process_data *)

Clamp(v, min, max) == IF v < min THEN min ELSE IF v > max THEN max ELSE v
Lowest(S) == CHOOSE k \in S : \A j \in S : k <= j

\* The bytes of a frame, as announced and as drawn.
SizeOf(f, r) == IF Formats[f].mjpeg THEN ImageSize ELSE Frame(f, r).size

Control(f, r, interval) ==
  [format |-> f, frame |-> r, interval |-> interval, size |-> SizeOf(f, r)]

\* Index 0 from the front or -1 from the end, with the first interval.
FirstFormat == Control(1, 1, Frame(1, 1).intervals[1])
LastFormat ==
  LET f == Len(Formats)
      r == Len(Formats[f].frames)
  IN Control(f, r, Frame(f, r).intervals[1])

\* Slip: the interval has to be above the one asked for.
Above(ivals, v) ==
  LET above == {k \in 1 .. Len(ivals) : v < ivals[k]} IN
  ivals[IF above = {} THEN Len(ivals) ELSE Lowest(above)]

\* The first interval that is not below the one asked for, or the last.
AtLeast(ivals, v) ==
  LET enough == {k \in 1 .. Len(ivals) : v <= ivals[k]} IN
  ivals[IF enough = {} THEN Len(ivals) ELSE Lowest(enough)]

Rounded(asked) ==
  LET f == Clamp(asked.format, 1, Len(Formats))
      r == Clamp(asked.frame, 1, Len(Formats[f].frames))
  IN Control(f, r, AtLeast(Frame(f, r).intervals, asked.interval))

ControlInit ==
  /\ picture \in Pictures
  /\ control = "none"
  /\ setting = "none"
  /\ probe = FirstFormat
  /\ commit = FirstFormat
  /\ told = NoControl
  /\ errcode = 0
  /\ brightness = 0
  /\ camera \in {l \in HostLevels : l <= MaxLevel}
  /\ fmt \in Indices          \* options -f and -r
  /\ negotiated = FALSE
  /\ buffers = NoFormat
  /\ late = FALSE
  /\ alive = TRUE

-----------------------------------------------------------------------------
(* uvc_events_process_setup *)

\* Slip: a SETUP leaves what the last one set.
KeepControl == control
\* Every SETUP forgets what the last one was about.
ForgetControl == "none"

\* SET_CUR of PROBE or COMMIT.
StreamingSetCur(cs) ==
  /\ control' = cs
  /\ setting' = cs
  /\ UNCHANGED <<probe, commit, told, units>>

\* What the device answers to a GET request; GET_RES answers zeroes.
Answer(req, cs) ==
  CASE req = "GET_CUR" -> IF cs = "PROBE" THEN probe ELSE commit
    [] req \in {"GET_MIN", "GET_DEF"} -> FirstFormat
    [] req = "GET_MAX" -> LastFormat
    [] req = "GET_RES" -> NoControl

StreamingGet(cs) ==
  /\ control' = ForgetControl
  /\ setting' = "none"
  /\ \E req \in {"GET_CUR", "GET_MIN", "GET_MAX", "GET_DEF", "GET_RES"} : told' = Answer(req, cs)
  /\ UNCHANGED <<probe, commit, units>>

NoError == 0
UnknownControl == 6
BadRequest == 7

\* The requests the two units handle (uvc_events_process_control).
Handled(unit) ==
  {"SET_CUR", "GET_CUR", "GET_DEF", "GET_RES", "GET_INFO"}
  \cup IF unit = "BRIGHTNESS" THEN {"GET_MIN", "GET_MAX"} ELSE {}

UnitRequest(unit) ==
  /\ control' = ForgetControl
  /\ \E req \in {"SET_CUR", "GET_CUR", "GET_MIN", "GET_MAX", "GET_DEF", "GET_RES", "GET_INFO", "GET_LEN"} :
       /\ setting' = IF req = "SET_CUR" THEN unit ELSE "none"
       /\ errcode' = IF req \in Handled(unit) THEN NoError ELSE BadRequest
  /\ UNCHANGED <<probe, commit, told, brightness, camera>>

\* Another control of a unit, or another unit; it is stalled.
UnknownRequest ==
  /\ control' = ForgetControl
  /\ setting' = "none"
  /\ errcode' = UnknownControl
  /\ UNCHANGED <<probe, commit, told, brightness, camera>>

\* Reading the error code, and the requests that have no effect at all.
OtherRequest ==
  /\ control' = ForgetControl
  /\ setting' = "none"
  /\ UNCHANGED <<probe, commit, told, units>>

ProcessSetup ==
  /\ alive
  /\ \/ \E cs \in {"PROBE", "COMMIT"} : StreamingGet(cs) \/ StreamingSetCur(cs)
     \/ \E unit \in {"AE_MODE", "BRIGHTNESS"} : UnitRequest(unit)
     \/ UnknownRequest
     \/ OtherRequest
  /\ UNCHANGED <<picture, stream>>

-----------------------------------------------------------------------------
(* uvc_events_process_data *)

Asked ==
  {told} \cup [format : HostIndices, frame : HostIndices, interval : HostIntervals, size : {0}]

\* Slip: a probe sets the format too.
FormatOfAny(ctrl) == <<ctrl.format, ctrl.frame>>
FormatSet(ctrl) == IF control = "COMMIT" THEN <<ctrl.format, ctrl.frame>> ELSE fmt

StreamingData(asked) ==
  /\ IF control = "PROBE" THEN probe' = Rounded(asked) /\ UNCHANGED commit
                          ELSE commit' = Rounded(asked) /\ UNCHANGED probe
  /\ fmt' = FormatSet(Rounded(asked))
  /\ negotiated' = (negotiated \/ control = "COMMIT")
  /\ late' = (late \/ (control = "COMMIT" /\ buffers # NoFormat))
  /\ UNCHANGED units

ValidLevel(level) == level <= MaxLevel

\* Whatever is not PROBE or COMMIT is taken for the brightness.  The host is
\* refused a value out of range; the camera may refuse any.
BrightnessData(level) ==
  /\ IF ValidLevel(level)
     THEN /\ brightness' = level
          /\ camera' \in IF picture = "camera" THEN {level, camera} ELSE {camera}
     ELSE UNCHANGED <<brightness, camera>>
  /\ UNCHANGED <<errcode, probe, commit, fmt, negotiated, late>>

ProcessData ==
  /\ alive
  /\ setting # "none"
  /\ setting' = "none"
  /\ IF control # "none" THEN \E asked \in Asked : StreamingData(asked)
     ELSE \E level \in HostLevels : BrightnessData(level)
  /\ UNCHANGED <<picture, control, told, buffers, alive>>

-----------------------------------------------------------------------------
(* The stream without a camera *)

\* Drawing a frame copies the image, if the format is MJPEG.
Drawable == Formats[fmt[1]].mjpeg => picture = "image"

\* uvc_video_reqbufs_userptr allocates for the format and draws at once.  It
\* asks for no COMMIT, and one may be half way: its data then come late.
StreamOn ==
  /\ alive
  /\ picture # "camera"
  /\ buffers = NoFormat
  /\ IF Drawable THEN buffers' = fmt /\ UNCHANGED alive
                 ELSE alive' = FALSE /\ UNCHANGED buffers
  /\ UNCHANGED <<picture, control, setting, probe, commit, told, units, fmt, negotiated, late>>

StreamOff ==
  /\ alive
  /\ buffers # NoFormat
  /\ buffers' = NoFormat
  /\ late' = FALSE
  /\ UNCHANGED <<picture, control, setting, probe, commit, told, units, fmt, negotiated, alive>>

ControlNext == ProcessSetup \/ ProcessData \/ StreamOn \/ StreamOff

ControlSpec == ControlInit /\ [][ControlNext]_controlVars

-----------------------------------------------------------------------------
(* Properties *)

StreamingControls == [format : Nat, frame : Nat, interval : Nat, size : Nat]

\* Every variable has its type, and the brightness its range.
ControlTypeOK ==
  /\ picture \in Pictures
  /\ control \in {"none", "PROBE", "COMMIT"}
  /\ setting \in {"none", "PROBE", "COMMIT", "AE_MODE", "BRIGHTNESS"}
  /\ {probe, commit, told} \subseteq StreamingControls
  /\ errcode \in {NoError, UnknownControl, BadRequest}
  /\ brightness \in 0 .. MaxLevel
  /\ camera \in HostLevels
  /\ fmt \in Indices
  /\ negotiated \in BOOLEAN
  /\ buffers \in Indices \cup {NoFormat}
  /\ late \in BOOLEAN
  /\ alive \in BOOLEAN

\* An answer stands: a host that commits what it was told last, the current,
\* first or last setting, gets exactly that, its frame size included.
AnswerStands == told # NoControl => Rounded(told) = told

\* The data of a streaming control reaches the control the host meant, and the
\* data of any other request reaches neither, however many requests the host
\* has given up before: dev->control is set by one event and used by the next.
DataFindsControl ==
  setting # "none" => control = IF setting \in {"PROBE", "COMMIT"} THEN setting ELSE "none"

\* Once the host has negotiated, the program draws the frames that COMMIT says,
\* and probes between two streams or during one do not change that.
DrawsCommitted == negotiated => fmt = <<commit.format, commit.frame>>

\* A frame fits the buffers that were allocated when the stream started, and the
\* size the host negotiated: the format is read again for every frame
\* (uvc_video_fill_buffer), while the buffers stay.  It holds as long as no COMMIT
\* has come since the stream started, whatever else the host sends.  A COMMIT
\* does change the format under the buffers (1872-1876): a frame larger than
\* they are is then drawn until the stream is stopped.
FrameFits ==
  buffers # NoFormat /\ ~late =>
    /\ SizeOf(fmt[1], fmt[2]) <= SizeOf(buffers[1], buffers[2])
    /\ negotiated => SizeOf(fmt[1], fmt[2]) <= commit.size
=============================================================================
