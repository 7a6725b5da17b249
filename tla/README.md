# Formal models of letux-rootfs

letux-rootfs holds the packages that make a Debian root file system into a
Letux one: USB gadget functions, a webcam program, automatic mounting,
configuration and install scripts. Most of it is scripts that run once. The
parts with state, concurrency and failure are in `letux-gadget/` (the gadget
scripts and `uvc-gadget`, the program that makes the device a USB webcam) and
in `letux-usbmount/`; this directory models them in TLA+, checks the models with
TLC and proves theorems about them with TLAPS.

## The system

### Components, their state and what makes them correct

| component | state | operations | correct when |
|---|---|---|---|
| event loop (`lib/events.c`) | list of watched descriptors, fd sets, the flag `done` | watch, unwatch, dispatch, loop, stop | callbacks may change the list under the walk; no event starves; SIGINT ends the loop |
| main program (`src/main.c`) | what it has made so far | set up, loop, clean up | what is freed is used by nobody any more |
| stream (`lib/stream.c`) | which devices stream and hold buffers | start (three ways), stop, set format, set rate, buffer handlers | a buffer has one owner; a failed start and a stop leave a clean slate |
| V4L2 library (`lib/v4l2.c`) | buffers, memory type, format, rate of a device | alloc, export, import, mmap, free, queue, dequeue, on, off | each error path releases what was taken |
| UVC device (`lib/uvc.c`) | probe, commit and pending control | setup, data, stream events | what is negotiated is what the descriptors offer; answers stand |
| V4L2 and still image sources | the camera's buffers; an image | the `video_source_ops` | frames circulate |
| libcamera source (`lib/libcamera-source.cpp`) | requests, finished requests, pipe, encoder | set format, start, stop, process, queue buffer; callbacks of two threads | memory outlives its users; the committed format is sent |
| MJPEG encoder (`lib/mjpeg_encoder.cpp`) | encode queue, one output queue per thread, abort flags | EncodeBuffer, encode threads, output thread, destructor | frames come back in order, each once, none lost |
| slideshow (`lib/slideshow-source.c`, `lib/timer.c`) | list of slides, current slide, timer | set format, set rate, on, off, fill | there is always a slide; the read of the timer ends |
| configfs reader (`lib/configfs.c`) | the function, its video device and its table of formats, read once | find the function, find the device, parse | function, device and table belong together; an index means what it means to the host |
| gadget scripts (`libgadget.sh`, `letux-gadget.sh`) | the configfs tree, a debounce file, background shells | start, stop, add, remove, enable | the gadget ends up with every function linked, described and bound |
| gadget services (init scripts, units) | none | call the scripts, in a row (sysvinit) or together (systemd) | |
| uvc-gadget-for-letux | buffer counters, shutdown flag; probe, commit, pending control, brightness | one loop with a timeout, stream events, two buffer handlers, control requests | buffers circulate, streams restart, data reach the control they are for |
| usbmount | mount points, directories, a lock file | add, remove | a stick is mounted on a directory of its own; nothing is left of one that is gone |
| package scripts, data, devmem2, ip-forwarding | the file system | run once | outside the models |

How they interact: the kernel pushes UVC events (SETUP, DATA, STREAMON,
STREAMOFF) that the event loop hands to `uvc.c`; COMMIT goes through
`stream.c` to the UVC device and the source; STREAMON starts a stream whose
frames go from the source's callback to `v4l2_queue_buffer` on the UVC device
and come back through another callback. libcamera adds the camera's thread,
which wakes the loop through a pipe, and the encoder's threads, the last of
which calls the stream's handler itself. At start the program reads the
tree that the scripts have made, and its table must be what the host reads from
the descriptors. The services call `letux-gadget.sh`, and each call leaves a
background shell that a later call may kill. udev, or systemd when udev asks it
to, runs usbmount for each partition that comes or goes; the runs share a lock, if
they take it.

What is hard here: threads and processes that meet in the middle of something
(encoder, libcamera, scripts), a signal anywhere, a list changed while it is walked, ioctls that
fail half way, USB events that come late, twice or not at all, and integer
arithmetic at the edges. PROJECT.json lists each such place under "hazards".

## Modules

| module | models | state and actions |
|---|---|---|
| `FrameOrder` | what an encoder promises | frames accepted and delivered, and a teardown that waits: `Accept`, `Deliver`, `Drain`, `Close` |
| `MjpegEncoder` | `mjpeg_encoder.cpp` | `encode_queue_`, `output_queue_`, the flags, one program counter per thread; one action per lock section (`EncodeBuffer`, `EncodeThreadTake`, `EncodeThreadPush`, `OutputThreadTake`, ...) |
| `MjpegEncoderProofs` | theorems about it | |
| `V4l2Device` | `v4l2.c` | no variables: a device is a record, a library call an operator from a device to the set of its outcomes |
| `UvcStream` | `events.c`, `stream.c`, `v4l2-source.c`, STATIC sources | the two devices, the watched list, the select() snapshot and cursor, the kernel's events; `Select`, `Skip`, `HandleStreamOn`, `HandleStreamOff`, `SourceProcess`, `SinkProcess`, and the host and drivers |
| `BufferQueues` | the two queues of a V4L2 driver | no variables: which buffers a driver owns and what adding, taking, finishing and giving back all do to them; lemmas for the proofs about programs that pass buffers between two drivers |
| `UvcStreamProofs` | theorems about it | |
| `CameraPipeline` | `libcamera-source.cpp`, the ENCODED start | requests and finished requests, the encoder's queue, the UVC device; the handlers of the loop, `RequestComplete` (camera thread), `OutputReady` (encoder thread), the stop in three steps |
| `Shutdown` | `events_loop`, `events_stop`, the cleanup of `main.c` | `done` and the place of the main thread, around the actions of `CameraPipeline`: `LoopTest`, `Select`, `Wake`, `Dispatch`, `Interrupt`, then `DeleteStream`, `DisconnectSignal`, `ClosePipe`, `DeleteSource`, `Return` |
| `ShutdownProofs` | theorems about it and `CameraPipeline` | |
| `ConfigFs` | `configfs.c` | no variables: a configfs tree with its video nodes is a record (a world), the parser an operator from a world to the table; and what the host sees of the same world |
| `StreamingControl` | `uvc.c`, `slideshow-source.c`, `timer.c` | the table (`ConfigFs`), probe, commit, the pending control, the format at both ends, the slide and the timer; `ProcessSetup`, `ProcessData`, `StreamOn`, `FillFrame`, `StreamOff` |
| `GadgetEnable` | `libgadget.sh`, `letux-gadget.sh` | functions, links, configuration string, UDC, the debounce file, the calls and their shells; one action per shell command |
| `GadgetEnableProofs` | theorems about it | |
| `LetuxStream` | the streaming half of `uvc-gadget-for-letux/uvc-gadget.c` | both device structures, the queues of both drivers, the snapshot and place of the loop; `Select`, `Skip`, `HandleStreamOn`, `HandleStreamOff`, `ProcessUvc`, `ProcessCamera`, `Timeout`, `StopCamera`, `StopUvc`, the host, the camera and their failures |
| `LetuxControl` | its control requests | probe, commit, `dev->control`, error code, brightness, the format drawn and the format of the buffers; `ProcessSetup`, `ProcessData`, `StreamOn`, `StreamOff` |
| `LetuxProofs` | theorems about both | |
| `UsbMount` | `usbmount`, the udev rules, `usb-mount@.service` | sticks, udev's queues, the state of systemd's units, directories, mounts, the lock and one script per partition; `Start` and `Pass` (an event that runs the script, and one that systemd does not run it for), then one action per command (`Acquire`, `GiveUp`, `Glob`, `Test`, `Rmdir`, `Evict`, `Mkdir`, `Search`, `Mount`, ...) |
| `UsbMountProofs` | theorems about it | |

`MC*` modules instantiate each for TLC. A definition that starts with "Slip" in
its comment is not part of a model: it is a plausible mistake, and replacing a
definition by it must break the property it belongs to.

`UvcStream` and `CameraPipeline` both use `V4l2Device`. `CameraPipeline` sees
the encoder as the queue that `FrameOrder` describes: what was accepted is what
was delivered followed by the queue, and `StopFree` waits like `Close`.
`MjpegEncoder` implements `FrameOrder` (checked with its liveness, and proved
for the safety part), so the two models compose. `Shutdown` puts the actions of
`CameraPipeline` into the program's loop: a handler runs only in a walk of the
dispatcher, the other threads at any time, also while the cleanup takes the
program down. `StreamingControl` starts from what `ConfigFs` reads.

uvc-gadget-for-letux is a program of its own. Its loop serves three sets of
descriptors in a fixed order, so `LetuxStream` has a program counter where
`UvcStream` has a list; the two halves share no state but the format, which a
COMMIT sets in `LetuxControl` and which only matters there, because the camera
is never told of it.

### Abstractions

* Frames have no content. In the encoder a frame is an index and a cookie, in
  the streams a buffer index.
* A callback of the event loop is one step, since one thread runs them all;
  `uvc_stream_stop` is several in `CameraPipeline` because other threads run
  during it. The encoder's threads step at their lock boundaries.
* In a walk of `Shutdown` any ready callback may be the next: the order of the
  list is `UvcStream`'s subject. Its phase `setup` stands for all of `main` before
  the loop, of which only the installed SIGINT handler matters.
* What runs after the stream was freed is undefined; `OutputAfterFree` has the two
  outcomes that differ for the properties, that nothing happens and that the
  program dies. `Camera::stop` and the disconnection of its signal wait for a
  `requestComplete` that runs, which libcamera does.
* In `ConfigFs` names are alphabetical ranks, GUIDs and sizes values. An attribute
  that is shorter than it should be leaves bytes uninitialised
  (`configfs.c:118-127`, `160-165`); the kernel writes its attributes whole, and
  they are read as they are.
* A failing `munmap` or `calloc` is left out; `v4l2_free_buffers` after a failed
  `calloc` would use a null pointer (`v4l2.c:568-583`).
* The frame rate is the integer quotient: `1.0 / (interval / 10000000.0)`
  converted to an integer equals it for every interval above 3200.
* `completed_requests` is used by two threads without a lock; each push and pop
  is taken to happen as a whole.
* uvc-gadget-for-letux counts the buffers it has queued and dequeued; only the
  difference is ever used, so `out` is the difference. Its counters are 64 bits
  wide and do not overflow. It is modelled for `-o 1`, the default, with a camera
  whose driver grants two buffers or more.
* In `UsbMount` the variable `calm`, fixed for a behaviour, marks those in which
  nothing is in a hurry: a remove runs alone, the lock is free in time, mount and
  umount work, labels differ. Only `SettledMounted` asks for it. The variable
  `systemd`, fixed as well, says who runs the script. Without it every event does
  (`74-usbmount.rules:11-14`). With it the script leaves when udev calls it
  (`usbmount:24`), and only the unit of the partition runs it: `add` when a unit that
  is not active is started, `remove` when one that is active is stopped
  (`usb-mount@.service`). A script that exits with 1 (139, 156, 181, 285) leaves
  its unit failed, and no `remove` is run for it.
* REQBUFS(0) in `v4l2_free_buffers` is taken to succeed when the device does not
  stream (`v4l2.c:624-629` has an error return, which no caller looks at). The `memcpy` of the brightness (`uvc-gadget.c:1758`) is
  taken to copy a value that fits. The camera of a compressed stream grants the
  buffers it was asked for; the one of a shared stream may grant fewer (`Granted`).
* Of a UVC device whose STREAMON fails, or whose cable is pulled, `CameraPipeline`
  says nothing (`SinkFaultsAssumption`): the next STREAMON would start a libcamera
  camera that runs. `UvcStream` has both failures for a V4L2 camera.
* In the scripts a command is a step, also when its shell is killed: the command
  in progress ends. Process numbers are not reused. The gadget has one
  configuration, `c.1`. `gadget_uvc` makes a subtree of descriptors; here it is
  one directory.

### What is taken from outside the sources

The kernel and libcamera are modelled from how the code uses them ("external" in
PROJECT.json): `f_uvc` sends STREAMON when alternate setting 1 is chosen while
it is only connected, STREAMOFF for setting 0, and nothing the program
subscribes to when the cable is pulled; a device that does not stream polls as
an error, which select() reports as ready; REQBUFS(0) is refused while
streaming; STREAMOFF returns every buffer. configfs refuses a link while the
gadget is bound, unbinds a gadget that loses a function, refuses to remove a
linked function and to bind an empty configuration. `validate()` keeps a format
the camera has and otherwise chooses one of its own; `Camera::stop` cancels
what is queued before it returns. The kernel numbers formats in the order of
their links and frames in the order of their directories, keeps the intervals of
a frame sorted, and takes the UVC function off the bus when its node is closed;
the driver g_webcam is taken to declare the table that `configfs.c` has for it.
mkdir, rmdir, mount and umount do what their manual pages say, and udev runs the
events of one partition one after the other. `systemctl start` runs nothing for a
unit that is active, and a `oneshot` unit with `RemainAfterExit` is active when its
ExecStart ended with 0 and failed otherwise; `systemctl stop` runs ExecStop for an
active unit only. Both return when the script has ended.

## Runs

| run | question | instance |
|---|---|---|
| `encoder` | order, exactly once, nothing lost, the destructor returns, `FrameOrder` implemented | 3 encode threads, 4 frames, 2 cookies: three frames can be overtaken by the fourth, and a frame wait in each output queue |
| `stream_faults` | ownership, release, the dispatcher's list | both kinds of source, the program's 4 buffers, every ioctl failure, QBUF included, and unplugging for ever, 2 pending events |
| `stream_flow` | no buffer lost, STREAMON works, nothing starves | the same without failures, with fairness |
| `camera_threads` | ownership between four parties, memory alive while a stream stops and while the program ends, frames flow, SIGINT ends the program | 3 buffers, a camera with YUYV and YUV420; on the UVC side a failing REQBUFS, QUERYBUF, mmap or DQBUF and a driver that grants more or fewer buffers; on the camera's a failing or meagre allocation, a failing start, a refused format; SIGINT anywhere, any number of times |
| `gadget_serial` | calls in a row always end with the gadget up to date | 3 calls, 3 serial ports, ECM and RNDIS; each call kills the shell before it anywhere |
| `control_sources` | function, device and table belong together; the negotiation and the slideshow | 5 worlds: two UVC functions by path and by name, whose tables are in no order, and three that must be refused; 2 formats, 2 frames, up to 2 intervals, odd and zero intervals asked for, 3 slides, refused formats, a camera's own rate |
| `letux_stream` | ownership, circulation, counters and memory of uvc-gadget-for-letux; without a failure it never ends and frames flow | 2 buffers (the default) and a camera that may grant 3, with and without a camera, 3 streams, 1 failure, which may be a QBUF of either driver |
| `letux_control` | the negotiation of uvc-gadget-for-letux | its own tables of formats, indices out of range, requests given up, requests and COMMITs at any time, brightness in and out of range |
| `usb_mounts` | one place for one stick, nothing left behind (under systemd: no directory, unless a unit has failed), in a calm system every stick at its label | with and without systemd, 2 partitions, 2 labels, one mount point of the configuration, 2 pending events for each, sticks with and without a label or a file system |
| `stream_replug` | violated: STREAMON after the cable was pulled | 2 buffers |
| `control_slow` | violated: fps is not zero | the table for g_webcam, with frames that last five seconds |
| `exit_encoder` | violated: resources are freed cleanly | 1 buffer, no failures |

What is proved for every value of the constants, `NextFrameAtSomeHead`,
`DrainedAtExit`, `WatchedOnce`, `DrawsCommitted` and the type invariants of
`MjpegEncoder`, `LetuxControl`, `UsbMount` and `GadgetEnable`, is not repeated in
a run, except where a property is also the best summary of its run.

The bounds are those at which every action fires and every queue can be empty,
partly full and full. Two pending events are enough for a STREAMOFF and the
STREAMON behind it, or a repeated STREAMON. Three calls let a shell be killed by
a second call while a third finds the second one's shell. Two partitions are two
scripts that overlap in any way, the adds, which exclude each other, included.
`usb_mounts` is the largest run, with 6.0 million states.
`CHECK_DEADLOCK FALSE`
appears where the system stops: the calls of `GadgetEnable` are used up, and
`StreamingControl` stops when the program crashes or blocks (a STREAMON after a
refused first format, which `LoopRuns` excludes), the loop of `LetuxStream` ends
after a timeout, and `LetuxControl` crashes when an MJPEG stream starts without
an image. In all others TLC also shows
that nothing deadlocks; in `camera_threads` a program that has ended stutters
(`Ended`), so that this says that neither a STREAMOFF nor the cleanup waits for
ever for another thread.

The runs that end in a violation are the findings of PROJECT.json: each states
what a comment or a header of the code says. Other disagreements have no run of
their own; the models have them, and they are noted under "hazards":

* a failing `dup()` is reported as success (`v4l2.c:721`);
* the results of `VIDIOC_QBUF` (`stream.c:47` and 61, `uvc-gadget.c:504` and 1013) and
  of `queueRequest()` (`libcamera-source.cpp:431`) are ignored, or passed to a loop that
  ignores them: the buffer is then with nobody until the stream restarts. The circulation
  properties leave these failures out and say so; ownership and release include them;
* a driver that grants more buffers than it was asked for keeps them: the error path
  calls `v4l2_free_buffers` while `nbufs` is still 0, which does nothing
  (`v4l2.c:555-559`, 593). `WatchedOrReleased` and `StoppedIsReleased` except them;
* uvc-gadget-for-letux takes a COMMIT during a stream and draws the new format into
  the buffers of the old one (`uvc-gadget.c:1872-1876`, 884-904). `FrameFits` holds until
  such a COMMIT comes (`late`);
* under systemd the directory of a partition whose `add` has failed stays when the
  partition goes, for example that of a LUKS or swap partition with a UUID
  (`usbmount:181`, after the mkdir of 169), until some other script cleans up. `AllGone`
  excepts it;
* a source that was set to compress still does after another format is committed,
  and no longer does after a restart without a COMMIT (`libcamera-source.cpp:418`);
* without a name, the video device and the directory of formats are searched for
  separately and may be of two functions (`configfs.c:204`);
* calls of the scripts that overlap, as systemd makes them, may end with the gadget
  not up to date: a shell binds between another one's unbind and its `ln`, which
  then fails (`libgadget.sh:137-138`), RNDIS and ECM are linked together (126), or
  two functions get one number (257). With `Concurrent = TRUE` TLC finds such
  behaviours against `SettledUpToDate` and `OneUpdate`;
* without `calm` a stick may stay unmounted: `remove` cleans up without the lock and
  may take the directory an `add` has just made (`usbmount:316`), a lock that is not
  free in time is given up (138), and of two sticks with one label the later one
  unmounts the other (160-167);
* the two buffers that `uvc-gadget.c:965-968` wants to see at the UVC function are
  not there after a restart, and the data for the exposure mode change the
  brightness (`uvc-gadget.c:1825`).

One failure per behaviour is enough in `letux_stream`: each kind breaks the
stream for good (none of them is repaired, see the hazards), and what the
properties ask is that the break harms neither ownership nor memory. Three
streams are two restarts, one after the counters have grown and one more.

### Fairness

* Encoder: weak fairness of each thread. The threads are C++ threads that the
  scheduler runs; their waits have timeouts, which are actions of their own.
* `UvcStream`: weak fairness of the event loop, which never sleeps while
  something is ready, of a camera that streams and of a host that reads. None
  is assumed of the host starting or stopping a stream.
* `Shutdown`: weak fairness of the main thread, of the other threads, the camera
  and the host; strong fairness of the end of a walk and of the frame callbacks,
  since a walk is finite and calls everything that select() has reported. None is
  assumed of SIGINT.
* `LetuxStream`: weak fairness of the loop as a whole, of a camera that captures
  and of a host that reads; the three descriptors are served in every round.
* `GadgetEnable`: a process that has begun keeps running.

## Proofs

`MjpegEncoderProofs` proves about `MjpegEncoder`, for any set of threads, any
set of cookies and any number of frames: `TypeCorrect`, `InOrder`, `Lossless`,
`NextReachable`, `Drained` (the safety properties of the run) and `Implements`
(every step is a step of `FrameOrder` or a stutter).

The argument is the inductive invariant `IndInv` (`Inductive`). None of the
properties is inductive: that the output thread may wait for the next index at
the heads of the queues needs that each queue is sorted; that a thread which
pushes keeps its queue sorted needs that what it encodes is above everything it
has pushed and below what is still in the encode queue; that nothing is lost
needs that each accepted index is in exactly one place, the encode queue, a
thread's hands, an output queue, the output thread's hands, or delivered; that
the output thread may end needs that no encode thread still holds a frame once
the destructor has set the second flag. Assumptions: only those named in the
module (`Threads` is a finite set, `MaxFrames` bounds the model, cookies are
arbitrary).

`UvcStreamProofs` proves about `UvcStream`, for every set of faults, number of
buffers, bound on pending events and kind of source: `BufferOwnership` (the run's
`OneOwner`), `ListCorrect` (`WatchedOnce` and `CursorInList`), `StartStopReleases`
(`WatchedOrReleased`) and, when the UVC device grants as many buffers as it is asked
for and neither `dup()` nor `VIDIOC_QBUF` fails, `CirculationHolds` (`NothingStranded`).

The argument has two layers. Each library call of `V4l2Device` keeps a device
sound (`Sound`): the driver holds no buffer twice, and none when the library has
no count; one lemma per call says so and what the call does to the owned set.
`OneOwner` alone is not inductive: a buffer that moves from one driver to the
other must have been with the first one only once, and a start must find both
queues empty, which follows from the counts being zero. The list needs that a
watched stream still has the buffers a start looks at first (`StartRefused`):
only then does a repeated STREAMON change nothing, so that the list is always
one of three and a stop takes it back to the first. `StartStopReleases` needs both
ends of a camera's stream to have buffers while it is watched and nothing at all
while it is not (`Whole`): the release does nothing to a device without a count, so
whatever a failed call leaves behind must be counted. The buffers of a driver that
granted more than it was asked for are not; the theorem excepts them. `CirculationHolds` needs that
two ends that stream have the same buffers, all of them imported (`Around`), so that
each end takes what the other gives up: the lemmas of `BufferQueues` that nothing
gets lost, and `OneOwner`, since a driver refuses a buffer it has. Its three
hypotheses are needed: with any of these failures a buffer that a driver refuses, or
did not get, is never queued again. Assumptions: those named in
`V4l2Device` and `UvcStream`.

`LetuxProofs` proves about `LetuxStream`, for every number of buffers, every
camera, any failures and any number of streams, with or without a camera:
`OneOwnerHolds`, `CountersCoverHolds` and `MemoryHeldHolds`. The two queues of a
driver are again `Sound`, so that taking a buffer leaves the driver one fewer: the
counters follow because each handler counts what it moves, and counting is what
the lemmas on finite sets are for (`CountTake`, `CountGive`, `CountAll`). STREAMOFF
empties a driver and leaves its counter, which can only make the counter larger
than what it covers. That no buffer is with both drivers needs that a start of the camera
queues only what the camera does not have (`CameraQueuedFacts`), that a capture goes
on only with a camera (`NoCamera`), and that the camera's memory stays while the
loop runs (`CameraMemory`). `CirculationHolds` and `KeepsRunningHolds` say that
buffers do not get lost. At most one STREAMOFF is pending, and it ends the stream that
has begun (`Pending`); before the first frame of a stream the UVC function has nothing
(`Begun`); from STREAMON until an end is announced each driver takes what the other
gives up (`Around`), unless a QBUF has failed, which `Circulation` excepts. Without failures only a STREAMOFF ends a stream (`Fit`), so
that select() would wait in vain only if all buffers, of which there are at least
two, were missing. Assumptions: those named in the module.

`LetuxProofs` proves about `LetuxControl`, for every table of formats and every
value the host may send, all that its run checks: `ControlTypeCorrect`,
`AnswersStand`, `DataMeant` (`DataFindsControl`), `CommittedDrawn`
(`DrawsCommitted`) and `DrawingFits` (`FrameFits`). The invariant says that probe
and commit are settings of the table (`Stands`), and two lemmas that rounding
always yields one and leaves one alone; the second needs the intervals of a frame
to be sorted, which `FormatsAssumption` asks of the table. `DrawingFits` needs
all of it together: a frame fits since the format is that of the buffers while
they exist (`BuffersKeep`) until a COMMIT arrives during the stream, which `late`
records, whether its SETUP came before the STREAMON or after it; since the data of
other requests do not change it, `dev->control` being what the host is setting; and
since what was committed last is what is drawn. The host is free to send anything
at any time.

`UsbMountProofs` proves about `UsbMount`, for every set of partitions, labels and
mount points: `TypeCorrect`, `MountsExclusive` (`OnePerPlace`), `AllGoneHolds`, and
`SettledMountedHolds`, which alone is about a calm system. The invariant says what the
lock is for (`Locked`: between taking and giving back, an add holds it, whatever the
removes do), that a partition which is being mounted is mounted nowhere
(`NotYetMounted`), and that nothing is mounted at the place an add has found until it
has mounted there (`PlaceIsFree`). That needs `Locked`, since only another add could
mount there, and `RemoveSteps`: a remove only takes mounts and directories away.

`AllGone` needs that nothing escapes the removes (`Cleaned`): what is mounted is
plugged in, or the event of its unplugging is still to be followed (`Followed`); every
directory that an add made is still to be passed by some remove (`DirsCleaned`,
`BaseCleaned`); and the last event of a stick tells whether it is there
(`LastEvent`). Under systemd a remove is still to come only where a unit is up or its
add runs (`ComingFor`), so that the invariant also says what the units know (`Units`):
what is mounted has an active unit once its script has ended, and an active unit is
stopped when its stick goes. A failed unit counts as one that is still to clean up,
which is why directories may stay when one is left, but no mount. `SettledMounted` is about the calm system (no remove beside another
script, no two sticks with one label, no command that fails or outlasts the lock's patience):
a remove runs alone (`Alone`) and labels differ (`Unique`); an add after the last remove
still finds its stick, and what is mounted is in the place the add chose (`Fresh`,
`ToldOf`); the directory is ready when it is mounted on (`PlaceReady`); so that a stick
is told of, on its way or mounted (`Settling`), mounted also when its unit is active and
further adds are passed over (`Arrived`). Assumptions: those named in the module.

`GadgetEnableProofs` proves about `GadgetEnable`, for any number of calls and any
list of functions: `TypeCorrect`, also for calls that overlap, and for calls in a
row `OneAtATime` (`OneUpdate`) and `Settles` (`SettledUpToDate`). The invariant has
two halves. `Control` says who runs: one call (`Serial`), whose kill hits the only
living shell, since a living shell is named by the debounce file until the call
after it has read it, and is about to be named while its own call is at its last
command (`Named`, `KillsIt`, `NoneAtFork`, `OwnAtWrite`). `Content` says how far
the reconfiguration is: as long as no call is between its unbind and its fork
(`AtRest`), what the living shell has walked past is linked or has a rival that
is (`Stage`), and when nobody lives the gadget is up to date (`Rest`); a shell that
is overtaken in the middle may leave anything behind but RNDIS beside ECM. That
calls come in a row is an assumption of the theorems (`~Concurrent`), the others
are those named in the module.

`ShutdownProofs` proves about `CameraPipeline` in the program that `Shutdown` makes
of it, for every number of buffers, any formats and failures, and a SIGINT at any
point (`Unfair`, the program without its fairness): `OneOwnerHolds`,
`EncoderMemoryHolds`, `RequestsLiveHolds`, `StoppedIsReleasedHolds`, `ExitOrderHolds`
and, when no `dup()`, `VIDIOC_QBUF` or `queueRequest()` fails, `NothingStrandedHolds`. Five queues hold the frames; `Apart` says that no frame has two
places among them, and it is kept since a step loses frames from the front of
queues (`LostFacts`), moves one from the front of a queue to the end of another
(`MovedFacts`) or starts with all of them at the camera (`FilledFacts`). That the
last case meets empty queues needs `Rest` (a stream that is not watched has given
everything back), which needs that a stop goes all its steps (`Stopping`, `Phases`:
the main thread leaves the loop only between handlers) and that a STREAMON is never
handled during a stream (`HostOrder`: the end of a stream that runs is at the head
of the events, since f_uvc sends no other before it). `Backed` says who may
touch a frame and that its memory is there; it holds to the end of the process, since the
cleanup unmaps nothing. That nothing is stranded is the other half of a move (`Flow`):
the end that gets a frame takes it. The camera has a request for every frame it may get
back (`Asked`), also when the device was granted fewer buffers than it; the device
has every handle (`Handles`); and a frame arrives after the stream was freed only at a
closed device (`Closed`). A `dup()` that fails unnoticed breaks `Handles`, a QBUF or a
`queueRequest()` that fails breaks the move itself (`NoLoss`); the run leaves these three
out, the other theorems do not. `StoppedIsReleasedHolds` excepts the buffers of a driver
that granted too many, like `StartStopReleases`. Assumptions: those named in
`V4l2Device` and `CameraPipeline`; that STREAMON of the UVC device does not fail and
its cable is not pulled is one of them (`SinkFaultsAssumption`).

`StreamingControlProofs` proves about `StreamingControl` and `ConfigFs` all that
`control_sources` checks, for every tree the program may find, everything the host
may ask for, any number of slides and any rate a camera chooses: `DeclaredHolds`,
`AnswerStandsHolds`, `EndsAgreeHolds`, `SlideToShowHolds`, `LoopRunsHolds` and
`PacedHolds`. The first half is about the pure functions of `ConfigFs`: sorting by
keys that differ puts every entry in exactly one place (`PlaceFacts`, by counting
the entries before it), so that sorting a directory by name and the result by index
restores the order in which the kernel numbered it (`InOrder`); hence the table
mirrors the formats and frames of the function (`HeaderFacts`), and the function is
the one behind the video node that was found (`FunctionIsBehind`). The second half is
the invariant `Negotiated`: probe, commit and the last answer are entries of that
table (`Entry`). `Fill` always yields an entry, and an entry unchanged if the
intervals of a frame ascend (`FillFacts`). The timer needs `Running`: a rate that was
set left a period, and a source that streams has armed the timer.

What a theorem assumes of the trees is in its statement, and TLC evaluates it to true
on the worlds of `control_sources`:

* `Trees`: the names in a directory differ, and so do those of the controllers from
  the program's wildcard; the kernel keeps the intervals of a frame ascending and
  has at least one of them (both are f_uvc's, which sorts them at every write).
* `Named`, for `Declared` only: a program that is started without the name of a function
  finds nodes of first functions only; otherwise it may serve the node of another
  function (`configfs.c:204`, see the hazards).
* `Alone`, for `Declared` only: when no gadget has the function, the nodes are those of
  a g_webcam, whose controller the argument then names.
* `Rates(1)` and `Rates(2)`: no frame lasts longer than a second, for `LoopRuns`, and
  than half a second, for `Paced`. `control_slow` shows what happens otherwise; a period of
  exactly a second is refused by the timer (`timer.c:62`), which then does not run.

Model-checked only is liveness (`DestructorReturns`, the fairness in `OrderSpec`,
`StreamOnStarts`, `EventsServed`, `FramesFlow`, `Converges`, `InterruptEnds`): it rests on
fairness and `ENABLED`, which the prover does not reason about. Every invariant and every
safety part of an action property that a passing run checks has its theorem.

## Not modelled

The package scripts, devmem2, ip-forwarding and the vendored glob have no
behaviour a model would add to: they run once, alone. Bulk mode of
uvc-gadget-for-letux (`-b`) is left out, as it never streams: STREAMON is ignored
and COMMIT does not start the stream the comment at `uvc-gadget.c:1279-1287`
promises; so is a camera with `-o 0`, which starts to capture without a buffer.
Of `main.c` the options and the failures before the loop, of usbmount the mount
points of fstab (185-191) and the hooks, which run after the mount, are left out.
`letux-gadget.sh start` and `stop` and the LUNs of mass_storage are not modelled:
they make and remove the tree that `GadgetEnable` begins with.

## Plan

1. Done: `MjpegEncoder`, `UvcStream`, `GadgetEnable`, `LetuxStream`, `LetuxControl`,
   `UsbMount` and `CameraPipeline` in `Shutdown` with their proofs, `StreamingControl`
   with `ConfigFs`.
2. `GadgetEnable`: start and stop of the gadget, the LUNs of mass_storage.
3. Proofs: every invariant is proved. What would remain is to prove `GadgetEnable` with
   the operations of item 2.
