----------------------------- MODULE V4l2Device -----------------------------
(***************************************************************************)
(* A V4L2 device as uvc-gadget drives it (lib/v4l2.c): what the library    *)
(* keeps in struct v4l2_device and the queue the kernel keeps behind it.   *)
(* A device is a record; each library call is an operator from the device  *)
(* to the SET of results it may have, one for each outcome of the ioctls,  *)
(* so that the modules which call the library quantify over the outcomes.  *)
(*                                                                         *)
(* Faults names the ioctl failures that may happen in an instance:         *)
(*   "reqbufs" VIDIOC_REQBUFS fails     "more" it grants too many buffers  *)
(*   "fewer"   it grants one less       "query" QUERYBUF or EXPBUF fails   *)
(*   "size"    an imported buffer is too small                             *)
(*   "dup"     dup() of a dmabuf handle fails                              *)
(*   "mmap"    mmap() fails             "streamon" STREAMON fails          *)
(*   "qbuf"    QBUF fails               "dqbuf" DQBUF fails: in both, the  *)
(*             buffer stays where it is                                    *)
(*   "reset"   the USB cable is pulled (UvcStream.HostReset)               *)
(***************************************************************************)
EXTENDS Naturals, Sequences, FiniteSets

CONSTANTS NBufs,          \* buffers the stream asks for (4 in lib/stream.c)
          Faults          \* the failures that may happen

ASSUME NBufsAssumption == NBufs \in Nat \ {0}
ASSUME FaultsAssumption ==
  Faults \subseteq {"reqbufs", "more", "fewer", "query", "size", "dup", "mmap", "streamon",
                    "qbuf", "dqbuf", "reset"}

Buffers == 0 .. NBufs - 1

Device ==
  [nbufs : 0 .. NBufs,                         \* dev->buffers.nbufs
   memtype : {"none", "MMAP", "DMABUF"},       \* dev->memtype
   mem : SUBSET Buffers,                       \* buffers with a mapping
   dmabuf : SUBSET Buffers,                    \* buffers with a dmabuf handle
   kbufs : 0 .. NBufs + 1,                     \* buffers the kernel allocated
   queued : UNION {[1 .. n -> Buffers] : n \in 0 .. NBufs},   \* owned by the driver
   done : UNION {[1 .. n -> Buffers] : n \in 0 .. NBufs},     \* ready to dequeue
   streaming : BOOLEAN]

NewDevice == [nbufs |-> 0, memtype |-> "none", mem |-> {}, dmabuf |-> {},
              kbufs |-> 0, queued |-> << >>, done |-> << >>, streaming |-> FALSE]

\* The buffers the driver owns.
InKernel(d) == {d.queued[k] : k \in 1 .. Len(d.queued)} \cup {d.done[k] : k \in 1 .. Len(d.done)}

Ok(d) == [ret |-> "ok", dev |-> d]
Failed(d) == [ret |-> "error", dev |-> d]
If(fault, results) == IF fault \in Faults THEN results ELSE {}

-----------------------------------------------------------------------------

\* Slip: the release forgets to clear the count.
FreeKeepsCount(d) == [d EXCEPT !.kbufs = 0, !.mem = {}, !.dmabuf = {},
                               !.queued = << >>, !.done = << >>]
FreeBuffers(d) ==
  IF d.nbufs = 0 THEN d
  ELSE IF d.streaming     \* REQBUFS(0) is refused: nbufs keeps its value
       THEN [d EXCEPT !.mem = {}, !.dmabuf = {}]
       ELSE [d EXCEPT !.nbufs = 0, !.kbufs = 0, !.mem = {}, !.dmabuf = {},
                      !.queued = << >>, !.done = << >>]

\* An error leaves through v4l2_free_buffers, which does nothing: nbufs is 0.
\* NBufs + 1 stands for any number above the n that was asked for.
AllocBuffers(d, memtype, n) ==
  IF d.nbufs # 0 THEN {Failed(d)}
  ELSE {Ok([d EXCEPT !.nbufs = g, !.kbufs = g, !.memtype = memtype]) :
           g \in {n} \cup If("fewer", {n - 1} \ {0})}
       \cup If("reqbufs", {Failed(FreeBuffers(d))})
       \cup If("more", {Failed(FreeBuffers([d EXCEPT !.kbufs = NBufs + 1]))})

\* The handles of the first k buffers were exported when a call failed.
ExportBuffers(d) ==
  IF d.nbufs = 0 \/ d.memtype # "MMAP" THEN {Failed(d)}
  ELSE {Ok([d EXCEPT !.dmabuf = 0 .. d.nbufs - 1])}
       \cup If("query", {Failed([d EXCEPT !.dmabuf = 0 .. k - 1]) : k \in 0 .. d.nbufs - 1})

\* dup() failing returns ret, which the successful VIDIOC_QUERYBUF set to 0.
ImportBuffers(d, n) ==
  IF d.nbufs = 0 \/ d.nbufs > n \/ d.memtype # "DMABUF" THEN {Failed(d)}
  ELSE LET first(k) == [d EXCEPT !.dmabuf = 0 .. k - 1] IN
       {Ok(first(d.nbufs))}
       \cup If("query", {Failed(first(k)) : k \in 0 .. d.nbufs - 1})
       \cup If("size", {Failed(first(k)) : k \in 0 .. d.nbufs - 1})
       \cup If("dup", {Ok(first(k)) : k \in 0 .. d.nbufs - 1})

MmapBuffers(d) ==
  IF d.memtype # "MMAP" THEN {Failed(d)}
  ELSE {Ok([d EXCEPT !.mem = 0 .. d.nbufs - 1])}
       \cup If("mmap", {Failed([d EXCEPT !.mem = 0 .. k - 1]) : k \in 0 .. d.nbufs - 1})

\* The driver refuses a buffer it owns already and one without memory.
CanQueue(d, i) ==
  /\ i < d.nbufs
  /\ i \notin InKernel(d)
  /\ d.memtype = "DMABUF" => i \in d.dmabuf

QueueBuffer(d, i) ==
  IF CanQueue(d, i)
  THEN {Ok([d EXCEPT !.queued = Append(@, i)])} \cup If("qbuf", {Failed(d)})
  ELSE {Failed(d)}

\* Slip: the last buffer is forgotten.
QueueAllButLast(d) == {Ok([d EXCEPT !.queued = [k \in 1 .. d.nbufs - 1 |-> k - 1]])}

\* Queue every buffer in index order, up to the first that fails.
QueueAll(d) ==
  LET upTo(n) == [d EXCEPT !.queued = @ \o [k \in 1 .. n |-> k - 1]]
      able(n) == \A i \in 0 .. n - 1 : CanQueue(d, i)
      fails(n) == "qbuf" \in Faults \/ ~CanQueue(d, n)
  IN {Ok(upTo(n)) : n \in {m \in {d.nbufs} : able(m)}}
     \cup {Failed(upTo(n)) : n \in {m \in 0 .. d.nbufs - 1 : able(m) /\ fails(m)}}

CanDequeue(d) == d.streaming /\ d.done # << >>

\* Slip: the buffer is read but stays in the driver.
PeekBuffer(d) ==
  IF CanDequeue(d) THEN {[ret |-> "ok", dev |-> d, index |-> Head(d.done)]} ELSE {Failed(d)}

DequeueBuffer(d) ==
  IF CanDequeue(d)
  THEN {[ret |-> "ok", dev |-> [d EXCEPT !.done = Tail(@)], index |-> Head(d.done)]}
       \cup If("dqbuf", {Failed(d)})
  ELSE {Failed(d)}

StreamOn(d) ==
  IF d.kbufs = 0 THEN {Failed(d)}
  ELSE {Ok([d EXCEPT !.streaming = TRUE])} \cup If("streamon", {Failed(d)})

\* STREAMOFF gives every buffer back to the application.
StreamOff(d) == [d EXCEPT !.streaming = FALSE, !.queued = << >>, !.done = << >>]

-----------------------------------------------------------------------------
(* The driver *)

\* The driver finishes with the buffer it has had longest.
CanComplete(d) == d.streaming /\ d.queued # << >>
Complete(d) == [d EXCEPT !.queued = Tail(@), !.done = Append(@, Head(d.queued))]

\* select() reports a device that does not stream as ready: poll fails.
Selectable(d) == ~d.streaming \/ d.done # << >>
=============================================================================
