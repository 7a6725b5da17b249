--------------------------- MODULE UvcStreamProofs ---------------------------
(***************************************************************************)
(* Proofs about UvcStream and the device of V4l2Device, for every number   *)
(* of buffers, every set of ioctl failures, both kinds of source and any   *)
(* number of pending USB events.                                           *)
(***************************************************************************)
EXTENDS UvcStream, BufferQueues, FiniteSetTheorems, SequenceTheorems, TLAPS

-----------------------------------------------------------------------------
(* What every call of the V4L2 library keeps true of a device *)

LooseDevice ==
  [nbufs : Nat, memtype : {"none", "MMAP", "DMABUF"}, mem : SUBSET Nat, dmabuf : SUBSET Nat,
   kbufs : Nat, queued : Seq(Nat), done : Seq(Nat), streaming : BOOLEAN]

\* Without buffers in the library the driver owns none.
Clean(d) == d.nbufs = 0 => d.queued = << >> /\ d.done = << >>

Sound(d) == d \in LooseDevice /\ Distinct(d.queued, d.done) /\ Clean(d)

\* The calls that change neither the count nor the queues.
SameQueues(c, d) == c.nbufs = d.nbufs /\ c.queued = d.queued /\ c.done = d.done

LEMMA OwnedFacts == \A d : InKernel(d) = Owned(d.queued, d.done)
  BY DEF InKernel, Owned

LEMMA FieldFacts ==
  ASSUME NEW d \in LooseDevice
  PROVE  d.nbufs \in Nat /\ d.queued \in Seq(Nat) /\ d.done \in Seq(Nat) /\ d.streaming \in BOOLEAN
  BY DEF LooseDevice

LEMMA NewSound == Sound(NewDevice) /\ NewDevice.nbufs = 0 /\ InKernel(NewDevice) = {}
<1>1. /\ NewDevice \in LooseDevice /\ NewDevice.nbufs = 0
      /\ NewDevice.queued = << >> /\ NewDevice.done = << >>
  BY EmptyFacts DEF NewDevice, LooseDevice
<1> QED
  BY <1>1, EmptyFacts, OwnedFacts DEF Sound, Clean

LEMMA SameSound ==
  ASSUME NEW c \in LooseDevice, NEW d, Sound(d), SameQueues(c, d)
  PROVE  Sound(c) /\ InKernel(c) = InKernel(d)
  BY OwnedFacts DEF Sound, Clean, SameQueues

\* What an assignment to a field leaves of a device.
LEMMA SetDmabuf ==
  ASSUME NEW d \in LooseDevice, NEW s \in SUBSET Nat, NEW c, c = [d EXCEPT !.dmabuf = s]
  PROVE  c \in LooseDevice /\ SameQueues(c, d) /\ c.memtype = d.memtype
  BY DEF LooseDevice, SameQueues

LEMMA SetMem ==
  ASSUME NEW d \in LooseDevice, NEW s \in SUBSET Nat, NEW c, c = [d EXCEPT !.mem = s]
  PROVE  c \in LooseDevice /\ SameQueues(c, d) /\ c.memtype = d.memtype
  BY DEF LooseDevice, SameQueues

LEMMA SetKbufs ==
  ASSUME NEW d \in LooseDevice, NEW k \in Nat, NEW c, c = [d EXCEPT !.kbufs = k]
  PROVE  c \in LooseDevice /\ SameQueues(c, d)
  BY DEF LooseDevice, SameQueues

LEMMA SetStreaming ==
  ASSUME NEW d \in LooseDevice, NEW b \in BOOLEAN, NEW c, c = [d EXCEPT !.streaming = b]
  PROVE  c \in LooseDevice /\ SameQueues(c, d)
  BY DEF LooseDevice, SameQueues

LEMMA SetQueued ==
  ASSUME NEW d \in LooseDevice, NEW q \in Seq(Nat), NEW c, c = [d EXCEPT !.queued = q]
  PROVE  c \in LooseDevice /\ c.nbufs = d.nbufs /\ c.queued = q /\ c.done = d.done
  BY DEF LooseDevice

LEMMA Prefixes == \A k \in Nat : 0 .. k - 1 \in SUBSET Nat
  OBVIOUS

-----------------------------------------------------------------------------

\* Releasing never gives the driver a buffer.
LEMMA FreeFacts ==
  ASSUME NEW d, Sound(d)
  PROVE  Sound(FreeBuffers(d)) /\ InKernel(FreeBuffers(d)) \subseteq InKernel(d)
<1> DEFINE c == FreeBuffers(d)
<1>0. d \in LooseDevice
  BY DEF Sound
<1>1. CASE d.nbufs = 0
  BY <1>1 DEF FreeBuffers
<1>2. CASE d.nbufs # 0 /\ d.streaming
  <2>1. c = [d EXCEPT !.mem = {}, !.dmabuf = {}]
    BY <1>2 DEF FreeBuffers
  <2> HIDE DEF c
  <2>2. c \in LooseDevice /\ SameQueues(c, d)
    BY <1>0, <2>1 DEF LooseDevice, SameQueues
  <2> QED
    BY <2>2, SameSound DEF c
<1>3. CASE d.nbufs # 0 /\ ~d.streaming
  <2>1. c = [d EXCEPT !.nbufs = 0, !.kbufs = 0, !.mem = {}, !.dmabuf = {},
                      !.queued = << >>, !.done = << >>]
    BY <1>3 DEF FreeBuffers
  <2> HIDE DEF c
  <2>2. c \in LooseDevice /\ c.queued = << >> /\ c.done = << >>
    BY <1>0, <2>1, EmptyFacts DEF LooseDevice
  <2> QED
    BY <2>2, EmptyFacts, OwnedFacts DEF Sound, Clean, c
<1> QED
  BY <1>1, <1>2, <1>3

LEMMA AllocFacts ==
  ASSUME NEW d, Sound(d), NEW n \in Nat \ {0}, NEW m \in {"MMAP", "DMABUF"},
         NEW a \in AllocBuffers(d, m, n)
  PROVE  /\ Sound(a.dev) /\ InKernel(a.dev) = InKernel(d)
         /\ a.ret = "error" => a.dev.nbufs = d.nbufs
         /\ d.nbufs # 0 => a.ret = "error" /\ a.dev = d
         /\ a.ret = "ok" => /\ d.nbufs = 0 /\ a.dev.nbufs \in Nat \ {0} /\ a.dev.memtype = m
                            /\ a.dev.queued = << >> /\ a.dev.done = << >>
<1>0. d \in LooseDevice /\ d.nbufs \in Nat
  BY FieldFacts DEF Sound
<1>1. CASE d.nbufs # 0
  BY <1>1 DEF AllocBuffers, Failed
<1>2. CASE d.nbufs = 0
  <2>1. d.queued = << >> /\ d.done = << >>
    BY <1>2 DEF Clean, Sound
  <2>2. ASSUME NEW g \in Nat \ {0}, a = Ok([d EXCEPT !.nbufs = g, !.kbufs = g, !.memtype = m])
        PROVE  /\ a.ret = "ok" /\ a.dev \in LooseDevice /\ a.dev.nbufs = g /\ a.dev.memtype = m
               /\ a.dev.queued = << >> /\ a.dev.done = << >>
    <3>1. a.ret = "ok" /\ a.dev = [d EXCEPT !.nbufs = g, !.kbufs = g, !.memtype = m]
      BY <2>2 DEF Ok
    <3> DEFINE c == a.dev
    <3> HIDE DEF c
    <3>2. /\ c \in LooseDevice /\ c.nbufs = g /\ c.memtype = m
          /\ c.queued = d.queued /\ c.done = d.done
      BY <1>0, <3>1 DEF LooseDevice, c
    <3> QED
      BY <2>1, <3>1, <3>2 DEF c
  <2>3. ASSUME NEW k \in Nat, a = Failed(FreeBuffers([d EXCEPT !.kbufs = k]))
        PROVE  a.ret = "error" /\ Sound(a.dev) /\ SameQueues(a.dev, d) /\ InKernel(a.dev) = InKernel(d)
    <3> DEFINE c == [d EXCEPT !.kbufs = k]
    <3>1. c \in LooseDevice /\ SameQueues(c, d)
      BY <1>0, SetKbufs
    <3>2. c.nbufs = 0
      BY <1>2, <3>1 DEF SameQueues
    <3> HIDE DEF c
    <3>3. a = Failed(c)
      BY <2>3, <3>2 DEF FreeBuffers, c
    <3> QED
      BY <3>1, <3>3, SameSound DEF Failed
  <2>4. ASSUME a = Failed(FreeBuffers(d))
        PROVE  a.ret = "error" /\ a.dev = d
    BY <1>2, <2>4 DEF FreeBuffers, Failed
  <2>5. \/ \E g \in Nat \ {0} : a = Ok([d EXCEPT !.nbufs = g, !.kbufs = g, !.memtype = m])
        \/ a = Failed(FreeBuffers(d))
        \/ \E k \in Nat : a = Failed(FreeBuffers([d EXCEPT !.kbufs = k]))
    <3>1. n - 1 \in {n - 1} \ {0} => n - 1 \in Nat \ {0}
      OBVIOUS
    <3>2. \A g : g \in {n} \cup If("fewer", {n - 1} \ {0}) => g \in Nat \ {0}
      BY <3>1 DEF If
    <3>3. NBufs + 1 \in Nat
      BY NBufsAssumption
    <3> QED
      BY <1>2, <3>2, <3>3 DEF AllocBuffers, If
  <2>6. ASSUME NEW g \in Nat \ {0}, a = Ok([d EXCEPT !.nbufs = g, !.kbufs = g, !.memtype = m])
        PROVE  /\ Sound(a.dev) /\ InKernel(a.dev) = InKernel(d)
               /\ a.ret = "ok" /\ a.dev.nbufs \in Nat \ {0} /\ a.dev.memtype = m
               /\ a.dev.queued = << >> /\ a.dev.done = << >>
    BY <2>1, <2>2, <2>6, EmptyFacts, OwnedFacts DEF Sound, Clean
  <2>7. CASE \E g \in Nat \ {0} : a = Ok([d EXCEPT !.nbufs = g, !.kbufs = g, !.memtype = m])
    BY <1>2, <2>6, <2>7
  <2>8. CASE a = Failed(FreeBuffers(d))
    BY <1>2, <2>4, <2>8
  <2>9. CASE \E k \in Nat : a = Failed(FreeBuffers([d EXCEPT !.kbufs = k]))
    BY <1>2, <2>3, <2>9 DEF SameQueues
  <2> QED
    BY <2>5, <2>7, <2>8, <2>9
<1> QED
  BY <1>0, <1>1, <1>2

LEMMA ExportFacts ==
  ASSUME NEW d, Sound(d), NEW x \in ExportBuffers(d)
  PROVE  Sound(x.dev) /\ SameQueues(x.dev, d) /\ x.dev.memtype = d.memtype
<1>0. d \in LooseDevice /\ d.nbufs \in Nat
  BY FieldFacts DEF Sound
<1>1. \/ x.dev = d
      \/ \E k \in Nat : x.dev = [d EXCEPT !.dmabuf = 0 .. k - 1]
  BY <1>0 DEF ExportBuffers, If, Ok, Failed
<1>2. CASE x.dev = d
  BY <1>2 DEF SameQueues
<1>3. ASSUME NEW k \in Nat, x.dev = [d EXCEPT !.dmabuf = 0 .. k - 1]
      PROVE  x.dev \in LooseDevice /\ SameQueues(x.dev, d) /\ x.dev.memtype = d.memtype
  BY <1>0, <1>3, Prefixes, SetDmabuf
<1> QED
  BY <1>1, <1>2, <1>3, SameSound

LEMMA ImportFacts ==
  ASSUME NEW d, Sound(d), NEW n, NEW x \in ImportBuffers(d, n)
  PROVE  Sound(x.dev) /\ SameQueues(x.dev, d)
<1>0. d \in LooseDevice /\ d.nbufs \in Nat
  BY FieldFacts DEF Sound
<1>1. \/ x.dev = d
      \/ \E k \in Nat : x.dev = [d EXCEPT !.dmabuf = 0 .. k - 1]
  BY <1>0 DEF ImportBuffers, If, Ok, Failed
<1>2. CASE x.dev = d
  BY <1>2 DEF SameQueues
<1>3. ASSUME NEW k \in Nat, x.dev = [d EXCEPT !.dmabuf = 0 .. k - 1]
      PROVE  x.dev \in LooseDevice /\ SameQueues(x.dev, d)
  BY <1>0, <1>3, Prefixes, SetDmabuf
<1> QED
  BY <1>1, <1>2, <1>3, SameSound

LEMMA MmapFacts ==
  ASSUME NEW d, Sound(d), NEW x \in MmapBuffers(d)
  PROVE  Sound(x.dev) /\ SameQueues(x.dev, d) /\ x.dev.memtype = d.memtype
<1>0. d \in LooseDevice /\ d.nbufs \in Nat
  BY FieldFacts DEF Sound
<1>1. \/ x.dev = d
      \/ \E k \in Nat : x.dev = [d EXCEPT !.mem = 0 .. k - 1]
  BY <1>0 DEF MmapBuffers, If, Ok, Failed
<1>2. CASE x.dev = d
  BY <1>2 DEF SameQueues
<1>3. ASSUME NEW k \in Nat, x.dev = [d EXCEPT !.mem = 0 .. k - 1]
      PROVE  x.dev \in LooseDevice /\ SameQueues(x.dev, d) /\ x.dev.memtype = d.memtype
  BY <1>0, <1>3, Prefixes, SetMem
<1> QED
  BY <1>1, <1>2, <1>3, SameSound

LEMMA StreamOnFacts ==
  ASSUME NEW d, Sound(d), NEW x \in StreamOn(d)
  PROVE  Sound(x.dev) /\ SameQueues(x.dev, d)
<1>1. x = Failed(d) \/ x = Ok([d EXCEPT !.streaming = TRUE])
  BY DEF StreamOn, If
<1>2. x.dev = d \/ x.dev = [d EXCEPT !.streaming = TRUE]
  <2>1. CASE x = Failed(d)
    BY <2>1 DEF Failed
  <2>2. CASE x = Ok([d EXCEPT !.streaming = TRUE])
    BY <2>2 DEF Ok
  <2> QED
    BY <1>1, <2>1, <2>2
<1>3. CASE x.dev = d
  BY <1>3 DEF SameQueues
<1>4. CASE x.dev = [d EXCEPT !.streaming = TRUE]
  BY <1>4, SetStreaming, SameSound DEF Sound
<1> QED
  BY <1>2, <1>3, <1>4

LEMMA StreamOffFacts ==
  ASSUME NEW d, Sound(d)
  PROVE  Sound(StreamOff(d)) /\ InKernel(StreamOff(d)) = {}
<1> DEFINE c == StreamOff(d)
<1>1. c = [d EXCEPT !.streaming = FALSE, !.queued = << >>, !.done = << >>]
  BY DEF StreamOff
<1> HIDE DEF c
<1>2. c \in LooseDevice /\ c.queued = << >> /\ c.done = << >>
  BY <1>1, EmptyFacts DEF Sound, LooseDevice
<1> QED
  BY <1>2, EmptyFacts, OwnedFacts DEF Sound, Clean, c

LEMMA QueueFacts ==
  ASSUME NEW d, Sound(d), NEW i \in Nat, NEW q \in QueueBuffer(d, i)
  PROVE  /\ Sound(q.dev)
         /\ q.dev.nbufs = d.nbufs
         /\ InKernel(q.dev) \subseteq InKernel(d) \cup {i}
<1> DEFINE c == q.dev
<1>0. d \in LooseDevice /\ d.nbufs \in Nat /\ d.queued \in Seq(Nat) /\ d.done \in Seq(Nat)
  BY FieldFacts DEF Sound
<1>1. CASE q = Failed(d)
  BY <1>1 DEF Failed
<1>2. CASE q # Failed(d)
  <2>1. i < d.nbufs /\ i \notin InKernel(d)
    BY <1>2 DEF QueueBuffer, CanQueue, If
  <2>2. c = [d EXCEPT !.queued = Append(d.queued, i)]
    BY <1>2 DEF QueueBuffer, Ok, If
  <2> HIDE DEF c
  <2>3. i \notin Owned(d.queued, d.done) /\ Distinct(d.queued, d.done)
    BY <2>1, OwnedFacts DEF Sound
  <2>4. /\ Append(d.queued, i) \in Seq(Nat) /\ Distinct(Append(d.queued, i), d.done)
        /\ Owned(Append(d.queued, i), d.done) \subseteq Owned(d.queued, d.done) \cup {i}
    BY <1>0, <2>3, AppendFacts
  <2>5. c \in LooseDevice /\ c.nbufs = d.nbufs /\ c.queued = Append(d.queued, i) /\ c.done = d.done
    <3> DEFINE t == Append(d.queued, i)
    <3>1. t \in Seq(Nat) /\ c = [d EXCEPT !.queued = t]
      BY <2>2, <2>4
    <3> HIDE DEF t
    <3>2. c \in LooseDevice /\ c.nbufs = d.nbufs /\ c.queued = t /\ c.done = d.done
      BY <1>0, <3>1 DEF LooseDevice
    <3> QED
      BY <3>2 DEF t
  <2>6. d.nbufs # 0
    BY <1>0, <2>1
  <2> QED
    BY <2>4, <2>5, <2>6, OwnedFacts DEF Sound, Clean, c
<1> QED
  BY <1>1, <1>2

\* The first n buffers are queued.
FirstQueued(d, n) == [d EXCEPT !.queued = @ \o [k \in 1 .. n |-> k - 1]]

\* Queueing all buffers of a device queues those before the one that fails.
LEMMA QueueAllResult ==
  ASSUME NEW d \in LooseDevice, NEW q \in QueueAll(d)
  PROVE  \E n \in 0 .. d.nbufs :
           /\ q.dev = FirstQueued(d, n)
           /\ q.ret = IF n = d.nbufs THEN "ok" ELSE "error"
           /\ n = d.nbufs \/ "qbuf" \in Faults \/ ~CanQueue(d, n)
<1>0. d.nbufs \in Nat
  BY FieldFacts
<1>1. \/ q = Ok(FirstQueued(d, d.nbufs))
      \/ \E n \in 0 .. d.nbufs - 1 :
           q = Failed(FirstQueued(d, n)) /\ ("qbuf" \in Faults \/ ~CanQueue(d, n))
  BY DEF QueueAll, FirstQueued
<1>2. CASE q = Ok(FirstQueued(d, d.nbufs))
  <2>1. q.dev = FirstQueued(d, d.nbufs) /\ q.ret = "ok" /\ d.nbufs \in 0 .. d.nbufs
    BY <1>0, <1>2 DEF Ok
  <2> QED
    BY <2>1
<1>3. ASSUME NEW n \in 0 .. d.nbufs - 1, q = Failed(FirstQueued(d, n))
      PROVE  n \in 0 .. d.nbufs /\ n # d.nbufs /\ q.dev = FirstQueued(d, n) /\ q.ret = "error"
  BY <1>0, <1>3 DEF Failed
<1> QED
  BY <1>1, <1>2, <1>3

LEMMA FirstQueuedFacts ==
  ASSUME NEW d \in LooseDevice, d.queued = << >>, NEW n \in Nat, NEW c, c = FirstQueued(d, n)
  PROVE  c = [d EXCEPT !.queued = [k \in 1 .. n |-> k - 1]]
<1>1. d.queued \o [k \in 1 .. n |-> k - 1] = [k \in 1 .. n |-> k - 1]
  BY AllFacts
<1> QED
  BY <1>1 DEF FirstQueued

\* The buffers of a device with empty queues are queued each once.
LEMMA QueueAllFacts ==
  ASSUME NEW d, Sound(d), d.nbufs # 0, d.queued = << >>, d.done = << >>, NEW q \in QueueAll(d)
  PROVE  Sound(q.dev) /\ q.dev.nbufs = d.nbufs
<1>0. d \in LooseDevice /\ d.nbufs \in Nat
  BY FieldFacts DEF Sound
<1>1. PICK n \in 0 .. d.nbufs : q.dev = FirstQueued(d, n)
  BY <1>0, QueueAllResult
<1>2. n \in Nat
  BY <1>0
<1> DEFINE all == [k \in 1 .. n |-> k - 1]
<1>3. all \in Seq(Nat) /\ Distinct(all, << >>)
  BY <1>2, AllFacts
<1>4. q.dev = [d EXCEPT !.queued = all]
  BY <1>0, <1>1, <1>2, FirstQueuedFacts
<1> HIDE DEF all
<1>5. q.dev \in LooseDevice /\ q.dev.nbufs = d.nbufs /\ q.dev.queued = all /\ q.dev.done = << >>
  BY <1>0, <1>3, <1>4, SetQueued
<1> QED
  BY <1>3, <1>5 DEF Sound, Clean

LEMMA DequeueFacts ==
  ASSUME NEW d, Sound(d), NEW r \in DequeueBuffer(d), r.ret = "ok"
  PROVE  /\ Sound(r.dev) /\ r.dev.nbufs = d.nbufs
         /\ r.index \in Nat /\ r.index \in InKernel(d)
         /\ InKernel(r.dev) \subseteq InKernel(d) \ {r.index}
<1> DEFINE c == r.dev
<1>0. d \in LooseDevice /\ d.queued \in Seq(Nat) /\ d.done \in Seq(Nat) /\ Distinct(d.queued, d.done)
  BY FieldFacts DEF Sound
<1>1. r # Failed(d)
  BY DEF Failed
<1>2. CanDequeue(d) /\ r = [ret |-> "ok", dev |-> [d EXCEPT !.done = Tail(@)], index |-> Head(d.done)]
  BY <1>1 DEF DequeueBuffer, If
<1>3. d.done # << >>
  BY <1>2 DEF CanDequeue
<1>4. r.index = Head(d.done) /\ c = [d EXCEPT !.done = Tail(d.done)]
  BY <1>2
<1> HIDE DEF c
<1>5. /\ Tail(d.done) \in Seq(Nat) /\ Head(d.done) \in Nat
      /\ Distinct(d.queued, Tail(d.done))
      /\ Head(d.done) \in Owned(d.queued, d.done)
      /\ Owned(d.queued, Tail(d.done)) \subseteq Owned(d.queued, d.done) \ {Head(d.done)}
  BY <1>0, <1>3, TailFacts
<1>6. c \in LooseDevice /\ c.nbufs = d.nbufs /\ c.queued = d.queued /\ c.done = Tail(d.done)
  <2> DEFINE h == Tail(d.done)
  <2>1. h \in Seq(Nat) /\ c = [d EXCEPT !.done = h]
    BY <1>4, <1>5
  <2> HIDE DEF h
  <2>2. c \in LooseDevice /\ c.nbufs = d.nbufs /\ c.queued = d.queued /\ c.done = h
    BY <1>0, <2>1 DEF LooseDevice
  <2> QED
    BY <2>2 DEF h
<1>7. d.nbufs # 0
  BY <1>3 DEF Sound, Clean
<1> QED
  BY <1>4, <1>5, <1>6, <1>7, OwnedFacts DEF Sound, Clean, c

LEMMA CompleteFacts ==
  ASSUME NEW d, Sound(d), CanComplete(d)
  PROVE  Sound(Complete(d)) /\ Complete(d).nbufs = d.nbufs /\ InKernel(Complete(d)) \subseteq InKernel(d)
<1> DEFINE c == Complete(d)
           q == Tail(d.queued)
           h == Append(d.done, Head(d.queued))
<1>0. d \in LooseDevice /\ d.queued \in Seq(Nat) /\ d.done \in Seq(Nat) /\ Distinct(d.queued, d.done)
  BY FieldFacts DEF Sound
<1>1. d.queued # << >>
  BY DEF CanComplete
<1>2. c = [d EXCEPT !.queued = q, !.done = h]
  BY DEF Complete
<1>3. /\ q \in Seq(Nat) /\ h \in Seq(Nat) /\ Distinct(q, h)
      /\ Owned(q, h) \subseteq Owned(d.queued, d.done)
  BY <1>0, <1>1, MoveFacts
<1> HIDE DEF c, q, h
<1>4. c \in LooseDevice /\ c.nbufs = d.nbufs /\ c.queued = q /\ c.done = h
  BY <1>0, <1>2, <1>3 DEF LooseDevice
<1>5. d.nbufs # 0
  BY <1>1 DEF Sound, Clean
<1> QED
  BY <1>3, <1>4, <1>5, OwnedFacts DEF Sound, Clean, c

\* The reset of the bus gives every pending transfer back.
LEMMA ResetFacts ==
  ASSUME NEW d, Sound(d), NEW c, c = [d EXCEPT !.queued = << >>, !.done = @ \o d.queued]
  PROVE  Sound(c) /\ c.nbufs = d.nbufs /\ InKernel(c) \subseteq InKernel(d)
<1> DEFINE h == d.done \o d.queued
<1>0. d \in LooseDevice /\ d.queued \in Seq(Nat) /\ d.done \in Seq(Nat) /\ Distinct(d.queued, d.done)
  BY FieldFacts DEF Sound
<1>1. h \in Seq(Nat) /\ Distinct(<< >>, h) /\ Owned(<< >>, h) \subseteq Owned(d.queued, d.done)
  BY <1>0, FlushFacts
<1>2. d.nbufs = 0 => h = << >>
  BY DEF Sound, Clean
<1>3. c = [d EXCEPT !.queued = << >>, !.done = h]
  OBVIOUS
<1> HIDE DEF h
<1>4. c \in LooseDevice /\ c.nbufs = d.nbufs /\ c.queued = << >> /\ c.done = h
  BY <1>0, <1>1, <1>3, EmptyFacts DEF LooseDevice
<1> QED
  BY <1>1, <1>2, <1>4, OwnedFacts DEF Sound, Clean

-----------------------------------------------------------------------------
(* The watched list *)

\* The lists the program goes through: idle, a stream whose source has no
\* descriptor of its own (or did not start), a camera stream.
Idle == <<EventEntry>>
SinkOnly == <<EventEntry, SinkEntry>>
Both == <<EventEntry, SourceEntry, SinkEntry>>

RangeOf(w) == {w[k] : k \in 1 .. Len(w)}

LEMMA EntryFacts ==
  /\ EventEntry # SinkEntry /\ EventEntry # SourceEntry /\ SinkEntry # SourceEntry
  /\ End \notin Entries /\ Freed \notin Entries /\ Freed # End
  /\ EventEntry \in Entries /\ SinkEntry \in Entries /\ SourceEntry \in Entries
<1>1. "sink" # "src" /\ "EXCEPTION" # "WRITE"
  OBVIOUS
<1>2. "sink" # "list" /\ "src" # "list" /\ "freed" # "head"
  OBVIOUS
<1> QED
  BY <1>1, <1>2 DEF EventEntry, SinkEntry, SourceEntry, End, Freed, Entries

LEMMA ListRanges ==
  /\ RangeOf(Idle) = {EventEntry}
  /\ RangeOf(SinkOnly) = {EventEntry, SinkEntry}
  /\ RangeOf(Both) = {EventEntry, SourceEntry, SinkEntry}
  /\ Len(Idle) = 1 /\ Len(SinkOnly) = 2 /\ Len(Both) = 3
<1>1. Len(Idle) = 1 /\ Len(SinkOnly) = 2 /\ Len(Both) = 3
  BY DEF Idle, SinkOnly, Both
<1>2. RangeOf(Idle) = {EventEntry}
  BY <1>1 DEF RangeOf, Idle
<1>3. RangeOf(SinkOnly) = {EventEntry, SinkEntry}
  <2>1. 1 .. 2 = {1, 2}
    OBVIOUS
  <2> QED
    BY <1>1, <2>1 DEF RangeOf, SinkOnly
<1>4. RangeOf(Both) = {EventEntry, SourceEntry, SinkEntry}
  <2>1. 1 .. 3 = {1, 2, 3}
    OBVIOUS
  <2> QED
    BY <1>1, <2>1 DEF RangeOf, Both
<1> QED
  BY <1>1, <1>2, <1>3, <1>4

LEMMA ListDistinct == Idle # SinkOnly /\ Idle # Both
  BY ListRanges, EntryFacts

\* Cutting the last element off a sequence, and joining short ones.
LEMMA CutFacts ==
  ASSUME NEW S, NEW s \in Seq(S), NEW n \in Nat, Len(s) = n + 1, NEW t \in Seq(S), Len(t) = n,
         \A i \in 1 .. n : t[i] = s[i]
  PROVE  SubSeq(s, 1, (n + 1) - 1) \o SubSeq(s, (n + 1) + 1, Len(s)) = t
<1>1. SubSeq(s, (n + 1) + 1, Len(s)) = << >>
  BY SubSeqEmpty
<1>2. \A i \in 1 .. n : s[i] \in S
  BY ElementOfSeq
<1>3. (n + 1) - 1 = n
  OBVIOUS
<1> DEFINE u == SubSeq(s, 1, n)
<1>4. u \in Seq(S) /\ Len(u) = n /\ \A i \in 1 .. n : u[i] = s[i]
  BY <1>2, SubSeqProperties
<1> HIDE DEF u
<1>5. u = t
  BY <1>4, SeqEqual
<1>6. u \o << >> = u
  BY <1>4, ConcatEmptySeq
<1> QED
  BY <1>1, <1>3, <1>5, <1>6 DEF u

LEMMA JoinFacts ==
  ASSUME NEW S, NEW a \in S, NEW b \in S
  PROVE  <<a>> \o << >> = <<a>> /\ <<a>> \o <<b>> = <<a, b>>
<1>1. <<a>> \in Seq(S) /\ <<b>> \in Seq(S) /\ <<a, b>> \in Seq(S)
  OBVIOUS
<1> DEFINE u == <<a>> \o <<b>>
<1>2. u \in Seq(S) /\ Len(u) = 2 /\ u[1] = a /\ u[2] = b
  BY <1>1, ConcatProperties
<1> HIDE DEF u
<1>3. \A i \in 1 .. Len(u) : u[i] = <<a, b>>[i]
  <2>1. \A i \in 1 .. Len(u) : i = 1 \/ i = 2
    BY <1>2
  <2> QED
    BY <1>2, <2>1
<1>4. u = <<a, b>>
  BY <1>1, <1>2, <1>3, SeqEqual
<1> QED
  BY <1>1, <1>4, ConcatEmptySeq DEF u

LEMMA AppendTuples ==
  ASSUME NEW S, NEW a \in S, NEW b \in S, NEW c \in S
  PROVE  Append(<<a>>, b) = <<a, b>> /\ Append(<<a, b>>, c) = <<a, b, c>>
<1>1. /\ <<a>> \in Seq(S) /\ <<a, b>> \in Seq(S) /\ <<a, b, c>> \in Seq(S)
      /\ Len(<<a>>) = 1 /\ Len(<<a, b>>) = 2 /\ Len(<<a, b, c>>) = 3
  OBVIOUS
<1>2. ASSUME NEW q \in Seq(S), NEW e \in S
      PROVE  /\ Append(q, e) \in Seq(S) /\ Len(Append(q, e)) = Len(q) + 1
             /\ \A k \in 1 .. Len(q) : Append(q, e)[k] = q[k]
             /\ Append(q, e)[Len(q) + 1] = e
  OBVIOUS
<1>3. Append(<<a>>, b) = <<a, b>>
  <2> DEFINE u == Append(<<a>>, b)
  <2>1. u \in Seq(S) /\ Len(u) = 2 /\ u[1] = a /\ u[2] = b
    BY <1>1, <1>2
  <2> HIDE DEF u
  <2>2. \A i \in 1 .. Len(u) : u[i] = <<a, b>>[i]
    <3>1. \A i \in 1 .. Len(u) : i = 1 \/ i = 2
      BY <2>1
    <3> QED
      BY <2>1, <3>1
  <2>3. u = <<a, b>>
    BY <1>1, <2>1, <2>2, SeqEqual
  <2> QED
    BY <2>3 DEF u
<1>4. Append(<<a, b>>, c) = <<a, b, c>>
  <2> DEFINE u == Append(<<a, b>>, c)
  <2>1. u \in Seq(S) /\ Len(u) = 3 /\ u[1] = a /\ u[2] = b /\ u[3] = c
    BY <1>1, <1>2
  <2> HIDE DEF u
  <2>2. \A i \in 1 .. Len(u) : u[i] = <<a, b, c>>[i]
    <3>1. \A i \in 1 .. Len(u) : i = 1 \/ i = 2 \/ i = 3
      BY <2>1
    <3> QED
      BY <2>1, <3>1
  <2>3. u = <<a, b, c>>
    BY <1>1, <2>1, <2>2, SeqEqual
  <2> QED
    BY <2>3 DEF u
<1> QED
  BY <1>3, <1>4

LEMMA WatchFacts == Watch(Idle, SinkEntry) = SinkOnly /\ Watch(Idle \o <<SourceEntry>>, SinkEntry) = Both
                    /\ Watch(Idle \o << >>, SinkEntry) = SinkOnly
<1>1. Idle \o << >> = Idle /\ Idle \o <<SourceEntry>> = <<EventEntry, SourceEntry>>
  BY EntryFacts, JoinFacts DEF Idle
<1>2. Append(Idle, SinkEntry) = SinkOnly
  BY EntryFacts, AppendTuples DEF Idle, SinkOnly
<1>3. Append(<<EventEntry, SourceEntry>>, SinkEntry) = Both
  BY EntryFacts, AppendTuples DEF Both
<1> QED
  BY <1>1, <1>2, <1>3 DEF Watch

\* A stop takes the list back to the UVC event entry.
LEMMA UnwatchFacts ==
  ASSUME NEW w \in {Idle, SinkOnly, Both}
  PROVE  Unwatch(Unwatch(w, SinkEntry), SourceEntry) = Idle
<1> DEFINE at(u, e) == {k \in 1 .. Len(u) : u[k] = e}
<1>1. ASSUME NEW u, NEW e, at(u, e) = {} PROVE Unwatch(u, e) = u
  BY <1>1 DEF Unwatch
<1>2. ASSUME NEW u, NEW e, NEW k \in Nat, at(u, e) = {k}
      PROVE  Unwatch(u, e) = SubSeq(u, 1, k - 1) \o SubSeq(u, k + 1, Len(u))
  <2>1. (CHOOSE j \in {k} : \A i \in {k} : i <= j) = k
    <3>1. \E j \in {k} : \A i \in {k} : i <= j
      OBVIOUS
    <3> QED
      BY <3>1
  <2> QED
    BY <1>2, <2>1 DEF Unwatch
<1>3. at(Idle, SinkEntry) = {} /\ at(Idle, SourceEntry) = {}
  BY EntryFacts DEF Idle
<1>4. at(SinkOnly, SinkEntry) = {2}
  BY EntryFacts DEF SinkOnly
<1>5. at(Both, SinkEntry) = {3}
  BY EntryFacts DEF Both
<1>6. at(<<EventEntry, SourceEntry>>, SourceEntry) = {2}
  BY EntryFacts
<1> DEFINE Left == <<EventEntry, SourceEntry>>
<1>0. /\ Idle \in Seq(Entries) /\ SinkOnly \in Seq(Entries)
      /\ Both \in Seq(Entries) /\ Left \in Seq(Entries)
  BY EntryFacts DEF Idle, SinkOnly, Both
<1>7. SubSeq(SinkOnly, 1, 2 - 1) \o SubSeq(SinkOnly, 2 + 1, Len(SinkOnly)) = Idle
  <2>1. /\ Len(SinkOnly) = 1 + 1 /\ Len(Idle) = 1 /\ 1 + 1 = 2
        /\ \A i \in 1 .. 1 : Idle[i] = SinkOnly[i]
    BY DEF SinkOnly, Idle
  <2> QED
    BY <1>0, <2>1, CutFacts
<1>8. SubSeq(Both, 1, 3 - 1) \o SubSeq(Both, 3 + 1, Len(Both)) = Left
  <2>1. /\ Len(Both) = 2 + 1 /\ Len(Left) = 2 /\ 2 + 1 = 3
        /\ \A i \in 1 .. 2 : Left[i] = Both[i]
    BY DEF Both
  <2> HIDE DEF Left
  <2> QED
    BY <1>0, <2>1, CutFacts
<1>9. SubSeq(Left, 1, 2 - 1) \o SubSeq(Left, 2 + 1, Len(Left)) = Idle
  <2>1. /\ Len(Left) = 1 + 1 /\ Len(Idle) = 1 /\ 1 + 1 = 2
        /\ \A i \in 1 .. 1 : Idle[i] = Left[i]
    BY DEF Idle
  <2> HIDE DEF Left
  <2> QED
    BY <1>0, <2>1, CutFacts
<1> HIDE DEF at
<1>10. Unwatch(Idle, SinkEntry) = Idle /\ Unwatch(Idle, SourceEntry) = Idle
  BY <1>1, <1>3
<1>11. Unwatch(SinkOnly, SinkEntry) = Idle
  BY <1>2, <1>4, <1>7
<1>12. Unwatch(Both, SinkEntry) = <<EventEntry, SourceEntry>>
  BY <1>2, <1>5, <1>8
<1>13. Unwatch(<<EventEntry, SourceEntry>>, SourceEntry) = Idle
  BY <1>2, <1>6, <1>9
<1> QED
  BY <1>10, <1>11, <1>12, <1>13

\* The link of an entry that is in the list leads into the list or to its end.
LEMMA FollowingFacts ==
  ASSUME NEW w \in {Idle, SinkOnly, Both}, NEW e \in RangeOf(w)
  PROVE  Following(w, e) \in RangeOf(w) \cup {End}
<1> DEFINE at == {k \in 1 .. Len(w) : w[k] = e}
           k0 == CHOOSE k \in at : TRUE
<1>1. Len(w) \in Nat
  BY ListRanges
<1>2. at # {}
  BY DEF RangeOf
<1>3. k0 \in 1 .. Len(w)
  BY <1>2
<1>4. Following(w, e) = IF k0 = Len(w) THEN End ELSE w[k0 + 1]
  BY <1>2 DEF Following
<1> HIDE DEF k0, at
<1>5. k0 # Len(w) => k0 + 1 \in 1 .. Len(w)
  BY <1>1, <1>3
<1> QED
  BY <1>4, <1>5 DEF RangeOf

-----------------------------------------------------------------------------
(* The inductive invariant *)

\* A watched stream still has the buffers whose count a start looks at first.
StartRefused ==
  watchers # Idle => IF type = "DMABUF" THEN src.nbufs # 0 ELSE sink.nbufs # 0

IndInv ==
  /\ type \in {"DMABUF", "STATIC"}
  /\ Sound(src)
  /\ Sound(sink)
  /\ OneOwner
  /\ watchers \in {Idle, SinkOnly, Both}
  /\ StartRefused
  /\ cursor \in RangeOf(watchers) \cup {End}

LEMMA IndInit == Init => IndInv
<1> SUFFICES ASSUME Init PROVE IndInv
  OBVIOUS
<1>1. Sound(src) /\ Sound(sink) /\ InKernel(src) = {}
  BY NewSound DEF Init
<1>2. watchers = Idle /\ cursor = End
  BY DEF Init, Idle
<1>3. type \in {"DMABUF", "STATIC"}
  BY SourceTypesAssumption DEF Init
<1> QED
  BY <1>1, <1>2, <1>3 DEF IndInv, OneOwner, StartRefused

LEMMA StartBothFacts ==
  ASSUME NEW s, Sound(s), s.nbufs # 0, s.memtype = "MMAP", s.queued = << >>, s.done = << >>,
         NEW k, Sound(k), InKernel(k) = {}, watchers = Idle, StartBoth(s, k)
  PROVE  /\ Sound(src') /\ src'.nbufs # 0
         /\ Sound(sink') /\ InKernel(sink') = {}
         /\ watchers' \in {SinkOnly, Both}
<1> PICK started \in V4l2SourceStreamOn(s), on \in StreamOn(k) :
            /\ src' = started.dev
            /\ sink' = on.dev
            /\ watchers' = Watch(watchers \o started.watch, SinkEntry)
  BY DEF StartBoth
<1>1. PICK q \in QueueAll(s) :
         /\ started.dev = q.dev \/ \E r \in StreamOn(q.dev) : started.dev = r.dev
         /\ started.watch = << >> \/ started.watch = <<SourceEntry>>
  BY DEF V4l2SourceStreamOn
<1>2. Sound(q.dev) /\ q.dev.nbufs # 0
  BY QueueAllFacts
<1>3. Sound(started.dev) /\ started.dev.nbufs # 0
  BY <1>1, <1>2, StreamOnFacts DEF SameQueues
<1>4. Sound(on.dev) /\ InKernel(on.dev) = {}
  BY StreamOnFacts, OwnedFacts DEF SameQueues
<1>5. watchers' \in {SinkOnly, Both}
  BY <1>1, WatchFacts
<1> QED
  BY <1>3, <1>4, <1>5

\* A camera's start either fails and releases, or hands over sound devices.
LEMMA StartAllocFacts ==
  ASSUME IndInv, type = "DMABUF", StartAlloc
  PROVE  /\ Sound(src') /\ Sound(sink') /\ InKernel(src') \cap InKernel(sink') = {}
         /\ \/ watchers' = watchers /\ (watchers # Idle => src' = src)
            \/ watchers' \in {SinkOnly, Both} /\ src'.nbufs # 0
<1> USE DEF IndInv
<1>0. InKernel(src) \cap InKernel(sink) = {}
  BY DEF OneOwner
<1>1. PICK a \in AllocBuffers(src, "MMAP", NBufs) :
         \/ /\ a.ret = "error"
            /\ src' = a.dev
            /\ UNCHANGED <<sink, watchers>>
         \/ /\ a.ret = "ok"
            /\ \E x \in ExportBuffers(a.dev) :
                 \/ /\ x.ret = "error"
                    /\ src' = FreeBuffers(x.dev)
                    /\ UNCHANGED <<sink, watchers>>
                 \/ /\ x.ret = "ok"
                    /\ \E b \in AllocBuffers(sink, "DMABUF", x.dev.nbufs) :
                         \/ /\ b.ret = "error"
                            /\ src' = FreeBuffers(x.dev)
                            /\ sink' = b.dev
                            /\ UNCHANGED watchers
                         \/ /\ b.ret = "ok"
                            /\ \E i \in ImportBuffers(b.dev, x.dev.nbufs) :
                                 \/ /\ i.ret = "error"
                                    /\ src' = FreeBuffers(x.dev)
                                    /\ sink' = FreeBuffers(i.dev)
                                    /\ UNCHANGED watchers
                                 \/ i.ret = "ok" /\ StartBoth(x.dev, i.dev)
  BY DEF StartAlloc
<1>2. /\ Sound(a.dev) /\ InKernel(a.dev) = InKernel(src)
      /\ src.nbufs # 0 => a.ret = "error" /\ a.dev = src
      /\ a.ret = "ok" => /\ src.nbufs = 0 /\ a.dev.nbufs \in Nat \ {0} /\ a.dev.memtype = "MMAP"
                         /\ a.dev.queued = << >> /\ a.dev.done = << >>
  BY NBufsAssumption, AllocFacts
<1>3. watchers # Idle => src.nbufs # 0
  BY DEF StartRefused
<1>4. CASE a.ret = "error" /\ src' = a.dev /\ UNCHANGED <<sink, watchers>>
  BY <1>0, <1>2, <1>3, <1>4
<1>5. ASSUME a.ret = "ok", NEW x \in ExportBuffers(a.dev)
      PROVE  /\ Sound(x.dev) /\ x.dev.nbufs \in Nat \ {0} /\ x.dev.memtype = "MMAP"
             /\ x.dev.queued = << >> /\ x.dev.done = << >> /\ watchers = Idle
             /\ Sound(FreeBuffers(x.dev)) /\ InKernel(FreeBuffers(x.dev)) = {}
  <2>1. Sound(x.dev) /\ SameQueues(x.dev, a.dev) /\ x.dev.memtype = a.dev.memtype
    BY <1>2, ExportFacts
  <2>2. x.dev.queued = << >> /\ x.dev.done = << >> /\ x.dev.nbufs \in Nat \ {0}
    BY <1>2, <1>5, <2>1 DEF SameQueues
  <2>3. InKernel(x.dev) = {}
    BY <2>2, OwnedFacts, EmptyFacts
  <2> QED
    BY <1>2, <1>3, <1>5, <2>1, <2>2, <2>3, FreeFacts
<1>6. ASSUME a.ret = "ok", NEW x \in ExportBuffers(a.dev),
             src' = FreeBuffers(x.dev), UNCHANGED <<sink, watchers>>
      PROVE  Sound(src') /\ Sound(sink') /\ InKernel(src') = {} /\ watchers' = Idle /\ watchers = Idle
  BY <1>5, <1>6
<1>7. ASSUME a.ret = "ok", NEW x \in ExportBuffers(a.dev),
             NEW b \in AllocBuffers(sink, "DMABUF", x.dev.nbufs)
      PROVE  Sound(b.dev) /\ (b.ret = "ok" => InKernel(b.dev) = {})
  <2>1. x.dev.nbufs \in Nat \ {0}
    BY <1>5, <1>7
  <2>2. Sound(b.dev) /\ (b.ret = "ok" => b.dev.queued = << >> /\ b.dev.done = << >>)
    BY <2>1, <1>7, AllocFacts
  <2> QED
    BY <2>2, OwnedFacts, EmptyFacts
<1>8. ASSUME a.ret = "ok", NEW x \in ExportBuffers(a.dev),
             NEW b \in AllocBuffers(sink, "DMABUF", x.dev.nbufs),
             src' = FreeBuffers(x.dev), sink' = b.dev, UNCHANGED watchers
      PROVE  Sound(src') /\ Sound(sink') /\ InKernel(src') = {} /\ watchers' = Idle /\ watchers = Idle
  BY <1>5, <1>7, <1>8
<1>9. ASSUME a.ret = "ok", NEW x \in ExportBuffers(a.dev),
             NEW b \in AllocBuffers(sink, "DMABUF", x.dev.nbufs), b.ret = "ok",
             NEW i \in ImportBuffers(b.dev, x.dev.nbufs)
      PROVE  Sound(i.dev) /\ InKernel(i.dev) = {} /\ Sound(FreeBuffers(i.dev))
  <2>1. Sound(b.dev) /\ InKernel(b.dev) = {}
    BY <1>7, <1>9
  <2>2. Sound(i.dev) /\ SameQueues(i.dev, b.dev)
    BY <1>9, <2>1, ImportFacts
  <2> QED
    BY <2>1, <2>2, OwnedFacts, FreeFacts DEF SameQueues
<1>10. ASSUME a.ret = "ok", NEW x \in ExportBuffers(a.dev),
              NEW b \in AllocBuffers(sink, "DMABUF", x.dev.nbufs), b.ret = "ok",
              NEW i \in ImportBuffers(b.dev, x.dev.nbufs),
              src' = FreeBuffers(x.dev), sink' = FreeBuffers(i.dev), UNCHANGED watchers
       PROVE  Sound(src') /\ Sound(sink') /\ InKernel(src') = {} /\ watchers' = Idle /\ watchers = Idle
  BY <1>5, <1>9, <1>10
<1>11. ASSUME a.ret = "ok", NEW x \in ExportBuffers(a.dev),
              NEW b \in AllocBuffers(sink, "DMABUF", x.dev.nbufs), b.ret = "ok",
              NEW i \in ImportBuffers(b.dev, x.dev.nbufs), StartBoth(x.dev, i.dev)
       PROVE  /\ Sound(src') /\ src'.nbufs # 0
              /\ Sound(sink') /\ InKernel(sink') = {}
              /\ watchers' \in {SinkOnly, Both}
  <2>1. /\ Sound(x.dev) /\ x.dev.nbufs # 0 /\ x.dev.memtype = "MMAP"
        /\ x.dev.queued = << >> /\ x.dev.done = << >> /\ watchers = Idle
    BY <1>5, <1>11
  <2>2. Sound(i.dev) /\ InKernel(i.dev) = {}
    BY <1>9, <1>11
  <2> QED
    BY <1>11, <2>1, <2>2, StartBothFacts
<1> HIDE DEF IndInv
<1>12. CASE a.ret # "error" \/ ~(src' = a.dev /\ UNCHANGED <<sink, watchers>>)
  <2>1. PICK x \in ExportBuffers(a.dev) :
          \/ /\ x.ret = "error"
             /\ src' = FreeBuffers(x.dev)
             /\ UNCHANGED <<sink, watchers>>
          \/ /\ x.ret = "ok"
             /\ \E b \in AllocBuffers(sink, "DMABUF", x.dev.nbufs) :
                  \/ /\ b.ret = "error"
                     /\ src' = FreeBuffers(x.dev)
                     /\ sink' = b.dev
                     /\ UNCHANGED watchers
                  \/ /\ b.ret = "ok"
                     /\ \E i \in ImportBuffers(b.dev, x.dev.nbufs) :
                          \/ /\ i.ret = "error"
                             /\ src' = FreeBuffers(x.dev)
                             /\ sink' = FreeBuffers(i.dev)
                             /\ UNCHANGED watchers
                          \/ i.ret = "ok" /\ StartBoth(x.dev, i.dev)
    BY <1>1, <1>12
  <2>2. a.ret = "ok"
    BY <1>1, <1>12
  <2>3. CASE src' = FreeBuffers(x.dev) /\ UNCHANGED <<sink, watchers>>
    BY <1>6, <2>2, <2>3
  <2>4. ASSUME NEW b \in AllocBuffers(sink, "DMABUF", x.dev.nbufs),
               src' = FreeBuffers(x.dev), sink' = b.dev, UNCHANGED watchers
        PROVE  Sound(src') /\ Sound(sink') /\ InKernel(src') = {} /\ watchers' = Idle /\ watchers = Idle
    BY <1>8, <2>2, <2>4
  <2>5. ASSUME NEW b \in AllocBuffers(sink, "DMABUF", x.dev.nbufs), b.ret = "ok",
               NEW i \in ImportBuffers(b.dev, x.dev.nbufs),
               src' = FreeBuffers(x.dev), sink' = FreeBuffers(i.dev), UNCHANGED watchers
        PROVE  Sound(src') /\ Sound(sink') /\ InKernel(src') = {} /\ watchers' = Idle /\ watchers = Idle
    BY <1>10, <2>2, <2>5
  <2>6. ASSUME NEW b \in AllocBuffers(sink, "DMABUF", x.dev.nbufs), b.ret = "ok",
               NEW i \in ImportBuffers(b.dev, x.dev.nbufs), StartBoth(x.dev, i.dev)
        PROVE  /\ Sound(src') /\ src'.nbufs # 0
               /\ Sound(sink') /\ InKernel(sink') = {}
               /\ watchers' \in {SinkOnly, Both}
    BY <1>11, <2>2, <2>6
  <2> QED
    BY <2>1, <2>3, <2>4, <2>5, <2>6
<1> QED
  BY <1>4, <1>12

LEMMA StartNoAllocFacts ==
  ASSUME IndInv, type = "STATIC", StartNoAlloc
  PROVE  /\ Sound(src') /\ Sound(sink')
         /\ \/ watchers' = watchers /\ (watchers # Idle => sink' = sink)
            \/ watchers' = SinkOnly /\ sink'.nbufs # 0
<1> USE DEF IndInv
<1>1. PICK b \in AllocBuffers(sink, "MMAP", NBufs) :
        \/ /\ b.ret = "error"
           /\ sink' = b.dev
           /\ UNCHANGED <<src, watchers>>
        \/ /\ b.ret = "ok"
           /\ \E m \in MmapBuffers(b.dev) :
                \/ /\ m.ret = "error"
                   /\ sink' = m.dev
                   /\ UNCHANGED <<src, watchers>>
                \/ /\ m.ret = "ok"
                   /\ \E q \in QueueAll(m.dev) :
                        \/ /\ q.ret = "error"
                           /\ sink' = q.dev
                           /\ UNCHANGED <<src, watchers>>
                        \/ /\ q.ret = "ok"
                           /\ src' = StaticSourceStreamOn(src)
                           /\ \E on \in StreamOn(q.dev) :
                                /\ sink' = on.dev
                                /\ watchers' = IF on.ret = "ok" THEN Watch(watchers, SinkEntry)
                                                                ELSE watchers
  BY DEF StartNoAlloc
<1>2. /\ Sound(b.dev)
      /\ sink.nbufs # 0 => b.ret = "error" /\ b.dev = sink
      /\ b.ret = "ok" => /\ sink.nbufs = 0 /\ b.dev.nbufs \in Nat \ {0} /\ b.dev.memtype = "MMAP"
                         /\ b.dev.queued = << >> /\ b.dev.done = << >>
  BY NBufsAssumption, AllocFacts
<1>3. watchers # Idle => sink.nbufs # 0
  BY DEF StartRefused
<1>4. CASE b.ret = "error" /\ sink' = b.dev /\ UNCHANGED <<src, watchers>>
  BY <1>2, <1>3, <1>4
<1>5. ASSUME b.ret = "ok", NEW m \in MmapBuffers(b.dev)
      PROVE  /\ Sound(m.dev) /\ m.dev.nbufs # 0 /\ m.dev.memtype = "MMAP"
             /\ m.dev.queued = << >> /\ m.dev.done = << >> /\ watchers = Idle
  <2>1. Sound(m.dev) /\ SameQueues(m.dev, b.dev) /\ m.dev.memtype = b.dev.memtype
    BY <1>2, MmapFacts
  <2> QED
    BY <1>2, <1>3, <1>5, <2>1 DEF SameQueues
<1>6. ASSUME b.ret = "ok", NEW m \in MmapBuffers(b.dev), sink' = m.dev, UNCHANGED <<src, watchers>>
      PROVE  Sound(src') /\ Sound(sink') /\ watchers' = watchers /\ watchers = Idle
  BY <1>5, <1>6
<1>7. ASSUME b.ret = "ok", NEW m \in MmapBuffers(b.dev), NEW q \in QueueAll(m.dev)
      PROVE  Sound(q.dev) /\ q.dev.nbufs # 0 /\ watchers = Idle
  BY <1>5, <1>7, QueueAllFacts
<1>8. ASSUME b.ret = "ok", NEW m \in MmapBuffers(b.dev), NEW q \in QueueAll(m.dev),
             sink' = q.dev, UNCHANGED <<src, watchers>>
      PROVE  Sound(src') /\ Sound(sink') /\ watchers' = watchers /\ watchers = Idle
  BY <1>7, <1>8
<1>9. ASSUME b.ret = "ok", NEW m \in MmapBuffers(b.dev), NEW q \in QueueAll(m.dev),
             NEW on \in StreamOn(q.dev),
             src' = StaticSourceStreamOn(src), sink' = on.dev,
             watchers' = IF on.ret = "ok" THEN Watch(watchers, SinkEntry) ELSE watchers
      PROVE  /\ Sound(src') /\ Sound(sink') /\ sink'.nbufs # 0
             /\ watchers = Idle /\ watchers' \in {Idle, SinkOnly}
  <2>1. Sound(q.dev) /\ q.dev.nbufs # 0 /\ watchers = Idle
    BY <1>7, <1>9
  <2>2. Sound(on.dev) /\ on.dev.nbufs # 0
    BY <1>9, <2>1, StreamOnFacts DEF SameQueues
  <2>3. Sound(src')
    <3>1. src \in LooseDevice
      BY DEF Sound
    <3>2. src' = [src EXCEPT !.streaming = TRUE]
      BY <1>9 DEF StaticSourceStreamOn
    <3>3. src' \in LooseDevice /\ SameQueues(src', src)
      BY <3>1, <3>2 DEF LooseDevice, SameQueues
    <3> QED
      BY <3>3, SameSound
  <2>4. watchers' \in {Idle, SinkOnly}
    BY <1>9, <2>1, WatchFacts
  <2> QED
    BY <1>9, <2>1, <2>2, <2>3, <2>4
<1> HIDE DEF IndInv
<1> QED
  BY <1>1, <1>4, <1>6, <1>8, <1>9

-----------------------------------------------------------------------------
(* Every step keeps the invariant *)

\* The buffers each end has, before and after a step.
SameCounts == src'.nbufs = src.nbufs /\ sink'.nbufs = sink.nbufs

\* The callback returns to an entry that is still in the list.
LEMMA ReturnedFacts ==
  ASSUME cursor \in RangeOf(watchers'), watchers' \in {Idle, SinkOnly, Both}, Returned
  PROVE  cursor' \in RangeOf(watchers') \cup {End}
  BY FollowingFacts DEF Returned

LEMMA HeadFacts == \A w \in {Idle, SinkOnly, Both} : EventEntry \in RangeOf(w) /\ Head(w) = EventEntry
<1>1. \A w \in {Idle, SinkOnly, Both} : EventEntry \in RangeOf(w)
  BY ListRanges
<1>2. Head(Idle) = EventEntry /\ Head(SinkOnly) = EventEntry /\ Head(Both) = EventEntry
  BY DEF Idle, SinkOnly, Both
<1> QED
  BY <1>1, <1>2

LEMMA SelectStep == IndInv /\ Select => IndInv'
<1> SUFFICES ASSUME IndInv, Select PROVE IndInv'
  OBVIOUS
<1>1. UNCHANGED <<type, src, sink, watchers>> /\ cursor' = Head(watchers)
  BY DEF Select
<1>2. cursor' \in RangeOf(watchers)
  BY <1>1, HeadFacts DEF IndInv
<1> QED
  BY <1>1, <1>2 DEF IndInv, OneOwner, StartRefused

LEMMA SkipStep == IndInv /\ Skip => IndInv'
<1> SUFFICES ASSUME IndInv, Skip PROVE IndInv'
  OBVIOUS
<1>1. UNCHANGED <<type, src, sink, watchers>> /\ cursor \in Entries /\ Returned
  BY DEF Skip
<1>2. cursor' \in RangeOf(watchers') \cup {End}
  BY <1>1, ReturnedFacts, EntryFacts DEF IndInv
<1> QED
  BY <1>1, <1>2 DEF IndInv, OneOwner, StartRefused

LEMMA StreamOnStep == IndInv /\ HandleStreamOn => IndInv'
<1> SUFFICES ASSUME IndInv, HandleStreamOn PROVE IndInv'
  OBVIOUS
<1>1. /\ cursor = EventEntry /\ Returned /\ type' = type
      /\ IF type = "DMABUF" THEN StartAlloc ELSE StartNoAlloc
  BY DEF HandleStreamOn, Deliver, Called
<1>2. ASSUME type = "DMABUF"
      PROVE  /\ Sound(src') /\ Sound(sink') /\ OneOwner'
             /\ watchers' \in {Idle, SinkOnly, Both} /\ StartRefused'
  <2>1. /\ Sound(src') /\ Sound(sink') /\ InKernel(src') \cap InKernel(sink') = {}
        /\ \/ watchers' = watchers /\ (watchers # Idle => src' = src)
           \/ watchers' \in {SinkOnly, Both} /\ src'.nbufs # 0
    BY <1>1, <1>2, StartAllocFacts
  <2>2. OneOwner'
    BY <2>1 DEF OneOwner
  <2>3. watchers' \in {Idle, SinkOnly, Both} /\ StartRefused'
    BY <1>1, <1>2, <2>1 DEF IndInv, StartRefused
  <2> QED
    BY <2>1, <2>2, <2>3
<1>3. ASSUME type = "STATIC"
      PROVE  /\ Sound(src') /\ Sound(sink') /\ OneOwner'
             /\ watchers' \in {Idle, SinkOnly, Both} /\ StartRefused'
  <2>1. /\ Sound(src') /\ Sound(sink')
        /\ \/ watchers' = watchers /\ (watchers # Idle => sink' = sink)
           \/ watchers' = SinkOnly /\ sink'.nbufs # 0
    BY <1>1, <1>3, StartNoAllocFacts
  <2>2. OneOwner'
    BY <1>1, <1>3 DEF OneOwner
  <2>3. watchers' \in {Idle, SinkOnly, Both} /\ StartRefused'
    BY <1>1, <1>3, <2>1 DEF IndInv, StartRefused
  <2> QED
    BY <2>1, <2>2, <2>3
<1>4. type \in {"DMABUF", "STATIC"} /\ type' \in {"DMABUF", "STATIC"}
  BY <1>1 DEF IndInv
<1>5. /\ Sound(src') /\ Sound(sink') /\ OneOwner'
      /\ watchers' \in {Idle, SinkOnly, Both} /\ StartRefused'
  BY <1>2, <1>3, <1>4
<1>6. cursor' \in RangeOf(watchers') \cup {End}
  BY <1>1, <1>5, HeadFacts, ReturnedFacts
<1> QED
  BY <1>4, <1>5, <1>6 DEF IndInv

LEMMA StreamOffStep == IndInv /\ HandleStreamOff => IndInv'
<1> SUFFICES ASSUME IndInv, HandleStreamOff PROVE IndInv'
  OBVIOUS
<1>1. /\ cursor = EventEntry /\ Returned /\ type' = type
      /\ sink' = FreeBuffers(StreamOff(sink))
      /\ src' = FreeBuffers(StreamOff(src))
      /\ watchers' = Unwatch(Unwatch(watchers, SinkEntry), SourceEntry)
  BY DEF HandleStreamOff, Deliver, Called, Stop
<1>2. Sound(src) /\ Sound(sink) /\ watchers \in {Idle, SinkOnly, Both} /\ type \in {"DMABUF", "STATIC"}
  BY DEF IndInv
<1>3. Sound(StreamOff(src)) /\ InKernel(StreamOff(src)) = {} /\ Sound(StreamOff(sink))
  BY <1>2, StreamOffFacts
<1>4. Sound(src') /\ Sound(sink') /\ InKernel(src') = {}
  BY <1>1, <1>3, FreeFacts
<1>5. watchers' = Idle
  BY <1>1, <1>2, UnwatchFacts
<1>6. cursor' \in RangeOf(watchers') \cup {End}
  BY <1>1, <1>5, HeadFacts, ReturnedFacts
<1> QED
  BY <1>1, <1>2, <1>4, <1>5, <1>6 DEF IndInv, OneOwner, StartRefused

\* The buffer a driver gives back is not in the other driver's hands.
LEMMA SourceProcessStep == IndInv /\ SourceProcess => IndInv' /\ SameCounts
<1> SUFFICES ASSUME IndInv, SourceProcess PROVE IndInv' /\ SameCounts
  OBVIOUS
<1>1. cursor = SourceEntry /\ Returned /\ UNCHANGED <<type, watchers>>
  BY DEF SourceProcess, Called
<1>2. \/ UNCHANGED <<src, sink>>
      \/ \E r \in DequeueBuffer(src) :
           r.ret = "ok" /\ src' = r.dev /\ \E q \in QueueBuffer(sink, r.index) : sink' = q.dev
  BY DEF SourceProcess
<1>3. Sound(src) /\ Sound(sink) /\ OneOwner
  BY DEF IndInv
<1>4. ASSUME NEW r \in DequeueBuffer(src), r.ret = "ok", src' = r.dev,
             NEW q \in QueueBuffer(sink, r.index), sink' = q.dev
      PROVE  /\ Sound(src') /\ Sound(sink') /\ src'.nbufs = src.nbufs /\ sink'.nbufs = sink.nbufs
             /\ InKernel(src) \cap InKernel(sink) = {} => InKernel(src') \cap InKernel(sink') = {}
  <2>1. /\ Sound(r.dev) /\ r.dev.nbufs = src.nbufs /\ r.index \in Nat
        /\ InKernel(r.dev) \subseteq InKernel(src) \ {r.index}
    BY <1>3, <1>4, DequeueFacts
  <2>2. /\ Sound(sink') /\ sink'.nbufs = sink.nbufs
        /\ InKernel(sink') \subseteq InKernel(sink) \cup {r.index}
    BY <1>3, <1>4, <2>1, QueueFacts
  <2> QED
    BY <1>4, <2>1, <2>2
<1>5. /\ Sound(src') /\ Sound(sink') /\ src'.nbufs = src.nbufs /\ sink'.nbufs = sink.nbufs
      /\ InKernel(src) \cap InKernel(sink) = {} => InKernel(src') \cap InKernel(sink') = {}
  BY <1>2, <1>3, <1>4
<1>6. cursor' \in RangeOf(watchers') \cup {End}
  BY <1>1, EntryFacts, ReturnedFacts DEF IndInv
<1> QED
  BY <1>1, <1>5, <1>6 DEF IndInv, OneOwner, StartRefused, SameCounts

LEMMA SinkProcessStep == IndInv /\ SinkProcess => IndInv' /\ SameCounts
<1> SUFFICES ASSUME IndInv, SinkProcess PROVE IndInv' /\ SameCounts
  OBVIOUS
<1>1. cursor = SinkEntry /\ Returned /\ UNCHANGED <<type, watchers>>
  BY DEF SinkProcess, Called
<1>2. \/ UNCHANGED <<src, sink>>
      \/ \E r \in DequeueBuffer(sink) :
           /\ r.ret = "ok"
           /\ \/ type = "DMABUF" /\ sink' = r.dev /\ \E q \in QueueBuffer(src, r.index) : src' = q.dev
              \/ type # "DMABUF" /\ (\E q \in QueueBuffer(r.dev, r.index) : sink' = q.dev) /\ src' = src
  BY DEF SinkProcess
<1>3. Sound(src) /\ Sound(sink) /\ OneOwner
  BY DEF IndInv
<1>4. ASSUME NEW r \in DequeueBuffer(sink), r.ret = "ok", sink' = r.dev,
             NEW q \in QueueBuffer(src, r.index), src' = q.dev
      PROVE  /\ Sound(src') /\ Sound(sink') /\ src'.nbufs = src.nbufs /\ sink'.nbufs = sink.nbufs
             /\ InKernel(src) \cap InKernel(sink) = {} => InKernel(src') \cap InKernel(sink') = {}
  <2>1. /\ Sound(r.dev) /\ r.dev.nbufs = sink.nbufs /\ r.index \in Nat
        /\ InKernel(r.dev) \subseteq InKernel(sink) \ {r.index}
    BY <1>3, <1>4, DequeueFacts
  <2>2. /\ Sound(src') /\ src'.nbufs = src.nbufs
        /\ InKernel(src') \subseteq InKernel(src) \cup {r.index}
    BY <1>3, <1>4, <2>1, QueueFacts
  <2> QED
    BY <1>4, <2>1, <2>2
<1>5. ASSUME NEW r \in DequeueBuffer(sink), r.ret = "ok",
             NEW q \in QueueBuffer(r.dev, r.index), sink' = q.dev
      PROVE  Sound(sink') /\ sink'.nbufs = sink.nbufs
  <2>1. Sound(r.dev) /\ r.dev.nbufs = sink.nbufs /\ r.index \in Nat
    BY <1>3, <1>5, DequeueFacts
  <2> QED
    BY <1>5, <2>1, QueueFacts
<1>6. /\ Sound(src') /\ Sound(sink') /\ src'.nbufs = src.nbufs /\ sink'.nbufs = sink.nbufs
      /\ (type = "DMABUF" /\ InKernel(src) \cap InKernel(sink) = {}
            => InKernel(src') \cap InKernel(sink') = {})
  BY <1>2, <1>3, <1>4, <1>5
<1>7. cursor' \in RangeOf(watchers') \cup {End}
  BY <1>1, EntryFacts, ReturnedFacts DEF IndInv
<1> QED
  BY <1>1, <1>6, <1>7 DEF IndInv, OneOwner, StartRefused, SameCounts

\* The drivers and the bus only move buffers between their own queues.
LEMMA EnvironmentStep == IndInv /\ Environment => IndInv' /\ SameCounts
<1> SUFFICES ASSUME IndInv, Environment PROVE IndInv' /\ SameCounts
  OBVIOUS
<1>1. UNCHANGED <<type, watchers, cursor>>
  BY DEF Environment, HostStreamOn, HostStreamOff, HostReset, SourceComplete, SinkComplete
<1>2. Sound(src) /\ Sound(sink)
  BY DEF IndInv
<1>3. /\ Sound(src') /\ src'.nbufs = src.nbufs /\ InKernel(src') \subseteq InKernel(src)
      /\ Sound(sink') /\ sink'.nbufs = sink.nbufs /\ InKernel(sink') \subseteq InKernel(sink)
  <2>1. CASE HostStreamOn
    BY <1>2, <2>1 DEF HostStreamOn
  <2>2. CASE HostStreamOff
    BY <1>2, <2>2 DEF HostStreamOff
  <2>3. CASE HostReset
    <3>1. src' = src /\ sink' = [sink EXCEPT !.queued = << >>, !.done = @ \o sink.queued]
      BY <2>3 DEF HostReset
    <3> QED
      BY <1>2, <3>1, ResetFacts
  <2>4. CASE SourceComplete
    <3>1. CanComplete(src) /\ src' = Complete(src) /\ sink' = sink
      BY <2>4 DEF SourceComplete
    <3> QED
      BY <1>2, <3>1, CompleteFacts
  <2>5. CASE SinkComplete
    <3>1. CanComplete(sink) /\ sink' = Complete(sink) /\ src' = src
      BY <2>5 DEF SinkComplete
    <3> QED
      BY <1>2, <3>1, CompleteFacts
  <2> QED
    BY <2>1, <2>2, <2>3, <2>4, <2>5 DEF Environment
<1> QED
  BY <1>1, <1>3 DEF IndInv, OneOwner, StartRefused, SameCounts

LEMMA IndStep == IndInv /\ [Next]_vars => IndInv'
<1>1. IndInv /\ Next => IndInv'
  BY SelectStep, SkipStep, StreamOnStep, StreamOffStep, SourceProcessStep, SinkProcessStep,
     EnvironmentStep DEF Next, EventsLoop
<1>2. IndInv /\ UNCHANGED vars => IndInv'
  BY DEF IndInv, OneOwner, StartRefused, vars
<1> QED
  BY <1>1, <1>2

\* The invariant holds in every reachable state of the stream's loop.
THEOREM Inductive == Spec => []IndInv
<1>1. Init /\ [][Next]_vars => []IndInv
  BY IndInit, IndStep, PTL
<1> QED
  BY <1>1, PTL DEF Spec, Safety

\* No frame buffer is ever with the camera and with the USB controller at once,
\* for every number of buffers, every failure of the ioctls, every restart and
\* unplugging (uvc_stream_source_process, uvc_stream_uvc_process, stream.c:40-62).
THEOREM BufferOwnership == Spec => []OneOwner
<1>1. IndInv => OneOwner
  BY DEF IndInv
<1> QED
  BY <1>1, Inductive, PTL

LEMMA WatchedIsRange == Watched = RangeOf(watchers)
  BY DEF Watched, RangeOf

\* No descriptor is watched twice for one type, and the dispatcher stands on no
\* entry that a callback has removed (events_dispatch, events.c:103-122).
THEOREM ListCorrect == Spec => [](WatchedOnce /\ CursorInList)
<1>1. ASSUME IndInv PROVE WatchedOnce
  <2>0. ASSUME NEW S, IsFiniteSet(S), NEW x, x \notin S
        PROVE  IsFiniteSet(S \cup {x}) /\ Cardinality(S \cup {x}) = Cardinality(S) + 1
    BY <2>0, FS_AddElement
  <2>1. IsFiniteSet({EventEntry}) /\ Cardinality({EventEntry}) = 1
    BY FS_Singleton
  <2>2. IsFiniteSet({EventEntry, SinkEntry}) /\ Cardinality({EventEntry, SinkEntry}) = 2
    <3>1. {EventEntry, SinkEntry} = {EventEntry} \cup {SinkEntry} /\ SinkEntry \notin {EventEntry}
      BY EntryFacts
    <3> QED
      BY <3>1, <2>0, <2>1
  <2>3. Cardinality({EventEntry, SourceEntry, SinkEntry}) = 3
    <3>1. /\ {EventEntry, SourceEntry, SinkEntry} = {EventEntry, SinkEntry} \cup {SourceEntry}
          /\ SourceEntry \notin {EventEntry, SinkEntry}
      BY EntryFacts
    <3> QED
      BY <3>1, <2>0, <2>2
  <2> QED
    BY <1>1, <2>1, <2>2, <2>3, ListRanges, WatchedIsRange DEF IndInv, WatchedOnce
<1>2. ASSUME IndInv PROVE CursorInList
  <2>1. RangeOf(watchers) \subseteq Entries
    BY <1>2, ListRanges, EntryFacts DEF IndInv
  <2> QED
    BY <1>2, <2>1, EntryFacts DEF IndInv, CursorInList
<1> QED
  BY <1>1, <1>2, Inductive, PTL
-----------------------------------------------------------------------------
(* What a start and a stop leave behind *)

Empty(d) ==
  /\ d.nbufs = 0 /\ d.kbufs \notin 1 .. NBufs /\ d.dmabuf = {} /\ d.mem = {}
  /\ d.queued = << >> /\ d.done = << >> /\ ~d.streaming

\* Both ends of a camera's stream have buffers while it is watched and nothing
\* otherwise.
Whole ==
  type = "DMABUF" =>
    IF watchers = Idle THEN Empty(src) /\ Empty(sink) ELSE src.nbufs # 0 /\ sink.nbufs # 0

\* Buffers of a device that does not stream are released completely.
LEMMA FreedEmpty ==
  ASSUME NEW d \in LooseDevice, d.nbufs # 0, ~d.streaming
  PROVE  Empty(FreeBuffers(d))
<1> DEFINE c == FreeBuffers(d)
<1>1. c = [d EXCEPT !.nbufs = 0, !.kbufs = 0, !.mem = {}, !.dmabuf = {},
                    !.queued = << >>, !.done = << >>]
  BY DEF FreeBuffers
<1> HIDE DEF c
<1>2. /\ c.nbufs = 0 /\ c.kbufs = 0 /\ c.dmabuf = {} /\ c.mem = {}
      /\ c.queued = << >> /\ c.done = << >> /\ c.streaming = d.streaming
  BY <1>1, EmptyFacts DEF LooseDevice
<1>3. 0 \notin 1 .. NBufs
  OBVIOUS
<1> QED
  BY <1>2, <1>3 DEF Empty, c

LEMMA StopEmpty ==
  ASSUME NEW d \in LooseDevice, d.nbufs # 0 \/ Empty(d)
  PROVE  Empty(FreeBuffers(StreamOff(d)))
<1> DEFINE c == StreamOff(d)
<1>1. c = [d EXCEPT !.streaming = FALSE, !.queued = << >>, !.done = << >>]
  BY DEF StreamOff
<1> HIDE DEF c
<1>2. /\ c \in LooseDevice /\ ~c.streaming /\ c.nbufs = d.nbufs /\ c.kbufs = d.kbufs
      /\ c.mem = d.mem /\ c.dmabuf = d.dmabuf /\ c.queued = << >> /\ c.done = << >>
  BY <1>1, EmptyFacts DEF LooseDevice
<1>3. CASE d.nbufs # 0
  BY <1>2, <1>3, FreedEmpty DEF c
<1>4. CASE Empty(d)
  <2>1. Empty(c)
    BY <1>2, <1>4 DEF Empty
  <2>2. FreeBuffers(c) = c
    BY <2>1 DEF Empty, FreeBuffers
  <2> QED
    BY <2>1, <2>2 DEF c
<1> QED
  BY <1>3, <1>4

\* REQBUFS that fails leaves an empty device empty.
LEMMA EmptyAlloc ==
  ASSUME NEW d, Sound(d), Empty(d), NEW n \in Nat \ {0}, NEW m \in {"MMAP", "DMABUF"},
         NEW a \in AllocBuffers(d, m, n)
  PROVE  (a.ret = "error" => Empty(a.dev)) /\ (a.ret = "ok" => ~a.dev.streaming)
<1>0. d \in LooseDevice /\ d.nbufs = 0
  BY DEF Sound, Empty
<1>1. ASSUME NEW g \in Nat, a = Ok([d EXCEPT !.nbufs = g, !.kbufs = g, !.memtype = m])
      PROVE  a.ret = "ok" /\ ~a.dev.streaming
  <2>1. a.ret = "ok" /\ a.dev = [d EXCEPT !.nbufs = g, !.kbufs = g, !.memtype = m]
    BY <1>1 DEF Ok
  <2>2. a.dev.streaming = d.streaming
    BY <1>0, <2>1 DEF LooseDevice
  <2> QED
    BY <2>1, <2>2 DEF Empty
<1>2. ASSUME a = Failed(FreeBuffers([d EXCEPT !.kbufs = NBufs + 1]))
      PROVE  a.ret = "error" /\ Empty(a.dev)
  <2> DEFINE c == [d EXCEPT !.kbufs = NBufs + 1]
  <2>0. NBufs + 1 \notin 1 .. NBufs
    BY NBufsAssumption
  <2>1. /\ c.nbufs = d.nbufs /\ c.kbufs = NBufs + 1 /\ c.mem = d.mem /\ c.dmabuf = d.dmabuf
        /\ c.queued = d.queued /\ c.done = d.done /\ c.streaming = d.streaming
    BY <1>0 DEF LooseDevice
  <2> HIDE DEF c
  <2>2. Empty(c)
    BY <2>0, <2>1 DEF Empty
  <2>3. a = Failed(c)
    BY <1>2, <2>2 DEF FreeBuffers, Empty, c
  <2> QED
    BY <2>2, <2>3 DEF Failed
<1>3. ASSUME a = Failed(FreeBuffers(d))
      PROVE  a.ret = "error" /\ Empty(a.dev)
  BY <1>0, <1>3 DEF FreeBuffers, Failed
<1>4. \/ \E g \in Nat : a = Ok([d EXCEPT !.nbufs = g, !.kbufs = g, !.memtype = m])
      \/ a = Failed(FreeBuffers(d))
      \/ a = Failed(FreeBuffers([d EXCEPT !.kbufs = NBufs + 1]))
  <2>1. n - 1 \in {n - 1} \ {0} => n - 1 \in Nat
    OBVIOUS
  <2> QED
    BY <1>0, <2>1 DEF AllocBuffers, If
<1> QED
  BY <1>1, <1>2, <1>3, <1>4

\* Exporting and importing start no device.
LEMMA HandlesStart ==
  ASSUME NEW d \in LooseDevice, NEW n, NEW x \in ExportBuffers(d) \cup ImportBuffers(d, n)
  PROVE  x.dev.streaming = d.streaming
<1>0. d.nbufs \in Nat
  BY FieldFacts
<1>1. \/ x.dev = d
      \/ \E k \in Nat : x.dev = [d EXCEPT !.dmabuf = 0 .. k - 1]
  BY <1>0 DEF ExportBuffers, ImportBuffers, If, Ok, Failed
<1>2. ASSUME NEW k \in Nat, x.dev = [d EXCEPT !.dmabuf = 0 .. k - 1]
      PROVE  x.dev.streaming = d.streaming
  BY <1>2 DEF LooseDevice
<1> QED
  BY <1>1, <1>2

LEMMA StartAllocWhole ==
  ASSUME IndInv, Whole, type = "DMABUF", StartAlloc
  PROVE  \/ watchers' = watchers /\ watchers # Idle /\ UNCHANGED <<src, sink>>
         \/ watchers' = watchers /\ watchers = Idle /\ Empty(src') /\ Empty(sink')
         \/ watchers' \in {SinkOnly, Both} /\ src'.nbufs # 0 /\ sink'.nbufs # 0
<1>0. Sound(src) /\ Sound(sink)
  BY DEF IndInv
<1>1. PICK a \in AllocBuffers(src, "MMAP", NBufs) :
         \/ /\ a.ret = "error"
            /\ src' = a.dev
            /\ UNCHANGED <<sink, watchers>>
         \/ /\ a.ret = "ok"
            /\ \E x \in ExportBuffers(a.dev) :
                 \/ /\ x.ret = "error"
                    /\ src' = FreeBuffers(x.dev)
                    /\ UNCHANGED <<sink, watchers>>
                 \/ /\ x.ret = "ok"
                    /\ \E b \in AllocBuffers(sink, "DMABUF", x.dev.nbufs) :
                         \/ /\ b.ret = "error"
                            /\ src' = FreeBuffers(x.dev)
                            /\ sink' = b.dev
                            /\ UNCHANGED watchers
                         \/ /\ b.ret = "ok"
                            /\ \E i \in ImportBuffers(b.dev, x.dev.nbufs) :
                                 \/ /\ i.ret = "error"
                                    /\ src' = FreeBuffers(x.dev)
                                    /\ sink' = FreeBuffers(i.dev)
                                    /\ UNCHANGED watchers
                                 \/ i.ret = "ok" /\ StartBoth(x.dev, i.dev)
  BY DEF StartAlloc
<1>2. CASE watchers # Idle
  <2>1. src.nbufs # 0
    BY <1>2 DEF Whole
  <2>2. a.ret = "error" /\ a.dev = src
    BY <1>0, <2>1, NBufsAssumption, AllocFacts
  <2> QED
    BY <1>1, <1>2, <2>2
<1>3. CASE watchers = Idle
  <2>1. Empty(src) /\ Empty(sink)
    BY <1>3 DEF Whole
  <2>2. /\ a.ret = "error" => Empty(a.dev)
        /\ a.ret = "ok" => /\ ~a.dev.streaming /\ Sound(a.dev) /\ a.dev.nbufs \in Nat \ {0}
                           /\ a.dev.memtype = "MMAP" /\ a.dev.queued = << >> /\ a.dev.done = << >>
    BY <1>0, <2>1, NBufsAssumption, EmptyAlloc, AllocFacts
  <2>3. ASSUME a.ret = "ok", NEW x \in ExportBuffers(a.dev)
        PROVE  /\ Sound(x.dev) /\ ~x.dev.streaming /\ x.dev.nbufs \in Nat \ {0}
               /\ x.dev.memtype = "MMAP" /\ x.dev.queued = << >> /\ x.dev.done = << >>
               /\ Empty(FreeBuffers(x.dev))
    <3>1. Sound(x.dev) /\ SameQueues(x.dev, a.dev) /\ x.dev.memtype = "MMAP"
      BY <2>2, <2>3, ExportFacts
    <3>2. ~x.dev.streaming
      BY <2>2, <2>3, HandlesStart DEF Sound
    <3> QED
      BY <2>2, <2>3, <3>1, <3>2, FreedEmpty DEF SameQueues, Sound
  <2>4. ASSUME NEW x, x.dev.nbufs \in Nat \ {0}, NEW b \in AllocBuffers(sink, "DMABUF", x.dev.nbufs)
        PROVE  /\ b.ret = "error" => Empty(b.dev)
               /\ b.ret = "ok" => ~b.dev.streaming /\ Sound(b.dev) /\ b.dev.nbufs # 0 /\ InKernel(b.dev) = {}
    <3>1. InKernel(sink) = {}
      BY <2>1, EmptyFacts, OwnedFacts DEF Empty
    <3>2. "DMABUF" \in {"MMAP", "DMABUF"}
      OBVIOUS
    <3> QED
      BY <1>0, <2>1, <2>4, <3>1, <3>2, EmptyAlloc, AllocFacts
  <2>5. ASSUME NEW d, Sound(d), ~d.streaming, d.nbufs # 0, InKernel(d) = {}, NEW n, NEW i \in ImportBuffers(d, n)
        PROVE  /\ Sound(i.dev) /\ i.dev.nbufs # 0 /\ InKernel(i.dev) = {}
               /\ Empty(FreeBuffers(i.dev))
    <3>1. Sound(i.dev) /\ SameQueues(i.dev, d)
      BY <2>5, ImportFacts
    <3>2. ~i.dev.streaming
      BY <2>5, HandlesStart DEF Sound
    <3>3. i.dev.nbufs # 0 /\ InKernel(i.dev) = {}
      BY <2>5, <3>1, OwnedFacts DEF SameQueues
    <3> QED
      BY <3>1, <3>2, <3>3, FreedEmpty DEF Sound
  <2>6. ASSUME NEW s, Sound(s), s.nbufs # 0, s.memtype = "MMAP", s.queued = << >>, s.done = << >>,
               NEW k, Sound(k), k.nbufs # 0, InKernel(k) = {}, StartBoth(s, k)
        PROVE  watchers' \in {SinkOnly, Both} /\ src'.nbufs # 0 /\ sink'.nbufs # 0
    <3>1. watchers' \in {SinkOnly, Both} /\ src'.nbufs # 0
      BY <1>3, <2>6, StartBothFacts
    <3>2. PICK on \in StreamOn(k) : sink' = on.dev
      BY <2>6 DEF StartBoth
    <3>3. SameQueues(on.dev, k)
      BY <2>6, StreamOnFacts
    <3> QED
      BY <2>6, <3>1, <3>2, <3>3 DEF SameQueues
  <2>7. CASE a.ret = "error" /\ src' = a.dev /\ UNCHANGED <<sink, watchers>>
    BY <1>3, <2>1, <2>2, <2>7
  <2>8. ASSUME a.ret = "ok", NEW x \in ExportBuffers(a.dev), src' = FreeBuffers(x.dev),
               UNCHANGED <<sink, watchers>>
        PROVE  watchers' = watchers /\ Empty(src') /\ Empty(sink')
    BY <2>1, <2>3, <2>8
  <2>9. ASSUME a.ret = "ok", NEW x \in ExportBuffers(a.dev),
               NEW b \in AllocBuffers(sink, "DMABUF", x.dev.nbufs), b.ret = "error",
               src' = FreeBuffers(x.dev), sink' = b.dev, UNCHANGED watchers
        PROVE  watchers' = watchers /\ Empty(src') /\ Empty(sink')
    BY <2>3, <2>4, <2>9
  <2>10. ASSUME a.ret = "ok", NEW x \in ExportBuffers(a.dev),
                NEW b \in AllocBuffers(sink, "DMABUF", x.dev.nbufs), b.ret = "ok",
                NEW i \in ImportBuffers(b.dev, x.dev.nbufs)
         PROVE  /\ Sound(i.dev) /\ i.dev.nbufs # 0 /\ InKernel(i.dev) = {}
                /\ Empty(FreeBuffers(i.dev))
    <3>1. Sound(b.dev) /\ ~b.dev.streaming /\ b.dev.nbufs # 0 /\ InKernel(b.dev) = {}
      BY <2>3, <2>4, <2>10
    <3> QED
      BY <2>5, <2>10, <3>1
  <2>11. ASSUME a.ret = "ok", NEW x \in ExportBuffers(a.dev),
                NEW b \in AllocBuffers(sink, "DMABUF", x.dev.nbufs), b.ret = "ok",
                NEW i \in ImportBuffers(b.dev, x.dev.nbufs),
                src' = FreeBuffers(x.dev), sink' = FreeBuffers(i.dev), UNCHANGED watchers
         PROVE  watchers' = watchers /\ Empty(src') /\ Empty(sink')
    BY <2>3, <2>10, <2>11
  <2>12. ASSUME a.ret = "ok", NEW x \in ExportBuffers(a.dev),
                NEW b \in AllocBuffers(sink, "DMABUF", x.dev.nbufs), b.ret = "ok",
                NEW i \in ImportBuffers(b.dev, x.dev.nbufs), StartBoth(x.dev, i.dev)
         PROVE  watchers' \in {SinkOnly, Both} /\ src'.nbufs # 0 /\ sink'.nbufs # 0
    <3>1. /\ Sound(x.dev) /\ x.dev.nbufs # 0 /\ x.dev.memtype = "MMAP"
          /\ x.dev.queued = << >> /\ x.dev.done = << >>
      BY <2>3, <2>12
    <3>2. Sound(i.dev) /\ i.dev.nbufs # 0 /\ InKernel(i.dev) = {}
      BY <2>10, <2>12
    <3> QED
      BY <2>6, <2>12, <3>1, <3>2
  <2> QED
    BY <1>1, <1>3, <2>7, <2>8, <2>9, <2>11, <2>12
<1> QED
  BY <1>2, <1>3

LEMMA WholeStep == IndInv /\ Whole /\ [Next]_vars => Whole'
<1> SUFFICES ASSUME IndInv, Whole, type = "DMABUF", [Next]_vars PROVE Whole'
  <2>1. ASSUME [Next]_vars PROVE type' = type
    BY <2>1 DEF Next, vars, EventsLoop, Environment, Select, Skip, HandleStreamOn, HandleStreamOff,
       SourceProcess, SinkProcess, HostStreamOn, HostStreamOff, HostReset, SourceComplete, SinkComplete
  <2>2. ASSUME type' # "DMABUF" PROVE Whole'
    BY <2>2 DEF Whole
  <2> QED
    BY <2>1, <2>2
<1>0. Sound(src) /\ Sound(sink) /\ src \in LooseDevice /\ sink \in LooseDevice
  BY DEF IndInv, Sound
<1>1. CASE UNCHANGED <<src, sink, watchers>>
  BY <1>1 DEF Whole
<1>2. CASE HandleStreamOn
  <2>1. StartAlloc
    BY <1>2 DEF HandleStreamOn
  <2> QED
    BY <2>1, StartAllocWhole, ListDistinct DEF Whole
<1>3. CASE HandleStreamOff
  <2>1. /\ sink' = FreeBuffers(StreamOff(sink)) /\ src' = FreeBuffers(StreamOff(src))
        /\ watchers' = Unwatch(Unwatch(watchers, SinkEntry), SourceEntry)
    BY <1>3 DEF HandleStreamOff, Stop
  <2>2. watchers' = Idle
    BY <2>1, UnwatchFacts DEF IndInv
  <2>3. Empty(src') /\ Empty(sink')
    BY <1>0, <2>1, StopEmpty DEF Whole
  <2> QED
    BY <2>2, <2>3 DEF Whole
<1>4. CASE watchers' = watchers /\ watchers # Idle /\ SameCounts
  BY <1>4 DEF Whole, SameCounts
<1>5. CASE SourceProcess \/ SinkProcess
  <2>1. watchers' = watchers /\ cursor \in {SourceEntry, SinkEntry}
    BY <1>5 DEF SourceProcess, SinkProcess, Called
  <2>2. watchers # Idle
    BY <2>1, ListRanges, EntryFacts DEF IndInv
  <2>3. SameCounts
    BY <1>5, SourceProcessStep, SinkProcessStep
  <2> QED
    BY <1>4, <2>1, <2>2, <2>3
<1>6. CASE Environment
  <2>1. watchers' = watchers /\ SameCounts
    BY <1>6, EnvironmentStep DEF Environment, HostStreamOn, HostStreamOff, HostReset, SourceComplete, SinkComplete
  <2>2. ASSUME watchers = Idle PROVE Empty(src') /\ Empty(sink')
    <3>1. Empty(src) /\ Empty(sink)
      BY <2>2 DEF Whole
    <3>2. CASE UNCHANGED <<src, sink>>
      BY <3>1, <3>2
    <3>3. CASE HostReset
      <4>1. src' = src /\ sink' = [sink EXCEPT !.queued = << >>, !.done = @ \o sink.queued]
        BY <3>3 DEF HostReset
      <4>2. sink.done \o sink.queued = << >>
        BY <3>1 DEF Empty
      <4>3. sink' = [sink EXCEPT !.queued = << >>, !.done = << >>]
        BY <4>1, <4>2
      <4>4. /\ sink'.nbufs = sink.nbufs /\ sink'.kbufs = sink.kbufs
            /\ sink'.dmabuf = sink.dmabuf /\ sink'.mem = sink.mem
            /\ sink'.streaming = sink.streaming /\ sink'.queued = << >> /\ sink'.done = << >>
        BY <1>0, <4>3 DEF LooseDevice
      <4> QED
        BY <3>1, <4>1, <4>4 DEF Empty
    <3>4. ~CanComplete(src) /\ ~CanComplete(sink)
      BY <3>1 DEF Empty, CanComplete
    <3> QED
      BY <1>6, <3>2, <3>3, <3>4 DEF Environment, HostStreamOn, HostStreamOff, SourceComplete, SinkComplete
  <2> QED
    BY <1>4, <2>1, <2>2 DEF Whole
<1>7. [Next]_vars => \/ HandleStreamOn \/ HandleStreamOff \/ SourceProcess \/ SinkProcess \/ Environment
                     \/ UNCHANGED <<src, sink, watchers>>
  BY DEF Next, vars, EventsLoop, Select, Skip
<1> QED
  BY <1>1, <1>2, <1>3, <1>5, <1>6, <1>7

LEMMA WholeHolds == Spec => []Whole
<1>1. Init => Whole
  <2>1. ASSUME Init PROVE Empty(src) /\ Empty(sink) /\ watchers = Idle
    <3>0. 0 \notin 1 .. NBufs
      OBVIOUS
    <3>1. Empty(NewDevice)
      BY <3>0 DEF Empty, NewDevice
    <3> QED
      BY <2>1, <3>1 DEF Init, Idle
  <2> QED
    BY <2>1 DEF Whole
<1>2. Spec => Init /\ [][Next]_vars
  BY PTL DEF Spec, Safety
<1> QED
  BY <1>1, <1>2, WholeStep, Inductive, PTL

\* A camera's stream that is not watched has given everything back: every
\* failed start undoes what it did and a stop leaves nothing, for every number
\* of buffers and every combination of failures (the error labels of
\* uvc_stream_start_alloc, stream.c:126-132, and uvc_stream_stop).
THEOREM StartStopReleases == Spec => []WatchedOrReleased
<1>1. IndInv /\ Whole => WatchedOrReleased
  <2> SUFFICES ASSUME IndInv, Whole, type = "DMABUF", SinkEntry \notin Watched
               PROVE  Released(src) /\ Released(sink) /\ SourceEntry \notin Watched
    BY DEF WatchedOrReleased
  <2>1. watchers = Idle /\ SourceEntry \notin Watched
    BY WatchedIsRange, ListRanges, EntryFacts DEF IndInv
  <2>2. Empty(src) /\ Empty(sink)
    BY <2>1 DEF Whole
  <2>3. ASSUME NEW d, Empty(d) PROVE Released(d)
    <3>1. InKernel(d) = {}
      BY <2>3, EmptyFacts, OwnedFacts DEF Empty
    <3> QED
      BY <2>3, <3>1 DEF Empty, Released
  <2> QED
    BY <2>1, <2>2, <2>3
<1> QED
  BY <1>1, Inductive, WholeHolds, PTL

-----------------------------------------------------------------------------
(* Buffers in circulation *)

\* None of the failures that lose a buffer without ending the stream.
NoLoss == Faults \cap {"fewer", "dup", "qbuf"} = {}

\* The calls that only move buffers.
SameSetup(c, d) ==
  c.nbufs = d.nbufs /\ c.memtype = d.memtype /\ c.dmabuf = d.dmabuf /\ c.streaming = d.streaming

\* A buffer that is dequeued is the only one the driver loses.
LEMMA DequeueKeeps ==
  ASSUME NEW d, Sound(d), NEW r \in DequeueBuffer(d), r.ret = "ok"
  PROVE  /\ d.streaming /\ SameSetup(r.dev, d)
         /\ InKernel(r.dev) = InKernel(d) \ {r.index}
<1>0. d \in LooseDevice /\ d.queued \in Seq(Nat) /\ d.done \in Seq(Nat)
  BY FieldFacts DEF Sound
<1>1. r # Failed(d)
  BY DEF Failed
<1>2. CanDequeue(d) /\ r = [ret |-> "ok", dev |-> [d EXCEPT !.done = Tail(@)], index |-> Head(d.done)]
  BY <1>1 DEF DequeueBuffer, If
<1>3. d.streaming /\ d.done # << >>
  BY <1>2 DEF CanDequeue
<1>4. PICK h \in Seq(Nat) : h = Tail(d.done)
  <2>1. Tail(d.done) \in Seq(Nat)
    BY <1>0, <1>3
  <2> QED
    BY <2>1
<1>5. r.index = Head(d.done) /\ r.dev = [d EXCEPT !.done = h]
  BY <1>2, <1>4
<1>6. SameSetup(r.dev, d) /\ r.dev.queued = d.queued /\ r.dev.done = h
  BY <1>0, <1>4, <1>5 DEF LooseDevice, SameSetup
<1>7. InKernel(d) \ {r.index} \subseteq InKernel(r.dev)
  BY <1>0, <1>3, <1>4, <1>5, <1>6, TailKeeps, OwnedFacts
<1> QED
  BY <1>3, <1>6, <1>7, DequeueFacts

LEMMA QueueSetup ==
  ASSUME NEW d, Sound(d), NEW i \in Nat, NEW q \in QueueBuffer(d, i)
  PROVE  SameSetup(q.dev, d)
<1>0. d \in LooseDevice /\ d.queued \in Seq(Nat)
  BY FieldFacts DEF Sound
<1>1. PICK t \in Seq(Nat) : t = Append(d.queued, i)
  <2>1. Append(d.queued, i) \in Seq(Nat)
    BY <1>0
  <2> QED
    BY <2>1
<1>2. q.dev = d \/ q.dev = [d EXCEPT !.queued = t]
  <2>1. q = Failed(d) \/ q = Ok([d EXCEPT !.queued = t])
    BY <1>1 DEF QueueBuffer, If
  <2>2. ASSUME q = Failed(d) PROVE q.dev = d
    BY <2>2 DEF Failed
  <2>3. ASSUME q = Ok([d EXCEPT !.queued = t]) PROVE q.dev = [d EXCEPT !.queued = t]
    BY <2>3 DEF Ok
  <2> QED
    BY <2>1, <2>2, <2>3
<1>3. ASSUME q.dev = [d EXCEPT !.queued = t]
      PROVE  SameSetup(q.dev, d)
  BY <1>0, <1>3 DEF LooseDevice, SameSetup
<1> QED
  BY <1>2, <1>3 DEF SameSetup

\* Unless QBUF fails, the driver takes a buffer that it has memory for and does
\* not have already.
LEMMA QueueKeeps ==
  ASSUME NoLoss, NEW d, Sound(d), NEW i \in 0 .. d.nbufs - 1, i \notin InKernel(d),
         d.memtype = "DMABUF" => i \in d.dmabuf, NEW q \in QueueBuffer(d, i)
  PROVE  InKernel(q.dev) = InKernel(d) \cup {i}
<1>0. d \in LooseDevice /\ d.nbufs \in Nat /\ d.queued \in Seq(Nat) /\ d.done \in Seq(Nat)
  BY FieldFacts DEF Sound
<1>1. i \in Nat /\ CanQueue(d, i)
  BY <1>0 DEF CanQueue
<1>2. PICK t \in Seq(Nat) : t = Append(d.queued, i)
  <2>1. Append(d.queued, i) \in Seq(Nat)
    BY <1>0, <1>1
  <2> QED
    BY <2>1
<1>3. q = Ok([d EXCEPT !.queued = t])
  BY <1>1, <1>2 DEF QueueBuffer, If, NoLoss
<1>4. q.dev = [d EXCEPT !.queued = t]
  BY <1>3 DEF Ok
<1>5. q.dev.queued = t /\ q.dev.done = d.done
  BY <1>0, <1>2, <1>4, SetQueued
<1>6. InKernel(d) \cup {i} \subseteq InKernel(q.dev)
  BY <1>0, <1>1, <1>2, <1>5, AppendKeeps, OwnedFacts
<1> QED
  BY <1>1, <1>6, QueueFacts

LEMMA CompleteKeeps ==
  ASSUME NEW d, Sound(d), CanComplete(d)
  PROVE  SameSetup(Complete(d), d) /\ InKernel(Complete(d)) = InKernel(d)
<1>0. d \in LooseDevice /\ d.queued \in Seq(Nat) /\ d.done \in Seq(Nat) /\ d.queued # << >>
  BY FieldFacts DEF Sound, CanComplete
<1>1. PICK q \in Seq(Nat) : q = Tail(d.queued)
  <2>1. Tail(d.queued) \in Seq(Nat)
    BY <1>0
  <2> QED
    BY <2>1
<1>2. PICK h \in Seq(Nat) : h = Append(d.done, Head(d.queued))
  <2>1. Append(d.done, Head(d.queued)) \in Seq(Nat)
    BY <1>0
  <2> QED
    BY <2>1
<1>3. Complete(d) = [d EXCEPT !.queued = q, !.done = h]
  BY <1>1, <1>2 DEF Complete
<1> DEFINE c == Complete(d)
<1> HIDE DEF c
<1>4. SameSetup(Complete(d), d) /\ Complete(d).queued = q /\ Complete(d).done = h
  <2>1. c = [d EXCEPT !.queued = q, !.done = h]
    BY <1>3 DEF c
  <2>2. SameSetup(c, d) /\ c.queued = q /\ c.done = h
    BY <1>0, <2>1 DEF LooseDevice, SameSetup
  <2> QED
    BY <2>2 DEF c
<1>5. InKernel(d) \subseteq InKernel(Complete(d))
  BY <1>0, <1>1, <1>2, <1>4, MoveKeeps, OwnedFacts
<1> QED
  BY <1>4, <1>5, CompleteFacts

LEMMA ResetKeeps ==
  ASSUME NEW d, Sound(d), NEW c, c = [d EXCEPT !.queued = << >>, !.done = @ \o d.queued]
  PROVE  SameSetup(c, d) /\ InKernel(c) = InKernel(d)
<1>0. d \in LooseDevice /\ d.queued \in Seq(Nat) /\ d.done \in Seq(Nat)
  BY FieldFacts DEF Sound
<1>1. PICK h \in Seq(Nat) : h = d.done \o d.queued
  <2>1. d.done \o d.queued \in Seq(Nat)
    BY <1>0
  <2> QED
    BY <2>1
<1>2. c = [d EXCEPT !.queued = << >>, !.done = h]
  BY <1>1
<1>3. SameSetup(c, d) /\ c.queued = << >> /\ c.done = h
  BY <1>0, <1>2 DEF LooseDevice, SameSetup
<1>4. InKernel(d) \subseteq InKernel(c)
  BY <1>0, <1>1, <1>3, FlushKeeps, OwnedFacts
<1> QED
  BY <1>3, <1>4, ResetFacts

LEMMA StreamOnKeeps ==
  ASSUME NEW d, Sound(d), NEW x \in StreamOn(d)
  PROVE  /\ x.dev.nbufs = d.nbufs /\ x.dev.memtype = d.memtype /\ x.dev.dmabuf = d.dmabuf
         /\ InKernel(x.dev) = InKernel(d)
<1>0. d \in LooseDevice
  BY DEF Sound
<1>1. x.dev = d \/ x.dev = [d EXCEPT !.streaming = TRUE]
  <2>1. x = Failed(d) \/ x = Ok([d EXCEPT !.streaming = TRUE])
    BY DEF StreamOn, If
  <2>2. CASE x = Failed(d)
    BY <2>2 DEF Failed
  <2>3. CASE x = Ok([d EXCEPT !.streaming = TRUE])
    BY <2>3 DEF Ok
  <2> QED
    BY <2>1, <2>2, <2>3
<1>2. CASE x.dev = d
  BY <1>2
<1>3. CASE x.dev = [d EXCEPT !.streaming = TRUE]
  <2>1. x.dev.nbufs = d.nbufs /\ x.dev.memtype = d.memtype /\ x.dev.dmabuf = d.dmabuf
    BY <1>0, <1>3 DEF LooseDevice
  <2>2. x.dev.queued = d.queued /\ x.dev.done = d.done
    BY <1>0, <1>3 DEF LooseDevice
  <2> QED
    BY <2>1, <2>2, OwnedFacts
<1> QED
  BY <1>1, <1>2, <1>3

\* The start of a driver gives it every buffer, unless QBUF fails.
LEMMA QueueAllKeeps ==
  ASSUME NEW d, Sound(d), d.nbufs # 0, d.memtype = "MMAP", d.queued = << >>, d.done = << >>,
         NEW q \in QueueAll(d)
  PROVE  /\ SameSetup(q.dev, d)
         /\ NoLoss => q.ret = "ok"
         /\ q.ret = "ok" => InKernel(q.dev) = 0 .. d.nbufs - 1
<1> DEFINE c == q.dev
<1>0. d \in LooseDevice /\ d.nbufs \in Nat
  BY FieldFacts DEF Sound
<1>1. PICK n \in 0 .. d.nbufs :
        /\ c = FirstQueued(d, n)
        /\ q.ret = IF n = d.nbufs THEN "ok" ELSE "error"
        /\ n = d.nbufs \/ "qbuf" \in Faults \/ ~CanQueue(d, n)
  BY <1>0, QueueAllResult
<1>2. ASSUME NoLoss PROVE q.ret = "ok"
  <2>1. \A i \in 0 .. d.nbufs - 1 : CanQueue(d, i)
    BY <1>0, EmptyFacts, OwnedFacts DEF CanQueue
  <2>2. n = d.nbufs
    BY <1>0, <1>1, <1>2, <2>1 DEF NoLoss
  <2> QED
    BY <1>1, <2>2
<1>3. n \in Nat
  BY <1>0
<1>4. PICK t \in Seq(Nat) : t = [k \in 1 .. n |-> k - 1]
  BY <1>3, AllFacts
<1>5. c = [d EXCEPT !.queued = t]
  BY <1>0, <1>1, <1>3, <1>4, FirstQueuedFacts
<1> HIDE DEF c
<1>6. SameSetup(c, d) /\ c.queued = t /\ c.done = << >>
  BY <1>0, <1>5 DEF LooseDevice, SameSetup
<1>7. ASSUME q.ret = "ok" PROVE InKernel(c) = 0 .. d.nbufs - 1
  <2>1. n = d.nbufs
    BY <1>1, <1>7
  <2> QED
    BY <1>0, <1>4, <1>6, <2>1, AllOwned, OwnedFacts
<1> QED
  BY <1>2, <1>6, <1>7 DEF c

\* REQBUFS grants what is asked for when it does not grant fewer.
LEMMA AllocFull ==
  ASSUME NEW d, Sound(d), d.nbufs = 0, NEW n \in Nat \ {0}, NEW m \in {"MMAP", "DMABUF"},
         NEW a \in AllocBuffers(d, m, n)
  PROVE  /\ a.dev.streaming = d.streaming
         /\ a.ret = "ok" /\ "fewer" \notin Faults => a.dev.nbufs = n
<1>0. d \in LooseDevice
  BY DEF Sound
<1>1. ASSUME NEW g \in Nat, a = Ok([d EXCEPT !.nbufs = g, !.kbufs = g, !.memtype = m])
      PROVE  a.dev.streaming = d.streaming /\ a.dev.nbufs = g
  <2> DEFINE c == a.dev
  <2>1. c = [d EXCEPT !.nbufs = g, !.kbufs = g, !.memtype = m]
    BY <1>1 DEF Ok
  <2> HIDE DEF c
  <2>2. c.streaming = d.streaming /\ c.nbufs = g
    BY <1>0, <2>1 DEF LooseDevice
  <2> QED
    BY <2>2 DEF c
<1>2. ASSUME NEW k \in Nat, a = Failed(FreeBuffers([d EXCEPT !.kbufs = k]))
      PROVE  a.ret = "error" /\ a.dev.streaming = d.streaming
  <2> DEFINE c == [d EXCEPT !.kbufs = k]
  <2>1. c.nbufs = d.nbufs /\ c.streaming = d.streaming
    BY <1>0 DEF LooseDevice
  <2> HIDE DEF c
  <2>2. a = Failed(c)
    BY <1>2, <2>1 DEF FreeBuffers, c
  <2> QED
    BY <2>1, <2>2 DEF Failed
<1>3. ASSUME a = Failed(FreeBuffers(d))
      PROVE  a.ret = "error" /\ a.dev.streaming = d.streaming
  BY <1>3 DEF FreeBuffers, Failed
<1>4. \/ \E g \in Nat : /\ a = Ok([d EXCEPT !.nbufs = g, !.kbufs = g, !.memtype = m])
                        /\ "fewer" \notin Faults => g = n
      \/ a = Failed(FreeBuffers(d))
      \/ \E k \in Nat : a = Failed(FreeBuffers([d EXCEPT !.kbufs = k]))
  <2>1. n - 1 \in {n - 1} \ {0} => n - 1 \in Nat
    OBVIOUS
  <2>2. \A g : g \in {n} \cup If("fewer", {n - 1} \ {0}) => g \in Nat /\ ("fewer" \notin Faults => g = n)
    BY <2>1 DEF If
  <2>3. NBufs + 1 \in Nat
    BY NBufsAssumption
  <2> QED
    BY <2>2, <2>3 DEF AllocBuffers, If
<1> QED
  BY <1>1, <1>2, <1>3, <1>4

\* Every buffer is imported when dup() does not fail.
LEMMA ImportFull ==
  ASSUME NEW d \in LooseDevice, NEW n, "dup" \notin Faults, NEW x \in ImportBuffers(d, n), x.ret = "ok"
  PROVE  x.dev.dmabuf = 0 .. d.nbufs - 1 /\ x.dev.nbufs = d.nbufs
<1>0. d.nbufs \in Nat
  BY FieldFacts
<1>1. x.dev = [d EXCEPT !.dmabuf = 0 .. d.nbufs - 1]
  BY DEF ImportBuffers, If, Ok, Failed
<1> DEFINE s == 0 .. d.nbufs - 1
<1>2. s \in SUBSET Nat
  BY <1>0, Prefixes
<1>3. x.dev = [d EXCEPT !.dmabuf = s]
  BY <1>1
<1> HIDE DEF s
<1>4. x.dev.dmabuf = s /\ x.dev.nbufs = d.nbufs
  BY <1>2, <1>3 DEF LooseDevice
<1> QED
  BY <1>4 DEF s

LEMMA MmapStreams ==
  ASSUME NEW d \in LooseDevice, NEW x \in MmapBuffers(d)
  PROVE  x.dev.streaming = d.streaming
<1>0. d.nbufs \in Nat
  BY FieldFacts
<1>1. \/ x.dev = d
      \/ \E k \in Nat : x.dev = [d EXCEPT !.mem = 0 .. k - 1]
  BY <1>0 DEF MmapBuffers, If, Ok, Failed
<1>2. ASSUME NEW k \in Nat, x.dev = [d EXCEPT !.mem = 0 .. k - 1]
      PROVE  x.dev.streaming = d.streaming
  BY <1>2 DEF LooseDevice
<1> QED
  BY <1>1, <1>2

LEMMA StopEnds ==
  ASSUME NEW d \in LooseDevice
  PROVE  /\ ~FreeBuffers(StreamOff(d)).streaming
         /\ FreeBuffers(StreamOff(d)).queued = << >> /\ FreeBuffers(StreamOff(d)).done = << >>
<1> DEFINE c == StreamOff(d)
<1>1. c = [d EXCEPT !.streaming = FALSE, !.queued = << >>, !.done = << >>]
  BY DEF StreamOff
<1> HIDE DEF c
<1>2. c \in LooseDevice /\ ~c.streaming /\ c.queued = << >> /\ c.done = << >>
  BY <1>1, EmptyFacts DEF LooseDevice
<1>3. CASE c.nbufs = 0
  BY <1>2, <1>3 DEF FreeBuffers, c
<1>4. CASE c.nbufs # 0
  <2>1. Empty(FreeBuffers(c))
    BY <1>2, <1>4, FreedEmpty
  <2> QED
    BY <2>1 DEF Empty, c
<1> QED
  BY <1>3, <1>4

-----------------------------------------------------------------------------

\* What keeps the buffers going round between two devices that stream: the
\* same buffers at both ends, all of them imported.
Circulates(s, k) ==
  /\ InKernel(s) \cup InKernel(k) = 0 .. k.nbufs - 1
  /\ type = "DMABUF" => s.nbufs = k.nbufs /\ k.dmabuf = 0 .. k.nbufs - 1 /\ s.memtype = "MMAP"
  /\ type = "STATIC" => k.memtype = "MMAP"

\* A still image never has a buffer of its own.
NoQueues == type = "STATIC" => src.queued = << >> /\ src.done = << >>

Around ==
  /\ sink.nbufs = 0 => ~sink.streaming
  /\ NoQueues
  /\ src.streaming /\ sink.streaming => Circulates(src, sink)

\* A callback or a driver that only passes buffers on.
LEMMA TrafficAround ==
  ASSUME Around, type' = type, SameSetup(src', src), SameSetup(sink', sink), NoQueues',
         src.streaming /\ sink.streaming =>
           InKernel(src') \cup InKernel(sink') = InKernel(src) \cup InKernel(sink)
  PROVE  Around'
<1>1. src'.nbufs = src.nbufs /\ src'.memtype = src.memtype /\ src'.streaming = src.streaming
  BY DEF SameSetup
<1>2. /\ sink'.nbufs = sink.nbufs /\ sink'.memtype = sink.memtype
      /\ sink'.dmabuf = sink.dmabuf /\ sink'.streaming = sink.streaming
  BY DEF SameSetup
<1>3. ASSUME src.streaming, sink.streaming PROVE Circulates(src, sink)'
  BY <1>1, <1>2, <1>3 DEF Around, Circulates
<1> QED
  BY <1>1, <1>2, <1>3 DEF Around

LEMMA SourceProcessAround ==
  ASSUME NoLoss, IndInv, Around, SourceProcess
  PROVE  Around'
<1>0. Sound(src) /\ Sound(sink) /\ type' = type
  BY DEF IndInv, SourceProcess
<1>1. PICK r \in DequeueBuffer(src) :
        \/ r.ret = "error" /\ UNCHANGED <<src, sink>>
        \/ /\ r.ret = "ok"
           /\ src' = r.dev
           /\ \E q \in QueueBuffer(sink, r.index) : sink' = q.dev
  BY DEF SourceProcess
<1>2. CASE UNCHANGED <<src, sink>>
  BY <1>0, <1>2, TrafficAround DEF SameSetup, Around, NoQueues
<1>3. ASSUME r.ret = "ok", src' = r.dev, NEW q \in QueueBuffer(sink, r.index), sink' = q.dev
      PROVE  Around'
  <2>1. /\ SameSetup(src', src) /\ InKernel(src') = InKernel(src) \ {r.index}
        /\ r.index \in InKernel(src) /\ r.index \in Nat
    BY <1>0, <1>3, DequeueKeeps, DequeueFacts
  <2>2. SameSetup(sink', sink)
    BY <1>0, <1>3, <2>1, QueueSetup
  <2>3. type # "STATIC"
    <3>1. InKernel(src) # {}
      BY <2>1
    <3> QED
      BY <3>1, EmptyFacts, OwnedFacts DEF Around, NoQueues
  <2>4. ASSUME src.streaming, sink.streaming
        PROVE  InKernel(src') \cup InKernel(sink') = InKernel(src) \cup InKernel(sink)
    <3>1. type = "DMABUF" /\ Circulates(src, sink)
      BY <2>3, <2>4 DEF Around, IndInv
    <3>2. r.index \in 0 .. sink.nbufs - 1 /\ r.index \in sink.dmabuf
      BY <2>1, <3>1 DEF Circulates
    <3>3. r.index \notin InKernel(sink)
      BY <2>1, <3>1 DEF IndInv, OneOwner
    <3>4. InKernel(sink') = InKernel(sink) \cup {r.index}
      BY <1>0, <1>3, <3>2, <3>3, QueueKeeps
    <3> QED
      BY <2>1, <3>4
  <2>5. NoQueues'
    BY <1>0, <2>3 DEF NoQueues
  <2> QED
    BY <1>0, <2>1, <2>2, <2>4, <2>5, TrafficAround
<1> QED
  BY <1>1, <1>2, <1>3

LEMMA SinkProcessAround ==
  ASSUME NoLoss, IndInv, Around, SinkProcess
  PROVE  Around'
<1>0. Sound(src) /\ Sound(sink) /\ type' = type
  BY DEF IndInv, SinkProcess
<1>1. PICK r \in DequeueBuffer(sink) :
        \/ r.ret = "error" /\ UNCHANGED <<src, sink>>
        \/ /\ r.ret = "ok"
           /\ IF type = "DMABUF"
              THEN sink' = r.dev /\ \E q \in QueueBuffer(src, r.index) : src' = q.dev
              ELSE (\E q \in QueueBuffer(r.dev, r.index) : sink' = q.dev) /\ UNCHANGED src
  BY DEF SinkProcess
<1>2. CASE UNCHANGED <<src, sink>>
  BY <1>0, <1>2, TrafficAround DEF SameSetup, Around, NoQueues
<1>3. ASSUME r.ret = "ok"
      PROVE  /\ SameSetup(r.dev, sink) /\ InKernel(r.dev) = InKernel(sink) \ {r.index}
             /\ r.index \in InKernel(sink) /\ r.index \in Nat /\ Sound(r.dev)
  BY <1>0, <1>3, DequeueKeeps, DequeueFacts
<1>4. CASE r.ret = "ok" /\ type = "DMABUF"
  <2>0. PICK q \in QueueBuffer(src, r.index) : sink' = r.dev /\ src' = q.dev
    BY <1>1, <1>4
  <2>1. /\ SameSetup(sink', sink) /\ InKernel(sink') = InKernel(sink) \ {r.index}
        /\ r.index \in InKernel(sink) /\ r.index \in Nat
    BY <1>3, <1>4, <2>0
  <2>2. SameSetup(src', src)
    BY <1>0, <2>0, <2>1, QueueSetup
  <2>3. ASSUME src.streaming, sink.streaming
        PROVE  InKernel(src') \cup InKernel(sink') = InKernel(src) \cup InKernel(sink)
    <3>1. Circulates(src, sink)
      BY <2>3 DEF Around
    <3>2. r.index \in 0 .. src.nbufs - 1 /\ src.memtype # "DMABUF"
      BY <1>4, <2>1, <3>1 DEF Circulates
    <3>3. r.index \notin InKernel(src)
      BY <1>4, <2>1 DEF IndInv, OneOwner
    <3>4. InKernel(src') = InKernel(src) \cup {r.index}
      BY <1>0, <2>0, <3>2, <3>3, QueueKeeps
    <3> QED
      BY <2>1, <3>4
  <2>4. NoQueues'
    BY <1>0, <1>4 DEF NoQueues
  <2> QED
    BY <1>0, <2>1, <2>2, <2>3, <2>4, TrafficAround
<1>5. CASE r.ret = "ok" /\ type # "DMABUF"
  <2>0. PICK q \in QueueBuffer(r.dev, r.index) : sink' = q.dev /\ src' = src
    BY <1>1, <1>5
  <2>1. SameSetup(sink', sink)
    <3>1. SameSetup(sink', r.dev)
      BY <1>3, <1>5, <2>0, QueueSetup
    <3> QED
      BY <1>3, <1>5, <3>1 DEF SameSetup
  <2>2. ASSUME src.streaming, sink.streaming
        PROVE  InKernel(src') \cup InKernel(sink') = InKernel(src) \cup InKernel(sink)
    <3>1. Circulates(src, sink) /\ type = "STATIC"
      BY <1>5, <2>2 DEF Around, IndInv
    <3>2. r.index \in 0 .. r.dev.nbufs - 1 /\ r.dev.memtype # "DMABUF" /\ r.index \notin InKernel(r.dev)
      BY <1>3, <1>5, <3>1 DEF Circulates, SameSetup
    <3>3. InKernel(sink') = InKernel(r.dev) \cup {r.index}
      BY <1>3, <1>5, <2>0, <3>2, QueueKeeps
    <3> QED
      BY <1>3, <1>5, <2>0, <3>3
  <2>3. SameSetup(src', src) /\ NoQueues'
    BY <1>0, <2>0 DEF SameSetup, Around, NoQueues
  <2> QED
    BY <1>0, <2>1, <2>2, <2>3, TrafficAround
<1> QED
  BY <1>1, <1>2, <1>4, <1>5

LEMMA EnvironmentAround ==
  ASSUME IndInv, Around, Environment
  PROVE  Around'
<1>0. Sound(src) /\ Sound(sink) /\ type' = type
  BY DEF IndInv, Environment, HostStreamOn, HostStreamOff, HostReset, SourceComplete, SinkComplete
<1>1. CASE UNCHANGED <<src, sink>>
  BY <1>0, <1>1, TrafficAround DEF SameSetup, Around, NoQueues
<1>2. CASE HostReset
  <2>1. src' = src /\ sink' = [sink EXCEPT !.queued = << >>, !.done = @ \o sink.queued]
    BY <1>2 DEF HostReset
  <2>2. SameSetup(sink', sink) /\ InKernel(sink') = InKernel(sink)
    BY <1>0, <2>1, ResetKeeps
  <2> QED
    BY <1>0, <2>1, <2>2, TrafficAround DEF SameSetup, Around, NoQueues
<1>3. CASE SourceComplete
  <2>1. CanComplete(src) /\ src' = Complete(src) /\ sink' = sink
    BY <1>3 DEF SourceComplete
  <2>2. SameSetup(src', src) /\ InKernel(src') = InKernel(src)
    BY <1>0, <2>1, CompleteKeeps
  <2>3. NoQueues'
    BY <1>0, <2>1 DEF CanComplete, Around, NoQueues
  <2> QED
    BY <1>0, <2>1, <2>2, <2>3, TrafficAround DEF SameSetup
<1>4. CASE SinkComplete
  <2>1. CanComplete(sink) /\ sink' = Complete(sink) /\ src' = src
    BY <1>4 DEF SinkComplete
  <2>2. SameSetup(sink', sink) /\ InKernel(sink') = InKernel(sink)
    BY <1>0, <2>1, CompleteKeeps
  <2> QED
    BY <1>0, <2>1, <2>2, TrafficAround DEF SameSetup, Around, NoQueues
<1> QED
  BY <1>1, <1>2, <1>3, <1>4 DEF Environment, HostStreamOn, HostStreamOff

\* Both stream_on calls of a camera's start.
LEMMA StartBothAround ==
  ASSUME NoLoss, type = "DMABUF", type' = type,
         NEW s, Sound(s), s.nbufs # 0, s.memtype = "MMAP", s.queued = << >>, s.done = << >>,
         NEW k, Sound(k), k.nbufs = s.nbufs, k.dmabuf = 0 .. k.nbufs - 1, InKernel(k) = {},
         StartBoth(s, k)
  PROVE  Around'
<1>1. PICK started \in V4l2SourceStreamOn(s), on \in StreamOn(k) : src' = started.dev /\ sink' = on.dev
  BY DEF StartBoth
<1>a. PICK q \in QueueAll(s) : src' = q.dev \/ \E r \in StreamOn(q.dev) : src' = r.dev
  BY <1>1 DEF V4l2SourceStreamOn
<1>2. Sound(q.dev) /\ SameSetup(q.dev, s) /\ InKernel(q.dev) = 0 .. s.nbufs - 1
  BY QueueAllKeeps, QueueAllFacts
<1>3. src'.nbufs = s.nbufs /\ src'.memtype = "MMAP" /\ InKernel(src') = 0 .. s.nbufs - 1
  BY <1>a, <1>2, StreamOnKeeps DEF SameSetup
<1>4. sink'.nbufs = k.nbufs /\ sink'.dmabuf = 0 .. k.nbufs - 1 /\ InKernel(sink') = {}
  BY <1>1, StreamOnKeeps
<1>5. Circulates(src, sink)'
  BY <1>3, <1>4 DEF Circulates
<1>6. sink'.nbufs # 0 /\ NoQueues'
  BY <1>4 DEF NoQueues
<1> QED
  BY <1>5, <1>6 DEF Around

LEMMA StartAllocAround ==
  ASSUME NoLoss, IndInv, Whole, Around, type = "DMABUF", type' = type, StartAlloc
  PROVE  Around'
<1>0. Sound(src) /\ Sound(sink) /\ "DMABUF" \in {"MMAP", "DMABUF"}
  BY DEF IndInv
<1>1. CASE UNCHANGED <<src, sink>>
  BY <1>1, TrafficAround DEF SameSetup, Around, NoQueues
<1>2. CASE Empty(src') /\ Empty(sink')
  BY <1>2 DEF Empty, Around, NoQueues
<1>3. CASE watchers # Idle
  <2>1. src.nbufs # 0
    BY <1>3 DEF Whole
  <2>2. \A a \in AllocBuffers(src, "MMAP", NBufs) : a.ret = "error" /\ a.dev = src
    BY <1>0, <2>1, NBufsAssumption, AllocFacts
  <2>3. "error" # "ok"
    OBVIOUS
  <2>4. UNCHANGED <<src, sink>>
    BY <2>2, <2>3 DEF StartAlloc
  <2> QED
    BY <1>1, <2>4
<1>4. CASE watchers = Idle /\ watchers' # watchers
  <2>1. PICK a, x, b, i :
          /\ a \in AllocBuffers(src, "MMAP", NBufs) /\ a.ret = "ok"
          /\ x \in ExportBuffers(a.dev) /\ x.ret = "ok"
          /\ b \in AllocBuffers(sink, "DMABUF", x.dev.nbufs) /\ b.ret = "ok"
          /\ i \in ImportBuffers(b.dev, x.dev.nbufs) /\ i.ret = "ok"
          /\ StartBoth(x.dev, i.dev)
    BY <1>4 DEF StartAlloc
  <2>2. src.nbufs = 0 /\ sink.nbufs = 0 /\ InKernel(sink) = {}
    BY <1>4, EmptyFacts, OwnedFacts DEF Whole, Empty
  <2>3. /\ Sound(a.dev) /\ a.dev.nbufs \in Nat \ {0} /\ a.dev.memtype = "MMAP"
        /\ a.dev.queued = << >> /\ a.dev.done = << >>
    BY <1>0, <2>1, NBufsAssumption, AllocFacts
  <2>4. /\ Sound(x.dev) /\ x.dev.nbufs \in Nat \ {0} /\ x.dev.memtype = "MMAP"
        /\ x.dev.queued = << >> /\ x.dev.done = << >>
    BY <2>1, <2>3, ExportFacts DEF SameQueues
  <2>5. Sound(b.dev) /\ InKernel(b.dev) = {}
    BY <1>0, <2>1, <2>2, <2>4, AllocFacts
  <2>6. b.dev.nbufs = x.dev.nbufs
    BY <1>0, <2>1, <2>2, <2>4, AllocFull DEF NoLoss
  <2>7. Sound(i.dev) /\ InKernel(i.dev) = {}
    BY <2>1, <2>5, ImportFacts, OwnedFacts DEF SameQueues
  <2>8. i.dev.nbufs = x.dev.nbufs /\ i.dev.dmabuf = 0 .. i.dev.nbufs - 1
    BY <2>1, <2>5, <2>6, ImportFull DEF Sound, NoLoss
  <2> QED
    BY <2>1, <2>4, <2>7, <2>8, StartBothAround
<1>5. CASE watchers = Idle /\ watchers' = watchers
  BY <1>2, <1>5, StartAllocWhole, ListDistinct
<1> QED
  BY <1>3, <1>4, <1>5

LEMMA StartNoAllocAround ==
  ASSUME IndInv, Around, type = "STATIC", type' = type, StartNoAlloc
  PROVE  Around'
<1>0. Sound(src) /\ Sound(sink) /\ src \in LooseDevice /\ "MMAP" \in {"MMAP", "DMABUF"}
  BY DEF IndInv, Sound
<1>1. PICK b \in AllocBuffers(sink, "MMAP", NBufs) :
         \/ /\ b.ret = "error"
            /\ sink' = b.dev
            /\ UNCHANGED <<src, watchers>>
         \/ /\ b.ret = "ok"
            /\ \E m \in MmapBuffers(b.dev) :
                 \/ /\ m.ret = "error"
                    /\ sink' = m.dev
                    /\ UNCHANGED <<src, watchers>>
                 \/ /\ m.ret = "ok"
                    /\ \E q \in QueueAll(m.dev) :
                         \/ /\ q.ret = "error"
                            /\ sink' = q.dev
                            /\ UNCHANGED <<src, watchers>>
                         \/ /\ q.ret = "ok"
                            /\ src' = StaticSourceStreamOn(src)
                            /\ \E on \in StreamOn(q.dev) : sink' = on.dev
  BY DEF StartNoAlloc
<1>2. CASE sink.nbufs # 0
  <2>1. b.ret = "error" /\ b.dev = sink
    BY <1>0, <1>2, NBufsAssumption, AllocFacts
  <2>2. UNCHANGED <<src, sink>>
    BY <1>1, <2>1
  <2> QED
    BY <2>2, TrafficAround DEF SameSetup, Around, NoQueues
<1>3. CASE sink.nbufs = 0
  <2>1. ~b.dev.streaming /\ Sound(b.dev)
    BY <1>0, <1>3, NBufsAssumption, AllocFull, AllocFacts DEF Around
  <2>2. ASSUME NEW d, ~d.streaming, sink' = d, src' = src
        PROVE  Around'
    BY <2>2 DEF Around, NoQueues
  <2>3. ASSUME NEW m \in MmapBuffers(b.dev)
        PROVE  ~m.dev.streaming /\ Sound(m.dev) /\ SameQueues(m.dev, b.dev) /\ m.dev.memtype = b.dev.memtype
    BY <2>1, <2>3, MmapStreams, MmapFacts DEF Sound
  <2>4. ASSUME b.ret = "ok", NEW m \in MmapBuffers(b.dev), NEW q \in QueueAll(m.dev)
        PROVE  /\ Sound(m.dev) /\ m.dev.nbufs # 0 /\ m.dev.memtype = "MMAP"
               /\ Sound(q.dev) /\ SameSetup(q.dev, m.dev) /\ ~q.dev.streaming
               /\ q.ret = "ok" => InKernel(q.dev) = 0 .. m.dev.nbufs - 1
    <3>1. /\ b.dev.nbufs \in Nat \ {0} /\ b.dev.memtype = "MMAP"
          /\ b.dev.queued = << >> /\ b.dev.done = << >>
      BY <1>0, <2>4, NBufsAssumption, AllocFacts
    <3>2. /\ Sound(m.dev) /\ m.dev.nbufs # 0 /\ m.dev.memtype = "MMAP"
          /\ m.dev.queued = << >> /\ m.dev.done = << >>
      BY <2>3, <2>4, <3>1 DEF SameQueues
    <3>3. /\ Sound(q.dev) /\ SameSetup(q.dev, m.dev)
          /\ q.ret = "ok" => InKernel(q.dev) = 0 .. m.dev.nbufs - 1
      BY <2>4, <3>2, QueueAllKeeps, QueueAllFacts
    <3> QED
      BY <2>3, <2>4, <3>2, <3>3 DEF SameSetup
  <2>5. ASSUME b.ret = "ok", NEW m \in MmapBuffers(b.dev), NEW q \in QueueAll(m.dev), q.ret = "ok",
               src' = StaticSourceStreamOn(src), NEW on \in StreamOn(q.dev), sink' = on.dev
        PROVE  Around'
    <3>1. /\ Sound(q.dev) /\ SameSetup(q.dev, m.dev) /\ InKernel(q.dev) = 0 .. m.dev.nbufs - 1
          /\ m.dev.nbufs # 0 /\ m.dev.memtype = "MMAP"
      BY <2>4, <2>5
    <3>2. /\ sink'.nbufs = m.dev.nbufs /\ sink'.memtype = "MMAP"
          /\ InKernel(sink') = 0 .. sink'.nbufs - 1
      BY <2>5, <3>1, StreamOnKeeps DEF SameSetup
    <3>3. src'.queued = src.queued /\ src'.done = src.done
      BY <1>0, <2>5, SetStreaming DEF StaticSourceStreamOn, SameQueues
    <3>4. NoQueues' /\ InKernel(src') = {}
      BY <3>3, EmptyFacts, OwnedFacts DEF Around, NoQueues
    <3>5. Circulates(src, sink)'
      BY <3>2, <3>4 DEF Circulates
    <3> QED
      BY <3>1, <3>2, <3>4, <3>5 DEF Around
  <2>6. ASSUME b.ret = "ok", NEW m \in MmapBuffers(b.dev), NEW q \in QueueAll(m.dev),
               sink' = q.dev, src' = src
        PROVE  Around'
    BY <2>2, <2>4, <2>6
  <2> QED
    BY <1>1, <2>1, <2>2, <2>3, <2>5, <2>6
<1> QED
  BY <1>2, <1>3

LEMMA AroundStep ==
  NoLoss /\ IndInv /\ Whole /\ Around /\ [Next]_vars => Around'
<1> SUFFICES ASSUME NoLoss, IndInv, Whole, Around, [Next]_vars PROVE Around'
  OBVIOUS
<1>0. type' = type
  BY DEF Next, vars, EventsLoop, Environment, Select, Skip, HandleStreamOn, HandleStreamOff,
     SourceProcess, SinkProcess, HostStreamOn, HostStreamOff, HostReset, SourceComplete, SinkComplete
<1>1. CASE UNCHANGED <<src, sink>>
  BY <1>0, <1>1, TrafficAround DEF SameSetup, Around, NoQueues
<1>2. CASE HandleStreamOn
  <2>1. IF type = "DMABUF" THEN StartAlloc ELSE StartNoAlloc
    BY <1>2 DEF HandleStreamOn
  <2>2. type \in {"DMABUF", "STATIC"}
    BY DEF IndInv
  <2> QED
    BY <1>0, <2>1, <2>2, StartAllocAround, StartNoAllocAround
<1>3. CASE HandleStreamOff
  <2>1. sink' = FreeBuffers(StreamOff(sink)) /\ src' = FreeBuffers(StreamOff(src))
    BY <1>3 DEF HandleStreamOff, Stop
  <2>2. ~sink'.streaming /\ src'.queued = << >> /\ src'.done = << >>
    BY <2>1, StopEnds DEF IndInv, Sound
  <2> QED
    BY <2>2 DEF Around, NoQueues
<1>4. [Next]_vars => \/ HandleStreamOn \/ HandleStreamOff \/ SourceProcess \/ SinkProcess \/ Environment
                     \/ UNCHANGED <<src, sink>>
  BY DEF Next, vars, EventsLoop, Select, Skip
<1> QED
  BY <1>1, <1>2, <1>3, <1>4, SourceProcessAround, SinkProcessAround, EnvironmentAround

\* No buffer drops out of circulation while both ends stream, for every number
\* of buffers, whatever starts fail, however often the host starts and stops and
\* with the cable pulled at any time.  It takes three failures not to happen, as
\* each loses a buffer while the stream goes on: a UVC device that grants fewer
\* buffers than the camera has, a dup() that fails while v4l2_import_buffers
\* reports success (v4l2.c:717-721), and a VIDIOC_QBUF that fails in one of the
\* two callbacks, which ignore it (stream.c:47 and 61).
THEOREM CirculationHolds ==
  ASSUME Faults \cap {"fewer", "dup", "qbuf"} = {}
  PROVE  Spec => []NothingStranded
<1>1. Init => Around
  <2>1. /\ NewDevice.nbufs = 0 /\ ~NewDevice.streaming
        /\ NewDevice.queued = << >> /\ NewDevice.done = << >>
    BY DEF NewDevice
  <2> QED
    BY <2>1 DEF Init, Around, NoQueues
<1>2. Around => NothingStranded
  BY DEF Around, Circulates, NothingStranded
<1>3. IndInv /\ Whole /\ Around /\ [Next]_vars => Around'
  BY AroundStep DEF NoLoss
<1>4. Spec => Init /\ [][Next]_vars
  BY PTL DEF Spec, Safety
<1> QED
  BY <1>1, <1>2, <1>3, <1>4, Inductive, WholeHolds, PTL

=============================================================================
