----------------------------- MODULE LetuxProofs -----------------------------
(***************************************************************************)
(* Proofs about uvc-gadget-for-letux: the stream (LetuxStream), for any    *)
(* number of buffers, any camera, any failures and any number of streams,  *)
(* and the control requests (LetuxControl), for every table of formats     *)
(* with sorted intervals, every image size and everything the host may ask *)
(* for.                                                                    *)
(***************************************************************************)
EXTENDS LetuxStream, LetuxControl, BufferQueues, FiniteSetTheorems, WellFoundedInduction, TLAPS

(* The stream *)

CamState == [bufs : Nat, queued : Seq(Nat), done : Seq(Nat), on : BOOLEAN]
UvcState == [bufs : Nat, queued : Seq(Nat), done : Seq(Nat), on : BOOLEAN,
             bad : SUBSET Nat, gone : BOOLEAN]
VdevState == [streaming : BOOLEAN, nbufs : Nat, out : Nat]
UdevState == [streaming : BOOLEAN, first : BOOLEAN, shutdown : BOOLEAN, out : Nat]

Types ==
  /\ mode \in {"camera", "pattern"}
  /\ cam \in CamState
  /\ uvc \in UvcState
  /\ vdev \in VdevState
  /\ udev \in UdevState

\* A driver's queues hold no buffer twice and, as Held is counted, finitely many.
Sound(q) ==
  /\ q.queued \in Seq(Nat) /\ q.done \in Seq(Nat)
  /\ Distinct(q.queued, q.done)
  /\ IsFiniteSet(Held(q))

\* Without a camera there is nothing to capture.
NoCamera == mode = "pattern" => Held(cam) = {} /\ ~vdev.streaming
CameraMemory == mode = "camera" /\ Running => mem

IndInv ==
  /\ Types
  /\ Sound(cam)
  /\ Sound(uvc)
  /\ OneOwner
  /\ CountersCover
  /\ NoCamera
  /\ CameraMemory
  /\ MemoryHeld

-----------------------------------------------------------------------------
(* Counting *)

LEMMA NatHasLeast ==
  ASSUME NEW S \in SUBSET Nat, S # {}
  PROVE  \E k \in S : \A j \in S : k <= j
<1> DEFINE R == OpToRel(<, Nat)
<1>1. IsWellFoundedOn(R, Nat)
  BY NatLessThanWellFounded
<1>2. \A i, j \in Nat : i < j => <<i, j>> \in R
  BY DEF OpToRel
<1> HIDE DEF R
<1>3. PICK k \in S : \A j \in S : ~ (<<j, k>> \in R)
  BY <1>1, WFMin
<1>4. ASSUME NEW j \in S PROVE k <= j
  <2>1. j \in Nat /\ k \in Nat /\ ~ (j < k)
    BY <1>2, <1>3
  <2> QED  BY <2>1
<1> QED  BY <1>4

LEMMA CountTake ==
  ASSUME NEW S, IsFiniteSet(S), NEW x \in S, NEW T \in SUBSET (S \ {x}), NEW n \in Nat,
         n >= Cardinality(S)
  PROVE  IsFiniteSet(T) /\ n - 1 \in Nat /\ n - 1 >= Cardinality(T)
<1>1. IsFiniteSet(S \ {x}) /\ Cardinality(S \ {x}) = Cardinality(S) - 1
  BY FS_RemoveElement
<1>2. IsFiniteSet(T) /\ Cardinality(T) <= Cardinality(S \ {x})
  BY <1>1, FS_Subset
<1>3. Cardinality(S) \in Nat /\ Cardinality(S \ {x}) \in Nat /\ Cardinality(T) \in Nat
  BY <1>1, <1>2, FS_CardinalityType
<1> QED  BY <1>1, <1>2, <1>3

LEMMA CountGive ==
  ASSUME NEW S, IsFiniteSet(S), NEW x, NEW T \in SUBSET (S \cup {x}), NEW n \in Nat,
         n >= Cardinality(S)
  PROVE  IsFiniteSet(T) /\ n + 1 >= Cardinality(T)
<1>1. IsFiniteSet(S \cup {x}) /\ Cardinality(S \cup {x}) \in {Cardinality(S), Cardinality(S) + 1}
  BY FS_AddElement
<1>2. IsFiniteSet(T) /\ Cardinality(T) <= Cardinality(S \cup {x})
  BY <1>1, FS_Subset
<1>3. Cardinality(S) \in Nat /\ Cardinality(T) \in Nat
  BY <1>2, FS_CardinalityType
<1> QED  BY <1>1, <1>2, <1>3

LEMMA CountLess ==
  ASSUME NEW S, IsFiniteSet(S), NEW T \in SUBSET S, NEW n \in Nat, n >= Cardinality(S)
  PROVE  IsFiniteSet(T) /\ n >= Cardinality(T)
<1>1. IsFiniteSet(T) /\ Cardinality(T) <= Cardinality(S)
  BY FS_Subset
<1>2. Cardinality(S) \in Nat /\ Cardinality(T) \in Nat
  BY <1>1, FS_CardinalityType
<1> QED  BY <1>1, <1>2

\* The first n buffers on top of S.
LEMMA CountAll ==
  ASSUME NEW S, IsFiniteSet(S), NEW m \in Nat, NEW T \in SUBSET (S \cup 0 .. m - 1), NEW n \in Nat,
         n >= Cardinality(S)
  PROVE  IsFiniteSet(T) /\ n + m >= Cardinality(T)
<1> DEFINE R == 0 .. m - 1
<1>1. IsFiniteSet(R) /\ Cardinality(R) = m
  <2>1. 0 \in Int /\ m - 1 \in Int
    OBVIOUS
  <2>2. IsFiniteSet(R) /\ Cardinality(R) = IF 0 > m - 1 THEN 0 ELSE (m - 1) - 0 + 1
    BY <2>1, FS_Interval
  <2> QED  BY <2>2
<1> HIDE DEF R
<1>2. /\ IsFiniteSet(S \cup R)
      /\ Cardinality(S \cup R) = Cardinality(S) + Cardinality(R) - Cardinality(S \cap R)
  BY <1>1, FS_Union
<1>3. IsFiniteSet(S \cap R)
  BY FS_Subset
<1>4. T \in SUBSET (S \cup R)
  BY DEF R
<1>5. IsFiniteSet(T) /\ Cardinality(T) <= Cardinality(S \cup R)
  BY <1>2, <1>4, FS_Subset
<1>6. Cardinality(S) \in Nat /\ Cardinality(T) \in Nat /\ Cardinality(S \cap R) \in Nat
      /\ Cardinality(S \cup R) \in Nat
  BY <1>2, <1>3, <1>5, FS_CardinalityType
<1> QED  BY <1>1, <1>2, <1>5, <1>6

-----------------------------------------------------------------------------
(* What becomes of a driver *)

LEMMA HeldOwned == \A q : Held(q) = Owned(q.queued, q.done)
BY DEF Held, Elements, Owned

LEMMA Emptied ==
  ASSUME NEW c, c.queued = << >>, c.done = << >>
  PROVE  Sound(c) /\ Held(c) = {} /\ Cardinality(Held(c)) = 0
BY EmptyFacts, HeldOwned, FS_EmptySet DEF Sound

LEMMA Unchanged ==
  ASSUME NEW q, Sound(q), NEW c, c.queued = q.queued, c.done = q.done
  PROVE  Sound(c) /\ Held(c) = Held(q)
<1>1. Held(c) = Held(q)
  BY HeldOwned
<1> QED  BY <1>1 DEF Sound

LEMMA Taken ==
  ASSUME NEW q, Sound(q), q.done # << >>, NEW c, c.queued = q.queued, c.done = Tail(q.done),
         NEW n \in Nat, n >= Cardinality(Held(q))
  PROVE  /\ Sound(c) /\ Held(c) \subseteq Held(q) \ {Head(q.done)}
         /\ Head(q.done) \in Held(q) /\ Head(q.done) \in Nat
         /\ n - 1 \in Nat /\ n - 1 >= Cardinality(Held(c))
<1>1. /\ Tail(q.done) \in Seq(Nat) /\ Head(q.done) \in Nat
      /\ Distinct(q.queued, Tail(q.done))
      /\ Head(q.done) \in Held(q)
      /\ Held(c) \subseteq Held(q) \ {Head(q.done)}
  BY TailFacts, HeldOwned DEF Sound
<1>2. IsFiniteSet(Held(c)) /\ n - 1 \in Nat /\ n - 1 >= Cardinality(Held(c))
  BY <1>1, CountTake DEF Sound
<1> QED  BY <1>1, <1>2 DEF Sound

LEMMA Given ==
  ASSUME NEW q, Sound(q), NEW i \in Nat, i \notin Held(q),
         NEW c, c.queued = Append(q.queued, i), c.done = q.done,
         NEW n \in Nat, n >= Cardinality(Held(q))
  PROVE  /\ Sound(c) /\ Held(c) \subseteq Held(q) \cup {i}
         /\ n + 1 >= Cardinality(Held(c))
<1>1. /\ Append(q.queued, i) \in Seq(Nat) /\ Distinct(Append(q.queued, i), q.done)
      /\ Held(c) \subseteq Held(q) \cup {i}
  BY AppendFacts, HeldOwned DEF Sound
<1>2. IsFiniteSet(Held(c)) /\ n + 1 >= Cardinality(Held(c))
  BY <1>1, CountGive DEF Sound
<1> QED  BY <1>1, <1>2 DEF Sound

\* The driver finishes with a buffer, or with all of them.
LEMMA Finished ==
  ASSUME NEW q, Sound(q), NEW n \in Nat, n >= Cardinality(Held(q)), NEW c,
         \/ q.queued # << >> /\ c.queued = Tail(q.queued) /\ c.done = Append(q.done, Head(q.queued))
         \/ c.queued = << >> /\ c.done = q.done \o q.queued
  PROVE  Sound(c) /\ Held(c) \subseteq Held(q) /\ n >= Cardinality(Held(c))
<1>1. /\ c.queued \in Seq(Nat) /\ c.done \in Seq(Nat) /\ Distinct(c.queued, c.done)
      /\ Held(c) \subseteq Held(q)
  <2>1. q.queued \in Seq(Nat) /\ q.done \in Seq(Nat) /\ Distinct(q.queued, q.done)
    BY DEF Sound
  <2>2. CASE q.queued # << >> /\ c.queued = Tail(q.queued) /\ c.done = Append(q.done, Head(q.queued))
    <3>1. /\ Tail(q.queued) \in Seq(Nat) /\ Append(q.done, Head(q.queued)) \in Seq(Nat)
          /\ Distinct(Tail(q.queued), Append(q.done, Head(q.queued)))
          /\ Owned(Tail(q.queued), Append(q.done, Head(q.queued))) \subseteq Owned(q.queued, q.done)
      BY <2>1, <2>2, MoveFacts
    <3> QED  BY <2>2, <3>1, HeldOwned
  <2>3. CASE c.queued = << >> /\ c.done = q.done \o q.queued
    <3>1. /\ q.done \o q.queued \in Seq(Nat) /\ Distinct(<< >>, q.done \o q.queued)
          /\ Owned(<< >>, q.done \o q.queued) \subseteq Owned(q.queued, q.done)
      BY <2>1, FlushFacts
    <3> QED  BY <2>3, <3>1, EmptyFacts, HeldOwned
  <2> QED  BY <2>2, <2>3
<1>2. IsFiniteSet(Held(c)) /\ n >= Cardinality(Held(c))
  BY <1>1, CountLess DEF Sound
<1> QED  BY <1>1, <1>2 DEF Sound

\* The first m buffers are queued, none of which the driver has.
LEMMA Filled ==
  ASSUME NEW q, Sound(q), NEW m \in Nat, \A i \in 0 .. m - 1 : i \notin Held(q),
         NEW c, c.queued = q.queued \o InOrder(m), c.done = q.done,
         NEW n \in Nat, n >= Cardinality(Held(q))
  PROVE  Sound(c) /\ Held(c) \subseteq Held(q) \cup 0 .. m - 1 /\ n + m >= Cardinality(Held(c))
<1> DEFINE r == InOrder(m)
<1>1. r \in Seq(Nat) /\ Distinct(r, << >>)
  BY AllFacts DEF InOrder
<1>2. Len(r) = m /\ \A k \in 1 .. m : r[k] = k - 1 /\ k - 1 \in 0 .. m - 1
  BY DEF InOrder
<1> HIDE DEF r
<1>3. \A k \in 1 .. Len(r) : r[k] \notin Owned(q.queued, q.done)
  BY <1>2, HeldOwned
<1>4. Owned(r, << >>) \subseteq 0 .. m - 1
  BY <1>2 DEF Owned
<1>5. /\ q.queued \o r \in Seq(Nat) /\ Distinct(q.queued \o r, q.done)
      /\ Owned(q.queued \o r, q.done) \subseteq Owned(q.queued, q.done) \cup Owned(r, << >>)
  BY <1>1, <1>3, ConcatFacts DEF Sound
<1>6. Held(c) \subseteq Held(q) \cup 0 .. m - 1
  BY <1>4, <1>5, HeldOwned DEF r
<1>7. IsFiniteSet(Held(c)) /\ n + m >= Cardinality(Held(c))
  BY <1>6, CountAll DEF Sound
<1> QED  BY <1>5, <1>6, <1>7 DEF Sound, r

-----------------------------------------------------------------------------
(* Assembling the invariant after a step *)

\* A step that leaves the memory alone and gives no driver a first buffer.
LEMMA Keep ==
  ASSUME IndInv, mode' = mode, mem' = mem, Running' => Running,
         cam' \in CamState, uvc' \in UvcState, vdev' \in VdevState, udev' \in UdevState,
         Sound(cam'), Sound(uvc'), OneOwner',
         udev'.out >= Cardinality(Held(uvc')), vdev'.out >= Cardinality(Held(cam')),
         mode = "pattern" => Held(cam') = {} /\ ~vdev'.streaming,
         Held(cam') \cup Held(uvc') # {} => Held(cam) \cup Held(uvc) # {}
  PROVE  IndInv'
<1>1. Types' /\ Sound(cam)' /\ Sound(uvc)'
  BY DEF IndInv, Types, Sound, Held, Elements
<1>2. CountersCover' /\ NoCamera'
  BY DEF CountersCover, NoCamera, Held, Elements
<1>3. CameraMemory'
  BY DEF IndInv, CameraMemory
<1>4. MemoryHeld'
  BY DEF IndInv, MemoryHeld, Held, Elements
<1> QED  BY <1>1, <1>2, <1>3, <1>4 DEF IndInv

\* What IndInv says, for use in the steps.
LEMMA Known ==
  ASSUME IndInv
  PROVE  /\ mode \in {"camera", "pattern"}
         /\ cam \in CamState /\ uvc \in UvcState /\ vdev \in VdevState /\ udev \in UdevState
         /\ Sound(cam) /\ Sound(uvc)
         /\ udev.out \in Nat /\ udev.out >= Cardinality(Held(uvc))
         /\ vdev.out \in Nat /\ vdev.out >= Cardinality(Held(cam)) /\ vdev.nbufs \in Nat
         /\ mode = "camera" => Held(cam) \cap Held(uvc) = {}
         /\ mode = "pattern" => Held(cam) = {} /\ ~vdev.streaming
BY DEF IndInv, Types, CountersCover, OneOwner, NoCamera, UdevState, VdevState

LEMMA Owner ==
  ASSUME mode' = "camera" => Held(cam') \cap Held(uvc') = {}
  PROVE  OneOwner'
BY DEF OneOwner, Held, Elements

\* A step of the loop or of the host that touches none of this.
LEMMA Aside ==
  ASSUME IndInv, UNCHANGED <<mode, vdev, udev, mem, cam, uvc>>, Running' => Running
  PROVE  IndInv'
<1>1. OneOwner'
  BY Known, Owner
<1> QED  BY <1>1, Known, Keep

-----------------------------------------------------------------------------
(* The kernel, the camera and the host *)

LEMMA CameraFillsInv == IndInv /\ CameraFills => IndInv'
<1> SUFFICES ASSUME IndInv, CameraFills PROVE IndInv'  OBVIOUS
<1>0. UNCHANGED <<mode, mem, vdev, udev, uvc>> /\ (Running' => Running)
  BY DEF CameraFills, prog, loop, Running
<1>1. cam.queued # << >>
  BY DEF CameraFills, CamCanFill
<1>2. cam'.queued = Tail(cam.queued) /\ cam'.done = Append(cam.done, Head(cam.queued))
  BY Known DEF CameraFills, CamState
<1>3. Sound(cam') /\ Held(cam') \subseteq Held(cam) /\ vdev.out >= Cardinality(Held(cam'))
  BY <1>1, <1>2, Known, Finished
<1>4. cam' \in CamState
  <2>1. cam' = [cam EXCEPT !.queued = Tail(@), !.done = Append(@, Head(cam.queued))]
    BY DEF CameraFills
  <2> QED  BY <2>1, <1>2, <1>3, Known DEF CamState, Sound
<1>5. OneOwner'
  BY <1>0, <1>3, Known, Owner
<1> QED  BY <1>0, <1>3, <1>4, <1>5, Known, Keep

\* The queue of the UVC function after a read, or with all transfers ended.
LEMMA UvcFinishes ==
  ASSUME IndInv, UNCHANGED <<mode, mem, vdev, udev, cam>>, Running' => Running, uvc' \in UvcState,
         \/ uvc.queued # << >> /\ uvc'.queued = Tail(uvc.queued)
            /\ uvc'.done = Append(uvc.done, Head(uvc.queued))
         \/ uvc'.queued = << >> /\ uvc'.done = uvc.done \o uvc.queued
  PROVE  IndInv'
<1>1. Sound(uvc') /\ Held(uvc') \subseteq Held(uvc) /\ udev.out >= Cardinality(Held(uvc'))
  BY Known, Finished
<1>2. OneOwner'
  BY <1>1, Known, Owner
<1> QED  BY <1>1, <1>2, Known, Keep

LEMMA HostReadsInv == IndInv /\ HostReads => IndInv'
<1> SUFFICES ASSUME IndInv, HostReads PROVE IndInv'  OBVIOUS
<1>0. UNCHANGED <<mode, mem, vdev, udev, cam>> /\ (Running' => Running)
  BY DEF HostReads, prog, loop, Running
<1>1. uvc.queued # << >>
  BY DEF HostReads, HostCanRead
<1>2. uvc' = [uvc EXCEPT !.queued = Tail(@), !.done = Append(@, Head(uvc.queued))]
  BY DEF HostReads
<1>3. uvc'.queued = Tail(uvc.queued) /\ uvc'.done = Append(uvc.done, Head(uvc.queued))
  BY <1>2, Known DEF UvcState
<1>4. uvc'.queued \in Seq(Nat) /\ uvc'.done \in Seq(Nat)
  BY <1>1, <1>3, Known, Finished DEF Sound
<1>5. uvc' \in UvcState
  BY <1>2, <1>3, <1>4, Known DEF UvcState
<1> QED  BY <1>0, <1>1, <1>3, <1>5, UvcFinishes

LEMMA CancelledFacts ==
  ASSUME IndInv, NEW gone \in BOOLEAN, NEW c, c \in {Cancelled, [Cancelled EXCEPT !.gone = gone]}
  PROVE  c \in UvcState /\ c.queued = << >> /\ c.done = uvc.done \o uvc.queued
<1>1. uvc.queued \in Seq(Nat) /\ uvc.done \o uvc.queued \in Seq(Nat) /\ << >> \in Seq(Nat)
  BY Known DEF Sound
<1>2. Elements(uvc.queued) \subseteq Nat
  BY <1>1 DEF Elements
<1> QED  BY <1>1, <1>2, Known DEF Cancelled, UvcState

LEMMA CancelInv == IndInv /\ (HostStreamOff \/ HostReset \/ TransferFails) => IndInv'
<1> SUFFICES ASSUME IndInv, HostStreamOff \/ HostReset \/ TransferFails PROVE IndInv'  OBVIOUS
<1>0. UNCHANGED <<mode, mem, vdev, udev, cam>> /\ (Running' => Running)
  BY DEF HostStreamOff, HostReset, TransferFails, prog, loop, Running
<1>1. \E gone \in BOOLEAN : uvc' \in {Cancelled, [Cancelled EXCEPT !.gone = gone]}
  BY DEF HostStreamOff, HostReset, TransferFails, Disconnect
<1>2. uvc' \in UvcState /\ uvc'.queued = << >> /\ uvc'.done = uvc.done \o uvc.queued
  BY <1>1, CancelledFacts
<1> QED  BY <1>0, <1>2, UvcFinishes

LEMMA EnvironmentInv == IndInv /\ Environment => IndInv'
<1>1. IndInv /\ HostStreamOn => IndInv'
  BY Aside DEF HostStreamOn, prog, loop, Running
<1> QED  BY <1>1, CameraFillsInv, HostReadsInv, CancelInv DEF Environment

-----------------------------------------------------------------------------
(* Starting and stopping *)

LEMMA IdleFacts ==
  ASSUME NEW q, NEW n \in Nat
  PROVE  /\ q \in CamState => Idle(q) \in CamState /\ [Idle(q) EXCEPT !.bufs = n] \in CamState
         /\ q \in UvcState => /\ [Idle(q) EXCEPT !.bufs = n, !.bad = {}] \in UvcState
                              /\ [[Idle(q) EXCEPT !.bufs = n, !.bad = {}] EXCEPT !.gone = FALSE] \in UvcState
BY EmptyFacts DEF Idle, CamState, UvcState

LEMMA IdleEmpty ==
  /\ cam \in CamState => Idle(cam).queued = << >> /\ Idle(cam).done = << >>
  /\ cam \in CamState => \A n : [Idle(cam) EXCEPT !.bufs = n].queued = << >>
                                /\ [Idle(cam) EXCEPT !.bufs = n].done = << >>
  /\ uvc \in UvcState => \A n : Requested(n).queued = << >> /\ Requested(n).done = << >>
  /\ uvc \in UvcState => [Requested(0) EXCEPT !.gone = FALSE].queued = << >>
                        /\ [Requested(0) EXCEPT !.gone = FALSE].done = << >>
BY DEF Idle, Requested, CamState, UvcState

LEMMA RequestedType ==
  ASSUME uvc \in UvcState, NEW n \in Nat
  PROVE  Requested(n) \in UvcState /\ [Requested(n) EXCEPT !.gone = FALSE] \in UvcState
BY EmptyFacts DEF Requested, Idle, UvcState

\* When the loop has ended only the drivers' queues matter.
LEMMA Ended ==
  ASSUME IndInv, ~Running', mode' = mode,
         cam' \in CamState, uvc' \in UvcState, vdev' \in VdevState, udev' \in UdevState,
         \/ cam' = cam /\ vdev' = vdev
         \/ cam'.queued = << >> /\ cam'.done = << >> /\ vdev'.out = vdev.out
            /\ (vdev'.streaming => vdev.streaming),
         uvc' = uvc \/ (uvc'.queued = << >> /\ uvc'.done = << >>),
         udev'.out = udev.out
  PROVE  IndInv'
<1>1. Sound(cam') /\ Held(cam') \subseteq Held(cam) /\ vdev'.out >= Cardinality(Held(cam'))
  BY Known, Emptied
<1>2. Sound(uvc') /\ Held(uvc') \subseteq Held(uvc) /\ udev'.out >= Cardinality(Held(uvc'))
  BY Known, Emptied
<1>3. Types' /\ Sound(cam)' /\ Sound(uvc)'
  BY <1>1, <1>2, Known DEF Types, Sound, Held, Elements
<1>4. OneOwner'
  BY <1>1, <1>2, Known, Owner
<1>5. CountersCover' /\ NoCamera'
  BY <1>1, <1>2, Known DEF CountersCover, NoCamera, Held, Elements
<1>6. CameraMemory' /\ MemoryHeld'
  BY DEF CameraMemory, MemoryHeld
<1> QED  BY <1>3, <1>4, <1>5, <1>6 DEF IndInv

LEMMA StopInv == IndInv /\ (StopCamera \/ StopUvc) => IndInv'
<1> SUFFICES ASSUME IndInv, StopCamera \/ StopUvc PROVE IndInv'  OBVIOUS
<1>0. ~Running' /\ mode' = mode
  BY DEF StopCamera, StopUvc, Running, Files
<1>1. CASE StopCamera
  <2>1. udev' = udev /\ uvc' = uvc
    BY <1>1 DEF StopCamera
  <2>2. CASE vdev.streaming
    <3>1. cam' = [Idle(cam) EXCEPT !.bufs = 0] /\ vdev' = [vdev EXCEPT !.streaming = FALSE]
      BY <1>1, <2>2 DEF StopCamera
    <3>2. vdev' \in VdevState /\ vdev'.out = vdev.out /\ ~vdev'.streaming
      BY <3>1, Known DEF VdevState
    <3> QED  BY <1>0, <2>1, <3>1, <3>2, Known, IdleFacts, IdleEmpty, Ended
  <2>3. CASE ~vdev.streaming
    <3>1. cam' = cam /\ vdev' = vdev
      BY <1>1, <2>3 DEF StopCamera
    <3> QED  BY <1>0, <2>1, <3>1, Known, Ended
  <2> QED  BY <2>2, <2>3
<1>2. CASE StopUvc
  <2>1. vdev' = vdev /\ cam' = [Idle(cam) EXCEPT !.bufs = 0] /\ uvc' = Requested(0)
    BY <1>2 DEF StopUvc, Requested
  <2>2. udev' = [udev EXCEPT !.streaming = FALSE]
    BY <1>2 DEF StopUvc
  <2>3. udev' \in UdevState /\ udev'.out = udev.out
    BY <2>2, Known DEF UdevState
  <2> QED  BY <1>0, <2>1, <2>3, Known, IdleFacts, IdleEmpty, RequestedType, Ended
<1> QED  BY <1>1, <1>2

LEMMA LoopInv == IndInv /\ (Select \/ Skip \/ Timeout) => IndInv'
<1>1. Select \/ Skip \/ Timeout => UNCHANGED <<mode, vdev, udev, mem, cam, uvc>>
  BY DEF Select, Skip, Timeout, prog
<1>2. Select \/ Skip \/ Timeout => (Running' => Running)
  BY DEF Select, Skip, Timeout, Running, Files
<1> QED  BY <1>1, <1>2, Aside

\* v4l2_qbuf never queues a buffer the camera has.
LEMMA CameraQueuedFacts ==
  ASSUME IndInv
  PROVE  CameraQueued \in Nat /\ \A i \in 0 .. CameraQueued - 1 : i \notin Held(cam)
<1> DEFINE refused == {i \in 0 .. vdev.nbufs - 1 : i >= cam.bufs \/ i \in Held(cam)}
<1>1. CASE refused = {}
  <2>1. CameraQueued = vdev.nbufs
    BY <1>1 DEF CameraQueued
  <2> QED  BY <1>1, <2>1, Known
<1>2. CASE refused # {}
  <2>1. refused \in SUBSET Nat /\ \A i \in refused : i \in 0 .. vdev.nbufs - 1
    BY Known
  <2>2. CameraQueued = CHOOSE n \in refused : \A i \in refused : n <= i
    BY <1>2 DEF CameraQueued
  <2>3. \E n \in refused : \A i \in refused : n <= i
    <3> HIDE DEF refused
    <3> QED  BY <1>2, <2>1, NatHasLeast
  <2>4. CameraQueued \in refused /\ \A i \in refused : CameraQueued <= i
    <3> HIDE DEF refused
    <3> QED  BY <2>2, <2>3
  <2>5. CameraQueued \in 0 .. vdev.nbufs - 1
    BY <2>4
  <2>6. ASSUME NEW i \in 0 .. CameraQueued - 1 PROVE i \notin Held(cam)
    <3>1. i \in 0 .. vdev.nbufs - 1 /\ ~ (CameraQueued <= i)
      BY <2>5, Known
    <3> QED  BY <2>4, <3>1
  <2> QED  BY <2>5, <2>6
<1> QED  BY <1>1, <1>2

LEMMA Assemble ==
  ASSUME IndInv, mode' = mode, CameraMemory', MemoryHeld',
         cam' \in CamState, uvc' \in UvcState, vdev' \in VdevState, udev' \in UdevState,
         Sound(cam'), Sound(uvc'), OneOwner',
         udev'.out >= Cardinality(Held(uvc')), vdev'.out >= Cardinality(Held(cam')),
         mode = "pattern" => Held(cam') = {} /\ ~vdev'.streaming
  PROVE  IndInv'
<1>1. Types' /\ Sound(cam)' /\ Sound(uvc)'
  BY DEF IndInv, Types, Sound, Held, Elements
<1>2. CountersCover' /\ NoCamera'
  BY DEF CountersCover, NoCamera, Held, Elements
<1> QED  BY <1>1, <1>2 DEF IndInv

LEMMA QueueCameraFacts ==
  ASSUME IndInv, QueueCamera
  PROVE  /\ cam' \in CamState /\ vdev' \in VdevState /\ Sound(cam')
         /\ vdev'.out >= Cardinality(Held(cam'))
<1>1. PICK n \in 0 .. CameraQueued :
        LET queued == [cam EXCEPT !.queued = @ \o InOrder(n)]
            counted == [vdev EXCEPT !.out = @ + n]
        IN  /\ cam' = queued \/ cam' = [queued EXCEPT !.on = TRUE]
            /\ vdev' = counted \/ vdev' = [counted EXCEPT !.streaming = TRUE]
  BY DEF QueueCamera
<1>0. n \in Nat /\ \A i \in 0 .. n - 1 : i \notin Held(cam)
  <2>1. CameraQueued \in Nat /\ n \in Nat /\ n <= CameraQueued
    BY CameraQueuedFacts
  <2>2. 0 .. n - 1 \subseteq 0 .. CameraQueued - 1
    BY <2>1
  <2> QED  BY <2>1, <2>2, CameraQueuedFacts
<1> DEFINE queued == [cam EXCEPT !.queued = @ \o InOrder(n)]
           counted == [vdev EXCEPT !.out = @ + n]
<1>2. cam' = queued \/ cam' = [queued EXCEPT !.on = TRUE]
  BY <1>1
<1>3. vdev' = counted \/ vdev' = [counted EXCEPT !.streaming = TRUE]
  BY <1>1
<1>4. cam'.queued = cam.queued \o InOrder(n) /\ cam'.done = cam.done
  BY <1>2, Known DEF CamState
<1>5. vdev' \in VdevState /\ vdev'.out = vdev.out + n
  <2>1. PICK m \in Nat : m = vdev.out + n
    BY <1>0, Known
  <2>2. \/ vdev' = [vdev EXCEPT !.out = m]
        \/ vdev' = [vdev EXCEPT !.out = m, !.streaming = TRUE]
    BY <1>3, <2>1
  <2>3. vdev' \in VdevState /\ vdev'.out = m
    BY <2>2, Known DEF VdevState
  <2> QED  BY <2>1, <2>3
<1> HIDE DEF queued, counted
<1>6. Sound(cam') /\ vdev.out + n >= Cardinality(Held(cam'))
  BY <1>0, <1>4, Known, Filled
<1>7. cam' \in CamState
  <2>1. cam.queued \o InOrder(n) \in Seq(Nat)
    BY <1>4, <1>6 DEF Sound
  <2> QED  BY <1>2, <2>1, Known DEF CamState, queued
<1> QED  BY <1>5, <1>6, <1>7

LEMMA StartPatternFacts ==
  ASSUME IndInv, StartPattern
  PROVE  /\ uvc' \in UvcState /\ udev' \in UdevState /\ Sound(uvc')
         /\ udev'.out >= Cardinality(Held(uvc'))
<1>1. NBufs \in Nat
  BY NBufsAssumption
<1>2. PICK n \in 0 .. NBufs :
        LET queued == [Requested(NBufs) EXCEPT !.queued = InOrder(n)]
            counted == [udev EXCEPT !.out = @ + n]
            started == [counted EXCEPT !.streaming = TRUE, !.first = TRUE]
        IN  /\ uvc' = queued \/ uvc' = [queued EXCEPT !.on = TRUE]
            /\ udev' = counted \/ udev' = started \/ udev' = [started EXCEPT !.shutdown = FALSE]
  BY DEF StartPattern
<1>3. n \in Nat
  BY <1>1
<1> DEFINE queued == [Requested(NBufs) EXCEPT !.queued = InOrder(n)]
<1>4. udev' \in UdevState /\ udev'.out = udev.out + n
  <2>1. PICK m \in Nat : m = udev.out + n
    BY <1>3, Known
  <2>2. udev' \in {
          [udev EXCEPT !.out = m],
          [[udev EXCEPT !.out = m] EXCEPT !.streaming = TRUE, !.first = TRUE],
          [[[udev EXCEPT !.out = m] EXCEPT !.streaming = TRUE, !.first = TRUE] EXCEPT !.shutdown = FALSE]}
    BY <1>2, <2>1
  <2>3. udev' \in UdevState /\ udev'.out = m
    BY <2>2, Known DEF UdevState
  <2> QED  BY <2>1, <2>3
<1>5. Requested(NBufs) \in UvcState /\ Requested(NBufs).queued = << >> /\ Requested(NBufs).done = << >>
  BY <1>1, Known, RequestedType, IdleEmpty
<1> DEFINE r == Requested(NBufs)
<1>6. Sound(r) /\ Held(r) = {} /\ udev.out >= Cardinality(Held(r))
  BY <1>5, Known, Emptied, FS_EmptySet
<1>7. << >> \o InOrder(n) = InOrder(n)
  BY <1>3, AllFacts DEF InOrder
<1> HIDE DEF r
<1>8. uvc'.queued = r.queued \o InOrder(n) /\ uvc'.done = r.done
  BY <1>2, <1>5, <1>7 DEF UvcState, r
<1>9. Sound(uvc') /\ udev.out + n >= Cardinality(Held(uvc'))
  BY <1>3, <1>6, <1>8, Known, Filled
<1>10. uvc' \in UvcState
  <2>1. InOrder(n) \in Seq(Nat)
    BY <1>3, AllFacts DEF InOrder
  <2> QED  BY <1>2, <1>5, <2>1 DEF UvcState
<1> QED  BY <1>4, <1>9, <1>10

LEMMA StreamOnInv == IndInv /\ HandleStreamOn => IndInv'
<1> SUFFICES ASSUME IndInv, HandleStreamOn PROVE IndInv'  OBVIOUS
<1>0. mode' = mode /\ Running' /\ Running
  BY DEF HandleStreamOn, Deliver, Serve, Running, Files, After
<1>1. CASE UNCHANGED <<prog, cam, uvc>>
  BY <1>0, <1>1, Aside DEF prog
<1>2. CASE mode = "camera" /\ uvc' = Requested(NBufs) /\ QueueCamera /\ UNCHANGED <<udev, mem>>
  <2>1. /\ cam' \in CamState /\ vdev' \in VdevState /\ Sound(cam')
        /\ vdev'.out >= Cardinality(Held(cam'))
    BY <1>2, QueueCameraFacts
  <2>2. uvc' \in UvcState /\ uvc'.queued = << >> /\ uvc'.done = << >>
    <3>1. NBufs \in Nat
      BY NBufsAssumption
    <3>2. Requested(NBufs) \in UvcState
      BY <3>1, Known, RequestedType
    <3>3. Requested(NBufs).queued = << >> /\ Requested(NBufs).done = << >>
      BY Known, IdleEmpty
    <3> QED  BY <1>2, <3>2, <3>3
  <2>3. Sound(uvc') /\ Held(uvc') = {} /\ udev'.out >= Cardinality(Held(uvc'))
    BY <1>2, <2>2, Known, Emptied
  <2>4. OneOwner'
    BY <2>3, Owner
  <2>5. mem' /\ mode # "pattern"
    BY <1>0, <1>2 DEF IndInv, CameraMemory
  <2>6. CameraMemory' /\ MemoryHeld'
    BY <2>5 DEF CameraMemory, MemoryHeld
  <2>7. udev' \in UdevState
    BY <1>2, Known
  <2> QED  BY <1>0, <2>1, <2>2, <2>3, <2>4, <2>5, <2>6, <2>7, Assemble
<1>3. CASE mode = "pattern" /\ mem' = TRUE /\ StartPattern /\ UNCHANGED <<vdev, cam>>
  <2>1. /\ uvc' \in UvcState /\ udev' \in UdevState /\ Sound(uvc')
        /\ udev'.out >= Cardinality(Held(uvc'))
    BY <1>3, StartPatternFacts
  <2>2. OneOwner'
    BY <1>0, <1>3, Owner
  <2>3. CameraMemory' /\ MemoryHeld'
    BY <1>3 DEF CameraMemory, MemoryHeld
  <2> QED  BY <1>0, <1>3, <2>1, <2>2, <2>3, Known, Assemble
<1> QED  BY <1>1, <1>2, <1>3 DEF HandleStreamOn

LEMMA StreamOffInv == IndInv /\ HandleStreamOff => IndInv'
<1> SUFFICES ASSUME IndInv, HandleStreamOff PROVE IndInv'  OBVIOUS
<1>0. mode' = mode /\ Running' /\ Running
  BY DEF HandleStreamOff, Deliver, Serve, Running, Files, After
<1>1. /\ cam' \in CamState /\ vdev' \in VdevState /\ Sound(cam') /\ Held(cam') \subseteq Held(cam)
      /\ vdev'.out >= Cardinality(Held(cam')) /\ (vdev'.streaming => vdev.streaming)
  <2>1. CASE UNCHANGED <<vdev, cam>>
    BY <2>1, Known
  <2>2. CASE cam' = Idle(cam) /\ vdev' = [vdev EXCEPT !.streaming = FALSE]
    <3>1. cam' \in CamState /\ cam'.queued = << >> /\ cam'.done = << >>
      <4>1. 0 \in Nat  OBVIOUS
      <4>2. Idle(cam) \in CamState
        BY <4>1, Known, IdleFacts
      <4> QED  BY <2>2, <4>2, Known, IdleEmpty
    <3>2. vdev' \in VdevState /\ vdev'.out = vdev.out /\ ~vdev'.streaming
      BY <2>2, Known DEF VdevState
    <3>3. Sound(cam') /\ Held(cam') = {} /\ Cardinality(Held(cam')) = 0
      BY <3>1, Emptied
    <3> QED  BY <3>1, <3>2, <3>3, Known
  <2> QED  BY <2>1, <2>2 DEF HandleStreamOff, StopCapturing
<1>2. /\ uvc' \in UvcState /\ udev' \in UdevState /\ Sound(uvc') /\ Held(uvc') \subseteq Held(uvc)
      /\ udev'.out >= Cardinality(Held(uvc')) /\ (udev.streaming => Held(uvc') = {})
  <2>1. CASE ~udev.streaming /\ UNCHANGED <<udev, uvc>>
    BY <2>1, Known
  <2>2. CASE /\ uvc' = [Requested(0) EXCEPT !.gone = FALSE]
             /\ udev' = [udev EXCEPT !.streaming = FALSE, !.first = FALSE]
    <3>1. uvc' \in UvcState /\ uvc'.queued = << >> /\ uvc'.done = << >>
      BY <2>2, Known, RequestedType, IdleEmpty
    <3>2. udev' \in UdevState /\ udev'.out = udev.out
      BY <2>2, Known DEF UdevState
    <3>3. Sound(uvc') /\ Held(uvc') = {} /\ Cardinality(Held(uvc')) = 0
      BY <3>1, Emptied
    <3> QED  BY <3>1, <3>2, <3>3, Known
  <2> QED  BY <2>1, <2>2 DEF HandleStreamOff, StopStreaming
<1>3. OneOwner'
  BY <1>0, <1>1, <1>2, Known, Owner
<1>4. mem' = (mem /\ ~(mode = "pattern" /\ udev.streaming))
  BY DEF HandleStreamOff
<1>5. CameraMemory'
  <2>1. mode = "camera" => mem /\ mode # "pattern"
    BY <1>0 DEF IndInv, CameraMemory
  <2> QED  BY <1>0, <1>4, <2>1 DEF CameraMemory
<1>6. Held(cam') \cup Held(uvc') # {} => mem'
  <2>1. Held(cam') \cup Held(uvc') # {} => mem
    BY <1>0, <1>1, <1>2 DEF IndInv, MemoryHeld
  <2>2. mode = "pattern" /\ udev.streaming => Held(cam') \cup Held(uvc') = {}
    BY <1>1, <1>2, Known
  <2> QED  BY <1>4, <2>1, <2>2
<1>7. MemoryHeld'
  BY <1>6 DEF MemoryHeld, Held, Elements
<1>8. mode = "pattern" => Held(cam') = {} /\ ~vdev'.streaming
  BY <1>1, Known
<1> QED  BY <1>0, <1>1, <1>2, <1>3, <1>5, <1>7, <1>8, Assemble

-----------------------------------------------------------------------------
(* The two handlers *)

\* The UVC function after DQBUF of its first finished buffer.
LEMMA UvcDequeuedFacts ==
  ASSUME IndInv, uvc.done # << >>
  PROVE  /\ UvcDequeued \in UvcState /\ Sound(UvcDequeued)
         /\ Held(UvcDequeued) \subseteq Held(uvc) \ {Head(uvc.done)}
         /\ Head(uvc.done) \in Held(uvc) /\ Head(uvc.done) \in Nat
         /\ udev.out - 1 \in Nat /\ udev.out - 1 >= Cardinality(Held(UvcDequeued))
<1>1. UvcDequeued.queued = uvc.queued /\ UvcDequeued.done = Tail(uvc.done)
  BY Known DEF UvcDequeued, UvcState
<1> DEFINE c == UvcDequeued
<1>2. c.queued = uvc.queued /\ c.done = Tail(uvc.done)
  BY <1>1
<1> HIDE DEF c
<1>3. /\ Sound(c) /\ Held(c) \subseteq Held(uvc) \ {Head(uvc.done)}
      /\ Head(uvc.done) \in Held(uvc) /\ Head(uvc.done) \in Nat
      /\ udev.out - 1 \in Nat /\ udev.out - 1 >= Cardinality(Held(c))
  BY <1>2, Known, Taken
<1>4. c \in UvcState
  <2>1. Tail(uvc.done) \in Seq(Nat)
    BY <1>2, <1>3 DEF Sound
  <2> QED  BY <2>1, Known DEF c, UvcDequeued, UvcState
<1> QED  BY <1>3, <1>4 DEF c

\* The counters of the two devices go up or down by one, flags aside.
LEMMA UdevCounted ==
  ASSUME udev \in UdevState, NEW m \in Nat, udev' \in {
           [udev EXCEPT !.out = m], [udev EXCEPT !.out = m, !.shutdown = TRUE],
           [[udev EXCEPT !.out = m] EXCEPT !.first = TRUE, !.streaming = TRUE],
           [[[udev EXCEPT !.out = m] EXCEPT !.first = TRUE, !.streaming = TRUE] EXCEPT !.shutdown = FALSE]}
  PROVE  udev' \in UdevState /\ udev'.out = m
BY DEF UdevState

LEMMA VdevCounted ==
  ASSUME vdev \in VdevState, NEW m \in Nat, vdev' = [vdev EXCEPT !.out = m]
  PROVE  vdev' \in VdevState /\ vdev'.out = m /\ vdev'.streaming = vdev.streaming
BY DEF VdevState

LEMMA GiveBackInv ==
  ASSUME IndInv, GiveBack, UNCHANGED <<mode, mem>>, Running' => Running, mode = "camera",
         uvc.done # << >>
  PROVE  IndInv'
<1> DEFINE i == Head(uvc.done)
<1>0. /\ uvc' \in UvcState /\ Sound(uvc') /\ Held(uvc') \subseteq Held(uvc) \ {i}
      /\ i \in Held(uvc) /\ i \in Nat
      /\ udev.out - 1 \in Nat /\ udev.out - 1 >= Cardinality(Held(uvc'))
  BY UvcDequeuedFacts DEF GiveBack
<1>1. udev' \in UdevState /\ udev'.out >= Cardinality(Held(uvc'))
  <2>1. PICK m \in Nat : m = udev.out - 1
    BY <1>0
  <2>2. udev' = [udev EXCEPT !.out = m] \/ udev' = [udev EXCEPT !.out = m, !.shutdown = TRUE]
    BY <2>1 DEF GiveBack, DropFlagged
  <2>3. udev' \in UdevState /\ udev'.out = m
    BY <2>2, Known, UdevCounted
  <2> QED  BY <1>0, <2>1, <2>3
<1>2. /\ cam' \in CamState /\ vdev' \in VdevState /\ Sound(cam') /\ Held(cam') \subseteq Held(cam) \cup {i}
      /\ vdev'.out >= Cardinality(Held(cam'))
  <2>1. CASE UNCHANGED <<cam, vdev>>
    BY <2>1, Known
  <2>2. CASE /\ i \notin Held(cam)
             /\ cam' = [cam EXCEPT !.queued = Append(@, i)]
             /\ vdev' = [vdev EXCEPT !.out = @ + 1]
    <3>1. cam'.queued = Append(cam.queued, i) /\ cam'.done = cam.done
      <4> HIDE DEF i
      <4> QED  BY <2>2, Known DEF CamState
    <3>2. /\ Sound(cam') /\ Held(cam') \subseteq Held(cam) \cup {i}
          /\ vdev.out + 1 >= Cardinality(Held(cam'))
      <4> HIDE DEF i
      <4>1. i \in Nat /\ i \notin Held(cam)
        BY <1>0, <2>2
      <4>2. Sound(cam) /\ vdev.out \in Nat /\ vdev.out >= Cardinality(Held(cam))
        BY Known
      <4> QED  BY <3>1, <4>1, <4>2, Given
    <3>3. cam' \in CamState
      <4>1. Append(cam.queued, i) \in Seq(Nat)
        BY <3>1, <3>2 DEF Sound
      <4> HIDE DEF i
      <4> QED  BY <2>2, <4>1, Known DEF CamState
    <3>4. PICK m \in Nat : m = vdev.out + 1
      BY Known
    <3>5. vdev' = [vdev EXCEPT !.out = m]
      BY <2>2, <3>4
    <3>6. vdev' \in VdevState /\ vdev'.out = m
      BY <3>5, Known, VdevCounted
    <3> QED  BY <3>2, <3>3, <3>4, <3>6
  <2> QED  BY <2>1, <2>2 DEF GiveBack
<1>3. OneOwner'
  <2>1. Held(cam') \cap Held(uvc') = {}
    BY <1>0, <1>2, Known
  <2> QED  BY <2>1, Owner
<1> HIDE DEF i
<1>4. Held(cam) \cup Held(uvc) # {}
  BY <1>0
<1> QED  BY <1>0, <1>1, <1>2, <1>3, <1>4, Keep

LEMMA RefillInv ==
  ASSUME IndInv, Refill, UNCHANGED <<mode, mem>>, Running' => Running, mode = "pattern",
         uvc.done # << >>
  PROVE  IndInv'
<1> DEFINE i == Head(uvc.done)
           c == UvcDequeued
<1>0. /\ c \in UvcState /\ Sound(c) /\ Held(c) \subseteq Held(uvc) \ {i}
      /\ i \in Held(uvc) /\ i \in Nat
      /\ udev.out - 1 \in Nat /\ udev.out - 1 >= Cardinality(Held(c))
  BY UvcDequeuedFacts
<1>1. UNCHANGED <<cam, vdev>>
  BY DEF Refill
<1>2. CASE uvc' = c /\ udev' = [udev EXCEPT !.out = @ - 1]
  <2>1. PICK m \in Nat : m = udev.out - 1
    BY <1>0
  <2>2. udev' = [udev EXCEPT !.out = m]
    BY <1>2, <2>1
  <2>3. udev' \in UdevState /\ udev'.out = m
    BY <2>2, Known, UdevCounted
  <2> HIDE DEF i, c
  <2>4. OneOwner'
    BY <1>2, Owner
  <2>5. udev'.out >= Cardinality(Held(uvc')) /\ Held(cam) \cup Held(uvc) # {}
    BY <1>0, <1>2, <2>1, <2>3
  <2> QED  BY <1>0, <1>1, <1>2, <2>3, <2>4, <2>5, Known, Keep
<1>3. CASE uvc' = [c EXCEPT !.queued = Append(@, i)] /\ udev' = udev
  <2> HIDE DEF i, c
  <2>1. uvc'.queued = Append(c.queued, i) /\ uvc'.done = c.done
    BY <1>0, <1>3 DEF UvcState
  <2>2. PICK m \in Nat : m = udev.out - 1
    BY <1>0
  <2>3. m >= Cardinality(Held(c)) /\ i \notin Held(c)
    BY <1>0, <2>2
  <2>4. Sound(uvc') /\ m + 1 >= Cardinality(Held(uvc'))
    BY <1>0, <2>1, <2>3, Given
  <2>5. uvc' \in UvcState
    <3>1. PICK s \in Seq(Nat) : s = Append(c.queued, i)
      BY <2>1, <2>4 DEF Sound
    <3>2. uvc' = [c EXCEPT !.queued = s]
      BY <1>3, <3>1
    <3> QED  BY <1>0, <3>2 DEF UvcState
  <2>6. udev'.out >= Cardinality(Held(uvc'))
    <3>1. udev'.out = m + 1
      BY <1>3, <2>2, Known
    <3> QED  BY <2>4, <3>1
  <2>7. OneOwner'
    BY Owner
  <2>8. Held(cam) \cup Held(uvc) # {}
    BY <1>0
  <2> QED  BY <1>1, <1>3, <2>4, <2>5, <2>6, <2>7, <2>8, Known, Keep
<1> QED  BY <1>2, <1>3 DEF Refill

LEMMA ProcessUvcInv == IndInv /\ ProcessUvc => IndInv'
<1> SUFFICES ASSUME IndInv, ProcessUvc PROVE IndInv'  OBVIOUS
<1>0. UNCHANGED <<mode, mem>> /\ (Running' => Running)
  BY DEF ProcessUvc, Serve, Running, Files, After
<1>1. \/ UNCHANGED <<uvc, udev, cam, vdev>>
      \/ uvc.done # << >> /\ mode = "camera" /\ GiveBack
      \/ uvc.done # << >> /\ mode # "camera" /\ Refill
  BY DEF ProcessUvc
<1>2. CASE UNCHANGED <<uvc, udev, cam, vdev>>
  BY <1>0, <1>2, Aside
<1>3. CASE uvc.done # << >> /\ mode = "camera" /\ GiveBack
  BY <1>0, <1>3, GiveBackInv
<1>4. CASE uvc.done # << >> /\ mode # "camera" /\ Refill
  BY <1>0, <1>4, Known, RefillInv
<1> QED  BY <1>1, <1>2, <1>3, <1>4

\* The UVC function after QBUF of the buffer i it did not have, started or not.
LEMMA QueueToUvcFacts ==
  ASSUME IndInv, QueueToUvc, NEW i, i = Head(cam.done), i \in Nat, i \notin Held(uvc)
  PROVE  /\ uvc' \in UvcState /\ udev' \in UdevState /\ Sound(uvc')
         /\ Held(uvc') \subseteq Held(uvc) \cup {i}
         /\ udev'.out >= Cardinality(Held(uvc'))
<1>0. /\ uvc \in UvcState /\ Sound(uvc) /\ udev \in UdevState
      /\ udev.out \in Nat /\ udev.out >= Cardinality(Held(uvc))
  BY Known
<1> DEFINE queued == [uvc EXCEPT !.queued = Append(@, i)]
<1>1. uvc' = queued \/ uvc' = [queued EXCEPT !.on = TRUE]
  BY DEF QueueToUvc
<1>2. uvc'.queued = Append(uvc.queued, i) /\ uvc'.done = uvc.done
  BY <1>0, <1>1 DEF UvcState
<1>3. /\ Sound(uvc') /\ Held(uvc') \subseteq Held(uvc) \cup {i}
      /\ udev.out + 1 >= Cardinality(Held(uvc'))
  BY <1>0, <1>2, Given
<1>4. uvc' \in UvcState
  <2>1. PICK s \in Seq(Nat) : s = Append(uvc.queued, i)
    BY <1>2, <1>3 DEF Sound
  <2>2. uvc' = [uvc EXCEPT !.queued = s] \/ uvc' = [[uvc EXCEPT !.queued = s] EXCEPT !.on = TRUE]
    BY <1>1, <2>1
  <2> QED  BY <1>0, <2>2 DEF UvcState
<1>5. udev' \in UdevState /\ udev'.out >= Cardinality(Held(uvc'))
  <2>1. PICK m \in Nat : m = Count
    BY <1>0 DEF Count
  <2>2. udev' \in {
          [udev EXCEPT !.out = m],
          [[udev EXCEPT !.out = m] EXCEPT !.first = TRUE, !.streaming = TRUE],
          [[[udev EXCEPT !.out = m] EXCEPT !.first = TRUE, !.streaming = TRUE] EXCEPT !.shutdown = FALSE]}
    BY <2>1 DEF QueueToUvc
  <2>3. udev' \in UdevState /\ udev'.out = m
    BY <1>0, <2>2, UdevCounted
  <2> QED  BY <1>3, <2>1, <2>3 DEF Count
<1> QED  BY <1>3, <1>4, <1>5

LEMMA ProcessCameraInv == IndInv /\ ProcessCamera => IndInv'
<1> SUFFICES ASSUME IndInv, ProcessCamera PROVE IndInv'  OBVIOUS
<1>0. UNCHANGED <<mode, mem>> /\ (Running' => Running)
  BY DEF ProcessCamera, Serve, Running, Files, After
<1> DEFINE i == Head(cam.done)
<1>1. CASE UNCHANGED <<uvc, udev, cam, vdev>>
  BY <1>0, <1>1, Aside
<1>2. CASE /\ vdev.streaming /\ cam.done # << >>
           /\ cam' = CamDequeued
           /\ vdev' = [vdev EXCEPT !.out = @ - 1]
           /\ \/ UNCHANGED <<uvc, udev>>
              \/ udev' = [udev EXCEPT !.shutdown = TRUE] /\ UNCHANGED uvc
              \/ i \notin Held(uvc) /\ QueueToUvc
  <2>1. cam'.queued = cam.queued /\ cam'.done = Tail(cam.done)
    BY <1>2, Known DEF CamDequeued, CamState
  <2>2. Sound(cam) /\ vdev.out \in Nat /\ vdev.out >= Cardinality(Held(cam)) /\ cam.done # << >>
    BY <1>2, Known
  <2>3. /\ Sound(cam') /\ Held(cam') \subseteq Held(cam) \ {i}
        /\ i \in Held(cam) /\ i \in Nat
        /\ vdev.out - 1 \in Nat /\ vdev.out - 1 >= Cardinality(Held(cam'))
    BY <2>1, <2>2, Taken
  <2>4. cam' \in CamState
    <3>1. PICK s \in Seq(Nat) : s = Tail(cam.done)
      BY <2>1, <2>3 DEF Sound
    <3>2. cam' = [cam EXCEPT !.done = s]
      BY <1>2, <3>1 DEF CamDequeued
    <3> QED  BY <3>2, Known DEF CamState
  <2>5. vdev' \in VdevState /\ vdev'.out >= Cardinality(Held(cam')) /\ vdev'.streaming
    <3>1. PICK m \in Nat : m = vdev.out - 1
      BY <2>3
    <3>2. vdev' = [vdev EXCEPT !.out = m]
      BY <1>2, <3>1
    <3>3. vdev' \in VdevState /\ vdev'.out = m /\ vdev'.streaming = vdev.streaming
      BY <3>2, Known, VdevCounted
    <3> QED  BY <1>2, <2>3, <3>1, <3>3
  <2>6. mode = "camera"
    BY <1>2, Known
  <2> HIDE DEF i
  <2>7. /\ uvc' \in UvcState /\ udev' \in UdevState /\ Sound(uvc')
        /\ Held(uvc') \subseteq Held(uvc) \cup {i}
        /\ udev'.out >= Cardinality(Held(uvc'))
    <3>1. CASE UNCHANGED <<uvc, udev>>
      BY <3>1, Known
    <3>2. CASE udev' = [udev EXCEPT !.shutdown = TRUE] /\ UNCHANGED uvc
      <4>1. udev' \in UdevState /\ udev'.out = udev.out
        BY <3>2, Known DEF UdevState
      <4> QED  BY <3>2, <4>1, Known
    <3>3. CASE i \notin Held(uvc) /\ QueueToUvc
      <4>1. i = Head(cam.done)
        BY DEF i
      <4> QED  BY <2>3, <3>3, <4>1, QueueToUvcFacts
    <3> QED  BY <1>2, <3>1, <3>2, <3>3
  <2>8. OneOwner'
    <3>1. Held(cam') \cap Held(uvc') = {}
      BY <2>3, <2>6, <2>7, Known
    <3> QED  BY <3>1, Owner
  <2>9. Held(cam) \cup Held(uvc) # {}
    BY <2>3
  <2> QED  BY <1>0, <2>3, <2>4, <2>5, <2>6, <2>7, <2>8, <2>9, Keep
<1> QED  BY <1>1, <1>2 DEF ProcessCamera

-----------------------------------------------------------------------------
LEMMA InitInv == Init => IndInv
<1> SUFFICES ASSUME Init PROVE IndInv  OBVIOUS
<1>1. mode \in {"camera", "pattern"}
  BY ModesAssumption DEF Init
<1>2. PICK n \in Nat : /\ vdev = [streaming |-> FALSE, nbufs |-> n, out |-> 0]
                       /\ cam = [bufs |-> n, queued |-> << >>, done |-> << >>, on |-> FALSE]
  <2>1. CameraGrants \subseteq Nat
    BY CameraGrantsAssumption
  <2>2. PICK g \in CameraGrants :
          LET n == IF mode = "camera" THEN g ELSE 0
          IN  /\ vdev = [streaming |-> FALSE, nbufs |-> n, out |-> 0]
              /\ cam = [bufs |-> n, queued |-> << >>, done |-> << >>, on |-> FALSE]
    BY DEF Init
  <2> DEFINE n == IF mode = "camera" THEN g ELSE 0
  <2>3. n \in Nat
    BY <2>1, <2>2
  <2> QED  BY <2>2, <2>3
<1>3. vdev \in VdevState /\ cam \in CamState
  BY <1>2, EmptyFacts DEF VdevState, CamState
<1>4. udev \in UdevState /\ uvc \in UvcState /\ uvc.queued = << >> /\ uvc.done = << >>
  BY EmptyFacts DEF Init, UdevState, UvcState
<1>5. Sound(cam) /\ Held(cam) = {} /\ Cardinality(Held(cam)) = 0
  BY <1>2, Emptied
<1>6. Sound(uvc) /\ Held(uvc) = {} /\ Cardinality(Held(uvc)) = 0
  BY <1>4, Emptied
<1>7. vdev.out = 0 /\ udev.out = 0 /\ ~vdev.streaming
  BY <1>2 DEF Init
<1>8. CountersCover
  BY <1>5, <1>6, <1>7 DEF CountersCover
<1>9. mode = "camera" => mem
  BY DEF Init
<1> QED  BY <1>1, <1>3, <1>4, <1>5, <1>6, <1>7, <1>8, <1>9
         DEF IndInv, Types, OneOwner, NoCamera, CameraMemory, MemoryHeld

LEMMA StutterInv == IndInv /\ UNCHANGED vars => IndInv'
<1>1. UNCHANGED vars => UNCHANGED <<mode, vdev, udev, mem, cam, uvc>> /\ (Running' => Running)
  BY DEF vars, Running
<1> QED  BY <1>1, Aside

LEMMA NextInv == IndInv /\ [Next]_vars => IndInv'
<1>1. IndInv /\ Program => IndInv'
  BY LoopInv, StopInv, StreamOnInv, StreamOffInv, ProcessUvcInv, ProcessCameraInv DEF Program
<1> QED  BY <1>1, EnvironmentInv, StutterInv DEF Next

LEMMA Inductive == Safety => []IndInv
BY InitInv, NextInv, PTL DEF Safety

\* A buffer is never with the camera and with the UVC function at once, whatever
\* fails and however often the host starts and stops (v4l2_process_data and
\* uvc_video_process of uvc-gadget.c pass indices of one piece of memory).
THEOREM OneOwnerHolds == Safety => []OneOwner
<1>1. IndInv => OneOwner
  BY DEF IndInv
<1> QED  BY <1>1, Inductive, PTL

\* The counters qbuf_count - dqbuf_count never promise less than the drivers
\* hold, although STREAMOFF leaves them alone: no finished buffer is passed over
\* because of them in uvc_video_process or v4l2_process_data.
THEOREM CountersCoverHolds == Safety => []CountersCover
<1>1. IndInv => CountersCover
  BY DEF IndInv
<1> QED  BY <1>1, Inductive, PTL

\* While main's loop runs no driver holds memory that was unmapped or freed: the
\* pattern's buffers go at STREAMOFF only after the function gave them up.
THEOREM MemoryHeldHolds == Safety => []MemoryHeld
<1>1. IndInv => MemoryHeld
  BY DEF IndInv
<1> QED  BY <1>1, Inductive, PTL

-----------------------------------------------------------------------------
(* The buffers circulate *)

Event == {"STREAMON", "STREAMOFF"}
HasOff(e) == \E k \in 1 .. Len(e) : e[k] = "STREAMOFF"

\* At most one end of a stream is pending.
Once(e) ==
  /\ e \in Seq(Event)
  /\ \A j, k \in 1 .. Len(e) : e[j] = "STREAMOFF" /\ e[k] = "STREAMOFF" => j = k

\* The end of a stream that is pending is that of the stream that was begun.
Pending ==
  /\ Once(evq)
  /\ HasOff(evq) => uvc.on /\ udev.first /\ kstate # "streaming"
  /\ pc = "events" /\ "events" \in ready => evq # << >>

\* Before a camera's first frame the UVC function has nothing, and a camera that
\* streams knows how many buffers it takes.
Begun ==
  /\ udev.first = udev.streaming
  /\ kstate = "streaming" => uvc.on /\ udev.first
  /\ mode = "camera" /\ ~udev.first => ~uvc.gone /\ uvc.bad = {} /\ Held(uvc) = {}
  /\ mode = "camera" /\ vdev.streaming => uvc.bufs = NBufs

\* The buffers that both ends know, and when none of them is missing: from
\* STREAMON on, until the program is told that the stream ends.
Shared(v, u) == {i \in 0 .. v.nbufs - 1 : i < u.bufs}
NoneLost == "qbuf" \notin Elements(faults)
Around ==
  mode = "camera" /\ vdev.streaming /\ NoneLost
    /\ (~udev.first \/ (kstate = "streaming" /\ ~udev.shutdown /\ ~uvc.gone)) =>
    Shared(vdev, uvc) \subseteq Held(cam) \cup Held(uvc)

Flow == Pending /\ Begun /\ Around
Log == faults \in Seq(Faults)
FlowInv == Log /\ (Running => Flow)

\* What has failed stays on record.
Kept == /\ NoneLost' => NoneLost
        /\ Fault("qbuf") => ~NoneLost'

LEMMA Logged ==
  ASSUME Log, faults' = faults \/ \E f \in Faults : faults' = Append(faults, f)
  PROVE  Log' /\ Kept /\ (faults' = << >> => faults' = faults)
<1>0. faults' = faults => ~Fault("qbuf")
  BY DEF Log, Fault
<1>1. CASE faults' = faults
  BY <1>0, <1>1 DEF Log, Kept, NoneLost, Elements
<1>2. ASSUME NEW f \in Faults, faults' = Append(faults, f)
      PROVE  Log' /\ Kept /\ faults' # << >>
  <2>1. /\ Append(faults, f) \in Seq(Faults) /\ Len(faults) \in Nat
        /\ Len(Append(faults, f)) = Len(faults) + 1
        /\ \A k \in 1 .. Len(faults) : Append(faults, f)[k] = faults[k] /\ k \in 1 .. Len(faults) + 1
        /\ Append(faults, f)[Len(faults) + 1] = f /\ Len(faults) + 1 \in 1 .. Len(faults) + 1
    BY DEF Log
  <2>2. NoneLost' => NoneLost
    BY <1>2, <2>1 DEF NoneLost, Elements
  <2>3. Fault("qbuf") => ~NoneLost'
    <3>1. SUFFICES ASSUME Fault("qbuf") PROVE ~NoneLost'  OBVIOUS
    <3>2. "qbuf" \in Faults /\ faults' = Append(faults, "qbuf")
      BY <3>1 DEF Fault
    <3>3. /\ Len(Append(faults, "qbuf")) = Len(faults) + 1
          /\ Append(faults, "qbuf")[Len(faults) + 1] = "qbuf"
      BY <3>2 DEF Log
    <3> QED  BY <2>1, <3>2, <3>3 DEF NoneLost, Elements
  <2> QED  BY <1>2, <2>1, <2>2, <2>3 DEF Log, Kept
<1> QED  BY <1>1, <1>2

\* A step records a failure or is a step of a system without one.
LEMMA FaultCounted == [Next]_vars => faults' = faults \/ \E f \in Faults : faults' = Append(faults, f)
<1>1. Program => faults' = faults \/ \E f \in Faults : faults' = Append(faults, f)
  BY DEF Program, Select, Skip, Timeout, StopCamera, StopUvc, HandleStreamOn, HandleStreamOff, ProcessUvc,
     GiveBack, Refill, ProcessCamera, QueueCamera, StartPattern, QueueToUvc, Fault
<1>2. Environment => faults' = faults \/ \E f \in Faults : faults' = Append(faults, f)
  BY DEF Environment, HostStreamOn, HostStreamOff, HostReset, TransferFails, CameraFills, HostReads, Fault
<1> QED  BY <1>1, <1>2 DEF Next, vars

LEMMA EventTail ==
  ASSUME NEW e, Once(e), e # << >>
  PROVE  /\ Once(Tail(e))
         /\ HasOff(Tail(e)) => HasOff(e) /\ Head(e) # "STREAMOFF"
         /\ HasOff(e) => HasOff(Tail(e)) \/ Head(e) = "STREAMOFF"
<1> DEFINE t == Tail(e)
<1>1. /\ t \in Seq(Event) /\ Len(e) \in Nat \ {0} /\ Len(t) = Len(e) - 1
      /\ \A k \in 1 .. Len(t) : t[k] = e[k + 1] /\ k + 1 \in 1 .. Len(e)
      /\ Head(e) = e[1] /\ 1 \in 1 .. Len(e)
  BY DEF Once
<1> HIDE DEF t
<1>2. ASSUME NEW j \in 1 .. Len(t), NEW k \in 1 .. Len(t), t[j] = "STREAMOFF", t[k] = "STREAMOFF"
      PROVE  j = k
  <2>1. j + 1 = k + 1
    BY <1>1, <1>2 DEF Once
  <2> QED  BY <1>1, <2>1
<1>3. ASSUME NEW k \in 1 .. Len(t), t[k] = "STREAMOFF"
      PROVE  HasOff(e) /\ Head(e) # "STREAMOFF"
  <2>1. k + 1 \in 1 .. Len(e) /\ e[k + 1] = "STREAMOFF" /\ k + 1 # 1
    BY <1>1, <1>3
  <2>2. e[1] # "STREAMOFF"
    BY <1>1, <2>1 DEF Once
  <2> QED  BY <1>1, <2>1, <2>2 DEF HasOff
<1>4. ASSUME NEW k \in 1 .. Len(e), e[k] = "STREAMOFF"
      PROVE  HasOff(t) \/ Head(e) = "STREAMOFF"
  <2>1. CASE k = 1
    BY <1>1, <1>4, <2>1
  <2>2. CASE k # 1
    <3>1. k - 1 \in 1 .. Len(t) /\ k = (k - 1) + 1
      BY <1>1, <2>2
    <3> QED  BY <1>1, <1>4, <3>1 DEF HasOff
  <2> QED  BY <2>1, <2>2
<1>5. Once(t)
  BY <1>1, <1>2 DEF Once
<1> QED  BY <1>3, <1>4, <1>5 DEF HasOff, t

LEMMA EventAppend ==
  ASSUME NEW e, Once(e), NEW x \in Event, x = "STREAMON" \/ ~HasOff(e)
  PROVE  /\ Once(Append(e, x)) /\ Append(e, x) # << >>
         /\ x = "STREAMOFF" => HasOff(Append(e, x))
         /\ x = "STREAMON" => (HasOff(Append(e, x)) <=> HasOff(e))
<1> DEFINE a == Append(e, x)
<1>1. /\ a \in Seq(Event) /\ Len(e) \in Nat /\ Len(a) = Len(e) + 1
      /\ \A k \in 1 .. Len(e) : a[k] = e[k] /\ k \in 1 .. Len(a)
      /\ a[Len(e) + 1] = x /\ Len(e) + 1 \in 1 .. Len(a)
  BY DEF Once
<1> HIDE DEF a
<1>2. \A k \in 1 .. Len(a) : k \in 1 .. Len(e) \/ k = Len(e) + 1
  BY <1>1
<1>3. Once(a)
  <2>1. ASSUME NEW j \in 1 .. Len(a), NEW k \in 1 .. Len(a), a[j] = "STREAMOFF", a[k] = "STREAMOFF"
        PROVE  j = k
    <3>1. CASE x = "STREAMON"
      BY <1>1, <1>2, <2>1, <3>1 DEF Once
    <3>2. CASE ~HasOff(e)
      BY <1>1, <1>2, <2>1, <3>2 DEF HasOff
    <3> QED  BY <3>1, <3>2
  <2> QED  BY <1>1, <2>1 DEF Once
<1>4. a # << >>
  BY <1>1
<1>5. x = "STREAMOFF" => HasOff(a)
  BY <1>1 DEF HasOff
<1>6. x = "STREAMON" => (HasOff(a) <=> HasOff(e))
  BY <1>1, <1>2 DEF HasOff
<1> QED  BY <1>3, <1>4, <1>5, <1>6 DEF a

\* Begun and Around after a step, in terms of what the step assigns.
LEMMA BegunAfter ==
  ASSUME mode' = mode, udev'.first = udev'.streaming,
         kstate' = "streaming" => uvc'.on /\ udev'.first,
         mode = "camera" /\ ~udev'.first => ~uvc'.gone /\ uvc'.bad = {} /\ Held(uvc') = {},
         mode = "camera" /\ vdev'.streaming => uvc'.bufs = NBufs
  PROVE  Begun'
BY DEF Begun, Held, Elements

LEMMA AroundAfter ==
  ASSUME mode' = mode,
         mode = "camera" /\ vdev'.streaming /\ NoneLost'
           /\ (~udev'.first \/ (kstate' = "streaming" /\ ~udev'.shutdown /\ ~uvc'.gone)) =>
           Shared(vdev', uvc') \subseteq Held(cam') \cup Held(uvc')
  PROVE  Around'
BY DEF Around, Shared, Held, Elements, NoneLost

\* A step that leaves the drivers and the loop's view of them alone.
LEMMA FlowAside ==
  ASSUME Flow, Kept, UNCHANGED <<mode, vdev, udev, cam, uvc, kstate>>, Once(evq'),
         HasOff(evq') => HasOff(evq),
         pc' = "events" /\ "events" \in ready' => evq' # << >>
  PROVE  Flow'
<1>1. Pending'
  BY DEF Flow, Pending, Once, HasOff
<1>2. Begun'
  BY BegunAfter DEF Flow, Begun
<1>3. Around'
  BY AroundAfter DEF Flow, Around, Kept
<1> QED  BY <1>1, <1>2, <1>3 DEF Flow

LEMMA FlowLoop == Flow /\ Kept /\ (Select \/ Skip) => Flow'
<1> SUFFICES ASSUME Flow, Kept, Select \/ Skip PROVE Flow'  OBVIOUS
<1>1. UNCHANGED <<mode, vdev, udev, cam, uvc, kstate, evq>>
  BY DEF Select, Skip, prog
<1>2. CASE Select
  <2>1. "events" \in ready' => Ready("events")
    BY <1>2 DEF Select
  <2>2. "events" \in ready' => evq # << >>
    BY <2>1, Zenon DEF Ready
  <2> QED  BY <1>1, <2>2, FlowAside DEF Flow, Pending
<1>3. CASE Skip
  <2>1. pc' # "events"
    BY <1>3 DEF Skip, Files, After
  <2> QED  BY <1>1, <2>1, FlowAside DEF Flow, Pending
<1> QED  BY <1>2, <1>3

LEMMA FlowHostOn == Flow /\ Kept /\ HostStreamOn => Flow'
<1> SUFFICES ASSUME Flow, Kept, HostStreamOn PROVE Flow'  OBVIOUS
<1>1. UNCHANGED <<mode, vdev, udev, cam, uvc, kstate>> /\ evq' = Append(evq, "STREAMON")
  BY DEF HostStreamOn, prog
<1>2. Once(evq') /\ evq' # << >> /\ (HasOff(evq') => HasOff(evq))
  BY <1>1, EventAppend DEF Flow, Pending, Event
<1> QED  BY <1>1, <1>2, FlowAside

-----------------------------------------------------------------------------
\* The drivers finish with buffers: none gets lost.
LEMMA FinishedKeeps ==
  ASSUME NEW q, Sound(q), NEW c,
         \/ q.queued # << >> /\ c.queued = Tail(q.queued) /\ c.done = Append(q.done, Head(q.queued))
         \/ c.queued = << >> /\ c.done = q.done \o q.queued
  PROVE  Held(q) \subseteq Held(c)
<1>0. q.queued \in Seq(Nat) /\ q.done \in Seq(Nat)
  BY DEF Sound
<1>1. Held(q) = Owned(q.queued, q.done) /\ Held(c) = Owned(c.queued, c.done)
  BY HeldOwned
<1>2. CASE q.queued # << >> /\ c.queued = Tail(q.queued) /\ c.done = Append(q.done, Head(q.queued))
  BY <1>0, <1>1, <1>2, MoveKeeps
<1>3. CASE c.queued = << >> /\ c.done = q.done \o q.queued
  BY <1>0, <1>1, <1>3, FlushKeeps
<1> QED  BY <1>2, <1>3

LEMMA FlowCameraFills == IndInv /\ Flow /\ Kept /\ CameraFills => Flow'
<1> SUFFICES ASSUME IndInv, Flow, Kept, CameraFills PROVE Flow'  OBVIOUS
<1>1. UNCHANGED <<mode, vdev, udev, uvc, kstate, evq, pc, ready>> /\ cam.queued # << >>
  BY DEF CameraFills, prog, loop, CamCanFill
<1>2. cam'.queued = Tail(cam.queued) /\ cam'.done = Append(cam.done, Head(cam.queued))
  BY Known DEF CameraFills, CamState
<1>3. Held(cam) \subseteq Held(cam')
  BY <1>1, <1>2, Known, FinishedKeeps
<1>4. Pending'
  BY <1>1 DEF Flow, Pending, Once, HasOff
<1>5. Begun'
  BY <1>1, BegunAfter DEF Flow, Begun
<1>6. Around'
  BY <1>1, <1>3, AroundAfter DEF Flow, Around, Kept
<1> QED  BY <1>4, <1>5, <1>6 DEF Flow

LEMMA FlowHostReads == IndInv /\ Flow /\ Kept /\ HostReads => Flow'
<1> SUFFICES ASSUME IndInv, Flow, Kept, HostReads PROVE Flow'  OBVIOUS
<1>1. UNCHANGED <<mode, vdev, udev, cam, kstate, evq, pc, ready>>
  BY DEF HostReads, prog, loop
<1>2. uvc.queued # << >> /\ udev.first
  BY DEF HostReads, HostCanRead, Flow, Begun
<1>3. /\ uvc'.queued = Tail(uvc.queued) /\ uvc'.done = Append(uvc.done, Head(uvc.queued))
      /\ uvc'.on = uvc.on /\ uvc'.bufs = uvc.bufs /\ uvc'.gone = uvc.gone
  BY Known DEF HostReads, UvcState
<1>4. Held(uvc) \subseteq Held(uvc')
  BY <1>2, <1>3, Known, FinishedKeeps
<1>5. Pending'
  BY <1>1, <1>3 DEF Flow, Pending, Once, HasOff
<1>6. Begun'
  BY <1>1, <1>2, <1>3, BegunAfter DEF Flow, Begun
<1>7. Shared(vdev', uvc') = Shared(vdev, uvc)
  BY <1>1, <1>3 DEF Shared
<1>8. Around'
  BY <1>1, <1>3, <1>4, <1>7, AroundAfter DEF Flow, Around, Kept
<1> QED  BY <1>5, <1>6, <1>8 DEF Flow

\* Transfers end with errors, alone or as the endpoint is disabled.
LEMMA CancelledFields ==
  ASSUME uvc \in UvcState, NEW gone \in BOOLEAN, NEW c, c \in {Cancelled, [Cancelled EXCEPT !.gone = gone]}
  PROVE  /\ c.queued = << >> /\ c.done = uvc.done \o uvc.queued
         /\ c.on = uvc.on /\ c.bufs = uvc.bufs
         /\ c = Cancelled => c.gone = uvc.gone
BY DEF Cancelled, UvcState

LEMMA FlowTransferFails == IndInv /\ Flow /\ Kept /\ TransferFails => Flow'
<1> SUFFICES ASSUME IndInv, Flow, Kept, TransferFails PROVE Flow'  OBVIOUS
<1>1. UNCHANGED <<mode, vdev, udev, cam, kstate, evq, pc, ready>> /\ uvc' = Cancelled
  BY DEF TransferFails, prog, loop
<1>2. udev.first
  BY DEF TransferFails, HostCanRead, Flow, Begun
<1>3. /\ uvc'.queued = << >> /\ uvc'.done = uvc.done \o uvc.queued
      /\ uvc'.on = uvc.on /\ uvc'.bufs = uvc.bufs /\ uvc'.gone = uvc.gone
  BY <1>1, Known, CancelledFields
<1>4. Held(uvc) \subseteq Held(uvc')
  BY <1>3, Known, FinishedKeeps
<1>5. Pending'
  BY <1>1, <1>3 DEF Flow, Pending, Once, HasOff
<1>6. Begun'
  BY <1>1, <1>2, <1>3, BegunAfter DEF Flow, Begun
<1>7. Shared(vdev', uvc') = Shared(vdev, uvc)
  BY <1>1, <1>3 DEF Shared
<1>8. Around'
  BY <1>1, <1>3, <1>4, <1>7, AroundAfter DEF Flow, Around, Kept
<1> QED  BY <1>5, <1>6, <1>8 DEF Flow

LEMMA FlowDisconnect == IndInv /\ Flow /\ Kept /\ (HostStreamOff \/ HostReset) => Flow'
<1> SUFFICES ASSUME IndInv, Flow, Kept, HostStreamOff \/ HostReset PROVE Flow'  OBVIOUS
<1>1. UNCHANGED <<mode, vdev, udev, cam, pc, ready>> /\ kstate = "streaming" /\ kstate' = "connected"
  BY DEF HostStreamOff, HostReset, Disconnect, prog, loop
<1>2. uvc.on /\ udev.first /\ ~HasOff(evq) /\ Once(evq)
  BY <1>1 DEF Flow, Pending, Begun
<1>3. PICK gone \in BOOLEAN : uvc' = [Cancelled EXCEPT !.gone = gone]
  BY DEF HostStreamOff, HostReset, Disconnect
<1>4. uvc'.on = uvc.on /\ uvc'.bufs = uvc.bufs
  BY <1>3, Known, CancelledFields
<1>5. Once(evq') /\ (evq' = evq \/ evq' # << >>)
  <2>1. CASE HostStreamOff
    BY <1>2, <2>1, EventAppend DEF HostStreamOff, Event
  <2>2. CASE HostReset
    BY <1>2, <2>2 DEF HostReset
  <2> QED  BY <2>1, <2>2
<1>6. Pending'
  <2>1. uvc'.on /\ udev'.first /\ kstate' # "streaming"
    BY <1>1, <1>2, <1>4
  <2>2. pc' = "events" /\ "events" \in ready' => evq' # << >>
    BY <1>1, <1>5 DEF Flow, Pending
  <2> QED  BY <1>5, <2>1, <2>2 DEF Pending, Once, HasOff
<1>7. Begun'
  BY <1>1, <1>2, <1>4, BegunAfter DEF Flow, Begun
<1>8. Around'
  BY <1>1, <1>2, AroundAfter
<1> QED  BY <1>6, <1>7, <1>8 DEF Flow

-----------------------------------------------------------------------------
LEMMA Delivered ==
  ASSUME Flow, NEW event, Deliver(event)
  PROVE  /\ mode' = mode /\ pc' # "events" /\ Once(evq') /\ Head(evq) = event
         /\ HasOff(evq') => HasOff(evq) /\ event # "STREAMOFF"
         /\ event = "STREAMOFF" => HasOff(evq)
         /\ HasOff(evq) => HasOff(evq') \/ event = "STREAMOFF"
<1>1. mode' = mode /\ pc' = "uvc" /\ evq' = Tail(evq) /\ Head(evq) = event
  BY DEF Deliver, Serve, After
<1>2. Once(evq) /\ evq # << >>
  BY DEF Deliver, Serve, Flow, Pending
<1>3. event = "STREAMOFF" => HasOff(evq)
  <2>1. 1 \in 1 .. Len(evq) /\ Head(evq) = evq[1]
    BY <1>2 DEF Once
  <2> QED  BY <1>1, <2>1 DEF HasOff
<1> QED  BY <1>1, <1>2, <1>3, EventTail

LEMMA FlowStreamOff == IndInv /\ Flow /\ Kept /\ HandleStreamOff => Flow'
<1> SUFFICES ASSUME IndInv, Flow, Kept, HandleStreamOff PROVE Flow'  OBVIOUS
<1>1. /\ mode' = mode /\ pc' # "events" /\ Once(evq') /\ kstate' = kstate
      /\ ~HasOff(evq') /\ HasOff(evq)
  BY Delivered DEF HandleStreamOff
<1>2. udev.streaming /\ kstate' # "streaming"
  BY <1>1 DEF Flow, Pending, Begun
<1>3. /\ uvc' = [Requested(0) EXCEPT !.gone = FALSE]
      /\ udev' = [udev EXCEPT !.streaming = FALSE, !.first = FALSE]
  BY <1>2 DEF HandleStreamOff, StopStreaming
<1>4. ~uvc'.gone /\ uvc'.bad = {} /\ udev'.first = FALSE /\ udev'.streaming = FALSE
  BY <1>3, Known DEF Requested, Idle, UvcState, UdevState
<1>5. Held(uvc') = {}
  BY <1>3, Known, IdleEmpty, Emptied
<1>6. ~vdev'.streaming
  BY Known DEF HandleStreamOff, StopCapturing, VdevState
<1>7. Pending'
  BY <1>1 DEF Pending, Once, HasOff
<1>8. Begun'
  BY <1>1, <1>2, <1>4, <1>5, <1>6, BegunAfter
<1>9. Around'
  BY <1>1, <1>6, AroundAfter
<1> QED  BY <1>7, <1>8, <1>9 DEF Flow

\* STREAMON queues all the camera's buffers, or the camera does not start.
LEMMA ConcatKeeps ==
  ASSUME NEW q \in Seq(Nat), NEW h \in Seq(Nat), NEW r \in Seq(Nat)
  PROVE  Owned(q, h) \cup Owned(r, << >>) \subseteq Owned(q \o r, h)
<1> DEFINE c == q \o r
<1>1. /\ Len(q) \in Nat /\ Len(r) \in Nat /\ Len(c) = Len(q) + Len(r)
      /\ \A k \in 1 .. Len(q) : c[k] = q[k]
      /\ \A k \in 1 .. Len(r) : c[Len(q) + k] = r[k]
  OBVIOUS
<1> HIDE DEF c
<1>2. /\ \A k \in 1 .. Len(q) : k \in 1 .. Len(c)
      /\ \A k \in 1 .. Len(r) : Len(q) + k \in 1 .. Len(c)
  BY <1>1
<1>3. Owned(q, h) \subseteq Owned(c, h)
  BY <1>1, <1>2 DEF Owned
<1>4. ASSUME NEW x \in Owned(r, << >>) PROVE x \in Owned(c, h)
  <2>1. PICK k \in 1 .. Len(r) : x = r[k]
    BY EmptyFacts DEF Owned
  <2>2. Len(q) + k \in 1 .. Len(c) /\ c[Len(q) + k] = x
    BY <1>1, <1>2, <2>1
  <2> QED  BY <2>2 DEF Owned
<1> QED  BY <1>3, <1>4 DEF c

LEMMA QueueCameraKeeps ==
  ASSUME IndInv, QueueCamera
  PROVE  /\ Held(cam) \subseteq Held(cam') /\ vdev'.nbufs = vdev.nbufs
         /\ vdev'.streaming => vdev.streaming \/ 0 .. vdev.nbufs - 1 \subseteq Held(cam')
<1>0. PICK n \in 0 .. CameraQueued :
        LET queued == [cam EXCEPT !.queued = @ \o InOrder(n)]
            counted == [vdev EXCEPT !.out = @ + n]
        IN  /\ cam' = queued \/ cam' = [queued EXCEPT !.on = TRUE]
            /\ vdev' = counted \/ (n = vdev.nbufs /\ vdev' = [counted EXCEPT !.streaming = TRUE])
  BY DEF QueueCamera
<1>1. n \in Nat
  BY CameraQueuedFacts
<1> DEFINE queued == [cam EXCEPT !.queued = @ \o InOrder(n)]
           counted == [vdev EXCEPT !.out = @ + n]
<1>2. cam' = queued \/ cam' = [queued EXCEPT !.on = TRUE]
  BY <1>0
<1>3. vdev' = counted \/ (n = vdev.nbufs /\ vdev' = [counted EXCEPT !.streaming = TRUE])
  BY <1>0
<1>4. cam'.queued = cam.queued \o InOrder(n) /\ cam'.done = cam.done
  BY <1>2, Known DEF CamState
<1>5. /\ vdev'.nbufs = vdev.nbufs
      /\ vdev'.streaming => vdev.streaming \/ n = vdev.nbufs
  BY <1>3, Known DEF VdevState
<1> HIDE DEF queued, counted
<1>6. InOrder(n) \in Seq(Nat) /\ Owned(InOrder(n), << >>) = 0 .. n - 1
  BY <1>1, AllFacts, AllOwned DEF InOrder
<1>7. Held(cam) \subseteq Held(cam') /\ 0 .. n - 1 \subseteq Held(cam')
  <2>1. cam.queued \in Seq(Nat) /\ cam.done \in Seq(Nat)
    BY Known DEF Sound
  <2>2. Held(cam) = Owned(cam.queued, cam.done) /\ Held(cam') = Owned(cam'.queued, cam'.done)
    BY HeldOwned
  <2>3. Owned(cam.queued, cam.done) \cup Owned(InOrder(n), << >>) \subseteq Owned(cam.queued \o InOrder(n), cam.done)
    BY <1>6, <2>1, ConcatKeeps
  <2> QED  BY <1>4, <1>6, <2>2, <2>3
<1> QED  BY <1>5, <1>7

LEMMA FlowStreamOn == IndInv /\ Flow /\ Kept /\ HandleStreamOn => Flow'
<1> SUFFICES ASSUME IndInv, Flow, Kept, HandleStreamOn PROVE Flow'  OBVIOUS
<1>1. mode' = mode /\ pc' # "events" /\ Once(evq') /\ (HasOff(evq') => HasOff(evq))
  BY Delivered DEF HandleStreamOn
<1>2. CASE uvc.on /\ UNCHANGED <<prog, cam, uvc, kstate>>
  BY <1>1, <1>2, FlowAside DEF prog
<1>3. ASSUME ~uvc.on PROVE ~HasOff(evq') /\ kstate # "streaming"
  BY <1>1, <1>3 DEF Flow, Pending, Begun
<1>4. ASSUME ~uvc.on PROVE Pending'
  BY <1>1, <1>3, <1>4 DEF Pending, Once, HasOff
<1>5. CASE ~uvc.on /\ mode = "camera" /\ uvc' = Requested(NBufs) /\ QueueCamera /\ UNCHANGED <<udev, kstate>>
  <2>1. uvc'.bufs = NBufs /\ uvc'.bad = {} /\ uvc'.gone = uvc.gone
    BY <1>5, Known DEF Requested, Idle, UvcState
  <2>2. Held(uvc') = {}
    BY <1>5, Known, IdleEmpty, Emptied
  <2>3. /\ Held(cam) \subseteq Held(cam') /\ vdev'.nbufs = vdev.nbufs
        /\ vdev'.streaming => vdev.streaming \/ 0 .. vdev.nbufs - 1 \subseteq Held(cam')
    BY <1>5, QueueCameraKeeps
  <2>4. Begun'
    BY <1>1, <1>3, <1>5, <2>1, <2>2, BegunAfter DEF Flow, Begun
  <2>5. ASSUME vdev'.streaming, ~udev.first, NoneLost' PROVE Shared(vdev', uvc') \subseteq Held(cam')
    <3>1. CASE vdev.streaming
      <4>1. Shared(vdev', uvc') = Shared(vdev, uvc)
        BY <1>5, <2>1, <2>3, <3>1 DEF Shared, Flow, Begun
      <4>2. Held(uvc) = {}
        BY <1>5, <2>5 DEF Flow, Begun
      <4> QED  BY <1>5, <2>3, <2>5, <3>1, <4>1, <4>2 DEF Flow, Around, Kept
    <3>2. CASE 0 .. vdev.nbufs - 1 \subseteq Held(cam')
      BY <2>3, <3>2 DEF Shared
    <3> QED  BY <2>3, <2>5, <3>1, <3>2
  <2>6. Around'
    BY <1>1, <1>3, <1>5, <2>5, AroundAfter
  <2> QED  BY <1>4, <1>5, <2>4, <2>6 DEF Flow
<1>6. CASE ~uvc.on /\ mode = "pattern" /\ StartPattern /\ UNCHANGED <<vdev, cam>>
  <2>1. PICK n \in 0 .. NBufs :
          LET queued == [Requested(NBufs) EXCEPT !.queued = InOrder(n)]
              counted == [udev EXCEPT !.out = @ + n]
              started == [counted EXCEPT !.streaming = TRUE, !.first = TRUE]
          IN  \/ kstate' = kstate /\ udev' = counted
              \/ kstate' = kstate /\ udev' = started
              \/ uvc' = [queued EXCEPT !.on = TRUE] /\ udev' = [started EXCEPT !.shutdown = FALSE]
    BY <1>6 DEF StartPattern
  <2> DEFINE queued == [Requested(NBufs) EXCEPT !.queued = InOrder(n)]
             counted == [udev EXCEPT !.out = @ + n]
             started == [counted EXCEPT !.streaming = TRUE, !.first = TRUE]
  <2>2. counted.first = counted.streaming
    BY Known DEF Flow, Begun, UdevState
  <2>3. started.first /\ started.streaming
    BY Known DEF UdevState
  <2>4. [started EXCEPT !.shutdown = FALSE].first /\ [started EXCEPT !.shutdown = FALSE].streaming
    BY Known DEF UdevState
  <2>5. [queued EXCEPT !.on = TRUE].on
    BY Known DEF Requested, Idle, UvcState
  <2>6. udev'.first = udev'.streaming
    BY <2>1, <2>2, <2>3, <2>4
  <2>7. kstate' = "streaming" => uvc'.on /\ udev'.first
    BY <1>3, <1>6, <2>1, <2>4, <2>5
  <2>8. Begun'
    BY <1>1, <1>6, <2>6, <2>7, BegunAfter
  <2>9. Around'
    BY <1>1, <1>6, AroundAfter
  <2> QED  BY <1>4, <1>6, <2>8, <2>9 DEF Flow
<1> QED  BY <1>2, <1>5, <1>6 DEF HandleStreamOn

-----------------------------------------------------------------------------
LEMMA TakenKeeps ==
  ASSUME NEW q, Sound(q), q.done # << >>, NEW c, c.queued = q.queued, c.done = Tail(q.done)
  PROVE  Held(q) \ {Head(q.done)} \subseteq Held(c)
<1>1. q.queued \in Seq(Nat) /\ q.done \in Seq(Nat)
  BY DEF Sound
<1>2. Held(q) = Owned(q.queued, q.done) /\ Held(c) = Owned(c.queued, c.done)
  BY HeldOwned
<1> QED  BY <1>1, <1>2, TailKeeps

LEMMA GivenKeeps ==
  ASSUME NEW q, Sound(q), NEW i \in Nat, NEW c, c.queued = Append(q.queued, i), c.done = q.done
  PROVE  Held(q) \cup {i} \subseteq Held(c)
<1>1. q.queued \in Seq(Nat) /\ q.done \in Seq(Nat)
  BY DEF Sound
<1>2. Held(q) = Owned(q.queued, q.done) /\ Held(c) = Owned(c.queued, c.done)
  BY HeldOwned
<1> QED  BY <1>1, <1>2, AppendKeeps

LEMMA FlowGiveBack ==
  ASSUME IndInv, Flow, Kept, GiveBack, UNCHANGED <<mode, kstate, evq>>, pc' # "events", mode = "camera",
         uvc.done # << >>, udev.first
  PROVE  Flow'
<1> DEFINE i == Head(uvc.done)
<1>1. /\ uvc'.queued = uvc.queued /\ uvc'.done = Tail(uvc.done)
      /\ uvc'.on = uvc.on /\ uvc'.bufs = uvc.bufs /\ uvc'.gone = uvc.gone
  BY Known DEF GiveBack, UvcDequeued, UvcState
<1>2. Held(uvc) \ {i} \subseteq Held(uvc') /\ i \in Nat
  <2>1. i \in Nat
    BY UvcDequeuedFacts
  <2>2. Held(uvc) \ {i} \subseteq Held(uvc')
    BY <1>1, Known, TakenKeeps
  <2> QED  BY <2>1, <2>2
<1>3. udev'.first = udev.first /\ udev'.streaming = udev.streaming
  BY Known DEF GiveBack, DropFlagged, UdevState
<1>4. vdev'.nbufs = vdev.nbufs /\ vdev'.streaming = vdev.streaming
  BY Known DEF GiveBack, VdevState
<1>5. \/ udev'.shutdown /\ UNCHANGED <<cam, vdev>>
      \/ udev'.shutdown = udev.shutdown /\ (Held(cam) \cup {i} \subseteq Held(cam') \/ ~NoneLost')
  <2>1. CASE udev' = DropFlagged /\ UNCHANGED <<cam, vdev>>
    BY <2>1, Known DEF DropFlagged, UdevState
  <2>2. CASE udev' = [udev EXCEPT !.out = @ - 1] /\ i \in Held(cam) /\ UNCHANGED <<cam, vdev>>
    BY <2>2, Known DEF UdevState
  <2>3. CASE udev' = [udev EXCEPT !.out = @ - 1] /\ cam' = [cam EXCEPT !.queued = Append(@, i)]
    <3>1. udev'.shutdown = udev.shutdown
      BY <2>3, Known DEF UdevState
    <3> HIDE DEF i
    <3>2. cam'.queued = Append(cam.queued, i) /\ cam'.done = cam.done
      BY <2>3, Known DEF CamState
    <3> QED  BY <1>2, <3>1, <3>2, Known, GivenKeeps
  <2>4. CASE udev' = [udev EXCEPT !.out = @ - 1] /\ Fault("qbuf")
    BY <2>4, Known DEF UdevState, Kept
  <2> QED  BY <2>1, <2>2, <2>3, <2>4 DEF GiveBack
<1> HIDE DEF i
<1>6. Pending'
  <2>1. HasOff(evq') => uvc'.on /\ udev'.first /\ kstate' # "streaming"
    BY <1>1, <1>3 DEF Flow, Pending
  <2> QED  BY <2>1 DEF Flow, Pending, Once, HasOff
<1>7. Begun'
  BY <1>1, <1>3, <1>4, BegunAfter DEF Flow, Begun
<1>8. Shared(vdev', uvc') = Shared(vdev, uvc)
  BY <1>1, <1>4 DEF Shared
<1>9. Around'
  BY <1>1, <1>2, <1>3, <1>4, <1>5, <1>8, AroundAfter DEF Flow, Around, Kept
<1> QED  BY <1>6, <1>7, <1>9 DEF Flow

LEMMA FlowRefill ==
  ASSUME IndInv, Flow, Kept, Refill, UNCHANGED <<mode, kstate, evq>>, pc' # "events", mode = "pattern",
         udev.streaming, uvc.done # << >>
  PROVE  Flow'
<1>1. uvc'.on = uvc.on /\ uvc'.gone = uvc.gone
  BY Known DEF Refill, UvcDequeued, UvcState
<1>2. udev'.first = udev.first /\ udev'.streaming = udev.streaming
  BY Known DEF Refill, UdevState
<1>3. udev.first
  BY DEF Flow, Begun
<1>4. Pending'
  <2>1. HasOff(evq') => uvc'.on /\ udev'.first /\ kstate' # "streaming"
    BY <1>1, <1>2 DEF Flow, Pending
  <2> QED  BY <2>1 DEF Flow, Pending, Once, HasOff
<1>5. Begun'
  BY <1>1, <1>2, <1>3, BegunAfter DEF Flow, Begun
<1>6. Around'
  BY AroundAfter
<1> QED  BY <1>4, <1>5, <1>6 DEF Flow

LEMMA FlowProcessUvc == IndInv /\ Flow /\ Kept /\ ProcessUvc => Flow'
<1> SUFFICES ASSUME IndInv, Flow, Kept, ProcessUvc PROVE Flow'  OBVIOUS
<1>1. UNCHANGED <<mode, kstate, evq>> /\ pc' # "events"
  BY DEF ProcessUvc, Serve, After
<1>2. CASE UNCHANGED <<uvc, udev, cam, vdev>>
  BY <1>1, <1>2, FlowAside DEF Flow, Pending
<1>3. CASE GiveBack /\ mode = "camera" /\ uvc.done # << >> /\ udev.first
  BY <1>1, <1>3, FlowGiveBack
<1>4. CASE Refill /\ mode # "camera" /\ uvc.done # << >> /\ udev.streaming
  BY <1>1, <1>4, Known, FlowRefill
<1> QED  BY <1>2, <1>3, <1>4 DEF ProcessUvc

LEMMA FlowQueueToUvc ==
  ASSUME IndInv, Flow, Kept, QueueToUvc, UNCHANGED <<mode, evq>>, pc' # "events", mode = "camera",
         vdev'.nbufs = vdev.nbufs, vdev.streaming,
         cam.done # << >>, Held(cam) \ {Head(cam.done)} \subseteq Held(cam'), Head(cam.done) \in Nat
  PROVE  Flow'
<1> DEFINE i == Head(cam.done)
           queued == [uvc EXCEPT !.queued = Append(@, i)]
           counted == [udev EXCEPT !.out = Count]
           first == [counted EXCEPT !.first = TRUE, !.streaming = TRUE]
<1>1. \/ udev.first /\ uvc' = queued /\ udev' = counted /\ kstate' = kstate
      \/ /\ ~udev.first /\ uvc' = [queued EXCEPT !.on = TRUE]
         /\ udev' = [first EXCEPT !.shutdown = FALSE] /\ kstate' = "streaming"
      \/ ~udev.first /\ uvc' = queued /\ udev' = first /\ kstate' = kstate
  BY DEF QueueToUvc
<1>2. /\ uvc'.queued = Append(uvc.queued, i) /\ uvc'.done = uvc.done
      /\ uvc'.bufs = uvc.bufs /\ uvc'.gone = uvc.gone
      /\ uvc'.on = uvc.on \/ (~udev.first /\ uvc'.on)
  BY <1>1, Known DEF UvcState
<1>3. udev'.first /\ udev'.streaming /\ (udev.first => udev'.shutdown = udev.shutdown)
  BY <1>1, Known DEF UdevState, Flow, Begun
<1>4. /\ udev.first => kstate' = kstate
      /\ ~udev.first => kstate # "streaming" /\ ~HasOff(evq)
      /\ ~udev.first /\ kstate' = "streaming" => uvc'.on
  <2>1. ~udev.first => kstate # "streaming" /\ ~HasOff(evq)
    BY DEF Flow, Pending, Begun
  <2>2. uvc' = [queued EXCEPT !.on = TRUE] => uvc'.on
    BY Known DEF UvcState
  <2> QED  BY <1>1, <2>1, <2>2
<1> HIDE DEF i, queued, counted, first
<1>5. Held(uvc) \cup {i} \subseteq Held(uvc')
  BY <1>2, Known, GivenKeeps DEF i
<1>6. Pending'
  <2>1. HasOff(evq) => udev.first /\ uvc.on /\ kstate # "streaming"
    BY DEF Flow, Pending
  <2>2. HasOff(evq) => uvc'.on /\ udev'.first /\ kstate' # "streaming"
    BY <1>2, <1>3, <1>4, <2>1
  <2> QED  BY <2>2 DEF Flow, Pending, Once, HasOff
<1>7. Begun'
  BY <1>2, <1>3, <1>4, BegunAfter DEF Flow, Begun
<1>8. Shared(vdev', uvc') = Shared(vdev, uvc)
  BY <1>2 DEF Shared
<1>9. Held(cam) \cup Held(uvc) \subseteq Held(cam') \cup Held(uvc')
  BY <1>5 DEF i
<1>10. Around'
  BY <1>2, <1>3, <1>4, <1>8, <1>9, AroundAfter DEF Flow, Around, Kept
<1> QED  BY <1>6, <1>7, <1>10 DEF Flow

\* The camera's first finished buffer, handed on or not.
LEMMA CamTaken ==
  ASSUME IndInv, cam.done # << >>, cam' = CamDequeued, vdev' = [vdev EXCEPT !.out = @ - 1]
  PROVE  /\ Held(cam) \ {Head(cam.done)} \subseteq Held(cam') /\ Head(cam.done) \in Nat
         /\ vdev'.nbufs = vdev.nbufs /\ vdev'.streaming = vdev.streaming /\ cam'.on = cam.on
<1>1. cam'.queued = cam.queued /\ cam'.done = Tail(cam.done) /\ cam'.on = cam.on
  BY Known DEF CamDequeued, CamState
<1>2. Held(cam) \ {Head(cam.done)} \subseteq Held(cam')
  BY <1>1, Known, TakenKeeps
<1>3. Head(cam.done) \in Nat
  BY Known DEF CamState
<1>4. vdev'.nbufs = vdev.nbufs /\ vdev'.streaming = vdev.streaming
  BY Known DEF VdevState
<1> QED  BY <1>1, <1>2, <1>3, <1>4

LEMMA FlowProcessCamera == IndInv /\ Flow /\ Kept /\ ProcessCamera => Flow'
<1> SUFFICES ASSUME IndInv, Flow, Kept, ProcessCamera PROVE Flow'  OBVIOUS
<1>1. UNCHANGED <<mode, evq>> /\ pc' # "events"
  BY DEF ProcessCamera, Serve, After
<1> DEFINE i == Head(cam.done)
<1>2. CASE UNCHANGED <<uvc, udev, cam, vdev, kstate>>
  BY <1>1, <1>2, FlowAside DEF Flow, Pending
<1>3. CASE /\ vdev.streaming /\ cam.done # << >>
           /\ cam' = CamDequeued /\ vdev' = [vdev EXCEPT !.out = @ - 1]
           /\ \/ (i >= uvc.bufs \/ i \in Held(uvc)) /\ UNCHANGED <<uvc, udev, kstate>>
              \/ uvc.gone /\ udev' = [udev EXCEPT !.shutdown = TRUE] /\ UNCHANGED <<uvc, kstate>>
              \/ QueueToUvc
              \/ UNCHANGED <<uvc, udev, kstate>> /\ Fault("qbuf")
  <2>1. /\ Held(cam) \ {i} \subseteq Held(cam') /\ i \in Nat
        /\ vdev'.nbufs = vdev.nbufs /\ vdev'.streaming = vdev.streaming
    BY <1>3, CamTaken
  <2>2. mode = "camera"
    BY <1>3, Known
  <2> HIDE DEF i
  <2>3. CASE QueueToUvc
    BY <1>1, <1>3, <2>1, <2>2, <2>3, FlowQueueToUvc DEF i
  <2>4. CASE (i >= uvc.bufs \/ i \in Held(uvc)) /\ UNCHANGED <<uvc, udev, kstate>>
    <3>1. Pending'
      BY <1>1, <2>4 DEF Flow, Pending, Once, HasOff
    <3>2. Begun'
      BY <1>1, <2>1, <2>4, BegunAfter DEF Flow, Begun
    <3>3. Shared(vdev', uvc') = Shared(vdev, uvc) /\ (i \in Shared(vdev, uvc) => i \in Held(uvc))
      <4>1. uvc.bufs \in Nat
        BY Known DEF UvcState
      <4> QED  BY <2>1, <2>4, <4>1 DEF Shared
    <3>4. Around'
      BY <1>1, <2>1, <2>4, <3>3, AroundAfter DEF Flow, Around, Kept
    <3> QED  BY <3>1, <3>2, <3>4 DEF Flow
  <2>5. CASE uvc.gone /\ udev' = [udev EXCEPT !.shutdown = TRUE] /\ UNCHANGED <<uvc, kstate>>
    <3>1. udev'.first = udev.first /\ udev'.streaming = udev.streaming /\ udev.first
      BY <2>2, <2>5, Known DEF UdevState, Flow, Begun
    <3>2. Pending'
      BY <1>1, <2>5, <3>1 DEF Flow, Pending, Once, HasOff
    <3>3. Begun'
      BY <1>1, <2>1, <2>5, <3>1, BegunAfter DEF Flow, Begun
    <3>4. Around'
      BY <1>1, <2>5, <3>1, AroundAfter
    <3> QED  BY <3>2, <3>3, <3>4 DEF Flow
  <2>6. CASE UNCHANGED <<uvc, udev, kstate>> /\ Fault("qbuf")
    <3>1. Pending'
      BY <1>1, <2>6 DEF Flow, Pending, Once, HasOff
    <3>2. Begun'
      BY <1>1, <2>1, <2>6, BegunAfter DEF Flow, Begun
    <3>3. Around'
      BY <1>1, <2>6, AroundAfter DEF Kept
    <3> QED  BY <3>1, <3>2, <3>3 DEF Flow
  <2> QED  BY <1>3, <2>3, <2>4, <2>5, <2>6
<1> QED  BY <1>2, <1>3 DEF ProcessCamera

LEMMA FlowStep == IndInv /\ FlowInv /\ [Next]_vars => FlowInv'
<1>0. IndInv /\ FlowInv /\ [Next]_vars => Log' /\ Kept
  BY FaultCounted, Logged DEF FlowInv
<1> SUFFICES ASSUME IndInv, FlowInv, [Next]_vars, Kept, Running' PROVE Flow'
  BY <1>0 DEF FlowInv, Flow
<1>1. Running
  BY DEF Next, Program, Environment, vars, Running, Files, Select, Skip, Timeout, StopCamera, StopUvc,
     HandleStreamOn, HandleStreamOff, Deliver, ProcessUvc, ProcessCamera, Serve,
     HostStreamOn, HostStreamOff, HostReset, TransferFails, CameraFills, HostReads, loop
<1>2. Flow
  BY <1>1 DEF FlowInv
<1>3. CASE Program
  <2>1. ~Timeout /\ ~StopCamera /\ ~StopUvc
    BY DEF Running, Files, Timeout, StopCamera, StopUvc
  <2> QED  BY <1>2, <1>3, <2>1, FlowLoop, FlowStreamOn, FlowStreamOff, FlowProcessUvc, FlowProcessCamera
           DEF Program
<1>4. CASE Environment
  BY <1>2, <1>4, FlowHostOn, FlowDisconnect, FlowTransferFails, FlowCameraFills, FlowHostReads
  DEF Environment
<1>5. CASE UNCHANGED vars
  BY <1>2, <1>5, FlowAside DEF vars, Flow, Pending
<1> QED  BY <1>3, <1>4, <1>5 DEF Next

LEMMA FlowInit == Init => FlowInv
<1>0. Init => Log
  BY DEF Init, Log
<1> SUFFICES ASSUME Init PROVE Flow
  BY <1>0 DEF FlowInv
<1>1. Pending
  BY DEF Init, Pending, Once, HasOff
<1>2. Begun
  BY DEF Init, Begun, Held, Elements
<1>3. Around
  BY DEF Init, Around
<1> QED  BY <1>1, <1>2, <1>3 DEF Flow

LEMMA FlowInductive == Safety => [](IndInv /\ FlowInv)
BY Inductive, FlowInit, FlowStep, PTL DEF Safety

\* While frames go out and nothing announced a shutdown no buffer is missing that
\* both ends know, however often the stream was begun and whatever failed before,
\* a QBUF excepted: what a driver refuses, the handlers do not queue again.
THEOREM CirculationHolds == Safety => []Circulation
<1>1. FlowInv => Circulation
  BY DEF FlowInv, Flow, Around, NoneLost, Shared, Circulation
<1> QED  BY <1>1, FlowInductive, PTL

-----------------------------------------------------------------------------
(* Without a failure the loop does not end *)

\* A camera that captures is known to stream, the UVC function streams until the
\* program is told otherwise, and nobody has announced an end to it.
Fit ==
  mode = "camera" =>
    /\ vdev.nbufs \in CameraGrants
    /\ cam.on => vdev.streaming
    /\ uvc.on => kstate = "streaming" \/ HasOff(evq)
    /\ kstate = "streaming" => ~udev.shutdown /\ ~uvc.gone /\ uvc.bad = {}
HealthInv == Healthy => Running /\ Fit

LEMMA FitAfter ==
  ASSUME mode' = mode, mode = "camera" => vdev'.nbufs = vdev.nbufs, Fit,
         mode = "camera" => /\ cam'.on => vdev'.streaming
                            /\ uvc'.on => kstate' = "streaming" \/ HasOff(evq')
                            /\ kstate' = "streaming" => ~udev'.shutdown /\ ~uvc'.gone /\ uvc'.bad = {}
  PROVE  Fit'
BY DEF Fit, HasOff

LEMMA NoFault ==
  ASSUME Log, faults' = faults, NEW f
  PROVE  ~Fault(f)
BY DEF Log, Fault

\* select() never runs into its timeout: a camera or a host that has nothing to
\* do has given its buffers away, and they are not all missing.
LEMMA NoTimeout ==
  ASSUME IndInv, Flow, Fit, Timeout, Healthy, Log, faults' = faults
  PROVE  FALSE
<1>1. /\ mode = "camera" /\ ~Ready("events") /\ ~Ready("uvc") /\ ~Ready("cam")
      /\ ~CamCanFill /\ ~HostCanRead
  BY NoFault DEF Timeout, Files
<1>2. evq = << >> /\ uvc.on /\ uvc.done = << >> /\ cam.on /\ cam.done = << >>
  <2>1. evq = << >>
    BY <1>1, Zenon DEF Ready
  <2>2. uvc.on /\ uvc.done = << >>
    BY <1>1, Zenon DEF Ready
  <2>3. cam.on /\ cam.done = << >>
    BY <1>1, Zenon DEF Ready
  <2> QED  BY <2>1, <2>2, <2>3
<1>3. ~HasOff(evq)
  BY <1>2 DEF HasOff
<1>4. kstate = "streaming" /\ vdev.streaming /\ ~udev.shutdown /\ ~uvc.gone /\ vdev.nbufs \in CameraGrants
  BY <1>1, <1>2, <1>3 DEF Fit
<1>5. uvc.queued = << >> /\ cam.queued = << >>
  BY <1>1, <1>2, <1>4 DEF CamCanFill, HostCanRead
<1>6. Held(cam) = {} /\ Held(uvc) = {}
  BY <1>2, <1>5, Emptied
<1>7. NoneLost
  BY DEF Healthy, NoneLost, Elements
<1>8. Shared(vdev, uvc) = {} /\ uvc.bufs = NBufs
  BY <1>1, <1>4, <1>6, <1>7 DEF Flow, Around, Begun
<1>9. vdev.nbufs \in 2 .. 32 /\ NBufs \in 2 .. 32
  BY <1>4, CameraGrantsAssumption, NBufsAssumption
<1> QED  BY <1>8, <1>9 DEF Shared

LEMMA FitAside ==
  ASSUME Fit, UNCHANGED <<mode, vdev, udev, cam, uvc, kstate>>, HasOff(evq) => HasOff(evq')
  PROVE  Fit'
BY FitAfter DEF Fit

LEMMA FitStreamOff == IndInv /\ Flow /\ Fit /\ HandleStreamOff => Fit'
<1> SUFFICES ASSUME IndInv, Flow, Fit, HandleStreamOff PROVE Fit'  OBVIOUS
<1>1. mode' = mode /\ kstate' = kstate /\ HasOff(evq)
  BY Delivered DEF HandleStreamOff
<1>2. udev.streaming /\ kstate' # "streaming"
  BY <1>1 DEF Flow, Pending, Begun
<1>3. uvc' = [Requested(0) EXCEPT !.gone = FALSE]
  BY <1>2 DEF HandleStreamOff, StopStreaming
<1>4. ~uvc'.on
  BY <1>3, Known DEF Requested, Idle, UvcState
<1>5. vdev'.nbufs = vdev.nbufs /\ (mode = "camera" => (cam'.on => vdev'.streaming))
  <2>1. CASE vdev.streaming
    BY <2>1, Known DEF HandleStreamOff, StopCapturing, Idle, CamState, VdevState
  <2>2. CASE ~vdev.streaming
    BY <2>2 DEF HandleStreamOff, StopCapturing, Fit
  <2> QED  BY <2>1, <2>2
<1> QED  BY <1>1, <1>2, <1>4, <1>5, FitAfter

LEMMA QueueCameraOn ==
  ASSUME IndInv, QueueCamera, Log, faults' = faults, cam.on => vdev.streaming
  PROVE  cam'.on => vdev'.streaming
<1>0. PICK n \in 0 .. CameraQueued :
        LET queued == [cam EXCEPT !.queued = @ \o InOrder(n)]
            counted == [vdev EXCEPT !.out = @ + n]
        IN  \/ cam' = queued /\ vdev' = counted
            \/ cam' = [queued EXCEPT !.on = TRUE] /\ vdev' = [counted EXCEPT !.streaming = TRUE]
  BY DEF QueueCamera
<1> DEFINE queued == [cam EXCEPT !.queued = @ \o InOrder(n)]
           counted == [vdev EXCEPT !.out = @ + n]
<1>1. \/ cam' = queued /\ vdev' = counted
      \/ cam' = [queued EXCEPT !.on = TRUE] /\ vdev' = [counted EXCEPT !.streaming = TRUE]
  BY <1>0
<1>2. queued.on = cam.on /\ counted.streaming = vdev.streaming
  BY Known DEF CamState, VdevState
<1>3. [counted EXCEPT !.streaming = TRUE].streaming
  BY Known DEF VdevState
<1> QED  BY <1>1, <1>2, <1>3

LEMMA FitStreamOn == IndInv /\ Flow /\ Fit /\ HandleStreamOn /\ Log /\ faults' = faults => Fit'
<1> SUFFICES ASSUME IndInv, Flow, Fit, HandleStreamOn, Log, faults' = faults PROVE Fit'  OBVIOUS
<1>1. mode' = mode /\ (HasOff(evq) => HasOff(evq'))
  BY Delivered DEF HandleStreamOn
<1>2. CASE uvc.on /\ UNCHANGED <<prog, cam, uvc, kstate>>
  BY <1>1, <1>2, FitAside DEF prog
<1>3. CASE ~uvc.on /\ mode = "camera" /\ uvc' = Requested(NBufs) /\ QueueCamera /\ UNCHANGED <<udev, kstate>>
  <2>1. ~uvc'.on
    BY <1>3, Known DEF Requested, Idle, UvcState
  <2>2. kstate' # "streaming"
    BY <1>3 DEF Flow, Begun
  <2>3. vdev'.nbufs = vdev.nbufs
    BY <1>3, QueueCameraKeeps
  <2>4. cam'.on => vdev'.streaming
    BY <1>3, QueueCameraOn DEF Fit
  <2> QED  BY <1>1, <2>1, <2>2, <2>3, <2>4, FitAfter
<1>4. CASE mode = "pattern"
  BY <1>1, <1>4 DEF Fit
<1> QED  BY <1>2, <1>3, <1>4 DEF HandleStreamOn

LEMMA FitProcessUvc == IndInv /\ Flow /\ Fit /\ ProcessUvc /\ Log /\ faults' = faults => Fit'
<1> SUFFICES ASSUME IndInv, Flow, Fit, ProcessUvc, Log, faults' = faults PROVE Fit'  OBVIOUS
<1>1. UNCHANGED <<mode, kstate, evq>>
  BY DEF ProcessUvc
<1>2. CASE UNCHANGED <<uvc, udev, cam, vdev>>
  BY <1>1, <1>2, FitAside
<1>3. CASE GiveBack /\ mode = "camera" /\ uvc.done # << >>
  <2>1. uvc'.on = uvc.on /\ uvc'.gone = uvc.gone /\ uvc'.bad \subseteq uvc.bad
    BY <1>3, Known DEF GiveBack, UvcDequeued, UvcState
  <2>2. vdev'.nbufs = vdev.nbufs /\ vdev'.streaming = vdev.streaming
    BY <1>3, Known DEF GiveBack, VdevState
  <2>3. cam'.on = cam.on
    BY <1>3, Known DEF GiveBack, CamState
  <2>4. uvc.bad = {} => udev'.shutdown = udev.shutdown
    BY <1>3, Known DEF GiveBack, UdevState
  <2> QED  BY <1>1, <2>1, <2>2, <2>3, <2>4, FitAfter DEF Fit
<1>4. CASE mode # "camera"
  BY <1>1, <1>4 DEF Fit
<1> QED  BY <1>2, <1>3, <1>4 DEF ProcessUvc

LEMMA FitProcessCamera ==
  IndInv /\ Flow /\ Fit /\ ProcessCamera /\ Log /\ faults' = faults => Fit'
<1> SUFFICES ASSUME IndInv, Flow, Fit, ProcessCamera, Log, faults' = faults PROVE Fit'
  OBVIOUS
<1>1. UNCHANGED <<mode, evq>>
  BY DEF ProcessCamera
<1>2. CASE UNCHANGED <<uvc, udev, cam, vdev, kstate>>
  BY <1>1, <1>2, FitAside
<1>3. CASE /\ vdev.streaming /\ cam.done # << >>
           /\ cam' = CamDequeued /\ vdev' = [vdev EXCEPT !.out = @ - 1]
           /\ \/ UNCHANGED <<uvc, udev, kstate>>
              \/ uvc.gone /\ udev' = [udev EXCEPT !.shutdown = TRUE] /\ UNCHANGED <<uvc, kstate>>
              \/ QueueToUvc
  <2>1. vdev'.nbufs = vdev.nbufs /\ vdev'.streaming = vdev.streaming /\ cam'.on = cam.on
    BY <1>3, CamTaken
  <2>2. mode = "camera"
    BY <1>3, Known
  <2>3. CASE UNCHANGED <<uvc, udev, kstate>>
    BY <1>1, <2>1, <2>3, FitAfter DEF Fit
  <2>4. CASE uvc.gone /\ udev' = [udev EXCEPT !.shutdown = TRUE] /\ UNCHANGED <<uvc, kstate>>
    BY <1>1, <2>1, <2>2, <2>4, FitAfter DEF Fit
  <2>5. CASE QueueToUvc
    <3> DEFINE queued == [uvc EXCEPT !.queued = Append(@, Head(cam.done))]
               counted == [udev EXCEPT !.out = Count]
               first == [counted EXCEPT !.first = TRUE, !.streaming = TRUE]
    <3>1. \/ udev.first /\ uvc' = queued /\ udev' = counted /\ kstate' = kstate
          \/ /\ ~udev.first /\ uvc' = [queued EXCEPT !.on = TRUE]
             /\ udev' = [first EXCEPT !.shutdown = FALSE] /\ kstate' = "streaming"
      BY <2>5, NoFault DEF QueueToUvc
    <3>2. CASE udev.first /\ uvc' = queued /\ udev' = counted /\ kstate' = kstate
      <4>1. /\ uvc'.on = uvc.on /\ uvc'.gone = uvc.gone /\ uvc'.bad = uvc.bad
            /\ udev'.shutdown = udev.shutdown
        BY <3>2, Known DEF UvcState, UdevState
      <4> QED  BY <1>1, <2>1, <3>2, <4>1, FitAfter DEF Fit
    <3>3. CASE /\ ~udev.first /\ uvc' = [queued EXCEPT !.on = TRUE]
               /\ udev' = [first EXCEPT !.shutdown = FALSE] /\ kstate' = "streaming"
      <4>1. uvc'.gone = uvc.gone /\ uvc'.bad = uvc.bad /\ ~udev'.shutdown
        BY <3>3, Known DEF UvcState, UdevState
      <4>2. ~uvc.gone /\ uvc.bad = {}
        BY <2>2, <3>3 DEF Flow, Begun
      <4> QED  BY <1>1, <2>1, <3>3, <4>1, <4>2, FitAfter DEF Fit
    <3> QED  BY <3>1, <3>2, <3>3
  <2> QED  BY <1>3, <2>3, <2>4, <2>5
<1> QED  BY <1>2, <1>3 DEF ProcessCamera

LEMMA FitEnvironment ==
  IndInv /\ Flow /\ Fit /\ Environment /\ Log /\ faults' = faults => Fit'
<1> SUFFICES ASSUME IndInv, Flow, Fit, Environment, Log, faults' = faults PROVE Fit'
  OBVIOUS
<1>1. ~HostReset /\ ~TransferFails
  BY NoFault DEF HostReset, TransferFails
<1>2. CASE HostStreamOn
  <2>1. UNCHANGED <<mode, vdev, udev, cam, uvc, kstate>> /\ evq' = Append(evq, "STREAMON")
    BY <1>2 DEF HostStreamOn, prog
  <2>2. HasOff(evq) => HasOff(evq')
    BY <2>1, EventAppend DEF Flow, Pending, Event
  <2> QED  BY <2>1, <2>2, FitAside
<1>3. CASE HostStreamOff
  <2>1. UNCHANGED <<mode, vdev, udev, cam>> /\ kstate = "streaming" /\ kstate' = "connected"
    BY <1>3 DEF HostStreamOff, Disconnect, prog
  <2>2. HasOff(evq')
    <3>1. Once(evq) /\ ~HasOff(evq)
      BY <2>1 DEF Flow, Pending
    <3> QED  BY <1>3, <3>1, EventAppend DEF HostStreamOff, Event
  <2> QED  BY <2>1, <2>2, FitAfter DEF Fit
<1>4. CASE CameraFills
  <2>1. UNCHANGED <<mode, vdev, udev, uvc, kstate, evq>>
    BY <1>4 DEF CameraFills, prog
  <2>2. cam'.on = cam.on
    BY <1>4, Known DEF CameraFills, CamState
  <2> QED  BY <2>1, <2>2, FitAfter DEF Fit
<1>5. CASE HostReads
  <2>1. UNCHANGED <<mode, vdev, udev, cam, kstate, evq>>
    BY <1>5 DEF HostReads, prog
  <2>2. uvc'.on = uvc.on /\ uvc'.gone = uvc.gone /\ uvc'.bad = uvc.bad
    BY <1>5, Known DEF HostReads, UvcState
  <2> QED  BY <2>1, <2>2, FitAfter DEF Fit
<1> QED  BY <1>1, <1>2, <1>3, <1>4, <1>5 DEF Environment

LEMMA HealthStep == IndInv /\ FlowInv /\ HealthInv /\ [Next]_vars => HealthInv'
<1> SUFFICES ASSUME IndInv, FlowInv, HealthInv, [Next]_vars PROVE HealthInv'  OBVIOUS
<1>1. faults' = << >> => faults = << >> /\ faults' = faults
  BY FaultCounted, Logged DEF FlowInv
<1>2. ASSUME faults' = << >> PROVE Running' /\ Fit'
  <2>1. /\ faults' = faults /\ Log /\ Healthy /\ Running /\ Fit /\ Flow
    BY <1>1, <1>2 DEF HealthInv, Healthy, FlowInv
  <2>2. CASE Program
    <3>1. ~Timeout /\ ~StopCamera /\ ~StopUvc
      BY <2>1, NoTimeout DEF Running, Files, StopCamera, StopUvc
    <3>2. Running'
      BY <2>2, <3>1 DEF Program, Select, Skip, HandleStreamOn, HandleStreamOff, Deliver, ProcessUvc, ProcessCamera,
         Serve, After, Files, Running
    <3>3. CASE Select \/ Skip
      <4>1. UNCHANGED <<mode, vdev, udev, cam, uvc, kstate, evq>>
        BY <3>3 DEF Select, Skip, prog
      <4> QED  BY <2>1, <3>2, <4>1, FitAside
    <3> QED  BY <2>1, <2>2, <3>1, <3>2, <3>3, FitStreamOn, FitStreamOff, FitProcessUvc, FitProcessCamera
             DEF Program
  <2>3. CASE Environment
    <3>1. pc' = pc
      BY <2>3 DEF Environment, HostStreamOn, HostStreamOff, HostReset, TransferFails, CameraFills, HostReads, loop
    <3> QED  BY <2>1, <2>3, <3>1, FitEnvironment DEF Running
  <2>4. CASE UNCHANGED vars
    BY <2>1, <2>4, FitAside DEF vars, Running
  <2> QED  BY <2>2, <2>3, <2>4 DEF Next
<1> QED  BY <1>1, <1>2 DEF HealthInv, Healthy

LEMMA HealthInit == Init => HealthInv
<1> SUFFICES ASSUME Init PROVE HealthInv  OBVIOUS
<1>1. Running
  BY DEF Init, Running
<1>2. mode = "camera" => vdev.nbufs \in CameraGrants /\ ~cam.on /\ ~uvc.on
  BY DEF Init
<1>3. kstate # "streaming"
  BY DEF Init
<1> QED  BY <1>1, <1>2, <1>3 DEF HealthInv, Fit

\* Without a failure the program never ends by itself: the two seconds of select()
\* do not pass while camera and host do their part.
THEOREM KeepsRunningHolds == Safety => []KeepsRunning
<1>1. HealthInv => KeepsRunning
  BY DEF HealthInv, KeepsRunning
<1>2. Safety => []HealthInv
  BY FlowInductive, HealthInit, HealthStep, PTL DEF Safety
<1> QED  BY <1>1, <1>2, PTL

-----------------------------------------------------------------------------
(* The control requests *)

-----------------------------------------------------------------------------
(* The table and the search in it *)

LEMMA LowestIsLeast ==
  ASSUME NEW S \in SUBSET Nat, S # {}
  PROVE  Lowest(S) \in S /\ \A j \in S : Lowest(S) <= j
BY NatHasLeast DEF Lowest

LEMMA ElementOf ==
  ASSUME NEW S, NEW s \in Seq(S), NEW i \in 1 .. Len(s)
  PROVE  s[i] \in S
  OBVIOUS

LEMMA Ends ==
  ASSUME NEW S, NEW s \in Seq(S), s # << >>
  PROVE  Len(s) \in Nat /\ 1 \in 1 .. Len(s) /\ Len(s) \in 1 .. Len(s)
  OBVIOUS

\* An entry of uvc_formats.
Entry == [mjpeg : BOOLEAN, frames : Seq([size : Nat, intervals : Seq(Nat)])]

LEMMA FormatFacts ==
  ASSUME NEW f \in 1 .. Len(Formats)
  PROVE  /\ Len(Formats) \in Nat
         /\ Formats[f].frames \in Seq([size : Nat, intervals : Seq(Nat)])
         /\ Len(Formats[f].frames) \in Nat
         /\ 1 \in 1 .. Len(Formats[f].frames)
         /\ Len(Formats[f].frames) \in 1 .. Len(Formats[f].frames)
<1>0. Formats \in Seq(Entry) /\ Formats[f].frames # << >>
  BY FormatsAssumption DEF Entry
<1>1. Formats[f] \in Entry
  BY <1>0, ElementOf
<1>2. Formats[f].frames \in Seq([size : Nat, intervals : Seq(Nat)])
  BY <1>1 DEF Entry
<1>3. Len(Formats) \in Nat
  BY <1>0
<1> QED
  BY <1>0, <1>2, <1>3, Ends

LEMMA TableFacts == Len(Formats) \in Nat /\ 1 \in 1 .. Len(Formats) /\ Len(Formats) \in 1 .. Len(Formats)
  BY FormatsAssumption

LEMMA FrameFacts ==
  ASSUME NEW f \in 1 .. Len(Formats), NEW r \in 1 .. Len(Formats[f].frames)
  PROVE  /\ Frame(f, r).intervals \in Seq(Nat)
         /\ 1 \in 1 .. Len(Frame(f, r).intervals)
         /\ \A j, k \in 1 .. Len(Frame(f, r).intervals) :
              j <= k => Frame(f, r).intervals[j] <= Frame(f, r).intervals[k]
         /\ SizeOf(f, r) \in Nat
         /\ <<f, r>> \in Indices
<1>0. Formats[f].frames \in Seq([size : Nat, intervals : Seq(Nat)])
  BY FormatFacts
<1>1. Frame(f, r) \in [size : Nat, intervals : Seq(Nat)]
  BY <1>0, ElementOf DEF Frame
<1>2. Frame(f, r).intervals \in Seq(Nat) /\ Frame(f, r).size \in Nat
  BY <1>1
<1>3. 1 \in 1 .. Len(Frame(f, r).intervals)
  BY <1>2, Ends, FormatsAssumption
<1>4. SizeOf(f, r) \in Nat
  BY <1>2, InputsAssumption DEF SizeOf
<1>5. <<f, r>> \in Indices
  BY DEF Indices
<1> QED
  BY <1>2, <1>3, <1>4, <1>5, FormatsAssumption

LEMMA IndexSize ==
  ASSUME NEW x \in Indices
  PROVE  SizeOf(x[1], x[2]) \in Nat
<1>1. PICK f \in 1 .. Len(Formats) : x \in {f} \X (1 .. Len(Formats[f].frames))
  BY DEF Indices
<1>2. x[1] = f /\ x[2] \in 1 .. Len(Formats[f].frames)
  BY <1>1
<1> QED
  BY <1>2, FrameFacts

\* The interval found is one of the frame's, and one of the frame's is found
\* when it is asked for: this is where the table has to be sorted.
LEMMA AtLeastFacts ==
  ASSUME NEW ivals \in Seq(Nat), 1 \in 1 .. Len(ivals), NEW v \in Nat
  PROVE  \E k \in 1 .. Len(ivals) : AtLeast(ivals, v) = ivals[k]
<1> DEFINE enough == {k \in 1 .. Len(ivals) : v <= ivals[k]}
<1>0. enough \in SUBSET Nat
  OBVIOUS
<1>1. CASE enough = {}
  <2>1. AtLeast(ivals, v) = ivals[Len(ivals)]
    BY <1>1 DEF AtLeast
  <2> QED
    BY <2>1
<1>2. CASE enough # {}
  <2>2. AtLeast(ivals, v) = ivals[Lowest(enough)]
    BY <1>2 DEF AtLeast
  <2> HIDE DEF enough
  <2>1. Lowest(enough) \in enough
    BY <1>0, <1>2, LowestIsLeast
  <2>3. Lowest(enough) \in 1 .. Len(ivals)
    BY <2>1 DEF enough
  <2> QED
    BY <2>2, <2>3
<1> QED
  BY <1>1, <1>2

LEMMA AtLeastFinds ==
  ASSUME NEW ivals \in Seq(Nat), NEW j \in 1 .. Len(ivals),
         \A m, k \in 1 .. Len(ivals) : m <= k => ivals[m] <= ivals[k]
  PROVE  AtLeast(ivals, ivals[j]) = ivals[j]
<1> DEFINE enough == {k \in 1 .. Len(ivals) : ivals[j] <= ivals[k]}
<1>1. j \in enough /\ enough \in SUBSET Nat
  BY ElementOf
<1>3. AtLeast(ivals, ivals[j]) = ivals[Lowest(enough)]
  BY <1>1 DEF AtLeast
<1> HIDE DEF enough
<1> DEFINE low == Lowest(enough)
<1>2. low \in enough /\ low <= j
  BY <1>1, LowestIsLeast
<1> HIDE DEF low
<1>4. low \in 1 .. Len(ivals) /\ ivals[j] <= ivals[low]
  BY <1>2 DEF enough
<1>5. ivals[low] <= ivals[j]
  BY <1>2, <1>4
<1>6. ivals[low] \in Nat /\ ivals[j] \in Nat
  BY <1>4, ElementOf
<1>7. ivals[low] = ivals[j]
  BY <1>4, <1>5, <1>6
<1> QED
  BY <1>3, <1>7 DEF low

-----------------------------------------------------------------------------
(* The settings the device offers *)

\* A setting as the table has it.
Stands(c) ==
  \E f \in 1 .. Len(Formats) : \E r \in 1 .. Len(Formats[f].frames) :
    \E k \in 1 .. Len(Frame(f, r).intervals) : c = Control(f, r, Frame(f, r).intervals[k])

LEMMA ClampFacts ==
  ASSUME NEW v \in Nat, NEW n \in Nat, 1 \in 1 .. n
  PROVE  Clamp(v, 1, n) \in 1 .. n /\ (v \in 1 .. n => Clamp(v, 1, n) = v)
  BY DEF Clamp

LEMMA ControlFacts ==
  ASSUME NEW c, Stands(c)
  PROVE  /\ c \in StreamingControls
         /\ <<c.format, c.frame>> \in Indices
         /\ c.size = SizeOf(c.format, c.frame)
         /\ Rounded(c) = c
<1>0. PICK f \in 1 .. Len(Formats) : \E r \in 1 .. Len(Formats[f].frames) :
        \E k \in 1 .. Len(Frame(f, r).intervals) : c = Control(f, r, Frame(f, r).intervals[k])
  BY DEF Stands
<1>1. PICK r \in 1 .. Len(Formats[f].frames) :
        \E k \in 1 .. Len(Frame(f, r).intervals) : c = Control(f, r, Frame(f, r).intervals[k])
  BY <1>0
<1>2. PICK k \in 1 .. Len(Frame(f, r).intervals) : c = Control(f, r, Frame(f, r).intervals[k])
  BY <1>1
<1> DEFINE ivals == Frame(f, r).intervals
<1>3. /\ f \in Nat /\ r \in Nat /\ ivals \in Seq(Nat)
      /\ \A i, j \in 1 .. Len(ivals) : i <= j => ivals[i] <= ivals[j]
      /\ SizeOf(f, r) \in Nat /\ <<f, r>> \in Indices
      /\ ivals[k] \in Nat
  <2>1. ivals \in Seq(Nat)
    BY FrameFacts
  <2>2. ivals[k] \in Nat
    BY <2>1, ElementOf
  <2>3. f \in Nat /\ r \in Nat
    BY TableFacts, FormatFacts
  <2> QED
    BY <2>1, <2>2, <2>3, FrameFacts
<1>4. c.format = f /\ c.frame = r /\ c.interval = ivals[k] /\ c.size = SizeOf(f, r)
  BY <1>2 DEF Control
<1>5. c \in StreamingControls
  BY <1>2, <1>3 DEF Control, StreamingControls
<1>6. Clamp(f, 1, Len(Formats)) = f /\ Clamp(r, 1, Len(Formats[f].frames)) = r
  <2> DEFINE n == Len(Formats[f].frames)
  <2>1. n \in Nat /\ 1 \in 1 .. n /\ r \in 1 .. n /\ r \in Nat
    BY <1>3, FormatFacts
  <2>2. Clamp(f, 1, Len(Formats)) = f
    BY <1>3, ClampFacts, TableFacts
  <2> HIDE DEF n
  <2>3. Clamp(r, 1, n) = r
    BY <2>1, ClampFacts
  <2> QED
    BY <2>2, <2>3 DEF n
<1>7. AtLeast(ivals, ivals[k]) = ivals[k]
  BY <1>3, AtLeastFinds
<1>8. Rounded(c) = c
  BY <1>2, <1>4, <1>6, <1>7 DEF Rounded
<1> QED
  BY <1>3, <1>4, <1>5, <1>8

\* Whatever the host asks for, it gets a setting of the table.
LEMMA RoundedStands ==
  ASSUME NEW asked, asked.format \in Nat, asked.frame \in Nat, asked.interval \in Nat
  PROVE  Stands(Rounded(asked))
<1> DEFINE f == Clamp(asked.format, 1, Len(Formats))
<1>1. f \in 1 .. Len(Formats)
  BY ClampFacts, TableFacts
<1> HIDE DEF f
<1> DEFINE r == Clamp(asked.frame, 1, Len(Formats[f].frames))
<1>2. r \in 1 .. Len(Formats[f].frames)
  BY <1>1, ClampFacts, FormatFacts
<1> HIDE DEF r
<1>3. PICK k \in 1 .. Len(Frame(f, r).intervals) :
        AtLeast(Frame(f, r).intervals, asked.interval) = Frame(f, r).intervals[k]
  BY <1>1, <1>2, FrameFacts, AtLeastFacts
<1>4. Rounded(asked) = Control(f, r, Frame(f, r).intervals[k])
  BY <1>3 DEF Rounded, f, r
<1> QED
  BY <1>1, <1>2, <1>4 DEF Stands

LEMMA EndsStand == Stands(FirstFormat) /\ Stands(LastFormat)
<1>1. Stands(FirstFormat)
  BY TableFacts, FormatFacts, FrameFacts DEF Stands, FirstFormat
<1> DEFINE f == Len(Formats)
<1> DEFINE r == Len(Formats[f].frames)
<1>2. f \in 1 .. Len(Formats) /\ r \in 1 .. Len(Formats[f].frames)
  BY TableFacts, FormatFacts
<1>3. 1 \in 1 .. Len(Frame(f, r).intervals)
  BY <1>2, FrameFacts
<1>4. LastFormat = Control(f, r, Frame(f, r).intervals[1])
  BY DEF LastFormat
<1>5. Stands(LastFormat)
  BY <1>2, <1>3, <1>4 DEF Stands
<1> QED
  BY <1>1, <1>5

-----------------------------------------------------------------------------
(* The inductive invariant *)

\* The three controls are settings of the table; the host may also have been
\* told zeroes, or nothing yet.
Settings ==
  /\ Stands(probe)
  /\ Stands(commit)
  /\ told = NoControl \/ Stands(told)

\* The format is the one the buffers were allocated for until a COMMIT comes.
BuffersKeep == buffers # NoFormat /\ ~late => buffers = fmt

ControlInv == ControlTypeOK /\ Settings /\ DataFindsControl /\ DrawsCommitted /\ BuffersKeep

LEMMA NoControlType == NoControl \in StreamingControls
  BY DEF NoControl, StreamingControls

LEMMA ControlInvInit == ControlInit => ControlInv
<1> SUFFICES ASSUME ControlInit PROVE ControlInv
  OBVIOUS
<1>1. Settings
  BY EndsStand DEF ControlInit, Settings
<1>2. ControlTypeOK
  <2>1. {probe, commit, told} \subseteq StreamingControls
    BY EndsStand, ControlFacts, NoControlType DEF ControlInit
  <2>2. picture \in Pictures /\ camera \in HostLevels /\ fmt \in Indices
    BY DEF ControlInit
  <2>3. errcode = NoError /\ brightness \in 0 .. MaxLevel
    BY DEF ControlInit, NoError, MaxLevel
  <2>4. /\ control = "none" /\ setting = "none" /\ buffers = NoFormat
        /\ negotiated = FALSE /\ late = FALSE /\ alive = TRUE
    BY DEF ControlInit
  <2> QED
    BY <2>1, <2>2, <2>3, <2>4 DEF ControlTypeOK
<1>3. DataFindsControl /\ DrawsCommitted /\ BuffersKeep
  BY DEF ControlInit, DataFindsControl, DrawsCommitted, BuffersKeep
<1> QED
  BY <1>1, <1>2, <1>3 DEF ControlInv

LEMMA AnswerFacts ==
  ASSUME ControlInv, NEW cs, NEW req \in {"GET_CUR", "GET_MIN", "GET_MAX", "GET_DEF", "GET_RES"}
  PROVE  /\ Answer(req, cs) \in StreamingControls
         /\ Answer(req, cs) = NoControl \/ Stands(Answer(req, cs))
<1>1. Answer(req, cs) \in {probe, commit, FirstFormat, LastFormat, NoControl}
  BY DEF Answer
<1>2. Stands(probe) /\ Stands(commit)
  BY DEF ControlInv, Settings
<1> QED
  BY <1>1, <1>2, EndsStand, ControlFacts, NoControlType

\* A SETUP touches the pending request, the error code and what was told.
LEMMA SetupStep == ControlInv /\ ProcessSetup => ControlInv'
<1> SUFFICES ASSUME ControlInv, ProcessSetup PROVE ControlInv'
  OBVIOUS
<1>0. UNCHANGED <<picture, fmt, negotiated, buffers, late, alive>>
  BY DEF ProcessSetup, stream
<1>1. /\ UNCHANGED <<probe, commit, brightness, camera>>
      /\ errcode' \in {errcode, NoError, UnknownControl, BadRequest}
      /\ \/ setting' \in {"none", "AE_MODE", "BRIGHTNESS"} /\ control' = "none"
         \/ setting' \in {"PROBE", "COMMIT"} /\ control' = setting'
      /\ told' \in StreamingControls
      /\ told' = NoControl \/ Stands(told')
  <2>0. told \in StreamingControls /\ (told = NoControl \/ Stands(told))
    BY DEF ControlInv, ControlTypeOK, Settings
  <2>1. ASSUME NEW cs \in {"PROBE", "COMMIT"}, StreamingGet(cs) PROVE <1>1!:
    BY <2>1, AnswerFacts DEF StreamingGet, ForgetControl, units
  <2>2. ASSUME NEW cs \in {"PROBE", "COMMIT"}, StreamingSetCur(cs) PROVE <1>1!:
    BY <2>0, <2>2 DEF StreamingSetCur, units
  <2>3. ASSUME NEW unit \in {"AE_MODE", "BRIGHTNESS"}, UnitRequest(unit) PROVE <1>1!:
    BY <2>0, <2>3 DEF UnitRequest, ForgetControl
  <2>4. CASE UnknownRequest
    BY <2>0, <2>4 DEF UnknownRequest, ForgetControl
  <2>5. CASE OtherRequest
    BY <2>0, <2>5 DEF OtherRequest, ForgetControl, units
  <2> QED
    BY <2>1, <2>2, <2>3, <2>4, <2>5 DEF ProcessSetup
<1>2. ControlTypeOK'
  BY <1>0, <1>1 DEF ControlInv, ControlTypeOK
<1>3. Settings'
  BY <1>1 DEF ControlInv, Settings
<1>4. DataFindsControl'
  BY <1>1 DEF DataFindsControl
<1>5. DrawsCommitted' /\ BuffersKeep'
  BY <1>0, <1>1 DEF ControlInv, DrawsCommitted, BuffersKeep
<1> QED
  BY <1>2, <1>3, <1>4, <1>5 DEF ControlInv

LEMMA AskedFacts ==
  ASSUME ControlInv, NEW asked \in Asked
  PROVE  Stands(Rounded(asked))
<1>1. asked.format \in Nat /\ asked.frame \in Nat /\ asked.interval \in Nat
  <2>1. CASE asked = told
    BY <2>1 DEF ControlInv, ControlTypeOK, StreamingControls
  <2>2. CASE asked \in [format : HostIndices, frame : HostIndices, interval : HostIntervals, size : {0}]
    BY <2>2, InputsAssumption
  <2> QED
    BY <2>1, <2>2 DEF Asked
<1> QED
  BY <1>1, RoundedStands

\* The data of a PROBE or COMMIT: only the latter changes the format, and under
\* buffers that exist it is late.
LEMMA DataStep == ControlInv /\ ProcessData => ControlInv'
<1> SUFFICES ASSUME ControlInv, ProcessData PROVE ControlInv'
  OBVIOUS
<1>0. setting # "none" /\ setting' = "none" /\ UNCHANGED <<picture, control, told, buffers, alive>>
  BY DEF ProcessData
<1>2. CASE control # "none"
  <2>1. PICK asked \in Asked : StreamingData(asked)
    BY <1>2 DEF ProcessData
  <2> DEFINE c == Rounded(asked)
  <2>2. Stands(c)
    BY AskedFacts
  <2>3. c \in StreamingControls /\ <<c.format, c.frame>> \in Indices
    BY <2>2, ControlFacts
  <2>4. /\ \/ /\ control = "PROBE" /\ probe' = c /\ commit' = commit /\ fmt' = fmt
              /\ negotiated' = negotiated /\ late' = late
           \/ /\ control = "COMMIT" /\ commit' = c /\ probe' = probe /\ fmt' = <<c.format, c.frame>>
              /\ negotiated' = TRUE /\ late' \in BOOLEAN /\ (buffers # NoFormat => late')
        /\ UNCHANGED <<errcode, brightness, camera>>
    BY <1>2, <2>1 DEF StreamingData, FormatSet, ControlInv, ControlTypeOK, units
  <2> HIDE DEF c
  <2>5. ControlTypeOK'
    BY <1>0, <2>3, <2>4 DEF ControlInv, ControlTypeOK
  <2>6. Settings'
    BY <1>0, <2>2, <2>4 DEF ControlInv, Settings
  <2>7. DataFindsControl' /\ DrawsCommitted' /\ BuffersKeep'
    BY <1>0, <2>4 DEF ControlInv, DataFindsControl, DrawsCommitted, BuffersKeep
  <2> QED
    BY <2>5, <2>6, <2>7 DEF ControlInv
<1>3. CASE control = "none"
  <2>1. PICK level \in HostLevels : BrightnessData(level)
    BY <1>3 DEF ProcessData
  <2>2. /\ UNCHANGED <<errcode, probe, commit, fmt, negotiated, late>>
        /\ brightness' \in 0 .. MaxLevel
        /\ camera' \in HostLevels
    BY <2>1, InputsAssumption DEF BrightnessData, ValidLevel, ControlInv, ControlTypeOK, MaxLevel
  <2>3. ControlTypeOK'
    BY <1>0, <2>2 DEF ControlInv, ControlTypeOK
  <2>4. Settings' /\ DataFindsControl' /\ DrawsCommitted' /\ BuffersKeep'
    BY <1>0, <2>2 DEF ControlInv, Settings, DataFindsControl, DrawsCommitted, BuffersKeep
  <2> QED
    BY <2>3, <2>4 DEF ControlInv
<1> QED
  BY <1>2, <1>3

LEMMA StreamStep == ControlInv /\ (StreamOn \/ StreamOff) => ControlInv'
<1> SUFFICES ASSUME ControlInv, StreamOn \/ StreamOff PROVE ControlInv'
  OBVIOUS
<1>1. /\ UNCHANGED <<picture, control, setting, probe, commit, told, errcode, brightness, camera, fmt, negotiated>>
      /\ alive' \in BOOLEAN /\ late' \in BOOLEAN
      /\ \/ buffers' = NoFormat
         \/ buffers' = buffers /\ late' = late
         \/ buffers' = fmt
  BY DEF StreamOn, StreamOff, units, ControlInv, ControlTypeOK
<1>2. ControlTypeOK'
  BY <1>1 DEF ControlInv, ControlTypeOK
<1>3. Settings' /\ DataFindsControl' /\ DrawsCommitted' /\ BuffersKeep'
  BY <1>1 DEF ControlInv, Settings, DataFindsControl, DrawsCommitted, BuffersKeep
<1> QED
  BY <1>2, <1>3 DEF ControlInv

\* The invariant holds in every reachable state of the control requests.
THEOREM ControlInductive == ControlSpec => []ControlInv
<1>1. ControlInv /\ [ControlNext]_controlVars => ControlInv'
  <2>1. ControlInv /\ UNCHANGED controlVars => ControlInv'
    BY DEF ControlInv, ControlTypeOK, Settings, DataFindsControl, DrawsCommitted, BuffersKeep, controlVars, units, stream
  <2> QED
    BY <2>1, SetupStep, DataStep, StreamStep DEF ControlNext
<1> QED
  BY <1>1, ControlInvInit, PTL DEF ControlSpec

\* Every variable keeps its type, and the brightness its range (1832).
THEOREM ControlTypeCorrect == ControlSpec => []ControlTypeOK
<1>1. ControlInv => ControlTypeOK
  BY DEF ControlInv
<1> QED
  BY <1>1, ControlInductive, PTL

\* What the host was told can be committed unchanged, for every table whose
\* intervals are sorted: the rounding of uvc_events_process_data (1843-1870)
\* leaves what uvc_fill_streaming_control and it have produced.
THEOREM AnswersStand == ControlSpec => []AnswerStands
<1>1. ControlInv => AnswerStands
  BY ControlFacts DEF ControlInv, Settings, AnswerStands
<1> QED
  BY <1>1, ControlInductive, PTL

\* Data reach the control the host meant, however many requests it has given up
\* (dev->control, 1724, 1668 and 1810).
THEOREM DataMeant == ControlSpec => []DataFindsControl
<1>1. ControlInv => DataFindsControl
  BY DEF ControlInv
<1> QED
  BY <1>1, ControlInductive, PTL

\* The frames drawn are those the last COMMIT says (1872-1876).
THEOREM CommittedDrawn == ControlSpec => []DrawsCommitted
<1>1. ControlInv => DrawsCommitted
  BY DEF ControlInv
<1> QED
  BY <1>1, ControlInductive, PTL

\* As long as no COMMIT has come since the buffers were allocated, no frame is
\* larger than its buffer or than the size the host negotiated, for every table
\* of formats and whatever else the host requests (uvc_video_fill_buffer 884-904,
\* uvc_video_reqbufs_userptr 1213-1250).  A COMMIT during a stream is the
\* exception the code leaves (1872-1876).
THEOREM DrawingFits == ControlSpec => []FrameFits
<1>1. ControlInv => FrameFits
  <2> SUFFICES ASSUME ControlInv, buffers # NoFormat, ~late
               PROVE  /\ SizeOf(fmt[1], fmt[2]) <= SizeOf(buffers[1], buffers[2])
                      /\ negotiated => SizeOf(fmt[1], fmt[2]) <= commit.size
    BY DEF FrameFits
  <2>1. buffers = fmt /\ SizeOf(fmt[1], fmt[2]) \in Nat
    BY IndexSize DEF ControlInv, BuffersKeep, ControlTypeOK
  <2>2. commit.size = SizeOf(commit.format, commit.frame) /\ commit.size \in Nat
    BY ControlFacts DEF ControlInv, Settings, StreamingControls
  <2>3. negotiated => fmt = <<commit.format, commit.frame>>
    BY DEF ControlInv, DrawsCommitted
  <2> QED
    BY <2>1, <2>2, <2>3
<1> QED
  BY <1>1, ControlInductive, PTL
=============================================================================
