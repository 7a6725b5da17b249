---------------------------- MODULE MjpegEncoder ----------------------------
(***************************************************************************)
(* The multi-threaded MJPEG encoder of uvc-gadget (lib/mjpeg_encoder.cpp). *)
(*                                                                         *)
(* The event loop hands frames to EncodeBuffer; NUM_ENC_THREADS encode     *)
(* threads take them from one shared queue, compress them outside every    *)
(* lock and push the result to a queue of their own; the output thread     *)
(* looks through the heads of those queues for the next frame index and    *)
(* runs the callback.  The destructor, also run by the event loop, raises  *)
(* a flag for the encode threads, joins them, raises another for the       *)
(* output thread and joins it.  It notifies nobody: a sleeping thread      *)
(* sees the flag only because each wait is limited to 200 ms.              *)
(*                                                                         *)
(* A region under a mutex is one step; the compression and the callback,   *)
(* which run outside the locks, end in steps of their own.  The abort      *)
(* flags are plain bools written without a lock: a thread that reads an    *)
(* old value behaves as if it had looked earlier, which the interleavings  *)
(* below include.                                                          *)
(***************************************************************************)
EXTENDS Naturals, Sequences

CONSTANTS Threads,        \* the encode threads, NUM_ENC_THREADS of them
          Cookies,        \* buffer identities passed through the encoder
          MaxFrames       \* bound on the frames accepted

ASSUME ThreadsAssumption == Threads # {}
ASSUME CookiesAssumption == Cookies # {}
ASSUME MaxFramesAssumption == MaxFrames \in Nat

VARIABLES
  \* members of class MjpegEncoder
  encode_queue_,          \* frames waiting for an encode thread
  output_queue_,          \* one queue of compressed frames per encode thread
  index_,                 \* index of the next frame accepted
  abortEncode_,
  abortOutput_,
  \* locals and program counters of the threads
  enc,                    \* encode threads: "look", "wait", "encode", "done"
  encode_item,            \* the frame an encode thread holds
  out,                    \* output thread: "look", "wait", "deliver", "done"
  item,                   \* the frame the output thread holds
  index,                  \* index the output thread looks for
  owner,                  \* event loop: "running", then the destructor's joins
  \* history of the two ends of the encoder
  accepted,               \* cookies passed to EncodeBuffer
  delivered               \* cookies passed to output_ready_callback_

vars == <<encode_queue_, output_queue_, index_, abortEncode_, abortOutput_,
          enc, encode_item, out, item, index, owner, accepted, delivered>>

Frame == [index : Nat, cookie : Cookies]

\* Stands for a local variable whose value is never read again.
NoFrame == [index |-> 0, cookie |-> CHOOSE c \in Cookies : TRUE]

TypeOK ==
  /\ encode_queue_ \in Seq(Frame)
  /\ output_queue_ \in [Threads -> Seq(Frame)]
  /\ index_ \in Nat
  /\ abortEncode_ \in BOOLEAN
  /\ abortOutput_ \in BOOLEAN
  /\ enc \in [Threads -> {"look", "wait", "encode", "done"}]
  /\ encode_item \in [Threads -> Frame]
  /\ out \in {"look", "wait", "deliver", "done"}
  /\ item \in Frame
  /\ index \in Nat
  /\ owner \in {"running", "joinEncode", "joinOutput", "destroyed"}
  /\ accepted \in Seq(Cookies)
  /\ delivered \in Seq(Cookies)

Init ==
  /\ encode_queue_ = << >>
  /\ output_queue_ = [t \in Threads |-> << >>]
  /\ index_ = 0
  /\ abortEncode_ = FALSE
  /\ abortOutput_ = FALSE
  /\ enc = [t \in Threads |-> "look"]
  /\ encode_item = [t \in Threads |-> NoFrame]
  /\ out = "look"
  /\ item = NoFrame
  /\ index = 0
  /\ owner = "running"
  /\ accepted = << >>
  /\ delivered = << >>

-----------------------------------------------------------------------------
(* The event loop *)

\* notify_all on encode_cond_var_
WakeEncoders == [t \in Threads |-> IF enc[t] = "wait" THEN "look" ELSE enc[t]]

NewItem(c) == [index |-> index_, cookie |-> c]

EncodeBuffer(c) ==
  /\ owner = "running"
  /\ index_ < MaxFrames
  /\ encode_queue_' = Append(encode_queue_, NewItem(c))
  /\ index_' = index_ + 1
  /\ enc' = WakeEncoders
  /\ accepted' = Append(accepted, c)
  /\ UNCHANGED <<output_queue_, abortEncode_, abortOutput_, encode_item,
                 out, item, index, owner, delivered>>

DestroyEncoder ==
  /\ owner = "running"
  /\ abortEncode_' = TRUE
  /\ owner' = "joinEncode"
  /\ UNCHANGED <<encode_queue_, output_queue_, index_, abortOutput_, enc,
                 encode_item, out, item, index, accepted, delivered>>

\* Slip: one thread is joined instead of every one.
OneEncodeThreadJoined == \E t \in Threads : enc[t] = "done"
EncodeThreadsJoined == \A t \in Threads : enc[t] = "done"

JoinEncodeThreads ==
  /\ owner = "joinEncode"
  /\ EncodeThreadsJoined
  /\ abortOutput_' = TRUE
  /\ owner' = "joinOutput"
  /\ UNCHANGED <<encode_queue_, output_queue_, index_, abortEncode_, enc,
                 encode_item, out, item, index, accepted, delivered>>

JoinOutputThread ==
  /\ owner = "joinOutput"
  /\ out = "done"
  /\ owner' = "destroyed"
  /\ UNCHANGED <<encode_queue_, output_queue_, index_, abortEncode_,
                 abortOutput_, enc, encode_item, out, item, index, accepted,
                 delivered>>

-----------------------------------------------------------------------------
(* encodeThread(num) *)

EncodeThreadExit(t) ==
  /\ enc[t] = "look"
  /\ abortEncode_
  /\ encode_queue_ = << >>
  /\ enc' = [enc EXCEPT ![t] = "done"]
  /\ UNCHANGED <<encode_queue_, output_queue_, index_, abortEncode_,
                 abortOutput_, encode_item, out, item, index, owner, accepted,
                 delivered>>

EncodeThreadTake(t) ==
  /\ enc[t] = "look"
  /\ encode_queue_ # << >>
  /\ encode_item' = [encode_item EXCEPT ![t] = Head(encode_queue_)]
  /\ encode_queue_' = Tail(encode_queue_)
  /\ enc' = [enc EXCEPT ![t] = "encode"]
  /\ UNCHANGED <<output_queue_, index_, abortEncode_, abortOutput_, out, item,
                 index, owner, accepted, delivered>>

EncodeThreadSleep(t) ==
  /\ enc[t] = "look"
  /\ ~abortEncode_
  /\ encode_queue_ = << >>
  /\ enc' = [enc EXCEPT ![t] = "wait"]
  /\ UNCHANGED <<encode_queue_, output_queue_, index_, abortEncode_,
                 abortOutput_, encode_item, out, item, index, owner, accepted,
                 delivered>>

\* Slip: wait() in place of wait_for().
EncodeThreadNoTimeout(t) == FALSE

\* wait_for returns without a notification, after 200 ms at the latest
EncodeThreadTimeout(t) ==
  /\ enc[t] = "wait"
  /\ enc' = [enc EXCEPT ![t] = "look"]
  /\ UNCHANGED <<encode_queue_, output_queue_, index_, abortEncode_,
                 abortOutput_, encode_item, out, item, index, owner, accepted,
                 delivered>>

\* Slip: the queue keeps only the newest result.
OnlyNewest(q, f) == <<f>>
Pushed(q, f) == Append(q, f)

\* The compression is over: push the result to the thread's own queue
\* and notify_one the output thread, the only waiter of output_cond_var_.
EncodeThreadPush(t) ==
  /\ enc[t] = "encode"
  /\ output_queue_' = [output_queue_ EXCEPT ![t] = Pushed(@, encode_item[t])]
  /\ encode_item' = [encode_item EXCEPT ![t] = NoFrame]
  /\ enc' = [enc EXCEPT ![t] = "look"]
  /\ out' = IF out = "wait" THEN "look" ELSE out
  /\ UNCHANGED <<encode_queue_, index_, abortEncode_, abortOutput_, item,
                 index, owner, accepted, delivered>>

EncodeThread(t) ==
  \/ EncodeThreadExit(t)
  \/ EncodeThreadTake(t)
  \/ EncodeThreadSleep(t)
  \/ EncodeThreadTimeout(t)
  \/ EncodeThreadPush(t)

-----------------------------------------------------------------------------
(* outputThread() *)

\* Slip: the head of any queue will do.
HasAny(t) == output_queue_[t] # << >>

\* The frame looked for is at the head of thread t's queue.
HasNext(t) == output_queue_[t] # << >> /\ Head(output_queue_[t]).index = index

OutputThreadTake(t) ==
  /\ out = "look"
  /\ HasNext(t)
  /\ item' = Head(output_queue_[t])
  /\ output_queue_' = [output_queue_ EXCEPT ![t] = Tail(@)]
  /\ out' = "deliver"
  /\ UNCHANGED <<encode_queue_, index_, abortEncode_, abortOutput_, enc,
                 encode_item, index, owner, accepted, delivered>>

AllQueuesEmpty == \A t \in Threads : output_queue_[t] = << >>

OutputThreadExit ==
  /\ out = "look"
  /\ abortOutput_
  /\ AllQueuesEmpty
  /\ out' = "done"
  /\ UNCHANGED <<encode_queue_, output_queue_, index_, abortEncode_,
                 abortOutput_, enc, encode_item, item, index, owner, accepted,
                 delivered>>

OutputThreadSleep ==
  /\ out = "look"
  /\ \A t \in Threads : ~HasNext(t)
  /\ ~(abortOutput_ /\ AllQueuesEmpty)
  /\ out' = "wait"
  /\ UNCHANGED <<encode_queue_, output_queue_, index_, abortEncode_,
                 abortOutput_, enc, encode_item, item, index, owner, accepted,
                 delivered>>

OutputThreadTimeout ==
  /\ out = "wait"
  /\ out' = "look"
  /\ UNCHANGED <<encode_queue_, output_queue_, index_, abortEncode_,
                 abortOutput_, enc, encode_item, item, index, owner, accepted,
                 delivered>>

\* The callback ran, outside the lock.
OutputThreadDeliver ==
  /\ out = "deliver"
  /\ delivered' = Append(delivered, item.cookie)
  /\ item' = NoFrame
  /\ index' = index + 1
  /\ out' = "look"
  /\ UNCHANGED <<encode_queue_, output_queue_, index_, abortEncode_,
                 abortOutput_, enc, encode_item, owner, accepted>>

OutputThread ==
  \/ \E t \in Threads : OutputThreadTake(t)
  \/ OutputThreadExit
  \/ OutputThreadSleep
  \/ OutputThreadTimeout
  \/ OutputThreadDeliver

-----------------------------------------------------------------------------

\* Everything is joined: nothing is left to run.
Terminated == owner = "destroyed" /\ UNCHANGED vars

Next ==
  \/ \E c \in Cookies : EncodeBuffer(c)
  \/ DestroyEncoder
  \/ JoinEncodeThreads
  \/ JoinOutputThread
  \/ \E t \in Threads : EncodeThread(t)
  \/ OutputThread
  \/ Terminated

Safety == Init /\ [][Next]_vars

\* A thread that can run does run, a timed wait ends, and join returns
\* once its thread has ended.  Nothing obliges the event loop to submit a
\* frame or to destroy the encoder.
Fairness ==
  /\ \A t \in Threads : WF_vars(EncodeThread(t))
  /\ WF_vars(OutputThread)
  /\ WF_vars(JoinEncodeThreads)
  /\ WF_vars(JoinOutputThread)

Spec == Safety /\ Fairness

-----------------------------------------------------------------------------
(* Where a frame is, by its index *)

\* Frames below this index have left the encode queue.
Taken == index_ - Len(encode_queue_)

InOutputQueue(t, i) == \E k \in 1 .. Len(output_queue_[t]) : output_queue_[t][k].index = i
InHand(t, i) == enc[t] = "encode" /\ encode_item[t].index = i
Holds(t, i) == InOutputQueue(t, i) \/ InHand(t, i)

\* A frame still carries the cookie it was accepted with.
Genuine(f) == f.index < Len(accepted) /\ f.cookie = accepted[f.index + 1]

-----------------------------------------------------------------------------
(* Properties *)

\* Every frame accepted and not yet delivered is in the hands the threads
\* pass it through: no hand-over between the two locks loses it.
NothingLost ==
  \A i \in index .. Taken - 1 :
    \/ \E t \in Threads : Holds(t, i)
    \/ out = "deliver" /\ i = index

\* The callback runs for the frames in the order in which EncodeBuffer was
\* called, with their own cookies, although the threads finish in any order.
DeliveredInOrder ==
  /\ Len(delivered) = index
  /\ index <= Len(accepted)
  /\ \A k \in 1 .. Len(delivered) : delivered[k] = accepted[k]

\* outputThread only looks at the heads of the queues.  That finds the
\* frame it waits for: once the encode threads have nothing left in hand,
\* the next frame is at the head of some queue, never behind a later one.
NextFrameAtSomeHead ==
  (/\ index < index_
   /\ encode_queue_ = << >>
   /\ \A t \in Threads : enc[t] # "encode"
   /\ out \in {"look", "wait"})
  => \E t \in Threads : HasNext(t)

\* The output thread leaves no frame behind when the destructor ends it.
DrainedAtExit == out = "done" => delivered = accepted

\* The inductive strengthening of the four, in named parts.

EncodeQueueInOrder ==
  /\ index_ = Len(accepted)
  /\ Len(encode_queue_) <= index_
  /\ \A k \in 1 .. Len(encode_queue_) :
       /\ encode_queue_[k].index = Taken + k - 1
       /\ Genuine(encode_queue_[k])

OutputQueuesInOrder ==
  \A t \in Threads :
    /\ \A k \in 1 .. Len(output_queue_[t]) :
         /\ Genuine(output_queue_[t][k])
         /\ \A j \in 1 .. k - 1 : output_queue_[t][j].index < output_queue_[t][k].index
         /\ enc[t] = "encode" => output_queue_[t][k].index < encode_item[t].index
    /\ enc[t] = "encode" => Genuine(encode_item[t])

HeldOnce ==
  \A t \in Threads : \A i \in 0 .. index_ - 1 : Holds(t, i) =>
    /\ index <= i
    /\ i < Taken
    /\ out = "deliver" => i # index
    /\ \A u \in Threads : Holds(u, i) => u = t

InDelivery ==
  /\ index <= Taken
  /\ out = "deliver" => item.index = index /\ index < Taken /\ Genuine(item)

Teardown ==
  /\ abortEncode_ <=> owner # "running"
  /\ abortOutput_ <=> owner \in {"joinOutput", "destroyed"}
  /\ \A t \in Threads : enc[t] = "done" => abortEncode_ /\ encode_queue_ = << >>
  /\ abortOutput_ => \A t \in Threads : enc[t] = "done"
  /\ out = "done" => abortOutput_ /\ index = index_
  /\ owner = "destroyed" => out = "done"

\* Between any two steps each frame is in one place, the encode queue holds
\* the newest frames, each output queue is sorted, and the teardown flags
\* agree with what has been joined.
IndInv ==
  /\ TypeOK
  /\ EncodeQueueInOrder
  /\ OutputQueuesInOrder
  /\ HeldOnce
  /\ InDelivery
  /\ NothingLost
  /\ DeliveredInOrder
  /\ Teardown

\* ~MjpegEncoder returns, although it notifies no condition variable.
DestructorReturns == owner = "joinEncode" ~> owner = "destroyed"

\* The encoder keeps the promise of FrameOrder.
Order == INSTANCE FrameOrder WITH
           phase <- CASE owner = "running" -> "open"
                      [] owner = "destroyed" -> "closed"
                      [] OTHER -> "draining"

OrderSafety == Order!Safety
OrderSpec == Order!Spec
=============================================================================
