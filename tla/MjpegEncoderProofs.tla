------------------------- MODULE MjpegEncoderProofs -------------------------
(***************************************************************************)
(* Proofs about MjpegEncoder, for any set of encode threads, any set of    *)
(* cookies and any bound on the number of frames.                          *)
(***************************************************************************)
EXTENDS MjpegEncoder, TLAPS

-----------------------------------------------------------------------------
(* Sequences used as queues *)

LEMMA AppendFacts ==
  ASSUME NEW S, NEW q \in Seq(S), NEW e \in S
  PROVE  /\ Append(q, e) \in Seq(S)
         /\ Len(Append(q, e)) = Len(q) + 1
         /\ \A k \in 1 .. Len(q) : Append(q, e)[k] = q[k]
         /\ Append(q, e)[Len(q) + 1] = e
  OBVIOUS

LEMMA TailFacts ==
  ASSUME NEW S, NEW q \in Seq(S), q # << >>
  PROVE  /\ Head(q) \in S
         /\ Head(q) = q[1]
         /\ Len(q) \in Nat \ {0}
         /\ Tail(q) \in Seq(S)
         /\ Len(Tail(q)) = Len(q) - 1
         /\ \A k \in 1 .. Len(q) - 1 : Tail(q)[k] = q[k + 1]
  OBVIOUS

-----------------------------------------------------------------------------
(* Types *)

LEMMA NoFrameType == NoFrame \in Frame
  BY CookiesAssumption DEF NoFrame, Frame

LEMMA TypeStep == TypeOK /\ [Next]_vars => TypeOK'
<1> SUFFICES ASSUME TypeOK, [Next]_vars PROVE TypeOK'
  OBVIOUS
<1> USE DEF TypeOK
<1>1. ASSUME NEW c \in Cookies, EncodeBuffer(c) PROVE TypeOK'
  <2>1. NewItem(c) \in Frame
    BY DEF Frame, NewItem
  <2>2. enc' \in [Threads -> {"look", "wait", "encode", "done"}]
    BY <1>1 DEF EncodeBuffer, WakeEncoders
  <2> QED
    BY <1>1, <2>1, <2>2, AppendFacts DEF EncodeBuffer
<1>2. CASE DestroyEncoder
  BY <1>2 DEF DestroyEncoder
<1>3. CASE JoinEncodeThreads
  BY <1>3 DEF JoinEncodeThreads
<1>4. CASE JoinOutputThread
  BY <1>4 DEF JoinOutputThread
<1>5. ASSUME NEW t \in Threads, EncodeThread(t) PROVE TypeOK'
  <2>1. CASE EncodeThreadExit(t)
    BY <2>1 DEF EncodeThreadExit
  <2>2. CASE EncodeThreadTake(t)
    BY <2>2, TailFacts DEF EncodeThreadTake
  <2>3. CASE EncodeThreadSleep(t)
    BY <2>3 DEF EncodeThreadSleep
  <2>4. CASE EncodeThreadTimeout(t)
    BY <2>4 DEF EncodeThreadTimeout
  <2>5. CASE EncodeThreadPush(t)
    BY <2>5, NoFrameType, AppendFacts DEF EncodeThreadPush, Pushed
  <2> QED
    BY <1>5, <2>1, <2>2, <2>3, <2>4, <2>5 DEF EncodeThread
<1>6. CASE OutputThread
  <2>1. ASSUME NEW t \in Threads, OutputThreadTake(t) PROVE TypeOK'
    BY <2>1, TailFacts DEF OutputThreadTake, HasNext
  <2>2. CASE OutputThreadExit
    BY <2>2 DEF OutputThreadExit
  <2>3. CASE OutputThreadSleep
    BY <2>3 DEF OutputThreadSleep
  <2>4. CASE OutputThreadTimeout
    BY <2>4 DEF OutputThreadTimeout
  <2>5. CASE OutputThreadDeliver
    <3>1. item.cookie \in Cookies
      BY DEF Frame
    <3>2. Append(delivered, item.cookie) \in Seq(Cookies)
      BY <3>1, AppendFacts
    <3> QED
      BY <2>5, <3>2, NoFrameType DEF OutputThreadDeliver
  <2> QED
    BY <1>6, <2>1, <2>2, <2>3, <2>4, <2>5 DEF OutputThread
<1>7. CASE UNCHANGED vars
  BY <1>7 DEF vars
<1> QED
  BY <1>1, <1>2, <1>3, <1>4, <1>5, <1>6, <1>7 DEF Next, Terminated

LEMMA TypeInit == Init => TypeOK
<1> SUFFICES ASSUME Init PROVE TypeOK
  OBVIOUS
<1>1. /\ << >> \in Seq(Frame)
      /\ << >> \in Seq(Cookies)
  OBVIOUS
<1>2. [t \in Threads |-> << >>] \in [Threads -> Seq(Frame)]
  BY <1>1
<1>3. [t \in Threads |-> NoFrame] \in [Threads -> Frame]
  BY NoFrameType
<1> QED
  BY <1>1, <1>2, <1>3, NoFrameType DEF Init, TypeOK

\* Every variable of the encoder keeps its type, for any number of threads.
THEOREM TypeCorrect == Safety => []TypeOK
  BY TypeInit, TypeStep, PTL DEF Safety

-----------------------------------------------------------------------------
(* The inductive invariant *)

\* The parts that do not mention the teardown.
Flow == /\ EncodeQueueInOrder
        /\ OutputQueuesInOrder
        /\ HeldOnce
        /\ InDelivery
        /\ NothingLost
        /\ DeliveredInOrder

HeldAnywhere ==
  \A t \in Threads : \A i \in Nat : Holds(t, i) =>
    /\ index <= i
    /\ i < Taken
    /\ out = "deliver" => i # index
    /\ \A u \in Threads : Holds(u, i) => u = t

LEMMA TakenFacts ==
  ASSUME TypeOK, EncodeQueueInOrder
  PROVE  /\ Taken \in Nat
         /\ Len(encode_queue_) \in Nat
         /\ Taken <= index_
         /\ index_ = Len(accepted)
         /\ encode_queue_ = << >> => Taken = index_
  BY DEF TypeOK, EncodeQueueInOrder, Taken

\* HeldOnce speaks of the indices given out; no other index is held.
LEMMA HeldEverywhere ==
  ASSUME TypeOK, Flow
  PROVE  HeldAnywhere
<1> SUFFICES ASSUME NEW t \in Threads, NEW i \in Nat, Holds(t, i)
             PROVE  i \in 0 .. index_ - 1
  BY DEF HeldAnywhere, Flow, HeldOnce
<1>1. CASE InHand(t, i)
  BY <1>1 DEF InHand, Flow, OutputQueuesInOrder, Genuine, EncodeQueueInOrder, TypeOK
<1>2. CASE InOutputQueue(t, i)
  <2>1. PICK k \in 1 .. Len(output_queue_[t]) : output_queue_[t][k].index = i
    BY <1>2 DEF InOutputQueue
  <2>2. Genuine(output_queue_[t][k])
    BY DEF Flow, OutputQueuesInOrder
  <2> QED
    BY <2>1, <2>2 DEF Genuine, Flow, EncodeQueueInOrder, TypeOK
<1> QED
  BY <1>1, <1>2 DEF Holds

LEMMA HeldRestricted ==
  ASSUME TypeOK, HeldAnywhere
  PROVE  HeldOnce
  BY DEF HeldAnywhere, HeldOnce, TypeOK

\* The index of a frame in a thread's output queue or hand, as Holds.
LEMMA HeldAt ==
  ASSUME TypeOK, NEW t \in Threads
  PROVE  /\ \A k \in 1 .. Len(output_queue_[t]) :
              /\ output_queue_[t][k] \in Frame
              /\ output_queue_[t][k].index \in Nat
              /\ Holds(t, output_queue_[t][k].index)
         /\ encode_item[t].index \in Nat
         /\ enc[t] = "encode" => Holds(t, encode_item[t].index)
<1>1. output_queue_[t] \in Seq(Frame) /\ encode_item[t] \in Frame
  BY DEF TypeOK
<1>2. \A k \in 1 .. Len(output_queue_[t]) : output_queue_[t][k] \in Frame
  BY <1>1
<1>3. \A f \in Frame : f.index \in Nat
  BY DEF Frame
<1> QED
  BY <1>1, <1>2, <1>3 DEF Holds, InOutputQueue, InHand

\* A step that moves no frame and starts or ends no hold on one.
Quiet == /\ UNCHANGED <<encode_queue_, output_queue_, index_, encode_item,
                        item, index, accepted, delivered>>
         /\ \A t \in Threads : enc'[t] = "encode" <=> enc[t] = "encode"
         /\ out' = "deliver" <=> out = "deliver"

LEMMA QuietStep ==
  ASSUME Flow, Quiet
  PROVE  Flow'
<1>1. \A t \in Threads : \A i : Holds(t, i)' <=> Holds(t, i)
  BY DEF Quiet, Holds, InOutputQueue, InHand
<1>2. Taken' = Taken
  BY DEF Quiet, Taken
<1>3. EncodeQueueInOrder'
  BY <1>2 DEF Flow, EncodeQueueInOrder, Genuine, Quiet
<1>4. OutputQueuesInOrder'
  BY DEF Flow, OutputQueuesInOrder, Genuine, Quiet
<1>5. HeldOnce'
  BY <1>1, <1>2 DEF Flow, HeldOnce, Quiet
<1>6. InDelivery'
  BY <1>2 DEF Flow, InDelivery, Genuine, Quiet
<1>7. NothingLost'
  BY <1>1, <1>2 DEF Flow, NothingLost, Quiet
<1>8. DeliveredInOrder'
  BY DEF Flow, DeliveredInOrder, Quiet
<1> QED
  BY <1>3, <1>4, <1>5, <1>6, <1>7, <1>8 DEF Flow

\* EncodeBuffer adds the newest frame to the encode queue.
LEMMA EncodeBufferFlow ==
  ASSUME TypeOK, TypeOK', Flow, NEW c \in Cookies, EncodeBuffer(c)
  PROVE  Flow'
<1> DEFINE e == NewItem(c)
           GenuineNext(f) == f.index < Len(accepted') /\ f.cookie = accepted'[f.index + 1]
<1>1. e \in Frame /\ e.index = index_ /\ e.cookie = c
  BY DEF Frame, TypeOK, NewItem
<1>2. /\ Len(encode_queue_') = Len(encode_queue_) + 1
      /\ \A k \in 1 .. Len(encode_queue_) : encode_queue_'[k] = encode_queue_[k]
      /\ encode_queue_'[Len(encode_queue_) + 1] = e
  BY <1>1, AppendFacts DEF EncodeBuffer, TypeOK
<1>3. /\ Len(accepted') = Len(accepted) + 1
      /\ \A k \in 1 .. Len(accepted) : accepted'[k] = accepted[k]
      /\ accepted'[Len(accepted) + 1] = c
      /\ Len(accepted) \in Nat
  BY AppendFacts DEF EncodeBuffer, TypeOK
<1>4. Taken' = Taken /\ Taken \in Nat
  BY <1>2, TakenFacts DEF Taken, EncodeBuffer, TypeOK, Flow
<1>5. \A f \in Frame : Genuine(f) => GenuineNext(f)
  BY <1>3 DEF Genuine, Frame
<1>6. \A t \in Threads : enc'[t] = "encode" <=> enc[t] = "encode"
  BY DEF EncodeBuffer, WakeEncoders, TypeOK
<1>7. \A t \in Threads : \A i : Holds(t, i)' <=> Holds(t, i)
  BY <1>6 DEF EncodeBuffer, Holds, InOutputQueue, InHand
<1>8. UNCHANGED <<out, item, index, delivered>>
  BY DEF EncodeBuffer
<1>9. EncodeQueueInOrder'
  <2>1. /\ Len(encode_queue_) \in Nat
        /\ index_ = Len(accepted)
        /\ Len(encode_queue_) <= index_
        /\ Taken = index_ - Len(encode_queue_)
        /\ index_' = index_ + 1
    BY DEF EncodeBuffer, Flow, EncodeQueueInOrder, TypeOK, Taken
  <2>2. \A k \in 1 .. Len(encode_queue_) :
          /\ encode_queue_[k] \in Frame
          /\ encode_queue_[k].index = Taken + k - 1
          /\ Genuine(encode_queue_[k])
    BY DEF Flow, EncodeQueueInOrder, TypeOK
  <2>3. \A k \in 1 .. Len(encode_queue_) :
          /\ encode_queue_'[k].index = Taken' + k - 1
          /\ GenuineNext(encode_queue_'[k])
    BY <1>2, <1>4, <1>5, <2>2
  <2>4. e.index = Taken' + Len(encode_queue_')  - 1 /\ GenuineNext(e)
    BY <1>1, <1>2, <1>3, <1>4, <2>1
  <2>5. \A k \in 1 .. Len(encode_queue_') :
          /\ encode_queue_'[k].index = Taken' + k - 1
          /\ GenuineNext(encode_queue_'[k])
    <3>1. \A k \in 1 .. Len(encode_queue_') : k \in 1 .. Len(encode_queue_) \/ k = Len(encode_queue_')
      BY <1>2, <2>1
    <3>2. encode_queue_'[Len(encode_queue_')] = e
      BY <1>2
    <3> HIDE DEF e, GenuineNext
    <3> QED
      BY <2>3, <2>4, <3>1, <3>2
  <2> QED
    BY <1>2, <1>3, <2>1, <2>5 DEF EncodeQueueInOrder, Genuine
<1>10. OutputQueuesInOrder'
  <2>1. \A t \in Threads : /\ encode_item[t] \in Frame
                            /\ \A k \in 1 .. Len(output_queue_[t]) : output_queue_[t][k] \in Frame
    BY HeldAt DEF TypeOK
  <2>2. output_queue_' = output_queue_ /\ encode_item' = encode_item
    BY DEF EncodeBuffer
  <2>3. \A f \in Frame : Genuine(f) => Genuine(f)'
    BY <1>5 DEF Genuine
  <2> QED
    BY <1>6, <2>1, <2>2, <2>3 DEF Flow, OutputQueuesInOrder, Genuine
<1>11. HeldOnce'
  <2>1. HeldAnywhere
    BY HeldEverywhere
  <2>2. HeldAnywhere'
    BY <1>4, <1>8, <1>7, <2>1 DEF HeldAnywhere
  <2> QED
    BY <2>2 DEF HeldAnywhere, HeldOnce, TypeOK
<1>12. InDelivery'
  <2>1. item \in Frame
    BY DEF TypeOK
  <2> QED
    BY <1>4, <1>5, <2>1 DEF Flow, InDelivery, EncodeBuffer, Genuine
<1>13. NothingLost'
  BY <1>4, <1>8, <1>7 DEF Flow, NothingLost
<1>14. DeliveredInOrder'
  BY <1>3 DEF Flow, DeliveredInOrder, EncodeBuffer, TypeOK
<1> QED
  BY <1>9, <1>10, <1>11, <1>12, <1>13, <1>14 DEF Flow

\* An encode thread takes the oldest frame of the encode queue in its hand.
LEMMA EncodeThreadTakeFlow ==
  ASSUME TypeOK, TypeOK', Flow, NEW t \in Threads, EncodeThreadTake(t)
  PROVE  Flow'
<1>1. /\ Len(encode_queue_) \in Nat \ {0}
      /\ Len(encode_queue_') = Len(encode_queue_) - 1
      /\ \A k \in 1 .. Len(encode_queue_) - 1 : encode_queue_'[k] = encode_queue_[k + 1]
      /\ encode_item'[t] = encode_queue_[1]
  BY TailFacts DEF EncodeThreadTake, TypeOK
<1>2. Taken' = Taken + 1 /\ Taken \in Nat
  BY <1>1, TakenFacts DEF Taken, EncodeThreadTake, TypeOK, Flow
<1>3. encode_item'[t].index = Taken /\ Genuine(encode_queue_[1])
  BY <1>1, <1>2 DEF Flow, EncodeQueueInOrder
<1>4. enc[t] = "look" /\ enc'[t] = "encode"
  BY DEF EncodeThreadTake, TypeOK
<1>5. \A u \in Threads : u # t => enc'[u] = enc[u] /\ encode_item'[u] = encode_item[u]
  BY DEF EncodeThreadTake, TypeOK
<1>6. \A u \in Threads : \A i : Holds(u, i)' <=> Holds(u, i) \/ (u = t /\ i = Taken)
  BY <1>3, <1>4, <1>5 DEF Holds, InOutputQueue, InHand, EncodeThreadTake
<1>7. HeldAnywhere
  BY HeldEverywhere
<1>8. EncodeQueueInOrder'
  <2>1. \A k \in 1 .. Len(encode_queue_) :
          encode_queue_[k].index = Taken + k - 1 /\ Genuine(encode_queue_[k])
    BY DEF Flow, EncodeQueueInOrder
  <2>2. \A k \in 1 .. Len(encode_queue_') :
          encode_queue_'[k].index = Taken' + k - 1 /\ Genuine(encode_queue_'[k])
    BY <1>1, <1>2, <2>1
  <2>3. accepted' = accepted /\ index_' = index_ /\ index_ = Len(accepted) /\ Len(encode_queue_) <= index_
    BY DEF EncodeThreadTake, Flow, EncodeQueueInOrder
  <2> QED
    BY <1>1, <2>2, <2>3 DEF EncodeQueueInOrder, Genuine, TypeOK
<1>9. OutputQueuesInOrder'
  <2> SUFFICES ASSUME NEW u \in Threads
               PROVE  /\ \A k \in 1 .. Len(output_queue_[u]) :
                          /\ Genuine(output_queue_[u][k])
                          /\ \A j \in 1 .. k - 1 : output_queue_[u][j].index < output_queue_[u][k].index
                          /\ enc'[u] = "encode" => output_queue_[u][k].index < encode_item'[u].index
                      /\ enc'[u] = "encode" => Genuine(encode_item'[u])
    BY DEF OutputQueuesInOrder, EncodeThreadTake, Genuine
  <2>1. CASE u # t
    BY <1>5, <2>1 DEF Flow, OutputQueuesInOrder
  <2>2. CASE u = t
    <3>1. \A k \in 1 .. Len(output_queue_[t]) : output_queue_[t][k].index < encode_item'[t].index
      BY <1>3, <1>7, HeldAt DEF HeldAnywhere
    <3> QED
      BY <1>1, <1>3, <2>2, <3>1 DEF Flow, OutputQueuesInOrder
  <2> QED
    BY <2>1, <2>2
<1>10. HeldOnce'
  <2>1. ASSUME NEW u \in Threads, NEW i \in Nat, Holds(u, i)'
        PROVE  /\ index <= i
               /\ i < Taken + 1
               /\ out = "deliver" => i # index
               /\ \A v \in Threads : Holds(v, i)' => v = u
    <3>1. CASE i = Taken
      <4>1. \A v \in Threads : ~Holds(v, i)
        BY <1>2, <1>7, <3>1 DEF HeldAnywhere
      <4> QED
        BY <1>2, <1>6, <2>1, <3>1, <4>1 DEF Flow, InDelivery, TypeOK
    <3>2. CASE i # Taken
      BY <1>2, <1>6, <1>7, <2>1, <3>2 DEF HeldAnywhere, TypeOK
    <3> QED
      BY <3>1, <3>2
  <2>2. HeldAnywhere'
    BY <1>2, <2>1 DEF HeldAnywhere, EncodeThreadTake
  <2> QED
    BY <2>2 DEF HeldAnywhere, HeldOnce, TypeOK
<1>11. InDelivery'
  BY <1>2 DEF Flow, InDelivery, EncodeThreadTake, Genuine, TypeOK
<1>12. NothingLost'
  <2> SUFFICES ASSUME NEW i \in index .. Taken
               PROVE  (\E u \in Threads : Holds(u, i)') \/ (out = "deliver" /\ i = index)
    BY <1>2 DEF NothingLost, EncodeThreadTake
  <2>1. CASE i = Taken
    BY <1>6, <2>1
  <2>2. CASE i # Taken
    <3>1. i \in index .. Taken - 1
      BY <1>2, <2>2 DEF TypeOK
    <3> QED
      BY <1>6, <3>1 DEF Flow, NothingLost
  <2> QED
    BY <2>1, <2>2
<1>13. DeliveredInOrder'
  BY DEF Flow, DeliveredInOrder, EncodeThreadTake
<1> QED
  BY <1>8, <1>9, <1>10, <1>11, <1>12, <1>13 DEF Flow

\* An encode thread moves the frame in its hand to the end of its queue.
LEMMA EncodeThreadPushFlow ==
  ASSUME TypeOK, TypeOK', Flow, NEW t \in Threads, EncodeThreadPush(t)
  PROVE  Flow'
<1>1. /\ Len(output_queue_[t]) \in Nat
      /\ Len(output_queue_'[t]) = Len(output_queue_[t]) + 1
      /\ \A k \in 1 .. Len(output_queue_[t]) : output_queue_'[t][k] = output_queue_[t][k]
      /\ output_queue_'[t][Len(output_queue_[t]) + 1] = encode_item[t]
  <2>1. output_queue_[t] \in Seq(Frame) /\ encode_item[t] \in Frame
    BY DEF TypeOK
  <2>2. output_queue_'[t] = Append(output_queue_[t], encode_item[t])
    BY DEF EncodeThreadPush, Pushed, TypeOK
  <2> QED
    BY <2>1, <2>2, AppendFacts
<1>2. enc[t] = "encode" /\ enc'[t] = "look"
  BY DEF EncodeThreadPush, TypeOK
<1>3. \A u \in Threads : u # t => /\ enc'[u] = enc[u]
                                  /\ encode_item'[u] = encode_item[u]
                                  /\ output_queue_'[u] = output_queue_[u]
  BY DEF EncodeThreadPush, TypeOK
<1>4. /\ UNCHANGED <<encode_queue_, index_, item, index, accepted, delivered>>
      /\ out' = "deliver" <=> out = "deliver"
  BY DEF EncodeThreadPush, TypeOK
<1>5. Taken' = Taken
  BY <1>4 DEF Taken
<1>6. \A u \in Threads : \A i : Holds(u, i)' <=> Holds(u, i)
  <2>1. ASSUME NEW i PROVE Holds(t, i)' <=> Holds(t, i)
    <3> DEFINE n == Len(output_queue_[t])
    <3>1. n \in Nat /\ Len(output_queue_'[t]) = n + 1
      BY <1>1
    <3>2. \A k \in 1 .. n : output_queue_'[t][k] = output_queue_[t][k]
      BY <1>1
    <3>3. output_queue_'[t][n + 1] = encode_item[t]
      BY <1>1
    <3> HIDE DEF n
    <3>4. InOutputQueue(t, i)' => InOutputQueue(t, i) \/ encode_item[t].index = i
      <4> SUFFICES ASSUME InOutputQueue(t, i)' PROVE InOutputQueue(t, i) \/ encode_item[t].index = i
        OBVIOUS
      <4>1. PICK k \in 1 .. n + 1 : output_queue_'[t][k].index = i
        BY <3>1 DEF InOutputQueue
      <4>2. CASE k = n + 1
        BY <4>1, <4>2, <3>3
      <4>3. CASE k # n + 1
        <5>1. k \in 1 .. n
          BY <4>3, <3>1
        <5>2. output_queue_[t][k].index = i
          BY <5>1, <4>1, <3>2
        <5> QED
          BY <5>1, <5>2 DEF InOutputQueue, n
      <4> QED
        BY <4>2, <4>3
    <3>5. InOutputQueue(t, i) => InOutputQueue(t, i)'
      <4> SUFFICES ASSUME InOutputQueue(t, i) PROVE InOutputQueue(t, i)'
        OBVIOUS
      <4>1. PICK k \in 1 .. n : output_queue_[t][k].index = i
        BY DEF InOutputQueue, n
      <4>2. k \in 1 .. n + 1 /\ output_queue_'[t][k].index = i
        BY <4>1, <3>1, <3>2
      <4> QED
        BY <4>2, <3>1 DEF InOutputQueue
    <3>6. encode_item[t].index = i => InOutputQueue(t, i)'
      <4>1. n + 1 \in 1 .. n + 1
        BY <3>1
      <4> QED
        BY <4>1, <3>1, <3>3 DEF InOutputQueue
    <3>7. ~InHand(t, i)' /\ (InHand(t, i) <=> encode_item[t].index = i)
      BY <1>2 DEF InHand
    <3> QED
      BY <3>4, <3>5, <3>6, <3>7 DEF Holds
  <2>2. ASSUME NEW u \in Threads, u # t, NEW i PROVE Holds(u, i)' <=> Holds(u, i)
    BY <1>3, <2>2 DEF Holds, InOutputQueue, InHand
  <2> QED
    BY <2>1, <2>2
<1>7. EncodeQueueInOrder'
  BY <1>4, <1>5 DEF Flow, EncodeQueueInOrder, Genuine
<1>8. OutputQueuesInOrder'
  <2> DEFINE Ordered(q, u) ==
        \A k \in 1 .. Len(q) :
          /\ Genuine(q[k])
          /\ \A j \in 1 .. k - 1 : q[j].index < q[k].index
  <2>1. ASSUME NEW u \in Threads, u # t
        PROVE  /\ Ordered(output_queue_'[u], u)
               /\ enc'[u] = "encode" =>
                    /\ Genuine(encode_item'[u])
                    /\ \A k \in 1 .. Len(output_queue_'[u]) :
                         output_queue_'[u][k].index < encode_item'[u].index
    BY <1>3, <2>1 DEF Flow, OutputQueuesInOrder
  <2>2. Ordered(output_queue_'[t], t)
    <3>1. \A k \in 1 .. Len(output_queue_[t]) :
            /\ Genuine(output_queue_[t][k])
            /\ \A j \in 1 .. k - 1 : output_queue_[t][j].index < output_queue_[t][k].index
            /\ output_queue_[t][k].index < encode_item[t].index
      BY <1>2 DEF Flow, OutputQueuesInOrder
    <3>2. Genuine(encode_item[t])
      BY <1>2 DEF Flow, OutputQueuesInOrder
    <3>3. \A k \in 1 .. Len(output_queue_'[t]) :
            \/ k \in 1 .. Len(output_queue_[t])
            \/ k = Len(output_queue_[t]) + 1
      BY <1>1
    <3>4. ASSUME NEW k \in 1 .. Len(output_queue_[t]), NEW j \in 1 .. k - 1
          PROVE  output_queue_'[t][j].index < output_queue_'[t][k].index
      <4>1. j \in 1 .. Len(output_queue_[t])
        BY <1>1
      <4> QED
        BY <1>1, <3>1, <4>1
    <3>5. ASSUME NEW j \in 1 .. Len(output_queue_[t])
          PROVE  output_queue_'[t][j].index < output_queue_'[t][Len(output_queue_[t]) + 1].index
      BY <1>1, <3>1
    <3>6. ASSUME NEW k \in 1 .. Len(output_queue_'[t])
          PROVE  /\ Genuine(output_queue_'[t][k])
                 /\ \A j \in 1 .. k - 1 : output_queue_'[t][j].index < output_queue_'[t][k].index
      <4>1. CASE k \in 1 .. Len(output_queue_[t])
        BY <1>1, <3>1, <3>4, <4>1
      <4>2. CASE k = Len(output_queue_[t]) + 1
        <5>1. 1 .. k - 1 = 1 .. Len(output_queue_[t])
          BY <1>1, <4>2
        <5> QED
          BY <1>1, <3>2, <3>5, <4>2, <5>1
      <4> QED
        BY <3>3, <4>1, <4>2
    <3> QED
      BY <3>6
  <2> QED
    BY <1>2, <1>4, <2>1, <2>2 DEF OutputQueuesInOrder, Genuine
<1>9. HeldOnce'
  <2>1. HeldAnywhere
    BY HeldEverywhere
  <2>2. HeldAnywhere'
    BY <1>4, <1>5, <1>6, <2>1 DEF HeldAnywhere
  <2> QED
    BY <2>2 DEF HeldAnywhere, HeldOnce, TypeOK
<1>10. InDelivery'
  BY <1>4, <1>5 DEF Flow, InDelivery, Genuine
<1>11. NothingLost'
  BY <1>4, <1>5, <1>6 DEF Flow, NothingLost
<1>12. DeliveredInOrder'
  BY <1>4 DEF Flow, DeliveredInOrder
<1> QED
  BY <1>7, <1>8, <1>9, <1>10, <1>11, <1>12 DEF Flow

\* The output thread removes the frame it looks for from the queue of t.
LEMMA OutputThreadTakeFlow ==
  ASSUME TypeOK, TypeOK', Flow, NEW t \in Threads, OutputThreadTake(t)
  PROVE  Flow'
<1>1. /\ Len(output_queue_[t]) \in Nat \ {0}
      /\ Len(output_queue_'[t]) = Len(output_queue_[t]) - 1
      /\ \A k \in 1 .. Len(output_queue_[t]) - 1 :
           output_queue_'[t][k] = output_queue_[t][k + 1]
      /\ item' = output_queue_[t][1]
      /\ output_queue_[t][1].index = index
  <2>1. output_queue_[t] \in Seq(Frame) /\ output_queue_[t] # << >>
    BY DEF TypeOK, OutputThreadTake, HasNext
  <2>2. output_queue_'[t] = Tail(output_queue_[t])
    BY DEF OutputThreadTake, TypeOK
  <2> QED
    BY <2>1, <2>2, TailFacts DEF OutputThreadTake, HasNext
<1>2. out = "look" /\ out' = "deliver"
  BY DEF OutputThreadTake
<1>3. \A u \in Threads : u # t => output_queue_'[u] = output_queue_[u]
  BY DEF OutputThreadTake, TypeOK
<1>4. UNCHANGED <<encode_queue_, index_, enc, encode_item, index, accepted, delivered>>
  BY DEF OutputThreadTake
<1>5. Taken' = Taken
  BY <1>4 DEF Taken
<1>6. Holds(t, index)
  BY <1>1 DEF Holds, InOutputQueue
<1>7. HeldAnywhere
  BY HeldEverywhere
<1>8. index < Taken /\ index \in Nat
  BY <1>6, <1>7 DEF HeldAnywhere, TypeOK
<1>9. \A u \in Threads : \A i \in Nat : Holds(u, i)' <=> Holds(u, i) /\ i # index
  <2>1. ASSUME NEW u \in Threads, u # t, NEW i \in Nat
        PROVE  Holds(u, i)' <=> Holds(u, i) /\ i # index
    <3>1. Holds(u, i)' <=> Holds(u, i)
      BY <1>3, <1>4, <2>1 DEF Holds, InOutputQueue, InHand
    <3>2. ~Holds(u, index)
      BY <1>6, <1>7, <1>8, <2>1 DEF HeldAnywhere
    <3> QED
      BY <3>1, <3>2
  <2>2. ASSUME NEW i \in Nat
        PROVE  Holds(t, i)' <=> Holds(t, i) /\ i # index
    <3>1. \A k \in 2 .. Len(output_queue_[t]) : index < output_queue_[t][k].index
      <4>1. \A k \in 2 .. Len(output_queue_[t]) : 1 \in 1 .. k - 1 /\ k \in 1 .. Len(output_queue_[t])
        BY <1>1
      <4> QED
        BY <1>1, <4>1 DEF Flow, OutputQueuesInOrder
    <3>2. InHand(t, i) => i # index
      BY <1>1, <1>8 DEF InHand, Flow, OutputQueuesInOrder
    <3>3. InHand(t, i)' <=> InHand(t, i)
      BY <1>4 DEF InHand
    <3>4. InOutputQueue(t, i) <=> i = index \/ \E k \in 2 .. Len(output_queue_[t]) : output_queue_[t][k].index = i
      BY <1>1 DEF InOutputQueue
    <3>5. InOutputQueue(t, i)' <=> \E k \in 2 .. Len(output_queue_[t]) : output_queue_[t][k].index = i
      <4>1. ASSUME NEW k \in 2 .. Len(output_queue_[t])
            PROVE  k - 1 \in 1 .. Len(output_queue_'[t]) /\ output_queue_'[t][k - 1] = output_queue_[t][k]
        BY <1>1
      <4>2. ASSUME NEW k \in 1 .. Len(output_queue_'[t])
            PROVE  k + 1 \in 2 .. Len(output_queue_[t]) /\ output_queue_'[t][k] = output_queue_[t][k + 1]
        BY <1>1
      <4> QED
        BY <4>1, <4>2 DEF InOutputQueue
    <3>6. (\E k \in 2 .. Len(output_queue_[t]) : output_queue_[t][k].index = i) => i # index
      BY <1>8, <3>1
    <3> QED
      BY <3>2, <3>3, <3>4, <3>5, <3>6 DEF Holds
  <2> QED
    BY <2>1, <2>2
<1>10. EncodeQueueInOrder'
  BY <1>4, <1>5 DEF Flow, EncodeQueueInOrder, Genuine
<1>11. OutputQueuesInOrder'
  <2> DEFINE Ordered(u, q) ==
        \A k \in 1 .. Len(q) :
          /\ Genuine(q[k])
          /\ \A j \in 1 .. k - 1 : q[j].index < q[k].index
          /\ enc[u] = "encode" => q[k].index < encode_item[u].index
  <2>1. \A u \in Threads : Ordered(u, output_queue_[u])
    BY DEF Flow, OutputQueuesInOrder
  <2>2. ASSUME NEW k \in 1 .. Len(output_queue_'[t])
        PROVE  /\ Genuine(output_queue_'[t][k])
               /\ \A j \in 1 .. k - 1 : output_queue_'[t][j].index < output_queue_'[t][k].index
               /\ enc[t] = "encode" => output_queue_'[t][k].index < encode_item[t].index
    <3>1. /\ k + 1 \in 1 .. Len(output_queue_[t])
          /\ output_queue_'[t][k] = output_queue_[t][k + 1]
      BY <1>1
    <3>2. ASSUME NEW j \in 1 .. k - 1
          PROVE  /\ j + 1 \in 1 .. (k + 1) - 1
                 /\ output_queue_'[t][j] = output_queue_[t][j + 1]
      <4>1. k \in Nat /\ k <= Len(output_queue_[t]) - 1
        BY <1>1
      <4>2. j \in 1 .. Len(output_queue_[t]) - 1 /\ j + 1 \in 1 .. (k + 1) - 1
        BY <1>1, <4>1
      <4> QED
        BY <1>1, <4>2
    <3>3. /\ Genuine(output_queue_[t][k + 1])
          /\ \A j \in 1 .. (k + 1) - 1 :
               output_queue_[t][j].index < output_queue_[t][k + 1].index
          /\ enc[t] = "encode" => output_queue_[t][k + 1].index < encode_item[t].index
      BY <2>1, <3>1
    <3>4. ASSUME NEW j \in 1 .. k - 1
          PROVE  output_queue_'[t][j].index < output_queue_'[t][k].index
      <4>1. output_queue_[t][j + 1].index < output_queue_[t][k + 1].index
        BY <3>2, <3>3
      <4> QED
        BY <3>1, <3>2, <4>1
    <3>5. Genuine(output_queue_'[t][k])
      BY <3>1, <3>3
    <3>6. enc[t] = "encode" => output_queue_'[t][k].index < encode_item[t].index
      BY <3>1, <3>3
    <3> QED
      BY <3>4, <3>5, <3>6
  <2>3. \A u \in Threads : Ordered(u, output_queue_'[u])
    BY <1>3, <2>1, <2>2
  <2> QED
    BY <1>4, <2>3 DEF OutputQueuesInOrder, Genuine, Flow
<1>12. HeldOnce'
  <2>1. HeldAnywhere'
    BY <1>4, <1>5, <1>7, <1>9 DEF HeldAnywhere
  <2> QED
    BY <2>1 DEF HeldAnywhere, HeldOnce, TypeOK
<1>13. InDelivery'
  BY <1>1, <1>4, <1>5, <1>8 DEF Flow, InDelivery, OutputQueuesInOrder, Genuine
<1>14. NothingLost'
  <2> SUFFICES ASSUME NEW i \in index .. Taken - 1
               PROVE  (\E u \in Threads : Holds(u, i)') \/ i = index
    BY <1>2, <1>4, <1>5 DEF NothingLost
  <2> QED
    BY <1>2, <1>8, <1>9 DEF Flow, NothingLost
<1>15. DeliveredInOrder'
  BY <1>4 DEF Flow, DeliveredInOrder
<1> QED
  BY <1>10, <1>11, <1>12, <1>13, <1>14, <1>15 DEF Flow

\* The callback ran for the frame in delivery; the next index is looked for.
LEMMA OutputThreadDeliverFlow ==
  ASSUME TypeOK, TypeOK', Flow, OutputThreadDeliver
  PROVE  Flow'
<1>1. UNCHANGED <<encode_queue_, output_queue_, index_, enc, encode_item, accepted>>
  BY DEF OutputThreadDeliver
<1>2. out = "deliver" /\ out' = "look" /\ index' = index + 1 /\ index \in Nat
  BY DEF OutputThreadDeliver, TypeOK
<1>3. Taken' = Taken /\ Taken \in Nat /\ Taken <= index_ /\ index_ = Len(accepted)
  BY <1>1, TakenFacts DEF Taken, Flow
<1>4. \A u \in Threads : \A i : Holds(u, i)' <=> Holds(u, i)
  BY <1>1 DEF Holds, InOutputQueue, InHand
<1>5. /\ Len(delivered') = Len(delivered) + 1
      /\ \A k \in 1 .. Len(delivered) : delivered'[k] = delivered[k]
      /\ delivered'[Len(delivered) + 1] = item.cookie
  <2>1. item.cookie \in Cookies
    BY DEF TypeOK, Frame
  <2> QED
    BY <2>1, AppendFacts DEF OutputThreadDeliver, TypeOK
<1>6. index < Taken /\ item.index = index /\ Genuine(item)
  BY <1>2 DEF Flow, InDelivery
<1>7. EncodeQueueInOrder'
  BY <1>1, <1>3 DEF Flow, EncodeQueueInOrder, Genuine
<1>8. OutputQueuesInOrder'
  BY <1>1 DEF Flow, OutputQueuesInOrder, Genuine
<1>9. HeldOnce'
  <2>1. HeldAnywhere
    BY HeldEverywhere
  <2>2. HeldAnywhere'
    BY <1>2, <1>3, <1>4, <2>1 DEF HeldAnywhere
  <2> QED
    BY <2>2 DEF HeldAnywhere, HeldOnce, TypeOK
<1>10. InDelivery'
  BY <1>2, <1>3, <1>6 DEF InDelivery
<1>11. NothingLost'
  <2> SUFFICES ASSUME NEW i \in index + 1 .. Taken - 1
               PROVE  \E u \in Threads : Holds(u, i)'
    BY <1>2, <1>3 DEF NothingLost
  <2>1. i \in index .. Taken - 1 /\ i # index
    BY <1>2, <1>3
  <2> QED
    BY <1>4, <2>1 DEF Flow, NothingLost
<1>12. DeliveredInOrder'
  <2>1. Len(delivered) = index /\ \A k \in 1 .. Len(delivered) : delivered[k] = accepted[k]
    BY DEF Flow, DeliveredInOrder
  <2>2. item.cookie = accepted[index + 1]
    BY <1>6 DEF Genuine
  <2> QED
    BY <1>1, <1>2, <1>3, <1>5, <1>6, <2>1, <2>2 DEF DeliveredInOrder
<1> QED
  BY <1>7, <1>8, <1>9, <1>10, <1>11, <1>12 DEF Flow

\* Every frame taken was delivered if no thread has one and none is queued.
LEMMA NothingLeft ==
  ASSUME TypeOK, Flow,
         encode_queue_ = << >>, out # "deliver",
         \A t \in Threads : enc[t] # "encode",
         \A t \in Threads : output_queue_[t] = << >>
  PROVE  index = index_
<1>1. \A t \in Threads : \A i : ~Holds(t, i)
  <2>1. Len(<< >>) = 0
    OBVIOUS
  <2> QED
    BY <2>1 DEF Holds, InOutputQueue, InHand
<1>2. Taken = index_ /\ Taken \in Nat /\ index \in Nat
  BY TakenFacts DEF Flow, TypeOK
<1>3. index <= Taken
  BY DEF Flow, InDelivery
<1>4. CASE index < Taken
  <2>1. index \in index .. Taken - 1
    BY <1>2, <1>4
  <2> QED
    BY <1>1, <2>1 DEF Flow, NothingLost
<1> QED
  BY <1>2, <1>3, <1>4

LEMMA FlowStep ==
  ASSUME TypeOK, TypeOK', Flow, [Next]_vars
  PROVE  Flow'
<1>1. ASSUME NEW c \in Cookies, EncodeBuffer(c) PROVE Flow'
  BY <1>1, EncodeBufferFlow
<1>2. CASE DestroyEncoder
  BY <1>2, QuietStep DEF DestroyEncoder, Quiet
<1>3. CASE JoinEncodeThreads
  BY <1>3, QuietStep DEF JoinEncodeThreads, Quiet
<1>4. CASE JoinOutputThread
  BY <1>4, QuietStep DEF JoinOutputThread, Quiet
<1>5. ASSUME NEW t \in Threads, EncodeThread(t) PROVE Flow'
  <2>1. CASE EncodeThreadExit(t)
    BY <2>1, QuietStep DEF EncodeThreadExit, Quiet, TypeOK
  <2>2. CASE EncodeThreadTake(t)
    BY <2>2, EncodeThreadTakeFlow
  <2>3. CASE EncodeThreadSleep(t)
    BY <2>3, QuietStep DEF EncodeThreadSleep, Quiet, TypeOK
  <2>4. CASE EncodeThreadTimeout(t)
    BY <2>4, QuietStep DEF EncodeThreadTimeout, Quiet, TypeOK
  <2>5. CASE EncodeThreadPush(t)
    BY <2>5, EncodeThreadPushFlow
  <2> QED
    BY <1>5, <2>1, <2>2, <2>3, <2>4, <2>5 DEF EncodeThread
<1>6. CASE OutputThread
  <2>1. ASSUME NEW t \in Threads, OutputThreadTake(t) PROVE Flow'
    BY <2>1, OutputThreadTakeFlow
  <2>2. CASE OutputThreadExit
    BY <2>2, QuietStep DEF OutputThreadExit, Quiet
  <2>3. CASE OutputThreadSleep
    BY <2>3, QuietStep DEF OutputThreadSleep, Quiet
  <2>4. CASE OutputThreadTimeout
    BY <2>4, QuietStep DEF OutputThreadTimeout, Quiet
  <2>5. CASE OutputThreadDeliver
    BY <2>5, OutputThreadDeliverFlow
  <2> QED
    BY <1>6, <2>1, <2>2, <2>3, <2>4, <2>5 DEF OutputThread
<1>7. CASE UNCHANGED vars
  BY <1>7, QuietStep DEF vars, Quiet
<1> QED
  BY <1>1, <1>2, <1>3, <1>4, <1>5, <1>6, <1>7 DEF Next, Terminated

LEMMA TeardownStep ==
  ASSUME TypeOK, Flow, Teardown, [Next]_vars
  PROVE  Teardown'
<1> USE DEF Teardown
<1>1. ASSUME NEW c \in Cookies, EncodeBuffer(c) PROVE Teardown'
  BY <1>1 DEF EncodeBuffer, WakeEncoders, TypeOK
<1>2. CASE DestroyEncoder
  BY <1>2 DEF DestroyEncoder, TypeOK
<1>3. CASE JoinEncodeThreads
  BY <1>3 DEF JoinEncodeThreads, EncodeThreadsJoined, TypeOK
<1>4. CASE JoinOutputThread
  BY <1>4 DEF JoinOutputThread, TypeOK
<1>5. ASSUME NEW t \in Threads, EncodeThread(t) PROVE Teardown'
  <2>1. CASE EncodeThreadExit(t)
    BY <2>1 DEF EncodeThreadExit, TypeOK
  <2>2. CASE EncodeThreadTake(t)
    BY <2>2 DEF EncodeThreadTake, TypeOK
  <2>3. CASE EncodeThreadSleep(t)
    BY <2>3 DEF EncodeThreadSleep, TypeOK
  <2>4. CASE EncodeThreadTimeout(t)
    BY <2>4 DEF EncodeThreadTimeout, TypeOK
  <2>5. CASE EncodeThreadPush(t)
    BY <2>5 DEF EncodeThreadPush, TypeOK
  <2> QED
    BY <1>5, <2>1, <2>2, <2>3, <2>4, <2>5 DEF EncodeThread
<1>6. CASE OutputThread
  <2>1. ASSUME NEW t \in Threads, OutputThreadTake(t) PROVE Teardown'
    BY <2>1 DEF OutputThreadTake, TypeOK
  <2>2. CASE OutputThreadExit
    <3>1. encode_queue_ = << >> /\ \A t \in Threads : enc[t] # "encode"
      BY <2>2, ThreadsAssumption DEF OutputThreadExit
    <3>2. index = index_
      BY <2>2, <3>1, NothingLeft DEF OutputThreadExit, AllQueuesEmpty
    <3> QED
      BY <2>2, <3>2 DEF OutputThreadExit, TypeOK
  <2>3. CASE OutputThreadSleep
    BY <2>3 DEF OutputThreadSleep, TypeOK
  <2>4. CASE OutputThreadTimeout
    BY <2>4 DEF OutputThreadTimeout, TypeOK
  <2>5. CASE OutputThreadDeliver
    BY <2>5 DEF OutputThreadDeliver, TypeOK
  <2> QED
    BY <1>6, <2>1, <2>2, <2>3, <2>4, <2>5 DEF OutputThread
<1>7. CASE UNCHANGED vars
  BY <1>7 DEF vars
<1> QED
  BY <1>1, <1>2, <1>3, <1>4, <1>5, <1>6, <1>7 DEF Next, Terminated

LEMMA IndInvParts == IndInv <=> TypeOK /\ Flow /\ Teardown
  BY DEF IndInv, Flow

LEMMA IndInvInit == Init => IndInv
<1> SUFFICES ASSUME Init PROVE IndInv
  OBVIOUS
<1>1. TypeOK
  BY TypeInit
<1>2. /\ index_ = 0
      /\ index = 0
      /\ out = "look"
      /\ owner = "running"
      /\ ~abortEncode_
      /\ ~abortOutput_
      /\ \A t \in Threads : enc[t] = "look"
  BY DEF Init
<1>3. /\ Len(encode_queue_) = 0
      /\ Len(accepted) = 0
      /\ Len(delivered) = 0
      /\ \A t \in Threads : Len(output_queue_[t]) = 0
  BY DEF Init
<1>4. Taken = 0
  BY <1>2, <1>3 DEF Taken
<1>5. \A t \in Threads : \A i : ~Holds(t, i)
  <2>1. ASSUME NEW t \in Threads, NEW i PROVE ~InOutputQueue(t, i)
    <3>1. 1 .. Len(output_queue_[t]) = {}
      BY <1>3
    <3> QED
      BY <3>1 DEF InOutputQueue
  <2> QED
    BY <1>2, <2>1 DEF Holds, InHand
<1>6. EncodeQueueInOrder
  <2>1. 1 .. Len(encode_queue_) = {}
    BY <1>3
  <2> QED
    BY <1>2, <1>3, <2>1 DEF EncodeQueueInOrder
<1>7. OutputQueuesInOrder
  <2>1. ASSUME NEW t \in Threads
        PROVE  1 .. Len(output_queue_[t]) = {} /\ enc[t] # "encode"
    <3>1. Len(output_queue_[t]) = 0 /\ enc[t] = "look"
      BY <1>2, <1>3
    <3> QED
      BY <3>1
  <2> QED
    BY <2>1 DEF OutputQueuesInOrder
<1>8. HeldOnce /\ NothingLost /\ InDelivery
  BY <1>2, <1>4, <1>5 DEF HeldOnce, NothingLost, InDelivery
<1>9. DeliveredInOrder
  BY <1>2, <1>3 DEF DeliveredInOrder
<1>10. Teardown
  BY <1>2 DEF Teardown
<1> QED
  BY <1>1, <1>6, <1>7, <1>8, <1>9, <1>10 DEF IndInv

LEMMA IndInvStep == IndInv /\ [Next]_vars => IndInv'
<1> SUFFICES ASSUME IndInv, [Next]_vars PROVE IndInv'
  OBVIOUS
<1>1. TypeOK /\ Flow /\ Teardown
  BY IndInvParts
<1>2. TypeOK'
  BY <1>1, TypeStep
<1>3. Flow'
  BY <1>1, <1>2, FlowStep
<1>4. Teardown'
  BY <1>1, TeardownStep
<1> QED
  BY <1>2, <1>3, <1>4 DEF IndInv, Flow

\* Between any two steps every frame accepted and not delivered is in one
\* place, and every queue is in order.
THEOREM Inductive == Safety => []IndInv
  BY IndInvInit, IndInvStep, PTL DEF Safety

-----------------------------------------------------------------------------
(* What follows from it *)

\* outputThread delivers the frames in the order of EncodeBuffer, with
\* their own cookies, for any number of encode threads.
THEOREM InOrder == Safety => []DeliveredInOrder
<1>1. IndInv => DeliveredInOrder
  BY DEF IndInv
<1> QED
  BY <1>1, Inductive, PTL

\* No frame disappears between the encode queue and the callback.
THEOREM Lossless == Safety => []NothingLost
<1>1. IndInv => NothingLost
  BY DEF IndInv
<1> QED
  BY <1>1, Inductive, PTL

\* The search of the queue heads finds the next frame as soon as no encode
\* thread is busy: the output thread cannot wait for ever for a frame that
\* is queued behind a later one.
THEOREM NextReachable == Safety => []NextFrameAtSomeHead
<1>1. IndInv => NextFrameAtSomeHead
  <2> SUFFICES ASSUME IndInv, index < index_, encode_queue_ = << >>,
                      \A t \in Threads : enc[t] # "encode",
                      out \in {"look", "wait"}
               PROVE  \E t \in Threads : HasNext(t)
    BY DEF NextFrameAtSomeHead
  <2>1. TypeOK /\ Flow
    BY IndInvParts
  <2>2. Taken = index_ /\ index \in Nat /\ index_ \in Nat
    BY <2>1, TakenFacts DEF Flow, TypeOK
  <2>3. PICK t \in Threads : Holds(t, index)
    <3>1. index \in index .. Taken - 1
      BY <2>2
    <3> QED
      BY <2>1, <3>1 DEF Flow, NothingLost
  <2>4. PICK k \in 1 .. Len(output_queue_[t]) : output_queue_[t][k].index = index
    BY <2>3 DEF Holds, InHand, InOutputQueue
  <2>5. output_queue_[t] \in Seq(Frame) /\ Len(output_queue_[t]) \in Nat
    BY <2>1 DEF TypeOK
  <2>6. k = 1
    <3>1. CASE k # 1
      <4>1. 1 \in 1 .. Len(output_queue_[t]) /\ 1 \in 1 .. k - 1
        BY <2>5, <3>1
      <4>2. output_queue_[t][1].index < output_queue_[t][k].index
        BY <2>1, <4>1 DEF Flow, OutputQueuesInOrder
      <4>3. /\ output_queue_[t][1].index \in Nat
            /\ Holds(t, output_queue_[t][1].index)
        BY <2>1, <4>1, HeldAt
      <4>4. HeldAnywhere
        BY <2>1, HeldEverywhere
      <4>5. index <= output_queue_[t][1].index
        BY <4>3, <4>4 DEF HeldAnywhere
      <4> QED
        BY <2>2, <2>4, <4>2, <4>3, <4>5
    <3> QED
      BY <3>1
  <2>7. output_queue_[t] # << >> /\ Head(output_queue_[t]) = output_queue_[t][1]
    BY <2>5, <2>6
  <2> QED
    BY <2>4, <2>6, <2>7 DEF HasNext
<1> QED
  BY <1>1, Inductive, PTL

\* When the destructor ends the output thread, every frame was delivered.
LEMMA DrainedFromInv == IndInv => DrainedAtExit
<1> SUFFICES ASSUME IndInv, out = "done" PROVE delivered = accepted
  BY DEF DrainedAtExit
<1>1. index = index_ /\ index_ = Len(accepted) /\ Len(delivered) = index
  BY DEF IndInv, Teardown, EncodeQueueInOrder, DeliveredInOrder
<1>2. delivered \in Seq(Cookies) /\ accepted \in Seq(Cookies)
  BY DEF IndInv, TypeOK
<1>3. \A k \in 1 .. Len(delivered) : delivered[k] = accepted[k]
  BY DEF IndInv, DeliveredInOrder
<1> QED
  BY <1>1, <1>2, <1>3

THEOREM Drained == Safety => []DrainedAtExit
  BY DrainedFromInv, Inductive, PTL

-----------------------------------------------------------------------------
(* Refinement *)

LEMMA OrderInit == Init => Order!Init
  BY DEF Init, Order!Init

LEMMA OrderStep == IndInv /\ [Next]_vars => [Order!Next]_(Order!orderVars)
<1> SUFFICES ASSUME IndInv, [Next]_vars PROVE [Order!Next]_(Order!orderVars)
  OBVIOUS
<1> USE DEF Order!orderVars
<1>1. ASSUME NEW c \in Cookies, EncodeBuffer(c) PROVE Order!Accept(c)
  BY <1>1 DEF EncodeBuffer, Order!Accept
<1>2. CASE DestroyEncoder
  BY <1>2 DEF DestroyEncoder, Order!Next, Order!Drain
<1>3. CASE JoinEncodeThreads
  BY <1>3 DEF JoinEncodeThreads
<1>4. CASE JoinOutputThread
  <2>1. delivered = accepted
    BY <1>4, DrainedFromInv DEF JoinOutputThread, DrainedAtExit
  <2> QED
    BY <1>4, <2>1 DEF JoinOutputThread, Order!Next, Order!Close
<1>5. ASSUME NEW t \in Threads, EncodeThread(t) PROVE UNCHANGED Order!orderVars
  BY <1>5 DEF EncodeThread, EncodeThreadExit, EncodeThreadTake, EncodeThreadSleep,
              EncodeThreadTimeout, EncodeThreadPush
<1>6. CASE OutputThread
  <2>1. CASE OutputThreadDeliver
    <3>1. /\ item.cookie = accepted[index + 1]
          /\ Len(delivered) = index
          /\ index < Len(accepted)
      <4>1. Genuine(item) /\ item.index = index
        BY <2>1 DEF OutputThreadDeliver, IndInv, InDelivery
      <4> QED
        BY <4>1 DEF Genuine, IndInv, DeliveredInOrder
    <3> QED
      BY <2>1, <3>1 DEF OutputThreadDeliver, Order!Next, Order!Deliver
  <2>2. CASE ~OutputThreadDeliver
    BY <1>6, <2>2 DEF OutputThread, OutputThreadTake, OutputThreadExit,
                      OutputThreadSleep, OutputThreadTimeout
  <2> QED
    BY <2>1, <2>2
<1>7. CASE UNCHANGED vars
  BY <1>7 DEF vars
<1> QED
  BY <1>1, <1>2, <1>3, <1>4, <1>5, <1>6, <1>7 DEF Next, Terminated, Order!Next

\* The safety part of the promise of FrameOrder: in order, exactly once, and
\* never torn down with a frame undelivered.
THEOREM Implements == Safety => OrderSafety
  BY OrderInit, OrderStep, Inductive, PTL DEF Safety, OrderSafety, Order!Safety
=============================================================================
