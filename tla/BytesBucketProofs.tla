-------------------------- MODULE BytesBucketProofs --------------------------
(***************************************************************************)
(* Proofs about BytesBucket, for every high watermark, set of event sizes,  *)
(* channel capacity and waiting-list limit.                                 *)
(***************************************************************************)
EXTENDS BytesBucket, BatchesProofs

\* The strengthening that makes the bucket's invariants inductive: what the
\* counter, the flag and the waiting list say about each other at each point of
\* PourIn.
BucketShape ==
  /\ watermark # 0 => water # <<>>
  /\ full => pc = "idle"
  /\ pc = "pouring" => waitingList = <<>>
  /\ waitingList # <<>> => /\ full \/ watermark = 0
                           /\ Head(waitingList).size <= HWM

BucketInv ==
  /\ BucketTypeOK
  /\ WithinHWM
  /\ WaitingAtMostOne
  /\ FullNotEmpty
  /\ BucketShape

-----------------------------------------------------------------------------
(* Facts about events and sequences. *)

LEMMA EventSize == \A e \in Events : e.size \in Nat /\ e.size # 0
  BY BucketAssumption DEF Events

\* What fits into the room left does not exceed the limit.
LEMMA PourFits ==
  ASSUME NEW held \in Nat, NEW size \in Nat, size <= HWM - held
  PROVE  held + size \in Nat /\ held + size <= HWM
  BY BucketAssumption

\* A sequence with at most one element loses it to Tail.
LEMMA TailOfSingleton ==
  ASSUME NEW S, NEW s \in Seq(S), s # <<>>, Len(s) <= 1
  PROVE  Tail(s) = <<>> /\ Len(s) = 1
  <1>1. Len(s) \in Nat \ {0}
    <2>1. \A t \in Seq(S) : t # <<>> => Len(t) \in Nat \ {0}
      BY EmptySeq
    <2> QED
      BY <2>1
  <1>2. Len(s) = 1
    BY <1>1
  <1>3. Tail(s) = <<>>
    BY HeadTailProperties, EmptySeq, LenProperties
  <1> QED
    BY <1>2, <1>3

LEMMA NoEvents == <<>> \in Seq(Events) /\ Len(<<>>) = 0
  BY EmptySeq

LEMMA AppendEvent ==
  ASSUME NEW s \in Seq(Events), NEW e \in Events
  PROVE  Append(s, e) \in Seq(Events) /\ Append(s, e) # <<>>
  BY AppendProperties

\* Appending one element on the right of a concatenation.
LEMMA ConcatAppend ==
  ASSUME NEW S, NEW s \in Seq(S), NEW t \in Seq(S), NEW e \in S
  PROVE  s \o Append(t, e) = Append(s \o t, e)
  <1>1. <<e>> \in Seq(S)
    OBVIOUS
  <1>2. Append(t, e) = t \o <<e>>
    BY AppendIsConcat
  <1>3. s \o t \in Seq(S)
    BY ConcatProperties
  <1>4. Append(s \o t, e) = (s \o t) \o <<e>>
    BY <1>3, AppendIsConcat
  <1> QED
    BY <1>1, <1>2, <1>4, ConcatAssociative

-----------------------------------------------------------------------------
(* The invariant. *)

LEMMA BucketInvInit == BucketInit => BucketInv
  <1> SUFFICES ASSUME BucketInit PROVE BucketInv
    OBVIOUS
  <1>1. BucketTypeOK
    BY NoEvents DEF BucketInit, BucketTypeOK
  <1>2. WithinHWM /\ WaitingAtMostOne
    BY BucketAssumption, NoEvents DEF BucketInit, WithinHWM, WaitingAtMostOne
  <1>3. FullNotEmpty /\ BucketShape
    BY DEF BucketInit, FullNotEmpty, BucketShape
  <1> QED
    BY <1>1, <1>2, <1>3 DEF BucketInv

LEMMA BucketInvNext == BucketInv /\ [BucketNext]_bucketVars => BucketInv'
  <1> SUFFICES ASSUME BucketInv, [BucketNext]_bucketVars PROVE BucketInv'
    OBVIOUS
  <1> USE BucketAssumption DEF BucketInv, BucketTypeOK, WithinHWM, WaitingAtMostOne, FullNotEmpty, BucketShape
  <1>1. ASSUME NEW size \in Sizes, Offer(size) PROVE BucketInv'
    <2>1. [id |-> offered + 1, size |-> size] \in Events
      BY <1>1 DEF Offer, Events
    <2>2. source' \in Seq(Events)
      BY <1>1, <2>1, AppendProperties DEF Offer
    <2> QED
      BY <1>1, <2>2 DEF Offer, content, locals
  <1>2. CASE CloseIndicator
    BY <1>2 DEF CloseIndicator, content, locals
  <1>3. ASSUME NEW graceful \in BOOLEAN, New(graceful) PROVE BucketInv'
    BY <1>3 DEF New, content, locals
  <1>4. CASE PourIn
    BY <1>4 DEF PourIn, content, locals
  <1>5. CASE Refill
    <2>1. /\ Head(waitingList) \in Events
          /\ Head(waitingList).size \in Nat
          /\ waitingList' = <<>>
      BY <1>5, HeadTailProperties, TailOfSingleton, EventSize DEF Refill
    <2>2. water' \in Seq(Events) /\ water' # <<>>
      BY <1>5, <2>1, AppendProperties DEF Refill
    <2> QED
      BY <1>5, <2>1, <2>2, NoEvents DEF Refill, Room, locals
  <1>6. CASE Arm
    <2>1. waitingList = <<>>
      <3> SUFFICES ASSUME waitingList # <<>> PROVE FALSE
        OBVIOUS
      <3>1. Head(waitingList).size \in Nat
        BY HeadTailProperties, EventSize
      <3> QED
        BY <1>6, <3>1 DEF Arm, Room
    <2> QED
      BY <1>6, <2>1 DEF Arm, content
  <1>7. CASE Discard
    <2>1. source' \in Seq(Events)
      BY <1>7, HeadTailProperties DEF Discard, Receive
    <2> QED
      BY <1>7, <2>1 DEF Discard, Receive
  <1>8. CASE Fill
    <2>1. /\ source' \in Seq(Events)
          /\ Head(source) \in Events
          /\ Head(source).size \in Nat
      BY <1>8, HeadTailProperties, EventSize DEF Fill, Receive
    <2>2. /\ Append(water, Head(source)) \in Seq(Events)
          /\ Append(water, Head(source)) # <<>>
      BY <2>1, AppendEvent
    <2>3. Append(taken, Head(source)) \in Seq(Events)
      BY <2>1, AppendEvent
    <2>4. /\ watermark' \in Nat /\ watermark' <= HWM
          /\ water' # <<>> /\ waitingList = <<>>
          /\ full' \in BOOLEAN /\ pc' \in {"idle", "pouring"} /\ (full' => pc' = "idle")
      <3>1. watermark' \in Nat /\ watermark' <= HWM
        <4>1. /\ Head(source).size <= HWM - watermark
              /\ watermark' = watermark + Head(source).size
              /\ watermark \in Nat
          BY <1>8 DEF Fill, Room
        <4> QED
          BY <2>1, <4>1, PourFits
      <3>2. water' # <<>>
        BY <1>8, <2>2 DEF Fill
      <3>3. waitingList = <<>>
        BY <1>8 DEF Fill, Receive
      <3>4. full' \in BOOLEAN /\ pc' \in {"idle", "pouring"} /\ (full' => pc' = "idle")
        BY <1>8 DEF Fill
      <3> QED
        BY <3>1, <3>2, <3>3, <3>4
    <2>5. UNCHANGED <<closed, gracefulShutdown, neverDrained, drainASAP, timer, offered,
                      drained, waitingList, droppedCount>>
      BY <1>8 DEF Fill, Receive
    <2>6. source' \in Seq(Events) /\ water' \in Seq(Events) /\ taken' \in Seq(Events)
      BY <1>8, <2>1, <2>2, <2>3 DEF Fill
    <2>7. BucketTypeOK'
      BY <2>4, <2>5, <2>6
    <2>8. WithinHWM' /\ WaitingAtMostOne' /\ FullNotEmpty' /\ BucketShape'
      BY <2>4, <2>5, NoEvents
    <2> QED
      BY <2>7, <2>8
  <1>9. CASE Postpone
    <2>1. /\ source' \in Seq(Events)
          /\ Head(source) \in Events
          /\ Head(source).size \in Nat
          /\ waitingList = <<>>
      BY <1>9, HeadTailProperties, EventSize DEF Postpone, Receive
    <2>2. taken' \in Seq(Events)
      BY <1>9, <2>1, AppendProperties DEF Postpone
    <2>3. waitingList' = Append(<<>>, Head(source))
      BY <1>9, <2>1, NoEvents DEF Postpone
    <2>4. /\ waitingList' \in Seq(Events)
          /\ Len(waitingList') = 1
          /\ Head(waitingList') = Head(source)
      BY <2>1, <2>3, AppendProperties, HeadTailAppend, EmptySeq
    <2> QED
      BY <1>9, <2>1, <2>2, <2>4 DEF Postpone, Receive, Room
  <1>10. CASE TimeoutDrain
    BY <1>10 DEF TimeoutDrain
  <1>11. CASE TimeoutEmpty
    BY <1>11 DEF TimeoutEmpty, content
  <1>12. CASE SeeClosing
    BY <1>12 DEF SeeClosing
  <1>13. CASE Drain
    <2>1. drained' \in Seq(Events)
      BY <1>13, ConcatProperties DEF Drain
    <2>2. BucketTypeOK'
      BY <1>13, <2>1, NoEvents DEF Drain, locals
    <2>3. WithinHWM' /\ WaitingAtMostOne' /\ FullNotEmpty' /\ BucketShape'
      BY <1>13 DEF Drain, locals
    <2> QED
      BY <2>2, <2>3
  <1>14. CASE UNCHANGED bucketVars
    BY <1>14 DEF bucketVars, content, locals
  <1> QED
    BY <1>1, <1>2, <1>3, <1>4, <1>5, <1>6, <1>7, <1>8, <1>9, <1>10, <1>11, <1>12,
       <1>13, <1>14 DEF BucketNext, Owner

\* Drain is never called on an empty bucket, so no empty batch is ever produced.
THEOREM BucketFullNotEmpty == BucketSpec => []FullNotEmpty
  <1>1. BucketInv => FullNotEmpty
    BY DEF BucketInv
  <1> QED
    BY <1>1, BucketInvInit, BucketInvNext, PTL DEF BucketSpec

-----------------------------------------------------------------------------
(* The counter and the content. *)

LEMMA WatermarkStep ==
  ASSUME BucketInv, WatermarkExact, BucketNext
  PROVE  WatermarkExact'
  <1> USE BucketAssumption DEF BucketInv, BucketTypeOK, WatermarkExact
  <1>1. ASSUME UNCHANGED <<water, watermark>> PROVE WatermarkExact'
    BY <1>1
  <1>2. ASSUME NEW event \in Events,
               watermark' = watermark + event.size, water' = Append(water, event)
        PROVE  WatermarkExact'
    BY <1>2, EventSize, MoreBytes
  <1>3. CASE Refill
    <2>1. Head(waitingList) \in Events
      BY <1>3, HeadTailProperties DEF Refill
    <2> QED
      BY <1>2, <1>3, <2>1 DEF Refill
  <1>4. CASE Fill
    <2>1. Head(source) \in Events
      BY <1>4, HeadTailProperties DEF Fill, Receive
    <2> QED
      BY <1>2, <1>4, <2>1 DEF Fill
  <1>5. CASE Drain
    BY <1>5, NoBytes DEF Drain
  <1>6. CASE (\E size \in Sizes : Offer(size)) \/ CloseIndicator \/ (\E graceful \in BOOLEAN : New(graceful))
    BY <1>1, <1>6 DEF Offer, CloseIndicator, New, content
  <1>7. CASE PourIn \/ Arm \/ TimeoutDrain \/ TimeoutEmpty \/ SeeClosing \/ Discard \/ Postpone
    BY <1>1, <1>7 DEF PourIn, Arm, TimeoutDrain, TimeoutEmpty, SeeClosing, Discard, Postpone, content
  <1> QED
    BY <1>3, <1>4, <1>5, <1>6, <1>7 DEF BucketNext, Owner

\* The bucket never holds more than HWM bytes, because PourIn checks the room before every
\* append (bytesbucket.go:113, :136), and the counter it checks is exact whatever sizes the
\* events have (:115-116, :138-139, :177-178); and the waiting list never grows beyond one
\* event, whatever its limit: the branch that drops an event for a full list (:147) is dead.
THEOREM BucketKeepsLimits == BucketSpec => []BucketLimits
  <1>1. BucketInit => WatermarkExact
    BY NoBytes DEF BucketInit, WatermarkExact
  <1>2. BucketInv /\ WatermarkExact /\ [BucketNext]_bucketVars => WatermarkExact'
    BY WatermarkStep DEF bucketVars, content, WatermarkExact
  <1>3. BucketInv /\ WatermarkExact => BucketLimits
    BY DEF BucketInv, BucketLimits
  <1> QED
    BY <1>1, <1>2, <1>3, BucketInvInit, BucketInvNext, PTL DEF BucketSpec

-----------------------------------------------------------------------------
(* Order: what was drained, is in the bucket and waits is what was taken. *)

Undelivered == water \o waitingList

\* What one step does to the events accepted and not yet drained, and to the ones
\* drained: nothing, accept one event, or hand out the whole (non-empty) bucket.
LEMMA QueueSteps ==
  ASSUME BucketInv, BucketNext
  PROVE  \/ UNCHANGED <<Undelivered, drained, taken>>
         \/ \E e \in Events : /\ Undelivered' = Append(Undelivered, e)
                              /\ taken' = Append(taken, e)
                              /\ drained' = drained
         \/ /\ water # <<>>
            /\ Undelivered' = waitingList
            /\ drained' = drained \o water
            /\ taken' = taken
  <1> USE DEF BucketInv, BucketTypeOK
  <1>1. CASE (\E size \in Sizes : Offer(size)) \/ CloseIndicator \/ (\E graceful \in BOOLEAN : New(graceful))
    BY <1>1 DEF Offer, CloseIndicator, New, Undelivered, content, locals
  <1>2. CASE PourIn \/ Arm \/ TimeoutDrain \/ TimeoutEmpty \/ SeeClosing \/ Discard
    BY <1>2 DEF PourIn, Arm, TimeoutDrain, TimeoutEmpty, SeeClosing, Discard, Receive, Undelivered, content, locals
  <1>3. CASE Refill
    <2>0. waitingList # <<>> /\ Len(waitingList) <= 1
      BY <1>3 DEF Refill, WaitingAtMostOne
    <2>1. /\ Head(waitingList) \in Events
          /\ Tail(waitingList) = <<>>
          /\ Len(waitingList) = 1
      <3>1. Head(waitingList) \in Events
        BY <2>0, HeadTailProperties
      <3>2. Tail(waitingList) = <<>> /\ Len(waitingList) = 1
        BY <2>0, TailOfSingleton
      <3> QED
        BY <3>1, <3>2
    <2>2. waitingList = <<Head(waitingList)>>
      BY <2>1
    <2>3. Append(water, Head(waitingList)) = water \o waitingList
      BY <2>1, <2>2, AppendIsConcat
    <2>4. Append(water, Head(waitingList)) \o <<>> = Append(water, Head(waitingList))
      BY <2>1, AppendEvent, ConcatEmptySeq
    <2> QED
      BY <1>3, <2>1, <2>3, <2>4 DEF Refill, Undelivered
  <1>4. CASE Fill
    <2>1. Head(source) \in Events /\ waitingList = <<>>
      BY <1>4, HeadTailProperties DEF Fill, Receive, BucketShape
    <2>2. water \o <<>> = water
      BY ConcatEmptySeq
    <2>3. Append(water, Head(source)) \o <<>> = Append(water, Head(source))
      BY <2>1, AppendEvent, ConcatEmptySeq
    <2> QED
      BY <1>4, <2>1, <2>2, <2>3 DEF Fill, Receive, Undelivered
  <1>5. CASE Postpone
    <2>1. Head(source) \in Events /\ waitingList = <<>>
      BY <1>5, HeadTailProperties DEF Postpone, Receive, BucketShape
    <2>2. waitingList' = Append(waitingList, Head(source))
      BY <1>5, <2>1, NoEvents, BucketAssumption DEF Postpone
    <2>3. water \o Append(waitingList, Head(source)) = Append(water \o waitingList, Head(source))
      BY <2>1, ConcatAppend
    <2> QED
      BY <1>5, <2>1, <2>2, <2>3 DEF Postpone, Receive, Undelivered
  <1>6. CASE Drain
    <2>1. <<>> \o waitingList = waitingList
      BY ConcatEmptySeq
    <2> QED
      BY <1>6, <2>1 DEF Drain, Undelivered, FullNotEmpty
  <1> QED
    BY <1>1, <1>2, <1>3, <1>4, <1>5, <1>6 DEF BucketNext, Owner

\* Nothing that fits is lost, duplicated or reordered between the channel and Drain.
THEOREM BucketInOrder == BucketSpec => []InOrder
  <1> DEFINE Order == drained \o Undelivered = taken
  <1>1. BucketInv => (Order <=> InOrder)
    <2> SUFFICES ASSUME BucketInv PROVE (drained \o water) \o waitingList = drained \o (water \o waitingList)
      BY DEF InOrder, Undelivered
    <2>1. drained \in Seq(Events) /\ water \in Seq(Events) /\ waitingList \in Seq(Events)
      BY DEF BucketInv, BucketTypeOK
    <2> HIDE DEF Events
    <2> QED
      BY <2>1, ConcatAssociative
  <1>2. BucketInit => Order
    BY NoEvents, ConcatEmptySeq DEF BucketInit, Undelivered
  <1>3. ASSUME BucketInv, Order, [BucketNext]_bucketVars PROVE Order'
    <2>1. Undelivered \in Seq(Events) /\ drained \in Seq(Events) /\ water \in Seq(Events)
          /\ waitingList \in Seq(Events)
      BY <1>3, ConcatProperties DEF BucketInv, BucketTypeOK, Undelivered
    <2>2. CASE UNCHANGED <<Undelivered, drained, taken>>
      BY <1>3, <2>2
    <2>3. ASSUME NEW e \in Events, Undelivered' = Append(Undelivered, e),
                 taken' = Append(taken, e), drained' = drained
          PROVE  Order'
      <3>1. drained \o Append(Undelivered, e) = Append(drained \o Undelivered, e)
        BY <2>1, ConcatAppend
      <3> QED
        BY <1>3, <2>3, <3>1
    <2>4. CASE Undelivered' = waitingList /\ drained' = drained \o water /\ taken' = taken
      <3>1. (drained \o water) \o waitingList = drained \o (water \o waitingList)
        BY <2>1, ConcatAssociative
      <3> QED
        BY <1>3, <2>4, <3>1 DEF Undelivered
    <2>5. CASE UNCHANGED bucketVars
      BY <1>3, <2>5 DEF bucketVars, content, Undelivered
    <2> QED
      BY <1>3, <2>2, <2>3, <2>4, <2>5, QueueSteps
  <1> QED
    BY <1>1, <1>2, <1>3, BucketInvInit, BucketInvNext, PTL DEF BucketSpec

\* The bucket implements the abstract queue of batches.
THEOREM BucketImplementsQueue == BucketSpec => ImplementsQueue
  <1>1. BucketInit => Queue!Init
    BY NoEvents, ConcatEmptySeq DEF BucketInit, Queue!Init
  <1>2. ASSUME BucketInv, [BucketNext]_bucketVars PROVE [Queue!Next]_(Queue!queueVars)
    <2>1. Undelivered \in Seq(Events) /\ drained \in Seq(Events) /\ water \in Seq(Events)
          /\ waitingList \in Seq(Events)
      BY <1>2, ConcatProperties DEF BucketInv, BucketTypeOK, Undelivered
    <2>2. CASE UNCHANGED <<Undelivered, drained, taken>>
      BY <2>2 DEF Queue!queueVars, Undelivered
    <2>3. ASSUME NEW e \in Events, Undelivered' = Append(Undelivered, e), drained' = drained
          PROVE  Queue!Next
      BY <2>3 DEF Queue!Next, Queue!Accept, Undelivered
    <2>4. CASE water # <<>> /\ Undelivered' = waitingList /\ drained' = drained \o water
      <3> DEFINE n == Len(water)
      <3>1. n \in 1..Len(Undelivered) /\ Len(Undelivered) = n + Len(waitingList)
        BY <2>1, <2>4, ConcatProperties, LenProperties, EmptySeq DEF Undelivered
      <3>2. SubSeq(Undelivered, 1, n) = water
        BY <2>1, <3>1, SubSeqOfConcat1, SubSeqFull, LenProperties DEF Undelivered
      <3>3. SubSeq(Undelivered, n + 1, Len(Undelivered)) = waitingList
        <4>1. CASE waitingList = <<>>
          BY <2>1, <3>1, <4>1, NoEvents, SubSeqEmpty, LenProperties
        <4>2. CASE waitingList # <<>>
          <5>1. Len(waitingList) \in Nat \ {0} /\ n \in Nat
            BY <2>1, <4>2, EmptySeq, LenProperties
          <5>2. SubSeq(Undelivered, n + 1, Len(Undelivered))
                  = SubSeq(waitingList, (n + 1) - n, Len(Undelivered) - n)
            BY <2>1, <3>1, <5>1, SubSeqOfConcat2 DEF Undelivered
          <5> QED
            BY <2>1, <3>1, <5>1, <5>2, SubSeqFull
        <4> QED
          BY <4>1, <4>2
      <3>4. Queue!Deliver(n)
        BY <2>4, <3>2, <3>3 DEF Queue!Deliver, Undelivered
      <3> QED
        BY <3>1, <3>4 DEF Queue!Next, Undelivered
    <2>5. CASE UNCHANGED bucketVars
      BY <2>5 DEF bucketVars, content, Queue!queueVars
    <2> QED
      BY <1>2, <2>2, <2>3, <2>4, <2>5, QueueSteps
  <1> QED
    BY <1>1, <1>2, BucketInvInit, BucketInvNext, PTL DEF BucketSpec, ImplementsQueue, Queue!Spec
=============================================================================
