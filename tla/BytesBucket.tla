----------------------------- MODULE BytesBucket -----------------------------
(***************************************************************************)
(* The event bucket of internal/reporter/bytesbucket.go: one goroutine      *)
(* (the eventSender) pours events from a channel into the bucket until it   *)
(* is full, the drain timeout passes or the reporter closes, and drains it  *)
(* when it is full.  Application goroutines put events on the channel, and  *)
(* somebody closes the `closing' channel, at any moment in between.         *)
(***************************************************************************)
EXTENDS Integers, Sequences, Batches

CONSTANTS
  HWM,           \* the high watermark, in bytes
  Sizes,         \* the sizes an encoded event can have
  SourceCap,     \* the capacity of the source channel (10000 in the code)
  WaitingLimit,  \* the waiting list takes an event while Len <= WaitingLimit (100)
  MaxEvents      \* bound: how many events the application reports

ASSUME BucketAssumption ==
  /\ HWM \in Nat
  /\ Sizes \subseteq Nat \ {0}      \* a BSON document is never empty
  /\ SourceCap \in Nat
  /\ WaitingLimit \in Nat
  /\ MaxEvents \in Nat

VARIABLES
  source,            \* the channel of encoded events
  closed,            \* the `closing' channel is closed
  pc,                \* where the owner is: "new", "idle", "refill" or "pouring"
  gracefulShutdown,  \* the option given to NewBytesBucket
  water, watermark, waitingList, full, neverDrained, droppedCount,
  drainASAP,         \* local to PourIn
  timer,             \* drainTimeout of the current PourIn: "armed" or "fired"
  offered,           \* history: how many events were put on the channel
  taken,             \* history: the events of size <= HWM received from the channel
  drained            \* history: the events handed out by Drain

content == <<water, watermark, waitingList, full, neverDrained, droppedCount>>
locals == <<pc, gracefulShutdown, drainASAP, timer>>
bucketVars == <<source, closed, content, locals, offered, taken, drained>>

Events == [id : 1..MaxEvents, size : Sizes]

BucketInit ==
  /\ source = <<>>
  /\ closed = FALSE
  /\ pc = "new"
  /\ gracefulShutdown = FALSE
  /\ water = <<>> /\ watermark = 0 /\ waitingList = <<>>
  /\ full = FALSE /\ neverDrained = TRUE /\ droppedCount = 0
  /\ drainASAP = FALSE /\ timer = "fired"
  /\ offered = 0 /\ taken = <<>> /\ drained = <<>>

-----------------------------------------------------------------------------
(* The environment. *)

\* The application puts an encoded event of `size' bytes on the channel.
Offer(size) ==
  /\ offered < MaxEvents
  /\ Len(source) < SourceCap
  /\ source' = Append(source, [id |-> offered + 1, size |-> size])
  /\ offered' = offered + 1
  /\ UNCHANGED <<closed, content, locals, taken, drained>>

\* The reporter closes the channel `closing'.
CloseIndicator ==
  /\ ~closed
  /\ closed' = TRUE
  /\ UNCHANGED <<source, content, locals, offered, taken, drained>>

-----------------------------------------------------------------------------
(* NewBytesBucket. *)

New(graceful) ==
  /\ pc = "new"
  /\ pc' = "idle"
  /\ gracefulShutdown' = graceful
  /\ UNCHANGED <<source, closed, content, drainASAP, timer, offered, taken, drained>>

-----------------------------------------------------------------------------
(* PourIn.  A call that finds the bucket full returns at once and changes   *)
(* nothing.  Otherwise the waiting list is moved into the bucket (Refill),  *)
(* then the select statement is served until the call returns.              *)

\* How many more bytes the bucket takes.
Room == HWM - watermark

PourIn ==
  /\ pc = "idle"
  /\ ~full
  /\ pc' = "refill"
  /\ UNCHANGED <<source, closed, content, gracefulShutdown, drainASAP, timer,
                 offered, taken, drained>>

Refill ==
  /\ pc = "refill"
  /\ waitingList # <<>>
  /\ Head(waitingList).size <= Room
  /\ watermark' = watermark + Head(waitingList).size
  /\ water' = Append(water, Head(waitingList))
  /\ waitingList' = Tail(waitingList)
  /\ UNCHANGED <<source, closed, full, neverDrained, droppedCount, locals,
                 offered, taken, drained>>

\* The refill loop ends; the timer is armed and the first drop is urgent.
Arm ==
  /\ pc = "refill"
  /\ waitingList # <<>> => Head(waitingList).size > Room
  /\ pc' = "pouring"
  /\ timer' = "armed"
  /\ drainASAP' = neverDrained
  /\ UNCHANGED <<source, closed, content, gracefulShutdown, offered, taken, drained>>

Receive ==
  /\ pc = "pouring"
  /\ source # <<>>
  /\ source' = Tail(source)
  /\ UNCHANGED <<closed, gracefulShutdown, neverDrained, drainASAP, timer,
                 offered, drained>>

\* An event larger than the bucket is counted and thrown away.
Discard ==
  /\ Receive
  /\ Head(source).size > HWM
  /\ droppedCount' = droppedCount + 1
  /\ UNCHANGED <<pc, water, watermark, waitingList, full, taken>>

\* An event that fits is poured in; an urgent one makes the bucket drainable.
Fill ==
  /\ Receive
  /\ Head(source).size <= HWM
  /\ Head(source).size <= Room
  /\ watermark' = watermark + Head(source).size
  /\ water' = Append(water, Head(source))
  /\ full' = drainASAP
  /\ pc' = IF drainASAP THEN "idle" ELSE "pouring"
  /\ taken' = Append(taken, Head(source))
  /\ UNCHANGED <<waitingList, droppedCount>>

\* The event has to wait for the next round (or is lost when too many wait).
Postpone ==
  /\ Receive
  /\ Head(source).size <= HWM
  /\ Head(source).size > Room
  /\ waitingList' = IF Len(waitingList) <= WaitingLimit
                      THEN Append(waitingList, Head(source))
                      ELSE waitingList
  /\ full' = TRUE
  /\ pc' = "idle"
  /\ taken' = Append(taken, Head(source))
  /\ UNCHANGED <<water, watermark, droppedCount>>

\* Mutation: the timeout makes an empty bucket drainable.
TimeoutDrainsEmpty ==
  /\ pc = "pouring"
  /\ timer = "armed"
  /\ timer' = "fired"
  /\ full' = TRUE
  /\ pc' = "idle"
  /\ UNCHANGED <<source, closed, gracefulShutdown, drainASAP, water, watermark,
                 waitingList, neverDrained, droppedCount, offered, taken, drained>>

\* The drain timeout passes with something in the bucket.
TimeoutDrain ==
  /\ pc = "pouring"
  /\ timer = "armed"
  /\ watermark # 0
  /\ timer' = "fired"
  /\ full' = TRUE
  /\ pc' = "idle"
  /\ UNCHANGED <<source, closed, gracefulShutdown, drainASAP, water, watermark,
                 waitingList, neverDrained, droppedCount, offered, taken, drained>>

\* Mutation: the timeout of an empty bucket is forgotten.
TimeoutForgotten ==
  /\ pc = "pouring"
  /\ timer = "armed"
  /\ watermark = 0
  /\ timer' = "fired"
  /\ UNCHANGED <<source, closed, content, pc, gracefulShutdown, drainASAP, offered, taken, drained>>

\* The drain timeout passes with an empty bucket: the next drop is urgent.
TimeoutEmpty ==
  /\ pc = "pouring"
  /\ timer = "armed"
  /\ watermark = 0
  /\ timer' = "fired"
  /\ drainASAP' = TRUE
  /\ UNCHANGED <<source, closed, content, pc, gracefulShutdown, offered, taken, drained>>

SeeClosing ==
  /\ pc = "pouring"
  /\ closed
  /\ full' = (gracefulShutdown /\ watermark # 0)
  /\ pc' = "idle"
  /\ UNCHANGED <<source, closed, gracefulShutdown, drainASAP, timer, water, watermark,
                 waitingList, neverDrained, droppedCount, offered, taken, drained>>

-----------------------------------------------------------------------------
(* Drain, which the owner calls only when Full() is true. *)

\* Mutation: the counter is not reset.
DrainKeepsWatermark ==
  /\ pc = "idle"
  /\ full
  /\ drained' = drained \o water
  /\ water' = <<>>
  /\ full' = FALSE
  /\ neverDrained' = FALSE
  /\ droppedCount' = 0
  /\ UNCHANGED <<source, closed, watermark, waitingList, locals, offered, taken>>

\* Mutation: the waiting list is reset with the bucket.
DrainClearsWaiting ==
  /\ pc = "idle"
  /\ full
  /\ drained' = drained \o water
  /\ water' = <<>>
  /\ watermark' = 0
  /\ waitingList' = <<>>
  /\ full' = FALSE
  /\ neverDrained' = FALSE
  /\ droppedCount' = 0
  /\ UNCHANGED <<source, closed, locals, offered, taken>>

Drain ==
  /\ pc = "idle"
  /\ full
  /\ drained' = drained \o water
  /\ water' = <<>>
  /\ watermark' = 0
  /\ full' = FALSE
  /\ neverDrained' = FALSE
  /\ droppedCount' = 0
  /\ UNCHANGED <<source, closed, waitingList, locals, offered, taken>>

-----------------------------------------------------------------------------
Owner ==
  \/ PourIn \/ Refill \/ Arm
  \/ Discard \/ Fill \/ Postpone
  \/ TimeoutDrain \/ TimeoutEmpty \/ SeeClosing
  \/ Drain

BucketNext ==
  \/ \E size \in Sizes : Offer(size)
  \/ CloseIndicator
  \/ \E graceful \in BOOLEAN : New(graceful)
  \/ Owner

BucketSpec == BucketInit /\ [][BucketNext]_bucketVars

\* The owner's goroutine keeps being scheduled and its timer does fire; nothing
\* makes the application report events or close the reporter.
FairBucketSpec ==
  /\ BucketSpec
  /\ WF_bucketVars(\E graceful \in BOOLEAN : New(graceful))
  /\ WF_bucketVars(Owner)

-----------------------------------------------------------------------------
(* Correctness. *)

BucketTypeOK ==
  /\ source \in Seq(Events)
  /\ closed \in BOOLEAN
  /\ pc \in {"new", "idle", "refill", "pouring"}
  /\ gracefulShutdown \in BOOLEAN
  /\ water \in Seq(Events)
  /\ watermark \in Nat
  /\ waitingList \in Seq(Events)
  /\ full \in BOOLEAN
  /\ neverDrained \in BOOLEAN
  /\ droppedCount \in Nat
  /\ drainASAP \in BOOLEAN
  /\ timer \in {"armed", "fired"}
  /\ offered \in Nat
  /\ taken \in Seq(Events)
  /\ drained \in Seq(Events)

\* The bucket never holds more than HWM bytes: PourIn checks the room before every
\* append, the ones from the waiting list included.  (The comment on the field says
\* the watermark may exceed HWM temporarily; no step of PourIn lets it.)
WithinHWM == watermark <= HWM

\* At most one event waits outside the bucket, so PourIn's limit on the waiting list
\* is never reached and no event is lost to it: an event is put there only by the step
\* that makes the bucket full, and the next Drain makes room for it.
WaitingAtMostOne == Len(waitingList) <= 1

\* The watermark is the number of bytes in the bucket: PourIn and Drain keep the
\* counter and the content in step.
WatermarkExact == watermark = BytesIn(water)

\* The limits above, that the counter they compare is exact, and that no variable leaves its type.
BucketLimits == BucketTypeOK /\ WithinHWM /\ WaitingAtMostOne /\ WatermarkExact

\* PourIn and Drain neither lose, duplicate nor reorder an event that fits into the
\* bucket: what was drained, what is in the bucket and what waits are, in this order,
\* exactly the events received.
InOrder == drained \o water \o waitingList = taken

\* A bucket that reports Full() holds an event.  The batch sender takes an empty batch
\* for a closed channel and stops listening (reporter_grpc.go:741), so an empty drain
\* would silence the reporter for good.
FullNotEmpty == full => water # <<>>

Queue == INSTANCE EventQueue
           WITH Event <- Events, queue <- water \o waitingList, delivered <- drained

\* The bucket implements EventQueue, the ordered queue that loses nothing and hands out
\* non-empty batches; discarding oversize events, timeouts and closing are invisible.
ImplementsQueue == Queue!Spec

\* An event received from the channel is handed out by Drain sooner or later, unless
\* the reporter closes first: the drain timeout, the urgent first drop and the waiting
\* list together leave no event behind, even when no further event arrives.
EventuallyDrained ==
  \A n \in 1..MaxEvents : (Len(taken) >= n) ~> (Len(drained) >= n \/ closed)
=============================================================================
